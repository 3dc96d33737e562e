--------------------------- MODULE LiftRun_proofs ---------------------------
(***************************************************************************)
(* Proofs about a lift.                                                    *)
(* LiftRun: over code that is as it was an Update proposes nothing, and a  *)
(* failed call costs nothing that was found before, as long as one lift is *)
(* under way at a time.  (Two at once mix their answers in the memo, and   *)
(* nothing on the server keeps them apart.)                                *)
(* LiftClaims: what the reader found comes through the weighing of claims, *)
(* and what the model says beside it neither breaks it nor counts twice.   *)
(* Containment: the levels a repository is drawn at.                       *)
(* Refinement: what a recorded answer of the model pass does to the        *)
(* skeleton it is about and to later ones.                                 *)
(***************************************************************************)
EXTENDS LiftRun, LiftClaims, Containment, Refinement,
        SequenceTheorems, FiniteSetTheorems, WellFoundedInduction, TLAPS

(* The page offers one lift at a time.                                      *)
OneAtATime ==
    \A l, k \in Lifts : lift[l].pc # "idle" /\ lift[k].pc # "idle" => l = k

(* What the memo says under a fingerprint.                                  *)
Said(t, fp) == {row.answer : row \in {r \in memo[t].rows : r.fp = fp}}

MemoHasANewest == \A t \in Tasks : memo[t].rows # {} => memo[t].last # {}

(* Whatever a lift asks for itself, nothing was known of it; whatever is    *)
(* done came to what the memo says, where the memo says anything.           *)
Unanswered(l, t) ==
    lift[l].step[t] \in {"missed", "answered", "refused"} =>
        /\ lift[l].version # 0 => Said(t, Fingerprint(l, t)) = {}
        /\ t = Overview => Drawn(l) # {}
        /\ lift[l].step[t] = "refused" => lift[l].failed

AnswerIsOne(l, t) == lift[l].step[t] = "answered" => \E n \in Answers(t) : lift[l].got[t] = {n}

DoneAsSaid(l, t) ==
    lift[l].step[t] = "done" =>
        /\ lift[l].version # 0 /\ Said(t, Fingerprint(l, t)) # {} =>
               lift[l].got[t] = Said(t, Fingerprint(l, t))
        /\ lift[l].version # 0 /\ ~lift[l].failed =>
               \/ Said(t, Fingerprint(l, t)) # {}
               \/ t = Overview /\ Drawn(l) = {}
        /\ t = Overview /\ Drawn(l) = {} /\ Said(t, Fingerprint(l, t)) = {} => lift[l].got[t] = {}
        /\ memo[t].rows # {} /\ (t = Overview => Drawn(l) # {}) => lift[l].got[t] # {}

ClaimsArrived(l, t) ==
    t \in Areas =>
        (Contains(lift[l].raw, t) <=> lift[l].step[t] = "done" /\ lift[l].got[t] # {})

OverviewIsLast(l) ==
    lift[l].step[Overview] # "queued" => \A r \in Readings : lift[l].step[r] = "done"

(* The documents are those the request read, but for the author's hand.     *)
DocAsRead(l) ==
    /\ doc.skeleton = lift[l].doc.skeleton /\ doc.readings = lift[l].doc.readings
    /\ doc.words = lift[l].doc.words /\ doc.wordsFor = lift[l].doc.wordsFor

Reused(record) == record.doc.words # Nothing /\ record.doc.wordsFor = Skeleton(record)

WordsChosen(l) ==
    /\ lift[l].pc \in {"refine", "land"} => AllDone(l)
    /\ lift[l].pc = "refine" => ~Reused(lift[l])
    /\ lift[l].pc = "land" =>
        /\ lift[l].words \in Answers(Naming) \cup {Nothing}
        /\ Reused(lift[l]) => lift[l].words = lift[l].doc.words
        /\ lift[l].doc.words # Nothing => lift[l].words # Nothing
        /\ lift[l].doc.words # Nothing /\ lift[l].words = lift[l].doc.words =>
               lift[l].wordsFor = lift[l].doc.wordsFor
        /\ ~lift[l].failed => lift[l].words # Nothing /\ lift[l].wordsFor = Skeleton(lift[l])

UnderWay ==
    \A l \in Lifts : lift[l].pc # "idle" =>
        /\ lift[l].doc.hand <= hand
        /\ DocAsRead(l) /\ WordsChosen(l) /\ OverviewIsLast(l)
        /\ \A t \in Tasks :
              Unanswered(l, t) /\ AnswerIsOne(l, t) /\ DoneAsSaid(l, t) /\ ClaimsArrived(l, t)

(* The documents of a lift in which nothing failed are what the memo says   *)
(* of that code and version.                                                *)
SettledFp(t) ==
    [version |-> settled.version,
     code    |-> IF t \in Areas THEN [a \in {t} |-> settled.code[a]] ELSE settled.code,
     inputs  |-> IF t = Overview THEN [r \in Readings |-> doc.readings[r]] ELSE <<>>]

SettledSays(t) == Said(t, SettledFp(t))

SettledOnTheMemo ==
    settled.clean /\ settled.version # 0 =>
        /\ \A t \in Readings \cup {Overview} : doc.readings[t] = SettledSays(t)
        /\ \A t \in Areas \cup Readings : SettledSays(t) # {}
        /\ SettledSays(Overview) # {} \/ \A r \in Readings : doc.readings[r] = {}
        /\ doc.skeleton =
             [code |-> settled.code,
              claims |-> [i \in DOMAIN AreaOrder |-> <<AreaOrder[i], SettledSays(AreaOrder[i])>>]]
        /\ doc.words # Nothing /\ doc.wordsFor = doc.skeleton

LiftInv == TypeOK /\ MemoHasANewest /\ UnderWay /\ SettledOnTheMemo

-----------------------------------------------------------------------------
(* Operators.                                                               *)

LEMMA OrderFacts == AreaOrder \in Seq(Areas) /\ DOMAIN AreaOrder = 1 .. Len(AreaOrder)
                    /\ Len(AreaOrder) \in Nat
                    /\ Overview \in Tasks /\ Areas \subseteq Tasks /\ Readings \subseteq Tasks
                    /\ Overview \notin Areas /\ Overview \notin Readings
                    /\ \A t \in Areas : t \notin Readings
  BY LiftAssumption DEF Tasks

LEMMA ContainsAppend ==
  ASSUME NEW seq \in Seq(Areas), NEW t \in Areas, NEW u
  PROVE  Contains(Append(seq, t), u) <=> Contains(seq, u) \/ u = t
  <1>1. Len(Append(seq, t)) = Len(seq) + 1 /\ Append(seq, t)[Len(seq) + 1] = t /\ Len(seq) \in Nat
        /\ \A i \in 1 .. Len(seq) : Append(seq, t)[i] = seq[i]
    OBVIOUS
  <1>2. 1 .. Len(seq) + 1 = (1 .. Len(seq)) \cup {Len(seq) + 1}
    BY <1>1
  <1> QED
    BY <1>1, <1>2 DEF Contains

LEMMA FinishedFacts ==
  ASSUME NEW r \in Records, NEW t \in Tasks, NEW found \in SUBSET Nat
  PROVE  LET s == Finished(r, t, found)
         IN  /\ s \in Records
             /\ s.pc = r.pc /\ s.code = r.code /\ s.version = r.version /\ s.doc = r.doc
             /\ s.failed = r.failed /\ s.words = r.words /\ s.wordsFor = r.wordsFor
             /\ s.step = [r.step EXCEPT ![t] = "done"] /\ s.got = [r.got EXCEPT ![t] = found]
             /\ s.raw = IF t \in Areas /\ found # {} THEN Append(r.raw, t) ELSE r.raw
  <1>1. PICK s : s = Finished(r, t, found)
    OBVIOUS
  <1>2. PICK raw : raw = IF t \in Areas /\ found # {} THEN Append(r.raw, t) ELSE r.raw
    OBVIOUS
  <1>3. raw \in Seq(Areas)
    BY <1>2 DEF Records
  <1>4. s = [[[r EXCEPT !.step = [r.step EXCEPT ![t] = "done"]]
                EXCEPT !.got = [r.got EXCEPT ![t] = found]] EXCEPT !.raw = raw]
    BY <1>1, <1>2 DEF Finished, Records
  <1>5. [r.step EXCEPT ![t] = "done"] \in [Tasks -> {"queued", "missed", "answered", "refused", "done"}]
        /\ [r.got EXCEPT ![t] = found] \in [Tasks -> SUBSET Nat]
    BY DEF Records
  <1>6. /\ s \in Records
        /\ s.pc = r.pc /\ s.code = r.code /\ s.version = r.version /\ s.doc = r.doc
        /\ s.failed = r.failed /\ s.words = r.words /\ s.wordsFor = r.wordsFor
        /\ s.step = [r.step EXCEPT ![t] = "done"] /\ s.got = [r.got EXCEPT ![t] = found]
        /\ s.raw = raw
    BY <1>3, <1>4, <1>5 DEF Records
  <1> QED
    BY <1>1, <1>2, <1>6

LEMMA SkeletonType == ASSUME NEW r \in Records PROVE Skeleton(r) \in Skeletons
  <1>1. ASSUME NEW i \in DOMAIN AreaOrder
        PROVE  <<AreaOrder[i], IF Contains(r.raw, AreaOrder[i]) THEN r.got[AreaOrder[i]] ELSE {}>>
                 \in Areas \X SUBSET Nat
    <2>1. AreaOrder[i] \in Areas /\ AreaOrder[i] \in Tasks
      BY OrderFacts
    <2>2. r.got[AreaOrder[i]] \in SUBSET Nat
      BY <2>1 DEF Records
    <2> QED
      BY <2>1, <2>2
  <1>2. Weighed(r) \in [1 .. Len(AreaOrder) -> Areas \X SUBSET Nat]
    BY <1>1, OrderFacts DEF Weighed
  <1>3. Weighed(r) \in Seq(Areas \X SUBSET Nat)
    BY <1>2, OrderFacts, SeqDef
  <1> QED
    BY <1>3 DEF Skeleton, Skeletons, Records

LEMMA NothingTypes ==
  /\ NoSkeleton \in Skeletons /\ NoDoc \in Docs /\ NoLift \in Records
  /\ NoLift.pc = "idle" /\ NoDoc.words = 0 /\ NoDoc.hand = 0
  /\ \A t \in Tasks : NoLift.got[t] = {} /\ NoLift.step[t] = "queued"
  <1>0. <<>> \in Seq(Areas \X SUBSET Nat) /\ <<>> \in Seq(Areas) /\ 0 \in 0 .. Edits /\ 0 \in 0 .. MaxAnswers
        /\ 0 \in 0 .. Upgrades
    BY LiftAssumption
  <1>1. NoSkeleton \in Skeletons
    BY <1>0 DEF NoSkeleton, Skeletons
  <1>2. NoDoc \in Docs /\ NoDoc.words = 0 /\ NoDoc.hand = 0
    BY <1>0, <1>1 DEF NoDoc, Docs, Nothing
  <1>3. NoLift \in Records
    BY <1>0, <1>1, <1>2 DEF NoLift, Records, Nothing
  <1> QED
    BY <1>1, <1>2, <1>3 DEF NoLift

LEMMA ProposalType ==
  ASSUME NEW r \in Records
  PROVE  LET p == Proposal(r)
         IN  /\ p \in Docs
             /\ p.skeleton = Skeleton(r) /\ p.readings = [q \in Readings \cup {Overview} |-> r.got[q]]
             /\ p.words = r.words /\ p.wordsFor = r.wordsFor /\ p.hand = r.doc.hand
  <1>1. Skeleton(r) \in Skeletons
    BY SkeletonType
  <1>2. \A q \in Readings \cup {Overview} : r.got[q] \in SUBSET Nat
    BY OrderFacts DEF Records
  <1>3. r.doc.hand \in Nat
    BY DEF Records, Docs
  <1> QED
    BY <1>1, <1>2, <1>3 DEF Proposal, Docs, Records

-----------------------------------------------------------------------------
(* The types.                                                               *)

(* What the types say of answers, of which more are given.                  *)
LEMMA MoreAnswers ==
  ASSUME TypeOK, NEW q \in Tasks \cup {Naming}, answers[q] < MaxAnswers,
         answers' = [answers EXCEPT ![q] = @ + 1]
  PROVE  /\ answers' \in [Tasks \cup {Naming} -> 0 .. MaxAnswers]
         /\ answers'[q] = answers[q] + 1 /\ answers'[q] \in 1 .. MaxAnswers
         /\ answers'[q] \in Answers(q)' /\ answers'[q] \notin Answers(q)
         /\ \A p \in Tasks \cup {Naming} : Answers(p) \subseteq Answers(p)'
         /\ \A p \in Tasks \cup {Naming} : p # q => answers'[p] = answers[p]
  <1>1. answers \in [Tasks \cup {Naming} -> 0 .. MaxAnswers] /\ answers[q] \in 0 .. MaxAnswers
        /\ MaxAnswers \in Nat
    BY LiftAssumption DEF TypeOK
  <1>2. answers[q] + 1 \in 1 .. MaxAnswers /\ answers[q] + 1 \in 0 .. MaxAnswers
    BY <1>1
  <1>3. answers' \in [Tasks \cup {Naming} -> 0 .. MaxAnswers] /\ answers'[q] = answers[q] + 1
        /\ \A p \in Tasks \cup {Naming} : p # q => answers'[p] = answers[p]
    BY <1>1, <1>2
  <1>4. \A p \in Tasks \cup {Naming} : answers[p] \in 0 .. MaxAnswers /\ answers'[p] \in 0 .. MaxAnswers
                                       /\ answers[p] <= answers'[p]
    BY <1>1, <1>2, <1>3
  <1>5. \A p \in Tasks \cup {Naming} : Answers(p) \subseteq Answers(p)'
    BY <1>4 DEF Answers
  <1>6. answers'[q] \in Answers(q)' /\ answers'[q] \notin Answers(q)
    BY <1>1, <1>2, <1>3 DEF Answers
  <1> QED
    BY <1>2, <1>3, <1>5, <1>6

LEMMA SameAnswers ==
  ASSUME answers' = answers
  PROVE  \A p : Answers(p)' = Answers(p)
  BY DEF Answers

LEMMA InitTypes == Init => TypeOK
  <1> SUFFICES ASSUME Init PROVE TypeOK
    OBVIOUS
  <1>1. code \in [Areas -> 1 .. Edits] /\ version \in 1 .. Upgrades /\ hand \in Nat
        /\ answers \in [Tasks \cup {Naming} -> 0 .. MaxAnswers] /\ started \in 0 .. MaxLifts
        /\ failures \in 0 .. MaxFailures
        /\ settled \in [code : [Areas -> 0 .. Edits], version : 0 .. Upgrades, clean : BOOLEAN]
    BY LiftAssumption DEF Init
  <1>2. doc \in Docs /\ doc.hand <= hand /\ doc.words \in Answers(Naming) \cup {Nothing}
    BY NothingTypes DEF Init, Nothing
  <1>3. DOMAIN memo = Tasks
        /\ \A t \in Tasks : memo[t].last \subseteq Answers(t) /\ \A row \in memo[t].rows : row.answer \in Answers(t)
    BY DEF Init
  <1>4. lift \in [Lifts -> Records] /\ \A l \in Lifts : \A t \in Tasks : lift[l].got[t] \subseteq Answers(t)
    BY NothingTypes DEF Init
  <1> QED
    BY <1>1, <1>2, <1>3, <1>4 DEF TypeOK

(* Answers are numbers; fewer of them stay fewer.                           *)
LEMMA AnswersAreNumbers ==
  ASSUME TypeOK
  PROVE  \A t \in Tasks \cup {Naming} : Answers(t) \subseteq 1 .. MaxAnswers /\ Answers(t) \subseteq Nat
  <1>1. \A t \in Tasks \cup {Naming} : answers[t] \in 0 .. MaxAnswers
    BY DEF TypeOK
  <1> QED
    BY <1>1, LiftAssumption DEF Answers

(* A step of one lift, whose answers are answers that were given.           *)
LEMMA LiftTypes ==
  ASSUME TypeOK, NEW l \in Lifts, NEW r \in Records, lift' = [lift EXCEPT ![l] = r],
         \A p \in Tasks \cup {Naming} : Answers(p) \subseteq Answers(p)',
         \A t \in Tasks : r.got[t] \subseteq Answers(t)'
  PROVE  /\ lift' \in [Lifts -> Records] /\ lift'[l] = r
         /\ \A k \in Lifts : k # l => lift'[k] = lift[k]
         /\ \A k \in Lifts : \A t \in Tasks : lift'[k].got[t] \subseteq Answers(t)'
         /\ doc' = doc /\ hand' = hand =>
               doc' \in Docs /\ doc'.hand <= hand' /\ doc'.words \in Answers(Naming)' \cup {Nothing}
         /\ memo' = memo =>
               \A t \in Tasks : /\ memo'[t].last \subseteq Answers(t)'
                                /\ \A row \in memo'[t].rows : row.answer \in Answers(t)'
  <1>1. lift' \in [Lifts -> Records] /\ lift'[l] = r /\ \A k \in Lifts : k # l => lift'[k] = lift[k]
    BY DEF TypeOK
  <1>2. \A k \in Lifts : \A t \in Tasks : lift'[k].got[t] \subseteq Answers(t)'
    <2> SUFFICES ASSUME NEW k \in Lifts, NEW t \in Tasks PROVE lift'[k].got[t] \subseteq Answers(t)'
      OBVIOUS
    <2>1. CASE k = l
      BY <1>1, <2>1
    <2>2. CASE k # l
      <3>1. lift[k].got[t] \subseteq Answers(t) /\ Answers(t) \subseteq Answers(t)'
        BY DEF TypeOK
      <3> QED
        BY <1>1, <2>2, <3>1
    <2> QED
      BY <2>1, <2>2
  <1>3. doc' = doc /\ hand' = hand =>
          doc' \in Docs /\ doc'.hand <= hand' /\ doc'.words \in Answers(Naming)' \cup {Nothing}
    BY DEF TypeOK
  <1>4. memo' = memo =>
          \A t \in Tasks : /\ memo'[t].last \subseteq Answers(t)'
                           /\ \A row \in memo'[t].rows : row.answer \in Answers(t)'
    BY DEF TypeOK
  <1> QED
    BY <1>1, <1>2, <1>3, <1>4

LEMMA FailTypes == ASSUME TypeOK, NEW what, Fails(what) PROVE failures' \in 0 .. MaxFailures
  BY LiftAssumption DEF TypeOK, Fails

(* What every step of a worker leaves alone: the other tasks, the other     *)
(* lifts, what the request read.                                            *)
TaskStep(l, t) ==
  /\ lift[l].pc = "asking" /\ lift[l].step[t] # "done" /\ lift'[l].pc = "asking"
  /\ lift'[l].code = lift[l].code /\ lift'[l].version = lift[l].version /\ lift'[l].doc = lift[l].doc
  /\ lift[l].failed => lift'[l].failed
  /\ \A k \in Lifts : k # l => lift'[k] = lift[k]
  /\ \A u \in Tasks : u # t =>
        /\ lift'[l].step[u] = lift[l].step[u] /\ lift'[l].got[u] = lift[l].got[u]
        /\ memo'[u] = memo[u] /\ answers'[u] = answers[u]
        /\ Contains(lift'[l].raw, u) <=> Contains(lift[l].raw, u)
  /\ doc' = doc /\ hand' = hand /\ settled' = settled

(* The task is done, with what was found of it.                             *)
FinishesWith(l, t, found) ==
  /\ TypeOK' /\ TaskStep(l, t) /\ lift'[l].step[t] = "done" /\ lift'[l].got[t] = found
  /\ t \in Areas => (Contains(lift'[l].raw, t) <=> Contains(lift[l].raw, t) \/ found # {})

LEMMA FinishesTask ==
  ASSUME TypeOK, NEW l \in Lifts, NEW t \in Tasks, NEW found \in SUBSET Answers(t), NEW r,
         lift[l].pc = "asking", lift[l].step[t] # "done",
         r = Finished(lift[l], t, found) \/ r = [Finished(lift[l], t, found) EXCEPT !.failed = TRUE],
         lift' = [lift EXCEPT ![l] = r],
         DOMAIN memo' = Tasks, \A u \in Tasks : u # t => memo'[u] = memo[u],
         \A u \in Tasks : /\ memo'[u].last \subseteq Answers(u)
                          /\ \A row \in memo'[u].rows : row.answer \in Answers(u),
         failures' \in 0 .. MaxFailures,
         UNCHANGED <<code, version, hand, doc, answers, started, settled>>
  PROVE  FinishesWith(l, t, found)
  <1>1. PICK s : s = Finished(lift[l], t, found)
    OBVIOUS
  <1>2. lift[l] \in Records /\ found \in SUBSET Nat
    BY AnswersAreNumbers DEF TypeOK
  <1>3. /\ s \in Records
        /\ s.pc = lift[l].pc /\ s.code = lift[l].code /\ s.version = lift[l].version
        /\ s.doc = lift[l].doc /\ s.failed = lift[l].failed
        /\ s.step = [lift[l].step EXCEPT ![t] = "done"] /\ s.got = [lift[l].got EXCEPT ![t] = found]
        /\ s.raw = IF t \in Areas /\ found # {} THEN Append(lift[l].raw, t) ELSE lift[l].raw
    <2>1. PICK o : o = lift[l]
      OBVIOUS
    <2>2. o \in Records /\ found \in SUBSET Nat /\ s = Finished(o, t, found)
      BY ONLY <1>1, <1>2, <2>1
    <2>3. /\ s \in Records
          /\ s.pc = o.pc /\ s.code = o.code /\ s.version = o.version
          /\ s.doc = o.doc /\ s.failed = o.failed
          /\ s.step = [o.step EXCEPT ![t] = "done"] /\ s.got = [o.got EXCEPT ![t] = found]
          /\ s.raw = IF t \in Areas /\ found # {} THEN Append(o.raw, t) ELSE o.raw
      BY ONLY <2>2, FinishedFacts, t \in Tasks
    <2> QED
      BY ONLY <2>1, <2>3
  <1>4. lift[l].step \in [Tasks -> {"queued", "missed", "answered", "refused", "done"}]
         /\ lift[l].got \in [Tasks -> SUBSET Nat]
    BY <1>2 DEF Records
  <1>5. s.got[t] = found /\ s.step[t] = "done"
         /\ \A u \in Tasks : u # t => s.got[u] = lift[l].got[u] /\ s.step[u] = lift[l].step[u]
    BY <1>3, <1>4
  <1>6. \A u \in Tasks : s.got[u] \subseteq Answers(u)
    <2>1. \A u \in Tasks : lift[l].got[u] \subseteq Answers(u)
      BY DEF TypeOK
    <2> QED
      BY <1>5, <2>1
  <1>7. /\ s \in Records
        /\ s.pc = lift[l].pc /\ s.code = lift[l].code /\ s.version = lift[l].version
        /\ s.doc = lift[l].doc /\ s.failed = lift[l].failed
        /\ s.raw = IF t \in Areas /\ found # {} THEN Append(lift[l].raw, t) ELSE lift[l].raw
        /\ s.got[t] = found /\ s.step[t] = "done"
        /\ \A u \in Tasks : u # t => s.got[u] = lift[l].got[u] /\ s.step[u] = lift[l].step[u]
        /\ \A u \in Tasks : s.got[u] \subseteq Answers(u)
    BY <1>3, <1>5, <1>6
  <1>8. /\ r \in Records
        /\ r.pc = "asking" /\ r.code = lift[l].code /\ r.version = lift[l].version
        /\ r.doc = lift[l].doc /\ (lift[l].failed => r.failed)
        /\ r.raw = s.raw /\ r.got = s.got /\ r.step = s.step
    <2>1. CASE r = s
      BY <1>7, <2>1
    <2>2. CASE r = [s EXCEPT !.failed = TRUE]
      BY <1>7, <2>2 DEF Records
    <2> QED
      BY <1>1, <2>1, <2>2
  <1>9. \A p : Answers(p)' = Answers(p)
    BY SameAnswers
  <1>10. \A u \in Tasks : r.got[u] \subseteq Answers(u)'
    BY <1>7, <1>8, <1>9
  <1>11. /\ lift' \in [Lifts -> Records] /\ lift'[l] = r
         /\ \A k \in Lifts : k # l => lift'[k] = lift[k]
         /\ \A k \in Lifts : \A u \in Tasks : lift'[k].got[u] \subseteq Answers(u)'
         /\ doc' \in Docs /\ doc'.hand <= hand' /\ doc'.words \in Answers(Naming)' \cup {Nothing}
    BY <1>8, <1>9, <1>10, LiftTypes
  <1>12. TypeOK'
    <2>1. \A u \in Tasks : /\ memo'[u].last \subseteq Answers(u)'
                           /\ \A row \in memo'[u].rows : row.answer \in Answers(u)'
      BY <1>9
    <2>2. /\ code' \in [Areas -> 1 .. Edits] /\ version' \in 1 .. Upgrades /\ hand' \in Nat
          /\ answers' \in [Tasks \cup {Naming} -> 0 .. MaxAnswers] /\ started' \in 0 .. MaxLifts
          /\ failures' \in 0 .. MaxFailures /\ DOMAIN memo' = Tasks
          /\ settled' \in [code : [Areas -> 0 .. Edits], version : 0 .. Upgrades, clean : BOOLEAN]
      BY DEF TypeOK
    <2> QED
      BY <1>11, <2>1, <2>2 DEF TypeOK
  <1>13. lift[l].raw \in Seq(Areas)
    BY DEF TypeOK, Records
  <1>14. \A u \in Tasks : u # t => (Contains(r.raw, u) <=> Contains(lift[l].raw, u))
    BY <1>7, <1>8, <1>13, ContainsAppend
  <1>15. t \in Areas => (Contains(r.raw, t) <=> Contains(lift[l].raw, t) \/ found # {})
    BY <1>7, <1>8, <1>13, ContainsAppend
  <1>16. TaskStep(l, t)
    BY <1>7, <1>8, <1>11, <1>14 DEF TaskStep
  <1> QED
    BY <1>7, <1>8, <1>11, <1>12, <1>15, <1>16 DEF FinishesWith

(* The task goes on, to another step.                                       *)
GoesOn(l, t, step) ==
  /\ TypeOK' /\ TaskStep(l, t) /\ lift'[l].step[t] = step /\ memo' = memo
  /\ lift'[l].raw = lift[l].raw

LEMMA TaskGoesOn ==
  ASSUME TypeOK, NEW l \in Lifts, NEW t \in Tasks, NEW r \in Records,
         NEW step, lift[l].pc = "asking", lift[l].step[t] # "done",
         r.pc = "asking", r.code = lift[l].code, r.version = lift[l].version, r.doc = lift[l].doc,
         lift[l].failed => r.failed, r.raw = lift[l].raw,
         r.step = [lift[l].step EXCEPT ![t] = step],
         \A u \in Tasks : u # t => r.got[u] = lift[l].got[u] /\ answers'[u] = answers[u],
         r.got[t] \subseteq Answers(t)',
         \A p \in Tasks \cup {Naming} : Answers(p) \subseteq Answers(p)',
         answers' \in [Tasks \cup {Naming} -> 0 .. MaxAnswers],
         lift' = [lift EXCEPT ![l] = r], failures' \in 0 .. MaxFailures,
         UNCHANGED <<code, version, hand, doc, memo, started, settled>>
  PROVE  GoesOn(l, t, step)
  <1>1. lift[l].step \in [Tasks -> {"queued", "missed", "answered", "refused", "done"}]
    BY DEF TypeOK, Records
  <1>2. r.step[t] = step /\ \A u \in Tasks : u # t => r.step[u] = lift[l].step[u]
    BY <1>1
  <1>3. \A u \in Tasks : r.got[u] \subseteq Answers(u)'
    <2> SUFFICES ASSUME NEW u \in Tasks PROVE r.got[u] \subseteq Answers(u)'
      OBVIOUS
    <2>1. CASE u = t
      BY <2>1
    <2>2. CASE u # t
      <3>1. lift[l].got[u] \subseteq Answers(u) /\ Answers(u) \subseteq Answers(u)'
        BY DEF TypeOK
      <3> QED
        BY <2>2, <3>1
    <2> QED
      BY <2>1, <2>2
  <1>4. /\ lift' \in [Lifts -> Records] /\ lift'[l] = r
        /\ \A k \in Lifts : k # l => lift'[k] = lift[k]
        /\ \A k \in Lifts : \A u \in Tasks : lift'[k].got[u] \subseteq Answers(u)'
        /\ doc' \in Docs /\ doc'.hand <= hand' /\ doc'.words \in Answers(Naming)' \cup {Nothing}
        /\ \A u \in Tasks : /\ memo'[u].last \subseteq Answers(u)'
                            /\ \A row \in memo'[u].rows : row.answer \in Answers(u)'
    BY <1>3, LiftTypes
  <1>5. TypeOK'
    BY <1>4 DEF TypeOK
  <1> QED
    BY <1>2, <1>4, <1>5 DEF GoesOn, TaskStep

(* A worker looks a task up.                                                *)
LEMMA RecallStep ==
  ASSUME TypeOK, NEW l \in Lifts, NEW t \in Tasks, Recall(l, t)
  PROVE  /\ lift[l].step[t] = "queued" /\ memo' = memo
         /\ t = Overview => \A r \in Readings : lift[l].step[r] = "done"
         /\ \/ /\ Known(l, t) # {} /\ FinishesWith(l, t, {row.answer : row \in Known(l, t)})
            \/ /\ Known(l, t) = {} /\ t = Overview /\ Drawn(l) = {} /\ FinishesWith(l, t, {})
            \/ /\ Known(l, t) = {} /\ (t = Overview => Drawn(l) # {}) /\ GoesOn(l, t, "missed")
  <1>1. /\ lift[l].pc = "asking" /\ lift[l].step[t] = "queued" /\ memo' = memo
        /\ t = Overview => \A r \in Readings : lift[l].step[r] = "done"
        /\ UNCHANGED <<code, version, hand, doc, memo, answers, started, failures, settled>>
    BY DEF Recall, Ready
  <1>2. /\ \A u \in Tasks : /\ memo'[u].last \subseteq Answers(u)
                            /\ \A row \in memo'[u].rows : row.answer \in Answers(u)
        /\ failures' \in 0 .. MaxFailures /\ DOMAIN memo' = Tasks
    BY <1>1 DEF TypeOK
  <1>3. CASE Known(l, t) # {}
    <2>1. {row.answer : row \in Known(l, t)} \in SUBSET Answers(t)
      BY DEF Known, TypeOK
    <2>2. PICK r : r = Finished(lift[l], t, {row.answer : row \in Known(l, t)})
      OBVIOUS
    <2>3. lift' = [lift EXCEPT ![l] = r]
      BY <1>3, <2>2 DEF Recall
    <2>4. FinishesWith(l, t, {row.answer : row \in Known(l, t)})
      BY <1>1, <1>2, <2>1, <2>2, <2>3, FinishesTask
    <2> QED
      BY <1>1, <1>3, <2>4
  <1>4. CASE Known(l, t) = {} /\ t = Overview /\ Drawn(l) = {}
    <2>1. PICK r : r = Finished(lift[l], t, {})
      OBVIOUS
    <2>2. lift' = [lift EXCEPT ![l] = r]
      BY <1>4, <2>1 DEF Recall
    <2>3. FinishesWith(l, t, {})
      BY <1>1, <1>2, <2>1, <2>2, FinishesTask
    <2> QED
      BY <1>1, <1>4, <2>3
  <1>5. CASE Known(l, t) = {} /\ ~(t = Overview /\ Drawn(l) = {})
    <2>1. PICK r : r = [lift[l] EXCEPT !.step = [lift[l].step EXCEPT ![t] = "missed"]]
      OBVIOUS
    <2>2. lift' = [lift EXCEPT ![l] = r]
      BY <1>5, <2>1 DEF Recall
    <2>3. lift[l] \in Records /\ lift[l].step \in [Tasks -> {"queued", "missed", "answered", "refused", "done"}]
      BY DEF TypeOK, Records
    <2>4. r \in Records /\ r.pc = lift[l].pc /\ r.code = lift[l].code /\ r.version = lift[l].version
          /\ r.doc = lift[l].doc /\ r.failed = lift[l].failed /\ r.raw = lift[l].raw
          /\ r.step = [lift[l].step EXCEPT ![t] = "missed"] /\ r.got = lift[l].got
      BY <2>1, <2>3 DEF Records
    <2>5. \A p : Answers(p)' = Answers(p)
      BY <1>1, SameAnswers
    <2>6. r.got[t] \subseteq Answers(t)' /\ answers' \in [Tasks \cup {Naming} -> 0 .. MaxAnswers]
      BY <1>1, <2>4, <2>5 DEF TypeOK
    <2>7. GoesOn(l, t, "missed")
      BY <1>1, <1>2, <2>2, <2>4, <2>5, <2>6, TaskGoesOn
    <2> QED
      BY <1>1, <1>5, <2>7
  <1> QED
    BY <1>3, <1>4, <1>5

(* A worker asks, and is answered with something new or refused.            *)
LEMMA AskStep ==
  ASSUME TypeOK, NEW l \in Lifts, NEW t \in Tasks, Ask(l, t)
  PROVE  /\ lift[l].step[t] = "missed" /\ memo' = memo
         /\ \/ /\ GoesOn(l, t, "answered")
               /\ \E n \in Answers(t)' : lift'[l].got[t] = {n}
            \/ GoesOn(l, t, "refused") /\ lift'[l].failed
  <1>1. /\ lift[l].pc = "asking" /\ lift[l].step[t] = "missed" /\ memo' = memo
        /\ UNCHANGED <<code, version, hand, doc, memo, started, settled>>
    BY DEF Ask, Ready
  <1>2. lift[l] \in Records /\ lift[l].step \in [Tasks -> {"queued", "missed", "answered", "refused", "done"}]
        /\ lift[l].got \in [Tasks -> SUBSET Nat]
    BY DEF TypeOK, Records
  <1>3. CASE /\ answers[t] < MaxAnswers
             /\ answers' = [answers EXCEPT ![t] = @ + 1]
             /\ lift' = [lift EXCEPT ![l].step[t] = "answered", ![l].got[t] = {answers'[t]}]
             /\ UNCHANGED failures
    <2>1. /\ answers' \in [Tasks \cup {Naming} -> 0 .. MaxAnswers] /\ answers'[t] \in 1 .. MaxAnswers
          /\ answers'[t] \in Answers(t)'
          /\ \A p \in Tasks \cup {Naming} : Answers(p) \subseteq Answers(p)'
          /\ \A p \in Tasks \cup {Naming} : p # t => answers'[p] = answers[p]
      BY <1>3, MoreAnswers
    <2>2. PICK r : r = [[lift[l] EXCEPT !.step = [lift[l].step EXCEPT ![t] = "answered"]]
                           EXCEPT !.got = [lift[l].got EXCEPT ![t] = {answers'[t]}]]
      OBVIOUS
    <2>3. PICK n : n = answers'[t]
      OBVIOUS
    <2>4. n \in Nat
      BY <2>1, <2>3
    <2>5. r \in Records /\ r.pc = lift[l].pc /\ r.code = lift[l].code /\ r.version = lift[l].version
          /\ r.doc = lift[l].doc /\ r.failed = lift[l].failed /\ r.raw = lift[l].raw
          /\ r.step = [lift[l].step EXCEPT ![t] = "answered"] /\ r.got = [lift[l].got EXCEPT ![t] = {n}]
      BY <1>2, <2>2, <2>3, <2>4 DEF Records
    <2>6. r.got[t] = {n} /\ \A u \in Tasks : u # t => r.got[u] = lift[l].got[u]
      BY <1>2, <2>5
    <2>7. lift' = [lift EXCEPT ![l] = r]
      BY <1>2, <1>3, <2>2 DEF Records, TypeOK
    <2>8. r.got[t] \subseteq Answers(t)' /\ failures' \in 0 .. MaxFailures
      BY <1>3, <2>1, <2>3, <2>6 DEF TypeOK
    <2>9. GoesOn(l, t, "answered")
      <3>1. /\ lift[l].pc = "asking" /\ lift[l].step[t] # "done"
            /\ r \in Records /\ r.pc = "asking" /\ r.code = lift[l].code /\ r.version = lift[l].version
            /\ r.doc = lift[l].doc /\ r.raw = lift[l].raw
            /\ lift[l].failed => r.failed
            /\ r.step = [lift[l].step EXCEPT ![t] = "answered"]
        BY <1>1, <2>5
      <3>2. \A u \in Tasks : u # t => r.got[u] = lift[l].got[u] /\ answers'[u] = answers[u]
        BY <2>1, <2>6
      <3> QED
        BY <1>1, <2>1, <2>7, <2>8, <3>1, <3>2, TaskGoesOn
    <2>10. lift'[l] = r
      BY <2>7 DEF TypeOK
    <2> QED
      BY <1>1, <2>1, <2>3, <2>6, <2>9, <2>10
  <1>4. CASE /\ Fails("ask")
             /\ lift' = [lift EXCEPT ![l].step[t] = "refused", ![l].failed = TRUE]
             /\ UNCHANGED answers
    <2>1. PICK r : r = [[lift[l] EXCEPT !.step = [lift[l].step EXCEPT ![t] = "refused"]] EXCEPT !.failed = TRUE]
      OBVIOUS
    <2>2. r \in Records /\ r.pc = lift[l].pc /\ r.code = lift[l].code /\ r.version = lift[l].version
          /\ r.doc = lift[l].doc /\ r.failed = TRUE /\ r.raw = lift[l].raw
          /\ r.step = [lift[l].step EXCEPT ![t] = "refused"] /\ r.got = lift[l].got
      BY <1>2, <2>1 DEF Records
    <2>3. lift' = [lift EXCEPT ![l] = r]
      BY <1>2, <1>4, <2>1 DEF Records, TypeOK
    <2>4. \A p : Answers(p)' = Answers(p)
      BY <1>4, SameAnswers
    <2>5. r.got[t] \subseteq Answers(t)' /\ answers' \in [Tasks \cup {Naming} -> 0 .. MaxAnswers]
          /\ failures' \in 0 .. MaxFailures
      BY <1>4, <2>2, <2>4, FailTypes DEF TypeOK
    <2>6. GoesOn(l, t, "refused")
      BY <1>1, <1>4, <2>2, <2>3, <2>4, <2>5, TaskGoesOn
    <2>7. lift'[l] = r
      BY <2>3 DEF TypeOK
    <2> QED
      BY <1>1, <2>2, <2>6, <2>7
  <1> QED
    BY <1>3, <1>4 DEF Ask

(* The answer is written down.                                              *)
LEMMA RememberStep ==
  ASSUME TypeOK, NEW l \in Lifts, NEW t \in Tasks, AnswerIsOne(l, t), Remember(l, t)
  PROVE  /\ lift[l].step[t] = "answered"
         /\ FinishesWith(l, t, lift[l].got[t])
         /\ \E n \in Answers(t) :
               /\ lift[l].got[t] = {n}
               /\ IF lift[l].version = 0 THEN memo' = memo
                  ELSE /\ memo'[t].rows = {row \in memo[t].rows : row.fp # Fingerprint(l, t)}
                                            \cup {[fp |-> Fingerprint(l, t), answer |-> n]}
                       /\ memo'[t].last = {n}
  <1>1. /\ lift[l].pc = "asking" /\ lift[l].step[t] = "answered"
        /\ lift' = [lift EXCEPT ![l] = Finished(lift[l], t, lift[l].got[t])]
        /\ UNCHANGED <<code, version, hand, doc, answers, started, failures, settled>>
    BY DEF Remember, TypeOK
  <1>2. PICK n \in Answers(t) : lift[l].got[t] = {n}
    BY <1>1 DEF AnswerIsOne
  <1>3. (CHOOSE m \in lift[l].got[t] : TRUE) = n
    BY <1>2
  <1>4. PICK fp : fp = Fingerprint(l, t)
    OBVIOUS
  <1>5. IF lift[l].version = 0 THEN memo' = memo ELSE memo' = [memo EXCEPT ![t] = Put(memo[t], fp, n)]
    BY <1>3, <1>4 DEF Remember
  <1>6. DOMAIN memo = Tasks
    BY DEF TypeOK
  <1>7. IF lift[l].version = 0 THEN memo' = memo
        ELSE /\ memo'[t].rows = {row \in memo[t].rows : row.fp # fp} \cup {[fp |-> fp, answer |-> n]}
             /\ memo'[t].last = {n}
    <2>1. CASE lift[l].version = 0
      BY <1>5, <2>1
    <2>2. CASE lift[l].version # 0
      <3>1. memo'[t] = Put(memo[t], fp, n)
        BY <1>5, <1>6, <2>2
      <3> QED
        BY <2>2, <3>1 DEF Put
    <2> QED
      BY <2>1, <2>2
  <1>8. DOMAIN memo' = Tasks /\ \A u \in Tasks : u # t => memo'[u] = memo[u]
    BY <1>5, <1>6
  <1>9. \A u \in Tasks : /\ memo'[u].last \subseteq Answers(u)
                         /\ \A row \in memo'[u].rows : row.answer \in Answers(u)
    <2> SUFFICES ASSUME NEW u \in Tasks
                 PROVE  /\ memo'[u].last \subseteq Answers(u)
                        /\ \A row \in memo'[u].rows : row.answer \in Answers(u)
      OBVIOUS
    <2>1. memo[u].last \subseteq Answers(u) /\ \A row \in memo[u].rows : row.answer \in Answers(u)
      BY DEF TypeOK
    <2>2. CASE memo'[u] = memo[u]
      BY <2>1, <2>2
    <2>3. CASE u = t /\ lift[l].version # 0
      <3>1. [fp |-> fp, answer |-> n].answer = n
        OBVIOUS
      <3>2. memo'[u].last = {n} /\ \A row \in memo'[u].rows : row \in memo[u].rows \/ row.answer = n
        BY <1>7, <2>3, <3>1
      <3> QED
        BY <1>2, <2>1, <2>3, <3>2
    <2> QED
      <3>1. CASE u # t
        BY <1>8, <2>2, <3>1
      <3>2. CASE u = t /\ lift[l].version = 0
        <4>1. memo' = memo
          BY <1>7, <3>2
        <4> QED
          BY <2>2, <4>1
      <3> QED
        BY <2>3, <3>1, <3>2
  <1>10. lift[l].got[t] \in SUBSET Answers(t) /\ failures' \in 0 .. MaxFailures
    BY <1>1, <1>2 DEF TypeOK
  <1>11. PICK r : r = Finished(lift[l], t, lift[l].got[t])
    OBVIOUS
  <1>12. FinishesWith(l, t, lift[l].got[t])
    BY <1>1, <1>8, <1>9, <1>10, <1>11, FinishesTask
  <1> QED
    BY <1>1, <1>2, <1>4, <1>7, <1>12

(* The answer cannot be written down.                                       *)
LEMMA NotRememberedStep ==
  ASSUME TypeOK, NEW l \in Lifts, NEW t \in Tasks, NotRemembered(l, t)
  PROVE  /\ lift[l].step[t] = "answered" /\ memo' = memo /\ lift'[l].failed = TRUE
         /\ FinishesWith(l, t, lift[l].got[t] \cup IF t \in Areas THEN Latest(t) ELSE {})
  <1>1. /\ lift[l].pc = "asking" /\ lift[l].step[t] = "answered" /\ memo' = memo /\ Fails("put")
        /\ UNCHANGED <<code, version, hand, doc, memo, answers, started, settled>>
    BY DEF NotRemembered
  <1>2. PICK found : found = lift[l].got[t] \cup IF t \in Areas THEN Latest(t) ELSE {}
    OBVIOUS
  <1>3. PICK s : s = Finished(lift[l], t, found)
    OBVIOUS
  <1>4. PICK r : r = [s EXCEPT !.failed = TRUE]
    OBVIOUS
  <1>5. lift' = [lift EXCEPT ![l] = r]
    BY <1>2, <1>3, <1>4 DEF NotRemembered, TypeOK
  <1>6. lift[l].got[t] \subseteq Answers(t) /\ memo[t].last \subseteq Answers(t)
    BY DEF TypeOK
  <1>7. found \in SUBSET Answers(t)
    BY <1>2, <1>6 DEF Latest
  <1>8. /\ failures' \in 0 .. MaxFailures /\ DOMAIN memo' = Tasks
        /\ \A u \in Tasks : /\ memo'[u].last \subseteq Answers(u)
                             /\ \A row \in memo'[u].rows : row.answer \in Answers(u)
    BY <1>1, FailTypes DEF TypeOK
  <1>9. FinishesWith(l, t, found)
    BY <1>1, <1>3, <1>4, <1>5, <1>7, <1>8, FinishesTask
  <1>10. s \in Records
    <2>1. lift[l] \in Records
      BY DEF TypeOK
    <2>2. found \in SUBSET Nat
      BY <1>7, AnswersAreNumbers
    <2> QED
      BY ONLY <1>3, <2>1, <2>2, FinishedFacts, t \in Tasks
  <1>11. lift'[l].failed = TRUE
    BY <1>4, <1>5, <1>10 DEF TypeOK, Records
  <1> QED
    BY <1>1, <1>2, <1>9, <1>11

(* The task is taken for what it was last found to be.                      *)
LEMMA LastStandsStep ==
  ASSUME TypeOK, NEW l \in Lifts, NEW t \in Tasks, LastStands(l, t)
  PROVE  /\ lift[l].step[t] = "refused" /\ memo' = memo
         /\ FinishesWith(l, t, memo[t].last)
  <1>1. /\ lift[l].pc = "asking" /\ lift[l].step[t] = "refused" /\ memo' = memo
        /\ lift' = [lift EXCEPT ![l] = Finished(lift[l], t, memo[t].last)]
        /\ UNCHANGED <<code, version, hand, doc, memo, answers, started, failures, settled>>
    BY DEF LastStands, FallBack, Latest, TypeOK
  <1>2. PICK r : r = Finished(lift[l], t, memo[t].last)
    OBVIOUS
  <1>3. /\ failures' \in 0 .. MaxFailures /\ DOMAIN memo' = Tasks
        /\ \A u \in Tasks : /\ memo'[u].last \subseteq Answers(u)
                             /\ \A row \in memo'[u].rows : row.answer \in Answers(u)
        /\ memo[t].last \in SUBSET Answers(t)
    BY <1>1 DEF TypeOK
  <1>4. FinishesWith(l, t, memo[t].last)
    BY <1>1, <1>2, <1>3, FinishesTask
  <1> QED
    BY <1>1, <1>4

-----------------------------------------------------------------------------
(* The other steps, and the types.                                          *)

LEMMA WorldTypes ==
  ASSUME TypeOK, (\E a \in Areas : EditCode(a)) \/ Upgrade \/ EditByHand
  PROVE  TypeOK'
  <1>1. \A p : answers' = answers => Answers(p)' = Answers(p)
    BY SameAnswers
  <1>2. ASSUME NEW a \in Areas, EditCode(a) PROVE TypeOK'
    <2>1. code \in [Areas -> 1 .. Edits] /\ code[a] \in 1 .. Edits /\ Edits \in Nat
      BY LiftAssumption DEF TypeOK
    <2>2. (IF code[a] < Edits THEN code[a] + 1 ELSE 1) \in 1 .. Edits
      BY <2>1
    <2>3. code' \in [Areas -> 1 .. Edits]
      BY <1>2, <2>1, <2>2 DEF EditCode
    <2>4. UNCHANGED <<version, hand, doc, memo, answers, lift, started, failures, settled>>
      BY <1>2 DEF EditCode
    <2> QED
      BY <1>1, <2>3, <2>4 DEF TypeOK
  <1>3. CASE Upgrade
    <2>1. version' \in 1 .. Upgrades /\ UNCHANGED <<code, hand, doc, memo, answers, lift, started, failures, settled>>
      BY <1>3, LiftAssumption DEF Upgrade, TypeOK
    <2> QED
      BY <1>1, <2>1 DEF TypeOK
  <1>4. CASE EditByHand
    <2>1. hand \in Nat /\ hand' = hand + 1 /\ doc' = [doc EXCEPT !.hand = hand']
          /\ UNCHANGED <<code, version, memo, answers, lift, started, failures, settled>>
      BY <1>4 DEF EditByHand, TypeOK
    <2>2. hand' \in Nat /\ doc \in Docs
      BY <2>1 DEF TypeOK
    <2>3. doc' \in Docs /\ doc'.hand = hand' /\ doc'.words = doc.words
      BY <2>1, <2>2 DEF Docs
    <2>4. doc'.hand <= hand' /\ doc'.words \in Answers(Naming)' \cup {Nothing}
      BY <1>1, <2>1, <2>2, <2>3 DEF TypeOK
    <2> QED
      BY <1>1, <2>1, <2>2, <2>3, <2>4 DEF TypeOK
  <1> QED
    BY <1>2, <1>3, <1>4

(* A request begins, with everything to be done.                            *)
LEMMA StartStep ==
  ASSUME TypeOK, NEW l \in Lifts, Start(l)
  PROVE  /\ TypeOK'
         /\ lift[l].pc = "idle" /\ lift'[l].pc = "asking" /\ lift'[l].doc = doc
         /\ lift'[l].raw = <<>> /\ ~lift'[l].failed
         /\ \A t \in Tasks : lift'[l].step[t] = "queued" /\ lift'[l].got[t] = {}
         /\ \A k \in Lifts : k # l => lift'[k] = lift[k]
         /\ UNCHANGED <<code, version, hand, doc, memo, answers, settled>>
  <1>1. PICK known \in {version, 0} :
          /\ IF known = 0 THEN Fails("meta") ELSE UNCHANGED failures
          /\ lift' = [lift EXCEPT ![l] = [NoLift EXCEPT !.pc = "asking", !.code = code,
                                                        !.version = known, !.doc = doc]]
    BY DEF Start
  <1>2. PICK r : r = [[[[NoLift EXCEPT !.pc = "asking"] EXCEPT !.code = code]
                          EXCEPT !.version = known] EXCEPT !.doc = doc]
    OBVIOUS
  <1>3. known \in 0 .. Upgrades /\ code \in [Areas -> 0 .. Edits] /\ doc \in Docs
    BY LiftAssumption DEF TypeOK
  <1>4. PICK none \in Records : none = NoLift
    BY NothingTypes
  <1>5. r \in Records /\ r.pc = "asking" /\ r.doc = doc
        /\ r.raw = none.raw /\ r.failed = none.failed /\ r.step = none.step /\ r.got = none.got
    BY <1>2, <1>3, <1>4 DEF Records
  <1>6. none.raw = <<>> /\ none.failed = FALSE
        /\ \A t \in Tasks : none.step[t] = "queued" /\ none.got[t] = {}
    BY <1>4 DEF NoLift
  <1>7. lift' = [lift EXCEPT ![l] = r]
    BY <1>1, <1>2, <1>4 DEF Records
  <1>8. \A p : Answers(p)' = Answers(p)
    BY SameAnswers DEF Start
  <1>9. lift[l].pc = "idle" /\ started < MaxLifts /\ started' = started + 1
        /\ UNCHANGED <<code, version, hand, doc, memo, answers, settled>>
    BY DEF Start
  <1>10. /\ lift' \in [Lifts -> Records] /\ lift'[l] = r
         /\ \A k \in Lifts : k # l => lift'[k] = lift[k]
         /\ \A k \in Lifts : \A t \in Tasks : lift'[k].got[t] \subseteq Answers(t)'
         /\ doc' \in Docs /\ doc'.hand <= hand' /\ doc'.words \in Answers(Naming)' \cup {Nothing}
         /\ \A t \in Tasks : /\ memo'[t].last \subseteq Answers(t)'
                             /\ \A row \in memo'[t].rows : row.answer \in Answers(t)'
    <2>1. \A t \in Tasks : r.got[t] \subseteq Answers(t)'
      BY <1>5, <1>6
    <2> QED
      BY <1>5, <1>7, <1>8, <1>9, <2>1, LiftTypes
  <1>11. started' \in 0 .. MaxLifts
    BY <1>9, LiftAssumption DEF TypeOK
  <1>12. failures' \in 0 .. MaxFailures
    BY <1>1, FailTypes DEF TypeOK
  <1>13. TypeOK'
    BY <1>9, <1>10, <1>11, <1>12 DEF TypeOK
  <1> QED
    BY <1>5, <1>6, <1>9, <1>10, <1>13

(* The other steps of a request change only what is chosen of the words.    *)
WordStep(l) ==
  /\ lift'[l].code = lift[l].code /\ lift'[l].version = lift[l].version /\ lift'[l].doc = lift[l].doc
  /\ lift'[l].step = lift[l].step /\ lift'[l].got = lift[l].got /\ lift'[l].raw = lift[l].raw
  /\ lift[l].failed => lift'[l].failed
  /\ \A k \in Lifts : k # l => lift'[k] = lift[k]
  /\ \A t \in Tasks \cup {Naming} : Answers(t) \subseteq Answers(t)'
  /\ memo' = memo /\ doc' = doc /\ hand' = hand /\ settled' = settled

LEMMA WordTypes ==
  ASSUME TypeOK, NEW l \in Lifts, NEW r \in Records, lift' = [lift EXCEPT ![l] = r],
         r.code = lift[l].code, r.version = lift[l].version, r.doc = lift[l].doc,
         r.step = lift[l].step, r.got = lift[l].got, r.raw = lift[l].raw,
         lift[l].failed => r.failed,
         \A p \in Tasks \cup {Naming} : Answers(p) \subseteq Answers(p)',
         answers' \in [Tasks \cup {Naming} -> 0 .. MaxAnswers], failures' \in 0 .. MaxFailures,
         UNCHANGED <<code, version, hand, doc, memo, started, settled>>
  PROVE  TypeOK' /\ WordStep(l) /\ lift'[l] = r
  <1>1. \A t \in Tasks : r.got[t] \subseteq Answers(t)'
    BY DEF TypeOK
  <1>2. /\ lift' \in [Lifts -> Records] /\ lift'[l] = r
        /\ \A k \in Lifts : k # l => lift'[k] = lift[k]
        /\ \A k \in Lifts : \A t \in Tasks : lift'[k].got[t] \subseteq Answers(t)'
        /\ doc' \in Docs /\ doc'.hand <= hand' /\ doc'.words \in Answers(Naming)' \cup {Nothing}
        /\ \A t \in Tasks : /\ memo'[t].last \subseteq Answers(t)'
                            /\ \A row \in memo'[t].rows : row.answer \in Answers(t)'
    BY <1>1, LiftTypes
  <1>3. TypeOK'
    BY <1>2 DEF TypeOK
  <1> QED
    BY <1>2, <1>3 DEF WordStep

LEMMA AssembleStep ==
  ASSUME TypeOK, NEW l \in Lifts, Assemble(l)
  PROVE  /\ TypeOK' /\ WordStep(l) /\ answers' = answers /\ lift[l].pc = "asking" /\ AllDone(l)
         /\ lift'[l].failed = lift[l].failed
         /\ IF lift[l].doc.words # Nothing /\ lift[l].doc.wordsFor = Skeleton(lift[l])
            THEN /\ lift'[l].pc = "land" /\ lift'[l].words = lift[l].doc.words
                 /\ lift'[l].wordsFor = lift[l].doc.wordsFor
            ELSE lift'[l].pc = "refine"
  <1>1. PICK o \in Records : o = lift[l]
    BY DEF TypeOK
  <1>2. o.doc.words \in 0 .. MaxAnswers /\ o.doc.wordsFor \in Skeletons
    BY DEF Records, Docs
  <1>3. PICK skeleton : skeleton = Skeleton(lift[l])
    OBVIOUS
  <1>4. PICK r : r = IF o.doc.words # Nothing /\ o.doc.wordsFor = skeleton
                     THEN [[[o EXCEPT !.pc = "land"] EXCEPT !.words = o.doc.words] EXCEPT !.wordsFor = o.doc.wordsFor]
                     ELSE [o EXCEPT !.pc = "refine"]
    OBVIOUS
  <1>5. /\ r \in Records /\ r.code = o.code /\ r.version = o.version /\ r.doc = o.doc
        /\ r.step = o.step /\ r.got = o.got /\ r.raw = o.raw /\ r.failed = o.failed
        /\ IF o.doc.words # Nothing /\ o.doc.wordsFor = skeleton
           THEN r.pc = "land" /\ r.words = o.doc.words /\ r.wordsFor = o.doc.wordsFor
           ELSE r.pc = "refine"
    <2>1. CASE o.doc.words # Nothing /\ o.doc.wordsFor = skeleton
      <3>1. r = [[[o EXCEPT !.pc = "land"] EXCEPT !.words = o.doc.words] EXCEPT !.wordsFor = o.doc.wordsFor]
        BY <1>4, <2>1
      <3> QED
        BY <1>2, <2>1, <3>1 DEF Records
    <2>2. CASE ~(o.doc.words # Nothing /\ o.doc.wordsFor = skeleton)
      <3>1. r = [o EXCEPT !.pc = "refine"]
        BY <1>4, <2>2
      <3> QED
        BY <2>2, <3>1 DEF Records
    <2> QED
      BY <2>1, <2>2
  <1>6. lift' = [lift EXCEPT ![l] = r]
    <2>1. lift' = [lift EXCEPT ![l] =
             IF o.doc.words # Nothing /\ o.doc.wordsFor = skeleton
             THEN [o EXCEPT !.pc = "land", !.words = o.doc.words, !.wordsFor = o.doc.wordsFor]
             ELSE [o EXCEPT !.pc = "refine"]]
      BY <1>1, <1>3 DEF Assemble, TypeOK
    <2>2. [o EXCEPT !.pc = "land", !.words = o.doc.words, !.wordsFor = o.doc.wordsFor]
            = [[[o EXCEPT !.pc = "land"] EXCEPT !.words = o.doc.words] EXCEPT !.wordsFor = o.doc.wordsFor]
      BY DEF Records
    <2> QED
      BY <1>4, <2>1, <2>2
  <1>7. /\ lift[l].pc = "asking" /\ AllDone(l)
        /\ UNCHANGED <<code, version, hand, doc, memo, answers, started, failures, settled>>
    BY DEF Assemble
  <1>8. \A p : Answers(p)' = Answers(p)
    BY <1>7, SameAnswers
  <1>9. answers' \in [Tasks \cup {Naming} -> 0 .. MaxAnswers] /\ failures' \in 0 .. MaxFailures
    BY <1>7 DEF TypeOK
  <1>10. TypeOK' /\ WordStep(l) /\ lift'[l] = r
    <2>1. /\ r.code = lift[l].code /\ r.version = lift[l].version /\ r.doc = lift[l].doc
          /\ r.step = lift[l].step /\ r.got = lift[l].got /\ r.raw = lift[l].raw
          /\ lift[l].failed => r.failed
      BY ONLY <1>1, <1>5
    <2>2. \A p \in Tasks \cup {Naming} : Answers(p) \subseteq Answers(p)'
      BY ONLY <1>8
    <2> QED
      BY ONLY <1>5, <1>6, <1>7, <1>9, <2>1, <2>2, TypeOK, l \in Lifts, WordTypes
  <1> QED
    BY <1>1, <1>3, <1>5, <1>7, <1>10

LEMMA RefineStep ==
  ASSUME TypeOK, NEW l \in Lifts, Refine(l)
  PROVE  /\ TypeOK' /\ WordStep(l) /\ lift[l].pc = "refine" /\ lift'[l].pc = "land"
         /\ \/ /\ lift'[l].words \in Answers(Naming)' /\ lift'[l].words \notin Answers(Naming)
               /\ lift'[l].wordsFor = Skeleton(lift[l]) /\ lift'[l].failed = lift[l].failed
            \/ /\ lift'[l].failed
               /\ IF lift[l].doc.words # Nothing
                  THEN lift'[l].words = lift[l].doc.words /\ lift'[l].wordsFor = lift[l].doc.wordsFor
                  ELSE lift'[l].words = Nothing
  <1>1. PICK o \in Records : o = lift[l]
    BY DEF TypeOK
  <1>2. PICK skeleton \in Skeletons : skeleton = Skeleton(lift[l])
    BY <1>1, SkeletonType
  <1>3. lift[l].pc = "refine" /\ UNCHANGED <<code, version, hand, doc, memo, started, settled>>
    BY DEF Refine
  <1>4. CASE /\ answers[Naming] < MaxAnswers
             /\ answers' = [answers EXCEPT ![Naming] = @ + 1]
             /\ lift' = [lift EXCEPT ![l] = [@ EXCEPT !.pc = "land", !.words = answers'[Naming],
                                                      !.wordsFor = Skeleton(lift[l])]]
             /\ UNCHANGED failures
    <2>1. /\ answers' \in [Tasks \cup {Naming} -> 0 .. MaxAnswers] /\ answers'[Naming] \in 1 .. MaxAnswers
          /\ answers'[Naming] \in Answers(Naming)' /\ answers'[Naming] \notin Answers(Naming)
          /\ \A p \in Tasks \cup {Naming} : Answers(p) \subseteq Answers(p)'
      BY <1>4, MoreAnswers
    <2>2. PICK n : n = answers'[Naming]
      OBVIOUS
    <2>3. n \in 0 .. MaxAnswers
      BY <2>1, <2>2
    <2>4. PICK r : r = [[[o EXCEPT !.pc = "land"] EXCEPT !.words = n] EXCEPT !.wordsFor = skeleton]
      OBVIOUS
    <2>5. /\ r \in Records /\ r.code = o.code /\ r.version = o.version /\ r.doc = o.doc
          /\ r.step = o.step /\ r.got = o.got /\ r.raw = o.raw /\ r.failed = o.failed
          /\ r.pc = "land" /\ r.words = n /\ r.wordsFor = skeleton
      BY <2>3, <2>4 DEF Records
    <2>6. lift' = [lift EXCEPT ![l] = r]
      BY <1>1, <1>2, <1>4, <2>2, <2>4 DEF Records, TypeOK
    <2>7. failures' \in 0 .. MaxFailures
      BY <1>4 DEF TypeOK
    <2>8. TypeOK' /\ WordStep(l) /\ lift'[l] = r
      BY <1>1, <1>3, <2>1, <2>5, <2>6, <2>7, WordTypes
    <2> QED
      BY <1>1, <1>2, <1>3, <2>1, <2>2, <2>5, <2>8
  <1>5. CASE /\ Fails("refine")
             /\ lift' = [lift EXCEPT ![l] =
                   [@ EXCEPT !.pc = "land", !.words = WordsKept(lift[l]).words,
                             !.wordsFor = WordsKept(lift[l]).wordsFor, !.failed = TRUE]]
             /\ UNCHANGED answers
    <2>1. PICK kept : kept = WordsKept(lift[l])
      OBVIOUS
    <2>2. o.doc.words \in 0 .. MaxAnswers /\ o.doc.wordsFor \in Skeletons /\ Nothing \in 0 .. MaxAnswers
      BY LiftAssumption DEF Records, Docs, Nothing
    <2>3. /\ kept.words \in 0 .. MaxAnswers /\ kept.wordsFor \in Skeletons
          /\ IF o.doc.words # Nothing THEN kept.words = o.doc.words /\ kept.wordsFor = o.doc.wordsFor
             ELSE kept.words = Nothing
      BY <1>1, <1>2, <2>1, <2>2 DEF WordsKept
    <2>4. PICK r : r = [[[[o EXCEPT !.pc = "land"] EXCEPT !.words = kept.words]
                            EXCEPT !.wordsFor = kept.wordsFor] EXCEPT !.failed = TRUE]
      OBVIOUS
    <2>5. /\ r \in Records /\ r.code = o.code /\ r.version = o.version /\ r.doc = o.doc
          /\ r.step = o.step /\ r.got = o.got /\ r.raw = o.raw /\ r.failed = TRUE
          /\ r.pc = "land" /\ r.words = kept.words /\ r.wordsFor = kept.wordsFor
      BY <2>3, <2>4 DEF Records
    <2>6. lift' = [lift EXCEPT ![l] = r]
      BY <1>1, <1>5, <2>1, <2>4 DEF Records, TypeOK
    <2>7. \A p : Answers(p)' = Answers(p)
      BY <1>5, SameAnswers
    <2>8. failures' \in 0 .. MaxFailures /\ answers' \in [Tasks \cup {Naming} -> 0 .. MaxAnswers]
      BY <1>5, FailTypes DEF TypeOK
    <2>9. TypeOK' /\ WordStep(l) /\ lift'[l] = r
      BY <1>1, <1>3, <2>5, <2>6, <2>7, <2>8, WordTypes
    <2> QED
      BY <1>1, <1>3, <2>3, <2>5, <2>9
  <1> QED
    BY <1>4, <1>5 DEF Refine

(* The proposal becomes the documents, unless they spoken this already.       *)
LEMMA LandStep ==
  ASSUME TypeOK, NEW l \in Lifts, lift[l].words \in Answers(Naming) \cup {Nothing},
         lift[l].doc.hand <= hand, Land(l)
  PROVE  /\ TypeOK' /\ lift[l].pc = "land" /\ lift'[l].pc = "idle"
         /\ \A k \in Lifts : k # l => lift'[k] = lift[k]
         /\ doc' = IF Proposal(lift[l]) = lift[l].doc THEN doc ELSE Proposal(lift[l])
         /\ settled'.code = lift[l].code /\ settled'.version = lift[l].version
         /\ settled'.clean = ~lift[l].failed
         /\ memo' = memo /\ hand' = hand
  <1>1. PICK o \in Records : o = lift[l]
    BY DEF TypeOK
  <1>2. /\ lift[l].pc = "land"
        /\ doc' = IF Proposal(lift[l]) = lift[l].doc THEN doc ELSE Proposal(lift[l])
        /\ settled' = [code |-> o.code, version |-> o.version, clean |-> ~o.failed]
        /\ lift' = [lift EXCEPT ![l] = NoLift]
        /\ UNCHANGED <<code, version, hand, memo, answers, started, failures>>
    BY <1>1 DEF Land
  <1>3. \A p : Answers(p)' = Answers(p)
    BY <1>2, SameAnswers
  <1>4. PICK none \in Records : none = NoLift
    BY NothingTypes
  <1>5. none.pc = "idle" /\ \A t \in Tasks : none.got[t] \subseteq Answers(t)'
    BY <1>4, NothingTypes
  <1>6. /\ lift' \in [Lifts -> Records] /\ lift'[l] = none
        /\ \A k \in Lifts : k # l => lift'[k] = lift[k]
        /\ \A k \in Lifts : \A t \in Tasks : lift'[k].got[t] \subseteq Answers(t)'
        /\ \A t \in Tasks : /\ memo'[t].last \subseteq Answers(t)'
                            /\ \A row \in memo'[t].rows : row.answer \in Answers(t)'
    BY <1>2, <1>3, <1>4, <1>5, LiftTypes
  <1>7. doc' \in Docs /\ doc'.hand <= hand' /\ doc'.words \in Answers(Naming)' \cup {Nothing}
    <2>1. CASE Proposal(lift[l]) = lift[l].doc
      BY <1>2, <1>3, <2>1 DEF TypeOK
    <2>2. CASE Proposal(lift[l]) # lift[l].doc
      <3>1. PICK p : p = Proposal(o)
        OBVIOUS
      <3>2. p \in Docs /\ p.words = o.words /\ p.hand = o.doc.hand
        BY <3>1, ProposalType
      <3>3. doc' = p
        BY <1>1, <1>2, <2>2, <3>1
      <3> QED
        BY <1>1, <1>2, <1>3, <3>2, <3>3
    <2> QED
      BY <2>1, <2>2
  <1>8. settled' \in [code : [Areas -> 0 .. Edits], version : 0 .. Upgrades, clean : BOOLEAN]
    BY <1>2 DEF Records
  <1>9. TypeOK'
    BY <1>2, <1>6, <1>7, <1>8 DEF TypeOK
  <1> QED
    BY <1>1, <1>2, <1>5, <1>6, <1>9

-----------------------------------------------------------------------------
(* What a step leaves of the invariant alone.                               *)

LEMMA SamePrint ==
  ASSUME NEW l \in Lifts, NEW t \in Tasks,
         lift'[l].version = lift[l].version, lift'[l].code = lift[l].code,
         t = Overview => \A r \in Readings : lift'[l].got[r] = lift[l].got[r]
  PROVE  Fingerprint(l, t)' = Fingerprint(l, t) /\ (t = Overview => Drawn(l)' = Drawn(l))
  BY DEF Fingerprint, Drawn

LEMMA SameSaid ==
  ASSUME NEW t \in Tasks, memo'[t] = memo[t]
  PROVE  \A fp : {row.answer : row \in {r \in memo'[t].rows : r.fp = fp}} = Said(t, fp)
  BY DEF Said

(* The tasks a step is not about.                                           *)
TaskHolds(l, u) == Unanswered(l, u) /\ AnswerIsOne(l, u) /\ DoneAsSaid(l, u) /\ ClaimsArrived(l, u)

LEMMA OthersKeep ==
  ASSUME UnderWay, NEW l \in Lifts, NEW t \in Tasks, TaskStep(l, t), NEW u \in Tasks, u # t
  PROVE  TaskHolds(l, u)'
  <1>1. OverviewIsLast(l) /\ TaskHolds(l, u) /\ lift[l].step[t] # "done"
    BY DEF UnderWay, TaskStep, TaskHolds
  <1>2. /\ lift'[l].step[u] = lift[l].step[u] /\ lift'[l].got[u] = lift[l].got[u]
        /\ memo'[u] = memo[u] /\ answers'[u] = answers[u]
        /\ Contains(lift'[l].raw, u) <=> Contains(lift[l].raw, u)
        /\ lift'[l].code = lift[l].code /\ lift'[l].version = lift[l].version
        /\ lift[l].failed => lift'[l].failed
    BY DEF TaskStep
  <1>3. AnswerIsOne(l, u)' /\ ClaimsArrived(l, u)'
    BY <1>1, <1>2 DEF TaskHolds, AnswerIsOne, ClaimsArrived, Answers
  <1>4. CASE u = Overview /\ t \in Readings
    <2>1. lift'[l].step[u] = "queued"
      BY <1>1, <1>2, <1>4 DEF OverviewIsLast
    <2> QED
      BY <1>3, <2>1 DEF TaskHolds, Unanswered, DoneAsSaid
  <1>5. CASE ~(u = Overview /\ t \in Readings)
    <2>1. u = Overview => \A r \in Readings : lift'[l].got[r] = lift[l].got[r]
      BY <1>5, OrderFacts DEF TaskStep
    <2>2. Fingerprint(l, u)' = Fingerprint(l, u) /\ (u = Overview => Drawn(l)' = Drawn(l))
      BY <1>2, <2>1, SamePrint
    <2>3. Said(u, Fingerprint(l, u))' = Said(u, Fingerprint(l, u))
      BY <1>2, <2>2, SameSaid DEF Said
    <2>4. Unanswered(l, u)'
      BY <1>1, <1>2, <2>2, <2>3 DEF TaskHolds, Unanswered
    <2>5. DoneAsSaid(l, u)'
      BY <1>1, <1>2, <2>2, <2>3 DEF TaskHolds, DoneAsSaid
    <2> QED
      BY <1>3, <2>4, <2>5 DEF TaskHolds
  <1> QED
    BY <1>4, <1>5

(* The landing stands on the memo as long as the memo says the same of it.  *)
LEMMA SettledKeeps ==
  ASSUME SettledOnTheMemo, settled' = settled,
         doc'.skeleton = doc.skeleton, doc'.readings = doc.readings,
         doc'.words = doc.words, doc'.wordsFor = doc.wordsFor,
         settled.clean /\ settled.version # 0 =>
            \A t \in Tasks : {row.answer : row \in {r \in memo'[t].rows : r.fp = SettledFp(t)}} = SettledSays(t)
  PROVE  SettledOnTheMemo'
  <1> SUFFICES ASSUME settled'.clean, settled'.version # 0
               PROVE  SettledOnTheMemo'
    BY DEF SettledOnTheMemo
  <1>1. \A t \in Tasks : SettledFp(t)' = SettledFp(t)
    BY DEF SettledFp
  <1>2. \A t \in Tasks : SettledSays(t)' = SettledSays(t)
    <2>1. \A t \in Tasks : {row.answer : row \in {r \in memo'[t].rows : r.fp = SettledFp(t)}} = SettledSays(t)
      OBVIOUS
    <2> QED
      BY <1>1, <2>1 DEF SettledSays, Said
  <1>3. \A i \in DOMAIN AreaOrder : AreaOrder[i] \in Tasks
    BY OrderFacts
  <1>4. [code |-> settled'.code,
         claims |-> [i \in DOMAIN AreaOrder |-> <<AreaOrder[i], SettledSays(AreaOrder[i])'>>]]
        = [code |-> settled.code,
           claims |-> [i \in DOMAIN AreaOrder |-> <<AreaOrder[i], SettledSays(AreaOrder[i])>>]]
    BY <1>2, <1>3
  <1>5. /\ \A t \in Readings \cup {Overview} : doc.readings[t] = SettledSays(t)
        /\ \A t \in Areas \cup Readings : SettledSays(t) # {}
        /\ SettledSays(Overview) # {} \/ \A r \in Readings : doc.readings[r] = {}
        /\ doc.skeleton = [code |-> settled.code,
              claims |-> [i \in DOMAIN AreaOrder |-> <<AreaOrder[i], SettledSays(AreaOrder[i])>>]]
        /\ doc.words # Nothing /\ doc.wordsFor = doc.skeleton
    BY DEF SettledOnTheMemo
  <1>6. /\ \A t \in Readings \cup {Overview} : doc'.readings[t] = SettledSays(t)'
        /\ \A t \in Areas \cup Readings : SettledSays(t)' # {}
        /\ SettledSays(Overview)' # {} \/ \A r \in Readings : doc'.readings[r] = {}
    BY <1>2, <1>5, OrderFacts
  <1>7. /\ doc'.skeleton = [code |-> settled'.code,
              claims |-> [i \in DOMAIN AreaOrder |-> <<AreaOrder[i], SettledSays(AreaOrder[i])'>>]]
        /\ doc'.words # Nothing /\ doc'.wordsFor = doc'.skeleton
    BY <1>4, <1>5
  <1> QED
    BY <1>6, <1>7 DEF SettledOnTheMemo

(* Nobody else is at work.                                                  *)
LEMMA TheOthersAreIdle ==
  ASSUME OneAtATime, NEW l \in Lifts, lift[l].pc # "idle",
         \A k \in Lifts : k # l => lift'[k] = lift[k]
  PROVE  \A k \in Lifts : lift'[k].pc # "idle" => k = l
  BY DEF OneAtATime

(* A step of a worker, once its own task holds.                             *)
LEMMA WorkerKeeps ==
  ASSUME LiftInv, OneAtATime, NEW l \in Lifts, NEW t \in Tasks, TypeOK', TaskStep(l, t),
         TaskHolds(l, t)', t = Overview => \A r \in Readings : lift[l].step[r] = "done",
         MemoHasANewest', SettledOnTheMemo'
  PROVE  LiftInv'
  <1>1. /\ lift[l].pc = "asking" /\ lift[l].step[t] # "done" /\ lift'[l].pc = "asking"
        /\ lift'[l].doc = lift[l].doc
        /\ \A k \in Lifts : k # l => lift'[k] = lift[k]
        /\ \A u \in Tasks : u # t => lift'[l].step[u] = lift[l].step[u]
        /\ doc' = doc /\ hand' = hand
    BY DEF TaskStep
  <1>2. lift[l].doc.hand <= hand /\ DocAsRead(l) /\ OverviewIsLast(l)
    BY <1>1 DEF LiftInv, UnderWay
  <1>3. lift'[l].doc.hand <= hand' /\ DocAsRead(l)' /\ WordsChosen(l)'
    BY <1>1, <1>2 DEF DocAsRead, WordsChosen
  <1>4. OverviewIsLast(l)'
    BY <1>1, <1>2, OrderFacts DEF OverviewIsLast
  <1>5. \A u \in Tasks : TaskHolds(l, u)'
    BY OthersKeep DEF LiftInv
  <1>6. \A k \in Lifts : lift'[k].pc # "idle" => k = l
    BY <1>1, TheOthersAreIdle
  <1>7. UnderWay'
    BY <1>3, <1>4, <1>5, <1>6 DEF UnderWay, TaskHolds
  <1> QED
    BY <1>7 DEF LiftInv

-----------------------------------------------------------------------------
(* The steps of a worker.                                                   *)

LEMMA OwnPrint ==
  ASSUME NEW l \in Lifts, NEW t \in Tasks, TaskStep(l, t)
  PROVE  Fingerprint(l, t)' = Fingerprint(l, t) /\ (t = Overview => Drawn(l)' = Drawn(l))
  <1>1. lift'[l].version = lift[l].version /\ lift'[l].code = lift[l].code
        /\ (t = Overview => \A r \in Readings : lift'[l].got[r] = lift[l].got[r])
    BY OrderFacts DEF TaskStep
  <1> QED
    BY <1>1, SamePrint

LEMMA NotYetThere ==
  ASSUME UnderWay, NEW l \in Lifts, NEW t \in Tasks, TaskStep(l, t)
  PROVE  t \in Areas => ~Contains(lift[l].raw, t)
  BY DEF UnderWay, TaskStep, ClaimsArrived

LEMMA FinishHolds ==
  ASSUME UnderWay, NEW l \in Lifts, NEW t \in Tasks, NEW found, FinishesWith(l, t, found), NEW spoken,
         spoken = {row.answer : row \in {r \in memo'[t].rows : r.fp = Fingerprint(l, t)}},
         lift[l].version # 0 /\ spoken # {} => found = spoken,
         lift[l].version # 0 /\ ~lift'[l].failed => spoken # {} \/ (t = Overview /\ Drawn(l) = {}),
         t = Overview /\ Drawn(l) = {} /\ spoken = {} => found = {},
         memo'[t].rows # {} /\ (t = Overview => Drawn(l) # {}) => found # {}
  PROVE  TaskHolds(l, t)'
  <1>1. /\ TaskStep(l, t) /\ lift'[l].step[t] = "done" /\ lift'[l].got[t] = found
        /\ t \in Areas => (Contains(lift'[l].raw, t) <=> Contains(lift[l].raw, t) \/ found # {})
    BY DEF FinishesWith
  <1>2. Fingerprint(l, t)' = Fingerprint(l, t) /\ (t = Overview => Drawn(l)' = Drawn(l))
        /\ lift'[l].version = lift[l].version
    BY <1>1, OwnPrint DEF TaskStep
  <1>3. Said(t, Fingerprint(l, t))' = spoken
    BY <1>2 DEF Said
  <1>4. DoneAsSaid(l, t)'
    BY <1>1, <1>2, <1>3 DEF DoneAsSaid
  <1>5. ClaimsArrived(l, t)'
    BY <1>1, NotYetThere DEF ClaimsArrived
  <1>6. Unanswered(l, t)' /\ AnswerIsOne(l, t)'
    BY <1>1 DEF Unanswered, AnswerIsOne
  <1> QED
    BY <1>4, <1>5, <1>6 DEF TaskHolds

LEMMA SameMemoKeeps ==
  ASSUME LiftInv, NEW l \in Lifts, NEW t \in Tasks, TaskStep(l, t), memo' = memo
  PROVE  MemoHasANewest' /\ SettledOnTheMemo'
         /\ \A fp : {row.answer : row \in {r \in memo'[t].rows : r.fp = fp}} = Said(t, fp)
  <1>1. MemoHasANewest'
    BY DEF LiftInv, MemoHasANewest
  <1>2. \A u \in Tasks : \A fp : {row.answer : row \in {r \in memo'[u].rows : r.fp = fp}} = Said(u, fp)
    BY SameSaid
  <1>3. \A u \in Tasks : {row.answer : row \in {r \in memo'[u].rows : r.fp = SettledFp(u)}} = SettledSays(u)
    BY <1>2 DEF SettledSays
  <1>4. SettledOnTheMemo'
    BY <1>3, SettledKeeps DEF LiftInv, TaskStep
  <1> QED
    BY <1>1, <1>2, <1>4

(* A task that goes on to a step where nothing is known of it.              *)
LEMMA GoesOnHolds ==
  ASSUME LiftInv, OneAtATime, NEW l \in Lifts, NEW t \in Tasks,
         NEW step \in {"missed", "answered", "refused"}, GoesOn(l, t, step),
         lift[l].version # 0 => Said(t, Fingerprint(l, t)) = {},
         t = Overview => Drawn(l) # {} /\ \A r \in Readings : lift[l].step[r] = "done",
         step = "answered" => \E n \in Answers(t)' : lift'[l].got[t] = {n},
         step = "refused" => lift'[l].failed
  PROVE  LiftInv'
  <1>1. TypeOK' /\ TaskStep(l, t) /\ lift'[l].step[t] = step /\ memo' = memo /\ lift'[l].raw = lift[l].raw
    BY DEF GoesOn
  <1>2. Fingerprint(l, t)' = Fingerprint(l, t) /\ (t = Overview => Drawn(l)' = Drawn(l))
        /\ lift'[l].version = lift[l].version
    BY <1>1, OwnPrint DEF TaskStep
  <1>3. MemoHasANewest' /\ SettledOnTheMemo'
        /\ \A fp : {row.answer : row \in {r \in memo'[t].rows : r.fp = fp}} = Said(t, fp)
    BY <1>1, SameMemoKeeps
  <1>4. Said(t, Fingerprint(l, t))' = Said(t, Fingerprint(l, t))
    BY <1>2, <1>3 DEF Said
  <1>a. step # "done" /\ step \in {"missed", "answered", "refused"}
    OBVIOUS
  <1>b. Unanswered(l, t)'
    BY <1>1, <1>2, <1>4 DEF Unanswered
  <1>c. AnswerIsOne(l, t)'
    BY <1>1 DEF AnswerIsOne
  <1>d. DoneAsSaid(l, t)'
    BY <1>1, <1>a DEF DoneAsSaid
  <1>5. Unanswered(l, t)' /\ AnswerIsOne(l, t)' /\ DoneAsSaid(l, t)'
    BY <1>b, <1>c, <1>d
  <1>6. ClaimsArrived(l, t)'
    BY <1>1, NotYetThere DEF ClaimsArrived, LiftInv
  <1>7. TaskHolds(l, t)'
    BY <1>5, <1>6 DEF TaskHolds
  <1> QED
    BY <1>1, <1>3, <1>7, WorkerKeeps

(* What is known of a task that is under way.                               *)
LEMMA OwnFacts ==
  ASSUME LiftInv, NEW l \in Lifts, NEW t \in Tasks, lift[l].pc = "asking"
  PROVE  /\ TypeOK /\ UnderWay /\ TaskHolds(l, t) /\ OverviewIsLast(l)
         /\ t = Overview /\ lift[l].step[t] # "queued" => \A r \in Readings : lift[l].step[r] = "done"
  BY DEF LiftInv, UnderWay, TaskHolds, OverviewIsLast

LEMMA RecallKeeps ==
  ASSUME LiftInv, OneAtATime, NEW l \in Lifts, NEW t \in Tasks, Recall(l, t)
  PROVE  LiftInv'
  <1>1. TypeOK /\ UnderWay
    BY DEF LiftInv
  <1>2. memo' = memo /\ (t = Overview => \A r \in Readings : lift[l].step[r] = "done")
    BY <1>1, RecallStep
  <1>3. lift[l].version # 0 => Said(t, Fingerprint(l, t)) = {row.answer : row \in Known(l, t)}
    BY DEF Said, Known
  <1>4. Known(l, t) # {} => lift[l].version # 0 /\ {row.answer : row \in Known(l, t)} # {}
    BY DEF Known
  <1>5. CASE \E found : /\ FinishesWith(l, t, found)
                        /\ \/ Known(l, t) # {} /\ found = {row.answer : row \in Known(l, t)}
                           \/ Known(l, t) = {} /\ t = Overview /\ Drawn(l) = {} /\ found = {}
    <2>1. PICK found : /\ FinishesWith(l, t, found)
                       /\ \/ Known(l, t) # {} /\ found = {row.answer : row \in Known(l, t)}
                          \/ Known(l, t) = {} /\ t = Overview /\ Drawn(l) = {} /\ found = {}
      BY <1>5
    <2>2. TypeOK' /\ TaskStep(l, t)
      BY <2>1 DEF FinishesWith
    <2>3. MemoHasANewest' /\ SettledOnTheMemo'
          /\ \A fp : {row.answer : row \in {r \in memo'[t].rows : r.fp = fp}} = Said(t, fp)
      BY <1>2, <2>2, SameMemoKeeps
    <2>4. PICK spoken : spoken = {row.answer : row \in {r \in memo'[t].rows : r.fp = Fingerprint(l, t)}}
      OBVIOUS
    <2>5. spoken = Said(t, Fingerprint(l, t))
      BY <2>3, <2>4
    <2>a. lift[l].version # 0 /\ spoken # {} => found = spoken
      BY <1>3, <1>4, <2>1, <2>5
    <2>b. lift[l].version # 0 /\ ~lift'[l].failed => spoken # {} \/ (t = Overview /\ Drawn(l) = {})
      BY <1>3, <1>4, <2>1, <2>5
    <2>c. t = Overview /\ Drawn(l) = {} /\ spoken = {} => found = {}
      BY <1>3, <1>4, <2>1, <2>5
    <2>d. memo'[t].rows # {} /\ (t = Overview => Drawn(l) # {}) => found # {}
      BY <1>3, <1>4, <2>1, <2>5
    <2>6. /\ lift[l].version # 0 /\ spoken # {} => found = spoken
          /\ lift[l].version # 0 /\ ~lift'[l].failed => spoken # {} \/ (t = Overview /\ Drawn(l) = {})
          /\ t = Overview /\ Drawn(l) = {} /\ spoken = {} => found = {}
          /\ memo'[t].rows # {} /\ (t = Overview => Drawn(l) # {}) => found # {}
      BY <2>a, <2>b, <2>c, <2>d
    <2>7. TaskHolds(l, t)'
      BY <1>1, <2>1, <2>4, <2>6, FinishHolds
    <2> QED
      BY <1>2, <2>2, <2>3, <2>7, WorkerKeeps
  <1>6. CASE Known(l, t) = {} /\ (t = Overview => Drawn(l) # {}) /\ GoesOn(l, t, "missed")
    <2>1. lift[l].version # 0 => Said(t, Fingerprint(l, t)) = {}
      BY <1>3, <1>6
    <2> QED
      BY <1>2, <1>6, <2>1, GoesOnHolds
  <1> QED
    BY <1>1, <1>5, <1>6, RecallStep

LEMMA AskKeeps ==
  ASSUME LiftInv, OneAtATime, NEW l \in Lifts, NEW t \in Tasks, Ask(l, t)
  PROVE  LiftInv'
  <1>1. lift[l].step[t] = "missed" /\ lift[l].pc = "asking"
        /\ \/ GoesOn(l, t, "answered") /\ \E n \in Answers(t)' : lift'[l].got[t] = {n}
           \/ GoesOn(l, t, "refused") /\ lift'[l].failed
    BY AskStep DEF LiftInv, GoesOn, TaskStep
  <1>2. TaskHolds(l, t) /\ (t = Overview => \A r \in Readings : lift[l].step[r] = "done")
    BY <1>1, OwnFacts
  <1>3. /\ lift[l].version # 0 => Said(t, Fingerprint(l, t)) = {}
        /\ t = Overview => Drawn(l) # {}
    BY <1>1, <1>2 DEF TaskHolds, Unanswered
  <1> QED
    BY <1>1, <1>2, <1>3, GoesOnHolds

(* An answer written down says nothing else than before about what was      *)
(* known, and nothing was known of it.                                      *)
LEMMA PutSays ==
  ASSUME NEW t \in Tasks, NEW fp, NEW n,
         memo'[t].rows = {row \in memo[t].rows : row.fp # fp} \cup {[fp |-> fp, answer |-> n]}
  PROVE  \A other : {row.answer : row \in {r \in memo'[t].rows : r.fp = other}}
                       = IF other = fp THEN {n} ELSE Said(t, other)
  <1>1. [fp |-> fp, answer |-> n].fp = fp /\ [fp |-> fp, answer |-> n].answer = n
    OBVIOUS
  <1>2. PICK new : new = [fp |-> fp, answer |-> n]
    OBVIOUS
  <1>3. /\ new.fp = fp /\ new.answer = n /\ new \in memo'[t].rows
        /\ \A row \in memo'[t].rows : row = new \/ (row \in memo[t].rows /\ row.fp # fp)
        /\ \A row \in memo[t].rows : row.fp # fp => row \in memo'[t].rows
    BY <1>1, <1>2
  <1> TAKE other
  <1>4. CASE other = fp
    <2>1. {r \in memo'[t].rows : r.fp = other} = {new}
      BY <1>3, <1>4
    <2> QED
      BY <1>3, <1>4, <2>1
  <1>5. CASE other # fp
    <2>1. {r \in memo'[t].rows : r.fp = other} = {r \in memo[t].rows : r.fp = other}
      BY <1>3, <1>5
    <2> QED
      BY <1>5, <2>1 DEF Said
  <1> QED
    BY <1>4, <1>5

LEMMA RememberKeeps ==
  ASSUME LiftInv, OneAtATime, NEW l \in Lifts, NEW t \in Tasks, Remember(l, t)
  PROVE  LiftInv'
  <1>1. lift[l].step[t] = "answered" /\ lift[l].pc = "asking"
    BY DEF Remember
  <1>2. TypeOK /\ UnderWay /\ TaskHolds(l, t)
        /\ (t = Overview => \A r \in Readings : lift[l].step[r] = "done")
    BY <1>1, OwnFacts
  <1>3. AnswerIsOne(l, t)
    BY <1>2 DEF TaskHolds
  <1>4. PICK fp : fp = Fingerprint(l, t)
    OBVIOUS
  <1>5. FinishesWith(l, t, lift[l].got[t])
    BY <1>2, <1>3, RememberStep
  <1>6. PICK n \in Answers(t) :
          /\ lift[l].got[t] = {n}
          /\ IF lift[l].version = 0 THEN memo' = memo
             ELSE /\ memo'[t].rows = {row \in memo[t].rows : row.fp # fp} \cup {[fp |-> fp, answer |-> n]}
                  /\ memo'[t].last = {n}
    BY <1>2, <1>3, <1>4, RememberStep
  <1>7. TypeOK' /\ TaskStep(l, t)
    BY <1>5 DEF FinishesWith
  <1>8. /\ lift[l].version # 0 => Said(t, fp) = {}
        /\ t = Overview => Drawn(l) # {}
    BY <1>1, <1>2, <1>4 DEF TaskHolds, Unanswered
  <1>9. PICK spoken : spoken = {row.answer : row \in {r \in memo'[t].rows : r.fp = fp}}
    OBVIOUS
  <1>10. CASE lift[l].version = 0
    <2>1. memo' = memo
      BY <1>6, <1>10
    <2>2. MemoHasANewest' /\ SettledOnTheMemo'
      BY <1>7, <2>1, SameMemoKeeps
    <2>3. TaskHolds(l, t)'
      BY <1>2, <1>4, <1>5, <1>6, <1>8, <1>9, <1>10, FinishHolds
    <2> QED
      BY <1>2, <1>7, <2>2, <2>3, WorkerKeeps
  <1>11. CASE lift[l].version # 0
    <2>1. memo'[t].rows = {row \in memo[t].rows : row.fp # fp} \cup {[fp |-> fp, answer |-> n]}
          /\ memo'[t].last = {n}
      BY <1>6, <1>11
    <2>2. \A other : {row.answer : row \in {r \in memo'[t].rows : r.fp = other}}
                        = IF other = fp THEN {n} ELSE Said(t, other)
      BY <2>1, PutSays
    <2>3. spoken = {n}
      BY <1>9, <2>2
    <2>4. TaskHolds(l, t)'
      <3>1. PICK found : found = lift[l].got[t]
        OBVIOUS
      <3>2. found = {n} /\ spoken # {} /\ FinishesWith(l, t, found)
        BY <1>5, <1>6, <2>3, <3>1
      <3> QED
        BY <1>2, <1>4, <1>9, <2>3, <3>2, FinishHolds
    <2>5. MemoHasANewest'
      <3>1. \A u \in Tasks : u # t => memo'[u] = memo[u]
        BY <1>7 DEF TaskStep
      <3> QED
        BY <2>1, <3>1 DEF LiftInv, MemoHasANewest
    <2>6. ASSUME settled.clean, settled.version # 0, NEW u \in Tasks
          PROVE  {row.answer : row \in {r \in memo'[u].rows : r.fp = SettledFp(u)}} = SettledSays(u)
      <3>1. CASE u # t
        <4>1. memo'[u] = memo[u]
          BY <1>7, <3>1 DEF TaskStep
        <4> QED
          BY <4>1, SameSaid DEF SettledSays
      <3>2. CASE u = t /\ SettledFp(t) # fp
        BY <2>2, <3>2 DEF SettledSays
      <3>3. CASE u = t /\ SettledFp(t) = fp
        <4>1. SettledSays(t) = {}
          BY <1>8, <1>11, <3>3 DEF SettledSays
        <4>2. t = Overview /\ \A r \in Readings : doc.readings[r] = {}
          BY <2>6, <4>1 DEF LiftInv, SettledOnTheMemo, Tasks
        <4>3. SettledFp(t).inputs = [r \in Readings |-> doc.readings[r]]
              /\ Fingerprint(l, t).inputs = [r \in Readings |-> lift[l].got[r]]
          BY <4>2 DEF SettledFp, Fingerprint
        <4>4. [r \in Readings |-> doc.readings[r]] = [r \in Readings |-> lift[l].got[r]]
          BY <1>4, <3>3, <4>3
        <4>5. \A r \in Readings : lift[l].got[r] = {}
          BY <4>2, <4>4
        <4> QED
          BY <1>8, <4>2, <4>5 DEF Drawn
      <3> QED
        BY <3>1, <3>2, <3>3
    <2>7. SettledOnTheMemo'
      <3>1. SettledOnTheMemo
        BY DEF LiftInv
      <3>2. settled' = settled /\ doc' = doc
        BY <1>7 DEF TaskStep
      <3> QED
        BY <2>6, <3>1, <3>2, SettledKeeps
    <2> QED
      BY <1>2, <1>7, <2>4, <2>5, <2>7, WorkerKeeps
  <1> QED
    BY <1>10, <1>11

LEMMA NotRememberedKeeps ==
  ASSUME LiftInv, OneAtATime, NEW l \in Lifts, NEW t \in Tasks, NotRemembered(l, t)
  PROVE  LiftInv'
  <1>1. lift[l].step[t] = "answered" /\ lift[l].pc = "asking"
    BY DEF NotRemembered
  <1>2. TypeOK /\ UnderWay /\ TaskHolds(l, t)
        /\ (t = Overview => \A r \in Readings : lift[l].step[r] = "done")
    BY <1>1, OwnFacts
  <1>3. PICK found : found = lift[l].got[t] \cup IF t \in Areas THEN Latest(t) ELSE {}
    OBVIOUS
  <1>4. memo' = memo /\ lift'[l].failed = TRUE /\ FinishesWith(l, t, found)
    BY <1>2, <1>3, NotRememberedStep
  <1>5. TypeOK' /\ TaskStep(l, t)
    BY <1>4 DEF FinishesWith
  <1>6. MemoHasANewest' /\ SettledOnTheMemo'
        /\ \A fp : {row.answer : row \in {r \in memo'[t].rows : r.fp = fp}} = Said(t, fp)
    BY <1>4, <1>5, SameMemoKeeps
  <1>7. /\ lift[l].version # 0 => Said(t, Fingerprint(l, t)) = {}
        /\ t = Overview => Drawn(l) # {}
    BY <1>1, <1>2 DEF TaskHolds, Unanswered
  <1>8. found # {}
    BY <1>1, <1>2, <1>3 DEF TaskHolds, AnswerIsOne
  <1>9. PICK spoken : spoken = {row.answer : row \in {r \in memo'[t].rows : r.fp = Fingerprint(l, t)}}
    OBVIOUS
  <1>10. lift[l].version # 0 => spoken = {}
    BY <1>6, <1>7, <1>9
  <1>11. TaskHolds(l, t)'
    BY <1>2, <1>4, <1>7, <1>8, <1>9, <1>10, FinishHolds
  <1> QED
    BY <1>2, <1>5, <1>6, <1>11, WorkerKeeps

LEMMA LastStandsKeeps ==
  ASSUME LiftInv, OneAtATime, NEW l \in Lifts, NEW t \in Tasks, LastStands(l, t)
  PROVE  LiftInv'
  <1>1. lift[l].step[t] = "refused" /\ lift[l].pc = "asking"
    BY DEF LastStands
  <1>2. TypeOK /\ UnderWay /\ TaskHolds(l, t)
        /\ (t = Overview => \A r \in Readings : lift[l].step[r] = "done")
    BY <1>1, OwnFacts
  <1>3. memo' = memo /\ FinishesWith(l, t, memo[t].last)
    BY <1>2, LastStandsStep
  <1>4. TypeOK' /\ TaskStep(l, t)
    BY <1>3 DEF FinishesWith
  <1>5. MemoHasANewest' /\ SettledOnTheMemo'
        /\ \A fp : {row.answer : row \in {r \in memo'[t].rows : r.fp = fp}} = Said(t, fp)
    BY <1>3, <1>4, SameMemoKeeps
  <1>6. /\ lift[l].version # 0 => Said(t, Fingerprint(l, t)) = {}
        /\ t = Overview => Drawn(l) # {}
        /\ lift[l].failed
    BY <1>1, <1>2 DEF TaskHolds, Unanswered
  <1>7. lift'[l].failed
    BY <1>4, <1>6 DEF TaskStep
  <1>8. memo'[t].rows # {} => memo[t].last # {}
    BY <1>3 DEF LiftInv, MemoHasANewest
  <1>9. PICK spoken : spoken = {row.answer : row \in {r \in memo'[t].rows : r.fp = Fingerprint(l, t)}}
    OBVIOUS
  <1>10. lift[l].version # 0 => spoken = {}
    BY <1>5, <1>6, <1>9
  <1>11. PICK found : found = memo[t].last
    OBVIOUS
  <1>12. TaskHolds(l, t)'
    BY <1>2, <1>3, <1>6, <1>7, <1>8, <1>9, <1>10, <1>11, FinishHolds
  <1> QED
    BY <1>2, <1>4, <1>5, <1>12, WorkerKeeps

-----------------------------------------------------------------------------
(* The other steps.                                                         *)

LEMMA WorldKeeps ==
  ASSUME LiftInv, (\E a \in Areas : EditCode(a)) \/ Upgrade \/ EditByHand
  PROVE  LiftInv'
  <1>1. TypeOK' /\ TypeOK
    BY WorldTypes DEF LiftInv
  <1>2. /\ memo' = memo /\ lift' = lift /\ answers' = answers /\ settled' = settled
        /\ doc'.skeleton = doc.skeleton /\ doc'.readings = doc.readings
        /\ doc'.words = doc.words /\ doc'.wordsFor = doc.wordsFor
        /\ hand' >= hand /\ hand \in Nat /\ hand' \in Nat
    <2>1. CASE EditByHand
      <3>1. hand' = hand + 1 /\ doc' = [doc EXCEPT !.hand = hand'] /\ hand \in Nat /\ doc \in Docs
            /\ UNCHANGED <<memo, lift, answers, settled>>
        BY <1>1, <2>1 DEF EditByHand, TypeOK
      <3>2. doc'.skeleton = doc.skeleton /\ doc'.readings = doc.readings
            /\ doc'.words = doc.words /\ doc'.wordsFor = doc.wordsFor
        BY <3>1 DEF Docs
      <3> QED
        BY <3>1, <3>2
    <2>2. CASE (\E a \in Areas : EditCode(a)) \/ Upgrade
      BY <1>1, <2>2 DEF EditCode, Upgrade, TypeOK
    <2> QED
      BY <2>1, <2>2
  <1>3. MemoHasANewest'
    BY <1>2 DEF LiftInv, MemoHasANewest
  <1>4. SettledOnTheMemo'
    <2>1. \A t \in Tasks : {row.answer : row \in {r \in memo'[t].rows : r.fp = SettledFp(t)}} = SettledSays(t)
      BY <1>2, SameSaid DEF SettledSays
    <2> QED
      BY <1>2, <2>1, SettledKeeps DEF LiftInv
  <1>5. ASSUME NEW l \in Lifts, lift'[l].pc # "idle"
        PROVE  /\ lift'[l].doc.hand <= hand'
               /\ DocAsRead(l)' /\ WordsChosen(l)' /\ OverviewIsLast(l)'
               /\ \A t \in Tasks : TaskHolds(l, t)'
    <2>1. /\ lift[l].doc.hand <= hand /\ lift[l].doc.hand \in Nat
          /\ DocAsRead(l) /\ WordsChosen(l) /\ OverviewIsLast(l)
          /\ \A t \in Tasks : TaskHolds(l, t)
      <3>1. lift[l] \in Records
        BY <1>1 DEF TypeOK
      <3> QED
        BY <1>2, <1>5, <3>1 DEF LiftInv, UnderWay, TaskHolds, Records, Docs
    <2>2. lift'[l].doc.hand <= hand' /\ DocAsRead(l)' /\ OverviewIsLast(l)'
      BY <1>2, <2>1 DEF DocAsRead, OverviewIsLast
    <2>3. WordsChosen(l)'
      BY <1>2, <2>1 DEF WordsChosen, AllDone, Answers, Reused
    <2>4. ASSUME NEW t \in Tasks PROVE TaskHolds(l, t)'
      <3>1. Fingerprint(l, t)' = Fingerprint(l, t) /\ Drawn(l)' = Drawn(l) /\ Answers(t)' = Answers(t)
        BY <1>2 DEF Fingerprint, Drawn, Answers
      <3>2. Said(t, Fingerprint(l, t))' = Said(t, Fingerprint(l, t))
        BY <1>2, <3>1 DEF Said
      <3>3. Unanswered(l, t)' /\ AnswerIsOne(l, t)' /\ ClaimsArrived(l, t)'
        BY <1>2, <2>1, <3>1, <3>2 DEF TaskHolds, Unanswered, AnswerIsOne, ClaimsArrived
      <3>4. DoneAsSaid(l, t)'
        BY <1>2, <2>1, <3>1, <3>2 DEF TaskHolds, DoneAsSaid
      <3> QED
        BY <3>3, <3>4 DEF TaskHolds
    <2> QED
      BY <2>2, <2>3, <2>4
  <1>6. UnderWay'
    BY <1>5 DEF UnderWay, TaskHolds
  <1> QED
    BY <1>1, <1>3, <1>4, <1>6 DEF LiftInv

LEMMA StartKeeps ==
  ASSUME LiftInv, OneAtATime', NEW l \in Lifts, Start(l)
  PROVE  LiftInv'
  <1>1. /\ TypeOK'
        /\ lift[l].pc = "idle" /\ lift'[l].pc = "asking" /\ lift'[l].doc = doc
        /\ lift'[l].raw = <<>> /\ ~lift'[l].failed
        /\ \A t \in Tasks : lift'[l].step[t] = "queued" /\ lift'[l].got[t] = {}
        /\ \A k \in Lifts : k # l => lift'[k] = lift[k]
        /\ UNCHANGED <<code, version, hand, doc, memo, answers, settled>>
    BY StartStep DEF LiftInv
  <1>2. MemoHasANewest'
    BY <1>1 DEF LiftInv, MemoHasANewest
  <1>3. SettledOnTheMemo'
    <2>1. \A t \in Tasks : {row.answer : row \in {r \in memo'[t].rows : r.fp = SettledFp(t)}} = SettledSays(t)
      BY <1>1, SameSaid DEF SettledSays
    <2> QED
      BY <1>1, <2>1, SettledKeeps DEF LiftInv
  <1>4. \A k \in Lifts : lift'[k].pc # "idle" => k = l
    BY <1>1 DEF OneAtATime
  <1>5. lift'[l].doc.hand <= hand' /\ DocAsRead(l)' /\ WordsChosen(l)' /\ OverviewIsLast(l)'
    BY <1>1, OrderFacts DEF LiftInv, TypeOK, DocAsRead, WordsChosen, OverviewIsLast
  <1>6. \A t \in Tasks : TaskHolds(l, t)'
    <2>1. \A t : ~Contains(<<>>, t)
      BY DEF Contains
    <2> QED
      BY <1>1, <2>1 DEF TaskHolds, Unanswered, AnswerIsOne, DoneAsSaid, ClaimsArrived
  <1>7. UnderWay'
    BY <1>4, <1>5, <1>6 DEF UnderWay, TaskHolds
  <1> QED
    BY <1>1, <1>2, <1>3, <1>7 DEF LiftInv

(* A step that chooses words leaves the tasks, the memo and the documents.  *)
LEMMA WordStepKeeps ==
  ASSUME LiftInv, OneAtATime, NEW l \in Lifts, lift[l].pc # "idle", TypeOK', WordStep(l), WordsChosen(l)'
  PROVE  LiftInv'
  <1>1. /\ lift'[l].code = lift[l].code /\ lift'[l].version = lift[l].version /\ lift'[l].doc = lift[l].doc
        /\ lift'[l].step = lift[l].step /\ lift'[l].got = lift[l].got /\ lift'[l].raw = lift[l].raw
        /\ lift[l].failed => lift'[l].failed
        /\ \A k \in Lifts : k # l => lift'[k] = lift[k]
        /\ \A t \in Tasks : Answers(t) \subseteq Answers(t)'
        /\ memo' = memo /\ doc' = doc /\ hand' = hand /\ settled' = settled
    BY DEF WordStep
  <1>2. MemoHasANewest'
    BY <1>1 DEF LiftInv, MemoHasANewest
  <1>3. SettledOnTheMemo'
    <2>1. \A t \in Tasks : {row.answer : row \in {r \in memo'[t].rows : r.fp = SettledFp(t)}} = SettledSays(t)
      BY <1>1, SameSaid DEF SettledSays
    <2> QED
      BY <1>1, <2>1, SettledKeeps DEF LiftInv
  <1>4. \A k \in Lifts : lift'[k].pc # "idle" => k = l
    BY <1>1, TheOthersAreIdle
  <1>5. lift[l].doc.hand <= hand /\ DocAsRead(l) /\ OverviewIsLast(l) /\ \A t \in Tasks : TaskHolds(l, t)
    BY DEF LiftInv, UnderWay, TaskHolds
  <1>6. lift'[l].doc.hand <= hand' /\ DocAsRead(l)' /\ OverviewIsLast(l)'
    BY <1>1, <1>5 DEF DocAsRead, OverviewIsLast
  <1>7. ASSUME NEW t \in Tasks PROVE TaskHolds(l, t)'
    <2>1. TaskHolds(l, t) /\ Answers(t) \subseteq Answers(t)'
      BY <1>1, <1>5
    <2>2. Fingerprint(l, t)' = Fingerprint(l, t) /\ Drawn(l)' = Drawn(l)
      BY <1>1 DEF Fingerprint, Drawn
    <2>3. Said(t, Fingerprint(l, t))' = Said(t, Fingerprint(l, t))
      BY <1>1, <2>2 DEF Said
    <2>4. Unanswered(l, t)' /\ AnswerIsOne(l, t)' /\ ClaimsArrived(l, t)'
      BY <1>1, <2>1, <2>2, <2>3 DEF TaskHolds, Unanswered, AnswerIsOne, ClaimsArrived
    <2>5. DoneAsSaid(l, t)'
      BY <1>1, <2>1, <2>2, <2>3 DEF TaskHolds, DoneAsSaid
    <2> QED
      BY <2>4, <2>5 DEF TaskHolds
  <1>8. UnderWay'
    BY <1>4, <1>6, <1>7 DEF UnderWay, TaskHolds
  <1> QED
    BY <1>2, <1>3, <1>8 DEF LiftInv

LEMMA SameSkeleton ==
  ASSUME NEW l \in Lifts, WordStep(l)
  PROVE  Skeleton(lift[l])' = Skeleton(lift[l]) /\ Reused(lift[l])' = Reused(lift[l])
  BY DEF WordStep, Skeleton, Weighed, Reused

LEMMA AssembleKeeps ==
  ASSUME LiftInv, OneAtATime, NEW l \in Lifts, Assemble(l)
  PROVE  LiftInv'
  <1>1. /\ TypeOK' /\ WordStep(l) /\ answers' = answers /\ lift[l].pc = "asking" /\ AllDone(l)
        /\ IF lift[l].doc.words # Nothing /\ lift[l].doc.wordsFor = Skeleton(lift[l])
           THEN /\ lift'[l].pc = "land" /\ lift'[l].words = lift[l].doc.words
                /\ lift'[l].wordsFor = lift[l].doc.wordsFor
           ELSE lift'[l].pc = "refine"
    BY AssembleStep DEF LiftInv
  <1>2. AllDone(l)' /\ lift'[l].doc = lift[l].doc
    BY <1>1 DEF AllDone, WordStep
  <1>3. Skeleton(lift[l])' = Skeleton(lift[l])
    BY <1>1, SameSkeleton
  <1>4. lift[l].doc.words \in Answers(Naming) \cup {Nothing}
    BY <1>1 DEF LiftInv, UnderWay, DocAsRead, TypeOK
  <1>5. Answers(Naming)' = Answers(Naming)
    BY <1>1 DEF Answers
  <1>6. CASE Reused(lift[l])
    <2>1. lift'[l].pc = "land" /\ lift'[l].words = lift[l].doc.words
          /\ lift'[l].wordsFor = lift[l].doc.wordsFor
          /\ lift[l].doc.words # Nothing /\ lift[l].doc.wordsFor = Skeleton(lift[l])
      BY <1>1, <1>6 DEF Reused
    <2>2. WordsChosen(l)'
      BY <1>2, <1>3, <1>4, <1>5, <2>1 DEF WordsChosen
    <2> QED
      BY <1>1, <2>2, WordStepKeeps
  <1>7. CASE ~Reused(lift[l])
    <2>1. lift'[l].pc = "refine" /\ ~Reused(lift[l])'
      BY <1>1, <1>7, SameSkeleton DEF Reused
    <2>2. WordsChosen(l)'
      BY <1>2, <2>1 DEF WordsChosen
    <2> QED
      BY <1>1, <2>2, WordStepKeeps
  <1> QED
    BY <1>6, <1>7

LEMMA RefineKeeps ==
  ASSUME LiftInv, OneAtATime, NEW l \in Lifts, Refine(l)
  PROVE  LiftInv'
  <1>1. /\ TypeOK' /\ WordStep(l) /\ lift[l].pc = "refine" /\ lift'[l].pc = "land"
        /\ \/ /\ lift'[l].words \in Answers(Naming)' /\ lift'[l].words \notin Answers(Naming)
              /\ lift'[l].wordsFor = Skeleton(lift[l]) /\ lift'[l].failed = lift[l].failed
           \/ /\ lift'[l].failed
              /\ IF lift[l].doc.words # Nothing
                 THEN lift'[l].words = lift[l].doc.words /\ lift'[l].wordsFor = lift[l].doc.wordsFor
                 ELSE lift'[l].words = Nothing
    BY RefineStep DEF LiftInv
  <1>2. AllDone(l) /\ ~Reused(lift[l])
    BY <1>1 DEF LiftInv, UnderWay, WordsChosen
  <1>3. AllDone(l)' /\ lift'[l].doc = lift[l].doc
    BY <1>1, <1>2 DEF AllDone, WordStep
  <1>4. Skeleton(lift[l])' = Skeleton(lift[l]) /\ ~Reused(lift[l])'
    BY <1>1, <1>2, SameSkeleton
  <1>5. lift[l].doc.words \in Answers(Naming) \cup {Nothing}
    BY <1>1 DEF LiftInv, UnderWay, DocAsRead, TypeOK
  <1>6. Answers(Naming) \subseteq Answers(Naming)'
    BY <1>1 DEF WordStep
  <1>7. \A n \in Answers(Naming)' : n # Nothing
    <2>1. answers'[Naming] \in 0 .. MaxAnswers
      BY <1>1 DEF TypeOK
    <2> QED
      BY <2>1, LiftAssumption DEF Answers, Nothing
  <1>8. WordsChosen(l)'
    <2>1. CASE /\ lift'[l].words \in Answers(Naming)' /\ lift'[l].words \notin Answers(Naming)
               /\ lift'[l].wordsFor = Skeleton(lift[l]) /\ lift'[l].failed = lift[l].failed
      BY <1>1, <1>3, <1>4, <1>5, <1>7, <2>1 DEF WordsChosen
    <2>2. CASE /\ lift'[l].failed
               /\ IF lift[l].doc.words # Nothing
                  THEN lift'[l].words = lift[l].doc.words /\ lift'[l].wordsFor = lift[l].doc.wordsFor
                  ELSE lift'[l].words = Nothing
      BY <1>1, <1>3, <1>4, <1>5, <1>6, <2>2 DEF WordsChosen
    <2> QED
      BY <1>1, <2>1, <2>2
  <1> QED
    BY <1>1, <1>8, WordStepKeeps

(* What is done without a failure is what the memo says.                    *)
LEMMA DoneSays ==
  ASSUME NEW l \in Lifts, AllDone(l), \A t \in Tasks : TaskHolds(l, t), lift[l].version # 0, ~lift[l].failed
  PROVE  /\ \A t \in Tasks : lift[l].got[t] = Said(t, Fingerprint(l, t))
         /\ \A t \in Areas \cup Readings : Said(t, Fingerprint(l, t)) # {}
         /\ Said(Overview, Fingerprint(l, Overview)) # {} \/ \A r \in Readings : lift[l].got[r] = {}
  <1>1. \A t \in Tasks : DoneAsSaid(l, t) /\ lift[l].step[t] = "done"
    BY DEF AllDone, TaskHolds
  <1>2. \A t \in Tasks : Said(t, Fingerprint(l, t)) # {} \/ (t = Overview /\ Drawn(l) = {})
    BY <1>1 DEF DoneAsSaid
  <1>3. \A t \in Tasks : lift[l].got[t] = Said(t, Fingerprint(l, t))
    BY <1>1, <1>2 DEF DoneAsSaid
  <1>4. Drawn(l) = {} => \A r \in Readings : lift[l].got[r] = {}
    BY DEF Drawn
  <1> QED
    BY <1>2, <1>3, <1>4, OrderFacts DEF Tasks

(* Once all is done, whatever arrived in whatever order is weighed in the   *)
(* order of the areas.                                                      *)
LEMMA WeighedIsFound ==
  ASSUME NEW l \in Lifts, AllDone(l), \A t \in Tasks : TaskHolds(l, t)
  PROVE  Weighed(lift[l]) = [i \in DOMAIN AreaOrder |-> <<AreaOrder[i], lift[l].got[AreaOrder[i]]>>]
  <1>1. ASSUME NEW i \in DOMAIN AreaOrder
        PROVE  (IF Contains(lift[l].raw, AreaOrder[i]) THEN lift[l].got[AreaOrder[i]] ELSE {})
                 = lift[l].got[AreaOrder[i]]
    <2>1. AreaOrder[i] \in Areas /\ AreaOrder[i] \in Tasks
      BY OrderFacts
    <2>2. Contains(lift[l].raw, AreaOrder[i]) <=> lift[l].got[AreaOrder[i]] # {}
      BY <2>1 DEF AllDone, TaskHolds, ClaimsArrived
    <2> QED
      BY <2>2
  <1> QED
    BY <1>1 DEF Weighed

(* What the landing makes of the documents.                                 *)
LEMMA LandedDoc ==
  ASSUME LiftInv, NEW l \in Lifts, Land(l)
  PROVE  /\ TypeOK' /\ lift[l].pc = "land" /\ lift'[l].pc = "idle"
         /\ \A k \in Lifts : k # l => lift'[k] = lift[k]
         /\ doc'.skeleton = Skeleton(lift[l])
         /\ doc'.readings = [q \in Readings \cup {Overview} |-> lift[l].got[q]]
         /\ doc'.words = lift[l].words /\ doc'.wordsFor = lift[l].wordsFor
         /\ settled'.code = lift[l].code /\ settled'.version = lift[l].version
         /\ settled'.clean = ~lift[l].failed
         /\ memo' = memo /\ DocAsRead(l) /\ WordsChosen(l) /\ AllDone(l)
         /\ \A t \in Tasks : TaskHolds(l, t)
         /\ doc' = IF Proposal(lift[l]) = lift[l].doc THEN doc ELSE Proposal(lift[l])
  <1>1. lift[l].pc = "land" /\ TypeOK
    BY DEF Land, LiftInv
  <1>2. lift[l].doc.hand <= hand /\ DocAsRead(l) /\ WordsChosen(l) /\ \A t \in Tasks : TaskHolds(l, t)
    BY <1>1 DEF LiftInv, UnderWay, TaskHolds
  <1>3. AllDone(l) /\ lift[l].words \in Answers(Naming) \cup {Nothing}
    BY <1>1, <1>2 DEF WordsChosen
  <1>4. /\ TypeOK' /\ lift'[l].pc = "idle"
        /\ \A k \in Lifts : k # l => lift'[k] = lift[k]
        /\ doc' = IF Proposal(lift[l]) = lift[l].doc THEN doc ELSE Proposal(lift[l])
        /\ settled'.code = lift[l].code /\ settled'.version = lift[l].version
        /\ settled'.clean = ~lift[l].failed
        /\ memo' = memo
    BY <1>1, <1>2, <1>3, LandStep
  <1>5. PICK p : p = Proposal(lift[l])
    OBVIOUS
  <1>6. /\ p.skeleton = Skeleton(lift[l]) /\ p.readings = [q \in Readings \cup {Overview} |-> lift[l].got[q]]
        /\ p.words = lift[l].words /\ p.wordsFor = lift[l].wordsFor
    BY <1>5 DEF Proposal
  <1>7. /\ doc'.skeleton = p.skeleton /\ doc'.readings = p.readings
        /\ doc'.words = p.words /\ doc'.wordsFor = p.wordsFor
    <2>1. CASE p = lift[l].doc
      BY <1>2, <1>4, <1>5, <2>1 DEF DocAsRead
    <2>2. CASE p # lift[l].doc
      BY <1>4, <1>5, <2>2
    <2> QED
      BY <2>1, <2>2
  <1> QED
    BY <1>1, <1>2, <1>3, <1>4, <1>6, <1>7

LEMMA LandKeeps ==
  ASSUME LiftInv, OneAtATime, NEW l \in Lifts, Land(l)
  PROVE  LiftInv'
  <1>1. /\ TypeOK' /\ lift[l].pc = "land" /\ lift'[l].pc = "idle"
        /\ \A k \in Lifts : k # l => lift'[k] = lift[k]
        /\ doc'.skeleton = Skeleton(lift[l])
        /\ doc'.readings = [q \in Readings \cup {Overview} |-> lift[l].got[q]]
        /\ doc'.words = lift[l].words /\ doc'.wordsFor = lift[l].wordsFor
        /\ settled'.code = lift[l].code /\ settled'.version = lift[l].version
        /\ settled'.clean = ~lift[l].failed
        /\ memo' = memo /\ WordsChosen(l) /\ AllDone(l)
        /\ \A t \in Tasks : TaskHolds(l, t)
    BY LandedDoc
  <1>2. MemoHasANewest'
    BY <1>1 DEF LiftInv, MemoHasANewest
  <1>3. UnderWay'
    <2>1. \A k \in Lifts : lift'[k].pc # "idle" => k = l
      BY <1>1, TheOthersAreIdle
    <2> QED
      BY <1>1, <2>1 DEF UnderWay
  <1>4. SettledOnTheMemo'
    <2> SUFFICES ASSUME settled'.clean, settled'.version # 0 PROVE SettledOnTheMemo'
      BY DEF SettledOnTheMemo
    <2>1. lift[l].version # 0 /\ ~lift[l].failed
      BY <1>1
    <2>2. /\ \A t \in Tasks : lift[l].got[t] = Said(t, Fingerprint(l, t))
          /\ \A t \in Areas \cup Readings : Said(t, Fingerprint(l, t)) # {}
          /\ Said(Overview, Fingerprint(l, Overview)) # {} \/ \A r \in Readings : lift[l].got[r] = {}
      BY <1>1, <2>1, DoneSays
    <2>3. ASSUME NEW t \in Tasks PROVE SettledFp(t)' = Fingerprint(l, t)
      <3>1. [r \in Readings |-> doc'.readings[r]] = [r \in Readings |-> lift[l].got[r]]
        BY <1>1
      <3> QED
        BY <1>1, <3>1 DEF SettledFp, Fingerprint
    <2>4. \A t \in Tasks : SettledSays(t)' = lift[l].got[t]
      BY <1>1, <2>2, <2>3 DEF SettledSays, Said
    <2>5. /\ \A t \in Readings \cup {Overview} : doc'.readings[t] = SettledSays(t)'
          /\ \A t \in Areas \cup Readings : SettledSays(t)' # {}
          /\ SettledSays(Overview)' # {} \/ \A r \in Readings : doc'.readings[r] = {}
      BY <1>1, <2>2, <2>4, OrderFacts
    <2>6. doc'.skeleton =
             [code |-> settled'.code,
              claims |-> [i \in DOMAIN AreaOrder |-> <<AreaOrder[i], SettledSays(AreaOrder[i])'>>]]
      <3>1. Weighed(lift[l]) = [i \in DOMAIN AreaOrder |-> <<AreaOrder[i], lift[l].got[AreaOrder[i]]>>]
        BY <1>1, WeighedIsFound
      <3>2. \A i \in DOMAIN AreaOrder : SettledSays(AreaOrder[i])' = lift[l].got[AreaOrder[i]]
        BY <2>4, OrderFacts
      <3>3. Weighed(lift[l]) = [i \in DOMAIN AreaOrder |-> <<AreaOrder[i], SettledSays(AreaOrder[i])'>>]
        BY <3>1, <3>2
      <3> QED
        BY <1>1, <3>3 DEF Skeleton
    <2>7. doc'.words # Nothing /\ doc'.wordsFor = doc'.skeleton
      BY <1>1, <2>1 DEF WordsChosen
    <2> QED
      BY <2>5, <2>6, <2>7 DEF SettledOnTheMemo
  <1> QED
    BY <1>1, <1>2, <1>3, <1>4 DEF LiftInv

-----------------------------------------------------------------------------
LEMMA InitHolds == Init => LiftInv
  <1> SUFFICES ASSUME Init PROVE LiftInv
    OBVIOUS
  <1>1. TypeOK
    BY InitTypes
  <1>2. \A l \in Lifts : lift[l].pc = "idle"
    BY NothingTypes DEF Init
  <1>3. MemoHasANewest /\ UnderWay /\ SettledOnTheMemo
    BY <1>2 DEF Init, MemoHasANewest, UnderWay, SettledOnTheMemo
  <1> QED
    BY <1>1, <1>3 DEF LiftInv

LEMMA StuttersKeep == LiftInv /\ UNCHANGED vars => LiftInv'
  <1> SUFFICES ASSUME LiftInv, UNCHANGED vars PROVE LiftInv'
    OBVIOUS
  <1>1. UNCHANGED <<code, version, hand, doc, memo, answers, lift, started, failures, settled>>
    BY DEF vars
  <1>2. TypeOK'
    BY <1>1 DEF LiftInv, TypeOK, Answers
  <1>3. MemoHasANewest'
    BY <1>1 DEF LiftInv, MemoHasANewest
  <1>4. SettledOnTheMemo'
    <2>1. \A t \in Tasks : {row.answer : row \in {r \in memo'[t].rows : r.fp = SettledFp(t)}} = SettledSays(t)
      BY <1>1, SameSaid DEF SettledSays
    <2> QED
      BY <1>1, <2>1, SettledKeeps DEF LiftInv
  <1>5. ASSUME NEW l \in Lifts, lift'[l].pc # "idle"
        PROVE  /\ lift'[l].doc.hand <= hand'
               /\ DocAsRead(l)' /\ WordsChosen(l)' /\ OverviewIsLast(l)'
               /\ \A t \in Tasks : TaskHolds(l, t)'
    <2>1. /\ lift[l].doc.hand <= hand
          /\ DocAsRead(l) /\ WordsChosen(l) /\ OverviewIsLast(l)
          /\ \A t \in Tasks : TaskHolds(l, t)
      BY <1>1, <1>5 DEF LiftInv, UnderWay, TaskHolds
    <2>2. lift'[l].doc.hand <= hand' /\ DocAsRead(l)' /\ OverviewIsLast(l)'
      BY <1>1, <2>1 DEF DocAsRead, OverviewIsLast
    <2>3. WordsChosen(l)'
      BY <1>1, <2>1 DEF WordsChosen, AllDone, Answers, Reused
    <2>4. ASSUME NEW t \in Tasks PROVE TaskHolds(l, t)'
      <3>1. Fingerprint(l, t)' = Fingerprint(l, t) /\ Drawn(l)' = Drawn(l) /\ Answers(t)' = Answers(t)
        BY <1>1 DEF Fingerprint, Drawn, Answers
      <3>2. Said(t, Fingerprint(l, t))' = Said(t, Fingerprint(l, t))
        BY <1>1, <3>1 DEF Said
      <3>3. Unanswered(l, t)' /\ AnswerIsOne(l, t)' /\ ClaimsArrived(l, t)'
        BY <1>1, <2>1, <3>1, <3>2 DEF TaskHolds, Unanswered, AnswerIsOne, ClaimsArrived
      <3>4. DoneAsSaid(l, t)'
        BY <1>1, <2>1, <3>1, <3>2 DEF TaskHolds, DoneAsSaid
      <3> QED
        BY <3>3, <3>4 DEF TaskHolds
    <2> QED
      BY <2>2, <2>3, <2>4
  <1>6. UnderWay'
    BY <1>5 DEF UnderWay, TaskHolds
  <1> QED
    BY <1>2, <1>3, <1>4, <1>6 DEF LiftInv

LEMMA NextHolds == LiftInv /\ OneAtATime /\ OneAtATime' /\ [Next]_vars => LiftInv'
  <1> SUFFICES ASSUME LiftInv, OneAtATime, OneAtATime', [Next]_vars PROVE LiftInv'
    OBVIOUS
  <1>1. CASE (\E a \in Areas : EditCode(a)) \/ Upgrade \/ EditByHand
    BY <1>1, WorldKeeps
  <1>2. ASSUME NEW l \in Lifts, Start(l) \/ Assemble(l) \/ Refine(l) \/ Land(l) PROVE LiftInv'
    BY <1>2, StartKeeps, AssembleKeeps, RefineKeeps, LandKeeps
  <1>3. ASSUME NEW l \in Lifts, NEW t \in Tasks,
               Recall(l, t) \/ Ask(l, t) \/ Remember(l, t) \/ NotRemembered(l, t) \/ LastStands(l, t)
        PROVE  LiftInv'
    BY <1>3, RecallKeeps, AskKeeps, RememberKeeps, NotRememberedKeeps, LastStandsKeeps
  <1>4. CASE UNCHANGED vars
    BY <1>4, StuttersKeep
  <1> QED
    BY <1>1, <1>2, <1>3, <1>4 DEF Next

(* Only a landing lands.                                                    *)
LEMMA LandsIsLand ==
  ASSUME LiftInv, [Next]_vars, NEW l \in Lifts, Lands(l)
  PROVE  Land(l)
  <1>1. lift[l].pc = "land" /\ lift'[l].pc = "idle" /\ lift' # lift
    BY DEF Lands
  <1>2. ASSUME NEW k \in Lifts, k # l, lift'[l] = lift[l] PROVE FALSE
    BY <1>1, <1>2
  <1>3. TypeOK /\ DOMAIN lift = Lifts
    BY DEF LiftInv, TypeOK
  <1>4. ASSUME NEW k \in Lifts, NEW t \in Tasks,
               Recall(k, t) \/ Ask(k, t) \/ Remember(k, t) \/ NotRemembered(k, t) \/ LastStands(k, t)
        PROVE  FALSE
    <2>1. lift[k].pc = "asking"
      BY <1>4 DEF Recall, Ask, Ready, Remember, NotRemembered, LastStands
    <2>2. \A j \in Lifts : j # k => lift'[j] = lift[j]
      BY <1>3, <1>4 DEF Recall, Ask, Remember, NotRemembered, LastStands
    <2> QED
      BY <1>1, <2>1, <2>2
  <1>5. ASSUME NEW k \in Lifts, Start(k) \/ Assemble(k) \/ Refine(k) PROVE FALSE
    <2>1. lift[k].pc # "land"
      BY <1>5 DEF Start, Assemble, Refine
    <2>2. \A j \in Lifts : j # k => lift'[j] = lift[j]
      BY <1>3, <1>5 DEF Start, Assemble, Refine
    <2> QED
      BY <1>1, <2>1, <2>2
  <1>6. ASSUME NEW k \in Lifts, Land(k) PROVE k = l
    BY <1>1, <1>3, <1>6 DEF Land
  <1>7. CASE \E a \in Areas : EditCode(a)
    BY <1>1, <1>7 DEF EditCode
  <1>8. CASE Upgrade \/ EditByHand \/ UNCHANGED vars
    BY <1>1, <1>8 DEF Upgrade, EditByHand, vars
  <1> QED
    BY <1>4, <1>5, <1>6, <1>7, <1>8 DEF Next

(* A lift of the code and the version of the last, clean one: every task    *)
(* comes to what the memo says of it, which is what was drawn.              *)
LEMMA SameProposal ==
  ASSUME LiftInv, NEW l \in Lifts, Land(l),
         settled.clean, settled.version # 0,
         lift[l].code = settled.code, lift[l].version = settled.version
  PROVE  Proposal(lift[l]) = lift[l].doc
  <1>1. /\ lift[l].pc = "land" /\ DocAsRead(l) /\ WordsChosen(l) /\ AllDone(l)
        /\ \A t \in Tasks : TaskHolds(l, t)
    BY LandedDoc
  <1>2. /\ \A t \in Readings \cup {Overview} : doc.readings[t] = SettledSays(t)
        /\ \A t \in Areas \cup Readings : SettledSays(t) # {}
        /\ SettledSays(Overview) # {} \/ \A r \in Readings : doc.readings[r] = {}
        /\ doc.skeleton =
             [code |-> settled.code,
              claims |-> [i \in DOMAIN AreaOrder |-> <<AreaOrder[i], SettledSays(AreaOrder[i])>>]]
        /\ doc.words # Nothing /\ doc.wordsFor = doc.skeleton
    BY DEF LiftInv, SettledOnTheMemo
  <1>3. lift[l].version # 0 /\ \A t \in Tasks : DoneAsSaid(l, t) /\ lift[l].step[t] = "done"
    BY <1>1 DEF AllDone, TaskHolds
  <1>4. \A t \in Areas \cup Readings : SettledFp(t) = Fingerprint(l, t)
    BY OrderFacts DEF SettledFp, Fingerprint
  <1>5. \A t \in Areas \cup Readings : lift[l].got[t] = SettledSays(t)
    BY <1>2, <1>3, <1>4, OrderFacts DEF DoneAsSaid, SettledSays
  <1>6. \A r \in Readings : lift[l].got[r] = doc.readings[r]
    BY <1>2, <1>5
  <1>7. SettledFp(Overview) = Fingerprint(l, Overview)
    <2>1. [r \in Readings |-> doc.readings[r]] = [r \in Readings |-> lift[l].got[r]]
      BY <1>6
    <2> QED
      BY <2>1, OrderFacts DEF SettledFp, Fingerprint
  <1>8. lift[l].got[Overview] = SettledSays(Overview)
    <2>1. CASE SettledSays(Overview) # {}
      BY <1>3, <1>7, <2>1, OrderFacts DEF DoneAsSaid, SettledSays
    <2>2. CASE SettledSays(Overview) = {}
      <3>1. Drawn(l) = {}
        BY <1>2, <1>6, <2>2 DEF Drawn
      <3> QED
        BY <1>3, <1>7, <2>2, <3>1, OrderFacts DEF DoneAsSaid, SettledSays
    <2> QED
      BY <2>1, <2>2
  <1>9. Skeleton(lift[l]) = doc.skeleton
    <2>1. Weighed(lift[l]) = [i \in DOMAIN AreaOrder |-> <<AreaOrder[i], lift[l].got[AreaOrder[i]]>>]
      BY <1>1, WeighedIsFound
    <2>2. \A i \in DOMAIN AreaOrder : lift[l].got[AreaOrder[i]] = SettledSays(AreaOrder[i])
      BY <1>5, OrderFacts
    <2>3. Weighed(lift[l]) = [i \in DOMAIN AreaOrder |-> <<AreaOrder[i], SettledSays(AreaOrder[i])>>]
      BY <2>1, <2>2
    <2> QED
      BY <1>2, <2>3 DEF Skeleton
  <1>10. PICK d \in Docs : d = lift[l].doc
    <2>1. lift[l] \in Records
      BY DEF LiftInv, TypeOK
    <2> QED
      BY <2>1 DEF Records
  <1>11. doc.skeleton = d.skeleton /\ doc.readings = d.readings
         /\ doc.words = d.words /\ doc.wordsFor = d.wordsFor
    BY <1>1, <1>10 DEF DocAsRead
  <1>12. Reused(lift[l])
    BY <1>2, <1>9, <1>10, <1>11 DEF Reused
  <1>13. lift[l].words = d.words /\ lift[l].wordsFor = d.wordsFor
    BY <1>1, <1>2, <1>10, <1>11, <1>12 DEF WordsChosen
  <1>14. [q \in Readings \cup {Overview} |-> lift[l].got[q]] = d.readings
    <2>1. d.readings \in [Readings \cup {Overview} -> SUBSET Nat]
      BY DEF Docs
    <2>2. \A q \in Readings \cup {Overview} : lift[l].got[q] = d.readings[q]
      BY <1>2, <1>6, <1>8, <1>11
    <2> QED
      BY <2>1, <2>2
  <1>15. d = [skeleton |-> d.skeleton, readings |-> d.readings, words |-> d.words,
              wordsFor |-> d.wordsFor, hand |-> d.hand]
    BY DEF Docs
  <1> QED
    BY <1>9, <1>10, <1>11, <1>13, <1>14, <1>15 DEF Proposal

LEMMA UnchangedSettles ==
  LiftInv /\ [Next]_vars =>
    [\A l \in Lifts :
        Lands(l) /\ settled.clean /\ settled.version # 0
        /\ lift[l].code = settled.code /\ lift[l].version = settled.version
        => [doc' EXCEPT !.hand = doc.hand] = doc]_vars
  <1> SUFFICES ASSUME LiftInv, [Next]_vars, NEW l \in Lifts, Lands(l),
                      settled.clean, settled.version # 0,
                      lift[l].code = settled.code, lift[l].version = settled.version
               PROVE  [doc' EXCEPT !.hand = doc.hand] = doc
    OBVIOUS
  <1>1. Land(l)
    BY LandsIsLand
  <1>2. Proposal(lift[l]) = lift[l].doc
    BY <1>1, SameProposal
  <1>3. doc' = doc
    BY <1>1, <1>2 DEF Land
  <1>4. doc \in Docs
    BY DEF LiftInv, TypeOK
  <1>5. [doc EXCEPT !.hand = doc.hand] = doc
    BY <1>4 DEF Docs
  <1> QED
    BY <1>3, <1>5

LEMMA LastStandsAtLanding ==
  LiftInv /\ [Next]_vars =>
    [\A l \in Lifts : Lands(l) =>
        \A t \in Tasks : memo[t].rows # {} /\ (t = Overview => Drawn(l) # {}) =>
            lift[l].got[t] # {}]_vars
  <1> SUFFICES ASSUME LiftInv, [Next]_vars, NEW l \in Lifts, Lands(l), NEW t \in Tasks,
                      memo[t].rows # {}, t = Overview => Drawn(l) # {}
               PROVE  lift[l].got[t] # {}
    OBVIOUS
  <1>1. Land(l)
    BY LandsIsLand
  <1>2. AllDone(l) /\ TaskHolds(l, t)
    BY <1>1, LandedDoc
  <1> QED
    BY <1>2 DEF AllDone, TaskHolds, DoneAsSaid

LEMMA WordsStand ==
  LiftInv /\ [Next]_vars =>
    [\A l \in Lifts : Lands(l) =>
        /\ doc.words # Nothing => doc'.words # Nothing
        /\ doc'.words = doc.words /\ doc.words # Nothing => doc'.wordsFor = doc.wordsFor]_vars
  <1> SUFFICES ASSUME LiftInv, [Next]_vars, NEW l \in Lifts, Lands(l)
               PROVE  /\ doc.words # Nothing => doc'.words # Nothing
                      /\ doc'.words = doc.words /\ doc.words # Nothing => doc'.wordsFor = doc.wordsFor
    OBVIOUS
  <1>1. Land(l)
    BY LandsIsLand
  <1>2. /\ lift[l].pc = "land" /\ doc'.words = lift[l].words /\ doc'.wordsFor = lift[l].wordsFor
        /\ DocAsRead(l) /\ WordsChosen(l)
    BY <1>1, LandedDoc
  <1> QED
    BY <1>2 DEF DocAsRead, WordsChosen

-----------------------------------------------------------------------------
(* With one lift at a time the invariant holds.                             *)
LEMMA AlwaysLiftInv == Spec /\ []OneAtATime => []LiftInv
  BY InitHolds, NextHolds, PTL DEF Spec

(* Whatever the order in which the workers finish, whatever is asked again  *)
(* and whatever fails: with one lift at a time, an Update over the code of  *)
(* the last clean one proposes nothing, no task once found is missing from  *)
(* a landing, and the reviewed words stay under the skeleton they are for.  *)
THEOREM AnUpdateSettles == Spec /\ []OneAtATime => LiftsSettle
  <1>1. LiftInv => TypeOK
    BY DEF LiftInv
  <1> QED
    BY <1>1, AlwaysLiftInv, UnchangedSettles, LastStandsAtLanding, WordsStand, PTL
    DEF Spec, LiftsSettle, UnchangedProposesNothing, LastAnswerStands, WordsAreForTheirSkeleton

(***************************************************************************)
(* Claims.                                                                 *)
(***************************************************************************)

(* A set of numbers has a least one: the principle of induction, in the form *)
(* the provers can use.                                                      *)
LEMMA LeastNumber ==
  ASSUME NEW T \in SUBSET Nat, T # {}
  PROVE  \E x \in T : \A y \in T : x <= y
  <1> DEFINE R == OpToRel(<, Nat)
  <1>1. IsWellFoundedOn(R, Nat)
    BY NatLessThanWellFounded
  <1> HIDE DEF R
  <1>2. PICK x \in T : \A y \in T : ~(<<y, x>> \in R)
    BY <1>1, WFMin, Zenon
  <1>3. \A m, n \in Nat : m < n => <<m, n>> \in R
    BY DEF R, OpToRel
  <1>4. ASSUME NEW y \in T PROVE x <= y
    <2>1. x \in Nat /\ y \in Nat
      OBVIOUS
    <2>2. ~(y < x)
      BY <1>2, <1>3, <2>1
    <2> QED
      BY <2>1, <2>2
  <1> QED
    BY <1>4

-----------------------------------------------------------------------------
(* The domains above one.                                                    *)

UpFrom(f, parent, id, i) ==
    IF i = 0 THEN id ELSE IF f[i - 1] \in DOMAIN parent THEN parent[f[i - 1]] ELSE 0

Ascends(f, parent, id, n) == f = [i \in 0 .. n |-> UpFrom(f, parent, id, i)]

LEMMA AscentExists ==
    ASSUME NEW parent, NEW id, NEW last \in Nat
    PROVE  \E f : Ascends(f, parent, id, last)
  <1> DEFINE T == {n \in 0 .. last : ~(\E f : Ascends(f, parent, id, n))}
  <1>1. SUFFICES ASSUME T # {} PROVE FALSE
    OBVIOUS
  <1>b. T \in SUBSET Nat
    OBVIOUS
  <1>2. PICK m \in T : \A v \in T : m <= v
    <2> HIDE DEF T
    <2> QED
      BY <1>1, <1>b, LeastNumber
  <1>3. m # 0
    <2>1. Ascends([i \in 0 .. 0 |-> id], parent, id, 0)
      BY DEF UpFrom, Ascends
    <2> QED
      BY <1>2, <2>1
  <1>4. m \in Nat /\ m - 1 \in 0 .. last /\ m - 1 \notin T
    BY <1>2, <1>3
  <1>5. PICK w : Ascends(w, parent, id, m - 1)
    BY <1>4
  <1> DEFINE f == [i \in 0 .. m |-> IF i = m THEN UpFrom(w, parent, id, m) ELSE w[i]]
  <1>6. ASSUME NEW i \in 0 .. m PROVE f[i] = UpFrom(f, parent, id, i)
    <2>1. CASE i = 0
      BY <1>3, <1>4, <1>5, <2>1 DEF UpFrom, Ascends
    <2>2. CASE i # 0
      <3>1. i - 1 \in 0 .. m - 1 /\ f[i - 1] = w[i - 1]
        BY <1>4, <2>2
      <3>2. UpFrom(f, parent, id, i) = UpFrom(w, parent, id, i)
        <4> HIDE DEF f
        <4> QED
          BY <2>2, <3>1 DEF UpFrom
      <3>3. CASE i = m
        BY <3>2, <3>3
      <3>4. CASE i # m
        <4>1. i \in 0 .. m - 1
          BY <1>4, <3>4
        <4>2. w[i] = UpFrom(w, parent, id, i)
          BY <1>5, <4>1 DEF Ascends
        <4> QED
          BY <3>2, <3>4, <4>2
      <3> QED
        BY <3>3, <3>4
    <2> QED
      BY <2>1, <2>2
  <1>7. Ascends(f, parent, id, m)
    BY <1>6 DEF Ascends
  <1> QED
    BY <1>2, <1>7

(* Two that ascend agree as far as both go.                                  *)
LEMMA AscentIsOne ==
    ASSUME NEW parent, NEW id, NEW m \in Nat, NEW n \in Nat, m <= n,
           NEW f, Ascends(f, parent, id, m), NEW g, Ascends(g, parent, id, n)
    PROVE  \A i \in 0 .. m : f[i] = g[i]
  <1> DEFINE T == {i \in 0 .. m : f[i] # g[i]}
  <1>1. SUFFICES ASSUME T # {} PROVE FALSE
    OBVIOUS
  <1>b. T \in SUBSET Nat
    OBVIOUS
  <1>2. PICK k \in T : \A v \in T : k <= v
    <2> HIDE DEF T
    <2> QED
      BY <1>1, <1>b, LeastNumber
  <1>3. k \in 0 .. m /\ f[k] # g[k]
    BY <1>2
  <1>4. f[k] = UpFrom(f, parent, id, k) /\ g[k] = UpFrom(g, parent, id, k)
    <2>1. k \in 0 .. n
      BY <1>3
    <2> QED
      BY <1>3, <2>1 DEF Ascends
  <1>5. k # 0
    BY <1>3, <1>4 DEF UpFrom
  <1>6. k - 1 \in 0 .. m /\ k - 1 \notin T
    BY <1>2, <1>3, <1>5
  <1>7. f[k - 1] = g[k - 1]
    BY <1>6
  <1> HIDE DEF T
  <1> QED
    BY <1>3, <1>4, <1>7 DEF UpFrom

LEMMA AboveIsAscent ==
    ASSUME NEW parent, NEW id, NEW n \in Nat
    PROVE  \E f : Ascends(f, parent, id, n) /\ Above(parent, id, n) = f[n]
  <1> DEFINE at[i \in 0 .. n] ==
            IF i = 0 THEN id
            ELSE IF at[i - 1] \in DOMAIN parent THEN parent[at[i - 1]] ELSE 0
  <1>1. PICK f : Ascends(f, parent, id, n)
    BY AscentExists
  <1>2. f = [i \in 0 .. n |-> IF i = 0 THEN id
                ELSE IF f[i - 1] \in DOMAIN parent THEN parent[f[i - 1]] ELSE 0]
    BY <1>1, Zenon DEF Ascends, UpFrom
  <1>3. at = [i \in 0 .. n |-> IF i = 0 THEN id
                ELSE IF at[i - 1] \in DOMAIN parent THEN parent[at[i - 1]] ELSE 0]
    <2> DEFINE IsAt(g) == g = [i \in 0 .. n |-> IF i = 0 THEN id
                  ELSE IF g[i - 1] \in DOMAIN parent THEN parent[g[i - 1]] ELSE 0]
    <2>1. at = CHOOSE g : IsAt(g)
      OBVIOUS
    <2>2. IsAt(f)
      BY <1>2
    <2> HIDE DEF IsAt, at
    <2>3. IsAt(at)
      BY <2>1, <2>2
    <2> QED
      BY <2>3 DEF IsAt
  <1>4. Above(parent, id, n) = at[n]
    BY DEF Above
  <1> HIDE DEF at
  <1>5. Ascends(at, parent, id, n)
    BY <1>3, Zenon DEF Ascends, UpFrom
  <1> QED
    BY <1>4, <1>5

(* The step: one level up, or 0 from the top and for good.                   *)
LEMMA AboveStep ==
    ASSUME NEW parent, NEW id
    PROVE  /\ Above(parent, id, 0) = id
           /\ \A n \in Nat : Above(parent, id, n + 1) =
                IF Above(parent, id, n) \in DOMAIN parent THEN parent[Above(parent, id, n)] ELSE 0
  <1>1. Above(parent, id, 0) = id
    <2>1. PICK f : Ascends(f, parent, id, 0) /\ Above(parent, id, 0) = f[0]
      BY AboveIsAscent
    <2> QED
      BY <2>1 DEF Ascends, UpFrom
  <1>2. ASSUME NEW n \in Nat
        PROVE  Above(parent, id, n + 1) =
                 IF Above(parent, id, n) \in DOMAIN parent THEN parent[Above(parent, id, n)] ELSE 0
    <2>1. PICK f : Ascends(f, parent, id, n) /\ Above(parent, id, n) = f[n]
      BY AboveIsAscent
    <2>2. n + 1 \in Nat /\ n <= n + 1
      OBVIOUS
    <2>3. PICK g : Ascends(g, parent, id, n + 1) /\ Above(parent, id, n + 1) = g[n + 1]
      BY <2>2, AboveIsAscent
    <2>4. f[n] = g[n]
      BY <2>1, <2>2, <2>3, AscentIsOne
    <2>5. n + 1 \in 0 .. n + 1 /\ n + 1 # 0 /\ (n + 1) - 1 = n
      OBVIOUS
    <2>6. g[n + 1] = UpFrom(g, parent, id, n + 1)
      BY <2>3, <2>5 DEF Ascends
    <2> QED
      BY <2>1, <2>3, <2>4, <2>5, <2>6 DEF UpFrom
  <1> QED
    BY <1>1, <1>2

(* Induction, for a set of numbers.                                          *)
LEMMA AllNumbers ==
    ASSUME NEW S, 0 \in S, \A n \in Nat : n \in S => n + 1 \in S
    PROVE  \A n \in Nat : n \in S
  <1> DEFINE T == {n \in Nat : n \notin S}
  <1>1. SUFFICES ASSUME T # {} PROVE FALSE
    OBVIOUS
  <1>2. PICK m \in T : \A v \in T : m <= v
    <2>1. T \in SUBSET Nat
      OBVIOUS
    <2> HIDE DEF T
    <2> QED
      BY <1>1, <2>1, LeastNumber
  <1>3. m # 0 /\ m \in Nat
    BY <1>2
  <1>4. m - 1 \in Nat /\ m - 1 \notin T
    BY <1>2, <1>3
  <1> QED
    BY <1>2, <1>3, <1>4

LEMMA AboveShift ==
    ASSUME NEW parent, NEW id, NEW n \in Nat
    PROVE  \A j \in Nat : Above(parent, id, n + j) = Above(parent, Above(parent, id, n), j)
  <1> DEFINE up == Above(parent, id, n)
             S == {j \in Nat : Above(parent, id, n + j) = Above(parent, up, j)}
  <1>1. 0 \in S
    BY AboveStep
  <1>2. ASSUME NEW j \in Nat, j \in S PROVE j + 1 \in S
    <2>1. n + j \in Nat /\ n + (j + 1) = (n + j) + 1
      OBVIOUS
    <2>2. Above(parent, id, n + j) = Above(parent, up, j)
      BY <1>2
    <2>3. Above(parent, id, (n + j) + 1) =
            IF Above(parent, id, n + j) \in DOMAIN parent THEN parent[Above(parent, id, n + j)] ELSE 0
      BY <2>1, AboveStep
    <2>4. Above(parent, up, j + 1) =
            IF Above(parent, up, j) \in DOMAIN parent THEN parent[Above(parent, up, j)] ELSE 0
      BY AboveStep
    <2> HIDE DEF up
    <2> QED
      BY <2>1, <2>2, <2>3, <2>4
  <1> HIDE DEF S
  <1>3. \A j \in Nat : j \in S
    BY <1>1, <1>2, AllNumbers
  <1> QED
    BY <1>3 DEF S

LEMMA AboveTop ==
    ASSUME NEW parent, 0 \notin DOMAIN parent, NEW id, NEW n \in Nat, Above(parent, id, n) = 0
    PROVE  \A j \in Nat : Above(parent, id, n + j) = 0
  <1> DEFINE S == {j \in Nat : Above(parent, id, n + j) = 0}
  <1>1. 0 \in S
    OBVIOUS
  <1>2. ASSUME NEW j \in Nat, j \in S PROVE j + 1 \in S
    <2>1. n + j \in Nat /\ n + (j + 1) = (n + j) + 1
      OBVIOUS
    <2>2. Above(parent, id, (n + j) + 1) =
            IF Above(parent, id, n + j) \in DOMAIN parent THEN parent[Above(parent, id, n + j)] ELSE 0
      BY <2>1, AboveStep
    <2> QED
      BY <1>2, <2>1, <2>2
  <1> HIDE DEF S
  <1>3. \A j \in Nat : j \in S
    BY <1>1, <1>2, AllNumbers
  <1> QED
    BY <1>3 DEF S

(* Who is above itself has no top.                                           *)
LEMMA RoundHasNoTop ==
    ASSUME NEW parent, 0 \notin DOMAIN parent, NEW id, id # 0, NEW n \in Nat, n # 0, Above(parent, id, n) = id
    PROVE  \A m \in Nat : Above(parent, id, m) # 0
  <1> DEFINE T == {m \in Nat : Above(parent, id, m) = 0}
  <1>1. SUFFICES ASSUME T # {} PROVE FALSE
    OBVIOUS
  <1>2. PICK m \in T : \A v \in T : m <= v
    <2>1. T \in SUBSET Nat
      OBVIOUS
    <2> HIDE DEF T
    <2> QED
      BY <1>1, <2>1, LeastNumber
  <1>3. m \in Nat /\ Above(parent, id, m) = 0
    BY <1>2
  <1>4. CASE m <= n
    <2>1. n - m \in Nat /\ m + (n - m) = n
      BY <1>3, <1>4
    <2>2. Above(parent, id, m + (n - m)) = 0
      BY <1>3, <2>1, AboveTop
    <2> QED
      BY <2>1, <2>2
  <1>5. CASE ~(m <= n)
    <2>1. m - n \in Nat /\ n + (m - n) = m /\ ~(m <= m - n)
      BY <1>3, <1>5
    <2>2. Above(parent, id, n + (m - n)) = Above(parent, Above(parent, id, n), m - n)
      BY <2>1, AboveShift
    <2>3. Above(parent, id, m - n) = 0
      BY <1>3, <2>1, <2>2
    <2>4. m - n \in T
      BY <2>1, <2>3
    <2> QED
      BY <1>2, <2>1, <2>4
  <1> QED
    BY <1>4, <1>5

(* Where less is inside something, one comes as far up or to a top.          *)
Less(fewer, parent) ==
    DOMAIN fewer \subseteq DOMAIN parent /\ \A id \in DOMAIN fewer : fewer[id] = parent[id]

LEMMA AboveInLess ==
    ASSUME NEW parent, 0 \notin DOMAIN parent, NEW fewer, Less(fewer, parent), NEW id
    PROVE  \A n \in Nat : Above(fewer, id, n) \in {Above(parent, id, n), 0}
  <1> DEFINE S == {n \in Nat : Above(fewer, id, n) \in {Above(parent, id, n), 0}}
  <1>1. 0 \in S
    BY AboveStep
  <1>2. ASSUME NEW n \in Nat, n \in S PROVE n + 1 \in S
    <2>1. Above(parent, id, n + 1) =
            IF Above(parent, id, n) \in DOMAIN parent THEN parent[Above(parent, id, n)] ELSE 0
      BY AboveStep
    <2>2. Above(fewer, id, n + 1) =
            IF Above(fewer, id, n) \in DOMAIN fewer THEN fewer[Above(fewer, id, n)] ELSE 0
      BY AboveStep
    <2>3. Above(fewer, id, n) \in {Above(parent, id, n), 0}
      BY <1>2
    <2> QED
      BY <2>1, <2>2, <2>3 DEF Less
  <1> HIDE DEF S
  <1>3. \A n \in Nat : n \in S
    BY <1>1, <1>2, AllNumbers
  <1> QED
    BY <1>3 DEF S

(* Where no domain is inside itself, every chain comes to a top.             *)
LEMMA ChainsEnd ==
    ASSUME NEW parent, 0 \notin DOMAIN parent, \A id \in DOMAIN parent : parent[id] \in Domains,
           \A d \in Domains, n \in 1 .. Cardinality(Domains) : Above(parent, d, n) # d,
           IsFiniteSet(Domains), NEW d \in Domains
    PROVE  ~ComesBack(parent, d)
  <1> DEFINE N == Cardinality(Domains)
             f == [i \in 0 .. N |-> Above(parent, d, i)]
  <1>1. N \in Nat
    BY FS_CardinalityType
  <1>2. SUFFICES ASSUME Above(parent, d, N + 1) # 0 PROVE FALSE
    BY DEF ComesBack
  <1>3. ASSUME NEW i \in 0 .. N PROVE Above(parent, d, i) \in Domains
    <2>1. CASE i = 0
      BY <2>1, AboveStep
    <2>2. CASE i # 0
      <3> DEFINE k == i - 1
      <3>1. k \in Nat /\ i = k + 1
        BY <1>1, <2>2
      <3> HIDE DEF k
      <3>2. Above(parent, d, i) =
              IF Above(parent, d, k) \in DOMAIN parent THEN parent[Above(parent, d, k)] ELSE 0
        BY <3>1, AboveStep
      <3>3. Above(parent, d, i) # 0
        <4>1. i \in Nat /\ (N + 1) - i \in Nat /\ i + ((N + 1) - i) = N + 1
          BY <1>1
        <4>2. ASSUME Above(parent, d, i) = 0 PROVE FALSE
          <5>1. Above(parent, d, i + ((N + 1) - i)) = 0
            BY <4>1, <4>2, AboveTop
          <5> QED
            BY <1>2, <4>1, <5>1
        <4> QED
          BY <4>2
      <3> QED
        BY <3>2, <3>3
    <2> QED
      BY <2>1, <2>2
  <1>4. f \in [0 .. N -> Domains]
    BY <1>3
  <1>5. IsFiniteSet(0 .. N) /\ Cardinality(0 .. N) = N + 1
    BY <1>1, FS_Interval
  <1>6. PICK x, y \in 0 .. N : x # y /\ f[x] = f[y]
    <2>1. N < Cardinality(0 .. N)
      BY <1>1, <1>5
    <2> HIDE DEF f
    <2> QED
      BY <1>4, <1>5, <2>1, FS_PigeonHole
  <1>7. PICK i, j \in 0 .. N : i < j /\ f[i] = f[j]
    <2>1. x \in Int /\ y \in Int
      OBVIOUS
    <2>2. CASE x < y
      BY <1>6, <2>2
    <2>3. CASE y < x
      BY <1>6, <2>3
    <2> QED
      BY <1>6, <2>1, <2>2, <2>3
  <1>8. i \in Nat /\ j - i \in 1 .. N /\ j - i \in Nat /\ i + (j - i) = j
    BY <1>1, <1>7
  <1>9. Above(parent, Above(parent, d, i), j - i) = Above(parent, d, i)
    <2>1. Above(parent, d, i) = Above(parent, d, j)
      BY <1>7
    <2>2. Above(parent, d, i + (j - i)) = Above(parent, Above(parent, d, i), j - i)
      BY <1>8, AboveShift
    <2> QED
      BY <1>8, <2>1, <2>2
  <1>10. Above(parent, d, i) \in Domains
    BY <1>3
  <1> QED
    BY <1>8, <1>9, <1>10

-----------------------------------------------------------------------------
(* The domains in order, and what is cut.                                    *)

InOrderOf(stands) ==
    [i \in 1 .. Cardinality(stands) |->
        CHOOSE d \in stands : Cardinality({x \in stands : x <= d}) = i]

(* Every one of a finite set of numbers has its place in the order, and each *)
(* place is somebody's.                                                      *)
LEMMA EachHasItsPlace ==
    ASSUME NEW stands \in SUBSET Nat, IsFiniteSet(stands)
    PROVE  /\ \A i \in 1 .. Cardinality(stands) :
                \E d \in stands : Cardinality({x \in stands : x <= d}) = i
           /\ \A i \in 1 .. Cardinality(stands) : InOrderOf(stands)[i] \in stands
           /\ \A d \in stands : \E i \in 1 .. Cardinality(stands) : InOrderOf(stands)[i] = d
           /\ \A i, j \in 1 .. Cardinality(stands) : i # j => InOrderOf(stands)[i] # InOrderOf(stands)[j]
  <1> DEFINE upTo(e) == {x \in stands : x <= e}
             N == Cardinality(stands)
             place == [e \in stands |-> Cardinality(upTo(e))]
  <1>1. \A e \in stands : IsFiniteSet(upTo(e)) /\ Cardinality(upTo(e)) \in Nat
                           /\ Cardinality(upTo(e)) <= Cardinality(stands)
    <2> TAKE e \in stands
    <2>1. upTo(e) \in SUBSET stands
      OBVIOUS
    <2> HIDE DEF upTo
    <2> QED
      BY <2>1, FS_Subset, FS_CardinalityType
  <1>2. ASSUME NEW e \in stands PROVE Cardinality(upTo(e)) \in 1 .. N
    <2>1. e \in upTo(e)
      OBVIOUS
    <2>2. N \in Nat
      BY FS_CardinalityType
    <2> HIDE DEF upTo
    <2>3. Cardinality(upTo(e)) # 0
      BY <1>1, <2>1, FS_EmptySet
    <2> QED
      BY <1>1, <2>2, <2>3
  <1>4. ASSUME NEW a \in stands, NEW b \in stands, a < b PROVE Cardinality(upTo(a)) # Cardinality(upTo(b))
    <2>1. upTo(a) \in SUBSET upTo(b)
      <3>1. \A x \in stands : x <= a => x <= b
        <4>1. a \in Nat /\ b \in Nat /\ \A x \in stands : x \in Nat
          OBVIOUS
        <4> QED
          BY <1>4, <4>1
      <3> QED
        BY <3>1
    <2>2. b \in upTo(b) /\ b \notin upTo(a)
      BY <1>4
    <2> HIDE DEF upTo
    <2> QED
      BY <1>1, <2>1, <2>2, FS_Subset
  <1>5. ASSUME NEW d \in stands, NEW e \in stands, Cardinality(upTo(e)) = Cardinality(upTo(d)) PROVE e = d
    <2>1. e \in Nat /\ d \in Nat
      OBVIOUS
    <2>2. CASE e < d
      BY <1>4, <1>5, <2>2
    <2>3. CASE d < e
      BY <1>4, <1>5, <2>3
    <2> HIDE DEF upTo
    <2> QED
      BY <2>1, <2>2, <2>3
  <1>6. place \in Injection(stands, 1 .. N)
    <2> HIDE DEF upTo
    <2>1. place \in [stands -> 1 .. N]
      BY <1>2
    <2>2. \A a, b \in stands : place[a] = place[b] => a = b
      BY <1>5
    <2> HIDE DEF place
    <2> QED
      BY <2>1, <2>2 DEF Injection, IsInjective
  <1>7. place \in Surjection(stands, 1 .. N)
    <2>1. N \in Nat
      BY FS_CardinalityType
    <2>2. IsFiniteSet(1 .. N) /\ Cardinality(1 .. N) = N
      BY <2>1, FS_Interval
    <2> HIDE DEF place
    <2> QED
      BY <1>6, <2>2, FS_Injection
  <1>8. ASSUME NEW i \in 1 .. N PROVE \E d \in stands : Cardinality(upTo(d)) = i
    <2> HIDE DEF upTo
    <2>1. \E d \in stands : place[d] = i
      <3> HIDE DEF place
      <3> QED
        BY <1>7 DEF Surjection
    <2> QED
      BY <2>1
  <1>9. ASSUME NEW i \in 1 .. N
        PROVE  InOrderOf(stands)[i] \in stands /\ Cardinality(upTo(InOrderOf(stands)[i])) = i
    <2>1. InOrderOf(stands)[i] = CHOOSE e \in stands : Cardinality(upTo(e)) = i
      BY DEF InOrderOf
    <2> HIDE DEF upTo
    <2> QED
      BY <1>8, <2>1
  <1>10. ASSUME NEW d \in stands PROVE \E i \in 1 .. N : InOrderOf(stands)[i] = d
    <2> DEFINE i == Cardinality(upTo(d))
    <2>1. i \in 1 .. N
      BY <1>2
    <2> HIDE DEF upTo
    <2> QED
      BY <1>5, <1>9, <2>1
  <1>11. \A i \in 1 .. N : \E d \in stands : Cardinality(upTo(d)) = i
    BY <1>8
  <1>12. \A i, j \in 1 .. N : i # j => InOrderOf(stands)[i] # InOrderOf(stands)[j]
    <2> HIDE DEF upTo
    <2> QED
      BY <1>9
  <1>13. \A i \in 1 .. N : InOrderOf(stands)[i] \in stands
    BY <1>9
  <1> QED
    BY <1>10, <1>11, <1>12, <1>13

CutOne(p, d) == IF ComesBack(p, d) THEN Restrict(p, DOMAIN p \ {d}) ELSE p

CutUpTo(f, parent, order, i) == IF i = 0 THEN parent ELSE CutOne(f[i - 1], order[i])

Cuts(f, parent, order, n) == f = [i \in 0 .. n |-> CutUpTo(f, parent, order, i)]

LEMMA CutsExist ==
    ASSUME NEW parent, NEW order, NEW last \in Nat
    PROVE  \E f : Cuts(f, parent, order, last)
  <1> DEFINE T == {n \in 0 .. last : ~(\E f : Cuts(f, parent, order, n))}
  <1>1. SUFFICES ASSUME T # {} PROVE FALSE
    OBVIOUS
  <1>b. T \in SUBSET Nat
    OBVIOUS
  <1>2. PICK m \in T : \A v \in T : m <= v
    <2> HIDE DEF T
    <2> QED
      BY <1>1, <1>b, LeastNumber
  <1>3. m # 0
    <2>1. Cuts([i \in 0 .. 0 |-> parent], parent, order, 0)
      BY DEF CutUpTo, Cuts
    <2> QED
      BY <1>2, <2>1
  <1>4. m \in Nat /\ m - 1 \in 0 .. last /\ m - 1 \notin T
    BY <1>2, <1>3
  <1>5. PICK w : Cuts(w, parent, order, m - 1)
    BY <1>4
  <1> DEFINE f == [i \in 0 .. m |-> IF i = m THEN CutUpTo(w, parent, order, m) ELSE w[i]]
  <1>6. ASSUME NEW i \in 0 .. m PROVE f[i] = CutUpTo(f, parent, order, i)
    <2>1. CASE i = 0
      BY <1>3, <1>4, <1>5, <2>1 DEF CutUpTo, Cuts
    <2>2. CASE i # 0
      <3>1. i - 1 \in 0 .. m - 1 /\ f[i - 1] = w[i - 1]
        BY <1>4, <2>2
      <3>2. CutUpTo(f, parent, order, i) = CutUpTo(w, parent, order, i)
        <4> HIDE DEF f
        <4> QED
          BY <2>2, <3>1 DEF CutUpTo
      <3>3. CASE i = m
        BY <3>2, <3>3
      <3>4. CASE i # m
        <4>1. i \in 0 .. m - 1
          BY <1>4, <3>4
        <4>2. w[i] = CutUpTo(w, parent, order, i)
          BY <1>5, <4>1 DEF Cuts
        <4> QED
          BY <3>2, <3>4, <4>2
      <3> QED
        BY <3>3, <3>4
    <2> QED
      BY <2>1, <2>2
  <1>7. Cuts(f, parent, order, m)
    BY <1>6 DEF Cuts
  <1> QED
    BY <1>2, <1>7

LEMMA CutIsCuts ==
    ASSUME NEW parent, NEW stands, Cardinality(stands) \in Nat
    PROVE  \E f : /\ Cuts(f, parent, InOrderOf(stands), Cardinality(stands))
                  /\ Cut(parent, stands) = f[Cardinality(stands)]
  <1> DEFINE order == InOrderOf(stands)
             N == Cardinality(stands)
             IsCut(g) == g = [n \in 0 .. N |-> IF n = 0 THEN parent
                ELSE LET p == g[n - 1] IN
                     IF ComesBack(p, order[n]) THEN Restrict(p, DOMAIN p \ {order[n]}) ELSE p]
             cut == CHOOSE g : IsCut(g)
  <1>1. Cut(parent, stands) = cut[N]
    BY DEF Cut, InOrderOf
  <1>2. \A g : IsCut(g) <=> Cuts(g, parent, order, N)
    BY Zenon DEF Cuts, CutUpTo, CutOne
  <1>3. \E g : IsCut(g)
    BY <1>2, CutsExist
  <1> HIDE DEF IsCut
  <1>4. IsCut(cut)
    BY <1>3
  <1> QED
    BY <1>1, <1>2, <1>4

(* After the cut no domain comes back to itself; only what did is cut.       *)
LEMMA CutEnds ==
    ASSUME NEW parent, 0 \notin DOMAIN parent, NEW stands \in SUBSET Domains, ClaimsAssumption
    PROVE  /\ Less(Cut(parent, stands), parent)
           /\ \A d \in stands : ~ComesBack(Cut(parent, stands), d)
           /\ (\A d \in stands : ~ComesBack(parent, d)) => Cut(parent, stands) = parent
  <1> DEFINE order == InOrderOf(stands)
             N == Cardinality(stands)
  <1>0. /\ IsFiniteSet(stands) /\ N \in Nat /\ stands \in SUBSET Nat
        /\ Cardinality(Domains) + 1 \in Nat /\ Cardinality(Domains) + 1 >= 1
    <2>1. Domains \in SUBSET Ids
      BY DEF Ids
    <2>2. IsFiniteSet(Domains)
      BY <2>1, FS_Subset DEF ClaimsAssumption
    <2>3. IsFiniteSet(stands)
      BY <2>2, FS_Subset
    <2>4. Cardinality(stands) \in Nat /\ Cardinality(Domains) \in Nat
      BY <2>2, <2>3, FS_CardinalityType
    <2>5. stands \in SUBSET Nat
      BY DEF ClaimsAssumption
    <2>6. Cardinality(Domains) + 1 \in Nat /\ Cardinality(Domains) + 1 >= 1
      <3> DEFINE k == Cardinality(Domains)
      <3>1. k \in Nat
        BY <2>4
      <3> HIDE DEF k
      <3>2. k + 1 \in Nat /\ k + 1 >= 1
        BY <3>1
      <3> QED
        BY <3>2 DEF k
    <2> QED
      BY <2>3, <2>4, <2>5, <2>6
  <1>1. PICK f : Cuts(f, parent, order, N) /\ Cut(parent, stands) = f[N]
    BY <1>0, CutIsCuts
  <1> HIDE DEF order, N
  <1> DEFINE Fine(n) == /\ Less(f[n], parent)
                        /\ \A j \in 1 .. n : ~ComesBack(f[n], order[j])
                        /\ (\A d \in stands : ~ComesBack(parent, d)) => f[n] = parent
             S == {n \in Nat : n <= N => Fine(n)}
  <1>2. 0 \in S
    <2>1. 0 \in 0 .. N
      BY <1>0
    <2>2. f[0] = parent
      BY <1>1, <2>1 DEF Cuts, CutUpTo
    <2>3. 1 .. 0 = {}
      OBVIOUS
    <2> QED
      BY <2>2, <2>3 DEF Less
  <1>3. ASSUME NEW n \in Nat, n \in S PROVE n + 1 \in S
    <2>1. SUFFICES ASSUME n + 1 <= N PROVE Fine(n + 1)
      <3>1. n + 1 \in Nat
        OBVIOUS
      <3> HIDE DEF Fine
      <3> QED
        BY <3>1
    <2>2. Fine(n)
      BY <1>0, <1>3, <2>1
    <2> DEFINE k == n + 1
    <2>3. k \in 0 .. N /\ k # 0 /\ k - 1 = n /\ k \in 1 .. N
      BY <1>0, <2>1
    <2>4. f[k] = CutOne(f[n], order[k])
      <3> HIDE DEF k
      <3>1. f[k] = CutUpTo(f, parent, order, k)
        BY <1>1, <2>3 DEF Cuts
      <3> QED
        BY <2>3, <3>1 DEF CutUpTo
    <2>5. order[k] \in stands
      BY <1>0, <2>3, EachHasItsPlace DEF order, N
    <2> DEFINE d == order[k]
               p == f[n]
    <2>6. \A i \in 1 .. k : i = k \/ i \in 1 .. n
      OBVIOUS
    <2>7. 0 \notin DOMAIN p
      BY <2>2 DEF Less
    <2> HIDE DEF d, p
    <2>8. CASE ComesBack(p, d)
      <3>1. f[k] = [x \in DOMAIN p \ {d} |-> p[x]]
        BY <2>4, <2>8 DEF CutOne, Restrict, d, p
      <3>2. Less(f[k], p) /\ d \notin DOMAIN f[k]
        BY <3>1 DEF Less
      <3>3. Less(f[k], parent)
        BY <2>2, <3>2 DEF Less, p
      <3>4. ~ComesBack(f[k], d)
        <4> DEFINE q == f[k]
        <4>1. Above(q, d, 0 + 1) = 0
          <5>1. Above(q, d, 0) = d
            BY AboveStep
          <5>2. Above(q, d, 0 + 1) =
                  IF Above(q, d, 0) \in DOMAIN q THEN q[Above(q, d, 0)] ELSE 0
            <6>1. 0 \in Nat
              OBVIOUS
            <6> HIDE DEF q
            <6> QED
              BY <6>1, AboveStep
          <5> HIDE DEF q
          <5>3. d \notin DOMAIN q
            BY <3>2 DEF q
          <5> QED
            BY <5>1, <5>2, <5>3
        <4>2. 0 \notin DOMAIN q
          BY <3>3 DEF Less
        <4>3. 1 \in Nat /\ 0 + 1 = 1 /\ 1 + Cardinality(Domains) = Cardinality(Domains) + 1
              /\ Cardinality(Domains) \in Nat
          BY <1>0, FS_CardinalityType, FS_Subset DEF ClaimsAssumption, Ids
        <4> HIDE DEF q
        <4>4. Above(q, d, 1 + Cardinality(Domains)) = 0
          BY <4>1, <4>2, <4>3, AboveTop
        <4> QED
          BY <4>3, <4>4 DEF ComesBack, q
      <3>5. \A j \in 1 .. n : ~ComesBack(f[k], order[j])
        <4> SUFFICES ASSUME NEW j \in 1 .. n PROVE ~ComesBack(f[k], order[j])
          OBVIOUS
        <4>1. Above(p, order[j], Cardinality(Domains) + 1) = 0
          BY <2>2 DEF ComesBack, p
        <4>2. Above(f[k], order[j], Cardinality(Domains) + 1) = 0
          BY <1>0, <2>7, <3>2, <4>1, AboveInLess
        <4> QED
          BY <4>2 DEF ComesBack
      <3>6. ~(\A e \in stands : ~ComesBack(parent, e))
        <4>1. (\A e \in stands : ~ComesBack(parent, e)) => p = parent
          BY <2>2 DEF p
        <4> QED
          BY <2>5, <2>8, <4>1 DEF d
      <3> QED
        BY <2>6, <3>3, <3>4, <3>5, <3>6 DEF d
    <2>9. CASE ~ComesBack(p, d)
      <3>1. f[k] = p
        BY <2>4, <2>9 DEF CutOne, p, d
      <3> QED
        BY <2>2, <2>6, <2>9, <3>1 DEF p, d
    <2> QED
      BY <2>8, <2>9
  <1> HIDE DEF S
  <1>4. N \in S
    BY <1>0, <1>2, <1>3, AllNumbers
  <1>5. Fine(N)
    BY <1>0, <1>4 DEF S
  <1>6. ASSUME NEW d \in stands PROVE ~ComesBack(f[N], d)
    <2>1. PICK i \in 1 .. N : order[i] = d
      BY <1>0, EachHasItsPlace DEF order, N
    <2> QED
      BY <1>5, <2>1
  <1> QED
    BY <1>1, <1>5, <1>6

-----------------------------------------------------------------------------
(* The weighing.                                                             *)

ClaimsTyped == read \in Bases /\ said \in Seq(Claims)

LEMMA KeysHaveTheirShape ==
    /\ \A k \in Things : Len(k) = 1 /\ k[1] \in Ids /\ k = <<k[1]>>
    /\ \A k \in Lines : /\ Len(k) = 3 /\ k[1] = "depends-on" /\ k[2] \in Parts /\ k[3] \in Parts
                        /\ k = <<"depends-on", k[2], k[3]>>
    /\ \A k \in Places : /\ Len(k) = 3 /\ k[1] = "contains" /\ k[2] \in Domains /\ k[3] \in Ids
                         /\ k = <<"contains", k[2], k[3]>>
  BY DEF Things, Lines, Places

LEMMA ReaderClaimsShapes ==
    ASSUME ClaimsAssumption, read \in Bases
    PROVE  ClaimsFromSkeleton(read) \subseteq Things \cup Lines \cup Places
  <1>1. /\ read.has \subseteq Ids /\ read.lines \subseteq Lines
        /\ \A id \in DOMAIN read.within : id \in Ids /\ read.within[id] \in Domains
    BY DEF ClaimsAssumption, SkeletonShapes
  <1>2. {<<id>> : id \in read.has} \subseteq Things
    BY <1>1 DEF Things
  <1>3. {<<"contains", read.within[id], id>> : id \in DOMAIN read.within \ read.unsure} \subseteq Places
    <2> SUFFICES ASSUME NEW id \in DOMAIN read.within PROVE <<"contains", read.within[id], id>> \in Places
      OBVIOUS
    <2>1. \A d \in Domains, x \in Ids : <<"contains", d, x>> \in Places
      BY DEF Places
    <2> QED
      BY <1>1, <2>1
  <1> QED
    BY <1>1, <1>2, <1>3 DEF ClaimsFromSkeleton

(* What is claimed, by anyone.                                               *)
LEMMA AllClaimsAre ==
    ASSUME ClaimsAssumption, read \in Bases, NEW others \in Seq(Claims), NEW x \in AllClaims(others)
    PROVE  /\ \/ x[2] = [key |-> x[2].key, by |-> Reader, stance |-> "assert", evidence |-> "holds"]
                 /\ x[2].key \in ClaimsFromSkeleton(read)
              \/ \E i \in 1 .. Len(others) : x[2] = others[i] /\ x[2] \in Claims
           /\ x[2].key \in Things \cup Lines \cup Places
  <1>1. CASE x \in {<<0, [key |-> k, by |-> Reader, stance |-> "assert", evidence |-> "holds"]>> :
                      k \in ClaimsFromSkeleton(read)}
    <2>1. PICK k \in ClaimsFromSkeleton(read) :
             x = <<0, [key |-> k, by |-> Reader, stance |-> "assert", evidence |-> "holds"]>>
      BY <1>1
    <2>2. x[2] = [key |-> k, by |-> Reader, stance |-> "assert", evidence |-> "holds"]
      BY <2>1
    <2>3. x[2].key = k
      BY <2>2
    <2> QED
      BY <2>2, <2>3, ReaderClaimsShapes
  <1>2. CASE x \in {<<i, others[i]>> : i \in DOMAIN others}
    <2>1. PICK i \in DOMAIN others : x = <<i, others[i]>>
      BY <1>2
    <2>2. i \in 1 .. Len(others) /\ others[i] \in Claims /\ x[2] = others[i]
      BY <2>1
    <2>3. others[i].key \in Topics
      BY <2>2 DEF Claims
    <2> QED
      BY <2>2, <2>3 DEF ClaimsAssumption
  <1> QED
    BY <1>1, <1>2 DEF AllClaims

LEMMA VoicesAreFinite ==
    ASSUME ClaimsAssumption, read \in Bases, NEW others \in Seq(Claims)
    PROVE  /\ IsFiniteSet(Voices(AllClaims(others)))
           /\ \A some \in SUBSET AllClaims(others) :
                /\ IsFiniteSet(Voices(some)) /\ Cardinality(Voices(some)) \in Nat
                /\ Cardinality(Voices(some)) <= Cardinality(Voices(AllClaims(others)))
  <1> DEFINE f == [i \in 1 .. Len(others) |-> others[i].by]
             speakers == {f[i] : i \in 1 .. Len(others)}
  <1>1. IsFiniteSet(speakers)
    <2>1. f \in Surjection(1 .. Len(others), speakers)
      <3>1. f \in [1 .. Len(others) -> speakers]
        OBVIOUS
      <3>2. \A t \in speakers : \E i \in 1 .. Len(others) : f[i] = t
        OBVIOUS
      <3> HIDE DEF speakers, f
      <3> QED
        BY <3>1, <3>2 DEF Surjection
    <2>2. IsFiniteSet(1 .. Len(others))
      BY FS_Interval
    <2> HIDE DEF speakers, f
    <2> QED
      BY <2>1, <2>2, FS_Surjection
  <1>2. Voices(AllClaims(others)) \subseteq speakers \cup {Reader}
    <2> SUFFICES ASSUME NEW x \in AllClaims(others) PROVE x[2].by \in speakers \cup {Reader}
      BY DEF Voices
    <2>1. CASE x[2] = [key |-> x[2].key, by |-> Reader, stance |-> "assert", evidence |-> "holds"]
      BY <2>1
    <2>2. CASE \E i \in 1 .. Len(others) : x[2] = others[i] /\ x[2] \in Claims
      BY <2>2
    <2> HIDE DEF speakers
    <2> QED
      BY <2>1, <2>2, AllClaimsAre
  <1>3. IsFiniteSet(speakers \cup {Reader})
    <2> HIDE DEF speakers
    <2> QED
      BY <1>1, FS_AddElement
  <1>4. IsFiniteSet(Voices(AllClaims(others)))
    <2> HIDE DEF speakers
    <2> QED
      BY <1>2, <1>3, FS_Subset
  <1>5. \A some \in SUBSET AllClaims(others) : Voices(some) \in SUBSET Voices(AllClaims(others))
    BY DEF Voices
  <1> QED
    BY <1>4, <1>5, FS_Subset, FS_CardinalityType

(* Only what is said weighs, not where in the list it is said.               *)
Words(cs) == {x[2] : x \in cs}

LEMMA WordsWeigh ==
    ASSUME NEW cs, NEW ds, Words(cs) = Words(ds)
    PROVE  /\ KeysOf(cs) = KeysOf(ds)
           /\ \A k : Voices(Asserting(cs, k)) = Voices(Asserting(ds, k))
           /\ \A k : Dropped(cs, k) <=> Dropped(ds, k)
           /\ \A k : Confidence(cs, k) = Confidence(ds, k)
           /\ Believed(cs) = Believed(ds)
  <1>1. \A x \in cs : \E y \in ds : y[2] = x[2]
    BY DEF Words
  <1>2. \A y \in ds : \E x \in cs : y[2] = x[2]
    BY DEF Words
  <1>3. KeysOf(cs) = KeysOf(ds)
    BY <1>1, <1>2 DEF KeysOf
  <1>4. ASSUME NEW k
        PROVE  /\ Voices(Asserting(cs, k)) = Voices(Asserting(ds, k))
               /\ Voices(Refuting(cs, k)) = Voices(Refuting(ds, k))
    BY <1>1, <1>2 DEF Voices, Asserting, Refuting
  <1>5. ASSUME NEW k
        PROVE  /\ SoundOf(Asserting(cs, k)) = {} <=> SoundOf(Asserting(ds, k)) = {}
               /\ Refuting(cs, k) = {} <=> Refuting(ds, k) = {}
               /\ SoundOf(Asserting(cs, k)) = Asserting(cs, k) <=> SoundOf(Asserting(ds, k)) = Asserting(ds, k)
               /\ ReaderSays(Asserting(cs, k)) <=> ReaderSays(Asserting(ds, k))
               /\ ReaderSays(SoundOf(Asserting(cs, k))) <=> ReaderSays(SoundOf(Asserting(ds, k)))
               /\ (\A x \in SoundOf(Refuting(cs, k)) : x[2].evidence = "none")
                    <=> (\A x \in SoundOf(Refuting(ds, k)) : x[2].evidence = "none")
    <2>1. SoundOf(Asserting(cs, k)) = {} <=> SoundOf(Asserting(ds, k)) = {}
      BY <1>1, <1>2 DEF Asserting, SoundOf, Sound
    <2>2. Refuting(cs, k) = {} <=> Refuting(ds, k) = {}
      BY <1>1, <1>2 DEF Refuting
    <2>3. SoundOf(Asserting(cs, k)) = Asserting(cs, k) <=> SoundOf(Asserting(ds, k)) = Asserting(ds, k)
      <3>1. \A es : SoundOf(Asserting(es, k)) = Asserting(es, k)
                      <=> \A x \in es : x[2].key = k /\ x[2].stance = "assert" => Sound(x[2])
        BY DEF SoundOf, Asserting
      <3> QED
        BY <1>1, <1>2, <3>1
    <2>4. ReaderSays(Asserting(cs, k)) <=> ReaderSays(Asserting(ds, k))
      BY <1>1, <1>2 DEF ReaderSays, Asserting
    <2>5. ReaderSays(SoundOf(Asserting(cs, k))) <=> ReaderSays(SoundOf(Asserting(ds, k)))
      BY <1>1, <1>2 DEF ReaderSays, Asserting, SoundOf, Sound
    <2>6. (\A x \in SoundOf(Refuting(cs, k)) : x[2].evidence = "none")
             <=> (\A x \in SoundOf(Refuting(ds, k)) : x[2].evidence = "none")
      BY <1>1, <1>2 DEF Refuting, SoundOf, Sound
    <2> QED
      BY <2>1, <2>2, <2>3, <2>4, <2>5, <2>6
  <1>6. ASSUME NEW k PROVE Dropped(cs, k) <=> Dropped(ds, k)
    BY <1>4, <1>5 DEF Dropped
  <1>7. ASSUME NEW k PROVE Confidence(cs, k) = Confidence(ds, k)
    BY <1>4, <1>5 DEF Confidence
  <1>8. Believed(cs) = Believed(ds)
    BY <1>3, <1>6 DEF Believed
  <1> QED
    BY <1>3, <1>4, <1>6, <1>7, <1>8

LEMMA ConfidenceIsANumber ==
    ASSUME NEW cs, NEW k
    PROVE  Confidence(cs, k) \in 1 .. 3
  BY DEF Confidence, Low, Medium, High

(* Among the places believed of one thing there is one strongest.            *)
IsStrongest(cs, places, a) == a \in places /\ \A b \in places \ {a} : Stronger(cs, a, b)

LEMMA OneIsStrongest ==
    ASSUME ClaimsAssumption, read \in Bases, NEW others \in Seq(Claims),
           NEW id, NEW places, places # {},
           \A a \in places : a \in Places /\ a[3] = id
    PROVE  /\ \E a \in places : IsStrongest(AllClaims(others), places, a)
           /\ \A a, b \in places :
                IsStrongest(AllClaims(others), places, a) /\ IsStrongest(AllClaims(others), places, b) => a = b
  <1> DEFINE cs == AllClaims(others)
             C(a) == Confidence(cs, a)
             V(a) == Cardinality(Voices(Asserting(cs, a)))
             most == Cardinality(Voices(cs))
  <1>1. \A a : C(a) \in 1 .. 3
    BY ConfidenceIsANumber
  <1>2. \A a : V(a) \in Nat /\ V(a) <= most
    <2>1. \A a : Asserting(cs, a) \in SUBSET cs
      BY DEF Asserting
    <2> HIDE DEF cs
    <2> QED
      BY <2>1, VoicesAreFinite DEF cs
  <1>3. most \in Nat
    BY VoicesAreFinite, FS_CardinalityType
  <1>4. \A a \in places : a[2] \in Nat
    BY KeysHaveTheirShape DEF ClaimsAssumption
  <1>5. \A a, b \in places : a[2] = b[2] => a = b
    BY KeysHaveTheirShape
  <1>6. \A a, b : Stronger(cs, a, b) <=> C(a) > C(b) \/ (C(a) = C(b) /\ (V(a) > V(b) \/ (V(a) = V(b) /\ a[2] < b[2])))
    BY DEF Stronger
  <1> HIDE DEF C, V, most, cs
  <1>7. PICK a1 \in places : \A b \in places : C(b) <= C(a1)
    <2> DEFINE T == {3 - C(a) : a \in places}
    <2>1. T \in SUBSET Nat /\ T # {}
      BY <1>1
    <2> HIDE DEF T
    <2>2. PICK t \in T : \A u \in T : t <= u
      BY <2>1, LeastNumber
    <2>3. PICK a \in places : t = 3 - C(a)
      BY <2>2 DEF T
    <2>4. \A b \in places : 3 - C(a) <= 3 - C(b)
      BY <2>2, <2>3 DEF T
    <2> QED
      BY <1>1, <2>4
  <1> DEFINE P1 == {a \in places : C(a) = C(a1)}
  <1>8. PICK a2 \in P1 : \A b \in P1 : V(b) <= V(a2)
    <2> DEFINE T == {most - V(a) : a \in P1}
    <2>1. T \in SUBSET Nat /\ T # {}
      BY <1>2, <1>3
    <2> HIDE DEF T
    <2>2. PICK t \in T : \A u \in T : t <= u
      BY <2>1, LeastNumber
    <2>3. PICK a \in P1 : t = most - V(a)
      BY <2>2 DEF T
    <2>4. \A b \in P1 : most - V(a) <= most - V(b)
      BY <2>2, <2>3 DEF T
    <2> QED
      BY <1>2, <1>3, <2>4
  <1> DEFINE P2 == {a \in P1 : V(a) = V(a2)}
  <1>9. PICK a3 \in P2 : \A b \in P2 : a3[2] <= b[2]
    <2> DEFINE T == {a[2] : a \in P2}
    <2>1. T \in SUBSET Nat /\ T # {}
      BY <1>4
    <2> HIDE DEF T
    <2>2. PICK t \in T : \A u \in T : t <= u
      BY <2>1, LeastNumber
    <2>3. PICK a \in P2 : t = a[2]
      BY <2>2 DEF T
    <2> QED
      BY <2>2, <2>3 DEF T
  <1>10. ASSUME NEW b \in places \ {a3} PROVE Stronger(cs, a3, b)
    <2>1. a3 \in places /\ C(a3) = C(a1) /\ V(a3) = V(a2)
      OBVIOUS
    <2>2. C(b) <= C(a3) /\ C(b) \in Nat /\ C(a3) \in Nat
      BY <1>1, <1>7, <2>1
    <2>3. CASE C(b) # C(a3)
      BY <1>6, <2>2, <2>3
    <2>4. CASE C(b) = C(a3)
      <3>1. b \in P1
        BY <2>1, <2>4
      <3>2. V(b) <= V(a3) /\ V(b) \in Nat /\ V(a3) \in Nat
        BY <1>2, <1>8, <2>1, <3>1
      <3>3. CASE V(b) # V(a3)
        BY <1>6, <2>4, <3>2, <3>3
      <3>4. CASE V(b) = V(a3)
        <4>1. b \in P2
          BY <2>1, <3>1, <3>4
        <4>2. a3[2] <= b[2] /\ a3[2] # b[2] /\ a3[2] \in Nat /\ b[2] \in Nat
          BY <1>4, <1>5, <1>9, <4>1
        <4>3. a3[2] < b[2]
          BY <4>2
        <4> QED
          BY <1>6, <2>4, <3>4, <4>3
      <3> QED
        BY <3>3, <3>4
    <2> QED
      BY <2>3, <2>4
  <1>11. ASSUME NEW a \in places, NEW b \in places, IsStrongest(cs, places, a), IsStrongest(cs, places, b), a # b
         PROVE  FALSE
    <2>1. Stronger(cs, a, b) /\ Stronger(cs, b, a)
      BY <1>11 DEF IsStrongest
    <2>2. /\ C(a) \in Nat /\ C(b) \in Nat /\ V(a) \in Nat /\ V(b) \in Nat
          /\ a[2] \in Nat /\ b[2] \in Nat
      BY <1>1, <1>2, <1>4
    <2> QED
      BY <1>6, <2>1, <2>2
  <1>12. IsStrongest(cs, places, a3)
    BY <1>10 DEF IsStrongest
  <1>13. \A a, b \in places : IsStrongest(cs, places, a) /\ IsStrongest(cs, places, b) => a = b
    BY <1>11
  <1>14. \E a \in places : IsStrongest(cs, places, a)
    BY <1>12 DEF IsStrongest
  <1> HIDE DEF P1, P2
  <1> QED
    BY <1>13, <1>14 DEF cs

LEMMA StrongestIs ==
    ASSUME ClaimsAssumption, read \in Bases, NEW others \in Seq(Claims),
           NEW id, NEW places, places # {},
           \A a \in places : a \in Places /\ a[3] = id
    PROVE  \E a \in places : /\ IsStrongest(AllClaims(others), places, a)
                             /\ Strongest(AllClaims(others), places) = a[2]
  <1>1. PICK a \in places : IsStrongest(AllClaims(others), places, a)
    BY OneIsStrongest
  <1> DEFINE best == CHOOSE x \in places : \A b \in places \ {x} : Stronger(AllClaims(others), x, b)
  <1>2. best \in places /\ IsStrongest(AllClaims(others), places, best)
    BY <1>1 DEF IsStrongest
  <1>3. Strongest(AllClaims(others), places) = best[2]
    BY DEF Strongest
  <1> HIDE DEF best
  <1> QED
    BY <1>2, <1>3

(* What is believed of a relation, is of one of the shapes; both its ends are *)
(* believed as well.                                                          *)
LEMMA BelievedIs ==
    ASSUME ClaimsAssumption, read \in Bases, NEW others \in Seq(Claims)
    PROVE  /\ Believed(AllClaims(others)) \subseteq Things \cup Lines \cup Places
           /\ \A k \in Believed(AllClaims(others)) :
                Len(k) = 3 => {<<k[2]>>, <<k[3]>>} \subseteq Believed(AllClaims(others))
  <1> DEFINE cs == AllClaims(others)
             kept == {k \in KeysOf(cs) : ~Dropped(cs, k)}
  <1>1. Believed(cs) = {k \in kept : Len(k) = 3 => <<k[2]>> \in kept /\ <<k[3]>> \in kept}
    BY DEF Believed
  <1>2. KeysOf(cs) \subseteq Things \cup Lines \cup Places
    BY AllClaimsAre DEF KeysOf
  <1>3. \A x : Len(<<x>>) # 3
    OBVIOUS
  <1> QED
    BY <1>1, <1>2, <1>3

LEMMA PlacesBelieved ==
    ASSUME ClaimsAssumption, read \in Bases, NEW others \in Seq(Claims), NEW cs, NEW id
    PROVE  \A a \in PlacesOf(cs, Believed(AllClaims(others)), id) :
              /\ a \in Places /\ a[2] \in Domains /\ a[3] = id /\ id \in Ids
              /\ <<a[2]>> \in Believed(AllClaims(others)) /\ <<id>> \in Believed(AllClaims(others))
  <1> SUFFICES ASSUME NEW a \in PlacesOf(cs, Believed(AllClaims(others)), id)
               PROVE  /\ a \in Places /\ a[2] \in Domains /\ a[3] = id /\ id \in Ids
                      /\ <<a[2]>> \in Believed(AllClaims(others)) /\ <<id>> \in Believed(AllClaims(others))
    OBVIOUS
  <1>1. a \in Believed(AllClaims(others)) /\ Len(a) = 3 /\ a[1] = "contains" /\ a[3] = id
    BY DEF PlacesOf
  <1>2. a \in Places
    <2>1. a \notin Things
      BY <1>1, KeysHaveTheirShape
    <2>2. a \notin Lines
      BY <1>1, KeysHaveTheirShape
    <2> QED
      BY <1>1, <2>1, <2>2, BelievedIs
  <1> QED
    BY <1>1, <1>2, BelievedIs, KeysHaveTheirShape

LEMMA WordsPlace ==
    ASSUME ClaimsAssumption, read \in Bases, NEW others \in Seq(Claims), NEW more \in Seq(Claims),
           Words(AllClaims(others)) = Words(AllClaims(more))
    PROVE  ToSkeleton(AllClaims(others)) = ToSkeleton(AllClaims(more))
  <1> DEFINE cs == AllClaims(others)
             ds == AllClaims(more)
             live == Believed(cs)
  <1>1. Believed(ds) = live
    BY WordsWeigh
  <1>2. \A a, b : Stronger(cs, a, b) <=> Stronger(ds, a, b)
    <2>1. \A k : Confidence(cs, k) = Confidence(ds, k) /\ Voices(Asserting(cs, k)) = Voices(Asserting(ds, k))
      BY WordsWeigh
    <2> HIDE DEF cs, ds
    <2> QED
      BY <2>1 DEF Stronger
  <1>3. \A id : PlacesOf(cs, live, id) = PlacesOf(ds, live, id)
    BY DEF PlacesOf
  <1>4. ASSUME NEW id, PlacesOf(cs, live, id) # {}
        PROVE  Strongest(cs, PlacesOf(cs, live, id)) = Strongest(ds, PlacesOf(cs, live, id))
    <2> DEFINE places == PlacesOf(cs, live, id)
    <2>1. \A a \in places : a \in Places /\ a[3] = id
      BY PlacesBelieved
    <2> HIDE DEF places
    <2>2. PICK a \in places : IsStrongest(cs, places, a) /\ Strongest(cs, places) = a[2]
      BY <1>4, <2>1, StrongestIs DEF places
    <2>3. PICK b \in places : IsStrongest(ds, places, b) /\ Strongest(ds, places) = b[2]
      BY <1>4, <2>1, StrongestIs DEF places
    <2>4. IsStrongest(cs, places, b)
      BY <1>2, <2>3 DEF IsStrongest
    <2>5. a = b
      <3>1. places # {}
        BY <1>4 DEF places
      <3>2. \A x, y \in places : IsStrongest(cs, places, x) /\ IsStrongest(cs, places, y) => x = y
        BY <2>1, <3>1, OneIsStrongest
      <3> HIDE DEF cs
      <3> QED
        BY <2>2, <2>4, <3>2
    <2> QED
      BY <2>2, <2>3, <2>5 DEF places
  <1> HIDE DEF cs, ds, live
  <1>5. Placed(cs, live) = Placed(ds, live)
    BY <1>3, <1>4 DEF Placed
  <1>6. Believed(cs) = live
    BY DEF live
  <1>7. ToSkeleton(cs) = ToSkeleton(ds)
    BY <1>1, <1>3, <1>5, <1>6 DEF ToSkeleton
  <1> QED
    BY <1>7 DEF cs, ds

(* Saying again what one said adds nothing.                                  *)
LEMMA SaidAgain ==
    ASSUME ClaimsAssumption, ClaimsTyped
    PROVE  VoiceCountsOnce
  <1> SUFFICES ASSUME NEW i \in DOMAIN said
               PROVE  ToSkeleton(AllClaims(Append(said, said[i]))) = ToSkeleton(AllClaims(said))
    BY DEF VoiceCountsOnce, DrawnSkeleton
  <1> DEFINE more == Append(said, said[i])
             n == Len(said)
  <1>1. /\ said \in Seq(Claims) /\ read \in Bases /\ said[i] \in Claims /\ more \in Seq(Claims)
        /\ n \in Nat /\ i \in 1 .. n /\ DOMAIN said = 1 .. n /\ DOMAIN more = 1 .. (n + 1)
        /\ \A j \in 1 .. n : more[j] = said[j]
        /\ more[n + 1] = said[i]
    BY DEF ClaimsTyped
  <1> HIDE DEF more, n
  <1>2. Words(AllClaims(said)) = Words(AllClaims(more))
    <2> DEFINE R == {<<0, [key |-> k, by |-> Reader, stance |-> "assert", evidence |-> "holds"]>> :
                       k \in ClaimsFromSkeleton(read)}
               S(others) == {<<j, others[j]>> : j \in DOMAIN others}
    <2>1. \A others : AllClaims(others) = R \cup S(others)
      BY DEF AllClaims
    <2>2. \A x \in S(said) : \E y \in S(more) : y[2] = x[2]
      <3> SUFFICES ASSUME NEW j \in 1 .. n PROVE \E y \in S(more) : y[2] = said[j]
        BY <1>1
      <3>1. j \in DOMAIN more /\ more[j] = said[j]
        BY <1>1
      <3>2. <<j, more[j]>> \in S(more) /\ <<j, more[j]>>[2] = said[j]
        BY <3>1
      <3> QED
        BY <3>2
    <2>3. \A y \in S(more) : \E x \in S(said) : y[2] = x[2]
      <3> SUFFICES ASSUME NEW j \in 1 .. (n + 1) PROVE \E x \in S(said) : x[2] = more[j]
        BY <1>1
      <3>1. \E k \in DOMAIN said : said[k] = more[j]
        <4>1. CASE j = n + 1
          BY <1>1, <4>1
        <4>2. CASE j # n + 1
          <5>1. j \in 1 .. n
            BY <1>1, <4>2
          <5> QED
            BY <1>1, <5>1
        <4> QED
          BY <4>1, <4>2
      <3>2. PICK k \in DOMAIN said : said[k] = more[j]
        BY <3>1
      <3>3. <<k, said[k]>> \in S(said) /\ <<k, said[k]>>[2] = more[j]
        BY <3>2
      <3> QED
        BY <3>3
    <2> HIDE DEF R, S
    <2> QED
      BY <2>1, <2>2, <2>3 DEF Words
  <1>3. ToSkeleton(AllClaims(said)) = ToSkeleton(AllClaims(more))
    BY <1>1, <1>2, WordsPlace
  <1> QED
    BY <1>3 DEF more

(* One more voice for something, with evidence that holds.                   *)
LEMMA SupportIsHarmless ==
    ASSUME ClaimsAssumption, ClaimsTyped
    PROVE  SupportNeverHurts
  <1> SUFFICES ASSUME NEW c \in [key : Topics, by : Others, stance : {"assert"}, evidence : {"holds"}]
               PROVE  Believed(AllClaims(said)) \subseteq Believed(AllClaims(Append(said, c)))
    BY DEF SupportNeverHurts
  <1> DEFINE more == Append(said, c)
             cs == AllClaims(said)
             ds == AllClaims(more)
             n == Len(said)
  <1>1. /\ said \in Seq(Claims) /\ read \in Bases /\ c \in Claims /\ more \in Seq(Claims)
        /\ c.stance = "assert" /\ Sound(c)
        /\ n \in Nat /\ DOMAIN said = 1 .. n /\ DOMAIN more = 1 .. (n + 1)
        /\ \A j \in 1 .. n : more[j] = said[j]
        /\ more[n + 1] = c
    BY DEF ClaimsTyped, Claims, Sound
  <1>2. ds = cs \cup {<<n + 1, c>>}
    <2>1. \A x : x \in {<<j, more[j]>> : j \in 1 .. (n + 1)} <=> x \in {<<j, said[j]>> : j \in 1 .. n} \/ x = <<n + 1, c>>
      <3> HIDE DEF more, n
      <3>1. \A j : j \in 1 .. (n + 1) <=> j \in 1 .. n \/ j = n + 1
        BY <1>1
      <3> QED
        BY <1>1, <3>1
    <2> HIDE DEF more, n
    <2> QED
      BY <1>1, <2>1 DEF AllClaims
  <1>3. /\ cs \in SUBSET ds
        /\ \A x \in ds : x \in cs \/ x[2] = c
    BY <1>2
  <1>4. \A some \in SUBSET ds : /\ IsFiniteSet(Voices(some)) /\ Cardinality(Voices(some)) \in Nat
    BY <1>1, VoicesAreFinite
  <1> HIDE DEF more, cs, ds, n
  <1>5. ASSUME NEW k, ~Dropped(cs, k) PROVE ~Dropped(ds, k)
    <2>1. /\ Asserting(cs, k) \in SUBSET Asserting(ds, k)
          /\ Asserting(ds, k) \in SUBSET ds
      BY <1>3 DEF Asserting
    <2>2. Refuting(ds, k) = Refuting(cs, k)
      BY <1>1, <1>3 DEF Refuting
    <2>3. SoundOf(Asserting(cs, k)) \subseteq SoundOf(Asserting(ds, k))
      BY <2>1 DEF SoundOf
    <2>4. ReaderSays(SoundOf(Asserting(cs, k))) => ReaderSays(SoundOf(Asserting(ds, k)))
      BY <2>3 DEF ReaderSays
    <2>5. /\ Cardinality(Voices(Asserting(cs, k))) <= Cardinality(Voices(Asserting(ds, k)))
          /\ Cardinality(Voices(Asserting(cs, k))) \in Nat
          /\ Cardinality(Voices(Asserting(ds, k))) \in Nat
          /\ Cardinality(Voices(Refuting(ds, k))) \in Nat
      <3>1. Voices(Asserting(cs, k)) \in SUBSET Voices(Asserting(ds, k))
        BY <2>1 DEF Voices
      <3>2. Refuting(ds, k) \in SUBSET ds /\ Asserting(cs, k) \in SUBSET ds
        BY <2>1 DEF Refuting
      <3>3. IsFiniteSet(Voices(Asserting(ds, k)))
        BY <1>4, <2>1
      <3> QED
        BY <1>4, <2>1, <3>1, <3>2, <3>3, FS_Subset
    <2>6. SoundOf(Asserting(cs, k)) # {}
      BY <1>5 DEF Dropped
    <2>7. SoundOf(Asserting(ds, k)) # {}
      BY <2>3, <2>6
    <2>8. ASSUME Cardinality(Voices(Refuting(ds, k))) >= Cardinality(Voices(Asserting(ds, k)))
          PROVE  /\ ReaderSays(SoundOf(Asserting(ds, k)))
                 /\ \A x \in SoundOf(Refuting(ds, k)) : x[2].evidence = "none"
      <3>1. Cardinality(Voices(Refuting(cs, k))) >= Cardinality(Voices(Asserting(cs, k)))
        BY <2>2, <2>5, <2>8
      <3>2. /\ ReaderSays(SoundOf(Asserting(cs, k)))
            /\ \A x \in SoundOf(Refuting(cs, k)) : x[2].evidence = "none"
        BY <1>5, <3>1 DEF Dropped
      <3> QED
        BY <2>2, <2>4, <3>2
    <2> QED
      BY <2>7, <2>8 DEF Dropped
  <1>6. KeysOf(cs) \subseteq KeysOf(ds)
    BY <1>3 DEF KeysOf
  <1>7. Believed(cs) \subseteq Believed(ds)
    BY <1>5, <1>6 DEF Believed
  <1> QED
    BY <1>7 DEF cs, ds, more

(* What is drawn, whatever was claimed.                                      *)
LEMMA PlacedInDrawn ==
    ASSUME ClaimsAssumption, read \in Bases, NEW others \in Seq(Claims)
    PROVE  LET cs == AllClaims(others)
               live == Believed(cs)
               placed == Placed(cs, live)
           IN  \A id \in DOMAIN placed : /\ placed[id] \in Domains /\ <<placed[id]>> \in live
                                         /\ id \in Ids
  <1> DEFINE cs == AllClaims(others)
             live == Believed(cs)
             placed == Placed(cs, live)
             stands == {d \in Domains : <<d>> \in live}
             byVoices == {id \in Ids : PlacesOf(cs, live, id) # {}}
             byReader == {id \in DOMAIN read.within \ byVoices :
                             read.within[id] \in stands /\ (id \in Domains => id \in stands)}
  <1>1. placed = [id \in byVoices \cup byReader |->
                    IF id \in byVoices THEN Strongest(cs, PlacesOf(cs, live, id)) ELSE read.within[id]]
    BY DEF Placed
  <1>2. ASSUME NEW id \in byVoices
        PROVE  /\ Strongest(cs, PlacesOf(cs, live, id)) \in Domains
               /\ <<Strongest(cs, PlacesOf(cs, live, id))>> \in live
    <2> DEFINE places == PlacesOf(cs, live, id)
    <2>1. \A a \in places : a \in Places /\ a[3] = id /\ a[2] \in Domains /\ <<a[2]>> \in live
      BY PlacesBelieved
    <2>2. places # {}
      OBVIOUS
    <2> HIDE DEF places
    <2>3. PICK a \in places : Strongest(cs, places) = a[2]
      BY <2>1, <2>2, StrongestIs
    <2>4. Strongest(cs, places) \in Domains /\ <<Strongest(cs, places)>> \in live
      BY <2>1, <2>3
    <2> QED
      BY <2>4 DEF places
  <1>3. \A id \in byReader : read.within[id] \in Domains /\ <<read.within[id]>> \in live /\ id \in Ids
    BY DEF ClaimsAssumption, SkeletonShapes
  <1> HIDE DEF byVoices, byReader, live, cs
  <1>4. ASSUME NEW id \in DOMAIN placed
        PROVE  placed[id] \in Domains /\ <<placed[id]>> \in live /\ id \in Ids
    <2>1. id \in byVoices \cup byReader
      BY <1>1
    <2> HIDE DEF placed
    <2>2. CASE id \in byVoices
      BY <1>1, <1>2, <2>1, <2>2 DEF byVoices
    <2>3. CASE id \notin byVoices
      BY <1>1, <1>3, <2>1, <2>3
    <2> QED
      BY <2>2, <2>3
  <1> QED
    BY <1>4 DEF cs, live

LEMMA HangsTogether ==
    ASSUME ClaimsAssumption, ClaimsTyped
    PROVE  DrawnHangsTogether
  <1> DEFINE cs == AllClaims(said)
             live == Believed(cs)
             has == {id \in Ids : <<id>> \in live}
             found == Placed(cs, live)
             stands == has \cap Domains
             placed == Cut(found, stands)
             sk == DrawnSkeleton
  <1>1. /\ sk.has = has /\ sk.lines = live \cap Lines
        /\ sk.within = Restrict(placed, DOMAIN placed \cap has)
    BY DEF ToSkeleton, DrawnSkeleton
  <1>2. read \in Bases /\ said \in Seq(Claims)
    BY DEF ClaimsTyped
  <1>3. ASSUME NEW l \in sk.lines PROVE {l[2], l[3]} \subseteq sk.has
    <2>1. l \in live /\ l \in Lines
      BY <1>1
    <2>2. Len(l) = 3 /\ l[2] \in Ids /\ l[3] \in Ids
      BY <2>1, KeysHaveTheirShape DEF Ids
    <2>3. {<<l[2]>>, <<l[3]>>} \subseteq live
      BY <1>2, <2>1, <2>2, BelievedIs
    <2> QED
      BY <1>1, <2>2, <2>3
  <1>4. \A id \in DOMAIN found : found[id] \in Domains /\ <<found[id]>> \in live /\ id \in Ids
    BY <1>2, PlacedInDrawn
  <1>5. 0 \notin DOMAIN found /\ stands \in SUBSET Domains /\ Domains \subseteq Ids
    BY <1>4 DEF ClaimsAssumption, Ids
  <1> HIDE DEF cs, live, found, sk
  <1>6. Less(placed, found) /\ \A d \in stands : ~ComesBack(placed, d)
    <2> HIDE DEF stands
    <2> QED
      BY <1>5, CutEnds
  <1>7. DOMAIN sk.within = DOMAIN placed \cap has /\ \A id \in DOMAIN sk.within : sk.within[id] = placed[id]
    <2> HIDE DEF placed, has
    <2> QED
      BY <1>1 DEF Restrict
  <1>8. ASSUME NEW id \in DOMAIN sk.within PROVE {id, sk.within[id]} \subseteq sk.has
    <2>1. id \in has /\ id \in DOMAIN found /\ sk.within[id] = found[id]
      <3> HIDE DEF placed, has
      <3> QED
        BY <1>6, <1>7 DEF Less
    <2>2. found[id] \in has
      BY <1>4, <1>5, <2>1
    <2> QED
      BY <1>1, <2>1, <2>2
  <1>9. ASSUME NEW d \in Domains, NEW n \in 1 .. Cardinality(Domains) PROVE Above(sk.within, d, n) # d
    <2> DEFINE q == sk.within
               N == Cardinality(Domains)
    <2>1. /\ n \in Nat /\ n # 0 /\ N + 1 \in Nat /\ d # 0
      <3>1. IsFiniteSet(Domains)
        BY <1>5, FS_Subset DEF ClaimsAssumption
      <3>2. N \in Nat
        BY <3>1, FS_CardinalityType
      <3> QED
        BY <3>2, <1>5 DEF ClaimsAssumption
    <2>2. Less(q, placed) /\ 0 \notin DOMAIN placed /\ 0 \notin DOMAIN q
      <3> HIDE DEF placed, has
      <3> QED
        BY <1>5, <1>6, <1>7 DEF Less
    <2> SUFFICES ASSUME Above(q, d, n) = d PROVE FALSE
      OBVIOUS
    <2> HIDE DEF q, placed, N
    <2>3. \A m \in Nat : Above(q, d, m) # 0
      BY <2>1, <2>2, RoundHasNoTop
    <2>4. CASE d \in stands
      <3>1. Above(placed, d, N + 1) = 0
        BY <1>6, <2>4 DEF ComesBack, N
      <3>2. Above(q, d, N + 1) = 0
        BY <2>1, <2>2, <3>1, AboveInLess
      <3> QED
        BY <2>1, <2>3, <3>2
    <2>5. CASE d \notin stands
      <3>1. d \notin DOMAIN q
        BY <1>7, <2>5 DEF q
      <3>2. Above(q, d, 0) = d /\ 0 \in Nat
        BY AboveStep
      <3>3. Above(q, d, 0 + 1) = IF Above(q, d, 0) \in DOMAIN q THEN q[Above(q, d, 0)] ELSE 0
        BY <3>2, AboveStep
      <3>4. Above(q, d, 0 + 1) = 0
        BY <3>1, <3>2, <3>3
      <3> QED
        BY <2>3, <3>4
    <2> QED
      BY <2>4, <2>5
  <1> HIDE DEF has, placed, stands
  <1> QED
    BY <1>3, <1>8, <1>9 DEF DrawnHangsTogether, sk

(* What the reader found is a skeleton that nests properly.                  *)
LEMMA ReaderSkeleton ==
    ASSUME ClaimsAssumption, ReaderNestsProperly, read \in Bases
    PROVE  /\ read = [has |-> read.has, lines |-> read.lines, within |-> read.within, unsure |-> read.unsure]
           /\ read.within = [id \in DOMAIN read.within |-> read.within[id]]
           /\ read.has \subseteq Ids /\ read.lines \subseteq Lines
           /\ \A id \in DOMAIN read.within : /\ id \in read.has /\ read.within[id] \in read.has
                                             /\ read.within[id] \in Domains
           /\ read.unsure \subseteq DOMAIN read.within
           /\ \A l \in read.lines : l[2] \in read.has /\ l[3] \in read.has
           /\ \A d \in Domains : ~ComesBack(read.within, d)
  <1>1. read \in SkeletonShapes
    BY DEF ClaimsAssumption
  <1>2. PICK inside \in SUBSET Ids : read.within \in [inside -> Domains]
    BY <1>1 DEF SkeletonShapes
  <1>3. /\ read = [has |-> read.has, lines |-> read.lines, within |-> read.within, unsure |-> read.unsure]
        /\ read.has \subseteq Ids /\ read.lines \subseteq Lines
    BY <1>1 DEF SkeletonShapes
  <1>4. /\ \A l \in read.lines : {l[2], l[3]} \subseteq read.has
        /\ \A id \in DOMAIN read.within : {id, read.within[id]} \subseteq read.has
        /\ read.unsure \subseteq DOMAIN read.within
    BY DEF ClaimsAssumption
  <1>5. \A d \in Domains : ~ComesBack(read.within, d)
    <2>1. 0 \notin DOMAIN read.within
      BY <1>2 DEF ClaimsAssumption
    <2>2. \A id \in DOMAIN read.within : read.within[id] \in Domains
      BY <1>2
    <2>3. \A d \in Domains, n \in 1 .. Cardinality(Domains) : Above(read.within, d, n) # d
      BY DEF ReaderNestsProperly
    <2>4. IsFiniteSet(Domains)
      BY FS_Subset DEF ClaimsAssumption, Ids
    <2> QED
      BY <2>1, <2>2, <2>3, <2>4, ChainsEnd
  <1> QED
    BY <1>2, <1>3, <1>4, <1>5

(* Claims that say what the reader says weigh to what the reader found.      *)
LEMMA RepeatedIsBelieved ==
    ASSUME ClaimsAssumption, ReaderNestsProperly, ClaimsTyped,
           \A i \in DOMAIN said : /\ said[i].key \in ClaimsFromSkeleton(read)
                                  /\ said[i].stance = "assert" /\ Sound(said[i])
    PROVE  Believed(AllClaims(said)) = ClaimsFromSkeleton(read)
  <1> DEFINE cs == AllClaims(said)
             claimed == ClaimsFromSkeleton(read)
             own(k) == <<0, [key |-> k, by |-> Reader, stance |-> "assert", evidence |-> "holds"]>>
  <1>0. read \in Bases /\ said \in Seq(Claims)
    BY DEF ClaimsTyped
  <1>1. ASSUME NEW x \in cs
        PROVE  x[2].key \in claimed /\ x[2].stance = "assert" /\ Sound(x[2])
    <2>1. CASE /\ x[2] = [key |-> x[2].key, by |-> Reader, stance |-> "assert", evidence |-> "holds"]
               /\ x[2].key \in claimed
      <3>1. x[2].stance = "assert" /\ x[2].evidence = "holds"
        BY <2>1
      <3> QED
        BY <2>1, <3>1 DEF Sound
    <2>2. CASE \E i \in 1 .. Len(said) : x[2] = said[i]
      BY <1>0, <2>2
    <2> QED
      BY <1>0, <2>1, <2>2, AllClaimsAre
  <1>2. ASSUME NEW k \in claimed
        PROVE  own(k) \in cs /\ own(k)[2].key = k /\ own(k)[2].stance = "assert"
    BY DEF AllClaims
  <1>3. KeysOf(cs) = claimed
    <2> HIDE DEF own, cs, claimed
    <2> QED
      BY <1>1, <1>2 DEF KeysOf
  <1>4. ASSUME NEW k \in claimed PROVE ~Dropped(cs, k)
    <2> HIDE DEF own, cs, claimed
    <2>1. own(k) \in Asserting(cs, k)
      BY <1>2 DEF Asserting
    <2>2. SoundOf(Asserting(cs, k)) # {}
      BY <1>1, <1>2, <2>1 DEF SoundOf
    <2>3. Refuting(cs, k) = {}
      BY <1>1 DEF Refuting
    <2>4. Cardinality(Voices(Refuting(cs, k))) = 0
      <3>1. Voices(Refuting(cs, k)) = {}
        BY <2>3 DEF Voices
      <3> QED
        BY <3>1, FS_EmptySet
    <2>5. Cardinality(Voices(Asserting(cs, k))) \in Nat /\ Cardinality(Voices(Asserting(cs, k))) # 0
      <3>1. Asserting(cs, k) \in SUBSET cs
        BY DEF Asserting
      <3>2. /\ IsFiniteSet(Voices(Asserting(cs, k)))
            /\ Cardinality(Voices(Asserting(cs, k))) \in Nat
        BY <1>0, <3>1, VoicesAreFinite DEF cs
      <3>3. Voices(Asserting(cs, k)) # {}
        BY <2>1 DEF Voices
      <3> QED
        BY <3>2, <3>3, FS_EmptySet
    <2> QED
      BY <2>2, <2>4, <2>5 DEF Dropped
  <1>5. ASSUME NEW k \in claimed, Len(k) = 3 PROVE <<k[2]>> \in claimed /\ <<k[3]>> \in claimed
    <2>1. \A id \in read.has : <<id>> \in claimed
      BY DEF ClaimsFromSkeleton
    <2>2. CASE k \in {<<id>> : id \in read.has}
      BY <1>5, <2>2
    <2>3. CASE k \in read.lines
      BY <1>0, <2>1, <2>3, ReaderSkeleton
    <2>4. CASE k \in {<<"contains", read.within[id], id>> : id \in DOMAIN read.within \ read.unsure}
      <3>1. PICK id \in DOMAIN read.within : k = <<"contains", read.within[id], id>>
        BY <2>4
      <3>2. k[2] = read.within[id] /\ k[3] = id
        BY <3>1
      <3>3. k[2] \in read.has /\ k[3] \in read.has
        BY <1>0, <3>2, ReaderSkeleton
      <3> QED
        BY <2>1, <3>3
    <2> QED
      BY <2>2, <2>3, <2>4 DEF ClaimsFromSkeleton
  <1> HIDE DEF cs, claimed, own
  <1>6. Believed(cs) = claimed
    BY <1>3, <1>4, <1>5 DEF Believed
  <1> QED
    BY <1>6 DEF cs, claimed

LEMMA ComesRound ==
    ASSUME ClaimsAssumption, ReaderNestsProperly, ClaimsTyped
    PROVE  RoundTrip
  <1> SUFFICES ASSUME \A i \in DOMAIN said : /\ said[i].key \in ClaimsFromSkeleton(read)
                                              /\ said[i].stance = "assert" /\ Sound(said[i])
               PROVE  ToSkeleton(AllClaims(said)) = read
    BY DEF RoundTrip, DrawnSkeleton
  <1> DEFINE cs == AllClaims(said)
             live == Believed(cs)
             has == {id \in Ids : <<id>> \in live}
             found == Placed(cs, live)
             sure == DOMAIN read.within \ read.unsure
  <1>0. read \in Bases /\ said \in Seq(Claims)
    BY DEF ClaimsTyped
  <1>1. live = ClaimsFromSkeleton(read)
    BY RepeatedIsBelieved
  <1>r. /\ read = [has |-> read.has, lines |-> read.lines, within |-> read.within, unsure |-> read.unsure]
        /\ read.within = [id \in DOMAIN read.within |-> read.within[id]]
        /\ read.has \subseteq Ids /\ read.lines \subseteq Lines
        /\ \A id \in DOMAIN read.within : /\ id \in read.has /\ read.within[id] \in read.has
                                          /\ read.within[id] \in Domains
        /\ read.unsure \subseteq DOMAIN read.within
        /\ \A d \in Domains : ~ComesBack(read.within, d)
    BY <1>0, ReaderSkeleton
  <1>2. ASSUME NEW k
        PROVE  k \in live <=> \/ \E id \in read.has : k = <<id>>
                              \/ k \in read.lines
                              \/ \E id \in sure : k = <<"contains", read.within[id], id>>
    <2> HIDE DEF live
    <2> QED
      BY <1>1 DEF ClaimsFromSkeleton
  <1> HIDE DEF live, cs
  <1>3. \A k \in read.lines : Len(k) = 3 /\ k[1] = "depends-on"
    BY <1>r, KeysHaveTheirShape
  <1>4. has = read.has
    <2> SUFFICES ASSUME NEW id \in Ids PROVE <<id>> \in live <=> id \in read.has
      BY <1>r
    <2>1. <<id>> \notin read.lines
      BY <1>3
    <2>2. \A d, x : <<id>> # <<"contains", d, x>>
      <3>1. \A d, x : Len(<<"contains", d, x>>) = 3 /\ Len(<<id>>) = 1
        OBVIOUS
      <3> QED
        BY <3>1
    <2>3. \A x : <<id>> = <<x>> => id = x
      OBVIOUS
    <2> QED
      BY <1>2, <2>1, <2>2, <2>3
  <1>5. live \cap Lines = read.lines
    <2> SUFFICES ASSUME NEW k \in Lines PROVE k \in live <=> k \in read.lines
      BY <1>r
    <2>1. Len(k) = 3 /\ k[1] = "depends-on"
      BY KeysHaveTheirShape
    <2>2. \A id : k # <<id>>
      BY <2>1
    <2>3. \A d, x : k # <<"contains", d, x>>
      BY <2>1
    <2> QED
      BY <1>2, <2>2, <2>3
  <1>6. ASSUME NEW id
        PROVE  PlacesOf(cs, live, id) = IF id \in sure THEN {<<"contains", read.within[id], id>>} ELSE {}
    <2>1. ASSUME NEW k \in PlacesOf(cs, live, id) PROVE id \in sure /\ k = <<"contains", read.within[id], id>>
      <3>1. k \in live /\ Len(k) = 3 /\ k[1] = "contains" /\ k[3] = id
        BY <2>1 DEF PlacesOf
      <3>2. k \notin read.lines
        BY <1>3, <3>1
      <3>3. \A x : k # <<x>>
        BY <3>1
      <3>4. PICK x \in sure : k = <<"contains", read.within[x], x>>
        BY <1>2, <3>1, <3>2, <3>3
      <3>5. k[3] = x
        BY <3>4
      <3> QED
        BY <3>1, <3>4, <3>5
    <2>2. ASSUME id \in sure PROVE <<"contains", read.within[id], id>> \in PlacesOf(cs, live, id)
      <3> DEFINE k == <<"contains", read.within[id], id>>
      <3>1. k \in live
        BY <1>2, <2>2
      <3>2. Len(k) = 3 /\ k[1] = "contains" /\ k[3] = id
        OBVIOUS
      <3> HIDE DEF k
      <3>3. k \in PlacesOf(cs, live, id)
        BY <3>1, <3>2 DEF PlacesOf
      <3> QED
        BY <3>3 DEF k
    <2> HIDE DEF sure
    <2> QED
      BY <2>1, <2>2
  <1>7. ASSUME NEW id \in sure PROVE Strongest(cs, PlacesOf(cs, live, id)) = read.within[id]
    <2> DEFINE k == <<"contains", read.within[id], id>>
    <2>1. PlacesOf(cs, live, id) = {k}
      BY <1>6
    <2>2. k[2] = read.within[id]
      OBVIOUS
    <2> HIDE DEF k
    <2>3. \A a \in {k} : \A b \in {k} \ {a} : Stronger(cs, a, b)
      OBVIOUS
    <2>4. (CHOOSE a \in {k} : \A b \in {k} \ {a} : Stronger(cs, a, b)) = k
      BY <2>3
    <2> QED
      BY <2>1, <2>2, <2>4 DEF Strongest
  <1>8. found = read.within
    <2> DEFINE stands == {d \in Domains : <<d>> \in live}
               byVoices == {id \in Ids : PlacesOf(cs, live, id) # {}}
               byReader == {id \in DOMAIN read.within \ byVoices :
                               read.within[id] \in stands /\ (id \in Domains => id \in stands)}
    <2>1. found = [id \in byVoices \cup byReader |->
                      IF id \in byVoices THEN Strongest(cs, PlacesOf(cs, live, id)) ELSE read.within[id]]
      BY DEF Placed
    <2>2. byVoices = sure
      BY <1>6, <1>r
    <2>3. \A id \in read.has : id \in Domains => id \in stands
      BY <1>2
    <2>4. byReader = DOMAIN read.within \ sure
      <3> HIDE DEF byVoices, stands
      <3> QED
        BY <1>r, <2>2, <2>3
    <2>5. byVoices \cup byReader = DOMAIN read.within
      <3> HIDE DEF byVoices, byReader
      <3> QED
        BY <2>2, <2>4
    <2> HIDE DEF byVoices, byReader, found
    <2>6. found = [id \in DOMAIN read.within |-> read.within[id]]
      BY <1>7, <2>1, <2>2, <2>5
    <2> QED
      BY <1>r, <2>6
  <1>9. Cut(found, has \cap Domains) = found
    <2> HIDE DEF found, has
    <2>1. 0 \notin DOMAIN found
      BY <1>r, <1>8 DEF ClaimsAssumption
    <2>2. \A d \in has \cap Domains : ~ComesBack(found, d)
      BY <1>r, <1>8
    <2> QED
      BY <2>1, <2>2, CutEnds
  <1>10. Restrict(found, DOMAIN found \cap has) = read.within
    <2>1. DOMAIN read.within \cap read.has = DOMAIN read.within
      BY <1>r
    <2> HIDE DEF found, has
    <2> QED
      BY <1>4, <1>8, <1>r, <2>1 DEF Restrict
  <1>11. {m \in read.unsure : read.within[m] \in has /\ PlacesOf(cs, live, m) = {}} = read.unsure
    <2> HIDE DEF has
    <2>1. \A m \in read.unsure : m \notin sure
      OBVIOUS
    <2> QED
      BY <1>4, <1>6, <1>r, <2>1
  <1>12. ToSkeleton(cs) = [has |-> has, lines |-> live \cap Lines,
                          within |-> Restrict(Cut(found, has \cap Domains), DOMAIN Cut(found, has \cap Domains) \cap has),
                          unsure |-> {m \in read.unsure : read.within[m] \in has /\ PlacesOf(cs, live, m) = {}}]
    BY DEF ToSkeleton, live
  <1>13. ToSkeleton(cs) = [has |-> read.has, lines |-> read.lines, within |-> read.within, unsure |-> read.unsure]
    <2> HIDE DEF found, has
    <2> QED
      BY <1>4, <1>5, <1>9, <1>10, <1>11, <1>12
  <1> QED
    BY <1>13, <1>r DEF cs

(* The weighing of claims is sound, for any repository, voices and claims.   *)
THEOREM ClaimsAreWeighed == ClaimsSpec => []ClaimsHold
  <1>1. ClaimsInit => ClaimsTyped
    BY DEF ClaimsInit, ClaimsTyped
  <1>2. ClaimsTyped /\ [ClaimsNext]_claimsVars => ClaimsTyped'
    BY DEF ClaimsNext, Say, ClaimsTyped, claimsVars
  <1>3. ClaimsTyped => ClaimsHold
    BY ClaimsAssumption, ReaderNestsProperly, ComesRound, HangsTogether, SaidAgain, SupportIsHarmless
       DEF ClaimsHold
  <1> QED
    BY <1>1, <1>2, <1>3, PTL DEF ClaimsSpec

(***************************************************************************)
(* The model pass.                                                         *)
(***************************************************************************)

(* The order is by the numbers themselves.                                   *)
LEMMA OrderGrows ==
    ASSUME NEW stands \in SUBSET Nat, IsFiniteSet(stands),
           NEW i \in 1 .. Cardinality(stands), NEW j \in 1 .. Cardinality(stands)
    PROVE  i < j <=> InOrderOf(stands)[i] < InOrderOf(stands)[j]
  <1> DEFINE upTo(e) == {x \in stands : x <= e}
             N == Cardinality(stands)
  <1>1. \A e \in stands : IsFiniteSet(upTo(e)) /\ Cardinality(upTo(e)) \in Nat
    <2> TAKE e \in stands
    <2>1. upTo(e) \in SUBSET stands
      OBVIOUS
    <2> HIDE DEF upTo
    <2> QED
      BY <2>1, FS_Subset, FS_CardinalityType
  <1>2. ASSUME NEW k \in 1 .. N
        PROVE  InOrderOf(stands)[k] \in stands /\ Cardinality(upTo(InOrderOf(stands)[k])) = k
    <2>1. InOrderOf(stands)[k] = CHOOSE e \in stands : Cardinality(upTo(e)) = k
      BY DEF InOrderOf
    <2>2. \E e \in stands : Cardinality(upTo(e)) = k
      BY EachHasItsPlace
    <2> HIDE DEF upTo
    <2> QED
      BY <2>1, <2>2
  <1>3. \A a, b \in stands : a <= b => Cardinality(upTo(a)) <= Cardinality(upTo(b))
    <2> SUFFICES ASSUME NEW a \in stands, NEW b \in stands, a <= b
                 PROVE  Cardinality(upTo(a)) <= Cardinality(upTo(b))
      OBVIOUS
    <2>0. a <= b
      OBVIOUS
    <2>1. upTo(a) \in SUBSET upTo(b)
      <3>1. \A x \in stands : x <= a => x <= b
        <4>1. a \in Nat /\ b \in Nat /\ \A x \in stands : x \in Nat
          OBVIOUS
        <4> QED
          BY <2>0, <4>1
      <3> QED
        BY <3>1
    <2> HIDE DEF upTo
    <2> QED
      BY <1>1, <2>1, FS_Subset
  <1> DEFINE a == InOrderOf(stands)[i]
             b == InOrderOf(stands)[j]
  <1>4. /\ a \in stands /\ b \in stands /\ Cardinality(upTo(a)) = i /\ Cardinality(upTo(b)) = j
        /\ a \in Nat /\ b \in Nat /\ i \in Nat /\ j \in Nat
    <2>1. i \in Nat /\ j \in Nat
      OBVIOUS
    <2> HIDE DEF upTo
    <2> QED
      BY <1>2, <2>1
  <1> HIDE DEF upTo, a, b
  <1>5. ASSUME i < j PROVE a < b
    <2>1. ~(b <= a)
      BY <1>3, <1>4, <1>5
    <2> QED
      BY <1>4, <2>1
  <1>6. ASSUME a < b PROVE i < j
    <2>1. i <= j
      BY <1>3, <1>4, <1>6
    <2>2. i # j
      <3>1. ASSUME i = j PROVE FALSE
        <4>1. a = b
          BY <3>1 DEF a, b
        <4> QED
          BY <1>4, <1>6, <4>1
      <3> QED
        BY <3>1
    <2> QED
      BY <1>4, <2>1, <2>2
  <1> QED
    BY <1>5, <1>6 DEF a, b

-----------------------------------------------------------------------------
(* The walk, one id after the other.                                         *)

WalkOne(w, x, lenient) ==
    LET clash == Renamed(w.renames, x) \in DOMAIN w.final
        gives == clash /\ lenient /\ x \in DOMAIN w.renames
        name  == IF gives THEN x ELSE Renamed(w.renames, x)
    IN  [renames |-> Restrict(w.renames, {y \in DOMAIN w.renames : gives => y # x}),
         final   |-> [m \in DOMAIN w.final \cup {name} |-> IF m \in DOMAIN w.final THEN w.final[m] ELSE x],
         clashes |-> w.clashes \/ clash]

WalkUpTo(f, renames, order, lenient, i) ==
    IF i = 0 THEN [renames |-> renames, final |-> NoRenames, clashes |-> FALSE]
    ELSE WalkOne(f[i - 1], order[i], lenient)

Walks(f, renames, order, lenient, n) == f = [i \in 0 .. n |-> WalkUpTo(f, renames, order, lenient, i)]

LEMMA WalksExist ==
    ASSUME NEW renames, NEW order, NEW lenient, NEW last \in Nat
    PROVE  \E f : Walks(f, renames, order, lenient, last)
  <1> DEFINE T == {n \in 0 .. last : ~(\E f : Walks(f, renames, order, lenient, n))}
  <1>1. SUFFICES ASSUME T # {} PROVE FALSE
    OBVIOUS
  <1>b. T \in SUBSET Nat
    OBVIOUS
  <1>2. PICK m \in T : \A v \in T : m <= v
    <2> HIDE DEF T
    <2> QED
      BY <1>1, <1>b, LeastNumber
  <1>3. m # 0
    <2> DEFINE begin == [renames |-> renames, final |-> NoRenames, clashes |-> FALSE]
    <2>1. Walks([i \in 0 .. 0 |-> begin], renames, order, lenient, 0)
      <3> HIDE DEF begin
      <3> QED
        BY DEF WalkUpTo, Walks, begin
    <2> QED
      BY <1>2, <2>1
  <1>4. m \in Nat /\ m - 1 \in 0 .. last /\ m - 1 \notin T
    BY <1>2, <1>3
  <1>5. PICK w : Walks(w, renames, order, lenient, m - 1)
    BY <1>4
  <1> DEFINE f == [i \in 0 .. m |-> IF i = m THEN WalkUpTo(w, renames, order, lenient, m) ELSE w[i]]
  <1>6. ASSUME NEW i \in 0 .. m PROVE f[i] = WalkUpTo(f, renames, order, lenient, i)
    <2>1. CASE i = 0
      <3>1. 0 \in 0 .. m - 1 /\ f[0] = w[0]
        BY <1>3, <1>4
      <3>2. w[0] = WalkUpTo(w, renames, order, lenient, 0)
        BY <1>5, <3>1 DEF Walks
      <3> HIDE DEF f
      <3> QED
        BY <2>1, <3>1, <3>2 DEF WalkUpTo
    <2>2. CASE i # 0
      <3>1. i - 1 \in 0 .. m - 1 /\ f[i - 1] = w[i - 1]
        BY <1>4, <2>2
      <3>2. WalkUpTo(f, renames, order, lenient, i) = WalkUpTo(w, renames, order, lenient, i)
        <4> HIDE DEF f
        <4> QED
          BY <2>2, <3>1 DEF WalkUpTo
      <3>3. CASE i = m
        BY <3>2, <3>3
      <3>4. CASE i # m
        <4>1. i \in 0 .. m - 1
          BY <1>4, <3>4
        <4>2. w[i] = WalkUpTo(w, renames, order, lenient, i)
          BY <1>5, <4>1 DEF Walks
        <4> QED
          BY <3>2, <3>4, <4>2
      <3> QED
        BY <3>3, <3>4
    <2> QED
      BY <2>1, <2>2
  <1>7. Walks(f, renames, order, lenient, m)
    BY <1>6 DEF Walks
  <1> QED
    BY <1>2, <1>7

LEMMA WalkIsWalks ==
    ASSUME NEW of, Cardinality(of) \in Nat, NEW renames, NEW lenient
    PROVE  \E f : /\ Walks(f, renames, InOrderOf(of), lenient, Cardinality(of))
                  /\ Walk(of, renames, lenient) = f[Cardinality(of)]
  <1> DEFINE id == InOrder(of)
             N == Cardinality(of)
             IsWalk(upTo) == upTo = [n \in 0 .. N |->
                IF n = 0 THEN [renames |-> renames, final |-> NoRenames, clashes |-> FALSE]
                ELSE LET w     == upTo[n - 1]
                         clash == Renamed(w.renames, id[n]) \in DOMAIN w.final
                         gives == clash /\ lenient /\ id[n] \in DOMAIN w.renames
                         name  == IF gives THEN id[n] ELSE Renamed(w.renames, id[n])
                     IN  [renames |-> Restrict(w.renames, {x \in DOMAIN w.renames : gives => x # id[n]}),
                          final   |-> [m \in DOMAIN w.final \cup {name} |->
                                         IF m \in DOMAIN w.final THEN w.final[m] ELSE id[n]],
                          clashes |-> w.clashes \/ clash]]
             walk == CHOOSE g : IsWalk(g)
  <1>1. Walk(of, renames, lenient) = walk[N]
    BY DEF Walk
  <1>2. \A g : IsWalk(g) <=> Walks(g, renames, id, lenient, N)
    BY Zenon DEF Walks, WalkUpTo, WalkOne
  <1>3. \E g : IsWalk(g)
    BY <1>2, WalksExist
  <1> HIDE DEF IsWalk
  <1>4. IsWalk(walk)
    BY <1>3
  <1>5. id = InOrderOf(of)
    BY DEF InOrder, InOrderOf
  <1> HIDE DEF id, walk, N
  <1>6. Walks(walk, renames, InOrderOf(of), lenient, N)
    BY <1>2, <1>4, <1>5
  <1> QED
    BY <1>1, <1>6 DEF N

(* One step of the walk: what it is called, and who else is.                 *)
LEMMA OneStep ==
    ASSUME NEW w, NEW x, NEW lenient \in BOOLEAN
    PROVE  LET v     == WalkOne(w, x, lenient)
               clash == Renamed(w.renames, x) \in DOMAIN w.final
               gives == clash /\ lenient /\ x \in DOMAIN w.renames
               name  == IF gives THEN x ELSE Renamed(w.renames, x)
           IN  /\ DOMAIN v.renames = {y \in DOMAIN w.renames : gives => y # x}
               /\ \A y \in DOMAIN v.renames : v.renames[y] = w.renames[y]
               /\ DOMAIN v.final = DOMAIN w.final \cup {name}
               /\ \A m \in DOMAIN w.final : v.final[m] = w.final[m]
               /\ name \notin DOMAIN w.final => v.final[name] = x
               /\ v.clashes <=> w.clashes \/ clash
               /\ Renamed(v.renames, x) = name
               /\ \A y : y # x => Renamed(v.renames, y) = Renamed(w.renames, y)
  <1> DEFINE clash == Renamed(w.renames, x) \in DOMAIN w.final
             gives == clash /\ lenient /\ x \in DOMAIN w.renames
             name  == IF gives THEN x ELSE Renamed(w.renames, x)
             kept  == {y \in DOMAIN w.renames : gives => y # x}
             v     == WalkOne(w, x, lenient)
  <1>1. /\ v.renames = Restrict(w.renames, kept) 
        /\ v.final = [m \in DOMAIN w.final \cup {name} |-> IF m \in DOMAIN w.final THEN w.final[m] ELSE x]
        /\ v.clashes = (w.clashes \/ clash)
    BY DEF WalkOne
  <1> HIDE DEF v
  <1>2. DOMAIN v.renames = kept /\ \A y \in kept : v.renames[y] = w.renames[y]
    <2> HIDE DEF kept
    <2> QED
      BY <1>1 DEF Restrict
  <1>3. /\ DOMAIN v.final = DOMAIN w.final \cup {name}
        /\ \A m \in DOMAIN w.final : v.final[m] = w.final[m]
        /\ name \notin DOMAIN w.final => v.final[name] = x
    <2> HIDE DEF name
    <2> QED
      BY <1>1
  <1>4. Renamed(v.renames, x) = name
    BY <1>2 DEF Renamed
  <1>5. \A y : y # x => Renamed(v.renames, y) = Renamed(w.renames, y)
    BY <1>2 DEF Renamed
  <1> HIDE DEF name, kept, clash
  <1>6. v.clashes <=> w.clashes \/ clash
    BY <1>1
  <1> QED
    BY <1>2, <1>3, <1>4, <1>5, <1>6 DEF name, kept, clash, v

(* What is known of the walk after some of the ids.                          *)
WalkedSoFar(f, renames, order, lenient, n) ==
    LET r == f[n].renames
        name(i) == Renamed(r, order[i])
    IN  /\ \A x \in DOMAIN r : x \in DOMAIN renames /\ r[x] = renames[x]
        /\ \A x \in DOMAIN renames \ DOMAIN r : \E i \in 1 .. n : x = order[i]
        /\ DOMAIN f[n].final = {name(i) : i \in 1 .. n}
        /\ \A m \in DOMAIN f[n].final : \E i \in 1 .. n : f[n].final[m] = order[i] /\ name(i) = m
        /\ ~f[n].clashes => \A i, j \in 1 .. n : i # j => name(i) # name(j)
        /\ \A i \in 1 .. n :
             name(i) = IF /\ lenient /\ order[i] \in DOMAIN renames
                          /\ \E j \in 1 .. (i - 1) : name(j) = Renamed(renames, order[i])
                       THEN order[i] ELSE Renamed(renames, order[i])

LEMMA WalkBegins ==
    ASSUME NEW f, NEW renames, NEW order, NEW lenient \in BOOLEAN, NEW last \in Nat,
           Walks(f, renames, order, lenient, last)
    PROVE  WalkedSoFar(f, renames, order, lenient, 0)
  <1>1. f[0] = [renames |-> renames, final |-> NoRenames, clashes |-> FALSE]
    <2>1. 0 \in 0 .. last
      OBVIOUS
    <2> QED
      BY <2>1 DEF Walks, WalkUpTo
  <1>2. 1 .. 0 = {} /\ DOMAIN NoRenames = {}
    BY DEF NoRenames
  <1> QED
    BY <1>1, <1>2 DEF WalkedSoFar

LEMMA WalkGoesOn ==
    ASSUME NEW f, NEW renames, NEW order, NEW lenient \in BOOLEAN, NEW last \in Nat,
           Walks(f, renames, order, lenient, last),
           \A i, j \in 1 .. last : i # j => order[i] # order[j],
           NEW n \in Nat, n + 1 <= last, WalkedSoFar(f, renames, order, lenient, n)
    PROVE  WalkedSoFar(f, renames, order, lenient, n + 1)
  <1> DEFINE w == f[n]
             k == n + 1
             v == f[k]
             x == order[k]
             r == w.renames
             s == v.renames
             clash == Renamed(r, x) \in DOMAIN w.final
             gives == clash /\ lenient /\ x \in DOMAIN r
             name  == IF gives THEN x ELSE Renamed(r, x)
  <1>1. k \in 0 .. last /\ k # 0 /\ k - 1 = n /\ k \in 1 .. last
    OBVIOUS
  <1>2. v = WalkOne(w, x, lenient)
    <2> HIDE DEF k
    <2>1. f[k] = WalkUpTo(f, renames, order, lenient, k)
      BY <1>1 DEF Walks
    <2> QED
      BY <1>1, <2>1 DEF WalkUpTo
  <1>3. /\ DOMAIN s = {y \in DOMAIN r : gives => y # x}
        /\ \A y \in DOMAIN s : s[y] = r[y]
        /\ DOMAIN v.final = DOMAIN w.final \cup {name}
        /\ \A m \in DOMAIN w.final : v.final[m] = w.final[m]
        /\ name \notin DOMAIN w.final => v.final[name] = x
        /\ v.clashes <=> w.clashes \/ clash
        /\ Renamed(s, x) = name
        /\ \A y : y # x => Renamed(s, y) = Renamed(r, y)
    <2> HIDE DEF w, x
    <2> QED
      BY <1>2, OneStep
  <1>4. \A i \in 1 .. n : /\ i \in 1 .. k /\ order[i] # x /\ Renamed(s, order[i]) = Renamed(r, order[i])
    <2>1. \A i \in 1 .. n : i \in 1 .. last /\ i # k /\ i \in 1 .. k
      BY <1>1
    <2> QED
      BY <1>1, <1>3, <2>1
  <1>5. \A i \in 1 .. k : i \in 1 .. n \/ i = k
    OBVIOUS
  <1>6. /\ \A y \in DOMAIN r : y \in DOMAIN renames /\ r[y] = renames[y]
        /\ \A y \in DOMAIN renames \ DOMAIN r : \E i \in 1 .. n : y = order[i]
        /\ DOMAIN w.final = {Renamed(r, order[i]) : i \in 1 .. n}
        /\ \A m \in DOMAIN w.final : \E i \in 1 .. n : w.final[m] = order[i] /\ Renamed(r, order[i]) = m
        /\ ~w.clashes => \A i, j \in 1 .. n : i # j => Renamed(r, order[i]) # Renamed(r, order[j])
        /\ \A i \in 1 .. n :
             Renamed(r, order[i]) = IF /\ lenient /\ order[i] \in DOMAIN renames
                                       /\ \E j \in 1 .. (i - 1) : Renamed(r, order[j]) = Renamed(renames, order[i])
                                    THEN order[i] ELSE Renamed(renames, order[i])
    BY DEF WalkedSoFar
  <1>7. /\ x \in DOMAIN r <=> x \in DOMAIN renames
        /\ Renamed(r, x) = Renamed(renames, x)
    BY <1>4, <1>6 DEF Renamed
  <1> HIDE DEF w, v, x, r, s, k
  <1>8. \A y \in DOMAIN s : y \in DOMAIN renames /\ s[y] = renames[y]
    BY <1>3, <1>6
  <1>9. \A y \in DOMAIN renames \ DOMAIN s : \E i \in 1 .. k : y = order[i]
    <2> SUFFICES ASSUME NEW y \in DOMAIN renames, y \notin DOMAIN s PROVE \E i \in 1 .. k : y = order[i]
      OBVIOUS
    <2>1. CASE y = x
      BY <1>1, <2>1 DEF x, k
    <2>2. CASE y # x
      <3>1. y \notin DOMAIN r
        BY <1>3, <2>2
      <3> QED
        BY <1>4, <1>6, <3>1
    <2> QED
      BY <2>1, <2>2
  <1>10. DOMAIN v.final = {Renamed(s, order[i]) : i \in 1 .. k}
    <2>1. \A m : m \in DOMAIN v.final <=> m = name \/ \E i \in 1 .. n : m = Renamed(s, order[i])
      <3>1. \A m : m \in DOMAIN w.final <=> \E i \in 1 .. n : m = Renamed(s, order[i])
        BY <1>4, <1>6
      <3> HIDE DEF name
      <3> QED
        BY <1>3, <3>1
    <2>2. name = Renamed(s, order[k]) /\ k \in 1 .. k
      <3>1. k \in 1 .. k
        BY DEF k
      <3> QED
        BY <1>3, <3>1 DEF x
    <2>3. \A m : m \in {Renamed(s, order[i]) : i \in 1 .. k} <=> m = name \/ \E i \in 1 .. n : m = Renamed(s, order[i])
      <3> HIDE DEF name
      <3> QED
        BY <1>4, <1>5, <2>2
    <2> HIDE DEF name
    <2> QED
      BY <2>1, <2>3
  <1>11. ASSUME NEW m \in DOMAIN v.final
         PROVE  \E i \in 1 .. k : v.final[m] = order[i] /\ Renamed(s, order[i]) = m
    <2>1. CASE m \in DOMAIN w.final
      <3>1. PICK i \in 1 .. n : w.final[m] = order[i] /\ Renamed(r, order[i]) = m
        BY <1>6, <2>1
      <3> QED
        BY <1>3, <1>4, <2>1, <3>1
    <2>2. CASE m \notin DOMAIN w.final
      <3>1. m = name
        BY <1>3, <2>2
      <3>2. k \in 1 .. k
        BY <1>1
      <3> HIDE DEF name
      <3> QED
        BY <1>3, <2>2, <3>1, <3>2 DEF x
    <2> QED
      BY <2>1, <2>2
  <1>12. ASSUME ~v.clashes PROVE \A i, j \in 1 .. k : i # j => Renamed(s, order[i]) # Renamed(s, order[j])
    <2>1. ~w.clashes /\ ~clash
      BY <1>3, <1>12
    <2>2. Renamed(s, x) \notin DOMAIN w.final
      BY <1>3, <2>1
    <2>3. \A i \in 1 .. n : Renamed(s, order[i]) # Renamed(s, x)
      BY <1>4, <1>6, <2>2
    <2>4. \A i, j \in 1 .. n : i # j => Renamed(s, order[i]) # Renamed(s, order[j])
      BY <1>4, <1>6, <2>1
    <2>5. x = order[k]
      BY DEF x
    <2> HIDE DEF clash
    <2> QED
      BY <1>5, <2>3, <2>4, <2>5
  <1>13. ASSUME NEW i \in 1 .. k
         PROVE  Renamed(s, order[i]) =
                  IF /\ lenient /\ order[i] \in DOMAIN renames
                     /\ \E j \in 1 .. (i - 1) : Renamed(s, order[j]) = Renamed(renames, order[i])
                  THEN order[i] ELSE Renamed(renames, order[i])
    <2>1. CASE i \in 1 .. n
      <3>1. \A j \in 1 .. (i - 1) : j \in 1 .. n
        BY <2>1
      <3>2. \A j \in 1 .. (i - 1) : Renamed(s, order[j]) = Renamed(r, order[j])
        BY <1>4, <3>1
      <3>3. Renamed(s, order[i]) = Renamed(r, order[i])
        BY <1>4, <2>1
      <3>4. Renamed(r, order[i]) = IF /\ lenient /\ order[i] \in DOMAIN renames
                                       /\ \E j \in 1 .. (i - 1) : Renamed(r, order[j]) = Renamed(renames, order[i])
                                    THEN order[i] ELSE Renamed(renames, order[i])
        BY <1>6, <2>1
      <3> QED
        BY <3>2, <3>3, <3>4
    <2>2. CASE i = k
      <3>1. order[i] = x /\ i - 1 = n
        BY <1>1, <2>2 DEF x
      <3>2. clash <=> \E j \in 1 .. n : Renamed(s, order[j]) = Renamed(renames, x)
        BY <1>4, <1>6, <1>7
      <3> HIDE DEF clash
      <3> QED
        BY <1>3, <1>7, <3>1, <3>2
    <2> QED
      BY <1>5, <2>1, <2>2
  <1>14. WalkedSoFar(f, renames, order, lenient, k)
    BY <1>8, <1>9, <1>10, <1>11, <1>12, <1>13 DEF WalkedSoFar, v, s
  <1> QED
    BY <1>14 DEF k

(* The whole walk, without its order: each is called what it is to be, or,   *)
(* leniently, stays what it is when someone before it is called that.        *)
WalkedWell(w, of, renames, lenient) ==
    LET name(x) == Renamed(w.renames, x)
    IN  /\ \A x \in of :
             name(x) = IF /\ lenient /\ x \in DOMAIN renames
                          /\ \E y \in of : y < x /\ name(y) = Renamed(renames, x)
                       THEN x ELSE Renamed(renames, x)
        /\ \A x \in of : name(x) \in DOMAIN w.final
        /\ \A m \in DOMAIN w.final : w.final[m] \in of /\ name(w.final[m]) = m
        /\ ~w.clashes => \A x, y \in of : x # y => name(x) # name(y)

LEMMA WalkIs ==
    ASSUME NEW of \in SUBSET Nat, IsFiniteSet(of), NEW renames, NEW lenient \in BOOLEAN
    PROVE  WalkedWell(Walk(of, renames, lenient), of, renames, lenient)
  <1> DEFINE N == Cardinality(of)
             order == InOrderOf(of)
             w == Walk(of, renames, lenient)
             name(x) == Renamed(w.renames, x)
  <1>1. N \in Nat
    BY FS_CardinalityType
  <1>2. PICK f : Walks(f, renames, order, lenient, N) /\ w = f[N]
    BY <1>1, WalkIsWalks
  <1>3. /\ \A i \in 1 .. N : order[i] \in of
        /\ \A x \in of : \E i \in 1 .. N : order[i] = x
        /\ \A i, j \in 1 .. N : i # j => order[i] # order[j]
    BY EachHasItsPlace
  <1>4. \A i, j \in 1 .. N : i < j <=> order[i] < order[j]
    BY OrderGrows
  <1> HIDE DEF N, order, w
  <1> DEFINE S == {n \in Nat : n <= N => WalkedSoFar(f, renames, order, lenient, n)}
  <1>5. 0 \in S
    BY <1>1, <1>2, WalkBegins
  <1>6. ASSUME NEW n \in Nat, n \in S PROVE n + 1 \in S
    <2>1. SUFFICES ASSUME n + 1 <= N PROVE WalkedSoFar(f, renames, order, lenient, n + 1)
      OBVIOUS
    <2>2. n <= N
      BY <1>1, <2>1
    <2>3. WalkedSoFar(f, renames, order, lenient, n)
      BY <1>6, <2>2
    <2> QED
      BY <1>1, <1>2, <1>3, <2>1, <2>3, WalkGoesOn
  <1> HIDE DEF S
  <1>7. N \in S
    BY <1>1, <1>5, <1>6, AllNumbers
  <1>8. WalkedSoFar(f, renames, order, lenient, N)
    BY <1>1, <1>7 DEF S
  <1>9. /\ DOMAIN w.final = {name(order[i]) : i \in 1 .. N}
        /\ \A m \in DOMAIN w.final : \E i \in 1 .. N : w.final[m] = order[i] /\ name(order[i]) = m
        /\ ~w.clashes => \A i, j \in 1 .. N : i # j => name(order[i]) # name(order[j])
        /\ \A i \in 1 .. N :
             name(order[i]) = IF /\ lenient /\ order[i] \in DOMAIN renames
                                 /\ \E j \in 1 .. (i - 1) : name(order[j]) = Renamed(renames, order[i])
                              THEN order[i] ELSE Renamed(renames, order[i])
    BY <1>2, <1>8 DEF WalkedSoFar
  <1> HIDE DEF name
  <1>10. ASSUME NEW x \in of
         PROVE  name(x) = IF /\ lenient /\ x \in DOMAIN renames
                             /\ \E y \in of : y < x /\ name(y) = Renamed(renames, x)
                          THEN x ELSE Renamed(renames, x)
    <2>1. PICK i \in 1 .. N : order[i] = x
      BY <1>3
    <2>2. (\E j \in 1 .. (i - 1) : name(order[j]) = Renamed(renames, x))
             <=> (\E y \in of : y < x /\ name(y) = Renamed(renames, x))
      <3>1. ASSUME NEW j \in 1 .. (i - 1) PROVE order[j] \in of /\ order[j] < x
        <4>1. j \in 1 .. N /\ j < i
          BY <1>1
        <4> QED
          BY <1>3, <1>4, <2>1, <4>1
      <3>2. ASSUME NEW y \in of, y < x PROVE \E j \in 1 .. (i - 1) : order[j] = y
        <4>1. PICK j \in 1 .. N : order[j] = y
          BY <1>3
        <4>2. j < i
          BY <1>4, <2>1, <3>2, <4>1
        <4>3. j \in 1 .. (i - 1)
          BY <4>2
        <4> QED
          BY <4>1, <4>3
      <3> QED
        BY <3>1, <3>2
    <2> QED
      BY <1>9, <2>1, <2>2
  <1>11. \A x \in of : name(x) \in DOMAIN w.final
    BY <1>3, <1>9
  <1>12. \A m \in DOMAIN w.final : w.final[m] \in of /\ name(w.final[m]) = m
    BY <1>3, <1>9
  <1>13. ~w.clashes => \A x, y \in of : x # y => name(x) # name(y)
    BY <1>3, <1>9
  <1> QED
    BY <1>10, <1>11, <1>12, <1>13 DEF name, w, WalkedWell

LEMMA DrawnAsIs ==
    ASSUME NEW of \in SUBSET Nat, IsFiniteSet(of), NEW value
    PROVE  LET drawn == DrawnAs(of, value) IN
           /\ DOMAIN drawn = of
           /\ \A x \in of :
                drawn[x] = IF x \in DOMAIN value.renames /\ \E y \in of : y < x /\ drawn[y] = Renamed(value.renames, x)
                           THEN x ELSE Renamed(value.renames, x)
  <1> DEFINE fit == Fitting(of, value.renames)
             w == Walk(of, fit, TRUE)
             name(x) == Renamed(w.renames, x)
             drawn == DrawnAs(of, value)
  <1>1. drawn = [x \in of |-> name(x)]
    BY DEF DrawnAs, Leniently
  <1>2. \A x \in of : name(x) = IF /\ x \in DOMAIN fit
                                    /\ \E y \in of : y < x /\ name(y) = Renamed(fit, x)
                                 THEN x ELSE Renamed(fit, x)
    <2>1. WalkedWell(w, of, fit, TRUE)
      BY WalkIs
    <2> HIDE DEF w, fit
    <2> QED
      BY <2>1 DEF WalkedWell
  <1>3. \A x \in of : (x \in DOMAIN fit <=> x \in DOMAIN value.renames) /\ Renamed(fit, x) = Renamed(value.renames, x)
    BY DEF Fitting, Restrict, Renamed
  <1> HIDE DEF fit, w, name, drawn
  <1>4. DOMAIN drawn = of /\ \A x \in of : drawn[x] = name(x)
    BY <1>1
  <1>5. ASSUME NEW x \in of
        PROVE  drawn[x] = IF x \in DOMAIN value.renames /\ \E y \in of : y < x /\ drawn[y] = Renamed(value.renames, x)
                          THEN x ELSE Renamed(value.renames, x)
    BY <1>2, <1>3, <1>4
  <1> QED
    BY <1>4, <1>5 DEF drawn

RefinementTyped == ids \in SUBSET Names

LEMMA GuardedStays ==
    ASSUME RefinementAssumption, RefinementTyped
    PROVE  GuardedStaysOnTheCanvas
  <1> SUFFICES ASSUME Distinct(DrawnAs(ids, recorded)),
                      NEW x \in DrawnPlumbing(ids, guarded, recorded), x \in guarded
               PROVE  FALSE
    BY DEF GuardedStaysOnTheCanvas
  <1>1. ids \in SUBSET Nat /\ IsFiniteSet(ids)
    BY FS_Subset DEF RefinementAssumption, RefinementTyped
  <1> DEFINE fit == Fitting(ids, recorded.renames)
             w == Walk(ids, fit, TRUE)
             name(y) == Renamed(w.renames, y)
  <1>2. /\ \A y \in ids : name(y) \in DOMAIN w.final
        /\ \A m \in DOMAIN w.final : w.final[m] \in ids /\ name(w.final[m]) = m
    <2>1. WalkedWell(w, ids, fit, TRUE)
      BY <1>1, WalkIs
    <2> HIDE DEF w, fit
    <2> QED
      BY <2>1 DEF WalkedWell
  <1>3. w = Leniently(ids, recorded)
    BY DEF Leniently
  <1> HIDE DEF w, fit
  <1>4. x \in ids /\ name(x) \in DOMAIN w.final /\ w.final[name(x)] \notin guarded
    BY <1>3 DEF DrawnPlumbing, Plumbing
  <1>5. DrawnAs(ids, recorded) = [y \in ids |-> name(y)]
    BY <1>3 DEF DrawnAs
  <1>6. \A a, b \in ids : a # b => name(a) # name(b)
    <2> HIDE DEF name
    <2> QED
      BY <1>5 DEF Distinct
  <1> HIDE DEF name
  <1>7. w.final[name(x)] = x
    BY <1>2, <1>4, <1>6
  <1> QED
    BY <1>4, <1>7

(* What goes takes no name from those that stay: who gives its own up        *)
(* afterwards gave it up before.                                             *)
LEMMA OthersStay ==
    ASSUME RefinementAssumption, RefinementTyped
    PROVE  GoneCostsItself
  <1> SUFFICES ASSUME NEW gone \in ids
               PROVE  LET before == DrawnAs(ids, recorded)
                          after == DrawnAs(ids \ {gone}, recorded)
                      IN  \A other \in ids \ {gone} :
                            after[other] \in {before[other], Renamed(recorded.renames, other)}
    BY DEF GoneCostsItself
  <1> DEFINE before == DrawnAs(ids, recorded)
             rest == ids \ {gone}
             after == DrawnAs(rest, recorded)
             own(x) == Renamed(recorded.renames, x)
             named(x) == x \in DOMAIN recorded.renames
  <1>1. ids \in SUBSET Nat /\ IsFiniteSet(ids) /\ rest \in SUBSET Nat /\ IsFiniteSet(rest)
    BY FS_Subset DEF RefinementAssumption, RefinementTyped
  <1>2. \A x \in ids : before[x] = IF named(x) /\ \E y \in ids : y < x /\ before[y] = own(x) THEN x ELSE own(x)
    BY <1>1, DrawnAsIs
  <1>3. \A x \in rest : after[x] = IF named(x) /\ \E y \in rest : y < x /\ after[y] = own(x) THEN x ELSE own(x)
    BY <1>1, DrawnAsIs
  <1>4. \A x : ~named(x) => own(x) = x
    BY DEF Renamed
  <1> HIDE DEF before, after, own, named
  <1> DEFINE Taken(x) == \E y \in ids : y <= x /\ before[y] = after[x]
             T == {x \in rest : ~(after[x] \in {before[x], own(x)} /\ Taken(x))}
  <1>5. SUFFICES ASSUME T # {} PROVE FALSE
    BY DEF before, after, own
  <1>6. PICK x \in T : \A y \in T : x <= y
    <2>1. T \in SUBSET Nat
      BY <1>1
    <2> HIDE DEF T
    <2> QED
      BY <1>5, <2>1, LeastNumber
  <1>7. x \in rest /\ x \in ids /\ x \in Nat
    BY <1>1, <1>6
  <1>8. ASSUME NEW y \in rest, y < x PROVE Taken(y)
    <2>1. y \in Nat /\ ~(x <= y)
      BY <1>1, <1>7, <1>8
    <2>2. y \notin T
      BY <1>6, <2>1
    <2> QED
      BY <2>2
  <1>9. CASE named(x) /\ \E y \in rest : y < x /\ after[y] = own(x)
    <2>1. PICK y \in rest : y < x /\ after[y] = own(x)
      BY <1>9
    <2>2. PICK z \in ids : z <= y /\ before[z] = own(x)
      BY <1>8, <2>1
    <2>3. z < x
      <3>1. z \in Nat /\ y \in Nat
        BY <1>1
      <3> QED
        BY <1>7, <2>1, <2>2, <3>1
    <2>4. before[x] = x
      BY <1>2, <1>7, <1>9, <2>2, <2>3
    <2>5. after[x] = x
      BY <1>3, <1>7, <1>9
    <2> QED
      BY <1>6, <1>7, <2>4, <2>5
  <1>10. CASE ~(named(x) /\ \E y \in rest : y < x /\ after[y] = own(x))
    <2>1. after[x] = own(x)
      BY <1>3, <1>7, <1>10
    <2>2. CASE named(x) /\ \E y \in ids : y < x /\ before[y] = own(x)
      <3>1. PICK y \in ids : y < x /\ before[y] = own(x)
        BY <2>2
      <3>2. y <= x
        BY <1>1, <1>7, <3>1
      <3> QED
        BY <1>6, <2>1, <3>1, <3>2
    <2>3. CASE ~(named(x) /\ \E y \in ids : y < x /\ before[y] = own(x))
      <3>1. before[x] = own(x)
        BY <1>2, <1>7, <2>3
      <3>2. x <= x
        BY <1>7
      <3> QED
        BY <1>6, <1>7, <2>1, <3>1, <3>2
    <2> QED
      BY <2>2, <2>3
  <1> QED
    BY <1>9, <1>10

LEMMA FreshIsOneToOne ==
    ASSUME RefinementAssumption, RefinementTyped, [RefinementNext]_refinementVars
    PROVE  [recorded' # recorded => Distinct([id \in ids |-> Renamed(recorded'.renames, id)])]_refinementVars
  <1> SUFFICES ASSUME recorded' # recorded, Answered
               PROVE  Distinct([id \in ids |-> Renamed(recorded'.renames, id)])
    BY DEF RefinementNext, Found, Gone, Serves, refinementVars
  <1>1. PICK renames \in Renamings(ids), names \in SUBSET Names :
          /\ ~Clashes(ids, renames)
          /\ recorded' = [renames |-> renames,
                           infrastructure |-> Plumbing(ids, guarded, Walk(ids, renames, FALSE).final, names)]
    BY DEF Answered
  <1>2. ids \in SUBSET Nat /\ IsFiniteSet(ids)
    BY FS_Subset DEF RefinementAssumption, RefinementTyped
  <1> DEFINE w == Walk(ids, renames, FALSE)
  <1>3. ~w.clashes
    BY <1>1 DEF Clashes
  <1>4. /\ \A x \in ids : Renamed(w.renames, x) = Renamed(renames, x)
        /\ \A x, y \in ids : x # y => Renamed(w.renames, x) # Renamed(w.renames, y)
    <2>1. WalkedWell(w, ids, renames, FALSE)
      BY <1>2, WalkIs
    <2> HIDE DEF w
    <2> QED
      BY <1>3, <2>1 DEF WalkedWell
  <1> HIDE DEF w
  <1>5. recorded'.renames = renames
    BY <1>1
  <1>6. \A x, y \in ids : x # y => Renamed(renames, x) # Renamed(renames, y)
    BY <1>4
  <1> QED
    BY <1>5, <1>6 DEF Distinct

THEOREM RecordedAnswersAreSafe == RefinementSpec => RecordedAnswersHold
  <1>1. RefinementInit => RefinementTyped
    BY DEF RefinementInit, RefinementTyped
  <1>2. RefinementTyped /\ [RefinementNext]_refinementVars => RefinementTyped'
    BY DEF RefinementNext, Answered, Found, Gone, Serves, RefinementTyped, refinementVars
  <1>3. RefinementTyped => GuardedStaysOnTheCanvas /\ GoneCostsItself
    BY RefinementAssumption, GuardedStays, OthersStay
  <1>4. RefinementTyped /\ [RefinementNext]_refinementVars
          => [recorded' # recorded => Distinct([id \in ids |-> Renamed(recorded'.renames, id)])]_refinementVars
    BY RefinementAssumption, FreshIsOneToOne
  <1> QED
    BY <1>1, <1>2, <1>3, <1>4, PTL DEF RefinementSpec, RecordedAnswersHold, FreshAnswerIsOneToOne

(***************************************************************************)
(* Levels.                                                                 *)
(***************************************************************************)

(* Apart, none of them empty, and all of it.                                 *)
PartsOf(parts, all) ==
    /\ {} \notin parts
    /\ \A g \in parts : g \subseteq all
    /\ \A x \in all : \E g \in parts : x \in g
    /\ \A g, h \in parts : \A x \in g : x \in h => g = h

LEMMA PartedIsParts ==
    ASSUME NEW members
    PROVE  PartsOf(Parted(members), members)
  <1> DEFINE depth == SharedDepth({FileOf(x) : x \in members})
             part == [x \in members |-> PartOf(FileOf(x), depth)]
             at(p) == {x \in members : part[x] = p}
             groups == {g \in {at(p) : p \in Range(part)} : Cardinality(g) >= 2}
             rest == NotParted(members, groups)
  <1>1. Parted(members) = IF Cardinality(members) > MaxChildren /\ Cardinality(groups) >= 2
                          THEN groups \cup ({rest} \ {{}})
                          ELSE {members} \ {{}}
    BY DEF Parted
  <1>2. \A g \in groups : g # {} /\ g \subseteq members
    <2> TAKE g \in groups
    <2>1. PICK p \in Range(part) : g = at(p)
      OBVIOUS
    <2>2. PICK x \in members : part[x] = p
      <3>1. DOMAIN part = members
        OBVIOUS
      <3> HIDE DEF part
      <3> QED
        BY <2>1, <3>1 DEF Range
    <2> QED
      BY <2>1, <2>2
  <1>3. \A g, h \in groups : \A x \in g : x \in h => g = h
    <2> TAKE g, h \in groups
    <2>1. PICK p \in Range(part) : g = at(p)
      OBVIOUS
    <2>2. PICK q \in Range(part) : h = at(q)
      OBVIOUS
    <2> HIDE DEF part
    <2> QED
      BY <2>1, <2>2
  <1> HIDE DEF groups
  <1>4. rest = {x \in members : \A g \in groups : x \notin g}
    BY DEF NotParted
  <1> HIDE DEF rest
  <1>5. CASE Cardinality(members) > MaxChildren /\ Cardinality(groups) >= 2
    <2>1. Parted(members) = groups \cup ({rest} \ {{}})
      BY <1>1, <1>5
    <2>2. {} \notin Parted(members)
      BY <1>2, <2>1
    <2>3. \A g \in Parted(members) : g \subseteq members
      BY <1>2, <1>4, <2>1
    <2>4. \A x \in members : \E g \in Parted(members) : x \in g
      BY <1>4, <2>1
    <2>5. \A g, h \in Parted(members) : \A x \in g : x \in h => g = h
      BY <1>3, <1>4, <2>1
    <2> QED
      BY <2>2, <2>3, <2>4, <2>5 DEF PartsOf
  <1>6. CASE ~(Cardinality(members) > MaxChildren /\ Cardinality(groups) >= 2)
    BY <1>1, <1>6 DEF PartsOf
  <1> QED
    BY <1>5, <1>6

(* Everything that has a home is drawn once, and nothing else.               *)
LEMMA DrawnOnce == EverythingOnce
  <1> DEFINE home == WithStores(WithWork(HomeOf(Group)))
             inside(h) == {x \in DOMAIN home : home[x] = h}
             caps == {inside(h) : h \in Range(home) \ {{}}}
  <1>1. Services \subseteq DOMAIN home
    <2>1. DOMAIN HomeOf(Group) = Services
      BY DEF HomeOf
    <2>2. \A f : DOMAIN f \subseteq DOMAIN WithWork(f)
      BY DEF WithWork
    <2>3. \A f : DOMAIN f \subseteq DOMAIN WithStores(f)
      BY DEF WithStores
    <2> QED
      BY <2>1, <2>2, <2>3
  <1>2. Levels = IF Cardinality(Elements) <= MaxChildren THEN {} ELSE caps \cup Parted(inside({}))
    BY DEF Levels
  <1> HIDE DEF home
  <1>3. PartsOf(Parted(inside({})), inside({}))
    BY PartedIsParts
  <1>4. /\ {} \notin caps
        /\ \A c \in caps : c \subseteq DOMAIN home /\ c \cap inside({}) = {}
        /\ \A x \in DOMAIN home : x \in inside({}) \/ \E c \in caps : x \in c
        /\ \A c, d \in caps : \A x \in c : x \in d => c = d
    <2>1. ASSUME NEW c \in caps PROVE c # {} /\ c \subseteq DOMAIN home /\ c \cap inside({}) = {}
      <3>1. PICK h \in Range(home) \ {{}} : c = inside(h)
        OBVIOUS
      <3>2. PICK x \in DOMAIN home : home[x] = h
        BY <3>1 DEF Range
      <3> QED
        BY <3>1, <3>2
    <2>2. \A x \in DOMAIN home : x \in inside({}) \/ \E c \in caps : x \in c
      <3> TAKE x \in DOMAIN home
      <3>1. home[x] \in Range(home)
        BY DEF Range
      <3>2. x \in inside(home[x])
        OBVIOUS
      <3> QED
        BY <3>1, <3>2
    <2>3. \A c, d \in caps : \A x \in c : x \in d => c = d
      OBVIOUS
    <2> HIDE DEF caps, inside
    <2> QED
      BY <2>1, <2>2, <2>3
  <1>5. SUFFICES ASSUME Levels # {}
                 PROVE  /\ {} \notin Levels
                        /\ \A s \in Services : Cardinality(In(Levels, s)) = 1
                        /\ \A x \in Works \cup Stores : Cardinality(In(Levels, x)) <= 1
    BY DEF EverythingOnce
  <1>6. Levels = caps \cup Parted(inside({}))
    BY <1>2, <1>5
  <1> HIDE DEF caps, inside
  <1>7. PartsOf(Levels, DOMAIN home)
    <2>1. inside({}) \subseteq DOMAIN home
      BY DEF inside
    <2> DEFINE P == Parted(inside({}))
               I == inside({})
    <2>2. PartsOf(P, I) /\ Levels = caps \cup P
      BY <1>3, <1>6
    <2>3. \A c \in caps : c \subseteq DOMAIN home /\ c \cap I = {}
      BY <1>4
    <2>4. \A x \in DOMAIN home : x \in I \/ \E c \in caps : x \in c
      BY <1>4
    <2>5. I \subseteq DOMAIN home
      BY <2>1
    <2> HIDE DEF P, I
    <2>6. {} \notin Levels /\ \A g \in Levels : g \subseteq DOMAIN home
      BY <1>4, <2>2, <2>3, <2>5 DEF PartsOf
    <2>7. \A x \in DOMAIN home : \E g \in Levels : x \in g
      BY <2>2, <2>4 DEF PartsOf
    <2>8. \A g, h \in Levels : \A x \in g : x \in h => g = h
      <3> TAKE g, h \in Levels
      <3>1. CASE g \in caps /\ h \in caps
        BY <1>4, <3>1
      <3>2. CASE g \in P /\ h \in P
        BY <2>2, <3>2 DEF PartsOf
      <3>3. CASE g \in caps /\ h \in P
        BY <2>2, <2>3, <3>3 DEF PartsOf
      <3>4. CASE g \in P /\ h \in caps
        BY <2>2, <2>3, <3>4 DEF PartsOf
      <3> QED
        BY <2>2, <3>1, <3>2, <3>3, <3>4
    <2> QED
      BY <2>6, <2>7, <2>8 DEF PartsOf
  <1>8. ASSUME NEW x, NEW g \in Levels, x \in g PROVE Cardinality(In(Levels, x)) = 1
    <2>1. In(Levels, x) = {g}
      BY <1>7, <1>8 DEF In, PartsOf
    <2> QED
      BY <2>1, FS_Singleton
  <1>9. ASSUME NEW x, \A g \in Levels : x \notin g PROVE Cardinality(In(Levels, x)) = 0
    <2>1. In(Levels, x) = {}
      BY <1>9 DEF In
    <2> QED
      BY <2>1, FS_EmptySet
  <1>10. \A s \in Services : Cardinality(In(Levels, s)) = 1
    BY <1>1, <1>7, <1>8 DEF PartsOf
  <1>11. \A x \in Works \cup Stores : Cardinality(In(Levels, x)) <= 1
    <2> TAKE x \in Works \cup Stores
    <2>1. CASE \E g \in Levels : x \in g
      BY <1>8, <2>1
    <2>2. CASE \A g \in Levels : x \notin g
      BY <1>9, <2>2
    <2> QED
      BY <2>1, <2>2
  <1> QED
    BY <1>7, <1>10, <1>11 DEF PartsOf

(* Recursion over numbers, with its step as a value.                         *)
Recurs(f, base, step, last) ==
    f = [n \in 0 .. last |-> IF n = 0 THEN base ELSE step[<<n, f[n - 1]>>]]

LEMMA RecursionWorks ==
    ASSUME NEW V, NEW base \in V, NEW last \in Nat, NEW step \in [(1 .. last) \X V -> V]
    PROVE  \E f \in [0 .. last -> V] : Recurs(f, base, step, last)
  <1> DEFINE S == {n \in Nat : n <= last => \E f \in [0 .. n -> V] : Recurs(f, base, step, n)}
  <1>1. 0 \in S
    <2> DEFINE f == [n \in 0 .. 0 |-> base]
    <2>1. f \in [0 .. 0 -> V] /\ Recurs(f, base, step, 0)
      BY DEF Recurs
    <2> QED
      BY <2>1
  <1>2. ASSUME NEW n \in Nat, n \in S PROVE n + 1 \in S
    <2>1. SUFFICES ASSUME n + 1 <= last
                   PROVE  \E f \in [0 .. (n + 1) -> V] : Recurs(f, base, step, n + 1)
      OBVIOUS
    <2>2. PICK w \in [0 .. n -> V] : Recurs(w, base, step, n)
      BY <1>2, <2>1
    <2> DEFINE f == [i \in 0 .. (n + 1) |-> IF i = n + 1 THEN step[<<n + 1, w[n]>>] ELSE w[i]]
    <2>3. step[<<n + 1, w[n]>>] \in V
      <3>1. <<n + 1, w[n]>> \in (1 .. last) \X V
        BY <2>1
      <3> QED
        BY <3>1
    <2>4. f \in [0 .. (n + 1) -> V]
      <3>1. \A i \in 0 .. (n + 1) : i # n + 1 => i \in 0 .. n
        OBVIOUS
      <3> QED
        BY <2>3, <3>1
    <2>5. ASSUME NEW i \in 0 .. (n + 1)
          PROVE  f[i] = IF i = 0 THEN base ELSE step[<<i, f[i - 1]>>]
      <3>1. CASE i = n + 1
        <4>1. i - 1 = n /\ n \in 0 .. (n + 1) /\ n # n + 1 /\ i # 0
          BY <3>1
        <4>2. f[n] = w[n]
          BY <4>1
        <4> QED
          BY <3>1, <4>1, <4>2
      <3>2. CASE i # n + 1 /\ i # 0
        <4>1. i \in 0 .. n /\ i - 1 \in 0 .. n /\ i - 1 \in 0 .. (n + 1) /\ i - 1 # n + 1
          BY <3>2
        <4>2. f[i] = w[i] /\ f[i - 1] = w[i - 1]
          BY <3>2, <4>1
        <4>3. w[i] = step[<<i, w[i - 1]>>]
          BY <2>2, <3>2, <4>1 DEF Recurs
        <4> HIDE DEF f
        <4> QED
          BY <3>2, <4>2, <4>3
      <3>3. CASE i = 0
        <4>1. 0 \in 0 .. n /\ i # n + 1
          BY <3>3
        <4> QED
          BY <2>2, <3>3, <4>1 DEF Recurs
      <3> QED
        BY <3>1, <3>2, <3>3
    <2>6. f = [i \in 0 .. (n + 1) |-> IF i = 0 THEN base ELSE step[<<i, f[i - 1]>>]]
      <3>1. DOMAIN f = 0 .. (n + 1) /\ f = [i \in 0 .. (n + 1) |-> f[i]]
        OBVIOUS
      <3> HIDE DEF f
      <3> QED
        BY <2>5, <3>1
    <2> QED
      BY <2>4, <2>6 DEF Recurs
  <1> HIDE DEF S
  <1>3. last \in S
    BY <1>1, <1>2, AllNumbers
  <1> QED
    BY <1>3 DEF S

-----------------------------------------------------------------------------
(* What leads to something, step by step: the least set with it that is      *)
(* closed.  In as many steps as there are elements nothing more is found.    *)
Closed(C, S, R) == \A d \in C, t \in S : <<t, d>> \in R => t \in C
Found1(C, S, R) == C \cup {t \in S : \E d \in C : <<t, d>> \in R}

Closure(C, s, S, R) ==
    /\ C \in SUBSET S /\ s \in C /\ Closed(C, S, R)
    /\ \A D \in SUBSET S : s \in D /\ Closed(D, S, R) => C \subseteq D

Grows(f, s, S, R, last) == f = [n \in 0 .. last |-> IF n = 0 THEN {s} ELSE Found1(f[n - 1], S, R)]

LEMMA GrowingStops ==
    ASSUME NEW S, IsFiniteSet(S), NEW s \in S, NEW R,
           NEW f \in [0 .. Cardinality(S) -> SUBSET S], f[0] = {s},
           \A n \in 1 .. Cardinality(S) : f[n] = Found1(f[n - 1], S, R)
    PROVE  Closure(f[Cardinality(S)], s, S, R)
  <1> DEFINE N == Cardinality(S)
  <1>0. N \in Nat /\ N # 0
    BY FS_CardinalityType, FS_EmptySet
  <1>a. \A n \in 0 .. N : f[n] \in SUBSET S /\ IsFiniteSet(f[n]) /\ Cardinality(f[n]) \in Nat
                          /\ Cardinality(f[n]) <= N
    <2> TAKE n \in 0 .. N
    <2>1. f[n] \in SUBSET S
      OBVIOUS
    <2> QED
      BY <2>1, FS_Subset, FS_CardinalityType
  <1>b. \A n \in Nat : n + 1 <= N => f[n + 1] = Found1(f[n], S, R) /\ n \in 0 .. N /\ n + 1 \in 0 .. N
    <2> TAKE n \in Nat
    <2>1. SUFFICES ASSUME n + 1 <= N PROVE f[n + 1] = Found1(f[n], S, R) /\ n \in 0 .. N /\ n + 1 \in 0 .. N
      OBVIOUS
    <2>2. n + 1 \in 1 .. N /\ (n + 1) - 1 = n
      BY <1>0, <2>1
    <2> QED
      BY <1>0, <2>1, <2>2
  <1> HIDE DEF N
  <1>1. \E n \in Nat : n + 1 <= N /\ f[n + 1] = f[n]
    <2>1. SUFFICES ASSUME \A n \in Nat : n + 1 <= N => f[n + 1] # f[n] PROVE FALSE
      OBVIOUS
    <2> DEFINE T == {n \in Nat : n <= N => Cardinality(f[n]) >= n + 1}
    <2>2. 0 \in T
      <3>1. Cardinality(f[0]) = 1
        BY FS_Singleton
      <3>2. Cardinality(f[0]) >= 0 + 1 /\ 0 \in Nat
        BY <3>1
      <3> QED
        BY <3>2, Zenon
    <2>3. ASSUME NEW n \in Nat, n \in T PROVE n + 1 \in T
      <3>1. SUFFICES ASSUME n + 1 <= N PROVE Cardinality(f[n + 1]) >= n + 2
        OBVIOUS
      <3>2. f[n] \subseteq f[n + 1] /\ f[n] # f[n + 1] /\ n \in 0 .. N /\ n + 1 \in 0 .. N
        BY <1>b, <2>1, <3>1 DEF Found1
      <3>3. Cardinality(f[n]) < Cardinality(f[n + 1])
        <4>1. IsFiniteSet(f[n + 1])
          BY <1>a, <3>2
        <4>2. Cardinality(f[n]) <= Cardinality(f[n + 1]) /\ Cardinality(f[n]) # Cardinality(f[n + 1])
          BY <3>2, <4>1, FS_Subset
        <4> QED
          BY <1>a, <3>2, <4>2
      <3>4. Cardinality(f[n]) >= n + 1
        BY <1>0, <2>3, <3>1
      <3> QED
        BY <1>a, <3>2, <3>3, <3>4
    <2> HIDE DEF T
    <2>4. N \in T
      BY <1>0, <2>2, <2>3, AllNumbers
    <2>5. Cardinality(f[N]) >= N + 1 /\ N \in 0 .. N
      BY <1>0, <2>4 DEF T
    <2> QED
      BY <1>0, <1>a, <2>5
  <1>2. PICK n \in Nat : n + 1 <= N /\ f[n + 1] = f[n]
    BY <1>1
  <1>3. Closed(f[n], S, R)
    BY <1>b, <1>2 DEF Closed, Found1
  <1>4. f[N] = f[n]
    <2> DEFINE T == {j \in Nat : n + j <= N => f[n + j] = f[n]}
    <2>1. 0 \in T
      OBVIOUS
    <2>2. ASSUME NEW j \in Nat, j \in T PROVE j + 1 \in T
      <3>1. SUFFICES ASSUME n + (j + 1) <= N PROVE f[n + (j + 1)] = f[n]
        OBVIOUS
      <3>2. n + j \in Nat /\ (n + j) + 1 <= N /\ n + (j + 1) = (n + j) + 1 /\ n + j <= N
        BY <1>0, <3>1
      <3>3. f[n + j] = f[n]
        BY <2>2, <3>2
      <3>4. f[n + (j + 1)] = Found1(f[n], S, R)
        BY <1>b, <3>2, <3>3
      <3> QED
        BY <1>3, <3>4 DEF Closed, Found1
    <2> HIDE DEF T
    <2>3. N - n \in Nat /\ n + (N - n) = N
      BY <1>0, <1>2
    <2>4. N - n \in T
      BY <2>1, <2>2, <2>3, AllNumbers
    <2> QED
      BY <1>0, <2>3, <2>4 DEF T
  <1>5. s \in f[N]
    <2> DEFINE T == {j \in Nat : j <= N => s \in f[j]}
    <2>1. 0 \in T
      OBVIOUS
    <2>2. ASSUME NEW j \in Nat, j \in T PROVE j + 1 \in T
      <3>1. SUFFICES ASSUME j + 1 <= N PROVE s \in f[j + 1]
        OBVIOUS
      <3>2. s \in f[j]
        BY <1>0, <2>2, <3>1
      <3> QED
        BY <1>b, <3>1, <3>2 DEF Found1
    <2> HIDE DEF T
    <2>3. N \in T
      BY <1>0, <2>1, <2>2, AllNumbers
    <2> QED
      BY <1>0, <2>3 DEF T
  <1>6. ASSUME NEW D \in SUBSET S, s \in D, Closed(D, S, R) PROVE f[N] \subseteq D
    <2> DEFINE T == {j \in Nat : j <= N => f[j] \subseteq D}
    <2>1. 0 \in T
      BY <1>6
    <2>2. ASSUME NEW j \in Nat, j \in T PROVE j + 1 \in T
      <3>1. SUFFICES ASSUME j + 1 <= N PROVE f[j + 1] \subseteq D
        OBVIOUS
      <3>2. f[j] \subseteq D
        BY <1>0, <2>2, <3>1
      <3>3. f[j + 1] = Found1(f[j], S, R)
        BY <1>b, <3>1
      <3>4. Found1(f[j], S, R) \subseteq D
        BY <1>6, <3>2 DEF Found1, Closed
      <3> QED
        BY <3>3, <3>4
    <2> HIDE DEF T
    <2>3. N \in T
      BY <1>0, <2>1, <2>2, AllNumbers
    <2> QED
      BY <1>0, <2>3 DEF T
  <1>7. f[N] \in SUBSET S
    BY <1>0, <1>a
  <1> QED
    BY <1>3, <1>4, <1>5, <1>6, <1>7 DEF Closure, N

LEMMA ClosureExists ==
    ASSUME NEW S, IsFiniteSet(S), NEW s \in S, NEW R
    PROVE  \E f \in [0 .. Cardinality(S) -> SUBSET S] :
                  /\ Grows(f, s, S, R, Cardinality(S))
                  /\ Closure(f[Cardinality(S)], s, S, R)
  <1> DEFINE N == Cardinality(S)
             step == [x \in (1 .. N) \X SUBSET S |-> Found1(x[2], S, R)]
  <1>1. N \in Nat
    BY FS_CardinalityType
  <1>2. step \in [(1 .. N) \X SUBSET S -> SUBSET S]
    BY DEF Found1
  <1>3. {s} \in SUBSET S
    OBVIOUS
  <1>4. \A n \in 1 .. N, X \in SUBSET S : step[<<n, X>>] = Found1(X, S, R)
    OBVIOUS
  <1> HIDE DEF step, N
  <1>5. PICK f \in [0 .. N -> SUBSET S] : Recurs(f, {s}, step, N)
    BY <1>1, <1>2, <1>3, RecursionWorks
  <1>6. \A n \in 0 .. N : n # 0 => n \in 1 .. N /\ n - 1 \in 0 .. N
    BY <1>1
  <1>7. \A n \in 0 .. N : f[n] = IF n = 0 THEN {s} ELSE Found1(f[n - 1], S, R)
    <2> TAKE n \in 0 .. N
    <2>1. f[n] = IF n = 0 THEN {s} ELSE step[<<n, f[n - 1]>>]
      BY <1>5 DEF Recurs
    <2> QED
      BY <1>4, <1>5, <1>6, <2>1
  <1>8. f = [n \in 0 .. N |-> IF n = 0 THEN {s} ELSE Found1(f[n - 1], S, R)]
    BY <1>5, <1>7
  <1>9. f[0] = {s}
    BY <1>1, <1>7
  <1>10. \A n \in 1 .. N : f[n] = Found1(f[n - 1], S, R)
    <2>1. \A n \in 1 .. N : n \in 0 .. N /\ n # 0
      BY <1>1
    <2> QED
      BY <1>7, <2>1
  <1>11. Closure(f[N], s, S, R)
    BY <1>9, <1>10, GrowingStops DEF N
  <1> QED
    BY <1>8, <1>11 DEF N, Grows

LEMMA GrowthIsOne ==
    ASSUME NEW S, NEW s, NEW R, NEW last \in Nat,
           NEW f, Grows(f, s, S, R, last), NEW g, Grows(g, s, S, R, last)
    PROVE  f = g
  <1> DEFINE T == {n \in Nat : n <= last => f[n] = g[n]}
  <1>1. 0 \in T
    <2>1. 0 \in 0 .. last
      OBVIOUS
    <2>2. f[0] = {s} /\ g[0] = {s}
      BY <2>1 DEF Grows
    <2> QED
      BY <2>2
  <1>2. ASSUME NEW n \in Nat, n \in T PROVE n + 1 \in T
    <2>1. SUFFICES ASSUME n + 1 <= last PROVE f[n + 1] = g[n + 1]
      OBVIOUS
    <2>2. n + 1 \in 0 .. last /\ n + 1 # 0 /\ (n + 1) - 1 = n /\ n <= last
      BY <2>1
    <2>3. f[n] = g[n]
      BY <1>2, <2>2
    <2>4. f[n + 1] = Found1(f[n], S, R) /\ g[n + 1] = Found1(g[n], S, R)
      BY <2>2 DEF Grows
    <2> QED
      BY <2>3, <2>4
  <1> HIDE DEF T
  <1>3. \A n \in Nat : n \in T
    BY <1>1, <1>2, AllNumbers
  <1>4. \A n \in 0 .. last : f[n] = g[n]
    BY <1>3 DEF T
  <1> QED
    BY <1>4 DEF Grows

-----------------------------------------------------------------------------
CodeTyped ==
    /\ DOMAIN backend \subseteq Surfaces
    /\ \A f \in DOMAIN backend : backend[f] \subseteq Services
    /\ DOMAIN uses = DOMAIN backend
    /\ exposed \subseteq Services

(* Who depends on whom, where the walk goes on.                              *)
Via(seeds, s) == {p \in depends : p[2] = s \/ WalkedThrough(seeds, p[2])}

LEMMA ReachingIs ==
    ASSUME ContainmentAssumption, NEW seeds, NEW s \in Services
    PROVE  \E C : Closure(C, s, Services, Via(seeds, s)) /\ Reaching(seeds, s) = C \ {s}
  <1> DEFINE N == Cardinality(Services)
             IsVia(g) == g = [n \in 0 .. N |->
                 IF n = 0 THEN {s}
                 ELSE LET before == g[n - 1] IN
                      before \cup {t \in Services : \E d \in before :
                         <<t, d>> \in depends /\ (d = s \/ WalkedThrough(seeds, d))}]
             via[n \in 0 .. N] ==
                 IF n = 0 THEN {s}
                 ELSE LET before == via[n - 1] IN
                      before \cup {t \in Services : \E d \in before :
                         <<t, d>> \in depends /\ (d = s \/ WalkedThrough(seeds, d))}
  <1>1. IsFiniteSet(Services)
    BY DEF ContainmentAssumption
  <1>2. PICK f \in [0 .. N -> SUBSET Services] :
            /\ Grows(f, s, Services, Via(seeds, s), N)
            /\ Closure(f[N], s, Services, Via(seeds, s))
    BY <1>1, ClosureExists
  <1>3. \A C : Found1(C, Services, Via(seeds, s)) =
                 C \cup {t \in Services : \E d \in C :
                         <<t, d>> \in depends /\ (d = s \/ WalkedThrough(seeds, d))}
    BY DEF Found1, Via
  <1>4. IsVia(f)
    BY <1>2, <1>3 DEF Grows
  <1>5. via = CHOOSE g : IsVia(g)
    OBVIOUS
  <1>6. Reaching(seeds, s) = via[N] \ {s}
    BY DEF Reaching
  <1> HIDE DEF IsVia, via
  <1>7. IsVia(via)
    BY <1>4, <1>5
  <1>8. Grows(via, s, Services, Via(seeds, s), N)
    BY <1>3, <1>7 DEF IsVia, Grows
  <1>9. via = f
    BY <1>1, <1>2, <1>8, FS_CardinalityType, GrowthIsOne
  <1> QED
    BY <1>2, <1>6, <1>9

(* Whom a surface has as a backend together.                                 *)
Together == {p \in Services \X Services : \E f \in DOMAIN backend : p[1] \in backend[f] /\ p[2] \in backend[f]}

LEMMA LinkedIs ==
    ASSUME ContainmentAssumption, CodeTyped, NEW s \in Services
    PROVE  \E C : Closure(C, s, Services, Together) /\ \A t : Linked(s, t) <=> t \in C
  <1> DEFINE N == Cardinality(Services)
             IsNear(g) == g = [n \in 0 .. N |->
                 IF n = 0 THEN {s}
                 ELSE LET before == g[n - 1] IN
                      before \cup UNION {backend[f] : f \in {h \in DOMAIN backend : backend[h] \cap before # {}}}]
             near[n \in 0 .. N] ==
                 IF n = 0 THEN {s}
                 ELSE LET before == near[n - 1] IN
                      before \cup UNION {backend[f] : f \in {h \in DOMAIN backend : backend[h] \cap before # {}}}
  <1>1. IsFiniteSet(Services)
    BY DEF ContainmentAssumption
  <1>2. PICK f \in [0 .. N -> SUBSET Services] :
            /\ Grows(f, s, Services, Together, N)
            /\ Closure(f[N], s, Services, Together)
    BY <1>1, ClosureExists
  <1>3. \A C : Found1(C, Services, Together) =
                 C \cup UNION {backend[g] : g \in {h \in DOMAIN backend : backend[h] \cap C # {}}}
    <2> TAKE C
    <2>1. ASSUME NEW t \in Services, NEW d \in C, <<t, d>> \in Together
          PROVE  t \in UNION {backend[g] : g \in {h \in DOMAIN backend : backend[h] \cap C # {}}}
      <3>1. PICK g \in DOMAIN backend : t \in backend[g] /\ d \in backend[g]
        BY <2>1 DEF Together
      <3> QED
        BY <2>1, <3>1
    <2>2. ASSUME NEW g \in DOMAIN backend, NEW d \in C, d \in backend[g], NEW t \in backend[g]
          PROVE  t \in Services /\ <<t, d>> \in Together
      BY <2>2 DEF Together, CodeTyped
    <2> DEFINE U == UNION {backend[g] : g \in {h \in DOMAIN backend : backend[h] \cap C # {}}}
               V == {t \in Services : \E d \in C : <<t, d>> \in Together}
    <2>3. V \subseteq U
      <3>1. ASSUME NEW t \in V PROVE t \in U
        <4>1. PICK d \in C : <<t, d>> \in Together
          OBVIOUS
        <4> QED
          BY <2>1, <4>1
      <3> HIDE DEF U, V
      <3> QED
        BY <3>1
    <2>4. U \subseteq V
      <3>1. ASSUME NEW t \in U PROVE t \in V
        <4>1. PICK g \in {h \in DOMAIN backend : backend[h] \cap C # {}} : t \in backend[g]
          BY <3>1
        <4>2. PICK d \in C : d \in backend[g]
          BY <4>1
        <4> QED
          BY <2>2, <4>1, <4>2
      <3> HIDE DEF U, V
      <3> QED
        BY <3>1
    <2>5. Found1(C, Services, Together) = C \cup V
      BY DEF Found1
    <2> HIDE DEF U, V
    <2>6. Found1(C, Services, Together) = C \cup U
      BY <2>3, <2>4, <2>5
    <2> QED
      BY <2>6 DEF U
  <1>4. IsNear(f)
    <2> DEFINE U(C) == C \cup UNION {backend[g] : g \in {h \in DOMAIN backend : backend[h] \cap C # {}}}
    <2>1. \A C : Found1(C, Services, Together) = U(C)
      BY <1>3
    <2> HIDE DEF U
    <2>2. f = [n \in 0 .. N |-> IF n = 0 THEN {s} ELSE U(f[n - 1])]
      BY <1>2, <2>1 DEF Grows
    <2> QED
      BY <2>2 DEF U
  <1>5. near = CHOOSE g : IsNear(g)
    OBVIOUS
  <1>6. \A t : Linked(s, t) <=> t \in near[N]
    BY DEF Linked
  <1> HIDE DEF IsNear, near
  <1>7. IsNear(near)
    BY <1>4, <1>5
  <1>8. Grows(near, s, Services, Together, N)
    <2> DEFINE U(C) == C \cup UNION {backend[g] : g \in {h \in DOMAIN backend : backend[h] \cap C # {}}}
    <2>1. \A C : Found1(C, Services, Together) = U(C)
      BY <1>3
    <2>2. near = [n \in 0 .. N |-> IF n = 0 THEN {s} ELSE U(near[n - 1])]
      BY <1>7 DEF IsNear
    <2> HIDE DEF U
    <2> QED
      BY <2>1, <2>2 DEF Grows
  <1>9. near = f
    BY <1>1, <1>2, <1>8, FS_CardinalityType, GrowthIsOne
  <1> QED
    BY <1>2, <1>6, <1>9

(* Who reaches something that is walked through reaches what it depends on.  *)
LEMMA ReachesOn ==
    ASSUME ContainmentAssumption, NEW seeds, NEW s \in Services, s \notin seeds,
           NEW t \in Services, <<t, s>> \in depends
    PROVE  /\ t # s => t \in Reaching(seeds, s)
           /\ t \notin seeds => Reaching(seeds, t) \cap seeds \subseteq Reaching(seeds, s)
  <1>1. PICK C : Closure(C, s, Services, Via(seeds, s)) /\ Reaching(seeds, s) = C \ {s}
    BY ReachingIs
  <1>2. t \in C
    <2>1. <<t, s>> \in Via(seeds, s)
      BY DEF Via
    <2> QED
      BY <1>1, <2>1 DEF Closure, Closed
  <1>3. ASSUME t \notin seeds PROVE Reaching(seeds, t) \cap seeds \subseteq Reaching(seeds, s)
    <2>1. PICK D : Closure(D, t, Services, Via(seeds, t)) /\ Reaching(seeds, t) = D \ {t}
      BY ReachingIs
    <2>2. Via(seeds, t) \subseteq Via(seeds, s)
      BY <1>3 DEF Via, WalkedThrough
    <2>3. Closed(C, Services, Via(seeds, t))
      BY <1>1, <2>2 DEF Closure, Closed
    <2>4. D \subseteq C
      BY <1>1, <1>2, <2>1, <2>3 DEF Closure
    <2> QED
      BY <1>1, <2>1, <2>4
  <1> QED
    BY <1>1, <1>2, <1>3

(* What is inside is used from inside only.                                  *)
LEMMA UsedInside ==
    ASSUME ContainmentAssumption, CodeTyped
    PROVE  InsideIsUsedInside
  <1> SUFFICES ASSUME NEW s \in Services, NEW t \in Services,
                      s \notin DOMAIN Group, HomeOf(Group)[s] # {}, <<t, s>> \in depends,
                      \A f \in DOMAIN backend : uses[f] = {}
               PROVE  \/ HomeOf(Group)[t] = HomeOf(Group)[s]
                      \/ t \notin DOMAIN Group /\ UsersOf(Group, t) = {}
    BY Zenon DEF InsideIsUsedInside
  <1> DEFINE group == Group
             seeds == DOMAIN group
             home == HomeOf(group)
             caps(x) == {Capability(group, u) : u \in Reaching(seeds, x) \cap seeds}
  <1>1. s \notin seeds /\ home[s] # {}
    OBVIOUS
  <1>2. SUFFICES home[t] = home[s] \/ (t \notin seeds /\ UsersOf(group, t) = {})
    OBVIOUS
  <1> HIDE DEF group
  <1>3. ASSUME NEW x \in Services PROVE UsersOf(group, x) = caps(x)
    <2> DEFINE fronts == {f \in DOMAIN backend : x \in uses[f] /\ backend[f] # {}}
    <2>1. fronts = {}
      BY DEF CodeTyped
    <2>2. UsersOf(group, x) =
            caps(x) \cup {Capability(group, CHOOSE v \in backend[f] : \A u \in backend[f] : v <= u) : f \in fronts}
      BY Zenon DEF UsersOf
    <2> HIDE DEF fronts, caps
    <2> QED
      BY <2>1, <2>2
  <1>4. ASSUME NEW x \in Services
        PROVE  home[x] = IF x \in seeds THEN Capability(group, x)
                         ELSE IF Cardinality(UsersOf(group, x)) = 1
                              THEN CHOOSE c \in UsersOf(group, x) : TRUE ELSE {}
    BY DEF HomeOf
  <1> HIDE DEF home, seeds
  <1>5. Cardinality(UsersOf(group, s)) = 1 /\ home[s] = CHOOSE c \in UsersOf(group, s) : TRUE
    BY <1>1, <1>4
  <1>6. PICK c : UsersOf(group, s) = {c}
    <2>1. IsFiniteSet(Reaching(seeds, s))
      <3>1. PICK C : Closure(C, s, Services, Via(seeds, s)) /\ Reaching(seeds, s) = C \ {s}
        BY ReachingIs
      <3>2. Reaching(seeds, s) \in SUBSET Services
        BY <3>1 DEF Closure
      <3> QED
        BY <3>2, FS_Subset DEF ContainmentAssumption
    <2>2. IsFiniteSet(Reaching(seeds, s) \cap seeds)
      BY <2>1, FS_Intersection
    <2>3. IsFiniteSet(caps(s))
      <3> DEFINE S == Reaching(seeds, s) \cap seeds
                 f == [u \in S |-> Capability(group, u)]
      <3>1. f \in Surjection(S, caps(s))
        BY DEF Surjection
      <3> HIDE DEF f
      <3> QED
        BY <2>2, <3>1, FS_Surjection
    <2> QED
      BY <1>3, <1>5, <2>3, FS_Singleton
  <1>7. home[s] = c
    BY <1>5, <1>6
  <1>8. SUFFICES ASSUME t # s PROVE home[t] = home[s] \/ (t \notin seeds /\ UsersOf(group, t) = {})
    OBVIOUS
  <1>9. CASE t \in seeds
    <2>1. t \in Reaching(seeds, s) \cap seeds
      BY <1>1, <1>8, <1>9, ReachesOn
    <2>2. Capability(group, t) \in caps(s)
      BY <2>1
    <2> HIDE DEF caps
    <2>3. Capability(group, t) = c
      BY <1>3, <1>6, <2>2
    <2> QED
      BY <1>4, <1>7, <1>9, <2>3
  <1>10. CASE t \notin seeds
    <2>1. Reaching(seeds, t) \cap seeds \subseteq Reaching(seeds, s)
      BY <1>1, <1>10, ReachesOn
    <2>2. caps(t) \subseteq caps(s)
      BY <2>1
    <2> HIDE DEF caps
    <2>3. UsersOf(group, t) \subseteq {c}
      BY <1>3, <1>6, <2>2
    <2>4. CASE UsersOf(group, t) = {c}
      <3>1. Cardinality(UsersOf(group, t)) = 1 /\ (CHOOSE d \in UsersOf(group, t) : TRUE) = c
        BY <2>4, FS_Singleton
      <3> QED
        BY <1>4, <1>7, <1>10, <3>1
    <2> QED
      BY <1>10, <2>3, <2>4
  <1> QED
    BY <1>9, <1>10

-----------------------------------------------------------------------------
(* Groups: each leads to another of smaller rank, or to itself at the root.  *)
Ranked(g, seeds, h) ==
    /\ seeds \in SUBSET Services /\ g \in [seeds -> seeds] /\ h \in [seeds -> Nat]
    /\ \A x \in seeds : g[x] # x => h[g[x]] < h[x]

Follows(f, g, s, last) == f[0] = s /\ \A n \in 1 .. last : f[n] = g[f[n - 1]]

LEMMA FindFollows ==
    ASSUME ContainmentAssumption, NEW seeds \in SUBSET Services, NEW g \in [seeds -> seeds], NEW s \in seeds
    PROVE  \E f \in [0 .. Cardinality(Services) -> seeds] :
              Follows(f, g, s, Cardinality(Services)) /\ Find(g, s) = f[Cardinality(Services)]
  <1> DEFINE N == Cardinality(Services)
             IsAt(w) == w = [n \in 0 .. N |-> IF n = 0 THEN s ELSE g[w[n - 1]]]
             at[n \in 0 .. N] == IF n = 0 THEN s ELSE g[at[n - 1]]
             step == [x \in (1 .. N) \X seeds |-> g[x[2]]]
  <1>1. N \in Nat
    BY FS_CardinalityType DEF ContainmentAssumption
  <1>2. step \in [(1 .. N) \X seeds -> seeds] /\ \A n \in 1 .. N, x \in seeds : step[<<n, x>>] = g[x]
    OBVIOUS
  <1>3. at = CHOOSE w : IsAt(w)
    OBVIOUS
  <1>4. Find(g, s) = at[N]
    BY DEF Find
  <1> HIDE DEF N, step, at
  <1>5. PICK f \in [0 .. N -> seeds] : Recurs(f, s, step, N)
    BY <1>1, <1>2, RecursionWorks
  <1>6. \A n \in 0 .. N : n # 0 => n \in 1 .. N /\ n - 1 \in 0 .. N
    BY <1>1
  <1>7. ASSUME NEW n \in 0 .. N PROVE f[n] = IF n = 0 THEN s ELSE g[f[n - 1]]
    <2>1. f[n] = IF n = 0 THEN s ELSE step[<<n, f[n - 1]>>]
      BY <1>5 DEF Recurs
    <2> QED
      BY <1>2, <1>5, <1>6, <2>1
  <1>8. IsAt(f)
    BY <1>5, <1>7
  <1> HIDE DEF IsAt
  <1>9. IsAt(at)
    BY <1>3, <1>8
  <1> USE DEF IsAt
  <1>10. \A n \in 0 .. N : at[n] = f[n]
    <2> DEFINE T == {n \in Nat : n <= N => at[n] = f[n]}
    <2>1. 0 \in T
      <3>1. 0 \in 0 .. N
        BY <1>1
      <3>2. at[0] = s /\ f[0] = s
        BY <1>7, <1>9, <3>1
      <3> QED
        BY <3>2
    <2>2. ASSUME NEW n \in Nat, n \in T PROVE n + 1 \in T
      <3>1. SUFFICES ASSUME n + 1 <= N PROVE at[n + 1] = f[n + 1]
        OBVIOUS
      <3>2. n + 1 \in 0 .. N /\ n + 1 # 0 /\ (n + 1) - 1 = n /\ n <= N
        BY <1>1, <3>1
      <3>3. at[n] = f[n]
        BY <2>2, <3>2
      <3>4. at[n + 1] = g[at[n]]
        BY <1>9, <3>2
      <3>5. f[n + 1] = g[f[n]]
        BY <1>7, <3>2
      <3> QED
        BY <3>3, <3>4, <3>5
    <2> HIDE DEF T
    <2>3. \A n \in Nat : n \in T
      BY <2>1, <2>2, AllNumbers
    <2> QED
      BY <1>1, <2>3 DEF T
  <1>11. N \in 0 .. N /\ 0 \in 0 .. N
    BY <1>1
  <1>12. Follows(f, g, s, N)
    <2>1. f[0] = s
      BY <1>7, <1>11
    <2>2. \A n \in 1 .. N : n \in 0 .. N /\ n # 0
      BY <1>1
    <2>3. \A n \in 1 .. N : f[n] = g[f[n - 1]]
      BY <1>7, <2>2
    <2> QED
      BY <2>1, <2>3 DEF Follows
  <1> QED
    BY <1>4, <1>10, <1>11, <1>12 DEF N

(* Whoever one leads to in the end is a root.                                *)
LEMMA FindsRoot ==
    ASSUME ContainmentAssumption, NEW seeds, NEW g, NEW h, Ranked(g, seeds, h), NEW s \in seeds
    PROVE  Find(g, s) \in seeds /\ g[Find(g, s)] = Find(g, s)
  <1> DEFINE N == Cardinality(Services)
  <1>1. /\ seeds \in SUBSET Services /\ g \in [seeds -> seeds] /\ h \in [seeds -> Nat]
        /\ \A x \in seeds : g[x] # x => h[g[x]] < h[x]
    BY DEF Ranked
  <1>2. N \in Nat /\ IsFiniteSet(Services)
    BY FS_CardinalityType DEF ContainmentAssumption
  <1>3. PICK f \in [0 .. N -> seeds] : Follows(f, g, s, N) /\ Find(g, s) = f[N]
    BY <1>1, FindFollows
  <1> HIDE DEF N
  <1>4. ASSUME NEW n \in Nat, n + 1 <= N PROVE f[n + 1] = g[f[n]] /\ f[n] \in seeds /\ f[n + 1] \in seeds
    <2>1. n + 1 \in 1 .. N /\ (n + 1) - 1 = n /\ n \in 0 .. N /\ n + 1 \in 0 .. N
      BY <1>2, <1>4
    <2> QED
      BY <1>3, <2>1 DEF Follows
  <1>5. Find(g, s) \in seeds
    BY <1>2, <1>3
  <1>6. SUFFICES ASSUME g[f[N]] # f[N] PROVE FALSE
    BY <1>3, <1>5
  <1>7. ASSUME NEW n \in Nat, n <= N PROVE g[f[n]] # f[n]
    <2>1. SUFFICES ASSUME g[f[n]] = f[n] PROVE FALSE
      OBVIOUS
    <2> DEFINE T == {j \in Nat : n + j <= N => f[n + j] = f[n]}
    <2>2. 0 \in T
      OBVIOUS
    <2>3. ASSUME NEW j \in Nat, j \in T PROVE j + 1 \in T
      <3>1. SUFFICES ASSUME n + (j + 1) <= N PROVE f[n + (j + 1)] = f[n]
        OBVIOUS
      <3>2. n + j \in Nat /\ (n + j) + 1 <= N /\ n + (j + 1) = (n + j) + 1 /\ n + j <= N
        BY <1>2, <3>1
      <3>3. f[n + j] = f[n]
        BY <2>3, <3>2
      <3> QED
        BY <1>4, <2>1, <3>2, <3>3
    <2> HIDE DEF T
    <2>4. \A j \in Nat : j \in T
      BY <2>2, <2>3, AllNumbers
    <2>5. N - n \in Nat /\ n + (N - n) = N
      BY <1>2, <1>7
    <2> QED
      BY <1>2, <1>6, <2>1, <2>4, <2>5 DEF T
  <1>8. ASSUME NEW n \in Nat, n + 1 <= N PROVE h[f[n + 1]] < h[f[n]]
    <2>1. n <= N
      BY <1>2, <1>8
    <2> QED
      BY <1>1, <1>4, <1>7, <1>8, <2>1
  <1>9. ASSUME NEW n \in Nat, NEW k \in Nat, n + (k + 1) <= N PROVE h[f[n + (k + 1)]] < h[f[n]]
    <2> DEFINE T == {j \in Nat : n + (j + 1) <= N => h[f[n + (j + 1)]] < h[f[n]]}
    <2>1. 0 \in T
      <3>1. SUFFICES ASSUME n + (0 + 1) <= N PROVE h[f[n + (0 + 1)]] < h[f[n]]
        OBVIOUS
      <3>2. n + (0 + 1) = n + 1
        OBVIOUS
      <3> QED
        BY <1>8, <3>1, <3>2
    <2>2. ASSUME NEW j \in Nat, j \in T PROVE j + 1 \in T
      <3>1. SUFFICES ASSUME n + ((j + 1) + 1) <= N PROVE h[f[n + ((j + 1) + 1)]] < h[f[n]]
        OBVIOUS
      <3> DEFINE m == n + (j + 1)
      <3>2. m \in Nat /\ m + 1 <= N /\ n + ((j + 1) + 1) = m + 1 /\ m <= N /\ n <= N /\ n + (j + 1) <= N
        BY <1>2, <3>1
      <3>3. h[f[m]] < h[f[n]]
        BY <2>2, <3>2
      <3> HIDE DEF m
      <3>4. h[f[m + 1]] < h[f[m]]
        BY <1>8, <3>2
      <3>5. m \in 0 .. N /\ n \in 0 .. N /\ m + 1 \in 0 .. N
        BY <1>2, <3>2
      <3>6. h[f[m]] \in Nat /\ h[f[n]] \in Nat /\ h[f[m + 1]] \in Nat
        BY <1>1, <1>3, <3>5
      <3>7. h[f[m + 1]] < h[f[n]]
        BY <3>3, <3>4, <3>6
      <3> QED
        BY <3>2, <3>7
    <2> HIDE DEF T
    <2>3. \A j \in Nat : j \in T
      BY <2>1, <2>2, AllNumbers
    <2> QED
      BY <1>9, <2>3 DEF T
  <1>10. ASSUME NEW i \in 0 .. N, NEW j \in 0 .. N, i < j PROVE f[i] # f[j]
    <2>1. j - i - 1 \in Nat /\ i + ((j - i - 1) + 1) = j /\ i \in Nat /\ j <= N
      BY <1>2, <1>10
    <2>2. h[f[j]] < h[f[i]]
      BY <1>9, <2>1
    <2>3. h[f[j]] \in Nat
      BY <1>1, <1>3
    <2> QED
      BY <2>2, <2>3
  <1>11. ASSUME NEW i \in 0 .. N, NEW j \in 0 .. N, f[i] = f[j] PROVE i = j
    <2>1. i \in Nat /\ j \in Nat
      BY <1>2
    <2>2. ~(i < j) /\ ~(j < i)
      BY <1>10, <1>11
    <2> QED
      BY <2>1, <2>2
  <1>12. f \in Injection(0 .. N, Services)
    BY <1>1, <1>3, <1>11 DEF Injection, IsInjective
  <1>13. Cardinality(0 .. N) <= Cardinality(Services)
    BY <1>2, <1>12, FS_Injection
  <1>14. Cardinality(0 .. N) = N + 1
    BY <1>2, FS_Interval
  <1> QED
    BY <1>2, <1>13, <1>14 DEF N

(* It is the root of whoever it leads to first.                              *)
LEMMA FindsOn ==
    ASSUME ContainmentAssumption, NEW seeds, NEW g, NEW h, Ranked(g, seeds, h), NEW s \in seeds
    PROVE  Find(g, s) = IF g[s] = s THEN s ELSE Find(g, g[s])
  <1> DEFINE N == Cardinality(Services)
  <1>1. /\ seeds \in SUBSET Services /\ g \in [seeds -> seeds] /\ g[s] \in seeds
    BY DEF Ranked
  <1>2. N \in Nat
    BY FS_CardinalityType DEF ContainmentAssumption
  <1>3. PICK f \in [0 .. N -> seeds] : Follows(f, g, s, N) /\ Find(g, s) = f[N]
    BY <1>1, FindFollows
  <1>4. PICK e \in [0 .. N -> seeds] : Follows(e, g, g[s], N) /\ Find(g, g[s]) = e[N]
    BY <1>1, FindFollows
  <1> HIDE DEF N
  <1> DEFINE T == {n \in Nat : n <= N => e[n] = g[f[n]] /\ (g[s] = s => f[n] = s)}
  <1>5. 0 \in T
    BY <1>3, <1>4 DEF Follows
  <1>6. ASSUME NEW n \in Nat, n \in T PROVE n + 1 \in T
    <2>1. SUFFICES ASSUME n + 1 <= N
                   PROVE  e[n + 1] = g[f[n + 1]] /\ (g[s] = s => f[n + 1] = s)
      OBVIOUS
    <2>2. n + 1 \in 1 .. N /\ (n + 1) - 1 = n /\ n <= N
      BY <1>2, <2>1
    <2>3. e[n] = g[f[n]] /\ (g[s] = s => f[n] = s)
      BY <1>6, <2>2
    <2>4. f[n + 1] = g[f[n]] /\ e[n + 1] = g[e[n]]
      BY <1>3, <1>4, <2>2 DEF Follows
    <2> QED
      BY <2>3, <2>4
  <1> HIDE DEF T
  <1>7. \A n \in Nat : n \in T
    BY <1>5, <1>6, AllNumbers
  <1>8. e[N] = g[f[N]] /\ (g[s] = s => f[N] = s)
    BY <1>2, <1>7 DEF T
  <1>9. g[f[N]] = f[N]
    BY <1>3, FindsRoot
  <1> QED
    BY <1>3, <1>4, <1>8, <1>9

(* Only the roots do that.                                                   *)
LEMMA FindIsOne ==
    ASSUME ContainmentAssumption, NEW seeds, NEW g, NEW h, Ranked(g, seeds, h),
           NEW F, \A x \in seeds : F[x] = IF g[x] = x THEN x ELSE F[g[x]]
    PROVE  \A x \in seeds : Find(g, x) = F[x]
  <1> DEFINE T == {h[x] : x \in {y \in seeds : Find(g, y) # F[y]}}
  <1>1. SUFFICES ASSUME T # {} PROVE FALSE
    OBVIOUS
  <1>2. T \in SUBSET Nat
    BY DEF Ranked
  <1>3. PICK m \in T : \A v \in T : m <= v
    <2> HIDE DEF T
    <2> QED
      BY <1>1, <1>2, LeastNumber
  <1>4. PICK x \in seeds : Find(g, x) # F[x] /\ m = h[x]
    BY <1>3
  <1>5. g[x] # x
    BY <1>4, FindsOn
  <1>6. Find(g, g[x]) # F[g[x]] /\ g[x] \in seeds
    <2>1. Find(g, x) = Find(g, g[x])
      BY <1>5, FindsOn
    <2>2. F[x] = F[g[x]]
      BY <1>5
    <2>3. g[x] \in seeds
      BY DEF Ranked
    <2> QED
      BY <1>4, <2>1, <2>2, <2>3
  <1>7. h[g[x]] \in T
    BY <1>6
  <1>8. h[g[x]] < h[x] /\ h[x] \in Nat /\ h[g[x]] \in Nat
    BY <1>5, <1>6 DEF Ranked
  <1> HIDE DEF T
  <1>9. h[x] <= h[g[x]]
    BY <1>3, <1>4, <1>7
  <1> QED
    BY <1>8, <1>9

(* Joining two: who was led to the second's root is led to the first's.      *)
LEMMA JoinedFinds ==
    ASSUME ContainmentAssumption, NEW seeds, NEW g, NEW h, Ranked(g, seeds, h),
           NEW a \in seeds, NEW b \in seeds
    PROVE  \E k : /\ Ranked(Joined(g, a, b), seeds, k)
                  /\ \A x \in seeds : Find(Joined(g, a, b), x) =
                        IF Find(g, x) = Find(g, b) THEN Find(g, a) ELSE Find(g, x)
  <1> DEFINE r == Find(g, a)
             q == Find(g, b)
             new == Joined(g, a, b)
             k == [x \in seeds |-> IF Find(g, x) = q THEN h[x] + h[r] + 1 ELSE h[x]]
             F == [x \in seeds |-> IF Find(g, x) = q THEN r ELSE Find(g, x)]
  <1>1. /\ seeds \in SUBSET Services /\ g \in [seeds -> seeds] /\ h \in [seeds -> Nat]
        /\ \A x \in seeds : g[x] # x => h[g[x]] < h[x]
    BY DEF Ranked
  <1>2. r \in seeds /\ g[r] = r /\ q \in seeds /\ g[q] = q
    BY FindsRoot
  <1>3. new = [g EXCEPT ![q] = r]
    BY DEF Joined
  <1>4. Find(g, r) = r /\ Find(g, q) = q
    BY <1>2, FindsOn
  <1>5. CASE r = q
    <2>1. new = g
      BY <1>1, <1>2, <1>3, <1>5
    <2> HIDE DEF new, r, q
    <2> QED
      BY <1>5, <2>1 DEF new, r, q
  <1>6. CASE r # q
    <2> HIDE DEF r, q, new
    <2>1. new \in [seeds -> seeds]
      BY <1>1, <1>2, <1>3
    <2>2. \A x \in seeds : new[x] = IF x = q THEN r ELSE g[x]
      BY <1>1, <1>2, <1>3
    <2>3. k \in [seeds -> Nat]
      BY <1>1, <1>2
    <2>4. \A x \in seeds : k[x] = IF Find(g, x) = q THEN h[x] + h[r] + 1 ELSE h[x]
      OBVIOUS
    <2>5. \A x \in seeds : F[x] = IF Find(g, x) = q THEN r ELSE Find(g, x)
      OBVIOUS
    <2> HIDE DEF k, F
    <2>6. ASSUME NEW x \in seeds, g[x] # x PROVE Find(g, x) = Find(g, g[x]) /\ g[x] \in seeds
      BY <1>1, <2>6, FindsOn
    <2>7. ASSUME NEW x \in seeds, new[x] # x PROVE k[new[x]] < k[x]
      <3>1. CASE x = q
        <4>1. k[x] = h[q] + h[r] + 1 /\ k[new[x]] = h[r]
          BY <1>2, <1>4, <1>6, <2>2, <2>4, <3>1
        <4>2. h[q] \in Nat /\ h[r] \in Nat
          BY <1>1, <1>2
        <4> QED
          BY <4>1, <4>2
      <3>2. CASE x # q
        <4>1. new[x] = g[x] /\ g[x] # x
          BY <2>2, <2>7, <3>2
        <4>2. Find(g, x) = Find(g, g[x]) /\ g[x] \in seeds
          BY <2>6, <4>1
        <4>3. h[g[x]] < h[x] /\ h[g[x]] \in Nat /\ h[x] \in Nat /\ h[r] \in Nat
          BY <1>1, <1>2, <4>1, <4>2
        <4>4. k[x] = IF Find(g, x) = q THEN h[x] + h[r] + 1 ELSE h[x]
          BY <2>4
        <4>5. k[g[x]] = IF Find(g, x) = q THEN h[g[x]] + h[r] + 1 ELSE h[g[x]]
          BY <2>4, <4>2
        <4> QED
          BY <4>1, <4>3, <4>4, <4>5
      <3> QED
        BY <3>1, <3>2
    <2>8. Ranked(new, seeds, k)
      BY <1>1, <2>1, <2>3, <2>7 DEF Ranked
    <2>9. ASSUME NEW x \in seeds PROVE F[x] = IF new[x] = x THEN x ELSE F[new[x]]
      <3>1. CASE x = q
        BY <1>2, <1>4, <1>6, <2>2, <2>5, <3>1
      <3>2. CASE x # q /\ g[x] = x
        <4>1. Find(g, x) = x
          BY <3>2, FindsOn
        <4> QED
          BY <2>2, <2>5, <3>2, <4>1
      <3>3. CASE x # q /\ g[x] # x
        BY <2>2, <2>5, <2>6, <3>3
      <3> QED
        BY <3>1, <3>2, <3>3
    <2>10. \A x \in seeds : Find(new, x) = F[x]
      BY <2>8, <2>9, FindIsOne
    <2> QED
      BY <2>5, <2>8, <2>10 DEF new, r, q
  <1> QED
    BY <1>5, <1>6

-----------------------------------------------------------------------------
LEMMA AscendingHasPlaces ==
    ASSUME NEW stands \in SUBSET Nat, IsFiniteSet(stands)
    PROVE  /\ \A i \in 1 .. Cardinality(stands) : Ascending(stands)[i] \in stands
           /\ \A d \in stands : \E i \in 1 .. Cardinality(stands) : Ascending(stands)[i] = d
  <1>1. Ascending(stands) = InOrderOf(stands)
    BY Zenon DEF Ascending, InOrderOf
  <1> QED
    BY <1>1, EachHasItsPlace

LEMMA SeedsAreServices ==
    ASSUME CodeTyped
    PROVE  /\ Seeds \in SUBSET Services
           /\ \A p \in Together : p[1] \in Seeds /\ p[2] \in Seeds
  <1>1. Seeds \subseteq Services
    <2>1. CASE DOMAIN backend # {}
      <3>1. Seeds = UNION {backend[f] : f \in DOMAIN backend}
        BY <2>1 DEF Seeds
      <3>2. \A x \in UNION {backend[f] : f \in DOMAIN backend} : x \in Services
        BY DEF CodeTyped
      <3> QED
        BY <3>1, <3>2
    <2>2. CASE DOMAIN backend = {}
      <3> DEFINE tops == {s \in exposed : \A t \in Services : <<t, s>> \notin depends}
      <3>1. Seeds = IF tops # {} THEN tops ELSE exposed
        BY <2>2 DEF Seeds
      <3> QED
        BY <3>1 DEF CodeTyped
    <2> QED
      BY <2>1, <2>2
  <1>2. ASSUME NEW f \in DOMAIN backend, NEW x \in backend[f] PROVE x \in Seeds
    BY <1>2 DEF Seeds
  <1> QED
    BY <1>1, <1>2 DEF Together

JoinsOf(f) == [i \in DOMAIN Ascending(backend[f]) |-> <<Ascending(backend[f])[1], Ascending(backend[f])[i]>>]
Covered(js, f) == \A t \in backend[f] : \E i \in DOMAIN js : js[i] = <<Ascending(backend[f])[1], t>>

LEMMA EachJoinsItsOwn ==
    ASSUME ContainmentAssumption, CodeTyped, NEW f \in DOMAIN backend
    PROVE  JoinsOf(f) \in Seq(Together) /\ Covered(JoinsOf(f), f)
  <1> DEFINE bs == Ascending(backend[f])
             k == Cardinality(backend[f])
  <1>1. backend[f] \in SUBSET Services /\ backend[f] \in SUBSET Nat
    BY DEF CodeTyped, ContainmentAssumption
  <1>2. IsFiniteSet(backend[f]) /\ k \in Nat
    BY <1>1, FS_Subset, FS_CardinalityType DEF ContainmentAssumption
  <1>3. /\ \A i \in 1 .. k : bs[i] \in backend[f]
        /\ \A d \in backend[f] : \E i \in 1 .. k : bs[i] = d
    BY <1>1, <1>2, AscendingHasPlaces
  <1>4. DOMAIN bs = 1 .. k
    BY DEF Ascending
  <1>5. JoinsOf(f) = [i \in 1 .. k |-> <<bs[1], bs[i]>>]
    BY <1>4 DEF JoinsOf
  <1> HIDE DEF bs, k
  <1>6. ASSUME NEW i \in 1 .. k PROVE <<bs[1], bs[i]>> \in Together
    <2>1. 1 \in 1 .. k
      BY <1>2
    <2>2. bs[1] \in backend[f] /\ bs[i] \in backend[f]
      BY <1>3, <2>1
    <2> QED
      BY <1>1, <2>2 DEF Together
  <1>7. JoinsOf(f) \in Seq(Together)
    BY <1>2, <1>5, <1>6
  <1>8. DOMAIN JoinsOf(f) = 1 .. k /\ \A i \in 1 .. k : JoinsOf(f)[i] = <<bs[1], bs[i]>>
    BY <1>5
  <1>9. Covered(JoinsOf(f), f)
    <2>1. ASSUME NEW t \in backend[f] PROVE \E i \in DOMAIN JoinsOf(f) : JoinsOf(f)[i] = <<bs[1], t>>
      BY <1>3, <1>8
    <2> QED
      BY <2>1 DEF Covered, bs
  <1> QED
    BY <1>7, <1>9

LEMMA JoinsAre ==
    ASSUME ContainmentAssumption, CodeTyped
    PROVE  Joins \in Seq(Together) /\ \A f \in DOMAIN backend : Covered(Joins, f)
  <1> DEFINE order == Ascending(DOMAIN backend)
             K == Cardinality(DOMAIN backend)
             IsUpTo(w) == w = [n \in 0 .. K |-> IF n = 0 THEN <<>> ELSE w[n - 1] \o JoinsOf(order[n])]
             upTo[n \in 0 .. K] == IF n = 0 THEN <<>> ELSE upTo[n - 1] \o JoinsOf(order[n])
             V == Seq(Together)
             step == [x \in (1 .. K) \X V |-> x[2] \o JoinsOf(order[x[1]])]
  <1>1. DOMAIN backend \in SUBSET Nat /\ IsFiniteSet(DOMAIN backend)
    <2>1. DOMAIN backend \in SUBSET Surfaces
      BY DEF CodeTyped
    <2> QED
      BY <2>1, FS_Subset DEF ContainmentAssumption
  <1>2. K \in Nat
    BY <1>1, FS_CardinalityType
  <1>3. /\ \A i \in 1 .. K : order[i] \in DOMAIN backend
        /\ \A f \in DOMAIN backend : \E i \in 1 .. K : order[i] = f
    BY <1>1, AscendingHasPlaces
  <1>4. upTo = CHOOSE w : IsUpTo(w)
    OBVIOUS
  <1>5. Joins = upTo[K]
    BY DEF Joins, JoinsOf
  <1> HIDE DEF order, K, upTo
  <1>6. \A i \in 1 .. K : JoinsOf(order[i]) \in V
    BY <1>3, EachJoinsItsOwn
  <1>7. step \in [(1 .. K) \X V -> V]
    <2> SUFFICES ASSUME NEW x \in (1 .. K) \X V PROVE x[2] \o JoinsOf(order[x[1]]) \in V
      OBVIOUS
    <2>1. x[2] \in V /\ JoinsOf(order[x[1]]) \in V
      BY <1>6
    <2> QED
      BY <2>1, ConcatProperties
  <1>8. \A n \in 1 .. K, s \in V : step[<<n, s>>] = s \o JoinsOf(order[n])
    OBVIOUS
  <1>9. <<>> \in V
    OBVIOUS
  <1> HIDE DEF step, V
  <1>10. PICK w \in [0 .. K -> V] : Recurs(w, <<>>, step, K)
    BY <1>2, <1>7, <1>9, RecursionWorks
  <1>11. \A n \in 0 .. K : n # 0 => n \in 1 .. K /\ n - 1 \in 0 .. K
    BY <1>2
  <1>12. ASSUME NEW n \in 0 .. K PROVE w[n] = IF n = 0 THEN <<>> ELSE w[n - 1] \o JoinsOf(order[n])
    <2>1. w[n] = IF n = 0 THEN <<>> ELSE step[<<n, w[n - 1]>>]
      BY <1>10 DEF Recurs
    <2> QED
      BY <1>8, <1>10, <1>11, <2>1
  <1>13. IsUpTo(w)
    BY <1>10, <1>12
  <1> HIDE DEF IsUpTo
  <1>14. IsUpTo(upTo)
    BY <1>4, <1>13
  <1> USE DEF IsUpTo
  <1> DEFINE T == {n \in Nat : n <= K => upTo[n] \in V /\ \A i \in 1 .. n : Covered(upTo[n], order[i])}
  <1>15. 0 \in T
    <2>1. 0 \in 0 .. K
      BY <1>2
    <2>2. upTo[0] = <<>>
      BY <1>14, <2>1
    <2> QED
      BY <1>9, <2>2
  <1>16. ASSUME NEW n \in Nat, n \in T PROVE n + 1 \in T
    <2>1. SUFFICES ASSUME n + 1 <= K
                   PROVE  upTo[n + 1] \in V /\ \A i \in 1 .. (n + 1) : Covered(upTo[n + 1], order[i])
      OBVIOUS
    <2>2. n + 1 \in 0 .. K /\ n + 1 # 0 /\ (n + 1) - 1 = n /\ n <= K /\ n + 1 \in 1 .. K
      BY <1>2, <2>1
    <2> DEFINE old == upTo[n]
               more == JoinsOf(order[n + 1])
    <2>3. old \in V /\ \A i \in 1 .. n : Covered(old, order[i])
      BY <1>16, <2>2
    <2>4. upTo[n + 1] = old \o more
      BY <1>14, <2>2
    <2>5. more \in V /\ Covered(more, order[n + 1])
      BY <1>3, <2>2, EachJoinsItsOwn DEF V
    <2> HIDE DEF old, more
    <2>6. /\ old \o more \in V
          /\ \A i \in DOMAIN old : i \in DOMAIN (old \o more) /\ (old \o more)[i] = old[i]
          /\ \A i \in DOMAIN more : Len(old) + i \in DOMAIN (old \o more) /\ (old \o more)[Len(old) + i] = more[i]
      <3>1. old \in Seq(Together) /\ more \in Seq(Together)
        BY <2>3, <2>5 DEF V
      <3>2. /\ old \o more \in Seq(Together)
            /\ Len(old \o more) = Len(old) + Len(more)
            /\ \A i \in 1 .. Len(old) + Len(more) : (old \o more)[i] =
                  IF i <= Len(old) THEN old[i] ELSE more[i - Len(old)]
        BY <3>1, ConcatProperties
      <3>3. DOMAIN old = 1 .. Len(old) /\ DOMAIN more = 1 .. Len(more)
            /\ DOMAIN (old \o more) = 1 .. Len(old) + Len(more) /\ Len(old) \in Nat /\ Len(more) \in Nat
        BY <3>1, <3>2, LenProperties
      <3>4. \A i \in DOMAIN old : i \in DOMAIN (old \o more) /\ (old \o more)[i] = old[i]
        BY <3>2, <3>3
      <3>5. ASSUME NEW i \in DOMAIN more
            PROVE  Len(old) + i \in DOMAIN (old \o more) /\ (old \o more)[Len(old) + i] = more[i]
        <4>1. Len(old) + i \in 1 .. Len(old) + Len(more) /\ ~(Len(old) + i <= Len(old))
              /\ (Len(old) + i) - Len(old) = i
          BY <3>3
        <4> QED
          BY <3>2, <3>3, <4>1
      <3> QED
        BY <3>2, <3>4, <3>5 DEF V
    <2>7. ASSUME NEW i \in 1 .. (n + 1) PROVE Covered(old \o more, order[i])
      <3>1. CASE i = n + 1
        BY <2>5, <2>6, <3>1 DEF Covered
      <3>2. CASE i # n + 1
        <4>1. i \in 1 .. n
          BY <3>2
        <4>2. Covered(old, order[i])
          BY <2>3, <4>1
        <4> QED
          BY <2>6, <4>2 DEF Covered
      <3> QED
        BY <3>1, <3>2
    <2> QED
      BY <2>4, <2>6, <2>7
  <1> HIDE DEF T
  <1>17. \A n \in Nat : n \in T
    BY <1>15, <1>16, AllNumbers
  <1>18. upTo[K] \in V /\ \A i \in 1 .. K : Covered(upTo[K], order[i])
    BY <1>2, <1>17 DEF T
  <1> QED
    BY <1>3, <1>5, <1>18 DEF V

(* A grouping so far: what is joined stays with what is closed, and the      *)
(* first n joins are done.                                                   *)
GroupedBy(g, js, n) ==
    /\ \E h : Ranked(g, Seeds, h)
    /\ \A C \in SUBSET Services : Closed(C, Services, Together) =>
          \A x \in Seeds : Find(g, x) \in C <=> x \in C
    /\ \A i \in 1 .. n : Find(g, js[i][1]) = Find(g, js[i][2])

LEMMA GroupBegins ==
    ASSUME ContainmentAssumption, CodeTyped, NEW js
    PROVE  GroupedBy([s \in Seeds |-> s], js, 0)
  <1> DEFINE g == [s \in Seeds |-> s]
             h == [s \in Seeds |-> 0]
  <1>1. Ranked(g, Seeds, h)
    <2>1. g \in [Seeds -> Seeds] /\ h \in [Seeds -> Nat] /\ \A x \in Seeds : g[x] = x
      OBVIOUS
    <2> HIDE DEF g, h
    <2> QED
      BY <2>1, SeedsAreServices DEF Ranked
  <1>2. \A x \in Seeds : g[x] = x
    OBVIOUS
  <1> HIDE DEF g, h
  <1>3. \A x \in Seeds : Find(g, x) = x
    BY <1>1, <1>2, FindsOn
  <1>4. 1 .. 0 = {}
    OBVIOUS
  <1> QED
    BY <1>1, <1>3, <1>4 DEF GroupedBy, g

LEMMA GroupGoesOn ==
    ASSUME ContainmentAssumption, CodeTyped, NEW js, NEW n \in Nat, NEW g, GroupedBy(g, js, n),
           \A i \in 1 .. (n + 1) : js[i] \in Together
    PROVE  GroupedBy(Joined(g, js[n + 1][1], js[n + 1][2]), js, n + 1)
  <1> DEFINE a == js[n + 1][1]
             b == js[n + 1][2]
             new == Joined(g, a, b)
  <1>0. n + 1 \in 1 .. (n + 1) /\ \A i \in 1 .. (n + 1) : i \in 1 .. n \/ i = n + 1
    OBVIOUS
  <1>1. js[n + 1] \in Together
    BY <1>0
  <1>2. a \in Seeds /\ b \in Seeds /\ a \in Services /\ b \in Services
    BY <1>1, SeedsAreServices DEF Together
  <1>3. <<a, b>> \in Together /\ <<b, a>> \in Together
    BY <1>1 DEF Together
  <1>4. PICK h : Ranked(g, Seeds, h)
    BY DEF GroupedBy
  <1>5. PICK k : /\ Ranked(new, Seeds, k)
                 /\ \A x \in Seeds : Find(new, x) =
                       IF Find(g, x) = Find(g, b) THEN Find(g, a) ELSE Find(g, x)
    <2> HIDE DEF new, a, b
    <2> DEFINE P(m, k) == /\ Ranked(m, Seeds, k)
                          /\ \A x \in Seeds : Find(m, x) =
                                IF Find(g, x) = Find(g, b) THEN Find(g, a) ELSE Find(g, x)
    <2>1. \E k : P(Joined(g, a, b), k)
      BY <1>2, <1>4, JoinedFinds, SMT
    <2>2. new = Joined(g, a, b)
      BY DEF new
    <2> HIDE DEF P
    <2>3. \E k : P(new, k)
      BY <2>1, <2>2
    <2> QED
      BY <2>3 DEF P
  <1> HIDE DEF new, a, b
  <1>6. ASSUME NEW C \in SUBSET Services, Closed(C, Services, Together), NEW x \in Seeds
        PROVE  Find(new, x) \in C <=> x \in C
    <2>1. \A y \in Seeds : Find(g, y) \in C <=> y \in C
      BY <1>6 DEF GroupedBy
    <2>2. a \in C <=> b \in C
      BY <1>2, <1>3, <1>6 DEF Closed
    <2> QED
      BY <1>2, <1>5, <2>1, <2>2
  <1>7. ASSUME NEW i \in 1 .. (n + 1) PROVE Find(new, js[i][1]) = Find(new, js[i][2])
    <2>1. js[i] \in Together
      OBVIOUS
    <2>2. js[i][1] \in Seeds /\ js[i][2] \in Seeds
      BY <2>1, SeedsAreServices
    <2>3. CASE i = n + 1
      <3>1. Find(new, a) = Find(g, a) /\ Find(new, b) = Find(g, a)
        BY <1>2, <1>5
      <3> QED
        BY <2>3, <3>1 DEF a, b
    <2>4. CASE i \in 1 .. n
      <3>1. Find(g, js[i][1]) = Find(g, js[i][2])
        BY <2>4 DEF GroupedBy
      <3> QED
        BY <1>5, <2>2, <3>1
    <2> QED
      BY <1>0, <2>3, <2>4
  <1>8. GroupedBy(new, js, n + 1)
    BY <1>5, <1>6, <1>7 DEF GroupedBy
  <1> QED
    BY <1>8 DEF new, a, b

LEMMA GroupIs ==
    ASSUME ContainmentAssumption, CodeTyped
    PROVE  GroupedBy(Group, Joins, Len(Joins))
  <1> DEFINE js == Joins
             K == Len(js)
             V == [Seeds -> Seeds]
             base == [s \in Seeds |-> s]
             IsUpTo(w) == w = [n \in 0 .. K |-> IF n = 0 THEN base
                                                ELSE Joined(w[n - 1], js[n][1], js[n][2])]
             upTo[n \in 0 .. K] == IF n = 0 THEN base ELSE Joined(upTo[n - 1], js[n][1], js[n][2])
             step == [x \in (1 .. K) \X V |-> Joined(x[2], js[x[1]][1], js[x[1]][2])]
  <1>1. js \in Seq(Together)
    BY JoinsAre
  <1>2. Group = upTo[K]
    BY Zenon DEF Group
  <1>3. upTo = CHOOSE w : IsUpTo(w)
    OBVIOUS
  <1> HIDE DEF upTo, js
  <1>4. K \in Nat /\ \A i \in 1 .. K : js[i] \in Together
    BY <1>1
  <1> HIDE DEF K
  <1>5. \A i \in 1 .. K : js[i][1] \in Seeds /\ js[i][2] \in Seeds
    BY <1>4, SeedsAreServices
  <1>6. ASSUME NEW g \in V, NEW i \in 1 .. K PROVE Joined(g, js[i][1], js[i][2]) \in V
    <2>1. \A x \in Seeds : Find(g, x) \in Seeds
      <3> TAKE x \in Seeds
      <3> DEFINE N == Cardinality(Services)
      <3>1. N \in Nat
        BY FS_CardinalityType DEF ContainmentAssumption
      <3>2. PICK f \in [0 .. N -> Seeds] : Find(g, x) = f[N]
        BY SeedsAreServices, FindFollows
      <3> HIDE DEF N
      <3>3. N \in 0 .. N
        BY <3>1
      <3> QED
        BY <3>2, <3>3
    <2>2. Find(g, js[i][1]) \in Seeds /\ Find(g, js[i][2]) \in Seeds
      BY <1>5, <2>1
    <2> QED
      BY <2>2 DEF Joined
  <1>7. step \in [(1 .. K) \X V -> V]
    <2> SUFFICES ASSUME NEW x \in (1 .. K) \X V
                 PROVE  Joined(x[2], js[x[1]][1], js[x[1]][2]) \in V
      BY Zenon
    <2>1. x[1] \in 1 .. K /\ x[2] \in V
      OBVIOUS
    <2> HIDE DEF V
    <2> QED
      BY <1>6, <2>1
  <1>8. \A n \in 1 .. K, g \in V : step[<<n, g>>] = Joined(g, js[n][1], js[n][2])
    <2> HIDE DEF V
    <2> QED
      OBVIOUS
  <1>9. base \in V
    OBVIOUS
  <1> HIDE DEF step, V, base
  <1>10. PICK w \in [0 .. K -> V] : Recurs(w, base, step, K)
    BY <1>4, <1>7, <1>9, RecursionWorks
  <1>11. \A n \in 0 .. K : n # 0 => n \in 1 .. K /\ n - 1 \in 0 .. K
    BY <1>4
  <1>12. ASSUME NEW n \in 0 .. K
         PROVE  w[n] = IF n = 0 THEN base ELSE Joined(w[n - 1], js[n][1], js[n][2])
    <2>1. w[n] = IF n = 0 THEN base ELSE step[<<n, w[n - 1]>>]
      BY <1>10 DEF Recurs
    <2> QED
      BY <1>8, <1>10, <1>11, <2>1
  <1>13. IsUpTo(w)
    BY <1>10, <1>12
  <1> HIDE DEF IsUpTo
  <1>14. IsUpTo(upTo)
    BY <1>3, <1>13
  <1> USE DEF IsUpTo
  <1> DEFINE T == {n \in Nat : n <= K => GroupedBy(upTo[n], js, n)}
  <1>15. 0 \in T
    <2>1. 0 \in 0 .. K
      BY <1>4
    <2>2. upTo[0] = base
      BY <1>14, <2>1
    <2> QED
      BY <2>2, GroupBegins DEF base
  <1>16. ASSUME NEW n \in Nat, n \in T PROVE n + 1 \in T
    <2>1. SUFFICES ASSUME n + 1 <= K PROVE GroupedBy(upTo[n + 1], js, n + 1)
      OBVIOUS
    <2>2. n + 1 \in 0 .. K /\ n + 1 # 0 /\ (n + 1) - 1 = n /\ n <= K
          /\ \A i \in 1 .. (n + 1) : i \in 1 .. K
      BY <1>4, <2>1
    <2>3. GroupedBy(upTo[n], js, n)
      BY <1>16, <2>2
    <2>4. upTo[n + 1] = Joined(upTo[n], js[n + 1][1], js[n + 1][2])
      BY <1>14, <2>2
    <2> QED
      BY <1>4, <2>2, <2>3, <2>4, GroupGoesOn
  <1> HIDE DEF T
  <1>17. K \in T
    BY <1>4, <1>15, <1>16, AllNumbers
  <1>18. GroupedBy(upTo[K], js, K)
    BY <1>4, <1>17 DEF T
  <1> QED
    BY <1>2, <1>18 DEF K, js

(* One root is one chain of surfaces.                                        *)
LEMMA SurfacesJoin ==
    ASSUME ContainmentAssumption, CodeTyped
    PROVE  CapabilitiesAreWhatSurfacesJoin
  <1> DEFINE g == Group
  <1>1. GroupedBy(g, Joins, Len(Joins))
    BY GroupIs
  <1>2. DOMAIN g = Seeds /\ Seeds \in SUBSET Services
    BY <1>1 DEF GroupedBy, Ranked
  <1> HIDE DEF g
  <1>3. ASSUME NEW s \in Seeds, NEW t \in Seeds PROVE Find(g, s) = Find(g, t) <=> Linked(s, t)
    <2>1. PICK C : Closure(C, s, Services, Together) /\ \A x : Linked(s, x) <=> x \in C
      BY <1>2, LinkedIs
    <2>2. ASSUME Find(g, s) = Find(g, t) PROVE t \in C
      <3>1. s \in C /\ C \in SUBSET Services /\ Closed(C, Services, Together)
        BY <2>1 DEF Closure
      <3>2. \A x \in Seeds : Find(g, x) \in C <=> x \in C
        BY <1>1, <3>1 DEF GroupedBy
      <3> QED
        BY <2>2, <3>1, <3>2
    <2>3. ASSUME t \in C PROVE Find(g, s) = Find(g, t)
      <3> DEFINE D == {x \in Seeds : Find(g, x) = Find(g, s)}
      <3>1. D \in SUBSET Services /\ s \in D
        BY <1>2
      <3>2. ASSUME NEW d \in D, NEW x \in Services, <<x, d>> \in Together PROVE x \in D
        <4>1. PICK f \in DOMAIN backend : x \in backend[f] /\ d \in backend[f]
          BY <3>2 DEF Together
        <4> DEFINE c == Ascending(backend[f])[1]
        <4>2. Covered(Joins, f) /\ Joins \in Seq(Together)
          BY JoinsAre
        <4>3. PICK i \in DOMAIN Joins : Joins[i] = <<c, x>>
          BY <4>1, <4>2 DEF Covered
        <4>4. PICK j \in DOMAIN Joins : Joins[j] = <<c, d>>
          BY <4>1, <4>2 DEF Covered
        <4>5. i \in 1 .. Len(Joins) /\ j \in 1 .. Len(Joins)
          BY <4>2
        <4> HIDE DEF c
        <4>6. Find(g, Joins[i][1]) = Find(g, Joins[i][2]) /\ Find(g, Joins[j][1]) = Find(g, Joins[j][2])
          BY <1>1, <4>5 DEF GroupedBy
        <4>7. Find(g, c) = Find(g, x) /\ Find(g, c) = Find(g, d)
          BY <4>3, <4>4, <4>6
        <4>8. x \in Seeds
          <5>1. <<x, d>>[1] \in Seeds
            BY <3>2, SeedsAreServices
          <5> QED
            BY <5>1
        <4> QED
          BY <3>2, <4>7, <4>8
      <3>3. Closed(D, Services, Together)
        BY <3>2 DEF Closed
      <3>4. C \subseteq D
        BY <2>1, <3>1, <3>3 DEF Closure
      <3> QED
        BY <2>3, <3>4
    <2> QED
      BY <2>1, <2>2, <2>3
  <1>4. \A s, t \in DOMAIN Group : (Find(Group, s) = Find(Group, t)) <=> Linked(s, t)
    BY <1>2, <1>3 DEF g
  <1> QED
    BY <1>4, Zenon DEF CapabilitiesAreWhatSurfacesJoin

LEMMA CodeTypedInit ==
    ASSUME ContainmentAssumption, ContainmentInit
    PROVE  CodeTyped
  <1>1. PICK start \in Starts : backend = start
    BY DEF ContainmentInit
  <1>2. DOMAIN start \subseteq Surfaces /\ \A f \in DOMAIN start : start[f] \subseteq Services
    BY DEF ContainmentAssumption
  <1> QED
    BY <1>1, <1>2 DEF ContainmentInit, CodeTyped

LEMMA CodeTypedStep ==
    ASSUME CodeTyped, [ContainmentNext]_codeVars
    PROVE  CodeTyped'
  <1>1. CASE UNCHANGED codeVars
    BY <1>1 DEF codeVars, CodeTyped
  <1>2. ASSUME NEW s \in Services, NEW f \in DOMAIN backend, FrontOf(f, s) PROVE CodeTyped'
    <2>1. backend' = [backend EXCEPT ![f] = @ \cup {s}] /\ uses' = uses /\ exposed' = exposed
      BY <1>2 DEF FrontOf
    <2>2. DOMAIN backend' = DOMAIN backend
          /\ \A e \in DOMAIN backend : backend'[e] = IF e = f THEN backend[f] \cup {s} ELSE backend[e]
      BY <2>1
    <2> QED
      BY <2>1, <2>2 DEF CodeTyped
  <1>3. ASSUME NEW s \in Services, NEW f \in DOMAIN backend, Uses(f, s) PROVE CodeTyped'
    BY <1>3 DEF Uses, CodeTyped
  <1>4. ASSUME NEW s \in Services, NEW x, DependsOn(s, x) PROVE CodeTyped'
    BY <1>4 DEF DependsOn, CodeTyped
  <1>5. ASSUME NEW s \in Services, NEW w, Runs(w, s) PROVE CodeTyped'
    BY <1>5 DEF Runs, CodeTyped
  <1>6. ASSUME NEW s \in Services, Exposes(s) PROVE CodeTyped'
    BY <1>6 DEF Exposes, CodeTyped
  <1> QED
    BY <1>1, <1>2, <1>3, <1>4, <1>5, <1>6 DEF ContainmentNext

(* The levels are of the code, whatever the code is: every part is drawn     *)
(* once, surfaces that share a service are one capability, and inside a      *)
(* capability is only what is used there (containment.ts).                   *)
THEOREM LevelsAreOfTheCode == ContainmentSpec => []ContainmentHolds
  <1>1. ContainmentInit => CodeTyped
    BY ContainmentAssumption, CodeTypedInit
  <1>2. CodeTyped /\ [ContainmentNext]_codeVars => CodeTyped'
    BY CodeTypedStep
  <1>3. CodeTyped => ContainmentHolds
    BY ContainmentAssumption, DrawnOnce, SurfacesJoin, UsedInside DEF ContainmentHolds
  <1> QED
    BY <1>1, <1>2, <1>3, PTL DEF ContainmentSpec
=============================================================================
