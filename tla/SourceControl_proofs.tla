------------------------ MODULE SourceControl_proofs ------------------------
(* Theorems about SourceControl, for every value of its constants.          *)
EXTENDS SourceControl, TLAPS

USE SourceControlAssumption

-----------------------------------------------------------------------------
(* Type correctness.                                                        *)

LEMMA InitTypeOK == Init => TypeOK
  <1> SUFFICES ASSUME Init PROVE TypeOK
    OBVIOUS
  <1> USE DEF Init
  <1>1. commits \in Seq(Commit) /\ Len(commits) = 1
    BY DEF Commit, Sha, Tree
  <1>2. 0 \in Sha /\ 1 \in Sha
    BY <1>1 DEF Sha
  <1>3. NoRows \in Rows
    BY <1>2 DEF NoRows, NoRow, Rows, Row, Blob
  <1>4. IdleRequest \in Request
    BY <1>2, <1>3 DEF IdleRequest, Request, RequestFields, PCs, StepsOf, Blob, Ops
  <1>5. ref \in [Branches -> Sha] /\ pinned \in [Branches -> Sha]
    BY <1>2
  <1> QED
    BY <1>1, <1>3, <1>4, <1>5 DEF TypeOK

(* What every step starts from.                                             *)
LEMMA Basics ==
    ASSUME TypeOK
    PROVE  /\ 0 \in Sha
           /\ NoRow \in Row /\ NoRows \in Rows
           /\ IdleRequest \in Request
           /\ \A s \in Sha : TreeAt(s) \in Tree
  <1>1. 0 \in Sha
    BY DEF TypeOK, Sha
  <1>2. NoRow \in Row /\ NoRows \in Rows
    BY <1>1 DEF NoRows, NoRow, Rows, Row, Blob
  <1>3. IdleRequest \in Request
    BY <1>1, <1>2 DEF IdleRequest, Request, RequestFields, PCs, StepsOf, Blob, Ops
  <1>4. ASSUME NEW s \in Sha PROVE TreeAt(s) \in Tree
    <2>1. CASE s = 0
      BY <2>1 DEF TreeAt, Tree, Blob
    <2>2. CASE s # 0
      <3>1. s \in 1 .. Len(commits)
        BY <1>4, <2>2 DEF Sha, TypeOK
      <3>2. commits[s] \in Commit
        BY <3>1 DEF TypeOK
      <3> QED
        BY <2>2, <3>2 DEF TreeAt, Commit
    <2> QED
      BY <2>1, <2>2
  <1> QED
    BY <1>1, <1>2, <1>3, <1>4

(* As long as no commit is added the types are the same after the step.     *)
LEMMA SameCommits ==
    ASSUME TypeOK, commits' = commits,
           ref' \in [Branches -> Sha], currentBranch' \in Branches,
           pinned' \in [Branches -> Sha], pending' \in [Branches -> Rows],
           req' \in [Requests -> Request]
    PROVE  TypeOK'
  BY DEF TypeOK, Sha, Commit, Rows, Row, Request, RequestFields

(* A commit more only makes room.                                           *)
LEMMA OneMoreCommit ==
    ASSUME TypeOK, Len(commits) < MaxCommits,
           NEW c, commits' = Append(commits, c),
           c.tree \in Tree, c.history \in SUBSET (0 .. Len(commits) + 1),
           c.branch \in Branches, c.by \in {"civil", "upstream"},
           c.wrote \in SUBSET Paths,
           c = [tree |-> c.tree, history |-> c.history, branch |-> c.branch,
                by |-> c.by, wrote |-> c.wrote]
    PROVE  /\ commits' \in Seq(Commit') /\ Len(commits') <= MaxCommits
           /\ Len(commits') = Len(commits) + 1
           /\ Sha \subseteq Sha' /\ Len(commits') \in Sha'
           /\ Rows \subseteq Rows' /\ Request \subseteq Request'
  <1>1. Len(commits) \in Nat /\ Len(commits') = Len(commits) + 1
    BY DEF TypeOK
  <1>2. Sha \subseteq Sha' /\ Sha' = 0 .. Len(commits) + 1
    BY <1>1 DEF Sha
  <1>3. Commit \subseteq Commit'
    BY <1>2 DEF Commit
  <1>4. c \in Commit'
    BY <1>2 DEF Commit
  <1>5. commits \in Seq(Commit')
    BY <1>3 DEF TypeOK
  <1>6. commits' \in Seq(Commit')
    BY <1>4, <1>5
  <1>7. Row \subseteq Row'
    BY <1>2 DEF Row
  <1>8. Rows \subseteq Rows'
    BY <1>7 DEF Rows
  <1>9. Request \subseteq Request'
    BY <1>2, <1>8 DEF Request, RequestFields
  <1> QED
    BY <1>1, <1>2, <1>6, <1>8, <1>9

(* The ways a request changes.                                              *)
LEMMA DoneTyped ==
    ASSUME TypeOK, NEW r \in Requests, Done(r)
    PROVE  req' \in [Requests -> Request]
  BY Basics DEF TypeOK, Done

LEMMA MovedOn ==
    ASSUME NEW q \in Request, NEW pc \in StepsOf(q.op)
    PROVE  [q EXCEPT !.pc = pc] \in Request
  <1>1. pc \in PCs
    BY DEF PCs, Request, RequestFields
  <1> QED
    BY <1>1 DEF Request, RequestFields

LEMMA GotoTyped ==
    ASSUME TypeOK, NEW r \in Requests, NEW pc \in StepsOf(req[r].op), Goto(r, pc)
    PROVE  req' \in [Requests -> Request]
  BY MovedOn DEF TypeOK, Goto

LEMMA BeginTyped ==
    ASSUME TypeOK, NEW r \in Requests, NEW op \in ClientOps, NEW pc \in StepsOf(op),
           NEW path \in Paths \cup {Nil}, NEW to \in Branches \cup {Nil},
           op \in {"edit", "delete", "discard", "mine"} => path # Nil,
           op \in {"branch", "switch"} => to # Nil,
           Begin(r, op, pc, path, to)
    PROVE  req' \in [Requests -> Request]
  <1> DEFINE new == [IdleRequest EXCEPT !.op = op, !.pc = pc, !.path = path, !.to = to,
                                        !.branch = currentBranch,
                                        !.head = pinned[currentBranch]]
  <1>1. currentBranch \in Branches /\ pinned[currentBranch] \in Sha
    BY DEF TypeOK
  <1>2. op \in Ops /\ pc \in PCs
    BY DEF Ops, PCs
  <1>3. IdleRequest \in Request
    BY Basics
  <1>4. new \in Request
    <2> HIDE DEF IdleRequest
    <2> QED
      BY <1>1, <1>2, <1>3 DEF Request, RequestFields
  <1>5. req' = [req EXCEPT ![r] = new]
    BY DEF Begin
  <1> QED
    BY <1>4, <1>5 DEF TypeOK

(* The ways the pending edits change.                                       *)
LEMMA SavePendingTyped ==
    ASSUME TypeOK, NEW b \in Branches, NEW p \in Paths, NEW text \in Blob,
           NEW e \in BOOLEAN, NEW seen \in SUBSET Blob,
           SavePending(b, p, text, e, seen)
    PROVE  pending' \in [Branches -> Rows]
  BY Basics DEF TypeOK, SavePending, Rows, Row, Blob

LEMMA DeletePendingTyped ==
    ASSUME TypeOK, NEW b \in Branches, NEW p \in Paths, NEW seen \in SUBSET Blob,
           DeletePending(b, p, seen)
    PROVE  pending' \in [Branches -> Rows]
  BY Basics DEF TypeOK, DeletePending, Rows, Row, Blob

LEMMA RebasedTyped ==
    ASSUME TypeOK, NEW row \in Row, NEW sha \in Sha, NEW seen \in SUBSET Blob
    PROVE  Rebased(row, sha, seen) \in Row
  BY Basics DEF Row, Rebased

LEMMA SetHeadShaTyped ==
    ASSUME TypeOK, NEW sha \in Sha, SetHeadSha(sha)
    PROVE  pinned' \in [Branches -> Sha]
  BY DEF TypeOK, SetHeadSha
-----------------------------------------------------------------------------

(* Where a handler waits tells what it is doing.                            *)
LEMMA AtStep ==
    ASSUME NEW q \in Request
    PROVE  /\ q.pc = "idle" => q.op = "none"
           /\ q.pc \in {"editing", "save"} => q.op = "edit"
           /\ q.pc = "delete" => q.op = "delete"
           /\ q.pc = "revert" => q.op = "discard"
           /\ q.pc = "rebaseMine" => q.op = "mine"
           /\ q.pc \in {"resolve", "pin"} => q.op \in {"open", "edit", "sync", "commit"}
           /\ q.pc \in {"list", "notEmpty", "readRef", "moveRef", "clear", "pinNew",
                        "rebaseSpared"} => q.op = "commit"
           /\ q.pc \in {"createRef", "movePending"} => q.op = "branch"
           /\ q.pc \in {"known", "resolveTo"} => q.op = "switch"
           /\ q.pc = "switch" => q.op \in {"branch", "switch"}
  BY DEF Request, RequestFields, Ops, ClientOps, StepsOf

(* A client starts something.                                               *)
LEMMA ClientTypeOK ==
    ASSUME TypeOK, NEW r \in Requests, Client(r)
    PROVE  TypeOK'
  <1>a. /\ ref \in [Branches -> Sha] /\ currentBranch \in Branches
        /\ pinned \in [Branches -> Sha] /\ pending \in [Branches -> Rows]
        /\ req[r] \in Request
    BY DEF TypeOK
  <1>1. CASE BeginOpen(r)
    BY <1>1, <1>a, BeginTyped, SameCommits DEF BeginOpen, ClientOps, StepsOf
  <1>2. ASSUME NEW p \in Paths, OpenInEditor(r, p) PROVE TypeOK'
    <2> DEFINE b == currentBranch
               seen == IF pending[b][p].kind # "none" THEN pending[b][p].seen
                                                      ELSE {TreeAt(pinned[b])[p]}
               new == [IdleRequest EXCEPT !.op = "edit", !.pc = "editing",
                                          !.path = p, !.seen = seen]
    <2>1. pending[b][p] \in Row /\ TreeAt(pinned[b]) \in Tree
      BY <1>a, Basics DEF Rows
    <2>2. seen \in SUBSET Blob
      BY <2>1, <1>2 DEF Row, Tree
    <2>3. new \in Request
      <3> HIDE DEF IdleRequest, seen
      <3>1. "editing" \in StepsOf("edit") /\ "edit" \in Ops
        BY DEF StepsOf, Ops, ClientOps
      <3>2. "editing" \in PCs
        BY <3>1 DEF PCs
      <3> QED
        BY <2>2, <3>1, <3>2, Basics DEF Request, RequestFields
    <2>4. req' = [req EXCEPT ![r] = new]
      BY <1>2 DEF OpenInEditor
    <2>5. req' \in [Requests -> Request]
      BY <2>3, <2>4 DEF TypeOK
    <2> QED
      BY <2>5, <1>a, <1>2, SameCommits DEF OpenInEditor
  <1>3. ASSUME NEW p \in Paths, BeginDelete(r, p) PROVE TypeOK'
    BY <1>3, <1>a, BeginTyped, SameCommits DEF BeginDelete, ClientOps, StepsOf
  <1>4. ASSUME NEW p \in Paths, BeginDiscard(r, p) PROVE TypeOK'
    BY <1>4, <1>a, BeginTyped, SameCommits DEF BeginDiscard, ClientOps, StepsOf
  <1>5. ASSUME NEW p \in Paths, BeginMine(r, p) PROVE TypeOK'
    BY <1>5, <1>a, BeginTyped, SameCommits DEF BeginMine, ClientOps, StepsOf
  <1>6. ASSUME NEW text \in Texts, BeginSave(r, text) PROVE TypeOK'
    <2> DEFINE b == currentBranch
               pc == OpenThen(pinned[b], "save")
               new == [req[r] EXCEPT !.pc = pc, !.text = text, !.branch = b,
                                     !.head = pinned[b], !.source = pinned[b]]
    <2>1. req[r].op = "edit" /\ pc \in StepsOf("edit")
      BY <1>6, <1>a DEF BeginSave, Request, RequestFields, Ops, ClientOps, OpenThen, StepsOf
    <2>2. pinned[b] \in Sha /\ text \in Blob
      BY <1>a DEF Blob
    <2>3. new \in Request
      <3> HIDE DEF pc
      <3> QED
        <4>1. pc \in PCs
          BY <2>1 DEF PCs, Ops, ClientOps
        <4> QED
          BY <1>a, <2>1, <2>2, <4>1 DEF Request, RequestFields
    <2>4. req' = [req EXCEPT ![r] = new]
      BY <1>6 DEF BeginSave
    <2>5. req' \in [Requests -> Request]
      BY <2>3, <2>4 DEF TypeOK
    <2> QED
      BY <2>5, <1>a, <1>6, SameCommits DEF BeginSave
  <1>7. CASE BeginSync(r)
    BY <1>7, <1>a, BeginTyped, SameCommits DEF BeginSync, ClientOps, StepsOf
  <1>8. CASE BeginCommit(r)
    BY <1>8, <1>a, BeginTyped, SameCommits DEF BeginCommit, ClientOps, StepsOf
  <1>9. ASSUME NEW name \in Branches, BeginCreateBranch(r, name) PROVE TypeOK'
    BY <1>9, <1>a, BeginTyped, SameCommits DEF BeginCreateBranch, ClientOps, StepsOf
  <1>10. ASSUME NEW name \in Branches, BeginSwitch(r, name) PROVE TypeOK'
    BY <1>10, <1>a, BeginTyped, SameCommits DEF BeginSwitch, ClientOps, StepsOf
  <1> QED
    BY <1>1, <1>2, <1>3, <1>4, <1>5, <1>6, <1>7, <1>8, <1>9, <1>10 DEF Client

(* A handler takes a step that adds no commit.                              *)
LEMMA HandlerTypeOK ==
    ASSUME TypeOK, NEW r \in Requests, Handler(r), ~MoveRef(r)
    PROVE  TypeOK'
  <1> DEFINE q == req[r]
  <1>a. /\ ref \in [Branches -> Sha] /\ currentBranch \in Branches
        /\ pinned \in [Branches -> Sha] /\ pending \in [Branches -> Rows]
        /\ req \in [Requests -> Request] /\ q \in Request
    BY DEF TypeOK
  <1>b. /\ q.branch \in Branches /\ q.head \in Sha /\ q.source \in Sha
        /\ q.text \in Blob /\ q.seen \in SUBSET Blob /\ q.rows \in Rows
        /\ q.op \in {"edit", "delete", "discard", "mine"} => q.path \in Paths
        /\ q.op \in {"branch", "switch"} => q.to \in Branches
    BY <1>a DEF Request, RequestFields
  <1> HIDE DEF q
  <1> USE <1>a, <1>b
  <1>1. CASE Save(r)
    <2>1. q.op = "edit"
      BY <1>1, AtStep DEF Save, q
    <2> DEFINE e == TreeAt(q.source)[q.path] # Nil
    <2>2. SavePending(q.branch, q.path, q.text, e, q.seen)
      BY <1>1 DEF Save, q
    <2>3. pending' \in [Branches -> Rows]
      BY <2>1, <2>2, SavePendingTyped
    <2> QED
      BY <1>1, <2>3, DoneTyped, SameCommits DEF Save
  <1>2. CASE Delete(r)
    <2>1. q.op = "delete"
      BY <1>2, AtStep DEF Delete, q
    <2>2. {TreeAt(q.head)[q.path]} \in SUBSET Blob
      BY <2>1, Basics DEF Tree
    <2>3. DeletePending(q.branch, q.path, {TreeAt(q.head)[q.path]})
      BY <1>2 DEF Delete, q
    <2>4. pending' \in [Branches -> Rows]
      BY <2>1, <2>2, <2>3, DeletePendingTyped
    <2> QED
      BY <1>2, <2>4, DoneTyped, SameCommits DEF Delete
  <1>3. CASE Discard(r)
    <2>1. pending' \in [Branches -> Rows]
      BY <1>3, Basics DEF Discard, RevertPending, Rows
    <2> QED
      BY <1>3, <2>1, DoneTyped, SameCommits DEF Discard
  <1>4. CASE RebaseMine(r)
    <2>1. q.op = "mine"
      BY <1>4, AtStep DEF RebaseMine, q
    <2>2. {TreeAt(q.head)[q.path]} \in SUBSET Blob
      BY <2>1, Basics DEF Tree
    <2>3. pending[q.branch][q.path] \in Row
      BY <2>1 DEF Rows
    <2>4. Rebased(pending[q.branch][q.path], q.head, {TreeAt(q.head)[q.path]}) \in Row
      BY <2>2, <2>3, RebasedTyped
    <2>5. pending' \in [Branches -> Rows]
      BY <1>4, <2>4 DEF RebaseMine, Rows, q
    <2> QED
      BY <1>4, <2>5, DoneTyped, SameCommits DEF RebaseMine
  <1>5. CASE ResolveHead(r)
    <2> DEFINE new == [q EXCEPT !.pc = "pin", !.source = ref[q.branch]]
    <2>1. "pin" \in StepsOf(q.op)
      BY <1>5, AtStep DEF ResolveHead, StepsOf, q
    <2>2. [q EXCEPT !.pc = "pin"] \in Request
      BY <2>1, MovedOn
    <2>3. new \in Request
      BY <2>2 DEF Request, RequestFields
    <2>4. Done(r) \/ req' = [req EXCEPT ![r] = new]
      BY <1>5 DEF ResolveHead, q
    <2>5. req' \in [Requests -> Request]
      BY <2>3, <2>4, DoneTyped
    <2> QED
      BY <1>5, <2>5, SameCommits DEF ResolveHead
  <1>6. CASE PinHead(r)
    <2>1. \/ q.op = "edit" /\ Goto(r, "save")
          \/ q.op = "commit" /\ Goto(r, "notEmpty")
          \/ Done(r)
      BY <1>6 DEF PinHead, q
    <2>2. "save" \in StepsOf("edit") /\ "notEmpty" \in StepsOf("commit")
      BY DEF StepsOf
    <2>3. req' \in [Requests -> Request]
      BY <2>1, <2>2, GotoTyped, DoneTyped DEF q
    <2>4. pinned' \in [Branches -> Sha]
      BY <1>6, SetHeadShaTyped DEF PinHead, q
    <2> QED
      BY <1>6, <2>3, <2>4, SameCommits DEF PinHead
  <1>7. CASE ListForCommit(r)
    <2> DEFINE rows == pending[q.branch]
               pc == OpenThen(q.head, "notEmpty")
               new == [q EXCEPT !.rows = rows, !.pc = pc]
    <2>1. pc \in StepsOf(q.op)
      BY <1>7, AtStep DEF ListForCommit, OpenThen, StepsOf, q
    <2> HIDE DEF pc
    <2>2. [q EXCEPT !.pc = pc] \in Request
      BY <2>1, MovedOn
    <2>3. new \in Request
      BY <2>2 DEF Request, RequestFields
    <2>4. Done(r) \/ req' = [req EXCEPT ![r] = new]
      BY <1>7 DEF ListForCommit, q, pc
    <2>5. req' \in [Requests -> Request]
      BY <2>3, <2>4, DoneTyped
    <2> QED
      BY <1>7, <2>5, SameCommits DEF ListForCommit
  <1>8. CASE NotEmpty(r)
    <2>1. "readRef" \in StepsOf(q.op)
      BY <1>8, AtStep DEF NotEmpty, StepsOf, q
    <2>2. req' \in [Requests -> Request]
      BY <1>8, <2>1, GotoTyped, DoneTyped DEF NotEmpty, q
    <2> QED
      BY <1>8, <2>2, SameCommits DEF NotEmpty
  <1>9. CASE ReadRef(r)
    <2> DEFINE new == [q EXCEPT !.pc = "moveRef", !.tip = ref[q.branch]]
    <2>1. "moveRef" \in StepsOf(q.op)
      BY <1>9, AtStep DEF ReadRef, StepsOf, q
    <2>2. [q EXCEPT !.pc = "moveRef"] \in Request
      BY <2>1, MovedOn
    <2>3. new \in Request
      BY <2>2 DEF Request, RequestFields
    <2>4. Done(r) \/ req' = [req EXCEPT ![r] = new]
      BY <1>9 DEF ReadRef, q
    <2>5. req' \in [Requests -> Request]
      BY <2>3, <2>4, DoneTyped
    <2> QED
      BY <1>9, <2>5, SameCommits DEF ReadRef
  <1>10. CASE Clear(r)
    <2>1. pending' \in [Branches -> Rows]
      BY <1>10, Basics DEF Clear, ClearCommitted, Rows, q
    <2>2. "pinNew" \in StepsOf(q.op)
      BY <1>10, AtStep DEF Clear, StepsOf, q
    <2>3. req' \in [Requests -> Request]
      BY <1>10, <2>2, GotoTyped DEF Clear, q
    <2> QED
      BY <1>10, <2>1, <2>3, SameCommits DEF Clear
  <1>11. CASE PinNew(r)
    <2>1. "rebaseSpared" \in StepsOf(q.op)
      BY <1>11, AtStep DEF PinNew, StepsOf, q
    <2>2. req' \in [Requests -> Request]
      BY <1>11, <2>1, GotoTyped DEF PinNew, q
    <2>3. pinned' \in [Branches -> Sha]
      BY <1>11, SetHeadShaTyped DEF PinNew, q
    <2> QED
      BY <1>11, <2>2, <2>3, SameCommits DEF PinNew
  <1>12. CASE RebaseSpared(r)
    <2> DEFINE seen(p) == IF q.rows[p].kind # "none" THEN {q.rows[p].text} ELSE {}
               rows == [p \in Paths |-> Rebased(pending[q.branch][p], q.source, seen(p))]
    <2>1. ASSUME NEW p \in Paths PROVE rows[p] \in Row
      <3>1. q.rows[p] \in Row /\ pending[q.branch][p] \in Row
        BY DEF Rows
      <3>2. seen(p) \in SUBSET Blob
        BY <3>1 DEF Row
      <3> HIDE DEF seen
      <3> QED
        BY <3>1, <3>2, RebasedTyped
    <2>2. rows \in Rows
      BY <2>1 DEF Rows
    <2>3. pending' = [pending EXCEPT ![q.branch] = rows]
      BY <1>12 DEF RebaseSpared, q
    <2> HIDE DEF rows
    <2>4. pending' \in [Branches -> Rows]
      BY <2>2, <2>3
    <2> QED
      BY <1>12, <2>4, DoneTyped, SameCommits DEF RebaseSpared
  <1>13. CASE CreateRef(r)
    <2>1. q.op = "branch"
      BY <1>13, AtStep DEF CreateRef, q
    <2>2. ASSUME NEW pc \in {"movePending", "switch"},
                 req' = [req EXCEPT ![r].pc = pc, ![r].source = q.head]
          PROVE  req' \in [Requests -> Request]
      <3>1. pc \in StepsOf(q.op)
        BY <2>1 DEF StepsOf
      <3>2. [q EXCEPT !.pc = pc] \in Request
        BY <3>1, MovedOn
      <3> DEFINE new == [q EXCEPT !.pc = pc, !.source = q.head]
      <3>3. new \in Request
        BY <3>2 DEF Request, RequestFields
      <3>4. req' = [req EXCEPT ![r] = new]
        BY <2>2 DEF q
      <3> QED
        BY <3>3, <3>4
    <2>3. req' \in [Requests -> Request]
      BY <1>13, <2>2, DoneTyped DEF CreateRef, q
    <2>4. ref' \in [Branches -> Sha]
      BY <1>13 DEF CreateRef, q
    <2> QED
      BY <1>13, <2>3, <2>4, SameCommits DEF CreateRef
  <1>14. CASE MovePending(r)
    <2>1. pending' \in [Branches -> Rows]
      BY <1>14, Basics DEF MovePending, MoveAll, q
    <2>2. "switch" \in StepsOf(q.op)
      BY <1>14, AtStep DEF MovePending, StepsOf, q
    <2>3. req' \in [Requests -> Request]
      BY <1>14, <2>2, GotoTyped DEF MovePending, q
    <2> QED
      BY <1>14, <2>1, <2>3, SameCommits DEF MovePending
  <1>15. CASE KnownHead(r)
    <2> DEFINE pc == IF pinned[q.to] = 0 THEN "resolveTo" ELSE "switch"
    <2>1. pc \in StepsOf(q.op)
      BY <1>15, AtStep DEF KnownHead, StepsOf, q
    <2>2. Goto(r, pc)
      BY <1>15 DEF KnownHead, q
    <2> HIDE DEF pc
    <2>3. req' \in [Requests -> Request]
      BY <2>1, <2>2, GotoTyped DEF q
    <2> QED
      BY <1>15, <2>3, SameCommits DEF KnownHead
  <1>16. CASE ResolveTo(r)
    <2> DEFINE new == [q EXCEPT !.pc = "switch", !.source = ref[q.to]]
    <2>1. "switch" \in StepsOf(q.op) /\ q.to \in Branches
      BY <1>16, AtStep DEF ResolveTo, StepsOf, q
    <2>2. [q EXCEPT !.pc = "switch"] \in Request
      BY <2>1, MovedOn
    <2>3. new \in Request
      BY <2>1, <2>2 DEF Request, RequestFields
    <2>4. Done(r) \/ req' = [req EXCEPT ![r] = new]
      BY <1>16 DEF ResolveTo, q
    <2>5. req' \in [Requests -> Request]
      BY <2>3, <2>4, DoneTyped
    <2> QED
      BY <1>16, <2>5, SameCommits DEF ResolveTo
  <1>17. CASE SwitchBranch(r)
    <2>1. q.to \in Branches
      BY <1>17, AtStep DEF SwitchBranch, q
    <2>2. pinned' \in [Branches -> Sha] /\ currentBranch' \in Branches
      BY <1>17, <2>1 DEF SwitchBranch, q
    <2> QED
      BY <1>17, <2>2, DoneTyped, SameCommits DEF SwitchBranch
  <1> QED
    BY <1>1, <1>2, <1>3, <1>4, <1>5, <1>6, <1>7, <1>8, <1>9, <1>10, <1>11, <1>12,
       <1>13, <1>14, <1>15, <1>16, <1>17 DEF Handler

(* The commit a handler builds is one, once GitHub has it.                  *)
LEMMA NewCommitTyped ==
    ASSUME TypeOK, NEW r \in Requests
    PROVE  /\ NewCommit(r).tree \in Tree
           /\ NewCommit(r).history \in SUBSET (0 .. Len(commits) + 1)
           /\ NewCommit(r).branch \in Branches
           /\ NewCommit(r).wrote \in SUBSET Paths
  <1> DEFINE q == req[r]
  <1>1. q.rows \in Rows /\ q.tip \in Sha /\ q.branch \in Branches
    BY DEF TypeOK, Request, RequestFields
  <1>2. TreeAt(q.tip) \in Tree
    BY <1>1, Basics
  <1>3. NewTree(q.rows, q.tip) \in Tree
    BY <1>1, <1>2 DEF NewTree, Tree, Rows, Row
  <1>4. Len(commits) \in Nat
    BY DEF TypeOK
  <1>5. q.tip # 0 => commits[q.tip].history \in SUBSET (0 .. Len(commits))
    <2> SUFFICES ASSUME q.tip # 0 PROVE commits[q.tip].history \in SUBSET (0 .. Len(commits))
      OBVIOUS
    <2>1. q.tip \in 1 .. Len(commits)
      BY <1>1, <1>4 DEF Sha
    <2>2. commits[q.tip] \in Commit
      BY <2>1 DEF TypeOK
    <2> QED
      BY <2>2 DEF Commit, Sha
  <1> QED
    BY <1>1, <1>3, <1>4, <1>5 DEF NewCommit, Changed

LEMMA MoveRefTypeOK ==
    ASSUME TypeOK, NEW r \in Requests, MoveRef(r)
    PROVE  TypeOK'
  <1> DEFINE q == req[r]
             n == Len(commits) + 1
             new == [q EXCEPT !.pc = "clear", !.source = n]
  <1>a. /\ ref \in [Branches -> Sha] /\ currentBranch \in Branches
        /\ pinned \in [Branches -> Sha] /\ pending \in [Branches -> Rows]
        /\ req \in [Requests -> Request] /\ q \in Request
    BY DEF TypeOK
  <1>1. CASE UNCHANGED commits
    <2>1. n # Len(commits) /\ Len(Append(commits, NewCommit(r))) = n
      BY DEF TypeOK
    <2>2. Done(r) /\ ref' = ref
      BY <1>1, <2>1 DEF MoveRef
    <2> QED
      BY <1>1, <1>a, <2>2, DoneTyped, SameCommits DEF MoveRef
  <1>2. CASE commits' = Append(commits, NewCommit(r)) /\ Len(commits) < MaxCommits
             /\ ref' = [ref EXCEPT ![q.branch] = n] /\ req' = [req EXCEPT ![r] = new]
    <2>1. NewCommit(r).by = "civil"
      BY DEF NewCommit
    <2>2. NewCommit(r) = [tree |-> NewCommit(r).tree, history |-> NewCommit(r).history,
                          branch |-> NewCommit(r).branch, by |-> NewCommit(r).by,
                          wrote |-> NewCommit(r).wrote]
      BY DEF NewCommit
    <2> HIDE DEF q
    <2>3. /\ commits' \in Seq(Commit') /\ Len(commits') <= MaxCommits
          /\ Len(commits') = n /\ Sha \subseteq Sha' /\ n \in Sha'
          /\ Rows \subseteq Rows' /\ Request \subseteq Request'
      BY <1>2, <2>1, <2>2, NewCommitTyped, OneMoreCommit
    <2>4. "clear" \in StepsOf(q.op)
      BY <1>a, AtStep DEF MoveRef, StepsOf, q
    <2>5. [q EXCEPT !.pc = "clear"] \in Request'
      BY <1>a, <2>3, <2>4, MovedOn
    <2>6. new \in Request'
      BY <2>3, <2>5 DEF Request, RequestFields
    <2>7. req' \in [Requests -> Request']
      BY <1>2, <1>a, <2>3, <2>6
    <2>8. ref' \in [Branches -> Sha'] /\ pinned \in [Branches -> Sha']
      BY <1>2, <1>a, <2>3
    <2>9. pending \in [Branches -> Rows']
      BY <1>a, <2>3
    <2> QED
      BY <1>a, <2>3, <2>7, <2>8, <2>9 DEF MoveRef, TypeOK
  <1> QED
    BY <1>1, <1>2 DEF MoveRef

LEMMA PushTypeOK ==
    ASSUME TypeOK, NEW b \in Branches, NEW p \in Paths, NEW blob \in Blob,
           Push(b, p, blob)
    PROVE  TypeOK'
  <1> DEFINE n == Len(commits) + 1
             c == [tree    |-> [TreeAt(ref[b]) EXCEPT ![p] = blob],
                   history |-> commits[ref[b]].history \cup {n},
                   branch  |-> b, by |-> "upstream", wrote |-> {p}]
  <1>a. /\ ref \in [Branches -> Sha] /\ currentBranch \in Branches
        /\ pinned \in [Branches -> Sha] /\ pending \in [Branches -> Rows]
        /\ req \in [Requests -> Request] /\ Len(commits) \in Nat
    BY DEF TypeOK
  <1>1. commits' = Append(commits, c) /\ Len(commits) < MaxCommits
        /\ ref' = [ref EXCEPT ![b] = n]
    BY DEF Push
  <1>2. ref[b] \in 1 .. Len(commits)
    BY <1>a DEF Push, Sha
  <1>3. commits[ref[b]] \in Commit
    BY <1>2 DEF TypeOK
  <1>4. c.tree \in Tree
    BY <1>a, Basics DEF Tree
  <1>5. c.history \in SUBSET (0 .. n)
    BY <1>a, <1>3 DEF Commit, Sha
  <1>6. c.branch \in Branches /\ c.by = "upstream" /\ c.wrote \in SUBSET Paths
    OBVIOUS
  <1>7. c = [tree |-> c.tree, history |-> c.history, branch |-> c.branch,
             by |-> c.by, wrote |-> c.wrote]
    OBVIOUS
  <1> HIDE DEF c
  <1>8. /\ commits' \in Seq(Commit') /\ Len(commits') <= MaxCommits
        /\ Len(commits') = n /\ Sha \subseteq Sha' /\ n \in Sha'
        /\ Rows \subseteq Rows' /\ Request \subseteq Request'
    BY <1>1, <1>4, <1>5, <1>6, <1>7, OneMoreCommit
  <1>9. ref' \in [Branches -> Sha'] /\ pinned \in [Branches -> Sha']
        /\ pending \in [Branches -> Rows'] /\ req \in [Requests -> Request']
    BY <1>1, <1>a, <1>8
  <1> QED
    BY <1>a, <1>8, <1>9 DEF Push, TypeOK

LEMMA NextTypeOK == TypeOK /\ [Next]_vars => TypeOK'
  <1> SUFFICES ASSUME TypeOK, [Next]_vars PROVE TypeOK'
    OBVIOUS
  <1>1. CASE UNCHANGED vars
    BY <1>1 DEF TypeOK, vars, Sha, Commit, Rows, Row, Request, RequestFields
  <1>2. ASSUME NEW r \in Requests, Client(r) PROVE TypeOK'
    BY <1>2, ClientTypeOK
  <1>3. ASSUME NEW r \in Requests, Handler(r) PROVE TypeOK'
    BY <1>3, HandlerTypeOK, MoveRefTypeOK
  <1>4. ASSUME NEW r \in Requests, Abandon(r) PROVE TypeOK'
    BY <1>4, DoneTyped, SameCommits DEF Abandon, TypeOK
  <1>5. ASSUME NEW b \in Branches, DeleteBranch(b) PROVE TypeOK'
    BY <1>5, Basics, SameCommits DEF DeleteBranch, TypeOK
  <1>6. CASE Outside
    BY <1>5, <1>6, PushTypeOK DEF Outside
  <1> QED
    BY <1>1, <1>2, <1>3, <1>4, <1>6 DEF Next

(* Every variable keeps its type, and no request, row, pin or ref ever      *)
(* names a commit GitHub does not have.                                     *)
THEOREM TypeCorrect == Spec => []TypeOK
  BY InitTypeOK, NextTypeOK, PTL DEF Spec

-----------------------------------------------------------------------------
(* No edit is lost.  The inductive invariant is TypeOK with                 *)
(* OnGitHubBeforeCleared: of all the steps only Clear takes rows away that  *)
(* the author did not discard or carry along, and there the invariant says  *)
(* that GitHub has what they hold.                                          *)

(* GitHub only ever gains commits.                                          *)
LEMMA CommitsStay ==
    ASSUME TypeOK, [Next]_vars, NEW c \in 1 .. Len(commits)
    PROVE  commits'[c] = commits[c]
  <1>1. \/ commits' = commits
        \/ \E x : commits' = Append(commits, x)
    <2>1. ASSUME NEW r \in Requests, Client(r) PROVE commits' = commits
      BY <2>1 DEF Client, BeginOpen, OpenInEditor, BeginDelete, BeginDiscard,
         BeginMine, BeginSave, BeginSync, BeginCommit, BeginCreateBranch, BeginSwitch
    <2>2. ASSUME NEW r \in Requests, Handler(r)
          PROVE  commits' = commits \/ commits' = Append(commits, NewCommit(r))
      BY <2>2 DEF Handler, Save, Delete, Discard, RebaseMine, ResolveHead, PinHead,
         ListForCommit, NotEmpty, ReadRef, MoveRef, Clear, PinNew, RebaseSpared,
         CreateRef, MovePending, KnownHead, ResolveTo, SwitchBranch
    <2> QED
      BY <2>1, <2>2 DEF Next, vars, Abandon, Outside, Push, DeleteBranch
  <1> QED
    BY <1>1 DEF TypeOK

(* Only its own steps move a request, and of those only three lead to where *)
(* a commit is under way at GitHub or has just landed.                      *)
LEMMA HowToGetThere ==
    ASSUME TypeOK, [Next]_vars, NEW r \in Requests, req'[r] # req[r]
    PROVE  /\ req'[r].pc = "readRef" => NotEmpty(r)
           /\ req'[r].pc = "moveRef" => ReadRef(r)
           /\ req'[r].pc = "clear"   => MoveRef(r)
  <1> DEFINE there == {"readRef", "moveRef", "clear"}
  <1> SUFFICES ASSUME req'[r].pc \in there
               PROVE  /\ req'[r].pc = "readRef" => NotEmpty(r)
                      /\ req'[r].pc = "moveRef" => ReadRef(r)
                      /\ req'[r].pc = "clear"   => MoveRef(r)
    OBVIOUS
  <1>1. PICK s \in Requests : Client(s) \/ Handler(s) \/ Abandon(s)
    BY DEF Next, vars, Outside, Push, DeleteBranch
  <1>2. req \in [Requests -> Request] /\ IdleRequest.pc = "idle"
    BY DEF TypeOK, IdleRequest
  <1> HIDE DEF IdleRequest
  <1>3. ~Client(s)
    <2>1. ASSUME NEW op, NEW pc, NEW path, NEW to, pc \notin there,
                 Begin(s, op, pc, path, to)
          PROVE  FALSE
      <3>1. \A t \in Requests \ {s} : req'[t] = req[t]
        BY <1>2, <2>1 DEF Begin
      <3>2. req'[s].pc = pc
        BY <1>2, <2>1 DEF Begin, IdleRequest
      <3> QED
        BY <2>1, <3>1, <3>2
    <2>2. ASSUME NEW p \in Paths, OpenInEditor(s, p) PROVE FALSE
      BY <1>2, <2>2 DEF OpenInEditor, IdleRequest
    <2>3. ASSUME NEW text \in Texts, BeginSave(s, text) PROVE FALSE
      BY <1>2, <2>3 DEF BeginSave, OpenThen
    <2> QED
      BY <2>1, <2>2, <2>3 DEF Client, BeginOpen, BeginDelete, BeginDiscard, BeginMine,
         BeginSync, BeginCommit, BeginCreateBranch, BeginSwitch
  <1>4. ASSUME Done(s) PROVE FALSE
    BY <1>2, <1>4 DEF Done
  <1>5. ASSUME NEW pc, pc \notin there, Goto(s, pc) PROVE FALSE
    BY <1>2, <1>5 DEF Goto
  <1>6. ASSUME Handler(s), ~NotEmpty(s), ~ReadRef(s), ~MoveRef(s) PROVE FALSE
    <2>1. ASSUME NEW pc, pc \notin there, NEW f,
                 req' = [req EXCEPT ![s].pc = pc, ![s].source = f]
          PROVE  FALSE
      BY <1>2, <2>1 DEF Request, RequestFields
    <2>2. ~ListForCommit(s)
      <3> SUFFICES ASSUME ListForCommit(s) PROVE FALSE
        OBVIOUS
      <3> DEFINE pc == OpenThen(req[s].head, "notEmpty")
      <3>1. pc \notin there
        BY DEF OpenThen
      <3>2. req' = [req EXCEPT ![s].rows = pending[req[s].branch], ![s].pc = pc]
        BY <1>4 DEF ListForCommit
      <3> HIDE DEF pc
      <3> QED
        BY <1>2, <3>1, <3>2 DEF Request, RequestFields
    <2>3. ~ResolveHead(s) /\ ~ResolveTo(s) /\ ~CreateRef(s)
      BY <1>4, <2>1 DEF ResolveHead, ResolveTo, CreateRef
    <2>4. ~PinHead(s) /\ ~KnownHead(s) /\ ~Clear(s) /\ ~PinNew(s) /\ ~MovePending(s)
      BY <1>4, <1>5 DEF PinHead, KnownHead, Clear, PinNew, MovePending
    <2>5. ~Save(s) /\ ~Delete(s) /\ ~Discard(s) /\ ~RebaseMine(s) /\ ~RebaseSpared(s)
          /\ ~SwitchBranch(s)
      BY <1>4 DEF Save, Delete, Discard, RebaseMine, RebaseSpared, SwitchBranch
    <2> QED
      BY <1>6, <2>2, <2>3, <2>4, <2>5 DEF Handler
  <1>7. ASSUME NotEmpty(s)
        PROVE  s = r /\ req'[r].pc = "readRef"
    <2>1. req' = [req EXCEPT ![s].pc = "readRef"]
      BY <1>4, <1>7 DEF NotEmpty, Goto
    <2> QED
      BY <1>2, <2>1 DEF Request, RequestFields
  <1>8. ASSUME ReadRef(s)
        PROVE  s = r /\ req'[r].pc = "moveRef"
    <2>1. req' = [req EXCEPT ![s].pc = "moveRef", ![s].tip = ref[req[s].branch]]
      BY <1>4, <1>8 DEF ReadRef
    <2> QED
      BY <1>2, <2>1 DEF Request, RequestFields
  <1>9. ASSUME MoveRef(s)
        PROVE  s = r /\ req'[r].pc = "clear"
    <2>1. req' = [req EXCEPT ![s].pc = "clear", ![s].source = Len(commits) + 1]
      BY <1>4, <1>9 DEF MoveRef
    <2> QED
      BY <1>2, <2>1 DEF Request, RequestFields
  <1> QED
    BY <1>1, <1>3, <1>4, <1>6, <1>7, <1>8, <1>9 DEF Abandon

LEMMA OnGitHubStays ==
    TypeOK /\ OnGitHubBeforeCleared /\ [Next]_vars => OnGitHubBeforeCleared'
  <1> SUFFICES ASSUME TypeOK, OnGitHubBeforeCleared, [Next]_vars,
                      NEW r \in Requests, req'[r].pc = "clear"
               PROVE  /\ req'[r].source # 0
                      /\ LET c == commits'[req'[r].source]
                         IN /\ c.by = "civil" /\ c.branch = req'[r].branch
                            /\ c.wrote = Changed(req'[r].rows)
                            /\ \A p \in c.wrote : c.tree[p] = req'[r].rows[p].text
    BY DEF OnGitHubBeforeCleared
  <1>a. req \in [Requests -> Request] /\ req[r] \in Request /\ Len(commits) \in Nat
    BY DEF TypeOK
  <1>1. CASE req'[r] = req[r]
    <2>1. req[r].source \in 1 .. Len(commits)
      BY <1>1, <1>a DEF OnGitHubBeforeCleared, Request, RequestFields, Sha
    <2>2. commits'[req[r].source] = commits[req[r].source]
      BY <2>1, CommitsStay
    <2> QED
      BY <1>1, <2>2 DEF OnGitHubBeforeCleared
  <1>2. CASE MoveRef(r)
    <2> DEFINE n == Len(commits) + 1
               new == [req[r] EXCEPT !.pc = "clear", !.source = n]
    <2>1. ~Done(r)
      BY <1>a DEF Done, IdleRequest
    <2>2. commits' = Append(commits, NewCommit(r)) /\ req' = [req EXCEPT ![r] = new]
      BY <1>2, <2>1 DEF MoveRef
    <2>3. /\ req'[r].source = n /\ req'[r].branch = req[r].branch
          /\ req'[r].rows = req[r].rows
      BY <1>a, <2>2 DEF Request, RequestFields
    <2>4. commits'[n] = NewCommit(r)
      BY <1>a, <2>2 DEF TypeOK
    <2>5. \A p \in Changed(req[r].rows) :
             NewTree(req[r].rows, req[r].tip)[p] = req[r].rows[p].text
      BY DEF NewTree, Changed
    <2>6. /\ NewCommit(r).by = "civil" /\ NewCommit(r).branch = req[r].branch
          /\ NewCommit(r).wrote = Changed(req[r].rows)
          /\ NewCommit(r).tree = NewTree(req[r].rows, req[r].tip)
      BY DEF NewCommit
    <2> QED
      BY <1>a, <2>3, <2>4, <2>5, <2>6
  <1> QED
    BY <1>1, <1>2, HowToGetThere

(* What one step may take out of the pending edits.                         *)
LEMMA NothingLostStep ==
    ASSUME TypeOK, OnGitHubBeforeCleared, [Next]_vars,
           NEW b \in Branches, NEW p \in Paths,
           pending[b][p].kind # "none", pending'[b][p].kind = "none"
    PROVE  Discarded(b, p) \/ OnGitHub(b, p, pending[b][p]) \/ Carried(b, p)
  <1>a. pending \in [Branches -> Rows] /\ pending[b] \in Rows
        /\ pending[b][p] \in Row
    BY DEF TypeOK, Rows
  <1>b. pending' # pending
    OBVIOUS
  <1>1. PICK r \in Requests : Handler(r)
    BY <1>b DEF Next, vars, Client, BeginOpen, OpenInEditor, BeginDelete,
       BeginDiscard, BeginMine, BeginSave, BeginSync, BeginCommit,
       BeginCreateBranch, BeginSwitch, Abandon, Outside, Push, DeleteBranch
  <1> DEFINE q == req[r]
  <1>c. q \in Request /\ q.branch \in Branches /\ q.rows \in Rows
    BY DEF TypeOK, Request, RequestFields
  <1>2. CASE Save(r)
    BY <1>2, <1>a DEF Save, SavePending, Rows, Row
  <1>3. CASE Delete(r)
    BY <1>3, <1>a DEF Delete, DeletePending, Rows, Row
  <1>4. CASE Discard(r)
    BY <1>4, <1>a DEF Discard, RevertPending, Discarded, Rows
  <1>5. CASE RebaseMine(r)
    BY <1>5, <1>a DEF RebaseMine, Rebased, Rows, Row
  <1>6. CASE Clear(r)
    <2> DEFINE c == q.source
    <2>1. pending' = [pending EXCEPT ![q.branch] =
              [x \in Paths |-> IF StillAsCommitted(pending[q.branch][x], q.rows[x])
                               THEN NoRow ELSE pending[q.branch][x]]]
      BY <1>6, <1>a DEF Clear, ClearCommitted
    <2>2. q.branch = b /\ StillAsCommitted(pending[b][p], q.rows[p])
      BY <2>1, <1>a, <1>c
    <2>3. p \in Changed(q.rows) /\ pending[b][p].text = q.rows[p].text
      BY <2>2 DEF StillAsCommitted, Changed
    <2>4. /\ c # 0 /\ commits[c].by = "civil" /\ commits[c].branch = b
          /\ p \in commits[c].wrote /\ commits[c].tree[p] = pending[b][p].text
      BY <1>6, <2>2, <2>3 DEF OnGitHubBeforeCleared, Clear
    <2>5. c \in DOMAIN commits
      BY <1>c, <2>4 DEF Request, RequestFields, Sha, TypeOK
    <2> QED
      BY <2>4, <2>5 DEF OnGitHub
  <1>7. CASE RebaseSpared(r)
    BY <1>7, <1>a, <1>c DEF RebaseSpared, Rebased, Rows, Row
  <1>8. CASE MovePending(r)
    <2>1. q.branch # q.to /\ Changed(pending[q.to]) = {}
          /\ pending' = [pending EXCEPT ![q.to] = pending[q.branch], ![q.branch] = NoRows]
      BY <1>8, <1>b DEF MovePending, MoveAll
    <2>2. q.to \in Branches
      BY <1>8, <1>c, AtStep DEF MovePending, Request, RequestFields
    <2>3. b # q.to
      BY <2>1 DEF Changed
    <2>4. b = q.branch
      BY <1>a, <1>c, <2>1, <2>3
    <2>5. pending'[q.to][p] = pending[b][p]
      BY <1>a, <1>c, <2>1, <2>2, <2>4
    <2> QED
      BY <2>2, <2>3, <2>5 DEF Carried
  <1> QED
    BY <1>b, <1>1, <1>2, <1>3, <1>4, <1>5, <1>6, <1>7, <1>8 DEF Handler, ResolveHead,
       PinHead, ListForCommit, NotEmpty, ReadRef, MoveRef, PinNew, CreateRef,
       KnownHead, ResolveTo, SwitchBranch

(* The rows of a commit are cleared only once GitHub has their content.     *)
THEOREM ClearedIsOnGitHub == Spec => []OnGitHubBeforeCleared
  <1>1. Init => OnGitHubBeforeCleared
    BY DEF Init, OnGitHubBeforeCleared, IdleRequest
  <1> QED
    BY <1>1, InitTypeOK, NextTypeOK, OnGitHubStays, PTL DEF Spec

(* However the handlers interleave, fail or are abandoned, an edit leaves   *)
(* the pending set only by discard, by a commit that holds it, or along     *)
(* with its author to a new branch.                                         *)
THEOREM NoEditIsLost == Spec => NothingLost
  <1>1. TypeOK /\ OnGitHubBeforeCleared /\ [Next]_vars
        => [\A b \in Branches, p \in Paths :
              pending[b][p].kind # "none" /\ pending'[b][p].kind = "none"
                 => Discarded(b, p) \/ OnGitHub(b, p, pending[b][p]) \/ Carried(b, p)]_vars
    BY NothingLostStep
  <1> QED
    BY <1>1, TypeCorrect, ClearedIsOnGitHub, PTL DEF Spec, NothingLost

-----------------------------------------------------------------------------
(* Commits are built on the expected head, as long as no branch is deleted  *)
(* while one is being committed to.  The inductive invariant is TypeOK with *)
(* BuildsOnItsHead.                                                         *)

LEMMA RefsStay ==
    ASSUME "deleteBranch" \notin World, TypeOK, [Next]_vars,
           NEW b \in Branches, ref[b] # 0
    PROVE  ref'[b] # 0
  <1>a. ref \in [Branches -> Sha] /\ Len(commits) \in Nat
    BY DEF TypeOK
  <1>1. ASSUME NEW r \in Requests, Client(r) PROVE ref' = ref
    BY <1>1 DEF Client, BeginOpen, OpenInEditor, BeginDelete, BeginDiscard,
       BeginMine, BeginSave, BeginSync, BeginCommit, BeginCreateBranch, BeginSwitch
  <1>2. ASSUME NEW r \in Requests, Handler(r), ref' # ref
        PROVE  MoveRef(r) \/ CreateRef(r)
    BY <1>2 DEF Handler, Save, Delete, Discard, RebaseMine, ResolveHead, PinHead,
       ListForCommit, NotEmpty, ReadRef, Clear, PinNew, RebaseSpared,
       MovePending, KnownHead, ResolveTo, SwitchBranch
  <1>3. ASSUME NEW r \in Requests, MoveRef(r) PROVE ref'[b] # 0
    BY <1>a, <1>3 DEF MoveRef
  <1>4. ASSUME NEW r \in Requests, CreateRef(r) PROVE ref'[b] # 0
    BY <1>a, <1>4 DEF CreateRef
  <1>5. ASSUME NEW x \in Branches, NEW p, NEW blob, Push(x, p, blob) PROVE ref'[b] # 0
    BY <1>a, <1>5 DEF Push
  <1>6. CASE Outside
    BY <1>5, <1>6 DEF Outside, DeleteBranch
  <1> QED
    BY <1>1, <1>2, <1>3, <1>4, <1>6 DEF Next, vars, Abandon

LEMMA BuildsOnItsHeadStays ==
    ASSUME "deleteBranch" \notin World, TypeOK, BuildsOnItsHead, [Next]_vars
    PROVE  BuildsOnItsHead'
  <1> SUFFICES ASSUME NEW r \in Requests
               PROVE  /\ req'[r].pc = "readRef" => ref'[req'[r].branch] # 0
                      /\ req'[r].pc = "moveRef" =>
                            /\ req'[r].tip # 0
                            /\ req'[r].head # 0 => req'[r].tip = req'[r].head
    BY DEF BuildsOnItsHead
  <1>a. /\ req \in [Requests -> Request] /\ req[r].branch \in Branches
        /\ IdleRequest.pc = "idle"
    BY DEF TypeOK, Request, RequestFields, IdleRequest
  <1> HIDE DEF IdleRequest
  <1>1. CASE req'[r] = req[r]
    BY <1>1, <1>a, RefsStay DEF BuildsOnItsHead
  <1>2. CASE NotEmpty(r)
    <2>1. CASE Done(r)
      BY <1>a, <2>1 DEF Done
    <2>2. CASE ref[req[r].branch] # 0 /\ Goto(r, "readRef")
      <3>1. req'[r].pc = "readRef" /\ req'[r].branch = req[r].branch
        BY <1>a, <2>2 DEF Goto, Request, RequestFields
      <3> QED
        BY <1>a, <2>2, <3>1, RefsStay
    <2> QED
      BY <1>2, <2>1, <2>2 DEF NotEmpty
  <1>3. CASE ReadRef(r)
    <2> DEFINE tip == ref[req[r].branch]
    <2>1. CASE Done(r)
      BY <1>a, <2>1 DEF Done
    <2>2. CASE /\ req[r].head # 0 => tip = req[r].head
               /\ req' = [req EXCEPT ![r].pc = "moveRef", ![r].tip = tip]
      <3>1. tip # 0
        BY <1>3 DEF ReadRef, BuildsOnItsHead
      <3>2. req'[r].pc = "moveRef" /\ req'[r].tip = tip /\ req'[r].head = req[r].head
        BY <1>a, <2>2 DEF Request, RequestFields
      <3> QED
        BY <2>2, <3>1, <3>2
    <2> QED
      BY <1>3, <2>1, <2>2 DEF ReadRef, BuildsOnItsHead
  <1>4. CASE req'[r].pc \notin {"readRef", "moveRef"}
    BY <1>4
  <1> QED
    BY <1>1, <1>2, <1>3, <1>4, HowToGetThere

LEMMA BuiltOnExpectedHeadStep ==
    ASSUME TypeOK, BuildsOnItsHead, [Next]_vars,
           NEW r \in Requests, Lands(r), req[r].head # 0
    PROVE  commits'[req'[r].source].history
              = commits[req[r].head].history \cup {req'[r].source}
  <1> DEFINE n == Len(commits) + 1
  <1>a. req \in [Requests -> Request] /\ Len(commits) \in Nat
    BY DEF TypeOK
  <1>1. MoveRef(r)
    BY HowToGetThere DEF Lands
  <1>2. ~Done(r)
    BY <1>a DEF Done, IdleRequest, Lands
  <1>3. commits' = Append(commits, NewCommit(r)) /\ req'[r].source = n
    <2>1. commits' = Append(commits, NewCommit(r))
          /\ req' = [req EXCEPT ![r].pc = "clear", ![r].source = n]
      BY <1>1, <1>2 DEF MoveRef
    <2> QED
      BY <1>a, <2>1 DEF Request, RequestFields
  <1>4. req[r].tip = req[r].head
    BY DEF Lands, BuildsOnItsHead
  <1>5. NewCommit(r).history = {n} \cup commits[req[r].head].history
    BY <1>4 DEF NewCommit
  <1> QED
    BY <1>a, <1>3, <1>5 DEF TypeOK

(* When no branch disappears from GitHub, every commit has exactly one      *)
(* parent, the commit its author was editing against: nothing pushed in the *)
(* meantime is built over, and no request races another past that.          *)
THEOREM CommitsBuildOnExpectedHead ==
    ASSUME "deleteBranch" \notin World
    PROVE  Spec => BuiltOnExpectedHead
  <1>1. Init => BuildsOnItsHead
    BY DEF Init, BuildsOnItsHead, IdleRequest
  <1>2. TypeOK /\ BuildsOnItsHead /\ [Next]_vars => BuildsOnItsHead'
    BY BuildsOnItsHeadStays
  <1>3. TypeOK /\ BuildsOnItsHead /\ [Next]_vars
        => [\A r \in Requests : Lands(r) /\ req[r].head # 0 =>
              commits'[req'[r].source].history
                 = commits[req[r].head].history \cup {req'[r].source}]_vars
    BY BuiltOnExpectedHeadStep
  <1> QED
    BY <1>1, <1>2, <1>3, TypeCorrect, PTL DEF Spec, BuiltOnExpectedHead
-----------------------------------------------------------------------------
(* What a commit lands on.  Between reading the ref and moving it the       *)
(* commit's parent stays on the branch, whoever pushes meanwhile; GitHub    *)
(* moves the ref only forward, so where it does, the parent is the ref.     *)

(* A commit's history holds the commit and is closed under parents; parents *)
(* come first.                                                              *)
HistoryIsWhole ==
    \A c \in DOMAIN commits :
        /\ c \in commits[c].history /\ commits[c].history \subseteq 1 .. c
        /\ \A d \in commits[c].history : commits[d].history \subseteq commits[c].history

TipIsOnTheBranch ==
    \A r \in Requests : req[r].pc = "moveRef" =>
        /\ ref[req[r].branch] # 0
        /\ req[r].tip \in commits[ref[req[r].branch]].history

(* What a commit listed was in no conflict with the head it read before.    *)
ListedWithoutConflict ==
    \A r \in Requests : req[r].op = "commit" /\ req[r].pc # "list" =>
        Conflicts(req[r].rows, req[r].head) = {}

LandingInv == TypeOK /\ BuildsOnItsHead /\ HistoryIsWhole /\ TipIsOnTheBranch
              /\ ListedWithoutConflict

LEMMA FirstHistory == Init => HistoryIsWhole
  BY DEF Init, HistoryIsWhole

(* Every commit GitHub gains stands on one it has, or on nothing.           *)
LEMMA HowCommitsGrow ==
    ASSUME TypeOK, [Next]_vars, commits' # commits
    PROVE  \E b \in Branches : \E tip \in {0, ref[b]} \cup {req[r].tip : r \in Requests} :
             \E c : /\ commits' = Append(commits, c) /\ tip \in Sha
                    /\ c.history = {Len(commits) + 1}
                         \cup (IF tip = 0 THEN {} ELSE commits[tip].history)
  <1>a. Len(commits) \in Nat /\ ref \in [Branches -> Sha] /\ req \in [Requests -> Request]
    BY DEF TypeOK
  <1>1. ASSUME NEW r \in Requests, Client(r) PROVE FALSE
    BY <1>1 DEF Client, BeginOpen, OpenInEditor, BeginDelete, BeginDiscard,
       BeginMine, BeginSave, BeginSync, BeginCommit, BeginCreateBranch, BeginSwitch
  <1>2. ASSUME NEW r \in Requests, Handler(r) PROVE MoveRef(r)
    BY <1>2 DEF Handler, Save, Delete, Discard, RebaseMine, ResolveHead, PinHead,
       ListForCommit, NotEmpty, ReadRef, Clear, PinNew, RebaseSpared,
       CreateRef, MovePending, KnownHead, ResolveTo, SwitchBranch
  <1>3. ASSUME NEW r \in Requests, MoveRef(r)
        PROVE  /\ commits' = Append(commits, NewCommit(r))
               /\ req[r].tip \in Sha /\ req[r].branch \in Branches
               /\ NewCommit(r).history = {Len(commits) + 1}
                    \cup (IF req[r].tip = 0 THEN {} ELSE commits[req[r].tip].history)
    <2>1. req[r] \in Request
      BY <1>a
    <2> QED
      BY <1>3, <2>1 DEF MoveRef, NewCommit, Request, RequestFields
  <1>4. ASSUME NEW b \in Branches, NEW p \in Paths, NEW blob, Push(b, p, blob)
        PROVE  \E c : /\ commits' = Append(commits, c)
                      /\ ref[b] \in Sha /\ ref[b] # 0
                      /\ c.history = {Len(commits) + 1} \cup commits[ref[b]].history
    BY <1>a, <1>4 DEF Push
  <1>5. CASE \E r \in Requests : MoveRef(r)
    BY <1>3, <1>5
  <1>6. CASE Outside
    BY <1>4, <1>6 DEF Outside, DeleteBranch
  <1> QED
    BY <1>1, <1>2, <1>5, <1>6 DEF Next, vars, Abandon

LEMMA HistoryStaysWhole ==
    ASSUME TypeOK, HistoryIsWhole, [Next]_vars
    PROVE  HistoryIsWhole'
  <1> DEFINE n == Len(commits) + 1
  <1>a. Len(commits) \in Nat /\ DOMAIN commits = 1 .. Len(commits)
    BY DEF TypeOK
  <1>1. CASE commits' = commits
    BY <1>1 DEF HistoryIsWhole
  <1>2. CASE commits' # commits
    <2>0. PICK tip \in Sha : \E c :
             /\ commits' = Append(commits, c)
             /\ c.history = {n} \cup (IF tip = 0 THEN {} ELSE commits[tip].history)
      BY <1>2, HowCommitsGrow
    <2>1. PICK c : /\ commits' = Append(commits, c)
                   /\ c.history = {n} \cup (IF tip = 0 THEN {} ELSE commits[tip].history)
      BY <2>0
    <2>2. DOMAIN commits' = 1 .. n /\ commits'[n] = c
          /\ \A d \in 1 .. Len(commits) : commits'[d] = commits[d]
      BY <1>a, <2>1 DEF TypeOK
    <2>3. tip # 0 => tip \in 1 .. Len(commits)
      BY <1>a DEF Sha
    <2>4. ASSUME NEW d \in 1 .. Len(commits)
          PROVE  /\ d \in commits'[d].history /\ commits'[d].history \subseteq 1 .. d
                 /\ \A e \in commits'[d].history :
                       commits'[e].history \subseteq commits'[d].history
      <3>1. /\ d \in commits[d].history /\ commits[d].history \subseteq 1 .. d
            /\ \A e \in commits[d].history : commits[e].history \subseteq commits[d].history
        BY <1>a DEF HistoryIsWhole
      <3>2. \A e \in commits[d].history : e \in 1 .. Len(commits)
        BY <1>a, <3>1
      <3> QED
        BY <2>2, <3>1, <3>2
    <2>5. n \in c.history /\ c.history \subseteq 1 .. n
      BY <1>a, <2>1, <2>3 DEF HistoryIsWhole
    <2>6. ASSUME NEW e \in c.history PROVE commits'[e].history \subseteq c.history
      <3>1. CASE e = n
        BY <2>2, <3>1
      <3>2. CASE e # n
        <4>1. tip # 0 /\ e \in commits[tip].history
          BY <2>1, <3>2
        <4>2. /\ commits[tip].history \subseteq 1 .. tip
              /\ commits[e].history \subseteq commits[tip].history
          BY <1>a, <2>3, <4>1 DEF HistoryIsWhole
        <4>3. e \in 1 .. Len(commits)
          BY <1>a, <2>3, <4>1, <4>2
        <4> QED
          BY <2>1, <2>2, <4>1, <4>2, <4>3
      <3> QED
        BY <3>1, <3>2
    <2>7. ASSUME NEW d \in 1 .. n
          PROVE  /\ d \in commits'[d].history /\ commits'[d].history \subseteq 1 .. d
                 /\ \A e \in commits'[d].history :
                       commits'[e].history \subseteq commits'[d].history
      <3>1. d = n \/ d \in 1 .. Len(commits)
        BY <1>a
      <3> QED
        BY <2>2, <2>4, <2>5, <2>6, <3>1
    <2> QED
      BY <2>2, <2>7 DEF HistoryIsWhole
  <1> QED
    BY <1>1, <1>2

(* A ref moves only forward, while no branch is deleted.                    *)
LEMMA RefsMoveForward ==
    ASSUME "deleteBranch" \notin World, TypeOK, HistoryIsWhole, [Next]_vars,
           NEW b \in Branches, ref[b] # 0
    PROVE  ref'[b] # 0 /\ ref[b] \in commits'[ref'[b]].history
  <1>a. /\ Len(commits) \in Nat /\ ref \in [Branches -> Sha]
        /\ req \in [Requests -> Request] /\ ref[b] \in 1 .. Len(commits)
    BY DEF TypeOK, Sha
  <1>b. ref'[b] # 0
    BY RefsStay
  <1>1. CASE ref'[b] = ref[b]
    <2>1. commits'[ref[b]] = commits[ref[b]]
      BY <1>a, CommitsStay
    <2> QED
      BY <1>1, <1>a, <2>1 DEF HistoryIsWhole, TypeOK
  <1>2. ASSUME NEW r \in Requests, MoveRef(r), ref'[b] # ref[b]
        PROVE  ref[b] \in commits'[ref'[b]].history
    <2>1. /\ commits' = Append(commits, NewCommit(r)) /\ RefAccepts(r)
          /\ ref' = [ref EXCEPT ![req[r].branch] = Len(commits) + 1]
      BY <1>2 DEF MoveRef
    <2>2. req[r].branch = b /\ ref'[b] = Len(commits) + 1
      BY <1>2, <1>a, <2>1
    <2>3. ref[b] \in NewCommit(r).history
      BY <1>a, <2>1, <2>2 DEF RefAccepts
    <2> QED
      BY <1>a, <2>1, <2>2, <2>3 DEF TypeOK
  <1>3. ASSUME NEW x \in Branches, NEW p \in Paths, NEW blob, Push(x, p, blob),
               ref'[b] # ref[b]
        PROVE  ref[b] \in commits'[ref'[b]].history
    <2>1. x = b /\ ref'[b] = Len(commits) + 1
      BY <1>3, <1>a DEF Push
    <2>2. commits'[Len(commits) + 1].history = commits[ref[b]].history \cup {Len(commits) + 1}
      BY <1>3, <1>a, <2>1 DEF Push, TypeOK
    <2> QED
      BY <1>a, <2>1, <2>2 DEF HistoryIsWhole, TypeOK
  <1>4. ASSUME NEW r \in Requests, Client(r) PROVE ref' = ref
    BY <1>4 DEF Client, BeginOpen, OpenInEditor, BeginDelete, BeginDiscard,
       BeginMine, BeginSave, BeginSync, BeginCommit, BeginCreateBranch, BeginSwitch
  <1>5. ASSUME NEW r \in Requests, Handler(r), ref'[b] # ref[b] PROVE MoveRef(r)
    <2>1. ~CreateRef(r)
      BY <1>5, <1>a DEF CreateRef
    <2> QED
      BY <1>5, <2>1 DEF Handler, Save, Delete, Discard, RebaseMine, ResolveHead, PinHead,
         ListForCommit, NotEmpty, ReadRef, Clear, PinNew, RebaseSpared,
         MovePending, KnownHead, ResolveTo, SwitchBranch
  <1>6. CASE Outside
    BY <1>b, <1>1, <1>3, <1>6 DEF Outside, DeleteBranch
  <1> QED
    BY <1>b, <1>1, <1>2, <1>4, <1>5, <1>6 DEF Next, vars, Abandon

LEMMA TipStaysOnTheBranch ==
    ASSUME "deleteBranch" \notin World, TypeOK, BuildsOnItsHead, HistoryIsWhole,
           TipIsOnTheBranch, [Next]_vars
    PROVE  TipIsOnTheBranch'
  <1> SUFFICES ASSUME NEW r \in Requests, req'[r].pc = "moveRef"
               PROVE  /\ ref'[req'[r].branch] # 0
                      /\ req'[r].tip \in commits'[ref'[req'[r].branch]].history
    BY DEF TipIsOnTheBranch
  <1>a. /\ Len(commits) \in Nat /\ ref \in [Branches -> Sha]
        /\ req \in [Requests -> Request] /\ req[r].branch \in Branches
        /\ IdleRequest.pc = "idle"
    BY DEF TypeOK, Request, RequestFields, IdleRequest
  <1> HIDE DEF IdleRequest
  <1> DEFINE b == req[r].branch
  <1>1. CASE req'[r] = req[r]
    <2>1. ref[b] # 0 /\ req[r].tip \in commits[ref[b]].history
      BY <1>1 DEF TipIsOnTheBranch
    <2>2. ref'[b] # 0 /\ ref[b] \in commits'[ref'[b]].history
      BY <1>a, <2>1, RefsMoveForward
    <2>3. HistoryIsWhole' /\ TypeOK'
      BY HistoryStaysWhole, NextTypeOK
    <2>4. ref'[b] \in DOMAIN commits'
      <3>1. ref' \in [Branches -> Sha'] /\ Len(commits') \in Nat
        BY <2>3 DEF TypeOK
      <3>2. ref'[b] \in 0 .. Len(commits')
        BY <1>a, <3>1 DEF Sha
      <3> QED
        BY <2>2, <3>1, <3>2
    <2>5. commits'[ref[b]].history \subseteq commits'[ref'[b]].history
      BY <2>2, <2>3, <2>4 DEF HistoryIsWhole
    <2>6. commits'[ref[b]] = commits[ref[b]]
      <3>1. ref[b] \in 1 .. Len(commits)
        BY <1>a, <2>1 DEF Sha
      <3> QED
        BY <3>1, CommitsStay
    <2> QED
      BY <1>1, <2>1, <2>2, <2>5, <2>6
  <1>2. CASE req'[r] # req[r]
    <2>1. ReadRef(r)
      BY <1>2, HowToGetThere
    <2>2. ~Done(r)
      BY <1>a DEF Done
    <2>3. req' = [req EXCEPT ![r].pc = "moveRef", ![r].tip = ref[b]]
      BY <2>1, <2>2 DEF ReadRef
    <2>4. req'[r].branch = b /\ req'[r].tip = ref[b]
      BY <1>a, <2>3 DEF Request, RequestFields
    <2>5. ref[b] # 0
      BY <2>1 DEF ReadRef, BuildsOnItsHead
    <2> QED
      BY <1>a, <2>4, <2>5, RefsMoveForward
  <1> QED
    BY <1>1, <1>2

(* What a landing commit stands on is what the branch is at.                *)
LEMMA ParentIsTheRef ==
    ASSUME TypeOK, BuildsOnItsHead, HistoryIsWhole, TipIsOnTheBranch, [Next]_vars,
           NEW r \in Requests, Lands(r)
    PROVE  /\ commits' = Append(commits, NewCommit(r))
           /\ req'[r].source = Len(commits) + 1
           /\ req[r].tip = ref[req[r].branch] /\ req[r].tip # 0
  <1> DEFINE b == req[r].branch
             n == Len(commits) + 1
  <1>a. /\ Len(commits) \in Nat /\ ref \in [Branches -> Sha]
        /\ req \in [Requests -> Request] /\ b \in Branches /\ req[r].tip \in Sha
        /\ IdleRequest.pc = "idle"
    BY DEF TypeOK, Request, RequestFields, IdleRequest
  <1> HIDE DEF IdleRequest
  <1>1. MoveRef(r)
    BY HowToGetThere DEF Lands
  <1>2. ~Done(r)
    BY <1>a DEF Done, Lands
  <1>3. /\ commits' = Append(commits, NewCommit(r)) /\ RefAccepts(r)
        /\ req' = [req EXCEPT ![r].pc = "clear", ![r].source = n]
    BY <1>1, <1>2 DEF MoveRef
  <1>4. req'[r].source = n
    BY <1>a, <1>3 DEF Request, RequestFields
  <1>5. req[r].tip # 0 /\ ref[b] # 0 /\ req[r].tip \in commits[ref[b]].history
    BY DEF Lands, BuildsOnItsHead, TipIsOnTheBranch
  <1>6. ref[b] \in 1 .. Len(commits) /\ req[r].tip \in 1 .. Len(commits)
    BY <1>a, <1>5 DEF Sha
  <1>7. ref[b] \in commits[req[r].tip].history
    BY <1>3, <1>5, <1>6 DEF RefAccepts, NewCommit
  <1>8. req[r].tip <= ref[b] /\ ref[b] <= req[r].tip
    BY <1>5, <1>6, <1>7 DEF HistoryIsWhole, TypeOK
  <1>9. req[r].tip = ref[b]
    BY <1>6, <1>8
  <1> QED
    BY <1>3, <1>4, <1>5, <1>9

(* After its listing a commit carries what it listed to the end.            *)
LEMMA CommitGoesOn ==
    ASSUME TypeOK, [Next]_vars, NEW r \in Requests,
           req'[r].op = "commit", req'[r].pc # "list"
    PROVE  \/ /\ req[r].op = "commit" /\ req[r].pc # "list"
              /\ req'[r].rows = req[r].rows /\ req'[r].head = req[r].head
           \/ /\ req'[r].rows = pending[req[r].branch] /\ req'[r].head = req[r].head
              /\ Conflicts(req'[r].rows, req'[r].head) = {}
  <1> DEFINE Same == /\ req[r].op = "commit" /\ req[r].pc # "list"
                     /\ req'[r].rows = req[r].rows /\ req'[r].head = req[r].head
  <1>a. /\ req \in [Requests -> Request] /\ req[r] \in Request
        /\ IdleRequest.op = "none"
    BY DEF TypeOK, IdleRequest
  <1> HIDE DEF IdleRequest
  <1>1. CASE req'[r] = req[r]
    BY <1>1
  <1>2. CASE req'[r] # req[r]
    <2>1. PICK s \in Requests : Client(s) \/ Handler(s) \/ Abandon(s)
      BY <1>2 DEF Next, vars, Outside, Push, DeleteBranch
    <2>2. ASSUME Done(s) PROVE FALSE
      BY <1>2, <1>a, <2>2 DEF Done
    <2>3. ~Client(s)
      <3>1. ASSUME NEW op, NEW pc, NEW path, NEW to, op # "commit" \/ pc = "list",
                   Begin(s, op, pc, path, to)
            PROVE  FALSE
        <4>1. s = r
          BY <1>2, <1>a, <3>1 DEF Begin
        <4>2. req'[r].op = op /\ req'[r].pc = pc
          BY <1>a, <3>1, <4>1 DEF Begin, IdleRequest
        <4> QED
          BY <3>1, <4>2
      <3>2. ASSUME NEW p \in Paths, OpenInEditor(s, p) PROVE FALSE
        BY <1>2, <1>a, <3>2 DEF OpenInEditor, IdleRequest
      <3>3. ASSUME NEW text \in Texts, BeginSave(s, text) PROVE FALSE
        <4>1. s = r
          BY <1>2, <1>a, <3>3 DEF BeginSave
        <4>2. req[r].op = "edit"
          BY <1>a, <3>3, <4>1, AtStep DEF BeginSave
        <4>3. req'[r].op = req[r].op
          BY <1>a, <3>3, <4>1 DEF BeginSave, Request, RequestFields
        <4> QED
          BY <4>2, <4>3
      <3> QED
        BY <3>1, <3>2, <3>3 DEF Client, BeginOpen, BeginDelete, BeginDiscard, BeginMine,
           BeginSync, BeginCommit, BeginCreateBranch, BeginSwitch
    <2>4. ASSUME NEW pc, Goto(s, pc), req[s].pc # "list" PROVE Same
      <3>1. s = r
        BY <1>2, <1>a, <2>4 DEF Goto
      <3> QED
        BY <1>a, <2>4, <3>1 DEF Goto, Request, RequestFields
    <2>5. ASSUME NEW pc, NEW f, req[s].pc # "list",
                 req' = [req EXCEPT ![s].pc = pc, ![s].source = f]
          PROVE  Same
      <3>1. s = r
        BY <1>2, <1>a, <2>5
      <3> QED
        BY <1>a, <2>5, <3>1 DEF Request, RequestFields
    <2>6. CASE ListForCommit(s)
      <3>1. /\ req' = [req EXCEPT ![s].rows = pending[req[s].branch],
                                  ![s].pc = OpenThen(req[s].head, "notEmpty")]
            /\ Conflicts(pending[req[s].branch], req[s].head) = {}
            /\ req[s].pc = "list"
        BY <2>2, <2>6 DEF ListForCommit
      <3>2. s = r
        BY <1>2, <1>a, <3>1
      <3>3. req'[r].rows = pending[req[r].branch] /\ req'[r].head = req[r].head
        <4> HIDE DEF OpenThen
        <4> QED
          BY <1>a, <3>1, <3>2 DEF Request, RequestFields
      <3>4. Conflicts(req'[r].rows, req'[r].head) = Conflicts(pending[req[r].branch], req[r].head)
        BY <3>3
      <3> QED
        BY <3>1, <3>2, <3>3, <3>4
    <2>7. CASE ReadRef(s)
      <3>1. /\ req' = [req EXCEPT ![s].pc = "moveRef", ![s].tip = ref[req[s].branch]]
            /\ req[s].pc = "readRef"
        BY <2>2, <2>7 DEF ReadRef
      <3>2. s = r
        BY <1>2, <1>a, <3>1
      <3> QED
        BY <1>a, <3>1, <3>2 DEF Request, RequestFields
    <2>8. CASE ResolveHead(s) \/ MoveRef(s) \/ CreateRef(s) \/ ResolveTo(s)
      BY <2>2, <2>5, <2>8 DEF ResolveHead, MoveRef, CreateRef, ResolveTo
    <2>9. CASE PinHead(s) \/ NotEmpty(s) \/ Clear(s) \/ PinNew(s) \/ MovePending(s) \/ KnownHead(s)
      BY <2>2, <2>4, <2>9 DEF PinHead, NotEmpty, Clear, PinNew, MovePending, KnownHead
    <2>10. ~Save(s) /\ ~Delete(s) /\ ~Discard(s) /\ ~RebaseMine(s) /\ ~RebaseSpared(s)
           /\ ~SwitchBranch(s) /\ ~Abandon(s)
      BY <2>2 DEF Save, Delete, Discard, RebaseMine, RebaseSpared, SwitchBranch, Abandon
    <2> QED
      BY <2>1, <2>3, <2>6, <2>7, <2>8, <2>9, <2>10 DEF Handler
  <1> QED
    BY <1>1, <1>2

(* Trees on GitHub never change, so what was no conflict stays none.        *)
LEMMA NoNewConflict ==
    ASSUME TypeOK, [Next]_vars, NEW rows \in Rows, NEW head \in Sha,
           Conflicts(rows, head) = {}
    PROVE  Conflicts(rows, head)' = {}
  <1>1. ASSUME NEW s \in Sha PROVE TreeAt(s)' = TreeAt(s)
    <2>1. CASE s = 0
      BY <2>1 DEF TreeAt
    <2>2. CASE s # 0
      <3>1. s \in 1 .. Len(commits)
        BY <2>2 DEF Sha, TypeOK
      <3> QED
        BY <2>2, <3>1, CommitsStay DEF TreeAt
    <2> QED
      BY <2>1, <2>2
  <1>2. \A p \in Paths : rows[p].base \in Sha
    BY DEF Rows, Row
  <1>3. \A p \in Paths : InConflict(rows[p], p, head)' <=> InConflict(rows[p], p, head)
    BY <1>1, <1>2 DEF InConflict
  <1> QED
    BY <1>3 DEF Conflicts, Changed

LEMMA ListedStaysWithoutConflict ==
    ASSUME TypeOK, ListedWithoutConflict, [Next]_vars
    PROVE  ListedWithoutConflict'
  <1> SUFFICES ASSUME NEW r \in Requests, req'[r].op = "commit", req'[r].pc # "list"
               PROVE  (Conflicts(req[r].rows, req[r].head))' = {}
    BY DEF ListedWithoutConflict
  <1> DEFINE rows == req'[r].rows
             head == req'[r].head
  <1>1. rows \in Rows /\ head \in Sha
    <2>1. req[r] \in Request /\ req[r].rows \in Rows /\ req[r].head \in Sha
          /\ pending[req[r].branch] \in Rows
      BY DEF TypeOK, Request, RequestFields
    <2> QED
      BY <2>1, CommitGoesOn
  <1>2. Conflicts(rows, head) = {}
    <2>1. CASE /\ req[r].op = "commit" /\ req[r].pc # "list"
               /\ rows = req[r].rows /\ head = req[r].head
      BY <2>1 DEF ListedWithoutConflict
    <2> QED
      BY <2>1, CommitGoesOn
  <1>3. PICK x, y : x = rows /\ y = head
    OBVIOUS
  <1>4. x \in Rows /\ y \in Sha /\ Conflicts(x, y) = {}
    BY <1>1, <1>2, <1>3
  <1>5. Conflicts(x, y)' = {}
    BY <1>4, NoNewConflict
  <1> QED
    BY <1>3, <1>5 DEF Conflicts, Changed, InConflict

LEMMA LandingInvHolds ==
    ASSUME "deleteBranch" \notin World
    PROVE  Spec => []LandingInv
  <1>1. Init => LandingInv
    <2> SUFFICES ASSUME Init PROVE LandingInv
      OBVIOUS
    <2>1. \A r \in Requests : req[r].pc = "idle" /\ req[r].op = "none"
      BY DEF Init, IdleRequest
    <2>2. BuildsOnItsHead /\ TipIsOnTheBranch /\ ListedWithoutConflict
      BY <2>1 DEF BuildsOnItsHead, TipIsOnTheBranch, ListedWithoutConflict
    <2> QED
      BY <2>2, InitTypeOK, FirstHistory DEF LandingInv
  <1>2. LandingInv /\ [Next]_vars => LandingInv'
    BY NextTypeOK, BuildsOnItsHeadStays, HistoryStaysWhole, TipStaysOnTheBranch,
       ListedStaysWithoutConflict DEF LandingInv
  <1> QED
    BY <1>1, <1>2, PTL DEF Spec

(* A commit that lands replaces a file only where the branch still says     *)
(* what it said at the base of the edit.  No sync, push, save or second     *)
(* commit that runs while the handler waits on GitHub gets past the check   *)
(* the handler made at its start.                                           *)
THEOREM ConflictsAreCaught ==
    ASSUME "deleteBranch" \notin World
    PROVE  Spec => ConflictGate
  <1>1. ASSUME LandingInv, [Next]_vars, NEW r \in Requests, Lands(r), req[r].head # 0,
               NEW p \in Changed(req[r].rows), req[r].rows[p].base # 0
        PROVE  TreeAt(req[r].rows[p].base)[p] = TreeAt(ref[req[r].branch])[p]
    <2>1. req[r].tip = ref[req[r].branch]
      BY <1>1, ParentIsTheRef DEF LandingInv
    <2>2. req[r].tip = req[r].head
      BY <1>1 DEF LandingInv, BuildsOnItsHead, Lands
    <2>3. req[r].op = "commit"
      BY <1>1, AtStep DEF LandingInv, TypeOK, Lands
    <2>4. ~InConflict(req[r].rows[p], p, req[r].head)
      BY <1>1, <2>3 DEF LandingInv, ListedWithoutConflict, Lands, Conflicts
    <2> QED
      BY <1>1, <2>1, <2>2, <2>4 DEF InConflict
  <1>2. LandingInv /\ [Next]_vars
        => [\A r \in Requests : Lands(r) /\ req[r].head # 0 =>
              \A p \in Changed(req[r].rows) :
                 \/ req[r].rows[p].base = 0
                 \/ TreeAt(req[r].rows[p].base)[p] = TreeAt(ref[req[r].branch])[p]]_vars
    BY <1>1
  <1> QED
    BY <1>2, LandingInvHolds, PTL DEF Spec, ConflictGate

(* A commit changes no file but those it lists, whatever was pushed while   *)
(* it was being built.                                                      *)
THEOREM TheRestIsLeftAlone ==
    ASSUME "deleteBranch" \notin World
    PROVE  Spec => LeavesTheRestAlone
  <1>1. ASSUME LandingInv, [Next]_vars, NEW r \in Requests, Lands(r),
               NEW p \in Paths \ Changed(req[r].rows)
        PROVE  commits'[req'[r].source].tree[p] = TreeAt(ref[req[r].branch])[p]
    <2>1. /\ commits' = Append(commits, NewCommit(r)) /\ req'[r].source = Len(commits) + 1
          /\ req[r].tip = ref[req[r].branch]
      BY <1>1, ParentIsTheRef DEF LandingInv
    <2>2. commits'[req'[r].source] = NewCommit(r)
      BY <1>1, <2>1 DEF LandingInv, TypeOK
    <2>3. NewTree(req[r].rows, req[r].tip)[p] = TreeAt(req[r].tip)[p]
      BY <1>1 DEF NewTree, Changed
    <2> QED
      BY <2>1, <2>2, <2>3 DEF NewCommit
  <1>2. LandingInv /\ [Next]_vars
        => [\A r \in Requests : Lands(r) =>
              \A p \in Paths \ Changed(req[r].rows) :
                 commits'[req'[r].source].tree[p] = TreeAt(ref[req[r].branch])[p]]_vars
    BY <1>1
  <1> QED
    BY <1>2, LandingInvHolds, PTL DEF Spec, LeavesTheRestAlone

-----------------------------------------------------------------------------
(* One request at a time.  Two can overwrite what nobody has seen: a tab    *)
(* shows the file from before a sync, and its save stands on what the sync  *)
(* pinned.  With one, every edit brings along the version it is based on.   *)
OneRequest == \A r, s \in Requests : r = s

(* An edit is based on a version of its file that its author had in front   *)
(* of them.                                                                 *)
RowSeen(row, p) ==
    IF row.kind = "none" THEN row = NoRow
    ELSE row.base # 0 /\ TreeAt(row.base)[p] \in row.seen

RowsAreSeen == \A b \in Branches, p \in Paths : RowSeen(pending[b][p], p)

(* What a tab shows is the version a save from it would stand on.           *)
Shown(p) ==
    LET row == pending[currentBranch][p]
    IN TreeAt(IF row.kind = "none" THEN pinned[currentBranch] ELSE row.base)[p]

(* What a handler read is still so.                                         *)
WhatItReadIsSo(q) ==
    /\ q.op = "edit" => q.pc \in {"editing", "save"} /\ Shown(q.path) \in q.seen
    /\ q.pc \in {"save", "delete", "rebaseMine", "list", "notEmpty", "readRef", "moveRef",
                 "clear", "pinNew", "rebaseSpared"} => q.branch = currentBranch
    /\ q.pc \in {"delete", "rebaseMine", "list", "notEmpty", "readRef", "moveRef"} =>
          q.head = pinned[currentBranch]
    /\ q.pc \in {"notEmpty", "readRef", "moveRef", "clear"} => q.rows = pending[currentBranch]
    /\ q.pc \in {"pinNew", "rebaseSpared"} => Changed(pending[currentBranch]) = {}
    /\ q.op = "commit" => q.pc \notin {"resolve", "pin"}

(* Where it is taking the author the branch is pinned.                      *)
WhereItGoesIsPinned(q) ==
    /\ q.pc \in {"pin", "clear", "pinNew", "rebaseSpared", "movePending"} => q.source # 0
    /\ q.pc = "createRef" => q.head # 0
    /\ q.pc = "switch" => q.source # 0 \/ pinned[q.to] # 0

SeenInv ==
    /\ TypeOK /\ pinned[currentBranch] # 0 /\ RowsAreSeen
    /\ \A r \in Requests : WhatItReadIsSo(req[r]) /\ WhereItGoesIsPinned(req[r])

LEMMA TreesStay ==
    ASSUME TypeOK, [Next]_vars, NEW s \in Sha
    PROVE  TreeAt(s)' = TreeAt(s)
  <1>1. CASE s = 0
    BY <1>1 DEF TreeAt
  <1>2. CASE s # 0
    <2>1. s \in 1 .. Len(commits)
      BY <1>2 DEF Sha, TypeOK
    <2> QED
      BY <1>2, <2>1, CommitsStay DEF TreeAt
  <1> QED
    BY <1>1, <1>2

(* The rows of the next state need only be looked at on the trees of this.  *)
LEMMA RowsStaySeen ==
    ASSUME TypeOK, [Next]_vars,
           \A b \in Branches, p \in Paths :
              pending'[b][p] \in Row /\ RowSeen(pending'[b][p], p)
    PROVE  RowsAreSeen'
  <1> SUFFICES ASSUME NEW b \in Branches, NEW p \in Paths
               PROVE  RowSeen(pending[b][p], p)'
    BY DEF RowsAreSeen
  <1>1. PICK row : row = pending'[b][p]
    OBVIOUS
  <1>2. row \in Row /\ RowSeen(row, p)
    BY <1>1
  <1>3. CASE row.kind = "none"
    BY <1>1, <1>2, <1>3 DEF RowSeen, NoRow
  <1>4. CASE row.kind # "none"
    <2>1. row.base \in Sha /\ row.base # 0 /\ TreeAt(row.base)[p] \in row.seen
      BY <1>2, <1>4 DEF RowSeen, Row
    <2>2. TreeAt(row.base)' = TreeAt(row.base)
      BY <2>1, TreesStay
    <2>3. RowSeen(row, p)'
      BY <1>4, <2>1, <2>2 DEF RowSeen
    <2> QED
      BY <1>1, <2>3 DEF RowSeen, NoRow
  <1> QED
    BY <1>3, <1>4

(* A row moved onto a commit its author has in front of them.               *)
LEMMA RebasedSeen ==
    ASSUME TypeOK, NEW p \in Paths, NEW row \in Row, RowSeen(row, p),
           NEW sha \in Sha, sha # 0, NEW seen \in SUBSET Blob,
           row.kind = "none" \/ TreeAt(sha)[p] \in seen
    PROVE  Rebased(row, sha, seen) \in Row /\ RowSeen(Rebased(row, sha, seen), p)
  <1>1. Rebased(row, sha, seen) \in Row
    BY RebasedTyped
  <1>2. RowSeen(Rebased(row, sha, seen), p)
    BY DEF Rebased, RowSeen, Row, NoRow
  <1> QED
    BY <1>1, <1>2

(* What a step leaves in a row.                                             *)
LEMMA EditsAreSeen ==
    ASSUME OneRequest, SeenInv, [Next]_vars, NEW b \in Branches, NEW p \in Paths
    PROVE  pending'[b][p] \in Row /\ RowSeen(pending'[b][p], p)
  <1> DEFINE Good(row) == row \in Row /\ RowSeen(row, p)
             old == pending[b][p]
  <1>a. /\ TypeOK /\ pinned[currentBranch] # 0 /\ pinned[currentBranch] \in Sha
        /\ pending \in [Branches -> Rows] /\ req \in [Requests -> Request]
        /\ currentBranch \in Branches
    BY DEF SeenInv, TypeOK
  <1>b. \A x \in Branches : pending[x][p] \in Row /\ RowSeen(pending[x][p], p)
    BY <1>a DEF SeenInv, RowsAreSeen, Rows
  <1>c. NoRow \in Row /\ RowSeen(NoRow, p)
    BY <1>a, Basics DEF RowSeen, NoRow
  <1>1. CASE pending' = pending
    BY <1>1, <1>b
  <1>2. ASSUME NEW r \in Requests, Save(r) PROVE Good(pending'[b][p])
    <2> DEFINE q == req[r]
               e == TreeAt(q.source)[q.path] # Nil
               new == [kind |-> IF old.kind \in {"none", "delete"}
                                THEN IF e THEN "modify" ELSE "add" ELSE old.kind,
                       text |-> q.text,
                       base |-> IF old.base # 0 THEN old.base ELSE pinned[b],
                       seen |-> q.seen]
    <2>1. /\ q.op = "edit" /\ q.branch = currentBranch /\ Shown(q.path) \in q.seen
          /\ q.path \in Paths /\ q.text \in Blob /\ q.seen \in SUBSET Blob
      <3>1. q \in Request /\ q.pc = "save"
        BY <1>2, <1>a DEF Save
      <3>2. q.op = "edit"
        BY <3>1, AtStep
      <3> QED
        BY <3>1, <3>2 DEF SeenInv, WhatItReadIsSo, Request, RequestFields
    <2>2. CASE b = currentBranch /\ p = q.path
      <3>1. pending'[b][p] = new
        BY <1>2, <1>a, <2>1, <2>2 DEF Save, SavePending, Rows
      <3>2. old \in Row /\ RowSeen(old, p)
        BY <1>b
      <3>3. new \in Row /\ new.kind # "none" /\ new.seen = q.seen
        BY <1>a, <2>1, <2>2, <3>2 DEF Row
      <3>4. new.base = IF old.kind = "none" THEN pinned[currentBranch] ELSE old.base
        BY <2>2, <3>2 DEF RowSeen, NoRow
      <3>5. new.base # 0
        BY <1>a, <3>2, <3>4 DEF RowSeen
      <3>6. TreeAt(new.base)[p] = Shown(q.path)
        BY <2>2, <3>4 DEF Shown
      <3>7. RowSeen(new, p)
        <4> HIDE DEF new
        <4> QED
          BY <2>1, <3>3, <3>5, <3>6 DEF RowSeen
      <3> QED
        BY <3>1, <3>3, <3>7
    <2>3. CASE ~(b = currentBranch /\ p = q.path)
      <3>1. pending'[b][p] = pending[b][p]
        BY <1>2, <1>a, <2>1, <2>3 DEF Save, SavePending, Rows
      <3> QED
        BY <3>1, <1>b
    <2> QED
      BY <2>2, <2>3
  <1>3. ASSUME NEW r \in Requests, Delete(r) PROVE Good(pending'[b][p])
    <2> DEFINE q == req[r]
               here == TreeAt(pinned[currentBranch])[p]
               new == [kind |-> "delete", text |-> Nil,
                       base |-> IF old.base # 0 THEN old.base ELSE pinned[b],
                       seen |-> old.seen \cup {here}]
    <2>1. /\ q.branch = currentBranch /\ q.head = pinned[currentBranch]
          /\ q.path \in Paths
      <3>1. q \in Request /\ q.pc = "delete"
        BY <1>3, <1>a DEF Delete
      <3>2. q.op = "delete"
        BY <3>1, AtStep
      <3> QED
        BY <3>1, <3>2 DEF SeenInv, WhatItReadIsSo, Request, RequestFields
    <2>2. CASE b = currentBranch /\ p = q.path
      <3>1. pending'[b][p] = new
        BY <1>3, <1>a, <2>1, <2>2 DEF Delete, DeletePending, Rows
      <3>2. old \in Row /\ RowSeen(old, p) /\ here \in Blob
        BY <1>a, <1>b, Basics DEF Tree
      <3>3. new \in Row
        BY <1>a, <2>2, <3>2 DEF Row, Blob
      <3>4. CASE old.kind = "none"
        <4>1. new.base = pinned[currentBranch]
          BY <2>2, <3>2, <3>4 DEF RowSeen, NoRow
        <4>2. TreeAt(new.base)[p] = here
          BY <4>1
        <4> QED
          BY <1>a, <3>1, <3>3, <4>1, <4>2 DEF RowSeen
      <3>5. CASE old.kind # "none"
        <4>1. new.base = old.base /\ old.base # 0 /\ TreeAt(old.base)[p] \in old.seen
          BY <3>2, <3>5 DEF RowSeen
        <4>2. TreeAt(new.base)[p] \in new.seen /\ new.base # 0
          BY <4>1
        <4> QED
          BY <3>1, <3>3, <4>2 DEF RowSeen
      <3> QED
        BY <3>4, <3>5
    <2>3. CASE ~(b = currentBranch /\ p = q.path)
      <3>1. pending'[b][p] = pending[b][p]
        BY <1>3, <1>a, <2>1, <2>3 DEF Delete, DeletePending, Rows
      <3> QED
        BY <3>1, <1>b
    <2> QED
      BY <2>2, <2>3
  <1>4. ASSUME NEW r \in Requests, Discard(r) PROVE Good(pending'[b][p])
    <2>1. pending'[b][p] = NoRow \/ pending'[b][p] = pending[b][p]
      BY <1>4, <1>a DEF Discard, RevertPending, Rows
    <2> QED
      BY <2>1, <1>b, <1>c
  <1>5. ASSUME NEW r \in Requests, RebaseMine(r) PROVE Good(pending'[b][p])
    <2> DEFINE q == req[r]
    <2>1. /\ q.branch = currentBranch /\ q.head = pinned[currentBranch]
          /\ q.path \in Paths
      <3>1. q \in Request /\ q.pc = "rebaseMine"
        BY <1>5, <1>a DEF RebaseMine
      <3>2. q.op = "mine"
        BY <3>1, AtStep
      <3> QED
        BY <3>1, <3>2 DEF SeenInv, WhatItReadIsSo, Request, RequestFields
    <2>2. \/ pending'[b][p] = pending[b][p]
          \/ pending'[b][p] = Rebased(old, q.head, {TreeAt(q.head)[p]})
      BY <1>5, <1>a, <2>1 DEF RebaseMine, Rows
    <2>3. TreeAt(q.head)[p] \in Blob
      BY <1>a, <2>1, Basics DEF Tree
    <2>4. Good(Rebased(old, q.head, {TreeAt(q.head)[p]}))
      BY <1>a, <1>b, <2>1, <2>3, RebasedSeen
    <2> QED
      BY <1>b, <2>2, <2>4
  <1>6. ASSUME NEW r \in Requests, Clear(r) PROVE Good(pending'[b][p])
    <2>1. pending'[b][p] = NoRow \/ pending'[b][p] = pending[b][p]
      BY <1>6, <1>a DEF Clear, ClearCommitted, Rows
    <2> QED
      BY <2>1, <1>b, <1>c
  <1>7. ASSUME NEW r \in Requests, RebaseSpared(r) PROVE Good(pending'[b][p])
    <2>1. req[r].branch = currentBranch /\ Changed(pending[currentBranch]) = {}
      BY <1>7 DEF RebaseSpared, SeenInv, WhatItReadIsSo
    <2>2. pending[currentBranch][p].kind = "none"
      BY <2>1 DEF Changed
    <2>3. pending'[b][p] = NoRow \/ pending'[b][p] = pending[b][p]
      BY <1>7, <1>a, <2>1, <2>2 DEF RebaseSpared, Rebased, Rows
    <2> QED
      BY <2>3, <1>b, <1>c
  <1>8. ASSUME NEW r \in Requests, MovePending(r) PROVE Good(pending'[b][p])
    <2>1. req[r].branch \in Branches
      BY <1>a DEF Request, RequestFields
    <2>2. \E x \in Branches : pending'[b][p] \in {NoRow, pending[x][p]}
      BY <1>8, <1>a, <2>1 DEF MovePending, MoveAll, NoRows
    <2> QED
      BY <2>2, <1>b, <1>c
  <1>9. ASSUME NEW r \in Requests, Client(r) \/ Abandon(r) PROVE pending' = pending
    BY <1>9 DEF Client, BeginOpen, OpenInEditor, BeginDelete, BeginDiscard, Abandon,
       BeginMine, BeginSave, BeginSync, BeginCommit, BeginCreateBranch, BeginSwitch
  <1>10. ASSUME NEW r \in Requests, Handler(r), pending' # pending
         PROVE  \/ Save(r) \/ Delete(r) \/ Discard(r) \/ RebaseMine(r)
                \/ Clear(r) \/ RebaseSpared(r) \/ MovePending(r)
    BY <1>10 DEF Handler, ResolveHead, PinHead, ListForCommit, NotEmpty, ReadRef, MoveRef,
       PinNew, CreateRef, KnownHead, ResolveTo, SwitchBranch
  <1>11. CASE Outside
    BY <1>1, <1>11 DEF Outside, Push, DeleteBranch
  <1>12. CASE UNCHANGED vars
    BY <1>1, <1>12 DEF vars
  <1> HIDE DEF Good
  <1>13. ASSUME NEW r \in Requests, Handler(r) PROVE Good(pending'[b][p])
    BY <1>1, <1>2, <1>3, <1>4, <1>5, <1>6, <1>7, <1>8, <1>10, <1>13 DEF Good
  <1>14. Good(pending'[b][p])
    BY <1>1, <1>9, <1>11, <1>12, <1>13 DEF Next, Good
  <1> QED
    BY <1>14 DEF Good

(* How the request goes on.                                                 *)
LEMMA WhereDone ==
    ASSUME TypeOK, NEW r \in Requests, Done(r)
    PROVE  WhatItReadIsSo(req[r])' /\ WhereItGoesIsPinned(req[r])'
  <1>1. req'[r].pc = "idle" /\ req'[r].op = "none"
    BY DEF Done, TypeOK, IdleRequest
  <1> QED
    BY <1>1 DEF WhatItReadIsSo, WhereItGoesIsPinned

LEMMA WhereBegun ==
    ASSUME TypeOK, NEW r \in Requests, NEW op, NEW pc, NEW path, NEW to,
           Begin(r, op, pc, path, to),
           UNCHANGED <<commits, ref, currentBranch, pinned, pending>>,
           op \notin {"none", "edit"},
           pc \notin {"editing", "save", "notEmpty", "readRef", "moveRef", "clear", "pinNew",
                      "rebaseSpared", "pin", "movePending", "switch"},
           op = "commit" => pc # "resolve",
           pc = "createRef" => pinned[currentBranch] # 0
    PROVE  WhatItReadIsSo(req[r])' /\ WhereItGoesIsPinned(req[r])'
  <1>1. /\ req'[r].op = op /\ req'[r].pc = pc
        /\ req'[r].branch = currentBranch /\ req'[r].head = pinned[currentBranch]
    BY DEF Begin, TypeOK, IdleRequest
  <1> QED
    BY <1>1 DEF WhatItReadIsSo, WhereItGoesIsPinned

LEMMA ClientReadsWhatIsSo ==
    ASSUME SeenInv, NEW r \in Requests, Client(r)
    PROVE  WhatItReadIsSo(req[r])' /\ WhereItGoesIsPinned(req[r])'
  <1> DEFINE b == currentBranch
             Goal == WhatItReadIsSo(req[r])' /\ WhereItGoesIsPinned(req[r])'
  <1>a. /\ TypeOK /\ pinned[b] # 0 /\ b \in Branches /\ req[r] \in Request
        /\ req \in [Requests -> Request]
    BY DEF SeenInv, TypeOK
  <1>1. ASSUME NEW p \in Paths, OpenInEditor(r, p) PROVE Goal
    <2>1. /\ req'[r].op = "edit" /\ req'[r].pc = "editing" /\ req'[r].path = p
          /\ req'[r].seen = IF pending[b][p].kind # "none" THEN pending[b][p].seen
                            ELSE {TreeAt(pinned[b])[p]}
      BY <1>1, <1>a DEF OpenInEditor, IdleRequest
    <2>2. RowSeen(pending[b][p], p)
      BY <1>a DEF SeenInv, RowsAreSeen
    <2>3. Shown(p) \in req'[r].seen
      BY <2>1, <2>2 DEF Shown, RowSeen
    <2>4. UNCHANGED <<commits, currentBranch, pinned, pending>>
      BY <1>1 DEF OpenInEditor
    <2>5. PICK q : q = req'[r]
      OBVIOUS
    <2>6. Shown(q.path)' = Shown(q.path)
      BY <2>4 DEF Shown, TreeAt
    <2> QED
      BY <2>1, <2>3, <2>5, <2>6 DEF WhatItReadIsSo, WhereItGoesIsPinned
  <1>2. ASSUME NEW text \in Texts, BeginSave(r, text) PROVE Goal
    <2>1. req[r].op = "edit" /\ Shown(req[r].path) \in req[r].seen
      BY <1>2, <1>a, AtStep DEF BeginSave, SeenInv, WhatItReadIsSo
    <2>2. /\ req'[r].op = "edit" /\ req'[r].pc = "save" /\ req'[r].branch = b
          /\ req'[r].path = req[r].path /\ req'[r].seen = req[r].seen
      BY <1>2, <1>a, <2>1 DEF BeginSave, OpenThen, Request, RequestFields
    <2>3. UNCHANGED <<commits, currentBranch, pinned, pending>>
      BY <1>2 DEF BeginSave
    <2>4. PICK q : q = req'[r]
      OBVIOUS
    <2>5. Shown(q.path)' = Shown(q.path)
      BY <2>3 DEF Shown, TreeAt
    <2> QED
      BY <2>1, <2>2, <2>3, <2>4, <2>5 DEF WhatItReadIsSo, WhereItGoesIsPinned
  <1>3. CASE BeginOpen(r) \/ BeginSync(r) \/ BeginCommit(r)
    BY <1>3, <1>a, WhereBegun DEF BeginOpen, BeginSync, BeginCommit
  <1>4. ASSUME NEW p \in Paths, BeginDelete(r, p) \/ BeginDiscard(r, p) \/ BeginMine(r, p)
        PROVE  Goal
    BY <1>4, <1>a, WhereBegun DEF BeginDelete, BeginDiscard, BeginMine
  <1>5. ASSUME NEW name \in Branches, BeginCreateBranch(r, name) PROVE Goal
    BY <1>5, <1>a, WhereBegun DEF BeginCreateBranch, HasHead
  <1>6. ASSUME NEW name \in Branches, BeginSwitch(r, name) PROVE Goal
    BY <1>6, <1>a, WhereBegun DEF BeginSwitch
  <1> QED
    BY <1>1, <1>2, <1>3, <1>4, <1>5, <1>6 DEF Client

LEMMA HandlerReadsWhatIsSo ==
    ASSUME SeenInv, NEW r \in Requests, Handler(r)
    PROVE  WhatItReadIsSo(req[r])' /\ WhereItGoesIsPinned(req[r])'
  <1> DEFINE q == req[r]
             b == currentBranch
  <1>a. /\ TypeOK /\ pinned[b] # 0 /\ b \in Branches /\ q \in Request
        /\ req \in [Requests -> Request] /\ pending \in [Branches -> Rows]
        /\ pinned \in [Branches -> Sha] /\ ref \in [Branches -> Sha] /\ Len(commits) \in Nat
    BY DEF SeenInv, TypeOK
  <1>b. WhatItReadIsSo(q) /\ WhereItGoesIsPinned(q)
    BY DEF SeenInv
  <1>c. q.op = "edit" => q.pc \in {"editing", "save"}
    BY <1>b DEF WhatItReadIsSo
  <1>d. q.branch \in Branches /\ (q.op \in {"branch", "switch"} => q.to \in Branches)
    BY <1>a DEF Request, RequestFields
  <1>1. CASE Done(r)
    BY <1>1, <1>a, WhereDone
  <1>2. CASE ResolveHead(r) /\ ~Done(r)
    <2>1. /\ q.pc = "resolve" /\ ref[q.branch] # 0
          /\ req' = [req EXCEPT ![r].pc = "pin", ![r].source = ref[q.branch]]
      BY <1>2 DEF ResolveHead
    <2>2. q.op \in {"open", "sync"}
      BY <1>a, <1>b, <1>c, <2>1, AtStep DEF WhatItReadIsSo
    <2>3. req'[r].pc = "pin" /\ req'[r].op = q.op /\ req'[r].source # 0
      BY <1>a, <2>1 DEF Request, RequestFields
    <2> QED
      BY <2>2, <2>3 DEF WhatItReadIsSo, WhereItGoesIsPinned
  <1>3. CASE PinHead(r) /\ ~Done(r)
    BY <1>3, <1>b, <1>c DEF PinHead, WhatItReadIsSo
  <1>4. CASE ListForCommit(r) /\ ~Done(r)
    <2>1. /\ q.pc = "list" /\ UNCHANGED <<currentBranch, pinned, pending>>
          /\ req' = [req EXCEPT ![r].rows = pending[q.branch],
                                ![r].pc = OpenThen(q.head, "notEmpty")]
      BY <1>4 DEF ListForCommit
    <2>2. q.op = "commit" /\ q.branch = b /\ q.head = pinned[b]
      BY <1>a, <1>b, <2>1, AtStep DEF WhatItReadIsSo
    <2>3. OpenThen(q.head, "notEmpty") = "notEmpty"
      BY <1>a, <2>2 DEF OpenThen
    <2>4. /\ req'[r].pc = "notEmpty" /\ req'[r].op = "commit" /\ req'[r].branch = b
          /\ req'[r].head = pinned[b] /\ req'[r].rows = pending[b]
      BY <1>a, <2>1, <2>2, <2>3 DEF Request, RequestFields
    <2> QED
      BY <2>1, <2>4 DEF WhatItReadIsSo, WhereItGoesIsPinned
  <1>5. CASE (NotEmpty(r) \/ ReadRef(r)) /\ ~Done(r)
    <2>1. /\ q.pc \in {"notEmpty", "readRef"} /\ UNCHANGED <<currentBranch, pinned, pending>>
          /\ \/ req' = [req EXCEPT ![r].pc = "readRef"]
             \/ req' = [req EXCEPT ![r].pc = "moveRef", ![r].tip = ref[q.branch]]
      BY <1>5 DEF NotEmpty, ReadRef, Goto
    <2>2. /\ q.op = "commit" /\ q.branch = b /\ q.head = pinned[b]
          /\ q.rows = pending[b]
      BY <1>a, <1>b, <2>1, AtStep DEF WhatItReadIsSo
    <2>3. /\ req'[r].pc \in {"readRef", "moveRef"} /\ req'[r].op = "commit"
          /\ req'[r].branch = b /\ req'[r].head = pinned[b] /\ req'[r].rows = pending[b]
      BY <1>a, <2>1, <2>2 DEF Request, RequestFields
    <2> QED
      BY <2>1, <2>3 DEF WhatItReadIsSo, WhereItGoesIsPinned
  <1>6. CASE MoveRef(r) /\ ~Done(r)
    <2>1. /\ q.pc = "moveRef" /\ UNCHANGED <<currentBranch, pinned, pending>>
          /\ req' = [req EXCEPT ![r].pc = "clear", ![r].source = Len(commits) + 1]
      BY <1>6 DEF MoveRef
    <2>2. q.op = "commit" /\ q.branch = b /\ q.rows = pending[b]
      BY <1>a, <1>b, <2>1, AtStep DEF WhatItReadIsSo
    <2>3. /\ req'[r].pc = "clear" /\ req'[r].op = "commit" /\ req'[r].branch = b
          /\ req'[r].rows = pending[b] /\ req'[r].source # 0
      BY <1>a, <2>1, <2>2 DEF Request, RequestFields
    <2> QED
      BY <2>1, <2>3 DEF WhatItReadIsSo, WhereItGoesIsPinned
  <1>7. CASE Clear(r)
    <2>1. /\ q.pc = "clear" /\ UNCHANGED <<currentBranch, pinned>>
          /\ req' = [req EXCEPT ![r].pc = "pinNew"] /\ ClearCommitted(q.branch, q.rows)
      BY <1>7 DEF Clear, Goto
    <2>2. q.op = "commit" /\ q.branch = b /\ q.rows = pending[b] /\ q.source # 0
      BY <1>a, <1>b, <2>1, AtStep DEF WhatItReadIsSo, WhereItGoesIsPinned
    <2>3. /\ req'[r].pc = "pinNew" /\ req'[r].op = "commit" /\ req'[r].branch = b
          /\ req'[r].source # 0
      BY <1>a, <2>1, <2>2 DEF Request, RequestFields
    <2>4. ASSUME NEW p \in Paths PROVE pending'[b][p].kind = "none"
      BY <1>a, <2>1, <2>2 DEF ClearCommitted, StillAsCommitted, Rows, NoRow
    <2>5. Changed(pending'[b]) = {}
      BY <2>4 DEF Changed
    <2> QED
      BY <2>1, <2>3, <2>5 DEF WhatItReadIsSo, WhereItGoesIsPinned
  <1>8. CASE PinNew(r)
    <2>1. /\ q.pc = "pinNew" /\ UNCHANGED <<currentBranch, pending>>
          /\ req' = [req EXCEPT ![r].pc = "rebaseSpared"]
      BY <1>8 DEF PinNew, Goto
    <2>2. /\ q.op = "commit" /\ q.branch = b /\ q.source # 0 /\ Changed(pending[b]) = {}
      BY <1>a, <1>b, <2>1, AtStep DEF WhatItReadIsSo, WhereItGoesIsPinned
    <2>3. /\ req'[r].pc = "rebaseSpared" /\ req'[r].op = "commit" /\ req'[r].branch = b
          /\ req'[r].source # 0
      BY <1>a, <2>1, <2>2 DEF Request, RequestFields
    <2> QED
      BY <2>1, <2>2, <2>3 DEF WhatItReadIsSo, WhereItGoesIsPinned
  <1>9. CASE CreateRef(r) /\ ~Done(r)
    <2>1. /\ q.pc = "createRef"
          /\ \E pc \in {"movePending", "switch"} :
                req' = [req EXCEPT ![r].pc = pc, ![r].source = q.head]
      BY <1>9 DEF CreateRef
    <2>2. q.op = "branch" /\ q.head # 0
      BY <1>a, <1>b, <2>1, AtStep DEF WhereItGoesIsPinned
    <2>3. /\ req'[r].pc \in {"movePending", "switch"} /\ req'[r].op = "branch"
          /\ req'[r].source # 0
      BY <1>a, <2>1, <2>2 DEF Request, RequestFields
    <2> QED
      BY <2>3 DEF WhatItReadIsSo, WhereItGoesIsPinned
  <1>10. CASE MovePending(r)
    <2>1. q.pc = "movePending" /\ req' = [req EXCEPT ![r].pc = "switch"]
      BY <1>10 DEF MovePending, Goto
    <2>2. q.op = "branch" /\ q.source # 0
      BY <1>a, <1>b, <2>1, AtStep DEF WhereItGoesIsPinned
    <2>3. req'[r].pc = "switch" /\ req'[r].op = "branch" /\ req'[r].source # 0
      BY <1>a, <2>1, <2>2 DEF Request, RequestFields
    <2> QED
      BY <2>3 DEF WhatItReadIsSo, WhereItGoesIsPinned
  <1>11. CASE KnownHead(r)
    <2>1. /\ q.pc = "known" /\ pinned' = pinned
          /\ req' = [req EXCEPT ![r].pc = IF pinned[q.to] = 0 THEN "resolveTo" ELSE "switch"]
      BY <1>11 DEF KnownHead, Goto
    <2>2. q.op = "switch"
      BY <1>a, <2>1, AtStep
    <2>3. /\ req'[r].op = "switch" /\ req'[r].to = q.to
          /\ req'[r].pc = IF pinned[q.to] = 0 THEN "resolveTo" ELSE "switch"
      BY <1>a, <2>1, <2>2 DEF Request, RequestFields
    <2> QED
      BY <2>1, <2>3 DEF WhatItReadIsSo, WhereItGoesIsPinned
  <1>12. CASE ResolveTo(r) /\ ~Done(r)
    <2>1. /\ q.pc = "resolveTo" /\ ref[q.to] # 0
          /\ req' = [req EXCEPT ![r].pc = "switch", ![r].source = ref[q.to]]
      BY <1>12 DEF ResolveTo
    <2>2. q.op = "switch"
      BY <1>a, <2>1, AtStep
    <2>3. req'[r].op = "switch" /\ req'[r].pc = "switch" /\ req'[r].source # 0
      BY <1>a, <2>1, <2>2 DEF Request, RequestFields
    <2> QED
      BY <2>3 DEF WhatItReadIsSo, WhereItGoesIsPinned
  <1>13. Save(r) \/ Delete(r) \/ Discard(r) \/ RebaseMine(r) \/ RebaseSpared(r)
         \/ SwitchBranch(r) => Done(r)
    BY DEF Save, Delete, Discard, RebaseMine, RebaseSpared, SwitchBranch
  <1> QED
    BY <1>1, <1>2, <1>3, <1>4, <1>5, <1>6, <1>7, <1>8, <1>9, <1>10, <1>11, <1>12, <1>13
       DEF Handler

(* Where the author is, the branch stays pinned.                            *)
LEMMA StaysPinned ==
    ASSUME SeenInv, [Next]_vars
    PROVE  pinned'[currentBranch'] # 0
  <1>a. /\ pinned[currentBranch] # 0 /\ currentBranch \in Branches
        /\ pinned \in [Branches -> Sha] /\ req \in [Requests -> Request]
    BY DEF SeenInv, TypeOK
  <1>1. CASE UNCHANGED <<currentBranch, pinned>>
    BY <1>1, <1>a
  <1>2. ASSUME NEW r \in Requests, PinHead(r) \/ PinNew(r) PROVE pinned'[currentBranch'] # 0
    <2>1. req[r].source # 0
      BY <1>2 DEF PinHead, PinNew, SeenInv, WhereItGoesIsPinned
    <2> QED
      BY <1>2, <1>a, <2>1 DEF PinHead, PinNew, SetHeadSha
  <1>3. ASSUME NEW r \in Requests, SwitchBranch(r) PROVE pinned'[currentBranch'] # 0
    <2>1. req[r].source # 0 \/ pinned[req[r].to] # 0
      BY <1>3 DEF SwitchBranch, SeenInv, WhereItGoesIsPinned
    <2>2. req[r].to \in Branches
      <3>1. req[r].op \in {"branch", "switch"}
        BY <1>3, <1>a, AtStep DEF SwitchBranch
      <3> QED
        BY <1>a, <3>1 DEF Request, RequestFields
    <2> QED
      BY <1>3, <1>a, <2>1, <2>2 DEF SwitchBranch
  <1>4. ASSUME NEW r \in Requests, Client(r) \/ Abandon(r)
        PROVE  UNCHANGED <<currentBranch, pinned>>
    BY <1>4 DEF Client, BeginOpen, OpenInEditor, BeginDelete, BeginDiscard, Abandon,
       BeginMine, BeginSave, BeginSync, BeginCommit, BeginCreateBranch, BeginSwitch
  <1>5. ASSUME NEW r \in Requests, Handler(r)
        PROVE  \/ UNCHANGED <<currentBranch, pinned>>
               \/ PinHead(r) \/ PinNew(r) \/ SwitchBranch(r)
    BY <1>5 DEF Handler, Save, Delete, Discard, RebaseMine, ResolveHead, ListForCommit,
       NotEmpty, ReadRef, MoveRef, Clear, RebaseSpared, CreateRef, MovePending,
       KnownHead, ResolveTo
  <1>6. Outside \/ UNCHANGED vars => UNCHANGED <<currentBranch, pinned>>
    BY DEF Outside, Push, DeleteBranch, vars
  <1> QED
    BY <1>1, <1>2, <1>3, <1>4, <1>5, <1>6 DEF Next

LEMMA SeenInvStays ==
    ASSUME OneRequest, SeenInv, [Next]_vars
    PROVE  SeenInv'
  <1>a. TypeOK /\ req \in [Requests -> Request] /\ currentBranch \in Branches
        /\ pinned \in [Branches -> Sha] /\ pending \in [Branches -> Rows]
    BY DEF SeenInv, TypeOK
  <1>1. TypeOK' /\ pinned'[currentBranch'] # 0
    BY <1>a, NextTypeOK, StaysPinned
  <1>2. RowsAreSeen'
    BY <1>a, EditsAreSeen, RowsStaySeen
  <1>3. ASSUME NEW r \in Requests
        PROVE  WhatItReadIsSo(req[r])' /\ WhereItGoesIsPinned(req[r])'
    <2>1. CASE \E s \in Requests : Client(s) \/ Handler(s) \/ Abandon(s)
      <3>1. Client(r) \/ Handler(r) \/ Abandon(r)
        BY <2>1 DEF OneRequest
      <3>2. CASE Abandon(r)
        BY <1>a, <3>2, WhereDone DEF Abandon
      <3> QED
        BY <3>1, <3>2, ClientReadsWhatIsSo, HandlerReadsWhatIsSo
    <2>2. CASE Outside \/ UNCHANGED vars
      <3>1. UNCHANGED <<currentBranch, pinned, pending, req>>
        BY <2>2 DEF Outside, Push, DeleteBranch, vars
      <3>2. PICK q : q = req[r]
        OBVIOUS
      <3>3. WhatItReadIsSo(q) /\ WhereItGoesIsPinned(q) /\ q \in Request
        BY <1>a, <3>2 DEF SeenInv
      <3>4. q.op = "edit" => Shown(q.path)' = Shown(q.path)
        <4> SUFFICES ASSUME q.op = "edit" PROVE Shown(q.path)' = Shown(q.path)
          OBVIOUS
        <4>1. q.path \in Paths
          BY <3>3 DEF Request, RequestFields
        <4>2. PICK s : s = IF pending[currentBranch][q.path].kind = "none"
                           THEN pinned[currentBranch]
                           ELSE pending[currentBranch][q.path].base
          OBVIOUS
        <4>3. s \in Sha
          BY <1>a, <4>1, <4>2 DEF Rows, Row
        <4>4. TreeAt(s)' = TreeAt(s)
          BY <1>a, <4>3, TreesStay
        <4>5. Shown(q.path) = TreeAt(s)[q.path]
          BY <4>2 DEF Shown
        <4>6. Shown(q.path)' = TreeAt(s)'[q.path]
          BY <3>1, <4>2 DEF Shown, TreeAt
        <4> QED
          BY <4>4, <4>5, <4>6
      <3>5. WhatItReadIsSo(q)'
        BY <3>1, <3>3, <3>4 DEF WhatItReadIsSo
      <3>6. WhereItGoesIsPinned(q)'
        BY <3>1, <3>3 DEF WhereItGoesIsPinned
      <3> QED
        BY <3>1, <3>2, <3>5, <3>6 DEF WhatItReadIsSo, WhereItGoesIsPinned
    <2> QED
      BY <2>1, <2>2 DEF Next
  <1> QED
    BY <1>1, <1>2, <1>3 DEF SeenInv

LEMMA SeenInvHolds ==
    ASSUME OneRequest, "unopened" \notin World
    PROVE  Spec => []SeenInv
  <1>1. Init => SeenInv
    <2> SUFFICES ASSUME Init PROVE SeenInv
      OBVIOUS
    <2>1. \A r \in Requests : req[r].pc = "idle" /\ req[r].op = "none"
      BY DEF Init, IdleRequest
    <2>2. \A r \in Requests : WhatItReadIsSo(req[r]) /\ WhereItGoesIsPinned(req[r])
      BY <2>1 DEF WhatItReadIsSo, WhereItGoesIsPinned
    <2>3. pinned[currentBranch] # 0
      BY DEF Init
    <2>4. RowsAreSeen
      BY DEF Init, RowsAreSeen, RowSeen, NoRows, NoRow
    <2> QED
      BY <2>2, <2>3, <2>4, InitTypeOK DEF SeenInv
  <1>2. OneRequest /\ SeenInv /\ [Next]_vars => SeenInv'
    BY SeenInvStays
  <1> QED
    BY <1>1, <1>2, PTL DEF Spec

(* Civil never picks a side: of one author, whoever else pushes, a commit   *)
(* replaces on the branch only versions its author had in front of them     *)
(* (conflicts.ts:3-8), and touches no other file.                           *)
THEOREM OnlyTheSeenIsReplaced ==
    ASSUME OneRequest, "deleteBranch" \notin World, "unopened" \notin World
    PROVE  Spec => CommitsTouchWhatWasSeen
  <1>1. ASSUME LandingInv, SeenInv, [Next]_vars, NEW r \in Requests, Lands(r),
               NEW p \in Changed(req[r].rows)
        PROVE  TreeAt(ref[req[r].branch])[p] \in req[r].rows[p].seen
    <2>1. req[r] \in Request /\ req[r].pc = "moveRef" /\ currentBranch \in Branches
      BY <1>1 DEF SeenInv, TypeOK, Lands
    <2>2. /\ req[r].op = "commit"
          /\ req[r].rows = pending[currentBranch] /\ req[r].head = pinned[currentBranch]
      BY <1>1, <2>1, AtStep DEF SeenInv, WhatItReadIsSo
    <2>3. req[r].head # 0 /\ req[r].tip = req[r].head /\ req[r].tip = ref[req[r].branch]
      BY <1>1, <2>1, <2>2, ParentIsTheRef DEF SeenInv, LandingInv, BuildsOnItsHead
    <2>4. p \in Paths /\ req[r].rows[p].kind # "none"
      BY <1>1 DEF Changed
    <2>5. /\ req[r].rows[p].base # 0
          /\ TreeAt(req[r].rows[p].base)[p] \in req[r].rows[p].seen
      BY <1>1, <2>1, <2>2, <2>4 DEF SeenInv, RowsAreSeen, RowSeen
    <2>6. ~InConflict(req[r].rows[p], p, req[r].head)
      BY <1>1, <2>1, <2>2 DEF LandingInv, ListedWithoutConflict, Conflicts
    <2>7. TreeAt(req[r].rows[p].base)[p] = TreeAt(req[r].head)[p]
      BY <2>3, <2>5, <2>6 DEF InConflict
    <2> QED
      BY <2>3, <2>5, <2>7
  <1>2. LandingInv /\ SeenInv /\ [Next]_vars
        => [\A r \in Requests : Lands(r) =>
              \A p \in Changed(req[r].rows) :
                 TreeAt(ref[req[r].branch])[p]
                    \in req[r].rows[p].seen \cup {req[r].rows[p].text}]_vars
    BY <1>1
  <1>3. Spec => NoUnseenOverwrite
    BY <1>2, LandingInvHolds, SeenInvHolds, PTL DEF Spec, NoUnseenOverwrite
  <1> QED
    BY <1>3, TheRestIsLeftAlone DEF CommitsTouchWhatWasSeen

-----------------------------------------------------------------------------
(* A conflict the author is shown is a real one.  What makes a conflict     *)
(* false is a commit of Civil's own between an edit's base and the pin; so  *)
(* the invariant follows where such commits may lie: behind the pin and     *)
(* behind every base, except on a branch whose commit is still being put    *)
(* away.                                                                    *)

HistoryOf(sha) == IF sha = 0 THEN {} ELSE commits[sha].history

NoneOfOursSince(base, head) == \A c \in HistoryOf(head) \ HistoryOf(base) : commits[c].by # "civil"

(* The branch contains the commit, and nothing of Civil's that it does not. *)
Stands(sha, b) == sha # 0 /\ sha \in HistoryOf(ref[b]) /\ NoneOfOursSince(sha, ref[b])

(* A file differs from what it was in an ancestor only where a commit in    *)
(* between wrote it.                                                        *)
WrittenWhereDifferent ==
    \A c \in DOMAIN commits : \A a \in commits[c].history : \A p \in Paths :
        (\A d \in commits[c].history \ commits[a].history : p \notin commits[d].wrote) =>
            commits[a].tree[p] = commits[c].tree[p]

PinFits(b) ==
    pinned[b] # 0 => pinned[b] \in HistoryOf(ref[b]) /\ (~InFlight(b) => Stands(pinned[b], b))

RowFits(row, b) ==
    row.base # 0 => ref[b] # 0 /\ (~InFlight(b) => NoneOfOursSince(row.base, ref[b]))

(* Everything but typing, saving, deleting and discarding decides something *)
(* about a branch as a whole.                                               *)
Deciding(q) == q.pc \notin {"idle", "editing", "save", "delete", "revert"}

JustLanded(q) == q.pc \in {"clear", "pinNew", "rebaseSpared"}

(* Where a handler that decides is going.                                   *)
GoesWhereItStands(q) ==
    /\ Deciding(q) => q.branch = currentBranch
    /\ q.pc = "pin" => Stands(q.source, q.branch)
    /\ q.pc = "rebaseMine" => Stands(q.head, q.branch)
    /\ JustLanded(q) => Stands(q.source, q.branch)
    /\ q.pc = "rebaseSpared" => Stands(pinned[q.branch], q.branch)
    /\ q.pc = "createRef" => Stands(q.head, q.branch)
    /\ q.pc = "movePending" => Stands(q.head, q.branch) /\ Stands(q.head, q.to) /\ q.source = q.head
    /\ q.pc = "known" => q.source = 0
    /\ q.pc = "switch" /\ q.source # 0 => Stands(q.source, q.to)

RealInv ==
    /\ LandingInv /\ WrittenWhereDifferent
    /\ \A b \in Branches : PinFits(b) /\ \A p \in Paths : RowFits(pending[b][p], b)
    /\ \A r \in Requests : GoesWhereItStands(req[r])

(* One handler decides at a time, while any number of tabs keep editing;    *)
(* and a commit that has landed is put away: it does not die before its     *)
(* rows are cleared, its branch pinned and what was spared rebased.         *)
OneDecides == \A r, s \in Requests : Deciding(req[r]) /\ Deciding(req[s]) => r = s
PutsAway == \A r \in Requests : JustLanded(req[r]) /\ Abandon(r) => RebaseSpared(r)

-----------------------------------------------------------------------------
(* Histories.                                                               *)

LEMMA HistoriesStay ==
    ASSUME TypeOK, HistoryIsWhole, [Next]_vars, NEW s \in Sha
    PROVE  /\ HistoryOf(s)' = HistoryOf(s) /\ HistoryOf(s) \subseteq 1 .. Len(commits)
           /\ s # 0 => s \in HistoryOf(s)
           /\ \A c \in HistoryOf(s) : commits'[c] = commits[c] /\ commits[c].history \subseteq HistoryOf(s)
  <1>a. Len(commits) \in Nat /\ DOMAIN commits = 1 .. Len(commits)
    BY DEF TypeOK
  <1>1. CASE s = 0
    BY <1>1 DEF HistoryOf
  <1>2. CASE s # 0
    <2>1. s \in 1 .. Len(commits)
      BY <1>2, <1>a DEF Sha
    <2>2. commits'[s] = commits[s] /\ commits[s].history \subseteq 1 .. s
          /\ s \in commits[s].history
          /\ \A c \in commits[s].history : commits[c].history \subseteq commits[s].history
      BY <1>a, <2>1, CommitsStay DEF HistoryIsWhole
    <2>3. commits[s].history \subseteq 1 .. Len(commits)
      BY <1>a, <2>1, <2>2
    <2>4. HistoryOf(s) = commits[s].history /\ HistoryOf(s)' = commits'[s].history
      BY <1>2 DEF HistoryOf
    <2> QED
      BY <2>1, <2>2, <2>3, <2>4, CommitsStay
  <1> QED
    BY <1>1, <1>2

(* A branch to which nothing of Civil's is added.                           *)
Quiet(b) ==
    ref[b] # 0 =>
        /\ ref'[b] # 0 /\ HistoryOf(ref[b]) \subseteq HistoryOf(ref[b])'
        /\ \A c \in HistoryOf(ref[b])' \ HistoryOf(ref[b]) : commits'[c].by # "civil"

LEMMA QuietKeeps ==
    ASSUME TypeOK, HistoryIsWhole, [Next]_vars, NEW b \in Branches, Quiet(b), NEW s \in Sha
    PROVE  /\ Stands(s, b) => Stands(s, b)'
           /\ ref[b] # 0 /\ NoneOfOursSince(s, ref[b]) => NoneOfOursSince(s, ref[b])'
           /\ s \in HistoryOf(ref[b]) => s \in HistoryOf(ref[b])'
  <1>1. ref[b] \in Sha
    BY DEF TypeOK
  <1>2. HistoryOf(s)' = HistoryOf(s)
    BY HistoriesStay
  <1>3. \A c \in HistoryOf(ref[b]) : commits'[c] = commits[c]
    BY <1>1, HistoriesStay
  <1>4. s \in HistoryOf(ref[b]) => ref[b] # 0
    BY DEF HistoryOf
  <1>5. ref[b] # 0 /\ NoneOfOursSince(s, ref[b]) => NoneOfOursSince(s, ref[b])'
    <2> SUFFICES ASSUME ref[b] # 0, NoneOfOursSince(s, ref[b]),
                        NEW c \in HistoryOf(ref[b])' \ HistoryOf(s)'
                 PROVE  commits'[c].by # "civil"
      BY DEF NoneOfOursSince
    <2>1. CASE c \in HistoryOf(ref[b])
      BY <1>2, <1>3, <2>1 DEF NoneOfOursSince
    <2>2. CASE c \notin HistoryOf(ref[b])
      BY <2>2 DEF Quiet
    <2> QED
      BY <2>1, <2>2
  <1> QED
    BY <1>4, <1>5 DEF Quiet, Stands

(* How commits grow.                                                        *)
LEMMA PushAdds ==
    ASSUME TypeOK, NEW b \in Branches, NEW p \in Paths, NEW blob \in Blob, Push(b, p, blob)
    PROVE  \E c : /\ commits' = Append(commits, c)
                  /\ ref[b] # 0 /\ ref' = [ref EXCEPT ![b] = Len(commits) + 1]
                  /\ c.history = {Len(commits) + 1} \cup commits[ref[b]].history
                  /\ c.by = "upstream"
                  /\ \A f \in Paths : f \notin c.wrote => c.tree[f] = commits[ref[b]].tree[f]
  <1> DEFINE c == [tree    |-> [TreeAt(ref[b]) EXCEPT ![p] = blob],
                   history |-> commits[ref[b]].history \cup {Len(commits) + 1},
                   branch  |-> b, by |-> "upstream", wrote |-> {p}]
  <1>1. commits' = Append(commits, c) /\ ref[b] # 0 /\ ref' = [ref EXCEPT ![b] = Len(commits) + 1]
    BY DEF Push
  <1>2. c.history = {Len(commits) + 1} \cup commits[ref[b]].history /\ c.by = "upstream"
    OBVIOUS
  <1>3. \A f \in Paths : f \notin c.wrote => c.tree[f] = commits[ref[b]].tree[f]
    <2>1. TreeAt(ref[b]) = commits[ref[b]].tree /\ TreeAt(ref[b]) \in Tree
      BY <1>1, Basics DEF TreeAt, TypeOK
    <2> QED
      BY <2>1 DEF Tree
  <1> QED
    BY <1>1, <1>2, <1>3

LEMMA LandingAdds ==
    ASSUME LandingInv, [Next]_vars, NEW r \in Requests, Lands(r)
    PROVE  \E c : /\ commits' = Append(commits, c)
                  /\ ref[req[r].branch] # 0
                  /\ ref' = [ref EXCEPT ![req[r].branch] = Len(commits) + 1]
                  /\ c.history = {Len(commits) + 1} \cup commits[ref[req[r].branch]].history
                  /\ req' = [req EXCEPT ![r].pc = "clear", ![r].source = Len(commits) + 1]
                  /\ \A f \in Paths : f \notin c.wrote => c.tree[f] = commits[ref[req[r].branch]].tree[f]
                  /\ UNCHANGED <<currentBranch, pinned, pending>>
  <1>1. /\ commits' = Append(commits, NewCommit(r))
        /\ req[r].tip = ref[req[r].branch] /\ req[r].tip # 0
    BY ParentIsTheRef DEF LandingInv
  <1>2. MoveRef(r) /\ ~Done(r)
    <2>1. MoveRef(r)
      BY HowToGetThere DEF Lands, LandingInv
    <2>2. req \in [Requests -> Request] /\ IdleRequest.pc = "idle"
      BY DEF LandingInv, TypeOK, IdleRequest
    <2> QED
      BY <2>1, <2>2 DEF Done, Lands
  <1>3. /\ ref' = [ref EXCEPT ![req[r].branch] = Len(commits) + 1]
        /\ req' = [req EXCEPT ![r].pc = "clear", ![r].source = Len(commits) + 1]
        /\ UNCHANGED <<currentBranch, pinned, pending>>
    BY <1>2 DEF MoveRef
  <1>4. NewCommit(r).history = {Len(commits) + 1} \cup commits[ref[req[r].branch]].history
    BY <1>1 DEF NewCommit
  <1>5. ASSUME NEW f \in Paths, f \notin NewCommit(r).wrote
        PROVE  NewCommit(r).tree[f] = commits[ref[req[r].branch]].tree[f]
    <2>1. req[r].rows[f].kind = "none"
      BY <1>5 DEF NewCommit, Changed
    <2> QED
      BY <1>1, <2>1 DEF NewCommit, NewTree, TreeAt
  <1> QED
    BY <1>1, <1>3, <1>4, <1>5

LEMMA WhoMovesRefs ==
    ASSUME LandingInv, "deleteBranch" \notin World, [Next]_vars
    PROVE  \/ \E r \in Requests : Lands(r)
           \/ \E b \in Branches, p \in Paths, blob \in Blob : Push(b, p, blob)
           \/ \E r \in Requests : CreateRef(r) /\ commits' = commits
           \/ UNCHANGED <<commits, ref>>
  <1>a. req \in [Requests -> Request]
    BY DEF LandingInv, TypeOK
  <1>1. ASSUME NEW r \in Requests, Client(r) PROVE UNCHANGED <<commits, ref>>
    BY <1>1 DEF Client, BeginOpen, OpenInEditor, BeginDelete, BeginDiscard,
       BeginMine, BeginSave, BeginSync, BeginCommit, BeginCreateBranch, BeginSwitch
  <1>2. ASSUME NEW r \in Requests, Handler(r), ~MoveRef(r), ~CreateRef(r)
        PROVE  UNCHANGED <<commits, ref>>
    BY <1>2 DEF Handler, Save, Delete, Discard, RebaseMine, ResolveHead, PinHead,
       ListForCommit, NotEmpty, ReadRef, Clear, PinNew, RebaseSpared,
       MovePending, KnownHead, ResolveTo, SwitchBranch
  <1>3. ASSUME NEW r \in Requests, MoveRef(r), ~Lands(r) PROVE UNCHANGED <<commits, ref>>
    <2>1. req[r].pc = "moveRef" /\ req'[r].pc # "clear"
      BY <1>3 DEF MoveRef, Lands
    <2>2. ~(req' = [req EXCEPT ![r].pc = "clear", ![r].source = Len(commits) + 1])
      BY <1>a, <2>1 DEF Request, RequestFields
    <2> QED
      BY <1>3, <2>2 DEF MoveRef
  <1>4. ASSUME NEW r \in Requests, CreateRef(r) PROVE commits' = commits
    BY <1>4 DEF CreateRef
  <1>5. ASSUME Outside
        PROVE  \E b \in Branches, p \in Paths, blob \in Blob : Push(b, p, blob)
    BY <1>5 DEF Outside, DeleteBranch
  <1> QED
    BY <1>1, <1>2, <1>3, <1>4, <1>5 DEF Next, vars, Abandon

(* Where a commit is added to a branch, and nothing else.                   *)
LEMMA AddedTo ==
    ASSUME TypeOK, HistoryIsWhole, [Next]_vars, NEW b \in Branches, ref[b] # 0, NEW c,
           commits' = Append(commits, c), ref' = [ref EXCEPT ![b] = Len(commits) + 1],
           c.history = {Len(commits) + 1} \cup commits[ref[b]].history
    PROVE  /\ HistoryOf(ref[b])' = {Len(commits) + 1} \cup HistoryOf(ref[b])
           /\ commits'[Len(commits) + 1] = c /\ ref'[b] = Len(commits) + 1
           /\ \A o \in Branches : o # b => ref'[o] = ref[o] /\ HistoryOf(ref[o])' = HistoryOf(ref[o])
  <1>1. /\ Len(commits) \in Nat /\ ref \in [Branches -> Sha] /\ commits \in Seq(Commit)
    BY DEF TypeOK
  <1>2. commits'[Len(commits) + 1] = c /\ ref'[b] = Len(commits) + 1
    BY <1>1
  <1>3. HistoryOf(ref[b])' = c.history /\ HistoryOf(ref[b]) = commits[ref[b]].history
    BY <1>1, <1>2 DEF HistoryOf
  <1>4. ASSUME NEW o \in Branches, o # b
        PROVE  ref'[o] = ref[o] /\ HistoryOf(ref[o])' = HistoryOf(ref[o])
    <2>1. ref'[o] = ref[o] /\ ref[o] \in Sha
      BY <1>1, <1>4
    <2>2. PICK s \in Sha : s = ref[o]
      BY <2>1
    <2>3. HistoryOf(s)' = HistoryOf(s)
      BY HistoriesStay
    <2> QED
      BY <2>1, <2>2, <2>3 DEF HistoryOf
  <1> QED
    BY <1>2, <1>3, <1>4

LEMMA RestIsQuiet ==
    ASSUME LandingInv, "deleteBranch" \notin World, [Next]_vars, NEW b \in Branches,
           \A r \in Requests : Lands(r) => req[r].branch # b
    PROVE  Quiet(b)
  <1>a. TypeOK /\ HistoryIsWhole
    BY DEF LandingInv
  <1>0. ref[b] \in Sha /\ Len(commits) \in Nat
    BY <1>a DEF TypeOK
  <1>1. CASE ref'[b] = ref[b]
    <2>1. PICK s \in Sha : s = ref[b]
      BY <1>0
    <2>2. HistoryOf(s)' = HistoryOf(s)
      BY <1>a, HistoriesStay
    <2>3. HistoryOf(ref[b])' = HistoryOf(ref[b])
      BY <1>1, <2>1, <2>2 DEF HistoryOf
    <2> QED
      BY <1>1, <2>3 DEF Quiet
  <1>2. ASSUME NEW r \in Requests, Lands(r) PROVE Quiet(b)
    <2>1. PICK c : /\ commits' = Append(commits, c) /\ ref[req[r].branch] # 0
                   /\ ref' = [ref EXCEPT ![req[r].branch] = Len(commits) + 1]
                   /\ c.history = {Len(commits) + 1} \cup commits[ref[req[r].branch]].history
      BY <1>2, LandingAdds
    <2>2. req[r].branch # b /\ req[r].branch \in Branches
      BY <1>2, <1>a DEF TypeOK, Request, RequestFields
    <2> QED
      BY <1>1, <1>a, <2>1, <2>2, AddedTo
  <1>3. ASSUME NEW x \in Branches, NEW p \in Paths, NEW blob \in Blob, Push(x, p, blob)
        PROVE  Quiet(b)
    <2>1. PICK c : /\ commits' = Append(commits, c)
                   /\ ref[x] # 0 /\ ref' = [ref EXCEPT ![x] = Len(commits) + 1]
                   /\ c.history = {Len(commits) + 1} \cup commits[ref[x]].history
                   /\ c.by = "upstream"
      BY <1>3, <1>a, PushAdds
    <2>2. CASE x = b
      <3>1. /\ HistoryOf(ref[b])' = {Len(commits) + 1} \cup HistoryOf(ref[b])
            /\ commits'[Len(commits) + 1] = c /\ ref'[b] = Len(commits) + 1
        BY <1>a, <2>1, <2>2, AddedTo
      <3> QED
        BY <1>0, <2>1, <3>1 DEF Quiet
    <2>3. CASE x # b
      BY <1>1, <1>a, <2>1, <2>3, AddedTo
    <2> QED
      BY <2>2, <2>3
  <1>4. ASSUME NEW r \in Requests, CreateRef(r), ref[b] # 0 PROVE ref'[b] = ref[b]
    BY <1>4, <1>a DEF CreateRef, TypeOK
  <1>5. CASE ref[b] = 0
    BY <1>5 DEF Quiet
  <1> QED
    BY <1>1, <1>2, <1>3, <1>4, <1>5, WhoMovesRefs

LEMMA DifferencesStayWritten ==
    ASSUME LandingInv, WrittenWhereDifferent, "deleteBranch" \notin World, [Next]_vars
    PROVE  WrittenWhereDifferent'
  <1>a. TypeOK /\ HistoryIsWhole
    BY DEF LandingInv
  <1>0. Len(commits) \in Nat /\ DOMAIN commits = 1 .. Len(commits) /\ commits \in Seq(Commit)
    BY <1>a DEF TypeOK
  <1>1. ASSUME commits' = commits PROVE WrittenWhereDifferent'
    BY <1>1 DEF WrittenWhereDifferent
  <1>2. ASSUME NEW b \in Branches, NEW c, ref[b] # 0, commits' = Append(commits, c),
               c.history = {Len(commits) + 1} \cup commits[ref[b]].history,
               \A f \in Paths : f \notin c.wrote => c.tree[f] = commits[ref[b]].tree[f]
        PROVE  WrittenWhereDifferent'
    <2> DEFINE n == Len(commits) + 1
    <2>1. ref[b] \in 1 .. Len(commits)
      BY <1>a, <1>2 DEF TypeOK, Sha
    <2>2. DOMAIN commits' = 1 .. n /\ commits'[n] = c
          /\ \A d \in 1 .. Len(commits) : commits'[d] = commits[d]
      BY <1>0, <1>2
    <2>3. \A d \in 1 .. Len(commits) : commits[d].history \subseteq 1 .. Len(commits)
      BY <1>0, <1>a DEF HistoryIsWhole
    <2> SUFFICES ASSUME NEW d \in 1 .. n, NEW a \in commits'[d].history, NEW p \in Paths,
                        \A e \in commits'[d].history \ commits'[a].history : p \notin commits'[e].wrote
                 PROVE  commits'[a].tree[p] = commits'[d].tree[p]
      BY <2>2 DEF WrittenWhereDifferent
    <2>4. CASE d \in 1 .. Len(commits)
      <3>1. commits'[d] = commits[d] /\ a \in 1 .. Len(commits) /\ commits'[a] = commits[a]
        BY <2>2, <2>3, <2>4
      <3>2. \A e \in commits[d].history \ commits[a].history : p \notin commits[e].wrote
        BY <2>2, <2>3, <2>4, <3>1
      <3> QED
        BY <1>0, <2>4, <3>1, <3>2 DEF WrittenWhereDifferent
    <2>5. CASE d = n /\ a = n
      BY <2>5
    <2>6. CASE d = n /\ a # n
      <3>1. a \in commits[ref[b]].history /\ a \in 1 .. Len(commits) /\ commits'[a] = commits[a]
        BY <1>2, <2>1, <2>2, <2>3, <2>6
      <3>2. n \notin commits[a].history /\ n \in commits'[d].history
        BY <1>0, <1>2, <2>2, <2>3, <2>6, <3>1
      <3>3. c.tree[p] = commits[ref[b]].tree[p]
        BY <1>2, <2>2, <2>6, <3>1, <3>2
      <3>4. ASSUME NEW e \in commits[ref[b]].history \ commits[a].history PROVE p \notin commits[e].wrote
        <4>1. e \in 1 .. Len(commits) /\ commits'[e] = commits[e] /\ e \in commits'[d].history
          BY <1>2, <2>1, <2>2, <2>3, <2>6
        <4> QED
          BY <3>1, <4>1
      <3>5. commits[a].tree[p] = commits[ref[b]].tree[p]
        BY <1>0, <2>1, <3>1, <3>4 DEF WrittenWhereDifferent
      <3> QED
        BY <2>2, <2>6, <3>1, <3>3, <3>5
    <2> QED
      BY <1>0, <2>4, <2>5, <2>6
  <1>3. ASSUME NEW r \in Requests, Lands(r) PROVE WrittenWhereDifferent'
    <2>1. req[r].branch \in Branches
      BY <1>a DEF TypeOK, Request, RequestFields
    <2>2. PICK c : /\ commits' = Append(commits, c)
                   /\ ref[req[r].branch] # 0
                   /\ ref' = [ref EXCEPT ![req[r].branch] = Len(commits) + 1]
                   /\ c.history = {Len(commits) + 1} \cup commits[ref[req[r].branch]].history
                   /\ req' = [req EXCEPT ![r].pc = "clear", ![r].source = Len(commits) + 1]
                   /\ \A f \in Paths : f \notin c.wrote => c.tree[f] = commits[ref[req[r].branch]].tree[f]
                   /\ UNCHANGED <<currentBranch, pinned, pending>>
      BY <1>3, LandingAdds
    <2> QED
      BY <1>2, <2>1, <2>2
  <1>4. ASSUME NEW x \in Branches, NEW p \in Paths, NEW blob \in Blob, Push(x, p, blob)
        PROVE  WrittenWhereDifferent'
    BY <1>2, <1>4, <1>a, PushAdds
  <1> QED
    BY <1>1, <1>3, <1>4, WhoMovesRefs

-----------------------------------------------------------------------------
(* Who acts.                                                                *)

Acts(r) == Client(r) \/ Handler(r) \/ Abandon(r)

LEMMA OnlyItsOwn ==
    ASSUME TypeOK, NEW r \in Requests, Acts(r)
    PROVE  \A s \in Requests : s # r => req'[s] = req[s]
  <1>a. req \in [Requests -> Request]
    BY DEF TypeOK
  <1>1. ASSUME Client(r) PROVE \A s \in Requests : s # r => req'[s] = req[s]
    BY <1>a, <1>1 DEF Client, BeginOpen, OpenInEditor, BeginDelete, BeginDiscard,
       BeginMine, BeginSave, BeginSync, BeginCommit, BeginCreateBranch, BeginSwitch, Begin
  <1>2. ASSUME Done(r) PROVE \A s \in Requests : s # r => req'[s] = req[s]
    BY <1>a, <1>2 DEF Done
  <1>3. ASSUME NEW pc, Goto(r, pc) PROVE \A s \in Requests : s # r => req'[s] = req[s]
    BY <1>a, <1>3 DEF Goto
  <1>4. ASSUME Save(r) \/ Delete(r) \/ Discard(r) \/ RebaseMine(r) \/ RebaseSpared(r)
               \/ SwitchBranch(r) \/ Abandon(r)
        PROVE  Done(r)
    BY <1>4 DEF Save, Delete, Discard, RebaseMine, RebaseSpared, SwitchBranch, Abandon
  <1>5. ASSUME PinHead(r) \/ NotEmpty(r) \/ Clear(r) \/ PinNew(r) \/ MovePending(r) \/ KnownHead(r)
        PROVE  Done(r) \/ \E pc : Goto(r, pc)
    BY <1>5 DEF PinHead, NotEmpty, Clear, PinNew, MovePending, KnownHead
  <1>6. ASSUME ResolveHead(r) \/ ListForCommit(r) \/ ReadRef(r) \/ MoveRef(r) \/ ResolveTo(r)
        PROVE  \A s \in Requests : s # r => req'[s] = req[s]
    BY <1>2, <1>6, <1>a DEF ResolveHead, ListForCommit, ReadRef, MoveRef, ResolveTo
  <1>7. ASSUME CreateRef(r)
        PROVE  \A s \in Requests : s # r => req'[s] = req[s]
    BY <1>2, <1>7, <1>a DEF CreateRef
  <1> QED
    BY <1>1, <1>2, <1>3, <1>4, <1>5, <1>6, <1>7 DEF Acts, Handler

(* What does not decide leaves branches, refs and pins alone.               *)
LEMMA WhoDecides ==
    ASSUME TypeOK, NEW r \in Requests, Acts(r)
    PROVE  \/ Deciding(req[r]) /\ (Handler(r) \/ Abandon(r))
           \/ Client(r) \/ Save(r) \/ Delete(r) \/ Discard(r) \/ Abandon(r)
  BY DEF Acts, Handler, Deciding, RebaseMine, ResolveHead, PinHead,
     ListForCommit, NotEmpty, ReadRef, MoveRef, Clear, PinNew, RebaseSpared,
     CreateRef, MovePending, KnownHead, ResolveTo, SwitchBranch

LEMMA TheyLeaveBranchesAlone ==
    ASSUME NEW r \in Requests, Client(r) \/ Save(r) \/ Delete(r) \/ Discard(r) \/ Abandon(r)
    PROVE  UNCHANGED <<commits, ref, currentBranch, pinned>>
  BY DEF Client, BeginOpen, OpenInEditor, BeginDelete, BeginDiscard, Abandon, Save, Delete, Discard,
     BeginMine, BeginSave, BeginSync, BeginCommit, BeginCreateBranch, BeginSwitch

(* Nothing a handler rests on changes while the branches stay.              *)
LEMMA StandsStill ==
    ASSUME UNCHANGED <<commits, ref>>
    PROVE  \A s, b : Stands(s, b)' = Stands(s, b)
  BY DEF Stands, NoneOfOursSince, HistoryOf

LEMMA OthersGoOn ==
    ASSUME TypeOK, OneDecides, OneDecides', NEW r \in Requests, Acts(r),
           NEW s \in Requests, s # r, GoesWhereItStands(req[s])
    PROVE  GoesWhereItStands(req[s])'
  <1>1. req'[s] = req[s]
    BY OnlyItsOwn
  <1>2. CASE ~Deciding(req[s])
    BY <1>1, <1>2 DEF GoesWhereItStands, Deciding, JustLanded
  <1>3. CASE Deciding(req[s])
    <2>1. ~Deciding(req[r])
      BY <1>3 DEF OneDecides
    <2>2. UNCHANGED <<commits, ref, currentBranch, pinned>>
      BY <2>1, WhoDecides, TheyLeaveBranchesAlone
    <2>3. PICK q : q = req[s]
      OBVIOUS
    <2>4. GoesWhereItStands(q)'
      BY <2>2, <2>3, StandsStill DEF GoesWhereItStands
    <2> QED
      BY <1>1, <2>3, <2>4, <2>2 DEF GoesWhereItStands
  <1> QED
    BY <1>2, <1>3

(* A request that is over, or only edits.                                   *)
LEMMA NotDecidingIsFine ==
    ASSUME NEW r, ~Deciding(req'[r])
    PROVE  GoesWhereItStands(req[r])'
  BY DEF GoesWhereItStands, Deciding, JustLanded

LEMMA DoneIsFine ==
    ASSUME TypeOK, NEW r \in Requests, Done(r)
    PROVE  ~Deciding(req'[r]) /\ GoesWhereItStands(req[r])'
  <1>1. req'[r].pc = "idle"
    BY DEF Done, TypeOK, IdleRequest
  <1>2. ~Deciding(req'[r])
    BY <1>1 DEF Deciding
  <1> QED
    BY <1>2, NotDecidingIsFine

(* A pin, where nothing has just landed.                                    *)
LEMMA NobodyInFlight ==
    ASSUME OneDecides, NEW r \in Requests, Deciding(req[r]), ~JustLanded(req[r]), NEW b
    PROVE  ~InFlight(b)
  BY DEF OneDecides, Deciding, JustLanded, InFlight

LEMMA BeginsWhereItStands ==
    ASSUME RealInv, OneDecides', NEW r \in Requests, Client(r)
    PROVE  GoesWhereItStands(req[r])'
  <1>a. /\ TypeOK /\ req \in [Requests -> Request] /\ currentBranch \in Branches
        /\ UNCHANGED <<commits, ref, currentBranch, pinned>>
    BY TheyLeaveBranchesAlone DEF RealInv, LandingInv, TypeOK
  <1>1. ASSUME NEW p \in Paths, OpenInEditor(r, p) PROVE GoesWhereItStands(req[r])'
    <2>1. req'[r].pc = "editing"
      BY <1>1, <1>a DEF OpenInEditor, IdleRequest
    <2> QED
      BY <2>1, NotDecidingIsFine DEF Deciding
  <1>2. ASSUME NEW text \in Texts, BeginSave(r, text) PROVE GoesWhereItStands(req[r])'
    <2>1. req'[r].pc \in {"resolve", "save"} /\ req'[r].branch = currentBranch
      BY <1>2, <1>a DEF BeginSave, OpenThen, Request, RequestFields
    <2> QED
      BY <1>a, <2>1 DEF GoesWhereItStands, JustLanded
  <1>3. ASSUME NEW op, NEW pc \in {"resolve", "delete", "revert", "list", "createRef", "known", "rebaseMine"},
               NEW path, NEW to, Begin(r, op, pc, path, to),
               pc \in {"createRef", "rebaseMine"} => HasHead
        PROVE  GoesWhereItStands(req[r])'
    <2>1. /\ req'[r].pc = pc /\ req'[r].branch = currentBranch
          /\ req'[r].head = pinned[currentBranch] /\ req'[r].source = 0
      BY <1>3, <1>a DEF Begin, IdleRequest
    <2>2. CASE pc \in {"createRef", "rebaseMine"}
      <3>1. ~InFlight(currentBranch)
        <4> SUFFICES ASSUME NEW s \in Requests, JustLanded(req[s]) PROVE FALSE
          BY DEF InFlight, JustLanded
        <4>1. s # r /\ Deciding(req[s])
          BY <1>3 DEF Begin, JustLanded, Deciding
        <4>2. req'[s] = req[s]
          BY <1>a, <4>1, OnlyItsOwn DEF Acts
        <4>3. Deciding(req'[s]) /\ Deciding(req'[r])
          BY <2>1, <2>2, <4>1, <4>2 DEF Deciding
        <4> QED
          BY <4>1, <4>3 DEF OneDecides
      <3>2. Stands(pinned[currentBranch], currentBranch)
        BY <1>3, <1>a, <2>2, <3>1 DEF RealInv, PinFits, HasHead
      <3>3. Stands(req'[r].head, req'[r].branch)
        BY <2>1, <3>2
      <3>4. Stands(req[r].head, req[r].branch)'
        BY <1>a, <3>3 DEF Stands, NoneOfOursSince, HistoryOf
      <3> QED
        BY <1>a, <2>1, <2>2, <3>4 DEF GoesWhereItStands, JustLanded
    <2>3. CASE pc \notin {"createRef", "rebaseMine"}
      BY <1>a, <2>1, <2>3 DEF GoesWhereItStands, JustLanded
    <2> QED
      BY <2>2, <2>3
  <1> QED
    BY <1>1, <1>2, <1>3 DEF Client, BeginOpen, BeginDelete, BeginDiscard, BeginMine,
       BeginSync, BeginCommit, BeginCreateBranch, BeginSwitch

LEMMA RefStands ==
    ASSUME TypeOK, HistoryIsWhole, NEW b \in Branches, ref[b] # 0
    PROVE  Stands(ref[b], b)
  <1>1. ref[b] \in 1 .. Len(commits) /\ DOMAIN commits = 1 .. Len(commits)
    BY DEF TypeOK, Sha
  <1> QED
    BY <1>1 DEF Stands, HistoryOf, HistoryIsWhole, NoneOfOursSince

LEMMA RefStandsNext ==
    ASSUME TypeOK', HistoryIsWhole', NEW b \in Branches, ref'[b] # 0
    PROVE  Stands(ref[b], b)'
  <1>1. ref'[b] \in 1 .. Len(commits') /\ DOMAIN commits' = 1 .. Len(commits')
    BY DEF TypeOK, Sha
  <1> QED
    BY <1>1 DEF Stands, HistoryOf, HistoryIsWhole, NoneOfOursSince

LEMMA HandlerGoesWhereItStands ==
    ASSUME RealInv, "deleteBranch" \notin World, [Next]_vars, NEW r \in Requests, Handler(r)
    PROVE  GoesWhereItStands(req[r])'
  <1>a. /\ TypeOK /\ HistoryIsWhole /\ req \in [Requests -> Request] /\ currentBranch \in Branches
        /\ TypeOK' /\ HistoryIsWhole' /\ LandingInv
    BY HistoryStaysWhole, NextTypeOK DEF RealInv, LandingInv, TypeOK
  <1>b. PICK q \in Request : q = req[r]
    BY <1>a
  <1>c. GoesWhereItStands(q)
    BY <1>b DEF RealInv
  <1>d. /\ q.branch \in Branches /\ q.source \in Sha /\ q.head \in Sha
        /\ q.op \in {"branch", "switch"} => q.to \in Branches
    BY DEF Request, RequestFields
  <1>e. ASSUME Done(r) PROVE GoesWhereItStands(req[r])'
    BY <1>a, <1>e, DoneIsFine
  <1>g. ASSUME NEW pc \in {"save", "notEmpty", "readRef", "moveRef", "list", "resolve", "resolveTo"},
               req'[r].pc = pc, req'[r].branch = q.branch, Deciding(q), currentBranch' = currentBranch
        PROVE  GoesWhereItStands(req[r])'
    BY <1>c, <1>g DEF GoesWhereItStands, JustLanded
  <1>1. ASSUME Save(r) \/ Delete(r) \/ Discard(r) \/ RebaseMine(r) \/ RebaseSpared(r) \/ SwitchBranch(r)
        PROVE  GoesWhereItStands(req[r])'
    BY <1>1, <1>e DEF Save, Delete, Discard, RebaseMine, RebaseSpared, SwitchBranch
  <1>2. ASSUME ResolveHead(r) PROVE GoesWhereItStands(req[r])'
    <2>1. CASE Done(r)
      BY <2>1, <1>e
    <2>2. CASE ~Done(r)
      <3>1. /\ ref[q.branch] # 0 /\ UNCHANGED <<commits, ref, currentBranch, pinned>> /\ Deciding(q)
            /\ req' = [req EXCEPT ![r].pc = "pin", ![r].source = ref[q.branch]]
        BY <1>2, <1>b, <2>2 DEF ResolveHead, Deciding
      <3>2. req'[r].pc = "pin" /\ req'[r].branch = q.branch /\ req'[r].source = ref[q.branch]
        BY <1>a, <1>b, <3>1 DEF Request, RequestFields
      <3>3. Stands(ref[q.branch], q.branch)
        BY <1>a, <1>d, <3>1, RefStands
      <3>4. Stands(req[r].source, req[r].branch)'
        BY <3>1, <3>2, <3>3 DEF Stands, NoneOfOursSince, HistoryOf
      <3> QED
        BY <1>c, <3>1, <3>2, <3>4 DEF GoesWhereItStands, JustLanded
    <2> QED
      BY <2>1, <2>2
  <1>3. ASSUME PinHead(r) PROVE GoesWhereItStands(req[r])'
    <2>1. Done(r) \/ Goto(r, "save") \/ Goto(r, "notEmpty")
      BY <1>3 DEF PinHead
    <2>2. Deciding(q) /\ currentBranch' = currentBranch
      BY <1>3, <1>b DEF PinHead, Deciding
    <2>3. ASSUME NEW pc, Goto(r, pc) PROVE req'[r].pc = pc /\ req'[r].branch = q.branch
      BY <1>a, <1>b, <2>3 DEF Goto, Request, RequestFields
    <2> QED
      BY <1>e, <1>g, <2>1, <2>2, <2>3
  <1>4. ASSUME ListForCommit(r) \/ NotEmpty(r) \/ ReadRef(r) PROVE GoesWhereItStands(req[r])'
    <2>1. Deciding(q) /\ currentBranch' = currentBranch
      BY <1>4, <1>b DEF ListForCommit, NotEmpty, ReadRef, Deciding
    <2>2. Done(r) \/ /\ req'[r].pc \in {"resolve", "notEmpty", "readRef", "moveRef"}
                     /\ req'[r].branch = q.branch
      BY <1>4, <1>a, <1>b DEF ListForCommit, NotEmpty, ReadRef, Goto, OpenThen, Request, RequestFields
    <2> QED
      BY <1>e, <1>g, <2>1, <2>2
  <1>5. ASSUME MoveRef(r) PROVE GoesWhereItStands(req[r])'
    <2>1. CASE Done(r)
      BY <2>1, <1>e
    <2>2. CASE ~Done(r)
      <3>1. /\ req' = [req EXCEPT ![r].pc = "clear", ![r].source = Len(commits) + 1]
            /\ ref' = [ref EXCEPT ![q.branch] = Len(commits) + 1]
            /\ currentBranch' = currentBranch /\ Deciding(q)
        BY <1>5, <1>b, <2>2 DEF MoveRef, Deciding
      <3>2. /\ req'[r].pc = "clear" /\ req'[r].branch = q.branch /\ req'[r].source = Len(commits) + 1
            /\ ref'[q.branch] = Len(commits) + 1 /\ Len(commits) + 1 # 0
        BY <1>a, <1>b, <1>d, <3>1 DEF Request, RequestFields, TypeOK
      <3>3. Stands(ref[q.branch], q.branch)'
        BY <1>a, <1>d, <3>2, RefStandsNext
      <3>4. Stands(req[r].source, req[r].branch)'
        BY <3>2, <3>3 DEF Stands
      <3> QED
        BY <1>c, <3>1, <3>2, <3>4 DEF GoesWhereItStands, JustLanded
    <2> QED
      BY <2>1, <2>2
  <1>6. ASSUME Clear(r) \/ PinNew(r) PROVE GoesWhereItStands(req[r])'
    <2>1. /\ UNCHANGED <<commits, ref, currentBranch>> /\ Deciding(q) /\ JustLanded(q)
          /\ Goto(r, "pinNew") \/ Goto(r, "rebaseSpared")
      BY <1>6, <1>b DEF Clear, PinNew, Deciding, JustLanded
    <2>2. req'[r].branch = q.branch /\ req'[r].source = q.source
          /\ req'[r].pc \in {"pinNew", "rebaseSpared"}
      BY <1>a, <1>b, <2>1 DEF Goto, Request, RequestFields
    <2>3. Stands(q.source, q.branch) /\ q.branch = currentBranch
      BY <1>c, <2>1 DEF GoesWhereItStands
    <2>4. Stands(q.source, q.branch)'
      BY <2>1, <2>3, StandsStill
    <2>5. Stands(req[r].source, req[r].branch)'
      BY <2>2, <2>4 DEF Stands
    <2>6. ASSUME req'[r].pc = "rebaseSpared" PROVE Stands(pinned[req[r].branch], req[r].branch)'
      <3>1. PinNew(r)
        BY <1>6, <1>a, <2>6 DEF Clear, Goto, Request, RequestFields
      <3>2. pinned'[q.branch] = q.source
        BY <1>a, <1>b, <1>d, <2>3, <3>1 DEF PinNew, SetHeadSha, TypeOK
      <3> QED
        BY <2>2, <2>4, <3>2 DEF Stands
    <2> QED
      BY <2>1, <2>2, <2>3, <2>5, <2>6 DEF GoesWhereItStands, JustLanded
  <1>7. ASSUME CreateRef(r) PROVE GoesWhereItStands(req[r])'
    <2>1. CASE Done(r)
      BY <2>1, <1>e
    <2>2. CASE ~Done(r)
      <3>1. PICK pc \in {"movePending", "switch"} :
               req' = [req EXCEPT ![r].pc = pc, ![r].source = q.head]
        BY <1>7, <1>b, <2>2 DEF CreateRef
      <3>2. /\ ref[q.to] = 0 /\ ref' = [ref EXCEPT ![q.to] = q.head] /\ q.op = "branch"
            /\ UNCHANGED <<commits, currentBranch>> /\ Deciding(q) /\ q.pc = "createRef"
        BY <1>7, <1>a, <1>b, <2>2, AtStep DEF CreateRef, Deciding
      <3>3. /\ req'[r].pc = pc /\ req'[r].source = q.head /\ req'[r].head = q.head
            /\ req'[r].branch = q.branch /\ req'[r].to = q.to
        BY <1>a, <1>b, <3>1 DEF Request, RequestFields
      <3>4. Stands(q.head, q.branch) /\ q.branch = currentBranch
        BY <1>c, <3>2 DEF GoesWhereItStands
      <3>5. q.branch # q.to /\ ref'[q.branch] = ref[q.branch] /\ ref'[q.to] = q.head /\ q.head # 0
        BY <1>a, <1>d, <3>2, <3>4 DEF Stands, HistoryOf, TypeOK
      <3>6. Stands(q.head, q.branch)'
        BY <3>2, <3>4, <3>5 DEF Stands, NoneOfOursSince, HistoryOf
      <3>7. Stands(ref[q.to], q.to)'
        BY <1>a, <1>d, <3>2, <3>5, RefStandsNext
      <3>8. Stands(q.head, q.to)'
        BY <3>5, <3>7 DEF Stands
      <3>9. Stands(req[r].head, req[r].branch)' /\ Stands(req[r].head, req[r].to)'
            /\ Stands(req[r].source, req[r].to)'
        BY <3>3, <3>6, <3>8 DEF Stands
      <3> QED
        BY <3>2, <3>3, <3>4, <3>9 DEF GoesWhereItStands, JustLanded
    <2> QED
      BY <2>1, <2>2
  <1>8. ASSUME MovePending(r) PROVE GoesWhereItStands(req[r])'
    <2>1. UNCHANGED <<commits, ref, currentBranch>> /\ Deciding(q) /\ q.pc = "movePending" /\ Goto(r, "switch")
      BY <1>8, <1>b DEF MovePending, Deciding
    <2>2. /\ req'[r].branch = q.branch /\ req'[r].source = q.source /\ req'[r].pc = "switch"
          /\ req'[r].to = q.to
      BY <1>a, <1>b, <2>1 DEF Goto, Request, RequestFields
    <2>3. Stands(q.source, q.to) /\ q.branch = currentBranch
      BY <1>c, <2>1 DEF GoesWhereItStands
    <2>4. Stands(q.source, q.to)'
      BY <2>1, <2>3, StandsStill
    <2>5. Stands(req[r].source, req[r].to)'
      BY <2>2, <2>4 DEF Stands
    <2> QED
      BY <2>1, <2>2, <2>3, <2>5 DEF GoesWhereItStands, JustLanded
  <1>9. ASSUME KnownHead(r) PROVE GoesWhereItStands(req[r])'
    <2>1. /\ currentBranch' = currentBranch /\ Deciding(q) /\ q.source = 0 /\ q.branch = currentBranch
          /\ Goto(r, "resolveTo") \/ Goto(r, "switch")
      BY <1>9, <1>b, <1>c DEF KnownHead, Deciding, GoesWhereItStands
    <2>2. /\ req'[r].branch = q.branch /\ req'[r].source = q.source
          /\ req'[r].pc \in {"resolveTo", "switch"}
      BY <1>a, <1>b, <2>1 DEF Goto, Request, RequestFields
    <2> QED
      BY <2>1, <2>2 DEF GoesWhereItStands, JustLanded
  <1>10. ASSUME ResolveTo(r) PROVE GoesWhereItStands(req[r])'
    <2>1. CASE Done(r)
      BY <2>1, <1>e
    <2>2. CASE ~Done(r)
      <3>1. /\ ref[q.to] # 0 /\ UNCHANGED <<commits, ref, currentBranch>> /\ Deciding(q) /\ q.op = "switch"
            /\ req' = [req EXCEPT ![r].pc = "switch", ![r].source = ref[q.to]]
        BY <1>10, <1>b, <2>2, AtStep DEF ResolveTo, Deciding
      <3>2. req'[r].pc = "switch" /\ req'[r].branch = q.branch /\ req'[r].source = ref[q.to] /\ req'[r].to = q.to
        BY <1>a, <1>b, <3>1 DEF Request, RequestFields
      <3>3. Stands(ref[q.to], q.to)
        BY <1>a, <1>d, <3>1, RefStands
      <3>4. Stands(req[r].source, req[r].to)'
        BY <3>1, <3>2, <3>3 DEF Stands, NoneOfOursSince, HistoryOf
      <3> QED
        BY <1>c, <3>1, <3>2, <3>4 DEF GoesWhereItStands, JustLanded
    <2> QED
      BY <2>1, <2>2
  <1> QED
    BY <1>1, <1>2, <1>3, <1>4, <1>5, <1>6, <1>7, <1>8, <1>9, <1>10 DEF Handler

-----------------------------------------------------------------------------
(* The pins and the rows.                                                   *)

LEMMA FlightGoesOn ==
    ASSUME TypeOK, NEW r \in Requests, Acts(r), NEW b,
           JustLanded(req[r]) /\ req[r].branch = b => JustLanded(req'[r]) /\ req'[r].branch = b
    PROVE  InFlight(b) => InFlight(b)'
  BY OnlyItsOwn DEF InFlight, JustLanded

(* What fitted goes on fitting where nothing of Civil's is added, and so    *)
(* does what now stands.                                                    *)
LEMMA FitsStay ==
    ASSUME TypeOK, HistoryIsWhole, [Next]_vars, NEW b \in Branches, Quiet(b), ref[b] # 0,
           InFlight(b) => InFlight(b)'
    PROVE  /\ PinFits(b) /\ pinned'[b] = pinned[b] => PinFits(b)'
           /\ \A row \in Row : RowFits(row, b) => RowFits(row, b)'
  <1>a. pinned[b] \in Sha /\ ref'[b] # 0
    BY DEF TypeOK, Quiet
  <1>1. ASSUME PinFits(b), pinned'[b] = pinned[b] PROVE PinFits(b)'
    <2>1. PICK s \in Sha : s = pinned[b]
      BY <1>a
    <2>2. s # 0 => s \in HistoryOf(ref[b]) /\ (~InFlight(b) => Stands(s, b))
      BY <1>1, <2>1 DEF PinFits
    <2>3. s # 0 => s \in HistoryOf(ref[b])' /\ (~InFlight(b)' => Stands(s, b)')
      BY <2>2, QuietKeeps
    <2> QED
      BY <1>1, <2>1, <2>3 DEF PinFits, Stands
  <1>2. ASSUME NEW row \in Row, RowFits(row, b) PROVE RowFits(row, b)'
    <2>1. row.base \in Sha
      BY DEF Row
    <2>2. row.base # 0 /\ ~InFlight(b)' => NoneOfOursSince(row.base, ref[b])
      BY <1>2 DEF RowFits
    <2>3. row.base # 0 /\ ~InFlight(b)' => NoneOfOursSince(row.base, ref[b])'
      BY <2>1, <2>2, QuietKeeps
    <2> QED
      BY <1>a, <2>3 DEF RowFits
  <1> QED
    BY <1>1, <1>2

(* A branch GitHub does not have holds nothing based on anything.           *)
LEMMA FitsWithoutRef ==
    ASSUME NEW b \in Branches, ref[b] = 0
    PROVE  /\ PinFits(b) => pinned[b] = 0
           /\ \A row : RowFits(row, b) => row.base = 0
  BY DEF PinFits, RowFits, HistoryOf

(* What stands fits, whatever is in flight.                                 *)
LEMMA StandingFits ==
    ASSUME NEW b, NEW s, Stands(s, b)'
    PROVE  /\ pinned'[b] = s => PinFits(b)'
           /\ \A row : row.base = s => RowFits(row, b)'
  <1>1. ref'[b] # 0
    BY DEF Stands, HistoryOf
  <1> QED
    BY <1>1 DEF PinFits, RowFits, Stands

Fit == \A b \in Branches : PinFits(b) /\ \A p \in Paths : RowFits(pending[b][p], b)

(* Nothing of Civil's is added anywhere, and everything is where it was.    *)
LEMMA AllFitsStay ==
    ASSUME TypeOK, HistoryIsWhole, [Next]_vars, NEW b \in Branches, Quiet(b),
           InFlight(b) => InFlight(b)'
    PROVE  /\ PinFits(b) /\ pinned'[b] = pinned[b] => PinFits(b)'
           /\ \A row \in Row : RowFits(row, b) => RowFits(row, b)'
  <1>1. CASE ref[b] # 0
    BY <1>1, FitsStay
  <1>2. CASE ref[b] = 0
    <2>1. ASSUME PinFits(b), pinned'[b] = pinned[b] PROVE PinFits(b)'
      BY <1>2, <2>1, FitsWithoutRef DEF PinFits
    <2>2. ASSUME NEW row \in Row, RowFits(row, b) PROVE RowFits(row, b)'
      BY <1>2, <2>2, FitsWithoutRef DEF RowFits
    <2> QED
      BY <2>1, <2>2
  <1> QED
    BY <1>1, <1>2

LEMMA RowsAreRows ==
    ASSUME TypeOK
    PROVE  \A b \in Branches, p \in Paths : pending[b][p] \in Row
  BY DEF TypeOK, Rows

(* Where pins and rows stay as they are.                                    *)
LEMMA FitWhereNothingMoves ==
    ASSUME RealInv, [Next]_vars, UNCHANGED <<pinned, pending>>, \A b \in Branches : Quiet(b),
           \A b \in Branches : InFlight(b) => InFlight(b)'
    PROVE  Fit'
  <1>a. TypeOK /\ HistoryIsWhole /\ LandingInv
    BY DEF RealInv, LandingInv
  <1> SUFFICES ASSUME NEW b \in Branches
               PROVE  PinFits(b)' /\ \A p \in Paths : RowFits(pending[b][p], b)'
    BY DEF Fit
  <1>1. Quiet(b)
    OBVIOUS
  <1>2. PinFits(b)'
    BY <1>a, <1>1, AllFitsStay DEF RealInv
  <1>3. ASSUME NEW p \in Paths PROVE RowFits(pending[b][p], b)'
    <2>1. PICK row \in Row : row = pending[b][p] /\ RowFits(row, b)
      BY <1>a, RowsAreRows DEF RealInv
    <2>2. RowFits(row, b)'
      BY <1>a, <1>1, <2>1, AllFitsStay
    <2> QED
      BY <2>1, <2>2 DEF RowFits
  <1> QED
    BY <1>2, <1>3

(* A tab saves, deletes or discards.                                        *)
LEMMA FitWhereEdited ==
    ASSUME RealInv, "deleteBranch" \notin World, [Next]_vars, NEW r \in Requests,
           Save(r) \/ Delete(r) \/ Discard(r)
    PROVE  Fit'
  <1>a. /\ TypeOK /\ HistoryIsWhole /\ LandingInv /\ req \in [Requests -> Request]
        /\ pending \in [Branches -> Rows] /\ UNCHANGED <<commits, ref, pinned, currentBranch>>
    BY TheyLeaveBranchesAlone DEF RealInv, LandingInv, TypeOK
  <1>b. PICK q \in Request : q = req[r]
    BY <1>a
  <1>c. q.branch \in Branches /\ q.path \in Paths /\ ~JustLanded(q) /\ Acts(r)
    BY <1>b, AtStep DEF Request, RequestFields, Save, Delete, Discard, JustLanded, Acts, Handler
  <1>1. \A b \in Branches : InFlight(b) => InFlight(b)'
    BY <1>a, <1>b, <1>c, FlightGoesOn
  <1>2. ASSUME NEW b \in Branches
        PROVE  /\ PinFits(b)' /\ \A row \in Row : RowFits(row, b) => RowFits(row, b)'
    <2>1. Quiet(b)
      <3>1. ~\E s \in Requests : Lands(s)
        <4> SUFFICES ASSUME NEW s \in Requests, Lands(s) PROVE FALSE
          OBVIOUS
        <4>1. MoveRef(s) /\ req'[s] # req[s] /\ req[s].pc = "moveRef"
          BY <1>a, HowToGetThere DEF Lands
        <4>2. s = r
          BY <1>a, <1>c, <4>1, OnlyItsOwn
        <4> QED
          BY <4>1, <4>2 DEF Save, Delete, Discard
      <3> QED
        BY <1>a, <3>1, RestIsQuiet
    <2> QED
      BY <1>a, <1>1, <2>1, AllFitsStay DEF RealInv
  <1>3. PICK old \in Row : old = pending[q.branch][q.path]
    BY <1>a, <1>c, RowsAreRows
  <1>4. PICK new : /\ new = pending'[q.branch][q.path]
                   /\ new.base = 0 \/ new.base = old.base \/ new.base = pinned[q.branch]
    <2>1. CASE Save(r)
      BY <2>1, <1>a, <1>b, <1>c, <1>3 DEF Save, SavePending, Rows
    <2>2. CASE Delete(r)
      BY <2>2, <1>a, <1>b, <1>c, <1>3 DEF Delete, DeletePending, Rows
    <2>3. CASE Discard(r)
      BY <2>3, <1>a, <1>b, <1>c, <1>3 DEF Discard, RevertPending, Rows, NoRow
    <2> QED
      BY <2>1, <2>2, <2>3
  <1>5. \A b \in Branches, p \in Paths :
           b # q.branch \/ p # q.path => pending'[b][p] = pending[b][p]
    <2>1. CASE Save(r)
      BY <2>1, <1>a, <1>b, <1>c DEF Save, SavePending, Rows
    <2>2. CASE Delete(r)
      BY <2>2, <1>a, <1>b, <1>c DEF Delete, DeletePending, Rows
    <2>3. CASE Discard(r)
      BY <2>3, <1>a, <1>b, <1>c DEF Discard, RevertPending, Rows
    <2> QED
      BY <2>1, <2>2, <2>3
  <1>6. RowFits(new, q.branch)'
    <2>1. CASE new.base = 0
      BY <2>1 DEF RowFits
    <2>2. CASE new.base = old.base
      <3>1. RowFits(old, q.branch)
        BY <1>c, <1>3 DEF RealInv
      <3>2. RowFits(old, q.branch)'
        BY <1>2, <1>c, <3>1
      <3> QED
        BY <2>2, <3>2 DEF RowFits
    <2>3. CASE new.base = pinned[q.branch]
      <3>1. PinFits(q.branch)'
        BY <1>2, <1>c
      <3>2. pinned'[q.branch] # 0 => ref'[q.branch] # 0
        BY <3>1 DEF PinFits, HistoryOf
      <3> QED
        BY <1>a, <2>3, <3>1, <3>2 DEF PinFits, RowFits, Stands
    <2> QED
      BY <1>4, <2>1, <2>2, <2>3
  <1>7. ASSUME NEW b \in Branches, NEW p \in Paths PROVE RowFits(pending[b][p], b)'
    <2>1. CASE b = q.branch /\ p = q.path
      BY <1>4, <1>6, <2>1 DEF RowFits
    <2>2. CASE ~(b = q.branch /\ p = q.path)
      <3>1. PICK row \in Row : row = pending[b][p] /\ RowFits(row, b)
        BY <1>a, RowsAreRows DEF RealInv
      <3>2. RowFits(row, b)'
        BY <1>2, <3>1
      <3> QED
        BY <1>5, <2>2, <3>1, <3>2 DEF RowFits
    <2> QED
      BY <2>1, <2>2
  <1> QED
    BY <1>2, <1>7 DEF Fit

LEMMA StillQuiet ==
    ASSUME UNCHANGED <<commits, ref>>
    PROVE  \A b : Quiet(b) /\ \A s : NoneOfOursSince(s, ref[b])' = NoneOfOursSince(s, ref[b])
  BY DEF Quiet, HistoryOf, NoneOfOursSince

(* Where nothing happens on GitHub, what is written stands, or stays.       *)
LEMMA FitWhereWritten ==
    ASSUME RealInv, [Next]_vars, UNCHANGED <<commits, ref>>, NEW b \in Branches,
           \/ pinned'[b] = pinned[b] /\ (InFlight(b) => InFlight(b)')
           \/ Stands(pinned'[b], b),
           \A p \in Paths :
               \/ pending'[b][p] = pending[b][p] /\ (InFlight(b) => InFlight(b)')
               \/ pending'[b][p].base = 0
               \/ ref[b] # 0 /\ NoneOfOursSince(pending'[b][p].base, ref[b])
    PROVE  PinFits(b)' /\ \A p \in Paths : RowFits(pending[b][p], b)'
  <1>a. TypeOK /\ HistoryIsWhole /\ Quiet(b)
    BY StillQuiet DEF RealInv, LandingInv
  <1>1. PinFits(b)'
    <2>1. CASE pinned'[b] = pinned[b] /\ (InFlight(b) => InFlight(b)')
      BY <1>a, <2>1, AllFitsStay DEF RealInv
    <2>2. CASE Stands(pinned'[b], b)
      <3>1. PICK s : s = pinned'[b]
        OBVIOUS
      <3>2. Stands(s, b)'
        BY <2>2, <3>1, StandsStill
      <3> QED
        BY <3>1, <3>2, StandingFits
    <2> QED
      BY <2>1, <2>2
  <1>2. ASSUME NEW p \in Paths PROVE RowFits(pending[b][p], b)'
    <2>1. CASE pending'[b][p] = pending[b][p] /\ (InFlight(b) => InFlight(b)')
      <3>1. PICK row \in Row : row = pending[b][p] /\ RowFits(row, b)
        BY <1>a, RowsAreRows DEF RealInv
      <3>2. RowFits(row, b)'
        BY <1>a, <2>1, <3>1, AllFitsStay
      <3> QED
        BY <2>1, <3>1, <3>2 DEF RowFits
    <2>2. CASE pending'[b][p].base = 0
      BY <2>2 DEF RowFits
    <2>3. CASE ref[b] # 0 /\ NoneOfOursSince(pending'[b][p].base, ref[b])
      <3>1. PICK s : s = pending'[b][p].base
        OBVIOUS
      <3>2. NoneOfOursSince(s, ref[b])'
        BY <2>3, <3>1, StillQuiet
      <3> QED
        BY <2>3, <3>1, <3>2 DEF RowFits, NoneOfOursSince
    <2> QED
      BY <2>1, <2>2, <2>3
  <1> QED
    BY <1>1, <1>2

LEMMA StandingIsNoneOfOurs ==
    ASSUME NEW s, NEW b, Stands(s, b)
    PROVE  ref[b] # 0 /\ NoneOfOursSince(s, ref[b])
  BY DEF Stands, HistoryOf

(* A commit reaches its branch, and is in flight there.                     *)
LEMMA FitWhereLanded ==
    ASSUME RealInv, "deleteBranch" \notin World, [Next]_vars, NEW r \in Requests, MoveRef(r), Lands(r)
    PROVE  Fit'
  <1>a. /\ TypeOK /\ HistoryIsWhole /\ LandingInv /\ req \in [Requests -> Request]
    BY DEF RealInv, LandingInv, TypeOK
  <1>b. PICK q \in Request : q = req[r]
    BY <1>a
  <1>c. q.branch \in Branches /\ q.pc = "moveRef" /\ Acts(r)
    BY <1>b DEF Request, RequestFields, MoveRef, Acts, Handler
  <1>1. PICK c : /\ commits' = Append(commits, c)
                 /\ ref[q.branch] # 0
                 /\ ref' = [ref EXCEPT ![q.branch] = Len(commits) + 1]
                 /\ c.history = {Len(commits) + 1} \cup commits[ref[q.branch]].history
                 /\ req' = [req EXCEPT ![r].pc = "clear", ![r].source = Len(commits) + 1]
                 /\ \A f \in Paths : f \notin c.wrote => c.tree[f] = commits[ref[q.branch]].tree[f]
                 /\ UNCHANGED <<currentBranch, pinned, pending>>
    BY <1>a, <1>b, LandingAdds
  <1>2. HistoryOf(ref[q.branch])' = {Len(commits) + 1} \cup HistoryOf(ref[q.branch])
        /\ ref'[q.branch] = Len(commits) + 1 /\ Len(commits) + 1 # 0
    <2>1. Len(commits) + 1 # 0
      BY <1>a DEF TypeOK
    <2> QED
      BY <1>a, <1>c, <1>1, <2>1, AddedTo
  <1>3. req'[r].branch = q.branch /\ req'[r].pc = "clear"
    BY <1>a, <1>b, <1>1 DEF Request, RequestFields
  <1>4. InFlight(q.branch)'
    BY <1>3 DEF InFlight
  <1>5. PinFits(q.branch)' /\ \A p \in Paths : RowFits(pending[q.branch][p], q.branch)'
    <2>1. PinFits(q.branch)
      BY <1>c DEF RealInv
    <2> QED
      BY <1>1, <1>2, <1>4, <2>1 DEF PinFits, RowFits
  <1>6. ASSUME NEW b \in Branches, b # q.branch
        PROVE  PinFits(b)' /\ \A p \in Paths : RowFits(pending[b][p], b)'
    <2>1. Quiet(b)
      <3>1. ASSUME NEW s \in Requests, Lands(s) PROVE s = r
        <4>1. req'[s] # req[s]
          BY <3>1 DEF Lands
        <4> QED
          BY <1>a, <1>c, <4>1, OnlyItsOwn
      <3> QED
        BY <1>a, <1>b, <1>6, <3>1, RestIsQuiet
    <2>2. InFlight(b) => InFlight(b)'
      BY <1>a, <1>b, <1>c, FlightGoesOn DEF JustLanded
    <2>3. PinFits(b)'
      BY <1>a, <1>1, <2>1, <2>2, AllFitsStay DEF RealInv
    <2>4. ASSUME NEW p \in Paths PROVE RowFits(pending[b][p], b)'
      <3>1. PICK row \in Row : row = pending[b][p] /\ RowFits(row, b)
        BY <1>a, RowsAreRows DEF RealInv
      <3>2. RowFits(row, b)'
        BY <1>a, <2>1, <2>2, <3>1, AllFitsStay
      <3> QED
        BY <1>1, <3>1, <3>2 DEF RowFits
    <2> QED
      BY <2>3, <2>4
  <1> QED
    BY <1>5, <1>6 DEF Fit

(* The statements that move rows and pins.                                  *)
LEMMA FitWhereCleared ==
    ASSUME RealInv, [Next]_vars, NEW r \in Requests, Clear(r)
    PROVE  Fit'
  <1>a. TypeOK /\ req \in [Requests -> Request] /\ pending \in [Branches -> Rows] /\ Acts(r)
    BY DEF RealInv, LandingInv, TypeOK, Acts, Handler
  <1>b. PICK q \in Request : q = req[r]
    BY <1>a
  <1>1. UNCHANGED <<commits, ref, pinned>> /\ JustLanded(req'[r]) /\ req'[r].branch = q.branch
    BY <1>a, <1>b DEF Clear, Goto, JustLanded, Request, RequestFields
  <1>2. \A b \in Branches : InFlight(b) => InFlight(b)'
    BY <1>a, <1>b, <1>1, FlightGoesOn
  <1>3. ASSUME NEW b \in Branches, NEW p \in Paths
        PROVE  pending'[b][p] = pending[b][p] \/ pending'[b][p].base = 0
    BY <1>a, <1>b DEF Clear, ClearCommitted, NoRow, Rows
  <1>4. ASSUME NEW b \in Branches
        PROVE  PinFits(b)' /\ \A p \in Paths : RowFits(pending[b][p], b)'
    BY <1>1, <1>2, <1>3, <1>4, FitWhereWritten
  <1> QED
    BY <1>4 DEF Fit

LEMMA FitWherePinnedNew ==
    ASSUME RealInv, [Next]_vars, NEW r \in Requests, PinNew(r)
    PROVE  Fit'
  <1>a. TypeOK /\ req \in [Requests -> Request] /\ pinned \in [Branches -> Sha] /\ Acts(r)
    BY DEF RealInv, LandingInv, TypeOK, Acts, Handler
  <1>b. PICK q \in Request : q = req[r]
    BY <1>a
  <1>c. GoesWhereItStands(q)
    BY <1>b DEF RealInv
  <1>1. UNCHANGED <<commits, ref, pending>> /\ JustLanded(req'[r]) /\ req'[r].branch = q.branch
        /\ q.pc = "pinNew" /\ pinned' = [pinned EXCEPT ![currentBranch] = q.source]
    BY <1>a, <1>b DEF PinNew, Goto, SetHeadSha, JustLanded, Request, RequestFields
  <1>2. \A b \in Branches : InFlight(b) => InFlight(b)'
    BY <1>a, <1>b, <1>1, FlightGoesOn
  <1>3. Stands(q.source, q.branch) /\ currentBranch = q.branch
    BY <1>c, <1>1 DEF GoesWhereItStands, JustLanded, Deciding
  <1>4. ASSUME NEW b \in Branches
        PROVE  PinFits(b)' /\ \A p \in Paths : RowFits(pending[b][p], b)'
    <2>1. pinned'[b] = pinned[b] \/ Stands(pinned'[b], b)
      BY <1>a, <1>1, <1>3
    <2> QED
      BY <1>1, <1>2, <2>1, FitWhereWritten
  <1> QED
    BY <1>4 DEF Fit

LEMMA RebasedBase ==
    ASSUME NEW row \in Row, NEW sha, NEW seen
    PROVE  Rebased(row, sha, seen).base = 0 \/ Rebased(row, sha, seen).base = sha
  BY DEF Rebased, NoRow, Row

LEMMA FitWhereRebased ==
    ASSUME RealInv, [Next]_vars, NEW r \in Requests, RebaseSpared(r)
    PROVE  Fit'
  <1>a. TypeOK /\ req \in [Requests -> Request] /\ pending \in [Branches -> Rows] /\ Acts(r)
    BY DEF RealInv, LandingInv, TypeOK, Acts, Handler
  <1>b. PICK q \in Request : q = req[r]
    BY <1>a
  <1>c. GoesWhereItStands(q) /\ q.branch \in Branches
    BY <1>b DEF RealInv, Request, RequestFields
  <1>1. UNCHANGED <<commits, ref, pinned>> /\ q.pc = "rebaseSpared"
    BY <1>b DEF RebaseSpared
  <1>2. Stands(q.source, q.branch) /\ Stands(pinned[q.branch], q.branch)
    BY <1>c, <1>1 DEF GoesWhereItStands, JustLanded
  <1>3. ASSUME NEW b \in Branches, b # q.branch
        PROVE  PinFits(b)' /\ \A p \in Paths : RowFits(pending[b][p], b)'
    <2>1. InFlight(b) => InFlight(b)'
      BY <1>a, <1>b, <1>3, FlightGoesOn
    <2>2. pending'[b] = pending[b]
      BY <1>a, <1>b, <1>3 DEF RebaseSpared
    <2> QED
      BY <1>1, <2>1, <2>2, FitWhereWritten
  <1>4. PinFits(q.branch)' /\ \A p \in Paths : RowFits(pending[q.branch][p], q.branch)'
    <2>1. ASSUME NEW p \in Paths
          PROVE  pending'[q.branch][p].base = 0 \/ pending'[q.branch][p].base = q.source
      <3>1. PICK seen : pending'[q.branch][p] = Rebased(pending[q.branch][p], q.source, seen)
        BY <1>a, <1>b, <1>c DEF RebaseSpared, Rows
      <3>2. pending[q.branch][p] \in Row
        BY <1>a, <1>c DEF Rows
      <3> QED
        BY <3>1, <3>2, RebasedBase
    <2>2. ref[q.branch] # 0 /\ NoneOfOursSince(q.source, ref[q.branch])
      BY <1>2, StandingIsNoneOfOurs
    <2>3. ASSUME NEW p \in Paths
          PROVE  \/ pending'[q.branch][p].base = 0
                 \/ ref[q.branch] # 0 /\ NoneOfOursSince(pending'[q.branch][p].base, ref[q.branch])
      BY <2>1, <2>2
    <2>4. Stands(pinned'[q.branch], q.branch)
      BY <1>1, <1>2
    <2> QED
      BY <1>1, <1>c, <2>3, <2>4, FitWhereWritten
  <1> QED
    BY <1>3, <1>4 DEF Fit

LEMMA FitWhereMine ==
    ASSUME RealInv, [Next]_vars, NEW r \in Requests, RebaseMine(r)
    PROVE  Fit'
  <1>a. TypeOK /\ req \in [Requests -> Request] /\ pending \in [Branches -> Rows] /\ Acts(r)
    BY DEF RealInv, LandingInv, TypeOK, Acts, Handler
  <1>b. PICK q \in Request : q = req[r]
    BY <1>a
  <1>1. UNCHANGED <<commits, ref, pinned>> /\ q.pc = "rebaseMine"
    BY <1>b DEF RebaseMine
  <1>c. GoesWhereItStands(q) /\ q.branch \in Branches /\ q.path \in Paths
    BY <1>b, <1>1, AtStep DEF RealInv, Request, RequestFields
  <1>2. Stands(q.head, q.branch) /\ ref[q.branch] # 0 /\ NoneOfOursSince(q.head, ref[q.branch])
    BY <1>c, <1>1, StandingIsNoneOfOurs DEF GoesWhereItStands
  <1>3. \A b \in Branches : InFlight(b) => InFlight(b)'
    BY <1>a, <1>b, <1>1, FlightGoesOn DEF JustLanded
  <1>4. ASSUME NEW b \in Branches, NEW p \in Paths
        PROVE  \/ pending'[b][p] = pending[b][p]
               \/ pending'[b][p].base = 0
               \/ ref[b] # 0 /\ NoneOfOursSince(pending'[b][p].base, ref[b])
    <2>1. CASE b # q.branch \/ p # q.path
      BY <1>a, <1>b, <1>c, <2>1 DEF RebaseMine, Rows
    <2>2. CASE b = q.branch /\ p = q.path
      <3>1. pending'[b][p] = Rebased(pending[b][p], q.head, {TreeAt(q.head)[p]})
        BY <1>a, <1>b, <1>c, <2>2 DEF RebaseMine, Rows
      <3>2. pending[b][p] \in Row
        BY <1>a DEF Rows
      <3>3. pending'[b][p].base = 0 \/ pending'[b][p].base = q.head
        BY <3>1, <3>2, RebasedBase
      <3> QED
        BY <1>2, <2>2, <3>3
    <2> QED
      BY <2>1, <2>2
  <1>5. ASSUME NEW b \in Branches
        PROVE  PinFits(b)' /\ \A p \in Paths : RowFits(pending[b][p], b)'
    BY <1>1, <1>3, <1>4, FitWhereWritten
  <1> QED
    BY <1>5 DEF Fit

LEMMA FitWherePinned ==
    ASSUME RealInv, [Next]_vars, NEW r \in Requests, PinHead(r)
    PROVE  Fit'
  <1>a. TypeOK /\ req \in [Requests -> Request] /\ pinned \in [Branches -> Sha] /\ Acts(r)
    BY DEF RealInv, LandingInv, TypeOK, Acts, Handler
  <1>b. PICK q \in Request : q = req[r]
    BY <1>a
  <1>c. GoesWhereItStands(q)
    BY <1>b DEF RealInv
  <1>1. UNCHANGED <<commits, ref, pending>> /\ q.pc = "pin"
        /\ pinned' = [pinned EXCEPT ![currentBranch] = q.source]
    BY <1>b DEF PinHead, SetHeadSha
  <1>2. \A b \in Branches : InFlight(b) => InFlight(b)'
    BY <1>a, <1>b, <1>1, FlightGoesOn DEF JustLanded
  <1>3. Stands(q.source, q.branch) /\ currentBranch = q.branch
    BY <1>c, <1>1 DEF GoesWhereItStands, Deciding
  <1>4. ASSUME NEW b \in Branches
        PROVE  PinFits(b)' /\ \A p \in Paths : RowFits(pending[b][p], b)'
    <2>1. pinned'[b] = pinned[b] \/ Stands(pinned'[b], b)
      BY <1>a, <1>1, <1>3
    <2> QED
      BY <1>1, <1>2, <2>1, FitWhereWritten
  <1> QED
    BY <1>4 DEF Fit

LEMMA FitWhereSwitched ==
    ASSUME RealInv, [Next]_vars, NEW r \in Requests, SwitchBranch(r)
    PROVE  Fit'
  <1>a. TypeOK /\ req \in [Requests -> Request] /\ pinned \in [Branches -> Sha] /\ Acts(r)
    BY DEF RealInv, LandingInv, TypeOK, Acts, Handler
  <1>b. PICK q \in Request : q = req[r]
    BY <1>a
  <1>c. GoesWhereItStands(q)
    BY <1>b DEF RealInv
  <1>1. UNCHANGED <<commits, ref, pending>> /\ q.pc = "switch"
        /\ pinned' = [pinned EXCEPT ![q.to] = IF q.source # 0 THEN q.source ELSE @]
    BY <1>b DEF SwitchBranch
  <1>2. \A b \in Branches : InFlight(b) => InFlight(b)'
    BY <1>a, <1>b, <1>1, FlightGoesOn DEF JustLanded
  <1>3. q.source # 0 => Stands(q.source, q.to)
    BY <1>c, <1>1 DEF GoesWhereItStands
  <1>4. ASSUME NEW b \in Branches
        PROVE  PinFits(b)' /\ \A p \in Paths : RowFits(pending[b][p], b)'
    <2>1. pinned'[b] = pinned[b] \/ Stands(pinned'[b], b)
      BY <1>a, <1>1, <1>3
    <2> QED
      BY <1>1, <1>2, <2>1, FitWhereWritten
  <1> QED
    BY <1>4 DEF Fit

(* Rows that move with their author to a branch made at the head they       *)
(* were based before.                                                       *)
LEMMA FitWhereMoved ==
    ASSUME RealInv, OneDecides, [Next]_vars, NEW r \in Requests, MovePending(r)
    PROVE  Fit'
  <1>a. /\ TypeOK /\ HistoryIsWhole /\ req \in [Requests -> Request]
        /\ pending \in [Branches -> Rows] /\ Acts(r)
    BY DEF RealInv, LandingInv, TypeOK, Acts, Handler
  <1>b. PICK q \in Request : q = req[r]
    BY <1>a
  <1>1. UNCHANGED <<commits, ref, pinned>> /\ q.pc = "movePending" /\ MoveAll(q.branch, q.to)
    BY <1>b DEF MovePending
  <1>c. GoesWhereItStands(q) /\ q.branch \in Branches /\ q.to \in Branches /\ q.head \in Sha
    BY <1>b, <1>1, AtStep DEF RealInv, Request, RequestFields
  <1>2. Stands(q.head, q.branch) /\ Stands(q.head, q.to) /\ ref[q.to] # 0
    BY <1>c, <1>1, StandingIsNoneOfOurs DEF GoesWhereItStands
  <1>3. \A b \in Branches : ~InFlight(b)
    BY <1>b, <1>1, NobodyInFlight DEF Deciding, JustLanded
  <1>4. HistoryOf(q.head) \subseteq HistoryOf(ref[q.branch])
    <2>1. PICK s \in Sha : s = ref[q.branch]
      BY <1>a, <1>c DEF TypeOK
    <2>2. \A c \in HistoryOf(s) : commits[c].history \subseteq HistoryOf(s)
      BY <1>a, HistoriesStay
    <2> QED
      BY <1>2, <2>1, <2>2 DEF Stands, HistoryOf
  <1>5. ASSUME NEW p \in Paths, pending[q.branch][p].base # 0
        PROVE  NoneOfOursSince(pending[q.branch][p].base, ref[q.to])
    <2>1. NoneOfOursSince(pending[q.branch][p].base, ref[q.branch])
      BY <1>c, <1>3, <1>5 DEF RealInv, RowFits
    <2>2. NoneOfOursSince(q.head, ref[q.to])
      BY <1>2 DEF Stands
    <2> QED
      BY <1>4, <2>1, <2>2 DEF NoneOfOursSince
  <1>6. ASSUME NEW b \in Branches, NEW p \in Paths
        PROVE  \/ pending'[b][p] = pending[b][p]
               \/ pending'[b][p].base = 0
               \/ ref[b] # 0 /\ NoneOfOursSince(pending'[b][p].base, ref[b])
    <2>1. CASE pending' = pending
      BY <2>1
    <2>2. CASE pending' # pending
      <3>1. pending' = [pending EXCEPT ![q.to] = pending[q.branch], ![q.branch] = NoRows]
        BY <1>1, <2>2 DEF MoveAll
      <3>2. b = q.branch => pending'[b][p].base = 0
        BY <1>a, <1>c, <3>1 DEF NoRows, NoRow
      <3>3. b # q.branch /\ b = q.to => pending'[b][p] = pending[q.branch][p]
        BY <1>a, <1>c, <3>1
      <3>4. b # q.branch /\ b # q.to => pending'[b][p] = pending[b][p]
        BY <1>a, <1>c, <3>1
      <3> QED
        BY <1>2, <1>5, <3>2, <3>3, <3>4
    <2> QED
      BY <2>1, <2>2
  <1>7. ASSUME NEW b \in Branches
        PROVE  PinFits(b)' /\ \A p \in Paths : RowFits(pending[b][p], b)'
    BY <1>1, <1>3, <1>6, FitWhereWritten
  <1> QED
    BY <1>7 DEF Fit

LEMMA FitStays ==
    ASSUME RealInv, OneDecides, PutsAway, "deleteBranch" \notin World, [Next]_vars
    PROVE  Fit'
  <1>a. TypeOK /\ LandingInv /\ req \in [Requests -> Request]
    BY DEF RealInv, LandingInv, TypeOK
  <1>g. ASSUME UNCHANGED <<commits, ref, pinned, pending>>, \A b \in Branches : InFlight(b) => InFlight(b)'
        PROVE  Fit'
    BY <1>g, StillQuiet, FitWhereNothingMoves
  <1>1. CASE UNCHANGED vars
    BY <1>1, <1>g DEF vars, InFlight
  <1>2. ASSUME NEW b \in Branches, NEW p \in Paths, NEW blob \in Blob, Push(b, p, blob) PROVE Fit'
    <2>1. UNCHANGED <<pinned, pending>> /\ req' = req
      BY <1>2 DEF Push
    <2>2. \A r \in Requests : ~Lands(r)
      BY <2>1 DEF Lands
    <2>3. \A x \in Branches : Quiet(x) /\ (InFlight(x) => InFlight(x)')
      BY <1>a, <2>1, <2>2, RestIsQuiet DEF InFlight
    <2> QED
      BY <2>1, <2>3, FitWhereNothingMoves
  <1>3. ASSUME NEW r \in Requests, Acts(r), ~JustLanded(req[r])
        PROVE  \A b \in Branches : InFlight(b) => InFlight(b)'
    BY <1>a, <1>3, FlightGoesOn
  <1>4. ASSUME NEW r \in Requests, Client(r) PROVE Fit'
    <2>1. UNCHANGED <<commits, ref, pinned, pending>>
      BY <1>4 DEF Client, BeginOpen, OpenInEditor, BeginDelete, BeginDiscard,
         BeginMine, BeginSave, BeginSync, BeginCommit, BeginCreateBranch, BeginSwitch
    <2>2. req[r].pc \in {"idle", "editing"}
      BY <1>4 DEF Client, BeginOpen, OpenInEditor, BeginDelete, BeginDiscard,
         BeginMine, BeginSave, BeginSync, BeginCommit, BeginCreateBranch, BeginSwitch, Begin
    <2> QED
      BY <1>3, <1>4, <1>g, <2>1, <2>2 DEF Acts, JustLanded
  <1>5. ASSUME NEW r \in Requests,
               ResolveHead(r) \/ ListForCommit(r) \/ NotEmpty(r) \/ ReadRef(r)
               \/ KnownHead(r) \/ ResolveTo(r)
        PROVE  Fit'
    <2>1. UNCHANGED <<commits, ref, pinned, pending>> /\ ~JustLanded(req[r]) /\ Acts(r)
      BY <1>5 DEF ResolveHead, ListForCommit, NotEmpty, ReadRef, KnownHead, ResolveTo,
         JustLanded, Acts, Handler
    <2> QED
      BY <1>3, <1>g, <2>1
  <1>6. ASSUME NEW r \in Requests, MoveRef(r) PROVE Fit'
    <2>1. CASE Lands(r)
      BY <1>6, <2>1, FitWhereLanded
    <2>2. CASE ~Lands(r)
      <3>1. req[r].pc = "moveRef" /\ req'[r].pc # "clear"
        BY <1>6, <2>2 DEF MoveRef, Lands
      <3>2. ~(req' = [req EXCEPT ![r].pc = "clear", ![r].source = Len(commits) + 1])
        BY <1>a, <3>1 DEF Request, RequestFields
      <3>3. UNCHANGED <<commits, ref, pinned, pending>>
        BY <1>6, <3>2 DEF MoveRef
      <3> QED
        BY <1>3, <1>6, <1>g, <3>1, <3>3 DEF JustLanded, Acts, Handler
    <2> QED
      BY <2>1, <2>2
  <1>7. ASSUME NEW r \in Requests, CreateRef(r) PROVE Fit'
    <2>1. UNCHANGED <<pinned, pending>> /\ ~JustLanded(req[r]) /\ Acts(r) /\ req[r].pc = "createRef"
      BY <1>7 DEF CreateRef, JustLanded, Acts, Handler
    <2>2. ASSUME NEW s \in Requests, Lands(s) PROVE FALSE
      <3>1. req'[s] # req[s] /\ req[s].pc = "moveRef"
        BY <2>2 DEF Lands
      <3> QED
        BY <1>a, <2>1, <3>1, OnlyItsOwn
    <2>3. \A b \in Branches : Quiet(b)
      BY <1>a, <2>2, RestIsQuiet
    <2> QED
      BY <1>3, <2>1, <2>3, FitWhereNothingMoves
  <1>8. ASSUME NEW r \in Requests, Abandon(r) PROVE Fit'
    <2>1. CASE JustLanded(req[r])
      BY <1>8, <2>1, FitWhereRebased DEF PutsAway
    <2>2. CASE ~JustLanded(req[r])
      BY <1>3, <1>8, <1>g, <2>2 DEF Abandon, Acts
    <2> QED
      BY <2>1, <2>2
  <1>9. ASSUME NEW r \in Requests, Handler(r) PROVE Fit'
    BY <1>5, <1>6, <1>7, <1>9, FitWhereEdited, FitWhereCleared, FitWherePinnedNew, FitWhereRebased,
       FitWhereMine, FitWherePinned, FitWhereSwitched, FitWhereMoved DEF Handler
  <1>10. CASE Outside
    BY <1>2, <1>10 DEF Outside, DeleteBranch
  <1> QED
    BY <1>1, <1>4, <1>8, <1>9, <1>10 DEF Next

LEMMA AllGoWhereItStands ==
    ASSUME RealInv, OneDecides, OneDecides', "deleteBranch" \notin World, [Next]_vars
    PROVE  \A r \in Requests : GoesWhereItStands(req[r])'
  <1>a. TypeOK /\ HistoryIsWhole /\ LandingInv
    BY DEF RealInv, LandingInv
  <1> SUFFICES ASSUME NEW s \in Requests PROVE GoesWhereItStands(req[s])'
    OBVIOUS
  <1>1. CASE UNCHANGED <<req, currentBranch, pinned>> /\ \A r \in Requests : ~Lands(r)
    <2>1. \A b \in Branches : Quiet(b)
      BY <1>a, <1>1, RestIsQuiet
    <2>2. PICK q \in Request : q = req[s] /\ GoesWhereItStands(q)
      BY <1>a DEF RealInv, TypeOK
    <2>3. /\ q.branch \in Branches /\ q.source \in Sha /\ q.head \in Sha /\ pinned[q.branch] \in Sha
          /\ q.pc \in {"movePending", "switch"} => q.to \in Branches
      BY <1>a, AtStep DEF TypeOK, Request, RequestFields
    <2>4. PICK pin \in Sha : pin = pinned[q.branch]
      BY <2>3
    <2>5. ASSUME NEW sha \in Sha, NEW b \in Branches, Stands(sha, b) PROVE Stands(sha, b)'
      BY <1>a, <2>1, <2>5, QuietKeeps
    <2>6. q.pc = "rebaseSpared" => Stands(pin, q.branch)'
      BY <2>2, <2>3, <2>4, <2>5 DEF GoesWhereItStands
    <2>7. q.pc = "rebaseSpared" => Stands(pinned[q.branch], q.branch)'
      BY <1>1, <2>4, <2>6 DEF Stands
    <2>8. GoesWhereItStands(q)'
      BY <1>1, <2>2, <2>3, <2>5, <2>7 DEF GoesWhereItStands
    <2> QED
      BY <1>1, <2>2, <2>8 DEF GoesWhereItStands
  <1>2. ASSUME NEW r \in Requests, Acts(r) PROVE GoesWhereItStands(req[s])'
    <2>1. CASE s # r
      BY <1>2, <1>a, <2>1, OthersGoOn DEF RealInv
    <2>2. CASE s = r
      BY <1>2, <1>a, <2>2, BeginsWhereItStands, HandlerGoesWhereItStands, DoneIsFine DEF Acts, Abandon
    <2> QED
      BY <2>1, <2>2
  <1>3. CASE Outside \/ UNCHANGED vars
    BY <1>1, <1>3 DEF Outside, Push, DeleteBranch, vars, Lands
  <1> QED
    BY <1>2, <1>3 DEF Next, Acts

LEMMA RealInvStays ==
    ASSUME "deleteBranch" \notin World
    PROVE  RealInv /\ OneDecides /\ OneDecides' /\ (UNCHANGED vars \/ PutsAway) /\ [Next]_vars => RealInv'
  <1> SUFFICES ASSUME RealInv, OneDecides, OneDecides', UNCHANGED vars \/ PutsAway, [Next]_vars PROVE RealInv'
    OBVIOUS
  <1>1. LandingInv' /\ WrittenWhereDifferent'
    BY NextTypeOK, BuildsOnItsHeadStays, HistoryStaysWhole, TipStaysOnTheBranch,
       ListedStaysWithoutConflict, DifferencesStayWritten DEF LandingInv, RealInv
  <1>2. Fit'
    <2>1. CASE PutsAway
      BY <2>1, FitStays
    <2>2. CASE UNCHANGED vars
      <3>1. \A b \in Branches : InFlight(b) => InFlight(b)'
        BY <2>2 DEF vars, InFlight
      <3> QED
        BY <2>2, <3>1, StillQuiet, FitWhereNothingMoves DEF vars
    <2> QED
      BY <2>1, <2>2
  <1> QED
    BY <1>1, <1>2, AllGoWhereItStands DEF RealInv, Fit

(* So a file in conflict was written upstream after the edit's base.        *)
LEMMA RealConflict ==
    ASSUME RealInv
    PROVE  ConflictsAreReal
  <1> SUFFICES ASSUME NEW b \in Branches, ~InFlight(b), NEW p \in Conflicts(pending[b], pinned[b]),
                      pending[b][p].base \in commits[pinned[b]].history
               PROVE  \E c \in commits[pinned[b]].history \ commits[pending[b][p].base].history :
                         commits[c].by = "upstream" /\ p \in commits[c].wrote
    BY DEF ConflictsAreReal
  <1>a. TypeOK /\ HistoryIsWhole
    BY DEF RealInv, LandingInv
  <1>1. /\ p \in Paths /\ pinned[b] # 0 /\ pending[b][p].base # 0
        /\ TreeAt(pending[b][p].base)[p] # TreeAt(pinned[b])[p]
    BY DEF Conflicts, Changed, InConflict
  <1>2. pinned[b] \in DOMAIN commits /\ commits \in Seq(Commit)
    BY <1>1, <1>a DEF TypeOK, Sha
  <1>3. PICK c \in commits[pinned[b]].history \ commits[pending[b][p].base].history : p \in commits[c].wrote
    BY <1>1, <1>2 DEF RealInv, WrittenWhereDifferent, TreeAt
  <1>4. pinned[b] \in HistoryOf(ref[b]) /\ NoneOfOursSince(pending[b][p].base, ref[b])
    BY <1>1 DEF RealInv, PinFits, RowFits
  <1>5. c \in HistoryOf(ref[b]) \ HistoryOf(pending[b][p].base)
    <2>1. PICK s \in Sha : s = ref[b]
      BY <1>a DEF TypeOK
    <2>2. ref[b] # 0 /\ ref[b] \in DOMAIN commits
      BY <1>4, <1>a DEF HistoryOf, TypeOK, Sha
    <2>3. commits[pinned[b]].history \subseteq commits[ref[b]].history
      BY <1>4, <1>a, <2>2 DEF HistoryOf, HistoryIsWhole
    <2> QED
      BY <1>1, <1>3, <2>2, <2>3 DEF HistoryOf
  <1>6. commits[c].by # "civil" /\ c \in DOMAIN commits
    <2>1. commits[pinned[b]].history \subseteq DOMAIN commits
      BY <1>2, <1>a DEF HistoryIsWhole
    <2> QED
      BY <1>3, <1>4, <1>5, <2>1 DEF NoneOfOursSince
  <1>7. commits[c].by \in {"civil", "upstream"}
    <2>1. commits[c] \in Commit
      BY <1>2, <1>6
    <2> QED
      BY <2>1 DEF Commit
  <1> QED
    BY <1>3, <1>6, <1>7

LEMMA RealInit == Init => RealInv
  <1> SUFFICES ASSUME Init PROVE RealInv
    OBVIOUS
  <1>1. LandingInv
    <2>1. \A r \in Requests : req[r].pc = "idle" /\ req[r].op = "none"
      BY DEF Init, IdleRequest
    <2>2. BuildsOnItsHead /\ TipIsOnTheBranch /\ ListedWithoutConflict
      BY <2>1 DEF BuildsOnItsHead, TipIsOnTheBranch, ListedWithoutConflict
    <2> QED
      BY <2>2, InitTypeOK, FirstHistory DEF LandingInv
  <1>2. WrittenWhereDifferent
    BY DEF Init, WrittenWhereDifferent
  <1>3. \A b \in Branches, p \in Paths : RowFits(pending[b][p], b)
    BY DEF Init, RowFits, NoRows, NoRow
  <1>4. \A b \in Branches : PinFits(b)
    <2>1. commits[1].history = {1}
      BY DEF Init
    <2>2. \A b \in Branches : ref[b] \in {0, 1} /\ pinned[b] \in {0, ref[b]}
      BY DEF Init
    <2> QED
      BY <2>1, <2>2 DEF PinFits, Stands, HistoryOf, NoneOfOursSince
  <1>5. \A r \in Requests : GoesWhereItStands(req[r])
    BY DEF Init, IdleRequest, GoesWhereItStands, Deciding, JustLanded
  <1> QED
    BY <1>1, <1>2, <1>3, <1>4, <1>5 DEF RealInv

(* A conflict the author is shown is a real one: where an edit's base is    *)
(* behind the pin, someone else wrote the file in between (project-routes.  *)
(* ts:473-476).  Any number of tabs may save, delete and discard meanwhile, *)
(* and anyone may push; but of the handlers that decide about a branch one  *)
(* runs at a time, and a commit that landed is put away: it does not die    *)
(* between moving the ref and rebasing what it spared.  TLC finds a false   *)
(* conflict where either may happen.                                        *)
THEOREM ConflictsAreUpstreams ==
    ASSUME "deleteBranch" \notin World
    PROVE  Spec /\ []OneDecides /\ [][PutsAway]_vars => []ConflictsAreReal
  <1>1. RealInv /\ OneDecides /\ OneDecides' /\ [PutsAway]_vars /\ [Next]_vars => RealInv'
    BY RealInvStays
  <1>2. RealInv => ConflictsAreReal
    BY RealConflict
  <1> QED
    BY <1>1, <1>2, RealInit, PTL DEF Spec
=============================================================================
