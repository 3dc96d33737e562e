--------------------------- MODULE SourceControl ---------------------------
(***************************************************************************)
(* Civil's Git flow: the pending edits kept in Postgres, the commit each    *)
(* branch is pinned at, and the API handlers that move work between them    *)
(* and GitHub (apps/api/src/http/project-routes.ts and git-routes.ts over   *)
(* project/pending.ts, repository.ts, open.ts, conflicts.ts and             *)
(* github/commit.ts).                                                       *)
(*                                                                          *)
(* One Fastify process serves every handler; a handler gives up the thread  *)
(* at each await.  A step of this module is what a handler does between two *)
(* awaits on shared state: one SQL statement (or one transaction) or one    *)
(* GitHub call.  What the handler read before an await lives in req[r].     *)
(***************************************************************************)
EXTENDS Naturals, Sequences, FiniteSets

CONSTANTS
    Branches,       \* branch names
    DefaultBranch,  \* projects.default_branch
    Paths,          \* files of the repository
    Texts,          \* what a file may say; equal texts are equal blobs
    Nil,            \* no file, no path, no branch
    Requests,       \* the API requests (and editor tabs) that may be in flight
    MaxCommits,     \* bound: commits GitHub ever holds
    Does,           \* the operations each of them performs, one at a time
    World           \* what the world around Civil does

ClientOps == {"open", "edit", "delete", "discard", "mine", "commit", "sync",
              "branch", "switch"}
WorldOps  == {"push", "deleteBranch", "fail", "unopened"}

ASSUME SourceControlAssumption ==
    /\ DefaultBranch \in Branches
    /\ Nil \notin Texts /\ Nil \notin Paths /\ Nil \notin Branches
    /\ MaxCommits \in Nat \ {0}
    /\ Does \in [Requests -> SUBSET ClientOps]
    /\ World \subseteq WorldOps

VARIABLES
    commits,        \* GitHub: every commit a branch has pointed at, oldest first
    ref,            \* GitHub: branch -> commit number, 0 when there is no such ref
    currentBranch,  \* projects.current_branch, the default branch when null
    pinned,         \* project_branches.head_sha, 0 when null or no row
    pending,        \* pending_changes: branch -> path -> row
    req             \* what each handler in flight read and where it stopped

vars == <<commits, ref, currentBranch, pinned, pending, req>>

-----------------------------------------------------------------------------
(* Data.                                                                    *)

Blob == Texts \cup {Nil}
Tree == [Paths -> Blob]

(* The commits there are, and 0 for none: a sha Civil holds names one.      *)
Sha  == 0 .. Len(commits)

(* history: the commit and its ancestors.  wrote: the paths it changed.     *)
Commit == [tree : Tree, history : SUBSET Sha, branch : Branches,
           by : {"civil", "upstream"}, wrote : SUBSET Paths]

(* A pending_changes row.  A delete has no content.  base is                *)
(* base_commit_sha.  seen is not in the table: the versions of the file on  *)
(* GitHub that the author had in front of them on the way to this edit.     *)
Row   == [kind : {"none", "add", "modify", "delete"},
          text : Blob, base : Sha, seen : SUBSET Blob]
NoRow == [kind |-> "none", text |-> Nil, base |-> 0, seen |-> {}]
Rows  == [Paths -> Row]
NoRows == [p \in Paths |-> NoRow]
Changed(rows) == {p \in Paths : rows[p].kind # "none"}

TreeAt(sha) == IF sha = 0 THEN [p \in Paths |-> Nil] ELSE commits[sha].tree

(* Where a handler of each operation can be waiting.                        *)
StepsOf(op) ==
    CASE op = "none"    -> {"idle"}
      [] op = "open"    -> {"resolve", "pin"}
      [] op = "edit"    -> {"editing", "resolve", "pin", "save"}
      [] op = "delete"  -> {"delete"}
      [] op = "discard" -> {"revert"}
      [] op = "mine"    -> {"rebaseMine"}
      [] op = "sync"    -> {"resolve", "pin"}
      [] op = "commit"  -> {"list", "resolve", "pin", "notEmpty", "readRef",
                            "moveRef", "clear", "pinNew", "rebaseSpared"}
      [] op = "branch"  -> {"createRef", "movePending", "switch"}
      [] op = "switch"  -> {"known", "resolveTo", "switch"}

Ops == ClientOps \cup {"none"}
PCs == UNION {StepsOf(op) : op \in Ops}

RequestFields ==
    [op     : Ops,
     pc     : PCs,
     branch : Branches,      \* project.branch as getProject returned it
     head   : Sha,           \* project.headSha as getProject returned it
     source : Sha,           \* a sha resolved or written since
     tip    : Sha,           \* the ref attemptCommit read
     path   : Paths \cup {Nil},
     to     : Branches \cup {Nil},
     text   : Blob,
     seen   : SUBSET Blob,
     rows   : Rows]          \* listPending as the commit handler read it

Request == {q \in RequestFields :
    /\ q.pc \in StepsOf(q.op)
    /\ q.op \in {"edit", "delete", "discard", "mine"} => q.path # Nil
    /\ q.op \in {"branch", "switch"} => q.to # Nil}

IdleRequest == [op |-> "none", pc |-> "idle", branch |-> DefaultBranch,
                head |-> 0, source |-> 0, tip |-> 0, path |-> Nil, to |-> Nil,
                text |-> Nil, seen |-> {}, rows |-> NoRows]

TypeOK ==
    /\ commits \in Seq(Commit) /\ Len(commits) <= MaxCommits
    /\ ref \in [Branches -> Sha]
    /\ currentBranch \in Branches
    /\ pinned \in [Branches -> Sha]
    /\ pending \in [Branches -> Rows]
    /\ req \in [Requests -> Request]

-----------------------------------------------------------------------------
(* findConflicts: the edit's base is behind the head and the blob at its    *)
(* path differs between the two.  An edit whose base is the head, or        *)
(* unknown, cannot be in conflict; with no head nothing can.                *)

InConflict(row, p, head) ==
    /\ head # 0
    /\ row.base \notin {0, head}
    /\ TreeAt(row.base)[p] # TreeAt(head)[p]

Conflicts(rows, head) == {p \in Changed(rows) : InConflict(rows[p], p, head)}

-----------------------------------------------------------------------------
(* SQL statements of pending.ts and repository.ts.  An operator commented   *)
(* "Faulty" is a variant of the one after it that no action uses: the       *)
(* mistake a property is known to catch.                                    *)

(* Faulty: every save starts from the head of the moment.                   *)
SavePendingRebasing(b, p, text, existsAtHead, seen) ==
    pending' = [pending EXCEPT ![b][p] =
        [kind |-> IF existsAtHead THEN "modify" ELSE "add",
         text |-> text, base |-> pinned[b], seen |-> seen]]

(* INSERT ... ON CONFLICT: the base is the branch's head as the statement   *)
(* runs, kept if the row has one; the kind is kept unless it was a delete.  *)
SavePending(b, p, text, existsAtHead, seen) ==
    LET old == pending[b][p]
        inserted == IF existsAtHead THEN "modify" ELSE "add"
    IN pending' = [pending EXCEPT ![b][p] =
          [kind |-> IF old.kind \in {"none", "delete"} THEN inserted ELSE old.kind,
           text |-> text,
           base |-> IF old.base # 0 THEN old.base ELSE pinned[b],
           seen |-> seen]]

DeletePending(b, p, seen) ==
    LET old == pending[b][p]
    IN pending' = [pending EXCEPT ![b][p] =
          [kind |-> "delete", text |-> Nil,
           base |-> IF old.base # 0 THEN old.base ELSE pinned[b],
           seen |-> old.seen \cup seen]]

RevertPending(b, p) == pending' = [pending EXCEPT ![b][p] = NoRow]

(* Faulty: clears what was listed, whatever the rows hold by now.           *)
ClearAllListed(b, rows) ==
    pending' = [pending EXCEPT ![b] =
        [p \in Paths |-> IF rows[p].kind # "none" THEN NoRow ELSE @[p]]]

(* Only rows that still hold what was committed: same kind, same content.   *)
StillAsCommitted(row, committed) ==
    /\ committed.kind # "none"
    /\ row.kind = committed.kind
    /\ row.text = committed.text

ClearCommitted(b, rows) ==
    pending' = [pending EXCEPT ![b] =
        [p \in Paths |-> IF StillAsCommitted(@[p], rows[p]) THEN NoRow ELSE @[p]]]

(* Faulty: the row keeps its base.                                          *)
RebasedNowhere(row, sha, seen) ==
    IF row.kind = "none" THEN NoRow ELSE [row EXCEPT !.seen = @ \cup seen]

Rebased(row, sha, seen) ==
    IF row.kind = "none" THEN NoRow ELSE [row EXCEPT !.base = sha, !.seen = @ \cup seen]

(* Only into a branch with no pending edits of its own.                     *)
MoveAll(from, to) ==
    pending' = IF from # to /\ Changed(pending[to]) = {}
               THEN [pending EXCEPT ![to] = pending[from], ![from] = NoRows]
               ELSE pending

(* setHeadSha names no branch: the statement pins whichever branch is       *)
(* current when it runs.                                                    *)
SetHeadSha(sha) == pinned' = [pinned EXCEPT ![currentBranch] = sha]

-----------------------------------------------------------------------------
(* Requests.                                                                *)

Goto(r, pc) == req' = [req EXCEPT ![r].pc = pc]
Done(r)     == req' = [req EXCEPT ![r] = IdleRequest]

(* getProject: the current branch and the commit it is pinned at.           *)
Begin(r, op, pc, path, to) ==
    /\ op \in Does[r]
    /\ req[r].pc = "idle"
    /\ req' = [req EXCEPT ![r] =
          [IdleRequest EXCEPT !.op = op, !.pc = pc, !.path = path, !.to = to,
                              !.branch = currentBranch,
                              !.head = pinned[currentBranch]]]

HasHead == pinned[currentBranch] # 0

(* openProjectSource resolves the branch only when it is not pinned yet.    *)
OpenThen(head, pc) == IF head = 0 THEN "resolve" ELSE pc

(* Loading the project (the bundle).                                        *)
BeginOpen(r) ==
    /\ ~HasHead
    /\ Begin(r, "open", "resolve", Nil, Nil)
    /\ UNCHANGED <<commits, ref, currentBranch, pinned, pending>>

(* A tab opens a file: GET file reads pending work over the pinned commit.  *)
(* The tab keeps what it read until it is closed; no sync, switch or        *)
(* discard makes it read again.                                             *)
OpenInEditor(r, p) ==
    LET row == pending[currentBranch][p]
    IN /\ "edit" \in Does[r]
       /\ HasHead
       /\ req[r].pc = "idle"
       /\ req' = [req EXCEPT ![r] =
             [IdleRequest EXCEPT
                 !.op = "edit", !.pc = "editing", !.path = p,
                 !.seen = IF row.kind # "none" THEN row.seen
                          ELSE {TreeAt(pinned[currentBranch])[p]}]]
       /\ UNCHANGED <<commits, ref, currentBranch, pinned, pending>>

(* PUT file: getProject, then the source, which decides add or modify.      *)
BeginSave(r, text) ==
    /\ req[r].pc = "editing"
    /\ req' = [req EXCEPT ![r].pc = OpenThen(pinned[currentBranch], "save"),
                          ![r].text = text,
                          ![r].branch = currentBranch,
                          ![r].head = pinned[currentBranch],
                          ![r].source = pinned[currentBranch]]
    /\ UNCHANGED <<commits, ref, currentBranch, pinned, pending>>

Save(r) ==
    /\ req[r].pc = "save"
    /\ SavePending(req[r].branch, req[r].path, req[r].text,
                   TreeAt(req[r].source)[req[r].path] # Nil, req[r].seen)
    /\ Done(r)
    /\ UNCHANGED <<commits, ref, currentBranch, pinned>>

(* POST file/delete: no source is opened.                                   *)
BeginDelete(r, p) ==
    /\ Begin(r, "delete", "delete", p, Nil)
    /\ UNCHANGED <<commits, ref, currentBranch, pinned, pending>>

Delete(r) ==
    /\ req[r].pc = "delete"
    /\ DeletePending(req[r].branch, req[r].path,
                     {TreeAt(req[r].head)[req[r].path]})
    /\ Done(r)
    /\ UNCHANGED <<commits, ref, currentBranch, pinned>>

(* DELETE pending, and resolving a conflict as theirs.                      *)
BeginDiscard(r, p) ==
    /\ Begin(r, "discard", "revert", p, Nil)
    /\ UNCHANGED <<commits, ref, currentBranch, pinned, pending>>

Discard(r) ==
    /\ req[r].pc = "revert"
    /\ RevertPending(req[r].branch, req[r].path)
    /\ Done(r)
    /\ UNCHANGED <<commits, ref, currentBranch, pinned>>

(* Resolving a conflict as mine: the edit moves onto the head the handler   *)
(* read, whether or not the file is in conflict by then.                    *)
BeginMine(r, p) ==
    /\ HasHead
    /\ Begin(r, "mine", "rebaseMine", p, Nil)
    /\ UNCHANGED <<commits, ref, currentBranch, pinned, pending>>

RebaseMine(r) ==
    LET b == req[r].branch
        p == req[r].path
    IN /\ req[r].pc = "rebaseMine"
       /\ pending' = [pending EXCEPT ![b][p] =
                         Rebased(@, req[r].head, {TreeAt(req[r].head)[p]})]
       /\ Done(r)
       /\ UNCHANGED <<commits, ref, currentBranch, pinned>>

-----------------------------------------------------------------------------
(* Moving the pin.                                                          *)

(* Sync asks GitHub where the branch is, whatever it is pinned at.          *)
BeginSync(r) ==
    /\ Begin(r, "sync", "resolve", Nil, Nil)
    /\ UNCHANGED <<commits, ref, currentBranch, pinned, pending>>

(* A sync that leaves the pin alone while there are edits: a plausible bug. *)
ResolveHeadUnedited(r) ==
    LET tip == ref[req[r].branch]
    IN /\ req[r].pc = "resolve"
       /\ IF tip = 0 \/ (req[r].op = "sync"
                         /\ (tip = req[r].head \/ Changed(pending[req[r].branch]) # {}))
          THEN Done(r)
          ELSE req' = [req EXCEPT ![r].pc = "pin", ![r].source = tip]
       /\ UNCHANGED <<commits, ref, currentBranch, pinned, pending>>

(* resolveHead.  A missing branch is a 404 and ends the request; a sync     *)
(* that finds the branch where it was ends too.                             *)
ResolveHead(r) ==
    LET tip == ref[req[r].branch]
    IN /\ req[r].pc = "resolve"
       /\ IF tip = 0 \/ (req[r].op = "sync" /\ tip = req[r].head)
          THEN Done(r)
          ELSE req' = [req EXCEPT ![r].pc = "pin", ![r].source = tip]
       /\ UNCHANGED <<commits, ref, currentBranch, pinned, pending>>

(* setHeadSha after resolveHead, in openProjectSource or in sync.           *)
PinHead(r) ==
    /\ req[r].pc = "pin"
    /\ SetHeadSha(req[r].source)
    /\ CASE req[r].op = "edit"   -> Goto(r, "save")
         [] req[r].op = "commit" -> Goto(r, "notEmpty")
         [] OTHER                -> Done(r)
    /\ UNCHANGED <<commits, ref, currentBranch, pending>>

-----------------------------------------------------------------------------
(* Committing.                                                              *)

BeginCommit(r) ==
    /\ Begin(r, "commit", "list", Nil, Nil)
    /\ UNCHANGED <<commits, ref, currentBranch, pinned, pending>>

(* listPending, then the conflict check against the head read before.       *)
ListForCommit(r) ==
    LET rows == pending[req[r].branch]
    IN /\ req[r].pc = "list"
       /\ IF Changed(rows) = {} \/ Conflicts(rows, req[r].head) # {}
          THEN Done(r)
          ELSE req' = [req EXCEPT ![r].rows = rows,
                                  ![r].pc = OpenThen(req[r].head, "notEmpty")]
       /\ UNCHANGED <<commits, ref, currentBranch, pinned, pending>>

(* isEmptyRepository reads the ref a first time.  Without one the first     *)
(* file goes through the Contents API, which GitHub answers with a 404: the *)
(* repository has commits, so there has to be a branch to write to.         *)
NotEmpty(r) ==
    /\ req[r].pc = "notEmpty"
    /\ IF ref[req[r].branch] = 0 THEN Done(r) ELSE Goto(r, "readRef")
    /\ UNCHANGED <<commits, ref, currentBranch, pinned, pending>>

(* Faulty: builds on wherever the branch is.                                *)
ReadRefUnchecked(r) ==
    /\ req[r].pc = "readRef"
    /\ req' = [req EXCEPT ![r].pc = "moveRef", ![r].tip = ref[req[r].branch]]
    /\ UNCHANGED <<commits, ref, currentBranch, pinned, pending>>

(* attemptCommit reads it again.  A branch that moved is refused; a ref     *)
(* that is not there is taken for an empty repository.                      *)
ReadRef(r) ==
    LET tip == ref[req[r].branch]
    IN /\ req[r].pc = "readRef"
       /\ IF tip # 0 /\ req[r].head # 0 /\ tip # req[r].head
          THEN Done(r)
          ELSE req' = [req EXCEPT ![r].pc = "moveRef", ![r].tip = tip]
       /\ UNCHANGED <<commits, ref, currentBranch, pinned, pending>>

(* Faulty: a deleted path is dropped from the record instead of absent.     *)
NewTreeWithoutDeleted(rows, tip) ==
    [p \in {q \in Paths : rows[q].kind # "delete"} |->
        IF rows[p].kind # "none" THEN rows[p].text ELSE TreeAt(tip)[p]]

(* The tree: what changed over the base tree, or, with no base tree, the    *)
(* changes alone.                                                           *)
NewTree(rows, tip) ==
    [p \in Paths |-> IF rows[p].kind # "none" THEN rows[p].text
                                              ELSE TreeAt(tip)[p]]

NewCommit(r) ==
    [tree    |-> NewTree(req[r].rows, req[r].tip),
     history |-> {Len(commits) + 1} \cup
                   (IF req[r].tip = 0 THEN {} ELSE commits[req[r].tip].history),
     branch  |-> req[r].branch,
     by      |-> "civil",
     wrote   |-> Changed(req[r].rows)]

(* GitHub moves the ref only forward (force is false), and creates only a   *)
(* ref that does not exist.                                                 *)
RefAccepts(r) ==
    LET now == ref[req[r].branch]
    IN IF req[r].tip = 0 THEN now = 0 ELSE now \in NewCommit(r).history

MoveRef(r) ==
    /\ req[r].pc = "moveRef"
    /\ IF RefAccepts(r) /\ Len(commits) < MaxCommits
       THEN /\ commits' = Append(commits, NewCommit(r))
            /\ ref' = [ref EXCEPT ![req[r].branch] = Len(commits) + 1]
            /\ req' = [req EXCEPT ![r].pc = "clear", ![r].source = Len(commits) + 1]
       ELSE /\ Done(r)
            /\ UNCHANGED <<commits, ref>>
    /\ UNCHANGED <<currentBranch, pinned, pending>>

(* The three statements after the ref moved, each on its own.               *)
Clear(r) ==
    /\ req[r].pc = "clear"
    /\ ClearCommitted(req[r].branch, req[r].rows)
    /\ Goto(r, "pinNew")
    /\ UNCHANGED <<commits, ref, currentBranch, pinned>>

PinNew(r) ==
    /\ req[r].pc = "pinNew"
    /\ SetHeadSha(req[r].source)
    /\ Goto(r, "rebaseSpared")
    /\ UNCHANGED <<commits, ref, currentBranch, pending>>

(* Every row left on the branch now stands on the new commit.  Of a file    *)
(* the commit wrote, the author has seen their own version there.           *)
RebaseSpared(r) ==
    /\ req[r].pc = "rebaseSpared"
    /\ pending' = [pending EXCEPT ![req[r].branch] =
          [p \in Paths |->
              Rebased(@[p], req[r].source,
                      IF req[r].rows[p].kind # "none" THEN {req[r].rows[p].text}
                                                      ELSE {})]]
    /\ Done(r)
    /\ UNCHANGED <<commits, ref, currentBranch, pinned>>

-----------------------------------------------------------------------------
(* Branches.                                                                *)

(* POST branches: a ref at the pinned commit, then the pending edits, then  *)
(* the switch.                                                              *)
BeginCreateBranch(r, name) ==
    /\ HasHead
    /\ Begin(r, "branch", "createRef", Nil, name)
    /\ UNCHANGED <<commits, ref, currentBranch, pinned, pending>>

CreateRef(r) ==
    /\ req[r].pc = "createRef"
    /\ IF ref[req[r].to] # 0
       THEN Done(r) /\ UNCHANGED ref
       ELSE /\ ref' = [ref EXCEPT ![req[r].to] = req[r].head]
            /\ \E carry \in BOOLEAN :
                  req' = [req EXCEPT
                             ![r].pc = IF carry THEN "movePending" ELSE "switch",
                             ![r].source = req[r].head]
    /\ UNCHANGED <<commits, currentBranch, pinned, pending>>

MovePending(r) ==
    /\ req[r].pc = "movePending"
    /\ MoveAll(req[r].branch, req[r].to)
    /\ Goto(r, "switch")
    /\ UNCHANGED <<commits, ref, currentBranch, pinned>>

(* POST branches/switch: a branch Civil knows keeps its pin, another is     *)
(* resolved first.                                                          *)
BeginSwitch(r, name) ==
    /\ name # currentBranch
    /\ Begin(r, "switch", "known", Nil, name)
    /\ UNCHANGED <<commits, ref, currentBranch, pinned, pending>>

KnownHead(r) ==
    /\ req[r].pc = "known"
    /\ Goto(r, IF pinned[req[r].to] = 0 THEN "resolveTo" ELSE "switch")
    /\ UNCHANGED <<commits, ref, currentBranch, pinned, pending>>

ResolveTo(r) ==
    /\ req[r].pc = "resolveTo"
    /\ IF ref[req[r].to] = 0
       THEN Done(r)
       ELSE req' = [req EXCEPT ![r].pc = "switch", ![r].source = ref[req[r].to]]
    /\ UNCHANGED <<commits, ref, currentBranch, pinned, pending>>

(* One transaction: the current branch, and its pin when one was resolved.  *)
SwitchBranch(r) ==
    LET to == req[r].to
    IN /\ req[r].pc = "switch"
       /\ currentBranch' = to
       /\ pinned' = [pinned EXCEPT ![to] = IF req[r].source # 0 THEN req[r].source ELSE @]
       /\ Done(r)
       /\ UNCHANGED <<commits, ref, pending>>

-----------------------------------------------------------------------------
(* The outside.                                                             *)

(* Someone pushes a change to one file.  Nobody rewrites history.           *)
Push(b, p, blob) ==
    /\ "push" \in World
    /\ ref[b] # 0
    /\ Len(commits) < MaxCommits
    /\ TreeAt(ref[b])[p] # blob
    /\ commits' = Append(commits,
          [tree    |-> [TreeAt(ref[b]) EXCEPT ![p] = blob],
           history |-> commits[ref[b]].history \cup {Len(commits) + 1},
           branch  |-> b, by |-> "upstream", wrote |-> {p}])
    /\ ref' = [ref EXCEPT ![b] = Len(commits) + 1]
    /\ UNCHANGED <<currentBranch, pinned, pending, req>>

(* A branch is deleted on GitHub, as after its pull request is merged.      *)
DeleteBranch(b) ==
    /\ "deleteBranch" \in World
    /\ b # DefaultBranch
    /\ ref[b] # 0
    /\ ref' = [ref EXCEPT ![b] = 0]
    /\ UNCHANGED <<commits, currentBranch, pinned, pending, req>>

(* A request ends early: GitHub or the database refused a call, the answer  *)
(* was lost, the Apply gate refused the commit, the API process restarted,  *)
(* or the tab was closed.  What was already written stays written.          *)
Abandon(r) ==
    /\ "fail" \in World
    /\ req[r].pc # "idle"
    /\ Done(r)
    /\ UNCHANGED <<commits, ref, currentBranch, pinned, pending>>

-----------------------------------------------------------------------------

(* A repository with one commit on the default branch.  Civil has opened    *)
(* the project; in an "unopened" World it may not have yet.                 *)
Init ==
    /\ \E tree \in Tree :
          commits = <<[tree |-> tree, history |-> {1}, branch |-> DefaultBranch,
                       by |-> "upstream", wrote |-> {}]>>
    /\ ref = [b \in Branches |-> IF b = DefaultBranch THEN 1 ELSE 0]
    /\ currentBranch = DefaultBranch
    /\ pinned \in {ref} \cup (IF "unopened" \in World THEN {[b \in Branches |-> 0]} ELSE {})
    /\ pending = [b \in Branches |-> NoRows]
    /\ req = [r \in Requests |-> IdleRequest]

Client(r) ==
    \/ BeginOpen(r)
    \/ \E p \in Paths : \/ OpenInEditor(r, p)
                        \/ BeginDelete(r, p)
                        \/ BeginDiscard(r, p)
                        \/ BeginMine(r, p)
    \/ \E text \in Texts : BeginSave(r, text)
    \/ BeginSync(r)
    \/ BeginCommit(r)
    \/ \E name \in Branches : \/ BeginCreateBranch(r, name)
                              \/ BeginSwitch(r, name)

Handler(r) ==
    \/ Save(r) \/ Delete(r) \/ Discard(r) \/ RebaseMine(r)
    \/ ResolveHead(r) \/ PinHead(r)
    \/ ListForCommit(r) \/ NotEmpty(r) \/ ReadRef(r) \/ MoveRef(r)
    \/ Clear(r) \/ PinNew(r) \/ RebaseSpared(r)
    \/ CreateRef(r) \/ MovePending(r)
    \/ KnownHead(r) \/ ResolveTo(r) \/ SwitchBranch(r)

Outside ==
    \/ \E b \in Branches, p \in Paths, blob \in Blob : Push(b, p, blob)
    \/ \E b \in Branches : DeleteBranch(b)

Next ==
    \/ \E r \in Requests : Client(r) \/ Handler(r) \/ Abandon(r)
    \/ Outside

Spec == Init /\ [][Next]_vars

(* Every await of a handler returns.  The author does not give up: they     *)
(* sync, keep their version of what is in conflict, and commit, for as long *)
(* as that is possible again and again.                                     *)
Fairness == \A r \in Requests :
    /\ WF_vars(Handler(r))
    /\ SF_vars(BeginSync(r)) /\ SF_vars(BeginCommit(r))
    /\ \A p \in Paths : SF_vars(BeginMine(r, p))

FairSpec == Spec /\ Fairness

-----------------------------------------------------------------------------
(* Properties.                                                              *)

(* A commit of r reaches GitHub in this step.                               *)
Lands(r) == req[r].pc = "moveRef" /\ req'[r].pc = "clear"

(* An edit leaves the pending set of its branch only because the author     *)
(* discarded it, because a commit of exactly that content is on GitHub, or  *)
(* because it moved with them to a branch they just created.  "These rows   *)
(* are the only copy": clearCommitted, movePending and a crash between any  *)
(* two statements must not lose one (project-routes.ts:466-476).            *)
Discarded(b, p) == \E r \in Requests :
    req[r].pc = "revert" /\ req[r].branch = b /\ req[r].path = p
OnGitHub(b, p, row) == \E c \in DOMAIN commits :
    /\ commits[c].by = "civil" /\ commits[c].branch = b
    /\ p \in commits[c].wrote /\ commits[c].tree[p] = row.text
Carried(b, p) == \E to \in Branches \ {b} : pending'[to][p] = pending[b][p]

NothingLost ==
    [][\A b \in Branches, p \in Paths :
          pending[b][p].kind # "none" /\ pending'[b][p].kind = "none"
             => Discarded(b, p) \/ OnGitHub(b, p, pending[b][p]) \/ Carried(b, p)]_vars

(* Before the rows of a commit are cleared, the commit that holds their     *)
(* content is on GitHub, on their branch: "Only after the ref moved.        *)
(* Clearing first would lose the edits" (project-routes.ts:465-467).        *)
OnGitHubBeforeCleared ==
    \A r \in Requests : req[r].pc = "clear" =>
        /\ req[r].source # 0
        /\ LET c == commits[req[r].source]
           IN /\ c.by = "civil" /\ c.branch = req[r].branch
              /\ c.wrote = Changed(req[r].rows)
              /\ \A p \in c.wrote : c.tree[p] = req[r].rows[p].text

(* A commit lands on a file only if the branch still says there what it     *)
(* said at the base of the edit, however the pin, the ref and the rows      *)
(* moved while the handler waited on GitHub (project-routes.ts:404-417).    *)
(* A commit begun before any head is pinned is not checked at all.          *)
ConflictGate ==
    [][\A r \in Requests : Lands(r) /\ req[r].head # 0 =>
          \A p \in Changed(req[r].rows) :
             \/ req[r].rows[p].base = 0
             \/ TreeAt(req[r].rows[p].base)[p] = TreeAt(ref[req[r].branch])[p]]_vars

(* A commit is built on exactly the commit the author has been editing      *)
(* against (expectedHead, project-routes.ts:456-458): its only parent is    *)
(* the head the handler read.                                               *)
BuiltOnExpectedHead ==
    [][\A r \in Requests : Lands(r) /\ req[r].head # 0 =>
          commits'[req'[r].source].history
             = commits[req[r].head].history \cup {req'[r].source}]_vars

(* What makes it so: between reading the ref and moving it, the commit is   *)
(* being built on the head the author edits against, and on something.      *)
BuildsOnItsHead ==
    \A r \in Requests :
        /\ req[r].pc = "readRef" => ref[req[r].branch] # 0
        /\ req[r].pc = "moveRef" =>
              req[r].tip # 0 /\ (req[r].head # 0 => req[r].tip = req[r].head)

(* Each branch is pinned at a commit of its own: one the branch on GitHub   *)
(* contains (the comment of migration 8, project_branches.head_sha).        *)
PinnedOnBranch ==
    \A b \in Branches :
        pinned[b] # 0 /\ ref[b] # 0 => pinned[b] \in commits[ref[b]].history

(* Civil never picks a side: what a commit replaces on the branch is a      *)
(* version the author had in front of them when they made or kept the edit  *)
(* (conflicts.ts:3-8), or what they wrote themselves.                       *)
NoUnseenOverwrite ==
    [][\A r \in Requests : Lands(r) =>
          \A p \in Changed(req[r].rows) :
             TreeAt(ref[req[r].branch])[p]
                \in req[r].rows[p].seen \cup {req[r].rows[p].text}]_vars

(* A commit leaves every file the author did not change as the branch has   *)
(* it at that moment: base_tree carries the rest forward, and nothing       *)
(* pushed meanwhile is undone (commit.ts:95-97 and 147-150, 169-172).       *)
LeavesTheRestAlone ==
    [][\A r \in Requests : Lands(r) =>
          \A p \in Paths \ Changed(req[r].rows) :
             commits'[req'[r].source].tree[p] = TreeAt(ref[req[r].branch])[p]]_vars

(* A conflict shown to the author is a real one: where the edit's base is   *)
(* behind the pin, someone else changed the file in between.  In particular *)
(* an edit saved while a commit was in flight is not in conflict with its   *)
(* own earlier version (project-routes.ts:473-476), whatever else ran.      *)
InFlight(b) == \E r \in Requests :
    req[r].branch = b /\ req[r].pc \in {"clear", "pinNew", "rebaseSpared"}

ConflictsAreReal ==
    \A b \in Branches : ~InFlight(b) =>
        \A p \in Conflicts(pending[b], pinned[b]) :
            LET base == pending[b][p].base
            IN base \in commits[pinned[b]].history =>
                 \E c \in commits[pinned[b]].history \ commits[base].history :
                    commits[c].by = "upstream" /\ p \in commits[c].wrote

(* Once Civil edits against a commit it wrote, it does not go back to       *)
(* serving the tree from before it (project-routes.ts:470-471).             *)
OwnCommitStaysPinned ==
    [][\A b \in Branches :
          pinned[b] # 0 /\ commits[pinned[b]].by = "civil"
             => pinned[b] \in commits[pinned'[b]].history]_vars

(* No interleaving of saves, syncs and pushes wedges the author: whoever    *)
(* keeps syncing, deciding and committing gets their edits onto the branch, *)
(* unless GitHub stopped taking commits (here, the bound on them).          *)
PublishedInTheEnd ==
    \A b \in Branches :
        Changed(pending[b]) # {} ~> \/ Changed(pending[b]) = {}
                                   \/ Len(commits) = MaxCommits

(* A commit touches what its author has seen, and nothing else.              *)
CommitsTouchWhatWasSeen == NoUnseenOverwrite /\ LeavesTheRestAlone
=============================================================================
