------------------------------ MODULE Editing ------------------------------
(***************************************************************************)
(* Canvas edits as operations, and undo: the page's history of operations  *)
(* (apps/web/src/App.tsx) over the handlers that read a document through   *)
(* its pending text and save the result (apps/api/src/http/project-routes  *)
(* and transpile-routes, project/overlay.ts).                              *)
(*                                                                         *)
(* A document's text is the set of edits that are in it.  A step is what a *)
(* handler does between two awaits on the database; a commit is one step   *)
(* here and is opened up in SourceControl.                                 *)
(***************************************************************************)
EXTENDS Naturals, Sequences, FiniteSets, SequencesExt

CONSTANTS
    Pages,      \* browser tabs of one author
    Docs,       \* documents and files
    Branches,
    Main,       \* the branch the project starts on
    Edits,      \* edits an author may make, each once
    Calls,      \* API calls that may be in flight
    Does,       \* page -> the kinds of calls it makes
    Patient,    \* every page waits for each answer before its next gesture
    Faults,     \* what may go wrong: a call is refused, an undo is, an answer is lost
    UNDO_LIMIT, \* operations the page remembers
    Nil         \* not an edit

Kinds == {"op", "undo", "save", "discard", "commit", "switch", "sync", "lift"}

ASSUME EditingAssumption ==
    /\ Main \in Branches /\ Pages # {} /\ Docs # {}
    /\ Does \in [Pages -> SUBSET Kinds]
    /\ Patient \in BOOLEAN
    /\ Faults \subseteq {"refused", "undoRefused", "lostAnswer"}
    /\ UNDO_LIMIT \in Nat \ {0}
    /\ Nil \notin Edits

VARIABLES
    current,    \* projects.current_branch
    head,       \* branch -> document -> text at the pinned commit
    rows,       \* pending_changes: branch -> document -> text, or Absent
    undo,       \* page -> undoStack, the most recent operation last
    tab,        \* page -> document -> the text of the page's open editor tab
    call,       \* calls in flight
    made        \* edits made so far

vars == <<current, head, rows, undo, tab, call, made>>

(* No pending row, no text in a tab: told apart from every text.            *)
Absent == {Nil}

Text == SUBSET Edits
Row  == Text \cup {Absent}

(* UndoEntry.  edit is not in the code: the edit the operation made.       *)
Entry == [doc : Docs, previous : Text, hadPending : BOOLEAN, edit : SUBSET Edits]

(* branch and base are what getProject and the source returned to the      *)
(* handler, seen the pending row it listed; entry is what the page undoes. *)
Call == [kind : Kinds \cup {"none"}, pc : {"idle", "sent", "routed", "listed", "answered"},
         page : Pages, doc : Docs, text : Text, to : Branches,
         branch : Branches, base : Text, seen : Row, entry : Entry, ok : BOOLEAN]

NoEntry == [doc |-> CHOOSE d \in Docs : TRUE, previous |-> {}, hadPending |-> FALSE,
            edit |-> {}]
NoCall == [kind |-> "none", pc |-> "idle", page |-> CHOOSE p \in Pages : TRUE,
           doc |-> NoEntry.doc, text |-> {}, to |-> Main, branch |-> Main,
           base |-> {}, seen |-> Absent, entry |-> NoEntry, ok |-> TRUE]

TypeOK ==
    /\ current \in Branches
    /\ head \in [Branches -> [Docs -> Text]]
    /\ rows \in [Branches -> [Docs -> Row]]
    /\ undo \in [Pages -> Seq(Entry)] /\ \A p \in Pages : Len(undo[p]) <= UNDO_LIMIT
    /\ tab \in [Pages -> [Docs -> Row]]
    /\ call \in [Calls -> Call]
    /\ made \subseteq Edits

Init ==
    /\ current = Main
    /\ head = [b \in Branches |-> [d \in Docs |-> {}]]
    /\ rows = [b \in Branches |-> [d \in Docs |-> Absent]]
    /\ undo = [p \in Pages |-> <<>>]
    /\ tab = [p \in Pages |-> [d \in Docs |-> Absent]]
    /\ call = [c \in Calls |-> NoCall]
    /\ made = {}

-----------------------------------------------------------------------------
(* OverlaySource.read: the pending text when there is a row, else HEAD's.  *)
Over(base, row) == IF row = Absent THEN base ELSE row
TextOf(b, d)    == Over(head[b][d], rows[b][d])
Changed(b)      == {d \in Docs : rows[b][d] # Absent}

InFlight(p) == {c \in Calls : call[c].pc # "idle" /\ call[c].page = p}

Send(c, p, kind, doc, text, to, entry) ==
    /\ kind \in Does[p]
    /\ call[c].pc = "idle"
    /\ Patient => InFlight(p) = {}
    /\ call' = [call EXCEPT ![c] =
          [NoCall EXCEPT !.kind = kind, !.pc = "sent", !.page = p, !.doc = doc,
                         !.text = text, !.to = to, !.entry = entry]]

-----------------------------------------------------------------------------
(* The page.                                                                *)

(* runOps: no state guards it; two gestures send two calls.                 *)
SendOp(c, p, d, e) ==
    /\ e \notin made
    /\ Send(c, p, "op", d, {e}, Main, NoEntry)
    /\ made' = made \cup {e}
    /\ UNCHANGED <<current, head, rows, undo, tab>>

(* undoLast: the entry leaves the stack before the call is sent.            *)
SendUndo(c, p) ==
    /\ undo[p] # <<>>
    /\ Send(c, p, "undo", Last(undo[p]).doc, {}, Main, Last(undo[p]))
    /\ undo' = [undo EXCEPT ![p] = Front(@)]
    /\ UNCHANGED <<current, head, rows, tab, made>>

(* CodeContext loads a file's text once and keeps it.                       *)
OpenTab(p, d) ==
    /\ "save" \in Does[p]
    /\ tab[p][d] = Absent
    /\ Patient => InFlight(p) = {}
    /\ tab' = [tab EXCEPT ![p][d] = TextOf(current, d)]
    /\ UNCHANGED <<current, head, rows, undo, call, made>>

SendSave(c, p, d, e) ==
    /\ e \notin made
    /\ tab[p][d] # Absent
    /\ Send(c, p, "save", d, tab[p][d] \cup {e}, Main, NoEntry)
    /\ made' = made \cup {e}
    /\ UNCHANGED <<current, head, rows, undo, tab>>

SendDiscard(c, p, d) ==
    /\ Send(c, p, "discard", d, {}, Main, NoEntry)
    /\ UNCHANGED <<current, head, rows, undo, tab, made>>

(* A button is off while its own call is in flight.                         *)
SendGit(c, p, kind, to) ==
    /\ kind \in {"commit", "switch"}
    /\ \A other \in InFlight(p) : call[other].kind # kind
    /\ Send(c, p, kind, NoEntry.doc, {}, to, NoEntry)
    /\ UNCHANGED <<current, head, rows, undo, tab, made>>

(* A sync finds what upstream wrote to a document meanwhile, if anything.   *)
SendSync(c, p, d, found) ==
    /\ found \cap made = {}
    /\ Send(c, p, "sync", d, found, Main, NoEntry)
    /\ made' = made \cup found
    /\ UNCHANGED <<current, head, rows, undo, tab>>

SendLift(c, p, d, e) ==
    /\ e \notin made
    /\ Send(c, p, "lift", d, {e}, Main, NoEntry)
    /\ made' = made \cup {e}
    /\ UNCHANGED <<current, head, rows, undo, tab>>

-----------------------------------------------------------------------------
(* The handlers.                                                            *)

(* getProject, then the source at the commit it names.                      *)
Route(c) ==
    /\ call[c].pc = "sent"
    /\ call' = [call EXCEPT ![c].pc = "routed", ![c].branch = current,
                            ![c].base = head[current][call[c].doc]]
    /\ UNCHANGED <<current, head, rows, undo, tab, made>>

(* listPending, for an operation and for a lift.                            *)
List(c) ==
    /\ call[c].pc = "routed"
    /\ call[c].kind \in {"op", "lift"}
    /\ call' = [call EXCEPT ![c].pc = "listed",
                            ![c].seen = rows[call[c].branch][call[c].doc]]
    /\ UNCHANGED <<current, head, rows, undo, tab, made>>

Answer(c, ok) == call' = [call EXCEPT ![c].pc = "answered", ![c].ok = ok]

(* savePending, after which the answer may be lost on its way.              *)
Write(c, text) ==
    /\ rows' = [rows EXCEPT ![call[c].branch][call[c].doc] = text]
    /\ \E ok \in {TRUE} \cup (IF "lostAnswer" \in Faults THEN {FALSE} ELSE {}) : Answer(c, ok)
    /\ UNCHANGED <<current, head, undo, tab, made>>

(* applyOps on the text that was read, and what undo needs in the answer.   *)
Apply(c) ==
    LET text == Over(call[c].base, call[c].seen)
    IN /\ call[c].pc = "listed"
       /\ rows' = [rows EXCEPT ![call[c].branch][call[c].doc] = text \cup call[c].text]
       /\ \E ok \in {TRUE} \cup (IF "lostAnswer" \in Faults THEN {FALSE} ELSE {}) :
             call' = [call EXCEPT ![c].pc = "answered", ![c].ok = ok,
                ![c].entry = [doc |-> call[c].doc, previous |-> text,
                              hadPending |-> call[c].seen # Absent, edit |-> call[c].text]]
       /\ UNCHANGED <<current, head, undo, tab, made>>

(* Undo saves the earlier text, or drops the row the operation began.       *)
Undo(c) ==
    /\ call[c].pc = "routed" /\ call[c].kind = "undo"
    /\ Write(c, IF call[c].entry.hadPending THEN call[c].entry.previous ELSE Absent)

Save(c) ==
    /\ call[c].pc = "routed" /\ call[c].kind = "save"
    /\ Write(c, call[c].text)

Discard(c) ==
    /\ call[c].pc = "routed" /\ call[c].kind = "discard"
    /\ Write(c, Absent)

Commit(c) ==
    LET branch == call[c].branch
    IN /\ call[c].pc = "routed" /\ call[c].kind = "commit"
       /\ head' = [head EXCEPT ![branch] = [d \in Docs |-> TextOf(branch, d)]]
       /\ rows' = [rows EXCEPT ![branch] = [d \in Docs |-> Absent]]
       /\ Answer(c, Changed(branch) # {})
       /\ UNCHANGED <<current, undo, tab, made>>

Switch(c) ==
    /\ call[c].pc = "routed" /\ call[c].kind = "switch"
    /\ current' = call[c].to
    /\ Answer(c, TRUE)
    /\ UNCHANGED <<head, rows, undo, tab, made>>

Sync(c) ==
    /\ call[c].pc = "routed" /\ call[c].kind = "sync"
    /\ head' = [head EXCEPT ![call[c].branch][call[c].doc] = @ \cup call[c].text]
    /\ Answer(c, TRUE)
    /\ UNCHANGED <<current, rows, undo, tab, made>>

(* Not found, too large, an operation the document refuses, GitHub away.    *)
Refuse(c) ==
    /\ IF call[c].kind = "undo" THEN "undoRefused" \in Faults ELSE "refused" \in Faults
    /\ call[c].pc \in {"routed", "listed"}
    /\ Answer(c, FALSE)
    /\ UNCHANGED <<current, head, rows, undo, tab, made>>

-----------------------------------------------------------------------------
(* The page gets the answer.                                                *)

(* Faulty: no limit.                                                        *)
RememberedAll(stack, entry) == Append(stack, entry)

(* Every operation is one step; the oldest falls off at the limit.          *)
Remembered(stack, entry) ==
    IF Len(stack) < UNDO_LIMIT THEN Append(stack, entry)
                               ELSE Append(Tail(stack), entry)

(* Entries of a file that was saved or reverted by hand go.                 *)
WithoutDoc(stack, d) ==
    LET kept[i \in 0 .. Len(stack)] ==
            IF i = 0 THEN <<>>
            ELSE LET before == kept[i - 1]
                 IN IF stack[i].doc = d THEN before ELSE Append(before, stack[i])
    IN kept[Len(stack)]

(* Faulty: a switch of branch keeps the history.                            *)
HistoryAfterAcrossBranches(q) ==
    LET stack == undo[q.page]
    IN IF ~q.ok THEN stack ELSE
       CASE q.kind = "op"                   -> Remembered(stack, q.entry)
         [] q.kind \in {"save", "discard"}  -> WithoutDoc(stack, q.doc)
         [] q.kind = "commit"               -> <<>>
         [] q.kind = "sync" /\ q.text # {}  -> <<>>
         [] OTHER                           -> stack

(* Faulty: a save keeps the entries of the file it saved.                   *)
HistoryAfterDespiteSaves(q) ==
    LET stack == undo[q.page]
    IN IF ~q.ok THEN stack ELSE
       CASE q.kind = "op"                   -> Remembered(stack, q.entry)
         [] q.kind = "discard"              -> WithoutDoc(stack, q.doc)
         [] q.kind \in {"commit", "switch"} -> <<>>
         [] q.kind = "sync" /\ q.text # {}  -> <<>>
         [] OTHER                           -> stack

HistoryAfter(q) ==
    LET stack == undo[q.page]
    IN IF ~q.ok THEN stack ELSE
       CASE q.kind = "op"                   -> Remembered(stack, q.entry)
         [] q.kind \in {"save", "discard"}  -> WithoutDoc(stack, q.doc)
         [] q.kind \in {"commit", "switch"} -> <<>>
         [] q.kind = "sync" /\ q.text # {}  -> <<>>
         [] OTHER                           -> stack

Receive(c) ==
    LET q == call[c]
    IN /\ q.pc = "answered"
       /\ undo' = [undo EXCEPT ![q.page] = HistoryAfter(q)]
       /\ tab' = IF q.ok /\ q.kind = "save" THEN [tab EXCEPT ![q.page][q.doc] = q.text] ELSE tab
       /\ call' = [call EXCEPT ![c] = NoCall]
       /\ UNCHANGED <<current, head, rows, made>>

-----------------------------------------------------------------------------
Gesture ==
    \E c \in Calls, p \in Pages :
        \/ \E d \in Docs, e \in Edits :
              SendOp(c, p, d, e) \/ SendSave(c, p, d, e) \/ SendLift(c, p, d, e)
        \/ \E d \in Docs : SendDiscard(c, p, d) \/ OpenTab(p, d)
        \/ \E d \in Docs, e \in Edits : SendSync(c, p, d, {e}) \/ SendSync(c, p, d, {})
        \/ SendUndo(c, p)
        \/ \E b \in Branches : SendGit(c, p, "switch", b)
        \/ SendGit(c, p, "commit", Main)

Handler ==
    \E c \in Calls :
        \/ Route(c) \/ List(c) \/ Apply(c) \/ Undo(c) \/ Save(c) \/ Discard(c)
        \/ Commit(c) \/ Switch(c) \/ Sync(c) \/ Refuse(c) \/ Receive(c)

Next == Gesture \/ Handler
Spec == Init /\ [][Next]_vars

-----------------------------------------------------------------------------
(* Properties.                                                              *)

(* The text an operation left, and whether nothing since was about its file.*)
After(entry)       == entry.previous \cup entry.edit
LastOf(stack, i)   == \A k \in DOMAIN stack : k > i => stack[k].doc # stack[i].doc
Follows(stack, i, j) ==
    /\ i < j /\ stack[i].doc = stack[j].doc
    /\ \A k \in DOMAIN stack : i < k /\ k < j => stack[k].doc # stack[i].doc

(* What the page remembers is what happened to the file: between calls, the *)
(* text of a document is its last entry's earlier text with that entry's    *)
(* edit, each entry starts from the result of the one before it, and only   *)
(* the first can have begun the pending row.  Saves, discards, commits,     *)
(* switches and syncs must each drop the entries they make untrue           *)
(* (App.tsx:1334, 871, 888, 1796, clearUndo).                               *)
HistoryMatchesTheFile ==
    \A p \in Pages : InFlight(p) = {} =>
        LET stack == undo[p]
        IN \A j \in DOMAIN stack :
              /\ LastOf(stack, j) => rows[current][stack[j].doc] = After(stack[j])
              /\ \A i \in DOMAIN stack : Follows(stack, i, j) =>
                    stack[j].hadPending /\ stack[j].previous = After(stack[i])

(* An undo takes exactly its own edit out of the text of the branch in      *)
(* front of the author, and out of no other branch (App.tsx:1361).          *)
UndoIsExact ==
    [][\A c \in Calls :
          call[c].kind = "undo" /\ call[c].pc = "routed" /\ rows' # rows =>
            \A b \in Branches, d \in Docs :
                TextOf(b, d)' = IF b = current /\ d = call[c].doc
                                THEN TextOf(b, d) \ call[c].entry.edit
                                ELSE TextOf(b, d)]_vars

(* An operation or a lift that lands loses no edit already in the document  *)
(* (docs/ops.md:88, project-routes.ts:752).                                 *)
EditsBuildOnEachOther ==
    [][\A b \in Branches, d \in Docs :
          (\E c \in Calls : call[c].pc = "listed" /\ call'[c].pc = "answered")
            => TextOf(b, d) \subseteq TextOf(b, d)']_vars

(* Undo stops at a commit (App.tsx:357): the edit an undo takes out is      *)
(* never one that has been committed.                                       *)
UndoStopsAtACommit ==
    [][\A c \in Calls :
          call[c].kind = "undo" /\ call[c].pc = "routed" /\ rows' # rows =>
            call[c].entry.edit \cap head[current][call[c].doc] = {}]_vars

(* An undo takes out its own edit and nothing else, and never one that has  *)
(* been committed.                                                          *)
UndoIsSafe == UndoIsExact /\ UndoStopsAtACommit
=============================================================================
