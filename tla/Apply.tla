------------------------------- MODULE Apply -------------------------------
(***************************************************************************)
(* Apply changes, and Run: the flow that turns the sketch (the civil       *)
(* documents) into code through the model, remembers the answer, lands     *)
(* every file as a pending change, retires the files of earlier emissions  *)
(* and hands the result to the app session (http/transpile-routes.ts,      *)
(* project/transpile.ts, project/registry.ts, http/session-routes.ts),     *)
(* with the saves, commits and syncs that go on around it.                 *)
(*                                                                         *)
(* A step is what a handler does between two awaits.  The sketch and the   *)
(* author's code are version numbers, 0 for none.  An emission is the      *)
(* number of the model call that made it, and a file emitted by it holds   *)
(* that number: the model need not answer the same twice.                  *)
(***************************************************************************)
EXTENDS Integers, Sequences, FiniteSets

CONSTANTS
    Sketches,       \* bound: versions of the documents, 1 .. n
    Codes,          \* bound: versions of the author's code, 0 .. n, 0 for none
    TypeScript,     \* the sketches whose civil.yaml names another language
    Outs,           \* paths the model may emit
    Prompts,        \* those of them that are prompts/*.md, the author's own
    Registry,       \* civil/registry.yaml
    SaveOrder,      \* every path, sorted
    MaxEmissions,   \* bound: answers of the model
    Calls,          \* API calls that may be in flight
    Kinds,          \* what they do
    Faults          \* where a call may fail

Files == Outs \cup {Registry}

ASSUME ApplyAssumption ==
    /\ Sketches \subseteq Nat \ {0} /\ 1 \in Sketches /\ TypeScript \subseteq Sketches
    /\ Codes \subseteq Nat /\ 0 \in Codes
    /\ Registry \notin Outs /\ Prompts \subseteq Outs
    /\ SaveOrder \in Seq(Files) /\ \A f \in Files : \E i \in DOMAIN SaveOrder : SaveOrder[i] = f
    /\ MaxEmissions \in Nat
    /\ Kinds \subseteq {"apply", "run", "stop", "save", "commit", "sync", "discard"}
    /\ Faults \subseteq {"runner", "save"}

VARIABLES
    sketch,         \* version of the documents, pending over HEAD
    code,           \* version of the author's code, pending over HEAD
    patterns,       \* civil/patterns.md: the version of the code it describes
    patternsStale,  \* projects.patterns_stale
    patternsHead,   \* projects.patterns_head
    head,           \* Files -> the emission at HEAD, 0 for none
    rows,           \* Files -> the pending emission, 0 a delete, NoRow
    emissions,      \* the model's answers, [fp, files]
    memo,           \* transpilations: the emissions stored, one per input hash
    session,        \* the app session's workspace
    call,
    (* History: a discard or a failed save came after the last call that    *)
    (* got through; a sync brought code.                                    *)
    mixed, synced

vars == <<sketch, code, patterns, patternsStale, patternsHead, head, rows,
          emissions, memo, session, call, mixed, synced>>
history == <<mixed, synced>>

NoRow    == -1
Emission == 0 .. Len(emissions)
(* sketchFingerprint and inputHash: what the model reads.                   *)
Fingerprint == [sketch : Sketches, code : Codes, patterns : Codes]
NoFp == [sketch |-> 1, code |-> 0, patterns |-> 0]

Steps == {"idle", "open", "maintained", "refuse", "patternsState", "analyze", "markFresh",
          "lookup", "generate", "store", "save", "retire", "hand",
          "write", "markStale", "through", "land", "move", "delete", "drop"}

Call == [kind : Kinds \cup {"none"}, pc : Steps,
         fp   : Fingerprint,            \* the inputs as the overlay showed them
         base : [Files -> Emission],    \* the pinned commit it opened
         seen : [Files -> Emission],    \* the overlay it opened
         maintained : SUBSET Files,     \* maintainedPaths as it was read
         output : Emission,             \* the emission being landed
         todo : SUBSET Files]           \* files not yet saved or retired

NoCall == [kind |-> "none", pc |-> "idle", fp |-> NoFp, base |-> [f \in Files |-> 0],
           seen |-> [f \in Files |-> 0], maintained |-> {}, output |-> 0, todo |-> {}]

TypeOK ==
    /\ sketch \in Sketches /\ code \in Codes /\ patterns \in Codes
    /\ patternsStale \in BOOLEAN /\ patternsHead \in Nat
    /\ head \in [Files -> Emission]
    /\ rows \in [Files -> Emission \cup {NoRow}]
    /\ emissions \in Seq([fp : Fingerprint, files : SUBSET (Files \ Prompts)])
    /\ memo \subseteq DOMAIN emissions
    /\ session \in [up : BOOLEAN, files : [Files -> Emission], code : Codes]
    /\ call \in [Calls -> Call]
    /\ mixed \in BOOLEAN /\ synced \in BOOLEAN

Init ==
    /\ sketch \in Sketches /\ code \in Codes
    /\ patterns = 0 /\ patternsStale = FALSE /\ patternsHead = 0
    /\ head = [f \in Files |-> 0]
    /\ rows = [f \in Files |-> NoRow]
    /\ emissions = <<>> /\ memo = {}
    /\ session = [up |-> FALSE, files |-> [f \in Files |-> 0], code |-> 0]
    /\ call = [c \in Calls |-> NoCall]
    /\ mixed = FALSE /\ synced = FALSE

-----------------------------------------------------------------------------
Over(base, row) == IF row = NoRow THEN base ELSE row
Overlay == [f \in Files |-> Over(head[f], rows[f])]

(* The union of the files of every emission in the memo.                    *)
Maintained == UNION {emissions[i].files : i \in memo}

ApplyState(files, fp) ==
    IF fp.sketch \in TypeScript THEN "unsupported"
    ELSE IF files[Registry] = 0 THEN "never"
    ELSE IF emissions[files[Registry]].fp = fp THEN "current" ELSE "stale"

CurrentFp == [sketch |-> sketch, code |-> code, patterns |-> patterns]
Idle == \A c \in Calls : call[c].pc = "idle"

(* The sorted order of the save and retirement loops.                       *)
FirstOf(paths) ==
    SaveOrder[CHOOSE i \in DOMAIN SaveOrder :
                 /\ SaveOrder[i] \in paths
                 /\ \A j \in DOMAIN SaveOrder : SaveOrder[j] \in paths => i <= j]

At(c, pc) == call[c].pc = pc
Goto(c, pc) == call' = [call EXCEPT ![c].pc = pc]
Done(c) == call' = [call EXCEPT ![c] = NoCall]

(* What every step of Apply leaves alone.                                   *)
Kept == <<sketch, code, patternsHead, head>>

-----------------------------------------------------------------------------
(* The author.                                                              *)

(* An operation on the documents (Editing), at any moment.                  *)
EditSketch(s) ==
    /\ s # sketch
    /\ sketch' = s
    /\ UNCHANGED <<code, patterns, patternsStale, patternsHead, head, rows,
                   emissions, memo, session, call, history>>

FirstStep(kind) ==
    CASE kind \in {"apply", "run"} -> "maintained"
      [] kind = "save"   -> "write"
      [] kind = "commit" -> "land"
      [] kind = "sync"   -> "move"
      [] kind = "stop"   -> "delete"
      [] kind = "discard" -> "drop"

(* The handler opens the source and lists the pending rows: from here on it *)
(* reads this snapshot.  The version a save or a sync brings is in fp.code. *)
Begin(c, kind, version) ==
    /\ kind \in Kinds
    /\ At(c, "idle")
    /\ kind \in {"save", "sync"} \/ version = code
    /\ kind = "save" => version \notin {0, code}
    /\ kind = "sync" => version # 0
    /\ call' = [call EXCEPT ![c] =
          [NoCall EXCEPT !.kind = kind, !.pc = FirstStep(kind), !.base = head, !.seen = Overlay,
                         !.fp = [CurrentFp EXCEPT !.code = version]]]
    /\ UNCHANGED <<sketch, code, patterns, patternsStale, patternsHead, head, rows,
                   emissions, memo, session, history>>

-----------------------------------------------------------------------------
(* Apply changes, and Run.                                                  *)

(* Another language than Python is refused before any model work.           *)
Refuse(c) ==
    /\ At(c, "maintained") /\ call[c].fp.sketch \in TypeScript
    /\ Done(c)
    /\ UNCHANGED <<Kept, patterns, patternsStale, rows, emissions, memo, session, history>>

ReadMaintained(c) ==
    /\ At(c, "maintained") /\ call[c].fp.sketch \notin TypeScript
    /\ call' = [call EXCEPT ![c].pc = "patternsState", ![c].maintained = Maintained]
    /\ UNCHANGED <<Kept, patterns, patternsStale, rows, emissions, memo, session, history>>

(* patterns_head is compared with projects.head_sha, which nothing writes   *)
(* since the pin moved to project_branches: it is null on both sides.       *)
HeadShaColumn == 0

Stale(fp) == patternsStale \/ patternsHead # HeadShaColumn \/ fp.patterns = 0

(* The analysis is skipped when there is no code to read.                   *)
PatternsState(c) ==
    /\ At(c, "patternsState")
    /\ Goto(c, IF Stale(call[c].fp) /\ call[c].fp.code # 0 THEN "analyze" ELSE "lookup")
    /\ UNCHANGED <<Kept, patterns, patternsStale, rows, emissions, memo, session, history>>

(* The analyzer reads the code of the snapshot; its answer lands pending.   *)
Analyze(c) ==
    /\ At(c, "analyze")
    /\ patterns' = call[c].fp.code
    /\ call' = [call EXCEPT ![c].pc = "markFresh",
                            ![c].fp = [call[c].fp EXCEPT !.patterns = call[c].fp.code]]
    /\ UNCHANGED <<Kept, patternsStale, rows, emissions, memo, session, history>>

MarkFresh(c) ==
    /\ At(c, "markFresh")
    /\ patternsStale' = FALSE
    /\ patternsHead' = HeadShaColumn
    /\ Goto(c, "lookup")
    /\ UNCHANGED <<sketch, code, head, patterns, rows, emissions, memo, session, history>>

Remembered(fp) == {i \in memo : emissions[i].fp = fp}

(* The files of an emission are saved in sorted order.                      *)
Landing(record, i) ==
    [record EXCEPT !.pc = "save", !.output = i, !.todo = emissions[i].files]

Hit(c) ==
    /\ At(c, "lookup")
    /\ \E i \in Remembered(call[c].fp) : call' = [call EXCEPT ![c] = Landing(@, i)]
    /\ UNCHANGED <<Kept, patterns, patternsStale, rows, emissions, memo, session, history>>

Miss(c) ==
    /\ At(c, "lookup")
    /\ Remembered(call[c].fp) = {}
    /\ Goto(c, "generate")
    /\ UNCHANGED <<Kept, patterns, patternsStale, rows, emissions, memo, session, history>>

(* Mutation: the prompts are left in the answer.                            *)
EmittedWithPrompts(answer) == answer \cup {Registry}

(* stripPromptAssets and attachRegistry: prompts are dropped from the       *)
(* answer, the registry is added to it.                                     *)
Emitted(answer) == (answer \ Prompts) \cup {Registry}

(* The model answers, with any files; it need not answer twice the same.    *)
Generate(c, answer) ==
    /\ At(c, "generate")
    /\ Len(emissions) < MaxEmissions
    /\ answer # {}
    /\ emissions' = Append(emissions, [fp |-> call[c].fp, files |-> Emitted(answer)])
    /\ call' = [call EXCEPT ![c].pc = "store", ![c].output = Len(emissions')]
    /\ UNCHANGED <<Kept, patterns, patternsStale, rows, memo, session, history>>

(* Mutation: The memo's key leaves the pattern prompt out.                  *)
StoredBySketch(i) ==
    IF \E j \in memo : emissions[j].fp.sketch = emissions[i].fp.sketch
    THEN memo ELSE memo \cup {i}

(* storeMemo: ON CONFLICT DO NOTHING; the caller lands its own answer.      *)
Stored(i) == IF Remembered(emissions[i].fp) = {} THEN memo \cup {i} ELSE memo

Store(c) ==
    /\ At(c, "store")
    /\ memo' = Stored(call[c].output)
    /\ call' = [call EXCEPT ![c] = Landing(@, call[c].output)]
    /\ UNCHANGED <<Kept, patterns, patternsStale, rows, emissions, session, history>>

(* What retirement goes over once every file is saved.                      *)
Retired(record) == (record.maintained \ emissions[record.output].files) \ Prompts

Save(c) ==
    LET left == call[c].todo IN
    /\ At(c, "save") /\ left # {}
    /\ rows' = [rows EXCEPT ![FirstOf(left)] = call[c].output]
    /\ call' = [call EXCEPT ![c].todo = left \ {FirstOf(left)}]
    /\ UNCHANGED <<Kept, patterns, patternsStale, emissions, memo, session, history>>

Saved(c) ==
    /\ At(c, "save") /\ call[c].todo = {}
    /\ call' = [call EXCEPT ![c].pc = "retire", ![c].todo = Retired(call[c])]
    /\ UNCHANGED <<Kept, patterns, patternsStale, rows, emissions, memo, session, history>>

(* Mutation: Retirement leaves what is at HEAD to the next commit.          *)
RetirementOfPendingOnly(base) == NoRow

(* A delete when the file is at the commit the call opened, a revert when   *)
(* it was only ever pending.                                                *)
Retirement(base) == IF base # 0 THEN 0 ELSE NoRow

Retire(c) ==
    LET left == call[c].todo IN
    /\ At(c, "retire") /\ left # {}
    /\ rows' = [rows EXCEPT ![FirstOf(left)] = Retirement(call[c].base[FirstOf(left)])]
    /\ call' = [call EXCEPT ![c].todo = left \ {FirstOf(left)}]
    /\ UNCHANGED <<Kept, patterns, patternsStale, emissions, memo, session, history>>

(* assembleSessionFiles: the overlay as it was opened, the emission merged  *)
(* on top, the retired files removed.                                       *)
Assembled(record) ==
    [f \in Files |-> IF f \in emissions[record.output].files THEN record.output
                     ELSE IF f \in Retired(record) THEN 0
                     ELSE record.seen[f]]

(* Mutation: The hot path sends the files and not the deletions.            *)
PatchedWithoutDeletions(record) ==
    [f \in Files |-> IF f \in emissions[record.output].files THEN record.output
                     ELSE session.files[f]]

(* syncTranspileToSession: the same as changes to a session that is up.     *)
Patched(record) ==
    [f \in Files |-> IF f \in emissions[record.output].files THEN record.output
                     ELSE IF f \in Retired(record) THEN 0
                     ELSE session.files[f]]

Hand(c) ==
    /\ At(c, "retire") /\ call[c].todo = {}
    /\ session' = IF call[c].kind = "run"
                  THEN [up |-> TRUE, files |-> Assembled(call[c]), code |-> call[c].fp.code]
                  ELSE IF session.up THEN [session EXCEPT !.files = Patched(call[c])]
                  ELSE session
    /\ mixed' = FALSE
    /\ Done(c)
    /\ UNCHANGED synced
    /\ UNCHANGED <<Kept, patterns, patternsStale, rows, emissions, memo>>

(* The runner fails before anything is saved, or the database in a save.    *)
Fail(c) ==
    /\ \/ "runner" \in Faults /\ call[c].pc \in {"analyze", "generate"}
       \/ "save" \in Faults /\ call[c].pc \in {"save", "retire"} /\ call[c].todo # {}
    /\ mixed' = (mixed \/ call[c].pc \in {"save", "retire"})
    /\ Done(c)
    /\ UNCHANGED <<Kept, patterns, patternsStale, rows, emissions, memo, session, synced>>

-----------------------------------------------------------------------------
(* What goes on around it.                                                  *)

(* A save of the author's own code: the row, the flag, the running session. *)
WriteCode(c) ==
    /\ At(c, "write")
    /\ code' = call[c].fp.code
    /\ Goto(c, "markStale")
    /\ UNCHANGED <<sketch, patternsHead, head, patterns, patternsStale, rows, emissions,
                   memo, session, history>>

MarkStale(c) ==
    /\ At(c, "markStale")
    /\ patternsStale' = TRUE
    /\ Goto(c, "through")
    /\ UNCHANGED <<Kept, patterns, rows, emissions, memo, session, history>>

WriteThrough(c) ==
    /\ At(c, "through")
    /\ session' = IF session.up THEN [session EXCEPT !.code = call[c].fp.code] ELSE session
    /\ Done(c)
    /\ UNCHANGED <<Kept, patterns, patternsStale, rows, emissions, memo, history>>

(* The commit is refused while the sketch has changes not yet applied.      *)
Commit(c) ==
    /\ At(c, "land")
    /\ Done(c)
    /\ IF ApplyState(Overlay, CurrentFp) = "stale"
       THEN UNCHANGED <<head, rows>>
       ELSE /\ head' = Overlay
            /\ rows' = [f \in Files |-> NoRow]
    /\ UNCHANGED <<sketch, code, patternsHead, patterns, patternsStale, emissions, memo, session, history>>

(* A commit found on the branch brings another version of the code.         *)
Sync(c) ==
    /\ At(c, "move")
    /\ code' = call[c].fp.code
    /\ synced' = TRUE
    /\ Done(c)
    /\ UNCHANGED <<sketch, patternsHead, head, patterns, patternsStale, rows, emissions, memo,
                   session, mixed>>

Stop(c) ==
    /\ At(c, "delete")
    /\ session' = [session EXCEPT !.up = FALSE]
    /\ Done(c)
    /\ UNCHANGED <<Kept, patterns, patternsStale, rows, emissions, memo, history>>

(* One pending change is discarded: an emitted file is not excepted.        *)
Discard(c, f) ==
    /\ At(c, "drop")
    /\ rows' = [rows EXCEPT ![f] = NoRow]
    /\ mixed' = TRUE
    /\ Done(c)
    /\ UNCHANGED <<Kept, patterns, patternsStale, emissions, memo, session, synced>>

Next ==
    \/ \E s \in Sketches : EditSketch(s)
    \/ \E c \in Calls :
        \/ \E kind \in Kinds, v \in Codes : Begin(c, kind, v)
        \/ Refuse(c) \/ ReadMaintained(c) \/ PatternsState(c) \/ Analyze(c) \/ MarkFresh(c)
        \/ Hit(c) \/ Miss(c) \/ Store(c)
        \/ \E answer \in SUBSET Outs : Generate(c, answer)
        \/ Save(c) \/ Saved(c) \/ Retire(c) \/ Hand(c) \/ Fail(c)
        \/ WriteCode(c) \/ MarkStale(c) \/ WriteThrough(c)
        \/ Commit(c) \/ Sync(c) \/ Stop(c)
        \/ \E f \in Files : Discard(c, f)

Spec == Init /\ [][Next]_vars

-----------------------------------------------------------------------------
(* Correctness.                                                             *)

Applied(files) ==
    LET i == files[Registry] IN
    \A f \in Files : files[f] = IF f \in emissions[i].files THEN i ELSE 0

(* The page offers nothing to apply only when what the author has, pending  *)
(* over the commit, is exactly one emission: every file of it, and no file  *)
(* of an earlier one.  A discard or a save that failed breaks it, and the   *)
(* next call that gets through restores it (the save and retirement loops,  *)
(* findMemo, applyState).                                                   *)
CurrentMeansEmitted ==
    Idle /\ ~mixed /\ ApplyState(Overlay, CurrentFp) = "current" => Applied(Overlay)

(* A file the model wrote is known as such, so that the editor refuses to   *)
(* save over it, no later call offers it to the model as the author's code  *)
(* and retirement can find it (storeMemo, maintainedPaths).                 *)
EmittedIsMaintained ==
    \A f \in Files : Overlay[f] # 0 => f \in Maintained

(* An analysis that counts as fresh describes the code there is: a save of  *)
(* code, however it falls, is followed by another one (setPatternsFresh,    *)
(* markPatternsStale).                                                      *)
PatternsFollowTheCode ==
    Idle /\ ~synced /\ patterns # 0 /\ ~patternsStale => patterns = code

(* A running session holds what the author last saved and applied: hot      *)
(* changes and a fresh start come to the same files, whatever failed in     *)
(* between (assembleSessionFiles, syncTranspileToSession).                  *)
SessionRunsWhatWasApplied ==
    Idle /\ session.up /\ ~mixed =>
        session.files = Overlay /\ (synced \/ session.code = code)

(* The code that lands matches the documents landing with it: a commit that *)
(* passes as applied lands one whole emission (the commit gate).            *)
CommittedCodeMatches ==
    [][head' # head /\ ApplyState(head', CurrentFp) = "current" => Applied(head')]_vars

(* What was taken from the author earlier follows the author: the session's *)
(* files and the analysis of the code.                                      *)
NothingGoesStale == SessionRunsWhatWasApplied /\ PatternsFollowTheCode
=============================================================================
