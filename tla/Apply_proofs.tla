---------------------------- MODULE Apply_proofs ----------------------------
(* Theorems about Apply, for any number of files, versions, answers of the   *)
(* model and calls.                                                          *)
EXTENDS Apply, SequenceTheorems, WellFoundedInduction, TLAPS

USE ApplyAssumption

(* At most one call is between finding nothing in the memo and storing the   *)
(* model's answer there.                                                     *)
OneAsks == \A c, d \in Calls :
  call[c].pc \in {"generate", "store"} /\ call[d].pc \in {"generate", "store"} => c = d

(* The calls do not overlap.                                                 *)
OneAtATime == \A c, d \in Calls : call[c].pc # "idle" /\ call[d].pc # "idle" => c = d

-----------------------------------------------------------------------------
(* The model's answer is there to be stored.                                 *)
Typed == TypeOK /\ \A c \in Calls : call[c].pc = "store" => call[c].output \in DOMAIN emissions

(* What is at the commit or pending was written from an emission that is in  *)
(* the memo.                                                                 *)
WrittenIsKnown ==
  /\ \A f \in Files : head[f] # 0 => f \in Maintained
  /\ \A f \in Files : rows[f] \notin {0, NoRow} => f \in Maintained

(* What a call lands is in the memo by the time its files are saved.         *)
LandsFromTheMemo ==
  \A c \in Calls :
    /\ call[c].pc = "generate" => Remembered(call[c].fp) = {}
    /\ call[c].pc = "store" => Remembered(emissions[call[c].output].fp) = {}
    /\ call[c].pc \in {"save", "retire"} => call[c].output \in memo
    /\ call[c].pc = "save" => call[c].todo \subseteq emissions[call[c].output].files

TheRegistryIsEmitted == \A i \in DOMAIN emissions : Registry \in emissions[i].files

MemoInv == Typed /\ WrittenIsKnown /\ LandsFromTheMemo /\ TheRegistryIsEmitted

-----------------------------------------------------------------------------
Reading == {"patternsState", "analyze", "markFresh", "lookup", "generate", "store"}
Writing == {"save", "retire"}
Wrote(c) == emissions[call[c].output].files

(* A call that is alone still sees what it saw, and has read all that the    *)
(* memo knew.                                                                *)
SeesWhatIs ==
  \A c \in Calls :
    /\ call[c].pc # "idle" => call[c].base = head
    /\ call[c].pc \in {"maintained", "markStale", "through"} \cup Reading \cup Writing => call[c].fp.code = code
    /\ call[c].pc \in {"maintained"} \cup Reading => call[c].seen = Overlay
    /\ call[c].pc \in Reading => call[c].maintained = Maintained
    /\ call[c].pc \in Writing =>
         /\ Maintained \subseteq call[c].maintained \cup Wrote(c)
         /\ \A f \in Files : call[c].seen[f] # 0 => f \in Maintained

(* How far the save and retirement loops have come.                          *)
LoopsAreOnTheirWay ==
  \A c \in Calls :
    /\ call[c].pc = "save" => \A f \in Wrote(c) \ call[c].todo : rows[f] = call[c].output
    /\ call[c].pc = "retire" =>
         /\ \A f \in Wrote(c) : rows[f] = call[c].output
         /\ call[c].todo \subseteq Retired(call[c])
         /\ \A f \in Retired(call[c]) \ call[c].todo : Overlay[f] = 0

Unwritten == \A c \in Calls : call[c].pc \notin Writing

(* What there is, is one emission, or nothing was ever emitted.              *)
Whole ==
  \/ \A f \in Files : Overlay[f] = 0
  \/ Overlay[Registry] \in DOMAIN emissions /\ Applied(Overlay)

WholeBetweenCalls == ~mixed /\ Unwritten => Whole /\ (session.up => session.files = Overlay)

SessionFollows ==
  /\ \A f \in Files : session.files[f] # 0 => f \in Maintained
  /\ session.up => \/ synced \/ session.code = code
                   \/ \E c \in Calls : call[c].pc \in {"markStale", "through"}

AnalysisFollows ==
  /\ ~synced /\ patterns # 0 /\ ~patternsStale =>
        patterns = code \/ \E c \in Calls : call[c].pc = "markStale"
  /\ \A c \in Calls : call[c].pc = "markFresh" => patterns = code

AloneInv ==
  SeesWhatIs /\ LoopsAreOnTheirWay /\ WholeBetweenCalls /\ SessionFollows /\ AnalysisFollows

-----------------------------------------------------------------------------
(* What a step makes of a call, and that it leaves the others alone.         *)

Alone(c) == /\ call' \in [Calls -> Call]
            /\ \A d \in Calls \ {c} : call'[d] = call[d]

Moves(c, pc, fp, maintained, output, todo) ==
  /\ Alone(c)
  /\ call'[c].pc = pc /\ call'[c].fp = fp /\ call'[c].maintained = maintained
  /\ call'[c].output = output /\ call'[c].todo = todo
  /\ call'[c].kind = call[c].kind /\ call'[c].base = call[c].base /\ call'[c].seen = call[c].seen

Ends(c) == Alone(c) /\ call'[c] = NoCall

LEMMA NoCallIsACall ==
  TypeOK => NoCall \in Call /\ NoCall.pc = "idle" /\ NoCall.todo = {} /\ NoCall.output = 0
  <1> SUFFICES ASSUME TypeOK PROVE NoCall \in Call /\ NoCall.pc = "idle" /\ NoCall.todo = {} /\ NoCall.output = 0
    OBVIOUS
  <1>1. NoFp \in Fingerprint
    BY DEF NoFp, Fingerprint
  <1>2. Len(emissions) \in Nat
    BY DEF TypeOK
  <1>3. [f \in Files |-> 0] \in [Files -> Emission]
    BY <1>2 DEF Emission
  <1> QED
    BY <1>1, <1>2, <1>3 DEF NoCall, Call, Steps, Emission

LEMMA EmissionsTyped ==
  ASSUME TypeOK
  PROVE  /\ Len(emissions) \in Nat /\ DOMAIN emissions = 1..Len(emissions)
         /\ \A i \in DOMAIN emissions :
               emissions[i].files \in SUBSET (Files \ Prompts) /\ emissions[i].fp \in Fingerprint
  <1> DEFINE E == [fp : Fingerprint, files : SUBSET (Files \ Prompts)]
  <1>1. emissions \in Seq(E)
    BY DEF TypeOK
  <1>2. \A e \in E : e.files \in SUBSET (Files \ Prompts) /\ e.fp \in Fingerprint
    OBVIOUS
  <1> HIDE DEF E
  <1> QED
    BY <1>1, <1>2

LEMMA Becoming ==
  ASSUME TypeOK, NEW c \in Calls, NEW new \in Call, call' = [call EXCEPT ![c] = new]
  PROVE  Alone(c) /\ call'[c] = new
  BY DEF TypeOK, Alone

LEMMA DoneEnds ==
  ASSUME TypeOK, NEW c \in Calls, Done(c)
  PROVE  Ends(c)
  BY NoCallIsACall, Becoming DEF Done, Ends

LEMMA GotoMoves ==
  ASSUME TypeOK, NEW c \in Calls, NEW pc \in Steps, Goto(c, pc)
  PROVE  Moves(c, pc, call[c].fp, call[c].maintained, call[c].output, call[c].todo)
  <1> DEFINE new == [call[c] EXCEPT !.pc = pc]
  <1>1. call[c] \in Call
    BY DEF TypeOK
  <1>2. /\ new \in Call /\ new.pc = pc /\ new.fp = call[c].fp /\ new.maintained = call[c].maintained
        /\ new.output = call[c].output /\ new.todo = call[c].todo
        /\ new.kind = call[c].kind /\ new.base = call[c].base /\ new.seen = call[c].seen
    BY <1>1 DEF Call
  <1>3. call' = [call EXCEPT ![c] = new]
    BY DEF Goto, TypeOK
  <1> HIDE DEF new
  <1>4. Alone(c) /\ call'[c] = new
    BY <1>2, <1>3, Becoming
  <1> QED
    BY <1>2, <1>4 DEF Moves

LEMMA TodoMoves ==
  ASSUME TypeOK, NEW c \in Calls, NEW todo \in SUBSET Files, call' = [call EXCEPT ![c].todo = todo]
  PROVE  Moves(c, call[c].pc, call[c].fp, call[c].maintained, call[c].output, todo)
  <1> DEFINE new == [call[c] EXCEPT !.todo = todo]
  <1>1. call[c] \in Call
    BY DEF TypeOK
  <1>2. /\ new \in Call /\ new.pc = call[c].pc /\ new.fp = call[c].fp /\ new.maintained = call[c].maintained
        /\ new.output = call[c].output /\ new.todo = todo
        /\ new.kind = call[c].kind /\ new.base = call[c].base /\ new.seen = call[c].seen
    BY <1>1 DEF Call
  <1>3. call' = [call EXCEPT ![c] = new]
    BY DEF TypeOK
  <1> HIDE DEF new
  <1>4. Alone(c) /\ call'[c] = new
    BY <1>2, <1>3, Becoming
  <1> QED
    BY <1>2, <1>4 DEF Moves

LEMMA LandingMoves ==
  ASSUME TypeOK, NEW c \in Calls, NEW i \in DOMAIN emissions, call' = [call EXCEPT ![c] = Landing(call[c], i)]
  PROVE  Moves(c, "save", call[c].fp, call[c].maintained, i, emissions[i].files)
  <1> DEFINE files == emissions[i].files
             new == Landing(call[c], i)
  <1>0. files \in SUBSET Files /\ i \in Emission /\ "save" \in Steps
    BY EmissionsTyped DEF Emission, Steps
  <1>1. call[c] \in Call
    BY DEF TypeOK
  <1>2. new = [call[c] EXCEPT !.pc = "save", !.output = i, !.todo = files]
    BY DEF Landing
  <1> HIDE DEF new, files
  <1>3. /\ new \in Call /\ new.pc = "save" /\ new.fp = call[c].fp /\ new.maintained = call[c].maintained
        /\ new.output = i /\ new.todo = files
        /\ new.kind = call[c].kind /\ new.base = call[c].base /\ new.seen = call[c].seen
    BY <1>0, <1>1, <1>2 DEF Call
  <1>4. call' = [call EXCEPT ![c] = new]
    BY DEF new
  <1>5. Alone(c) /\ call'[c] = new
    <2>1. new \in Call
      BY <1>3
    <2> QED
      BY <2>1, <1>4, Becoming
  <1>6. Moves(c, "save", call[c].fp, call[c].maintained, i, files)
    BY <1>3, <1>5 DEF Moves
  <1> QED
    BY <1>6 DEF files

LEMMA ReadMaintainedMoves ==
  ASSUME TypeOK, NEW c \in Calls, ReadMaintained(c)
  PROVE  Moves(c, "patternsState", call[c].fp, Maintained, call[c].output, call[c].todo)
  <1> DEFINE M == Maintained
             new == [call[c] EXCEPT !.pc = "patternsState", !.maintained = M]
  <1>0. M \in SUBSET Files /\ "patternsState" \in Steps
    <2>1. memo \subseteq DOMAIN emissions
      BY DEF TypeOK
    <2> QED
      BY <2>1, EmissionsTyped DEF Steps, Maintained
  <1>1. call[c] \in Call
    BY DEF TypeOK
  <1>2. call' = [call EXCEPT ![c] = new]
    BY DEF ReadMaintained, TypeOK
  <1> HIDE DEF M
  <1>3. /\ new \in Call /\ new.pc = "patternsState" /\ new.fp = call[c].fp /\ new.maintained = M
        /\ new.output = call[c].output /\ new.todo = call[c].todo
        /\ new.kind = call[c].kind /\ new.base = call[c].base /\ new.seen = call[c].seen
    BY <1>0, <1>1 DEF Call
  <1> HIDE DEF new
  <1>4. Moves(c, "patternsState", call[c].fp, M, call[c].output, call[c].todo)
    BY <1>3, <1>2, Becoming DEF Moves
  <1> QED
    BY <1>4 DEF M

LEMMA AnalyzeMoves ==
  ASSUME TypeOK, NEW c \in Calls, Analyze(c)
  PROVE  Moves(c, "markFresh", [call[c].fp EXCEPT !.patterns = call[c].fp.code],
               call[c].maintained, call[c].output, call[c].todo)
  <1> DEFINE fp == [call[c].fp EXCEPT !.patterns = call[c].fp.code]
             new == [call[c] EXCEPT !.pc = "markFresh", !.fp = fp]
  <1>1. call[c] \in Call
    BY DEF TypeOK
  <1>2. call[c].fp \in Fingerprint
    BY <1>1 DEF Call
  <1>3. fp \in Fingerprint /\ "markFresh" \in Steps
    BY <1>2 DEF Fingerprint, Steps
  <1>4. call' = [call EXCEPT ![c] = new]
    BY DEF Analyze, TypeOK
  <1> HIDE DEF fp
  <1>5. /\ new \in Call /\ new.pc = "markFresh" /\ new.fp = fp /\ new.maintained = call[c].maintained
        /\ new.output = call[c].output /\ new.todo = call[c].todo
        /\ new.kind = call[c].kind /\ new.base = call[c].base /\ new.seen = call[c].seen
    BY <1>1, <1>3 DEF Call
  <1> HIDE DEF new
  <1>6. Moves(c, "markFresh", fp, call[c].maintained, call[c].output, call[c].todo)
    BY <1>4, <1>5, Becoming DEF Moves
  <1> QED
    BY <1>6 DEF fp

LEMMA SavedMoves ==
  ASSUME TypeOK, NEW c \in Calls, Saved(c)
  PROVE  Moves(c, "retire", call[c].fp, call[c].maintained, call[c].output, Retired(call[c]))
  <1> DEFINE left == Retired(call[c])
             new == [call[c] EXCEPT !.pc = "retire", !.todo = left]
  <1>1. call[c] \in Call
    BY DEF TypeOK
  <1>0. left \in SUBSET Files /\ "retire" \in Steps
    BY <1>1 DEF Steps, Retired, Call
  <1>2. call' = [call EXCEPT ![c] = new]
    BY DEF Saved, TypeOK
  <1> HIDE DEF left
  <1>3. /\ new \in Call /\ new.pc = "retire" /\ new.fp = call[c].fp /\ new.maintained = call[c].maintained
        /\ new.output = call[c].output /\ new.todo = left
        /\ new.kind = call[c].kind /\ new.base = call[c].base /\ new.seen = call[c].seen
    BY <1>0, <1>1 DEF Call
  <1> HIDE DEF new
  <1>4. Moves(c, "retire", call[c].fp, call[c].maintained, call[c].output, left)
    BY <1>3, <1>2, Becoming DEF Moves
  <1> QED
    BY <1>4 DEF left

(* The call opens the source.                                                *)
LEMMA BeginMoves ==
  ASSUME TypeOK, NEW c \in Calls, NEW kind \in Kinds, NEW version \in Codes, Begin(c, kind, version)
  PROVE  /\ Alone(c) /\ call[c].pc = "idle"
         /\ call'[c].pc = FirstStep(kind) /\ call'[c].base = head /\ call'[c].seen = Overlay
         /\ call'[c].fp = [CurrentFp EXCEPT !.code = version] /\ call'[c].kind = kind
         /\ call'[c].todo = {} /\ call'[c].output = 0
         /\ FirstStep(kind) \in {"maintained", "write", "land", "move", "delete", "drop"}
         /\ FirstStep(kind) = "maintained" => version = code
  <1> DEFINE fp == [CurrentFp EXCEPT !.code = version]
             seen == Overlay
             pc == FirstStep(kind)
             new == [NoCall EXCEPT !.kind = kind, !.pc = pc, !.base = head, !.seen = seen, !.fp = fp]
  <1>1. fp \in Fingerprint
    BY DEF TypeOK, CurrentFp, Fingerprint
  <1>2. seen \in [Files -> Emission] /\ head \in [Files -> Emission]
    BY DEF TypeOK, Overlay, Over
  <1>3. pc \in {"maintained", "write", "land", "move", "delete", "drop"}
    BY DEF FirstStep
  <1>4. pc = "maintained" => version = code
    BY DEF FirstStep, Begin
  <1>5. call' = [call EXCEPT ![c] = new] /\ call[c].pc = "idle"
    BY DEF Begin, At
  <1> HIDE DEF fp, seen, pc
  <1>6. pc \in Steps
    BY <1>3 DEF Steps
  <1>7. NoCall \in Call /\ NoCall.todo = {} /\ NoCall.output = 0
    BY NoCallIsACall
  <1>8. /\ new \in Call /\ new.pc = pc /\ new.base = head /\ new.seen = seen /\ new.fp = fp
        /\ new.kind = kind /\ new.todo = {} /\ new.output = 0
    BY <1>1, <1>2, <1>6, <1>7 DEF Call
  <1> HIDE DEF new
  <1>9. Alone(c) /\ call'[c] = new
    BY <1>5, <1>8, Becoming
  <1> QED
    BY <1>3, <1>4, <1>5, <1>8, <1>9 DEF fp, seen, pc

(* The model's answer is one emission more.                                  *)
LEMMA EmissionsGrow ==
  ASSUME TypeOK, NEW e \in [fp : Fingerprint, files : SUBSET (Files \ Prompts)],
         emissions' = Append(emissions, e)
  PROVE  /\ Len(emissions) \in Nat /\ DOMAIN emissions = 1..Len(emissions)
         /\ Len(emissions') = Len(emissions) + 1 /\ DOMAIN emissions' = 1..(Len(emissions) + 1)
         /\ \A i \in DOMAIN emissions : emissions'[i] = emissions[i]
         /\ emissions'[Len(emissions) + 1] = e
         /\ \A i \in Emission : i \in Emission'
         /\ \A r \in Call : r \in Call'
  <1> DEFINE E == [fp : Fingerprint, files : SUBSET (Files \ Prompts)]
  <1>1. emissions \in Seq(E)
    BY DEF TypeOK
  <1>2. /\ Len(emissions) \in Nat /\ DOMAIN emissions = 1..Len(emissions)
        /\ Len(emissions') = Len(emissions) + 1 /\ DOMAIN emissions' = 1..(Len(emissions) + 1)
        /\ \A i \in DOMAIN emissions : emissions'[i] = emissions[i]
        /\ emissions'[Len(emissions) + 1] = e
    <2> HIDE DEF E
    <2> QED
      BY <1>1, AppendProperties DEF E
  <1>3. \A i \in Emission : i \in Emission'
    BY <1>2 DEF Emission
  <1>4. ASSUME NEW r \in Call PROVE r \in Call'
    <2>1. r \in Call
      OBVIOUS
    <2> HIDE DEF Emission
    <2> QED
      BY <2>1, <1>3 DEF Call
  <1> QED
    BY <1>2, <1>3, <1>4

LEMMA LeastNumber ==
  ASSUME NEW T \in SUBSET Nat, T # {}
  PROVE  \E x \in T : \A y \in T : x <= y
  <1> DEFINE R == OpToRel(<, Nat)
  <1>1. IsWellFoundedOn(R, Nat)
    BY NatLessThanWellFounded
  <1> HIDE DEF R
  <1>2. PICK x \in T : \A y \in T : ~(<<y, x>> \in R)
    BY <1>1, WFMin, Zenon
  <1>3. \A m, n \in Nat : m < n => <<m, n>> \in R
    BY DEF R, OpToRel
  <1>4. ASSUME NEW y \in T PROVE x <= y
    <2>1. x \in Nat /\ y \in Nat
      OBVIOUS
    <2>2. ~(y < x)
      BY <1>2, <1>3, <2>1
    <2> QED
      BY <2>1, <2>2
  <1> QED
    BY <1>4

(* The loops take a file of those that are left.                             *)
LEMMA FirstIsOneOfThem ==
  ASSUME NEW paths \in SUBSET Files, paths # {}
  PROVE  FirstOf(paths) \in paths
  <1> DEFINE Places == {i \in DOMAIN SaveOrder : SaveOrder[i] \in paths}
  <1>1. DOMAIN SaveOrder \subseteq Nat
    OBVIOUS
  <1>2. Places # {}
    <2>1. PICK f \in paths : TRUE
      OBVIOUS
    <2>2. PICK i \in DOMAIN SaveOrder : SaveOrder[i] = f
      BY <2>1
    <2> QED
      BY <2>2
  <1>3. PICK i \in Places : \A j \in Places : i <= j
    <2>1. Places \in SUBSET Nat
      BY <1>1
    <2> HIDE DEF Places
    <2> QED
      BY <1>2, <2>1, LeastNumber
  <1>4. \E k \in DOMAIN SaveOrder :
           /\ SaveOrder[k] \in paths
           /\ \A j \in DOMAIN SaveOrder : SaveOrder[j] \in paths => k <= j
    BY <1>3
  <1> QED
    BY <1>4 DEF FirstOf

-----------------------------------------------------------------------------
LEMMA CallStays ==
  ASSUME UNCHANGED emissions
  PROVE  Call' = Call /\ Emission' = Emission
  BY DEF Call, Emission

LEMMA InitTypeOK == Init => TypeOK
  <1> SUFFICES ASSUME Init PROVE TypeOK
    OBVIOUS
  <1>1. Emission = {0} /\ emissions \in Seq([fp : Fingerprint, files : SUBSET (Files \ Prompts)])
    BY DEF Init, Emission
  <1>2. NoFp \in Fingerprint
    BY DEF NoFp, Fingerprint
  <1>3. NoCall \in Call
    BY <1>1, <1>2 DEF NoCall, Call, Steps
  <1>4. 0 \in Emission
    BY <1>1
  <1>5. call \in [Calls -> Call] /\ memo \subseteq DOMAIN emissions
    BY <1>3 DEF Init
  <1> HIDE DEF Call, Emission
  <1>6. /\ head \in [Files -> Emission] /\ rows \in [Files -> Emission \cup {NoRow}]
        /\ session \in [up : BOOLEAN, files : [Files -> Emission], code : Codes]
    BY <1>4 DEF Init
  <1>7. /\ sketch \in Sketches /\ code \in Codes /\ patterns \in Codes /\ patternsStale \in BOOLEAN
        /\ patternsHead \in Nat /\ mixed \in BOOLEAN /\ synced \in BOOLEAN
    BY DEF Init
  <1> QED
    BY <1>1, <1>5, <1>6, <1>7 DEF TypeOK

(* A step that leaves the emissions alone, and of the rest changes what it   *)
(* changes to something of its type.                                         *)
LEMMA TypeStays ==
  ASSUME TypeOK, NEW c \in Calls, Alone(c), UNCHANGED <<emissions, sketch>>,
         memo' \subseteq DOMAIN emissions, head' \in [Files -> Emission],
         rows' \in [Files -> Emission \cup {NoRow}],
         session' \in [up : BOOLEAN, files : [Files -> Emission], code : Codes],
         code' \in Codes, patterns' \in Codes, patternsStale' \in BOOLEAN, patternsHead' \in Nat,
         mixed' \in BOOLEAN, synced' \in BOOLEAN
  PROVE  TypeOK'
  <1>1. Call' = Call /\ Emission' = Emission
    BY CallStays
  <1> HIDE DEF Call, Emission
  <1> QED
    BY <1>1 DEF TypeOK, Alone

LEMMA OverlayIsEmissions ==
  ASSUME TypeOK
  PROVE  Overlay \in [Files -> Emission] /\ 0 \in Emission
  BY DEF TypeOK, Overlay, Over, Emission

LEMMA GenerateMoves ==
  ASSUME TypeOK, NEW c \in Calls, NEW answer \in SUBSET Outs, Generate(c, answer)
  PROVE  /\ TypeOK' /\ call[c].pc = "generate"
         /\ DOMAIN emissions = 1..Len(emissions) /\ Len(emissions) \in Nat
         /\ DOMAIN emissions' = 1..(Len(emissions) + 1)
         /\ \A i \in DOMAIN emissions : emissions'[i] = emissions[i]
         /\ emissions'[Len(emissions) + 1] = [fp |-> call[c].fp, files |-> Emitted(answer)]
         /\ \A d \in Calls \ {c} : call'[d] = call[d]
         /\ call'[c].pc = "store" /\ call'[c].output = Len(emissions) + 1
         /\ call'[c].fp = call[c].fp /\ call'[c].maintained = call[c].maintained
         /\ call'[c].base = call[c].base /\ call'[c].seen = call[c].seen /\ call'[c].todo = call[c].todo
  <1> DEFINE n   == Len(emissions) + 1
             e   == [fp |-> call[c].fp, files |-> Emitted(answer)]
             new == [call[c] EXCEPT !.pc = "store", !.output = n]
  <1>1. call[c] \in Call
    BY DEF TypeOK
  <1>2. Emitted(answer) \in SUBSET (Files \ Prompts)
    BY DEF Emitted, Files
  <1>3. e \in [fp : Fingerprint, files : SUBSET (Files \ Prompts)]
    BY <1>1, <1>2 DEF Call
  <1>4. emissions' = Append(emissions, e)
    BY DEF Generate
  <1> HIDE DEF e
  <1>5. /\ Len(emissions) \in Nat /\ DOMAIN emissions = 1..Len(emissions)
        /\ Len(emissions') = n /\ DOMAIN emissions' = 1..n
        /\ \A i \in DOMAIN emissions : emissions'[i] = emissions[i]
        /\ emissions'[n] = e
        /\ \A i \in Emission : i \in Emission'
        /\ \A r \in Call : r \in Call'
    BY <1>3, <1>4, EmissionsGrow
  <1>6. call[c] \in Call' /\ n \in Emission' /\ "store" \in Steps
    BY <1>1, <1>5 DEF Emission, Steps
  <1>7. call' = [call EXCEPT ![c] = new]
    BY <1>5 DEF Generate, TypeOK
  <1> HIDE DEF n
  <1>8. /\ new \in Call' /\ new.pc = "store" /\ new.output = n /\ new.fp = call[c].fp
        /\ new.maintained = call[c].maintained /\ new.base = call[c].base /\ new.seen = call[c].seen
        /\ new.todo = call[c].todo
    <2> HIDE DEF Emission
    <2> QED
      BY <1>6 DEF Call
  <1> HIDE DEF new
  <1>9. call' \in [Calls -> Call'] /\ call'[c] = new /\ \A d \in Calls \ {c} : call'[d] = call[d]
    <2>1. call \in [Calls -> Call]
      BY DEF TypeOK
    <2>2. \A d \in Calls : call[d] \in Call'
      BY <2>1, <1>5
    <2>3. new \in Call'
      BY <1>8
    <2> HIDE DEF Call
    <2> QED
      BY <1>7, <2>1, <2>2, <2>3
  <1>10. TypeOK'
    <2>1. /\ sketch' \in Sketches /\ code' \in Codes /\ patterns' \in Codes
          /\ patternsStale' \in BOOLEAN /\ patternsHead' \in Nat /\ mixed' \in BOOLEAN /\ synced' \in BOOLEAN
          /\ UNCHANGED <<head, rows, session, memo>>
      BY DEF TypeOK, Generate, Kept, history
    <2>2. emissions' \in Seq([fp : Fingerprint, files : SUBSET (Files \ Prompts)])
      <3>1. emissions \in Seq([fp : Fingerprint, files : SUBSET (Files \ Prompts)])
        BY DEF TypeOK
      <3> QED
        BY <3>1, <1>3, <1>4, AppendProperties
    <2>3. memo' \subseteq DOMAIN emissions'
      BY <2>1, <1>5 DEF TypeOK, n
    <2> HIDE DEF Emission, Call
    <2>4. head' \in [Files -> Emission'] /\ rows' \in [Files -> Emission' \cup {NoRow}]
      BY <2>1, <1>5 DEF TypeOK
    <2>5. session' \in [up : BOOLEAN, files : [Files -> Emission'], code : Codes]
      BY <2>1, <1>5 DEF TypeOK
    <2> QED
      BY <2>1, <2>2, <2>3, <2>4, <2>5, <1>9 DEF TypeOK
  <1> QED
    BY <1>5, <1>8, <1>9, <1>10 DEF Generate, At, n, e

(* A round of the loops.                                                     *)
LEMMA LoopMoves ==
  ASSUME TypeOK, NEW c \in Calls, Save(c) \/ Retire(c)
  PROVE  /\ FirstOf(call[c].todo) \in call[c].todo /\ call[c].todo \subseteq Files
         /\ Moves(c, call[c].pc, call[c].fp, call[c].maintained, call[c].output,
                  call[c].todo \ {FirstOf(call[c].todo)})
         /\ call[c].pc \in {"save", "retire"}
         /\ rows' \in [Files -> Emission \cup {NoRow}]
  <1>1. call[c] \in Call
    BY DEF TypeOK
  <1>2. call[c].todo \in SUBSET Files /\ call[c].todo # {} /\ call[c].output \in Emission
    BY <1>1 DEF Save, Retire, Call
  <1>3. FirstOf(call[c].todo) \in call[c].todo
    BY <1>2, FirstIsOneOfThem
  <1>4. Moves(c, call[c].pc, call[c].fp, call[c].maintained, call[c].output,
              call[c].todo \ {FirstOf(call[c].todo)})
    BY <1>2, TodoMoves DEF Save, Retire
  <1>5. rows' \in [Files -> Emission \cup {NoRow}]
    <2>0. 0 \in Emission
      BY OverlayIsEmissions
    <2>1. \E row \in Emission \cup {NoRow} : rows' = [rows EXCEPT ![FirstOf(call[c].todo)] = row]
      <3>1. CASE Save(c)
        BY <1>2, <3>1 DEF Save
      <3>2. CASE Retire(c)
        <4>1. rows' = [rows EXCEPT ![FirstOf(call[c].todo)] = Retirement(call[c].base[FirstOf(call[c].todo)])]
          BY <3>2 DEF Retire
        <4>2. Retirement(call[c].base[FirstOf(call[c].todo)]) \in {0, NoRow}
          BY DEF Retirement
        <4> QED
          BY <2>0, <4>1, <4>2
      <3> QED
        BY <3>1, <3>2
    <2> QED
      BY <2>1 DEF TypeOK
  <1> QED
    BY <1>2, <1>3, <1>4, <1>5 DEF Save, Retire, At

LEMMA SessionsTyped ==
  ASSUME TypeOK, NEW c \in Calls, Hand(c)
  PROVE  session' \in [up : BOOLEAN, files : [Files -> Emission], code : Codes]
  <1> DEFINE S == [up : BOOLEAN, files : [Files -> Emission], code : Codes]
             assembled == Assembled(call[c])
             patched == Patched(call[c])
             code_ == call[c].fp.code
  <1>1. call[c] \in Call
    BY DEF TypeOK
  <1>2. /\ call[c].output \in Emission /\ 0 \in Emission /\ code_ \in Codes
        /\ call[c].seen \in [Files -> Emission] /\ session \in S /\ session.files \in [Files -> Emission]
    BY <1>1, OverlayIsEmissions DEF TypeOK, Call, Fingerprint
  <1>3. assembled \in [Files -> Emission] /\ patched \in [Files -> Emission]
    BY <1>2 DEF Assembled, Patched
  <1>4. \/ session' = [up |-> TRUE, files |-> assembled, code |-> code_]
        \/ session' = [session EXCEPT !.files = patched]
        \/ session' = session
    BY DEF Hand
  <1> HIDE DEF assembled, patched, code_
  <1>5. [up |-> TRUE, files |-> assembled, code |-> code_] \in S
    BY <1>2, <1>3
  <1>6. [session EXCEPT !.files = patched] \in S
    BY <1>2, <1>3
  <1> QED
    BY <1>2, <1>4, <1>5, <1>6

LEMMA NextTypeOK == Typed /\ [Next]_vars => TypeOK'
  <1> SUFFICES ASSUME Typed, [Next]_vars PROVE TypeOK'
    OBVIOUS
  <1> USE DEF Typed
  <1>a. \A c \in Calls : call[c] \in Call
    BY DEF TypeOK
  <1>0. /\ memo \subseteq DOMAIN emissions /\ head \in [Files -> Emission]
        /\ rows \in [Files -> Emission \cup {NoRow}]
        /\ session \in [up : BOOLEAN, files : [Files -> Emission], code : Codes]
        /\ code \in Codes /\ patterns \in Codes /\ patternsStale \in BOOLEAN /\ patternsHead \in Nat
        /\ mixed \in BOOLEAN /\ synced \in BOOLEAN /\ emissions \in Seq([fp : Fingerprint, files : SUBSET (Files \ Prompts)])
        /\ \A c \in Calls : call[c] \in Call /\ call[c].fp.code \in Codes /\ call[c].output \in Emission
    BY <1>a DEF TypeOK, Call, Fingerprint
  <1> USE DEF Kept, history
  <1>1. CASE UNCHANGED vars
    <2>1. Call' = Call /\ Emission' = Emission
      BY <1>1, CallStays DEF vars
    <2> QED
      BY <1>1, <2>1 DEF vars, TypeOK
  <1>2. ASSUME NEW s \in Sketches, EditSketch(s) PROVE TypeOK'
    <2>1. Call' = Call /\ Emission' = Emission
      BY <1>2, CallStays DEF EditSketch
    <2> QED
      BY <1>2, <2>1 DEF EditSketch, TypeOK
  <1>3. ASSUME NEW c \in Calls, NEW kind \in Kinds, NEW v \in Codes, Begin(c, kind, v) PROVE TypeOK'
    <2>1. Alone(c)
      BY <1>3, BeginMoves
    <2> QED
      BY <1>0, <1>3, <2>1, TypeStays DEF Begin
  <1>4. ASSUME NEW c \in Calls, Refuse(c) PROVE TypeOK'
    <2>1. Alone(c)
      BY <1>4, DoneEnds DEF Refuse, Ends
    <2> QED
      BY <1>0, <1>4, <2>1, TypeStays DEF Refuse
  <1>5. ASSUME NEW c \in Calls, ReadMaintained(c) PROVE TypeOK'
    <2>1. Alone(c)
      BY <1>5, ReadMaintainedMoves DEF Moves
    <2> QED
      BY <1>0, <1>5, <2>1, TypeStays DEF ReadMaintained
  <1>6. ASSUME NEW c \in Calls, PatternsState(c) PROVE TypeOK'
    <2>1. Alone(c)
      BY <1>6, GotoMoves DEF PatternsState, Moves, Steps
    <2> QED
      BY <1>0, <1>6, <2>1, TypeStays DEF PatternsState
  <1>7. ASSUME NEW c \in Calls, Analyze(c) PROVE TypeOK'
    <2>1. Alone(c)
      BY <1>7, AnalyzeMoves DEF Moves
    <2> QED
      BY <1>0, <1>7, <2>1, TypeStays DEF Analyze
  <1>8. ASSUME NEW c \in Calls, MarkFresh(c) PROVE TypeOK'
    <2>1. Alone(c)
      BY <1>8, GotoMoves DEF MarkFresh, Moves, Steps
    <2> QED
      BY <1>0, <1>8, <2>1, TypeStays DEF MarkFresh, HeadShaColumn
  <1>9. ASSUME NEW c \in Calls, Hit(c) PROVE TypeOK'
    <2>1. Alone(c)
      BY <1>0, <1>9, LandingMoves DEF Hit, Moves, Remembered
    <2> QED
      BY <1>0, <1>9, <2>1, TypeStays DEF Hit
  <1>10. ASSUME NEW c \in Calls, Miss(c) PROVE TypeOK'
    <2>1. Alone(c)
      BY <1>10, GotoMoves DEF Miss, Moves, Steps
    <2> QED
      BY <1>0, <1>10, <2>1, TypeStays DEF Miss
  <1>11. ASSUME NEW c \in Calls, Store(c) PROVE TypeOK'
    <2>1. Alone(c)
      BY <1>11, LandingMoves DEF Store, Moves, At
    <2>2. memo' \subseteq DOMAIN emissions
      BY <1>0, <1>11 DEF Store, Stored, At
    <2> QED
      BY <1>0, <1>11, <2>1, <2>2, TypeStays DEF Store
  <1>12. ASSUME NEW c \in Calls, NEW answer \in SUBSET Outs, Generate(c, answer) PROVE TypeOK'
    BY <1>12, GenerateMoves
  <1>13. ASSUME NEW c \in Calls, Save(c) \/ Retire(c) PROVE TypeOK'
    <2>1. Alone(c) /\ rows' \in [Files -> Emission \cup {NoRow}]
      BY <1>13, LoopMoves DEF Moves
    <2> QED
      BY <1>0, <1>13, <2>1, TypeStays DEF Save, Retire
  <1>14. ASSUME NEW c \in Calls, Saved(c) PROVE TypeOK'
    <2>1. Alone(c)
      BY <1>14, SavedMoves DEF Moves
    <2> QED
      BY <1>0, <1>14, <2>1, TypeStays DEF Saved
  <1>15. ASSUME NEW c \in Calls, Hand(c) PROVE TypeOK'
    <2>1. Alone(c)
      BY <1>15, DoneEnds DEF Hand, Ends
    <2>2. session' \in [up : BOOLEAN, files : [Files -> Emission], code : Codes]
      BY <1>15, SessionsTyped DEF Hand
    <2> QED
      BY <1>0, <1>15, <2>1, <2>2, TypeStays DEF Hand
  <1>16. ASSUME NEW c \in Calls, Fail(c) PROVE TypeOK'
    <2>1. Alone(c)
      BY <1>16, DoneEnds DEF Fail, Ends
    <2> QED
      BY <1>0, <1>16, <2>1, TypeStays DEF Fail
  <1>17. ASSUME NEW c \in Calls, WriteCode(c) \/ MarkStale(c) PROVE TypeOK'
    <2>1. Alone(c)
      BY <1>17, GotoMoves DEF WriteCode, MarkStale, Moves, Steps
    <2> QED
      BY <1>0, <1>17, <2>1, TypeStays DEF WriteCode, MarkStale
  <1>18. ASSUME NEW c \in Calls, WriteThrough(c) \/ Sync(c) \/ Stop(c) PROVE TypeOK'
    <2>1. Alone(c)
      BY <1>18, DoneEnds DEF WriteThrough, Sync, Stop, Ends
    <2>2. session' \in [up : BOOLEAN, files : [Files -> Emission], code : Codes]
      <3>1. call[c].fp.code \in Codes
        BY <1>0
      <3>2. [session EXCEPT !.code = call[c].fp.code] \in [up : BOOLEAN, files : [Files -> Emission], code : Codes]
        BY <1>0, <3>1
      <3>3. [session EXCEPT !.up = FALSE] \in [up : BOOLEAN, files : [Files -> Emission], code : Codes]
        BY <1>0
      <3> QED
        BY <1>0, <1>18, <3>2, <3>3 DEF WriteThrough, Sync, Stop
    <2> QED
      BY <1>0, <1>18, <2>1, <2>2, TypeStays DEF WriteThrough, Sync, Stop
  <1>19. ASSUME NEW c \in Calls, Commit(c) PROVE TypeOK'
    <2>1. Alone(c)
      BY <1>19, DoneEnds DEF Commit, Ends
    <2>2. head' \in [Files -> Emission] /\ rows' \in [Files -> Emission \cup {NoRow}]
      BY <1>0, <1>19, OverlayIsEmissions DEF Commit
    <2> QED
      BY <1>0, <1>19, <2>1, <2>2, TypeStays DEF Commit
  <1>20. ASSUME NEW c \in Calls, NEW f \in Files, Discard(c, f) PROVE TypeOK'
    <2>1. Alone(c)
      BY <1>20, DoneEnds DEF Discard, Ends
    <2>2. rows' \in [Files -> Emission \cup {NoRow}]
      BY <1>0, <1>20 DEF Discard
    <2> QED
      BY <1>0, <1>20, <2>1, <2>2, TypeStays DEF Discard
  <1> QED
    BY <1>1, <1>2, <1>3, <1>4, <1>5, <1>6, <1>7, <1>8, <1>9, <1>10, <1>11, <1>12, <1>13, <1>14, <1>15,
       <1>16, <1>17, <1>18, <1>19, <1>20 DEF Next

LEMMA NextTyped == Typed /\ [Next]_vars => Typed'
  <1> SUFFICES ASSUME Typed, [Next]_vars PROVE Typed'
    OBVIOUS
  <1> USE DEF Kept, history, At
  <1>1. TypeOK'
    BY NextTypeOK
  <1>2. ASSUME NEW d \in Calls, call'[d].pc = "store"
        PROVE  call'[d].output \in DOMAIN emissions'
    <2>1. CASE UNCHANGED <<emissions, call>>
      BY <1>2, <2>1 DEF Typed
    <2>2. ASSUME NEW c \in Calls, NEW answer \in SUBSET Outs, Generate(c, answer)
          PROVE  call'[d].output \in DOMAIN emissions'
      <3>1. /\ DOMAIN emissions = 1..Len(emissions) /\ Len(emissions) \in Nat
            /\ DOMAIN emissions' = 1..(Len(emissions) + 1)
            /\ \A e \in Calls \ {c} : call'[e] = call[e]
            /\ call'[c].output = Len(emissions) + 1
        BY <2>2, GenerateMoves DEF Typed
      <3>2. CASE d = c
        BY <3>1, <3>2
      <3>3. CASE d # c
        <4>1. call[d].output \in DOMAIN emissions /\ call'[d] = call[d]
          BY <1>2, <3>1, <3>3 DEF Typed
        <4> QED
          BY <3>1, <4>1
      <3> QED
        BY <3>2, <3>3
    <2>3. ASSUME NEW c \in Calls, UNCHANGED emissions, Alone(c), call'[c].pc # "store"
          PROVE  call'[d].output \in DOMAIN emissions'
      BY <1>2, <2>3 DEF Typed, Alone
    <2>4. ASSUME NEW c \in Calls, NEW kind \in Kinds, NEW v \in Codes, Begin(c, kind, v)
          PROVE  UNCHANGED emissions /\ Alone(c) /\ call'[c].pc # "store"
      <3>1. /\ Alone(c) /\ call'[c].pc = FirstStep(kind)
            /\ FirstStep(kind) \in {"maintained", "write", "land", "move", "delete", "drop"}
        BY <2>4, BeginMoves DEF Typed
      <3>2. UNCHANGED emissions
        BY <2>4 DEF Begin
      <3> QED
        BY <3>1, <3>2
    <2>5. ASSUME NEW c \in Calls,
                 \/ Refuse(c) \/ Hand(c) \/ Fail(c) \/ WriteThrough(c) \/ Commit(c) \/ Sync(c) \/ Stop(c)
                 \/ \E f \in Files : Discard(c, f)
          PROVE  UNCHANGED emissions /\ Alone(c) /\ call'[c].pc # "store"
      BY <2>5, DoneEnds, NoCallIsACall
         DEF Typed, Ends, Refuse, Hand, Fail, WriteThrough, Commit, Sync, Stop, Discard
    <2>6. ASSUME NEW c \in Calls, PatternsState(c) \/ MarkFresh(c) \/ Miss(c) \/ WriteCode(c) \/ MarkStale(c)
          PROVE  UNCHANGED emissions /\ Alone(c) /\ call'[c].pc # "store"
      <3>1. PICK pc \in {"analyze", "lookup", "generate", "markStale", "through"} : Goto(c, pc)
        BY <2>6 DEF PatternsState, MarkFresh, Miss, WriteCode, MarkStale
      <3>2. Moves(c, pc, call[c].fp, call[c].maintained, call[c].output, call[c].todo)
        BY <3>1, GotoMoves DEF Typed, Steps
      <3> QED
        BY <2>6, <3>2 DEF Moves, PatternsState, MarkFresh, Miss, WriteCode, MarkStale
    <2>7. ASSUME NEW c \in Calls, ReadMaintained(c) \/ Analyze(c) \/ Saved(c)
          PROVE  UNCHANGED emissions /\ Alone(c) /\ call'[c].pc # "store"
      BY <2>7, ReadMaintainedMoves, AnalyzeMoves, SavedMoves DEF Typed, Moves, ReadMaintained, Analyze, Saved
    <2>8. ASSUME NEW c \in Calls, Save(c) \/ Retire(c)
          PROVE  UNCHANGED emissions /\ Alone(c) /\ call'[c].pc # "store"
      BY <2>8, LoopMoves DEF Typed, Moves, Save, Retire
    <2>9. ASSUME NEW c \in Calls, Hit(c) \/ Store(c)
          PROVE  UNCHANGED emissions /\ Alone(c) /\ call'[c].pc # "store"
      <3>1. \E i \in DOMAIN emissions : call' = [call EXCEPT ![c] = Landing(call[c], i)]
        BY <2>9 DEF Typed, TypeOK, Hit, Store, Remembered
      <3> QED
        BY <2>9, <3>1, LandingMoves DEF Typed, Moves, Hit, Store
    <2> QED
      BY <2>1, <2>2, <2>3, <2>4, <2>5, <2>6, <2>7, <2>8, <2>9 DEF Next, vars, EditSketch
  <1> QED
    BY <1>1, <1>2 DEF Typed

(* Every variable keeps its type.                                            *)
THEOREM TypeCorrect == Spec => []TypeOK
  <1>1. Init => Typed
    BY InitTypeOK, NoCallIsACall DEF Init, Typed
  <1>2. Typed => TypeOK
    BY DEF Typed
  <1> QED
    BY <1>1, <1>2, NextTyped, PTL DEF Spec

-----------------------------------------------------------------------------
(* The memo.                                                                 *)

LEMMA MemoGrows ==
  ASSUME TypeOK, memo \subseteq memo', \A i \in DOMAIN emissions : emissions'[i] = emissions[i]
  PROVE  /\ Maintained \subseteq Maintained'
         /\ memo' = memo => Maintained' = Maintained /\ \A fp : Remembered(fp)' = Remembered(fp)
  <1>1. \A i \in memo : i \in memo' /\ emissions'[i] = emissions[i]
    BY DEF TypeOK
  <1>2. Maintained \subseteq Maintained'
    BY <1>1 DEF Maintained
  <1>3. ASSUME memo' = memo PROVE Maintained' = Maintained /\ \A fp : Remembered(fp)' = Remembered(fp)
    BY <1>1, <1>3 DEF Maintained, Remembered
  <1> QED
    BY <1>2, <1>3

LEMMA InitMemoInv == Init => MemoInv
  <1> SUFFICES ASSUME Init PROVE MemoInv
    OBVIOUS
  <1>1. Typed
    BY InitTypeOK, NoCallIsACall DEF Init, Typed
  <1>2. \A c \in Calls : call[c].pc = "idle"
    BY <1>1, NoCallIsACall DEF Init, Typed
  <1> QED
    BY <1>1, <1>2 DEF Init, MemoInv, WrittenIsKnown, LandsFromTheMemo, TheRegistryIsEmitted

(* What is written stays known, whatever overlaps.                           *)
LEMMA WrittenStaysKnown ==
  ASSUME MemoInv, Next
  PROVE  WrittenIsKnown'
  <1>0. TypeOK /\ Typed /\ WrittenIsKnown
    BY DEF MemoInv, Typed
  <1> USE DEF Kept, history
  <1>1. memo \subseteq memo' /\ \A i \in DOMAIN emissions : emissions'[i] = emissions[i]
    <2>1. CASE \E c \in Calls : \E answer \in SUBSET Outs : Generate(c, answer)
      BY <1>0, <2>1, GenerateMoves DEF Generate
    <2>2. CASE \E c \in Calls : Store(c)
      BY <2>2 DEF Store, Stored
    <2>3. CASE UNCHANGED <<memo, emissions>>
      BY <2>3
    <2> QED
      BY <2>1, <2>2, <2>3 DEF Next, EditSketch, Begin, Refuse, ReadMaintained, PatternsState, Analyze, MarkFresh,
         Hit, Miss, Save, Saved, Retire, Hand, Fail, WriteCode, MarkStale, WriteThrough, Commit, Sync, Stop, Discard
  <1>2. Maintained \subseteq Maintained'
    BY <1>0, <1>1, MemoGrows
  <1>3. CASE UNCHANGED <<head, rows>>
    BY <1>0, <1>2, <1>3 DEF WrittenIsKnown
  <1>4. ASSUME NEW c \in Calls, Save(c) PROVE WrittenIsKnown'
    <2>1. FirstOf(call[c].todo) \in call[c].todo /\ call[c].todo \subseteq Files
      BY <1>0, <1>4, LoopMoves
    <2>2. FirstOf(call[c].todo) \in Maintained
      <3>1. call[c].output \in memo /\ call[c].todo \subseteq emissions[call[c].output].files
        BY <1>4 DEF MemoInv, LandsFromTheMemo, Save, At
      <3>2. FirstOf(call[c].todo) \in emissions[call[c].output].files
        BY <2>1, <3>1
      <3> QED
        BY <3>1, <3>2 DEF Maintained
    <2>3. rows' = [rows EXCEPT ![FirstOf(call[c].todo)] = call[c].output] /\ UNCHANGED head
      BY <1>4 DEF Save
    <2> QED
      BY <1>0, <1>2, <2>1, <2>2, <2>3 DEF WrittenIsKnown, TypeOK
  <1>5. ASSUME NEW c \in Calls, Retire(c) PROVE WrittenIsKnown'
    <2>1. \E row \in {0, NoRow} : rows' = [rows EXCEPT ![FirstOf(call[c].todo)] = row]
      BY <1>5 DEF Retire, Retirement
    <2>2. UNCHANGED head
      BY <1>5 DEF Retire
    <2> QED
      BY <1>0, <1>2, <2>1, <2>2 DEF WrittenIsKnown, TypeOK
  <1>6. ASSUME NEW c \in Calls, Commit(c) PROVE WrittenIsKnown'
    <2>1. CASE head' = Overlay /\ rows' = [f \in Files |-> NoRow]
      BY <1>0, <1>2, <2>1 DEF WrittenIsKnown, Overlay, Over
    <2> QED
      BY <1>3, <1>6, <2>1 DEF Commit
  <1>7. ASSUME NEW c \in Calls, NEW f \in Files, Discard(c, f) PROVE WrittenIsKnown'
    BY <1>0, <1>2, <1>7 DEF Discard, WrittenIsKnown, TypeOK
  <1> QED
    BY <1>3, <1>4, <1>5, <1>6, <1>7
       DEF Next, EditSketch, Begin, Refuse, ReadMaintained, PatternsState, Analyze, MarkFresh,
           Hit, Miss, Generate, Store, Saved, Hand, Fail, WriteCode, MarkStale, WriteThrough, Sync, Stop

(* What is landed is in the memo, because no other answer for the same       *)
(* inputs came between.                                                      *)
LEMMA LandingStaysInTheMemo ==
  ASSUME MemoInv, OneAsks, Next
  PROVE  LandsFromTheMemo'
  <1>0. TypeOK /\ Typed /\ LandsFromTheMemo
    BY DEF MemoInv, Typed
  <1> USE DEF Kept, history, At
  <1>1. ASSUME UNCHANGED <<emissions, memo>>, NEW c \in Calls, Alone(c),
               call'[c].pc = "generate" => Remembered(call'[c].fp) = {},
               call'[c].pc # "store",
               call'[c].pc \in {"save", "retire"} => call'[c].output \in memo,
               call'[c].pc = "save" => call'[c].todo \subseteq emissions[call'[c].output].files
        PROVE  LandsFromTheMemo'
    <2>1. \A fp : Remembered(fp)' = Remembered(fp)
      BY <1>0, <1>1, MemoGrows
    <2> QED
      BY <1>0, <1>1, <2>1 DEF LandsFromTheMemo, Alone
  <1>2. CASE UNCHANGED <<emissions, memo, call>>
    BY <1>0, <1>2 DEF LandsFromTheMemo, Remembered
  <1>3. ASSUME NEW c \in Calls, NEW kind \in Kinds, NEW v \in Codes, Begin(c, kind, v)
        PROVE  LandsFromTheMemo'
    <2>1. /\ Alone(c) /\ call'[c].pc = FirstStep(kind)
          /\ FirstStep(kind) \in {"maintained", "write", "land", "move", "delete", "drop"}
      BY <1>0, <1>3, BeginMoves
    <2>2. UNCHANGED <<emissions, memo>>
      BY <1>3 DEF Begin
    <2> QED
      BY <1>1, <2>1, <2>2
  <1>4. ASSUME NEW c \in Calls, Done(c), UNCHANGED <<emissions, memo>> PROVE LandsFromTheMemo'
    BY <1>0, <1>1, <1>4, DoneEnds, NoCallIsACall DEF Ends
  <1>5. ASSUME NEW c \in Calls, PatternsState(c) \/ MarkFresh(c) \/ WriteCode(c) \/ MarkStale(c)
        PROVE  LandsFromTheMemo'
    <2>1. PICK pc \in {"analyze", "lookup", "markStale", "through"} : Goto(c, pc)
      BY <1>5 DEF PatternsState, MarkFresh, WriteCode, MarkStale
    <2>2. Moves(c, pc, call[c].fp, call[c].maintained, call[c].output, call[c].todo)
      BY <1>0, <2>1, GotoMoves DEF Steps
    <2>3. UNCHANGED <<emissions, memo>>
      BY <1>5 DEF PatternsState, MarkFresh, WriteCode, MarkStale
    <2> QED
      BY <1>1, <2>2, <2>3 DEF Moves
  <1>6. ASSUME NEW c \in Calls, Miss(c) PROVE LandsFromTheMemo'
    <2>1. Moves(c, "generate", call[c].fp, call[c].maintained, call[c].output, call[c].todo)
      BY <1>0, <1>6, GotoMoves DEF Steps, Miss
    <2> QED
      BY <1>1, <1>6, <2>1 DEF Moves, Miss
  <1>7. ASSUME NEW c \in Calls, ReadMaintained(c) \/ Analyze(c) PROVE LandsFromTheMemo'
    <2>1. Alone(c) /\ call'[c].pc \in {"patternsState", "markFresh"}
      BY <1>0, <1>7, ReadMaintainedMoves, AnalyzeMoves DEF Moves
    <2> QED
      BY <1>1, <1>7, <2>1 DEF ReadMaintained, Analyze
  <1>8. ASSUME NEW c \in Calls, Hit(c) PROVE LandsFromTheMemo'
    <2>1. PICK i \in memo : call' = [call EXCEPT ![c] = Landing(call[c], i)]
      BY <1>8 DEF Hit, Remembered
    <2>2. i \in DOMAIN emissions
      BY <1>0 DEF TypeOK
    <2>3. Moves(c, "save", call[c].fp, call[c].maintained, i, emissions[i].files)
      BY <1>0, <2>1, <2>2, LandingMoves
    <2> QED
      BY <1>1, <1>8, <2>3 DEF Moves, Hit
  <1>9. ASSUME NEW c \in Calls, Store(c) PROVE LandsFromTheMemo'
    <2> DEFINE i == call[c].output
    <2>1. i \in DOMAIN emissions /\ Remembered(emissions[i].fp) = {}
      BY <1>0, <1>9 DEF Store, Typed, LandsFromTheMemo
    <2>2. memo' = memo \cup {i} /\ UNCHANGED emissions
      BY <1>9, <2>1 DEF Store, Stored
    <2>3. Moves(c, "save", call[c].fp, call[c].maintained, i, emissions[i].files)
      BY <1>0, <1>9, <2>1, LandingMoves DEF Store
    <2>4. \A d \in Calls \ {c} : call[d].pc \notin {"generate", "store"}
      BY <1>9 DEF Store, OneAsks
    <2> HIDE DEF i
    <2> QED
      BY <1>0, <2>2, <2>3, <2>4 DEF LandsFromTheMemo, Moves, Alone
  <1>10. ASSUME NEW c \in Calls, NEW answer \in SUBSET Outs, Generate(c, answer) PROVE LandsFromTheMemo'
    <2> DEFINE n == Len(emissions) + 1
    <2>1. /\ DOMAIN emissions = 1..Len(emissions) /\ Len(emissions) \in Nat
          /\ \A i \in DOMAIN emissions : emissions'[i] = emissions[i]
          /\ \A d \in Calls \ {c} : call'[d] = call[d]
          /\ call'[c].pc = "store" /\ call'[c].output = n /\ call[c].pc = "generate"
      BY <1>0, <1>10, GenerateMoves
    <2>0. emissions'[n].fp = call[c].fp
      <3>1. emissions'[n] = [fp |-> call[c].fp, files |-> Emitted(answer)]
        BY <1>0, <1>10, GenerateMoves
      <3> QED
        BY <3>1
    <2>2. UNCHANGED memo /\ memo \subseteq DOMAIN emissions
      BY <1>0, <1>10 DEF Generate, TypeOK
    <2>3. \A fp : Remembered(fp)' = Remembered(fp)
      BY <1>0, <2>1, <2>2, MemoGrows
    <2>4. \A d \in Calls \ {c} : call[d].pc \notin {"generate", "store"}
      BY <2>1 DEF OneAsks
    <2>5. Remembered(call[c].fp) = {}
      BY <1>0, <2>1 DEF LandsFromTheMemo
    <2> HIDE DEF n
    <2>6. (Remembered(emissions[call[c].output].fp) = {})'
      BY <2>0, <2>1, <2>3, <2>5
    <2> QED
      BY <1>0, <2>1, <2>2, <2>3, <2>4, <2>6 DEF LandsFromTheMemo
  <1>11. ASSUME NEW c \in Calls, Save(c) \/ Retire(c) PROVE LandsFromTheMemo'
    <2>1. Moves(c, call[c].pc, call[c].fp, call[c].maintained, call[c].output,
                call[c].todo \ {FirstOf(call[c].todo)}) /\ call[c].pc \in {"save", "retire"}
      BY <1>0, <1>11, LoopMoves
    <2>2. UNCHANGED <<emissions, memo>>
      BY <1>11 DEF Save, Retire
    <2> QED
      BY <1>0, <1>1, <2>1, <2>2 DEF Moves, LandsFromTheMemo
  <1>12. ASSUME NEW c \in Calls, Saved(c) PROVE LandsFromTheMemo'
    <2>1. Moves(c, "retire", call[c].fp, call[c].maintained, call[c].output, Retired(call[c]))
      BY <1>0, <1>12, SavedMoves
    <2> QED
      BY <1>0, <1>1, <1>12, <2>1 DEF Moves, LandsFromTheMemo, Saved
  <1> QED
    BY <1>2, <1>3, <1>4, <1>5, <1>6, <1>7, <1>8, <1>9, <1>10, <1>11, <1>12
       DEF Next, EditSketch, Refuse, Hand, Fail, WriteThrough, Commit, Sync, Stop, Discard

LEMMA RegistryStaysEmitted ==
  ASSUME MemoInv, Next
  PROVE  TheRegistryIsEmitted'
  <1>0. TypeOK /\ TheRegistryIsEmitted
    BY DEF MemoInv, Typed
  <1>1. ASSUME NEW c \in Calls, NEW answer \in SUBSET Outs, Generate(c, answer) PROVE TheRegistryIsEmitted'
    <2>1. /\ DOMAIN emissions = 1..Len(emissions) /\ Len(emissions) \in Nat
          /\ DOMAIN emissions' = 1..(Len(emissions) + 1)
          /\ \A i \in DOMAIN emissions : emissions'[i] = emissions[i]
          /\ emissions'[Len(emissions) + 1] = [fp |-> call[c].fp, files |-> Emitted(answer)]
      BY <1>0, <1>1, GenerateMoves
    <2>2. Registry \in emissions'[Len(emissions) + 1].files
      BY <2>1 DEF Emitted
    <2> QED
      BY <1>0, <2>1, <2>2 DEF TheRegistryIsEmitted
  <1>2. CASE UNCHANGED emissions
    BY <1>0, <1>2 DEF TheRegistryIsEmitted
  <1> QED
    BY <1>1, <1>2 DEF Next, EditSketch, Begin, Refuse, ReadMaintained, PatternsState, Analyze, MarkFresh,
       Hit, Miss, Store, Save, Saved, Retire, Hand, Fail, WriteCode, MarkStale, WriteThrough, Commit, Sync,
       Stop, Discard

LEMMA NextMemoInv == MemoInv /\ OneAsks /\ [Next]_vars => MemoInv'
  <1> SUFFICES ASSUME MemoInv, OneAsks, [Next]_vars PROVE MemoInv'
    OBVIOUS
  <1>1. Typed'
    BY NextTyped DEF MemoInv
  <1>2. CASE Next
    BY <1>1, <1>2, WrittenStaysKnown, LandingStaysInTheMemo, RegistryStaysEmitted DEF MemoInv
  <1>3. CASE UNCHANGED vars
    <2>1. WrittenIsKnown' /\ LandsFromTheMemo' /\ TheRegistryIsEmitted'
      BY <1>3 DEF vars, MemoInv, WrittenIsKnown, LandsFromTheMemo, TheRegistryIsEmitted, Maintained, Remembered
    <2> QED
      BY <1>1, <2>1 DEF MemoInv
  <1> QED
    BY <1>2, <1>3

(* A file the model wrote is known as such, whatever else overlaps, as long  *)
(* as one call at a time asks the model: two that ask at once for the same   *)
(* inputs each land their own answer, and the memo keeps one.                *)
THEOREM WhatIsEmittedIsMaintained == Spec /\ []OneAsks => []EmittedIsMaintained
  <1>1. MemoInv => EmittedIsMaintained
    <2> SUFFICES ASSUME MemoInv, NEW f \in Files, Overlay[f] # 0 PROVE f \in Maintained
      BY DEF EmittedIsMaintained
    <2> QED
      BY DEF MemoInv, WrittenIsKnown, Overlay, Over
  <1> QED
    BY <1>1, InitMemoInv, NextMemoInv, PTL DEF Spec

-----------------------------------------------------------------------------
(* Calls that do not overlap.                                                *)

LEMMA OthersAreIdle ==
  ASSUME OneAtATime, OneAtATime', NEW c \in Calls, Alone(c), call[c].pc # "idle" \/ call'[c].pc # "idle"
  PROVE  \A d \in Calls \ {c} : call'[d] = call[d] /\ call[d].pc = "idle"
  BY DEF OneAtATime, Alone

LEMMA OverlayStays == UNCHANGED <<head, rows>> => Overlay' = Overlay
  BY DEF Overlay

LEMMA InitAloneInv == Init => AloneInv
  <1> SUFFICES ASSUME Init PROVE AloneInv
    OBVIOUS
  <1>1. \A c \in Calls : call[c].pc = "idle"
    BY InitTypeOK, NoCallIsACall DEF Init
  <1>2. Whole
    BY DEF Init, Whole, Overlay, Over
  <1> QED
    BY <1>1, <1>2 DEF Init, AloneInv, SeesWhatIs, LoopsAreOnTheirWay, WholeBetweenCalls, SessionFollows,
                      AnalysisFollows, Reading, Writing

(* What is written is what was ever emitted, and no prompt.                  *)
LEMMA KnownIsNoPrompt ==
  ASSUME TypeOK
  PROVE  Maintained \subseteq Files \ Prompts
  <1>1. memo \subseteq DOMAIN emissions
    BY DEF TypeOK
  <1> QED
    BY <1>1, EmissionsTyped DEF Maintained

LEMMA OverlayIsKnown ==
  ASSUME MemoInv, NEW f \in Files, Overlay[f] # 0
  PROVE  f \in Maintained
  BY DEF MemoInv, WrittenIsKnown, Overlay, Over

(* A step after which no loop is under way.                                  *)
LEMMA AfterTheLoops ==
  ASSUME MemoInv, AloneInv, NEW c \in Calls,
         \A d \in Calls \ {c} : call'[d] = call[d] /\ call[d].pc = "idle",
         call'[c].pc \notin Writing, WholeBetweenCalls',
         \A f \in Files : session'.files[f] # 0 => f \in Maintained',
         call'[c].pc # "idle" => call'[c].base = head',
         call'[c].pc \in {"maintained", "markStale", "through"} \cup Reading => call'[c].fp.code = code',
         call'[c].pc \in {"maintained"} \cup Reading => call'[c].seen = Overlay',
         call'[c].pc \in Reading => call'[c].maintained = Maintained',
         session'.up => \/ synced' \/ session'.code = code' \/ call'[c].pc \in {"markStale", "through"},
         ~synced' /\ patterns' # 0 /\ ~patternsStale' => patterns' = code' \/ call'[c].pc = "markStale",
         call'[c].pc = "markFresh" => patterns' = code'
  PROVE  AloneInv'
  <1>1. \A d \in Calls : call'[d].pc \notin Writing
    BY DEF Writing
  <1>2. SeesWhatIs'
    BY <1>1 DEF SeesWhatIs, Reading, Writing
  <1>3. LoopsAreOnTheirWay'
    BY <1>1 DEF LoopsAreOnTheirWay, Writing
  <1>5. SessionFollows'
    BY DEF SessionFollows
  <1>6. AnalysisFollows'
    BY DEF AnalysisFollows
  <1> QED
    BY <1>2, <1>3, <1>5, <1>6 DEF AloneInv

(* And which wrote nothing, or after which what there is may be mixed.       *)
LEMMA QuietStep ==
  ASSUME MemoInv, AloneInv, NEW c \in Calls,
         \A d \in Calls \ {c} : call'[d] = call[d] /\ call[d].pc = "idle",
         mixed' \/ (mixed' = mixed /\ call[c].pc \notin Writing /\ Overlay' = Overlay),
         session'.files = session.files, session'.up => session.up,
         memo \subseteq memo', \A i \in DOMAIN emissions : i \in DOMAIN emissions' /\ emissions'[i] = emissions[i],
         call'[c].pc \notin Writing,
         call'[c].pc # "idle" => call'[c].base = head',
         call'[c].pc \in {"maintained", "markStale", "through"} \cup Reading => call'[c].fp.code = code',
         call'[c].pc \in {"maintained"} \cup Reading => call'[c].seen = Overlay',
         call'[c].pc \in Reading => call'[c].maintained = Maintained',
         session'.up => \/ synced' \/ session'.code = code' \/ call'[c].pc \in {"markStale", "through"},
         ~synced' /\ patterns' # 0 /\ ~patternsStale' => patterns' = code' \/ call'[c].pc = "markStale",
         call'[c].pc = "markFresh" => patterns' = code'
  PROVE  AloneInv'
  <1>0. Maintained \subseteq Maintained'
    BY MemoGrows DEF MemoInv, Typed
  <1>1. \A f \in Files : session'.files[f] # 0 => f \in Maintained'
    BY <1>0 DEF AloneInv, SessionFollows
  <1>2. WholeBetweenCalls'
    <2>1. CASE mixed'
      BY <2>1 DEF WholeBetweenCalls
    <2>2. CASE mixed' = mixed /\ call[c].pc \notin Writing /\ Overlay' = Overlay
      <3>1. Unwritten
        BY <2>2 DEF Unwritten, Writing
      <3>2. Whole => Whole'
        BY <2>2 DEF Whole, Applied
      <3> QED
        BY <2>2, <3>1, <3>2 DEF WholeBetweenCalls, AloneInv
    <2> QED
      BY <2>1, <2>2
  <1> QED
    BY <1>1, <1>2, AfterTheLoops

LEMMA SketchStep ==
  ASSUME AloneInv, UNCHANGED <<code, patterns, patternsStale, head, rows, emissions, memo, session, call, mixed, synced>>
  PROVE  AloneInv'
  <1>1. Overlay' = Overlay /\ Maintained' = Maintained
    BY OverlayStays DEF Maintained
  <1>2. SeesWhatIs'
    BY <1>1 DEF AloneInv, SeesWhatIs, Wrote
  <1>3. LoopsAreOnTheirWay'
    BY <1>1 DEF AloneInv, LoopsAreOnTheirWay, Wrote, Retired
  <1>4. WholeBetweenCalls'
    BY <1>1 DEF AloneInv, WholeBetweenCalls, Whole, Applied, Unwritten
  <1>5. SessionFollows' /\ AnalysisFollows'
    BY <1>1 DEF AloneInv, SessionFollows, AnalysisFollows
  <1> QED
    BY <1>2, <1>3, <1>4, <1>5 DEF AloneInv

LEMMA BeginStep ==
  ASSUME MemoInv, AloneInv, OneAtATime, OneAtATime', NEW c \in Calls, NEW kind \in Kinds, NEW v \in Codes,
         Begin(c, kind, v)
  PROVE  AloneInv'
  <1>0. TypeOK
    BY DEF MemoInv, Typed
  <1>1. /\ Alone(c) /\ call[c].pc = "idle"
        /\ call'[c].pc = FirstStep(kind) /\ call'[c].base = head /\ call'[c].seen = Overlay
        /\ call'[c].fp = [CurrentFp EXCEPT !.code = v]
        /\ FirstStep(kind) \in {"maintained", "write", "land", "move", "delete", "drop"}
        /\ FirstStep(kind) = "maintained" => v = code
    BY <1>0, BeginMoves
  <1>2. call'[c].fp.code = v
    BY <1>1 DEF CurrentFp
  <1>3. \A d \in Calls \ {c} : call'[d] = call[d] /\ call[d].pc = "idle"
    BY <1>1, OthersAreIdle
  <1>4. UNCHANGED <<code, patterns, patternsStale, head, rows, emissions, memo, session, mixed, synced>>
    BY DEF Begin, history
  <1>5. \A d \in Calls : call[d].pc = "idle"
    BY <1>1, <1>3
  <1>6. /\ session.up => synced \/ session.code = code
        /\ ~synced /\ patterns # 0 /\ ~patternsStale => patterns = code
    BY <1>5 DEF AloneInv, SessionFollows, AnalysisFollows
  <1>7. /\ mixed' = mixed /\ Overlay' = Overlay /\ session' = session /\ memo \subseteq memo'
        /\ \A i \in DOMAIN emissions : i \in DOMAIN emissions' /\ emissions'[i] = emissions[i]
    BY <1>4, OverlayStays
  <1>8. call[c].pc \notin Writing /\ call'[c].pc \notin {"idle", "markStale", "through", "markFresh"} \cup Reading \cup Writing
    BY <1>1 DEF Reading, Writing
  <1>9. /\ call'[c].base = head' /\ call'[c].seen = Overlay'
        /\ call'[c].pc = "maintained" => call'[c].fp.code = code'
    BY <1>1, <1>2, <1>4, <1>7
  <1>10. /\ session'.up => synced' \/ session'.code = code'
         /\ ~synced' /\ patterns' # 0 /\ ~patternsStale' => patterns' = code'
    BY <1>4, <1>6
  <1> QED
    BY <1>3, <1>7, <1>8, <1>9, <1>10, QuietStep

(* The steps of a call that only read.                                       *)
LEMMA ReadStep ==
  ASSUME MemoInv, AloneInv, NEW c \in Calls,
         \A d \in Calls \ {c} : call'[d] = call[d] /\ call[d].pc = "idle",
         UNCHANGED <<code, head, rows, session, mixed, synced>>,
         call[c].pc \in {"maintained"} \cup Reading, call'[c].pc \in Reading,
         call'[c].base = call[c].base, call'[c].seen = call[c].seen, call'[c].fp.code = call[c].fp.code,
         call'[c].maintained = Maintained',
         memo \subseteq memo', \A i \in DOMAIN emissions : i \in DOMAIN emissions' /\ emissions'[i] = emissions[i],
         UNCHANGED <<patterns, patternsStale>> \/ patterns' = code',
         call'[c].pc = "markFresh" => patterns' = code'
  PROVE  AloneInv'
  <1>1. Overlay' = Overlay
    BY OverlayStays
  <1>2. call[c].base = head /\ call[c].seen = Overlay /\ call[c].fp.code = code
    BY DEF AloneInv, SeesWhatIs, Reading
  <1>3. \A d \in Calls : call[d].pc \notin {"markStale", "through"}
    BY DEF Reading
  <1>4. /\ session.up => synced \/ session.code = code
        /\ ~synced /\ patterns # 0 /\ ~patternsStale => patterns = code
    BY <1>3 DEF AloneInv, SessionFollows, AnalysisFollows
  <1>5. /\ session'.up => synced' \/ session'.code = code'
        /\ ~synced' /\ patterns' # 0 /\ ~patternsStale' => patterns' = code'
    BY <1>4
  <1>6. call[c].pc \notin Writing /\ call'[c].pc \notin Writing \cup {"idle", "markStale", "through"}
    BY DEF Reading, Writing
  <1>7. /\ call'[c].base = head' /\ call'[c].seen = Overlay' /\ call'[c].fp.code = code'
        /\ session' = session /\ mixed' = mixed
    BY <1>1, <1>2
  <1> QED
    BY <1>1, <1>5, <1>6, <1>7, QuietStep

LEMMA ReadingSteps ==
  ASSUME MemoInv, AloneInv, OneAtATime, OneAtATime', NEW c \in Calls,
         \/ ReadMaintained(c) \/ PatternsState(c) \/ Analyze(c) \/ MarkFresh(c) \/ Miss(c)
         \/ \E answer \in SUBSET Outs : Generate(c, answer)
  PROVE  AloneInv'
  <1>0. TypeOK
    BY DEF MemoInv, Typed
  <1>a. call[c] \in Call
    BY <1>0 DEF TypeOK
  <1> USE DEF Kept, history, At
  <1>1. CASE ReadMaintained(c)
    <2>1. Moves(c, "patternsState", call[c].fp, Maintained, call[c].output, call[c].todo)
      BY <1>0, <1>1, ReadMaintainedMoves
    <2>2. /\ \A d \in Calls \ {c} : call'[d] = call[d] /\ call[d].pc = "idle"
          /\ call'[c].pc \in Reading /\ call[c].pc = "maintained"
      BY <1>1, <2>1, OthersAreIdle DEF Moves, ReadMaintained, Reading
    <2>3. UNCHANGED <<code, head, rows, session, mixed, synced, memo, emissions, patterns, patternsStale>>
      BY <1>1 DEF ReadMaintained
    <2>4. Maintained' = Maintained
      BY <2>3 DEF Maintained
    <2>5. call'[c].pc # "markFresh"
      BY <2>1 DEF Moves
    <2> QED
      BY <2>1, <2>2, <2>3, <2>4, <2>5, ReadStep DEF Moves
  <1>2. CASE PatternsState(c) \/ MarkFresh(c) \/ Miss(c)
    <2>1. PICK pc \in {"analyze", "lookup", "generate"} : Goto(c, pc)
      BY <1>2 DEF PatternsState, MarkFresh, Miss
    <2>2. Moves(c, pc, call[c].fp, call[c].maintained, call[c].output, call[c].todo)
      BY <1>0, <2>1, GotoMoves DEF Steps
    <2>3. call[c].pc \in Reading /\ call'[c].pc \in Reading /\ call'[c].pc # "markFresh"
      BY <1>2, <2>2 DEF PatternsState, MarkFresh, Miss, Moves, Reading
    <2>4. \A d \in Calls \ {c} : call'[d] = call[d] /\ call[d].pc = "idle"
      BY <2>2, <2>3, OthersAreIdle DEF Moves, Reading
    <2>5. /\ UNCHANGED <<code, head, rows, session, mixed, synced, memo, emissions, patterns>>
          /\ patternsStale' = patternsStale \/ (call[c].pc = "markFresh")
      BY <1>2 DEF PatternsState, MarkFresh, Miss
    <2>6. Maintained' = Maintained /\ call[c].maintained = Maintained
      BY <2>3, <2>5 DEF Maintained, AloneInv, SeesWhatIs
    <2>7. UNCHANGED <<patterns, patternsStale>> \/ patterns' = code'
      BY <2>5 DEF AloneInv, AnalysisFollows
    <2> QED
      BY <2>2, <2>3, <2>4, <2>5, <2>6, <2>7, ReadStep DEF Moves
  <1>3. CASE Analyze(c)
    <2>1. Moves(c, "markFresh", [call[c].fp EXCEPT !.patterns = call[c].fp.code],
                call[c].maintained, call[c].output, call[c].todo)
      BY <1>0, <1>3, AnalyzeMoves
    <2>2. call[c].pc \in Reading /\ call'[c].pc \in Reading
      BY <1>3, <2>1 DEF Analyze, Moves, Reading
    <2>3. \A d \in Calls \ {c} : call'[d] = call[d] /\ call[d].pc = "idle"
      BY <2>1, <2>2, OthersAreIdle DEF Moves, Reading
    <2>4. UNCHANGED <<code, head, rows, session, mixed, synced, memo, emissions>> /\ patterns' = call[c].fp.code
      BY <1>3 DEF Analyze
    <2>5. Maintained' = Maintained /\ call[c].maintained = Maintained /\ call[c].fp.code = code
      BY <2>2, <2>4 DEF Maintained, AloneInv, SeesWhatIs
    <2>6. call'[c].fp.code = call[c].fp.code
      BY <1>a, <2>1 DEF Moves, Call, Fingerprint
    <2> QED
      BY <2>1, <2>2, <2>3, <2>4, <2>5, <2>6, ReadStep DEF Moves
  <1>4. ASSUME NEW answer \in SUBSET Outs, Generate(c, answer) PROVE AloneInv'
    <2>1. /\ call[c].pc = "generate"
          /\ \A i \in DOMAIN emissions : emissions'[i] = emissions[i]
          /\ DOMAIN emissions = 1..Len(emissions) /\ Len(emissions) \in Nat
          /\ DOMAIN emissions' = 1..(Len(emissions) + 1)
          /\ \A d \in Calls \ {c} : call'[d] = call[d]
          /\ call'[c].pc = "store" /\ call'[c].fp = call[c].fp /\ call'[c].maintained = call[c].maintained
          /\ call'[c].base = call[c].base /\ call'[c].seen = call[c].seen
      BY <1>0, <1>4, GenerateMoves
    <2>2. call[c].pc \in Reading /\ call'[c].pc \in Reading /\ call'[c].pc # "markFresh"
      BY <2>1 DEF Reading
    <2>3. \A d \in Calls \ {c} : call'[d] = call[d] /\ call[d].pc = "idle"
      BY <2>1 DEF OneAtATime
    <2>4. UNCHANGED <<code, head, rows, session, mixed, synced, memo, patterns, patternsStale>>
      BY <1>4 DEF Generate
    <2>5. Maintained' = Maintained /\ call[c].maintained = Maintained
      BY <1>0, <2>1, <2>2, <2>4, MemoGrows DEF AloneInv, SeesWhatIs
    <2>6. \A i \in DOMAIN emissions : i \in DOMAIN emissions' /\ emissions'[i] = emissions[i]
      BY <2>1
    <2> QED
      BY <2>1, <2>2, <2>3, <2>4, <2>5, <2>6, ReadStep
  <1> QED
    BY <1>1, <1>2, <1>3, <1>4

(* A call ends, having written nothing in this step.                         *)
LEMMA EndStep ==
  ASSUME MemoInv, AloneInv, NEW c \in Calls, Done(c), OneAtATime, OneAtATime', call[c].pc # "idle",
         mixed' \/ (mixed' = mixed /\ call[c].pc \notin Writing /\ Overlay' = Overlay),
         session'.files = session.files, session'.up => session.up, UNCHANGED <<memo, emissions>>,
         session'.up => synced' \/ session'.code = code',
         ~synced' /\ patterns' # 0 /\ ~patternsStale' => patterns' = code'
  PROVE  AloneInv'
  <1>1. Ends(c)
    BY DoneEnds DEF MemoInv, Typed
  <1>2. call'[c].pc = "idle"
    BY <1>1, NoCallIsACall DEF Ends, MemoInv, Typed
  <1>3. \A d \in Calls \ {c} : call'[d] = call[d] /\ call[d].pc = "idle"
    BY <1>1, OthersAreIdle DEF Ends
  <1>4. call'[c].pc \notin {"maintained", "markStale", "through", "markFresh"} \cup Reading \cup Writing
    BY <1>2 DEF Reading, Writing
  <1>5. memo \subseteq memo' /\ \A i \in DOMAIN emissions : i \in DOMAIN emissions' /\ emissions'[i] = emissions[i]
    OBVIOUS
  <1> QED
    BY <1>2, <1>3, <1>4, <1>5, QuietStep

LEMMA EndingSteps ==
  ASSUME MemoInv, AloneInv, OneAtATime, OneAtATime', NEW c \in Calls,
         \/ Refuse(c) \/ Fail(c) \/ WriteThrough(c) \/ Commit(c) \/ Sync(c) \/ Stop(c)
         \/ \E f \in Files : Discard(c, f)
  PROVE  AloneInv'
  <1>0. session \in [up : BOOLEAN, files : [Files -> Emission], code : Codes]
    BY DEF MemoInv, Typed, TypeOK
  <1> USE DEF Kept, history, At
  <1>1. ASSUME call[c].pc \notin {"idle", "markStale", "through"}
        PROVE  /\ session.up => synced \/ session.code = code
               /\ ~synced /\ patterns # 0 /\ ~patternsStale => patterns = code
    <2>1. \A d \in Calls : call[d].pc \notin {"markStale", "through"}
      BY <1>1 DEF OneAtATime
    <2> QED
      BY <2>1 DEF AloneInv, SessionFollows, AnalysisFollows
  <1>2. CASE Refuse(c)
    BY <1>1, <1>2, EndStep, OverlayStays DEF Refuse, Writing
  <1>3. CASE Fail(c)
    <2>1. /\ Done(c) /\ call[c].pc \in {"analyze", "generate", "save", "retire"}
          /\ mixed' = (mixed \/ call[c].pc \in {"save", "retire"})
          /\ UNCHANGED <<code, patterns, patternsStale, head, rows, emissions, memo, session, synced>>
      BY <1>3 DEF Fail
    <2>2. CASE call[c].pc \in {"save", "retire"}
      BY <1>1, <2>1, <2>2, EndStep
    <2>3. CASE call[c].pc \notin {"save", "retire"}
      <3>1. mixed \in BOOLEAN
        BY DEF MemoInv, Typed, TypeOK
      <3>2. mixed' = mixed
        BY <2>1, <2>3, <3>1
      <3> QED
        BY <1>1, <2>1, <2>3, <3>2, EndStep, OverlayStays DEF Writing
    <2> QED
      BY <2>2, <2>3
  <1>4. CASE WriteThrough(c)
    <2>1. /\ session' = session \/ session' = [session EXCEPT !.code = call[c].fp.code]
          /\ session.up => session' = [session EXCEPT !.code = call[c].fp.code]
          /\ Done(c) /\ call[c].pc = "through"
          /\ UNCHANGED <<code, patterns, patternsStale, head, rows, emissions, memo, mixed, synced>>
      BY <1>4 DEF WriteThrough
    <2>2. call[c].fp.code = code
      BY <2>1 DEF AloneInv, SeesWhatIs
    <2>3. session'.files = session.files /\ session'.up = session.up /\ (session'.up => session'.code = code)
      BY <1>0, <2>1, <2>2
    <2>4. \A d \in Calls : call[d].pc # "markStale"
      BY <2>1 DEF OneAtATime
    <2>5. ~synced /\ patterns # 0 /\ ~patternsStale => patterns = code
      BY <2>4 DEF AloneInv, AnalysisFollows
    <2> QED
      BY <2>1, <2>3, <2>5, EndStep, OverlayStays DEF Writing
  <1>5. CASE Commit(c)
    <2>1. Overlay' = Overlay
      <3>1. CASE UNCHANGED <<head, rows>>
        BY <3>1, OverlayStays
      <3>2. CASE head' = Overlay /\ rows' = [f \in Files |-> NoRow]
        BY <3>2 DEF Overlay, Over
      <3> QED
        BY <1>5, <3>1, <3>2 DEF Commit
    <2> QED
      BY <1>1, <1>5, <2>1, EndStep DEF Commit, Writing
  <1>6. CASE Sync(c)
    BY <1>1, <1>6, EndStep, OverlayStays DEF Sync, Writing
  <1>7. CASE Stop(c)
    <2>1. session'.files = session.files /\ session'.up = FALSE
      BY <1>0, <1>7 DEF Stop
    <2> QED
      BY <1>1, <1>7, <2>1, EndStep, OverlayStays DEF Stop, Writing
  <1>8. ASSUME NEW f \in Files, Discard(c, f) PROVE AloneInv'
    BY <1>1, <1>8, EndStep DEF Discard
  <1> QED
    BY <1>2, <1>3, <1>4, <1>5, <1>6, <1>7, <1>8

(* A save of code: until the flag is set, the analysis is of other code; and *)
(* until it is written through, the session's is.                            *)
LEMMA SavingSteps ==
  ASSUME MemoInv, AloneInv, OneAtATime, OneAtATime', NEW c \in Calls, WriteCode(c) \/ MarkStale(c)
  PROVE  AloneInv'
  <1>0. TypeOK
    BY DEF MemoInv, Typed
  <1> USE DEF Kept, history, At
  <1>1. PICK pc \in {"markStale", "through"} : Goto(c, pc) /\ (pc = "through" <=> MarkStale(c))
    BY DEF WriteCode, MarkStale
  <1>2. Moves(c, pc, call[c].fp, call[c].maintained, call[c].output, call[c].todo)
    BY <1>0, <1>1, GotoMoves DEF Steps
  <1>3. \A d \in Calls \ {c} : call'[d] = call[d] /\ call[d].pc = "idle"
    BY <1>2, OthersAreIdle DEF Moves
  <1>4. /\ UNCHANGED <<head, rows, memo, emissions, session, mixed, synced, patterns>> /\ code' = call[c].fp.code
        /\ call[c].pc \in {"write", "markStale"} /\ (pc = "through" => patternsStale')
    <2>1. CASE WriteCode(c)
      BY <1>1, <2>1 DEF WriteCode, MarkStale
    <2>2. CASE MarkStale(c)
      BY <2>2 DEF MarkStale, AloneInv, SeesWhatIs
    <2> QED
      BY <2>1, <2>2
  <1>5. call[c].base = head /\ call[c].pc \notin Writing
    BY <1>4 DEF AloneInv, SeesWhatIs, Writing
  <1>6. /\ call'[c].base = head' /\ call'[c].fp.code = code' /\ call'[c].pc \in {"markStale", "through"}
        /\ call'[c].pc \notin {"maintained", "markFresh"} \cup Reading \cup Writing
        /\ ~patternsStale' => call'[c].pc = "markStale"
    BY <1>1, <1>2, <1>4, <1>5 DEF Moves, Reading, Writing
  <1>7. /\ Overlay' = Overlay /\ memo \subseteq memo'
        /\ \A i \in DOMAIN emissions : i \in DOMAIN emissions' /\ emissions'[i] = emissions[i]
        /\ session' = session /\ mixed' = mixed
    BY <1>4, OverlayStays
  <1> QED
    BY <1>3, <1>5, <1>6, <1>7, QuietStep

-----------------------------------------------------------------------------
(* The loops.                                                                *)

(* A step after which c is in one of the loops.                              *)
LEMMA InTheLoops ==
  ASSUME MemoInv, AloneInv, NEW c \in Calls,
         \A d \in Calls \ {c} : call'[d] = call[d] /\ call[d].pc = "idle",
         call'[c].pc \in Writing, memo \subseteq memo',
         UNCHANGED <<code, patterns, patternsStale, head, emissions, session, synced>>,
         call[c].pc \in Reading \cup Writing,
         call'[c].base = call[c].base, call'[c].fp = call[c].fp,
         Maintained' \subseteq call'[c].maintained \cup emissions[call'[c].output].files,
         \A f \in Files : call'[c].seen[f] # 0 => f \in Maintained,
         call'[c].pc = "save" => \A f \in emissions[call'[c].output].files \ call'[c].todo : rows'[f] = call'[c].output,
         call'[c].pc = "retire" =>
           /\ \A f \in emissions[call'[c].output].files : rows'[f] = call'[c].output
           /\ call'[c].todo \subseteq Retired(call'[c])
           /\ \A f \in Retired(call'[c]) \ call'[c].todo : Overlay'[f] = 0
  PROVE  AloneInv'
  <1>0. Maintained \subseteq Maintained'
    BY MemoGrows DEF MemoInv, Typed
  <1>1. \A d \in Calls : call[d].pc \notin {"markStale", "through"}
    BY DEF Reading, Writing
  <1>2. call[c].base = head /\ call[c].fp.code = code
    BY DEF AloneInv, SeesWhatIs, Reading, Writing
  <1>3. SeesWhatIs'
    BY <1>0, <1>2 DEF SeesWhatIs, Wrote, Reading, Writing
  <1>4. LoopsAreOnTheirWay'
    BY DEF LoopsAreOnTheirWay, Wrote, Retired
  <1>5. WholeBetweenCalls'
    BY DEF WholeBetweenCalls, Unwritten
  <1>6. SessionFollows'
    BY <1>0, <1>1 DEF SessionFollows, AloneInv
  <1>7. AnalysisFollows'
    BY <1>1 DEF AnalysisFollows, AloneInv, Writing
  <1> QED
    BY <1>3, <1>4, <1>5, <1>6, <1>7 DEF AloneInv

LEMMA LandingSteps ==
  ASSUME MemoInv, AloneInv, OneAtATime, OneAtATime', NEW c \in Calls, Hit(c) \/ Store(c)
  PROVE  AloneInv'
  <1>0. TypeOK
    BY DEF MemoInv, Typed
  <1> USE DEF Kept, history, At
  <1>1. PICK i \in DOMAIN emissions : /\ call' = [call EXCEPT ![c] = Landing(call[c], i)]
                                      /\ memo' \subseteq memo \cup {i} /\ memo \subseteq memo'
    <2>1. CASE Hit(c)
      <3>1. PICK i \in memo : call' = [call EXCEPT ![c] = Landing(call[c], i)]
        BY <2>1 DEF Hit, Remembered
      <3>2. i \in DOMAIN emissions
        BY <1>0 DEF TypeOK
      <3> QED
        BY <2>1, <3>1, <3>2 DEF Hit
    <2>2. CASE Store(c)
      BY <2>2 DEF Store, Stored, MemoInv, Typed
    <2> QED
      BY <2>1, <2>2
  <1>2. Moves(c, "save", call[c].fp, call[c].maintained, i, emissions[i].files)
    BY <1>0, <1>1, LandingMoves
  <1>3. call[c].pc \in Reading
    BY DEF Hit, Store, Reading
  <1>4. \A d \in Calls \ {c} : call'[d] = call[d] /\ call[d].pc = "idle"
    BY <1>2, OthersAreIdle DEF Moves
  <1>5. UNCHANGED <<code, patterns, patternsStale, head, rows, emissions, session, mixed, synced>>
    BY DEF Hit, Store
  <1>6. call[c].maintained = Maintained /\ call[c].seen = Overlay
    BY <1>3 DEF AloneInv, SeesWhatIs
  <1>7. Maintained' \subseteq Maintained \cup emissions[i].files
    BY <1>1, <1>5 DEF Maintained
  <1>8. \A f \in Files : Overlay[f] # 0 => f \in Maintained
    BY OverlayIsKnown
  <1>9. /\ call'[c].pc = "save" /\ call'[c].fp = call[c].fp /\ call'[c].maintained = call[c].maintained
        /\ call'[c].output = i /\ call'[c].todo = emissions[i].files
        /\ call'[c].base = call[c].base /\ call'[c].seen = call[c].seen
    BY <1>2 DEF Moves
  <1>10. call'[c].pc \in Writing /\ call[c].pc \in Reading \cup Writing
    BY <1>3, <1>9 DEF Writing
  <1> QED
    BY <1>1, <1>4, <1>5, <1>6, <1>7, <1>8, <1>9, <1>10, InTheLoops

(* What a round of a loop finds.                                             *)
LEMMA WritingFacts ==
  ASSUME MemoInv, AloneInv, NEW c \in Calls, call[c].pc \in Writing
  PROVE  /\ call[c].output \in memo /\ call[c].output \in DOMAIN emissions /\ call[c].output # 0
         /\ call[c].output # NoRow /\ Wrote(c) \subseteq Maintained /\ Registry \in Wrote(c)
         /\ Maintained \subseteq call[c].maintained \cup Wrote(c)
         /\ \A f \in Files : call[c].seen[f] # 0 => f \in Maintained
         /\ Maintained \subseteq Files \ Prompts
         /\ call[c].base = head /\ call[c].fp.code = code
  <1>1. call[c].output \in memo
    BY DEF MemoInv, LandsFromTheMemo, Writing
  <1>2. TypeOK /\ memo \subseteq DOMAIN emissions
    BY DEF MemoInv, Typed, TypeOK
  <1>3. call[c].output \in 1..Len(emissions) /\ Len(emissions) \in Nat
    BY <1>1, <1>2, EmissionsTyped
  <1>4. Wrote(c) \subseteq Maintained
    BY <1>1 DEF Wrote, Maintained
  <1>5. Registry \in Wrote(c)
    BY <1>1, <1>2 DEF MemoInv, TheRegistryIsEmitted, Wrote
  <1>6. /\ Maintained \subseteq call[c].maintained \cup Wrote(c)
        /\ \A f \in Files : call[c].seen[f] # 0 => f \in Maintained
        /\ call[c].base = head /\ call[c].fp.code = code
    BY DEF AloneInv, SeesWhatIs, Writing
  <1> QED
    BY <1>1, <1>2, <1>3, <1>4, <1>5, <1>6, KnownIsNoPrompt DEF NoRow

LEMMA SaveStep ==
  ASSUME MemoInv, AloneInv, OneAtATime, OneAtATime', NEW c \in Calls, Save(c)
  PROVE  AloneInv'
  <1>0. TypeOK
    BY DEF MemoInv, Typed
  <1> DEFINE first == FirstOf(call[c].todo)
  <1>1. /\ first \in call[c].todo /\ call[c].todo \subseteq Files
        /\ Moves(c, call[c].pc, call[c].fp, call[c].maintained, call[c].output, call[c].todo \ {first})
    BY <1>0, LoopMoves
  <1>2. /\ call[c].pc = "save" /\ rows' = [rows EXCEPT ![first] = call[c].output]
        /\ UNCHANGED <<code, patterns, patternsStale, head, emissions, memo, session, mixed, synced>>
    BY DEF Save, At, Kept, history
  <1> HIDE DEF first
  <1>3. /\ call'[c].pc = "save" /\ call'[c].fp = call[c].fp /\ call'[c].maintained = call[c].maintained
        /\ call'[c].output = call[c].output /\ call'[c].todo = call[c].todo \ {first}
        /\ call'[c].base = call[c].base /\ call'[c].seen = call[c].seen
    BY <1>1, <1>2 DEF Moves
  <1>4. \A d \in Calls \ {c} : call'[d] = call[d] /\ call[d].pc = "idle"
    BY <1>1, <1>2, OthersAreIdle DEF Moves
  <1>5. call[c].pc \in Writing /\ call'[c].pc \in Writing
    BY <1>2, <1>3 DEF Writing
  <1>6. Maintained' = Maintained
    BY <1>2 DEF Maintained
  <1>7. \A f \in Wrote(c) \ call[c].todo : rows[f] = call[c].output
    BY <1>2 DEF AloneInv, LoopsAreOnTheirWay
  <1>8. Wrote(c) \subseteq Files /\ rows \in [Files -> Emission \cup {NoRow}]
    BY <1>0, <1>5, WritingFacts DEF TypeOK
  <1>9. \A f \in Wrote(c) \ call'[c].todo : rows'[f] = call[c].output
    BY <1>1, <1>2, <1>3, <1>7, <1>8
  <1>10. /\ Maintained' \subseteq call'[c].maintained \cup emissions[call'[c].output].files
         /\ \A f \in Files : call'[c].seen[f] # 0 => f \in Maintained
    BY <1>3, <1>5, <1>6, WritingFacts DEF Wrote
  <1>11. \A f \in emissions[call'[c].output].files \ call'[c].todo : rows'[f] = call'[c].output
    BY <1>3, <1>9 DEF Wrote
  <1> QED
    BY <1>2, <1>3, <1>4, <1>5, <1>10, <1>11, InTheLoops

LEMMA SavedStep ==
  ASSUME MemoInv, AloneInv, OneAtATime, OneAtATime', NEW c \in Calls, Saved(c)
  PROVE  AloneInv'
  <1>0. TypeOK
    BY DEF MemoInv, Typed
  <1>1. Moves(c, "retire", call[c].fp, call[c].maintained, call[c].output, Retired(call[c]))
    BY <1>0, SavedMoves
  <1>2. /\ call[c].pc = "save" /\ call[c].todo = {}
        /\ UNCHANGED <<code, patterns, patternsStale, head, rows, emissions, memo, session, mixed, synced>>
    BY DEF Saved, At, Kept, history
  <1>3. /\ call'[c].pc = "retire" /\ call'[c].fp = call[c].fp /\ call'[c].maintained = call[c].maintained
        /\ call'[c].output = call[c].output /\ call'[c].todo = Retired(call[c])
        /\ call'[c].base = call[c].base /\ call'[c].seen = call[c].seen
    BY <1>1 DEF Moves
  <1>4. \A d \in Calls \ {c} : call'[d] = call[d] /\ call[d].pc = "idle"
    BY <1>1, <1>2, OthersAreIdle DEF Moves
  <1>5. call[c].pc \in Writing /\ call'[c].pc \in Writing
    BY <1>2, <1>3 DEF Writing
  <1>6. Maintained' = Maintained
    BY <1>2 DEF Maintained
  <1>7. \A f \in Wrote(c) : rows[f] = call[c].output
    BY <1>2 DEF AloneInv, LoopsAreOnTheirWay
  <1>8. Retired(call'[c]) = Retired(call[c])
    BY <1>3 DEF Retired
  <1>9. /\ Maintained' \subseteq call'[c].maintained \cup emissions[call'[c].output].files
        /\ \A f \in Files : call'[c].seen[f] # 0 => f \in Maintained
    BY <1>3, <1>5, <1>6, WritingFacts DEF Wrote
  <1>10. /\ \A f \in emissions[call'[c].output].files : rows'[f] = call'[c].output
         /\ call'[c].todo \subseteq Retired(call'[c])
         /\ \A f \in Retired(call'[c]) \ call'[c].todo : Overlay'[f] = 0
    BY <1>2, <1>3, <1>7, <1>8 DEF Wrote
  <1> QED
    BY <1>2, <1>3, <1>4, <1>5, <1>9, <1>10, InTheLoops

LEMMA RetireStep ==
  ASSUME MemoInv, AloneInv, OneAtATime, OneAtATime', NEW c \in Calls, Retire(c)
  PROVE  AloneInv'
  <1>0. TypeOK
    BY DEF MemoInv, Typed
  <1> DEFINE first == FirstOf(call[c].todo)
  <1>1. /\ first \in call[c].todo /\ call[c].todo \subseteq Files
        /\ Moves(c, call[c].pc, call[c].fp, call[c].maintained, call[c].output, call[c].todo \ {first})
    BY <1>0, LoopMoves
  <1>2. /\ call[c].pc = "retire" /\ rows' = [rows EXCEPT ![first] = Retirement(call[c].base[first])]
        /\ UNCHANGED <<code, patterns, patternsStale, head, emissions, memo, session, mixed, synced>>
    BY DEF Retire, At, Kept, history
  <1> HIDE DEF first
  <1>3. /\ call'[c].pc = "retire" /\ call'[c].fp = call[c].fp /\ call'[c].maintained = call[c].maintained
        /\ call'[c].output = call[c].output /\ call'[c].todo = call[c].todo \ {first}
        /\ call'[c].base = call[c].base /\ call'[c].seen = call[c].seen
    BY <1>1, <1>2 DEF Moves
  <1>4. \A d \in Calls \ {c} : call'[d] = call[d] /\ call[d].pc = "idle"
    BY <1>1, <1>2, OthersAreIdle DEF Moves
  <1>5. call[c].pc \in Writing /\ call'[c].pc \in Writing
    BY <1>2, <1>3 DEF Writing
  <1>6. Maintained' = Maintained
    BY <1>2 DEF Maintained
  <1>7. /\ \A f \in Wrote(c) : rows[f] = call[c].output
        /\ call[c].todo \subseteq Retired(call[c])
        /\ \A f \in Retired(call[c]) \ call[c].todo : Overlay[f] = 0
    BY <1>2 DEF AloneInv, LoopsAreOnTheirWay
  <1>8. Wrote(c) \subseteq Files /\ call[c].base = head /\ rows \in [Files -> Emission \cup {NoRow}] /\ first \in Files
    BY <1>0, <1>1, <1>5, WritingFacts DEF TypeOK
  <1>9. Retired(call'[c]) = Retired(call[c]) /\ first \notin Wrote(c) /\ first \in Retired(call[c])
    BY <1>1, <1>3, <1>7 DEF Retired, Wrote
  <1>10. Retired(call[c]) \subseteq Files
    <2>1. call[c] \in Call
      BY <1>0 DEF TypeOK
    <2> QED
      BY <2>1 DEF Retired, Call
  <1>11. \A f \in Wrote(c) : rows'[f] = call[c].output
    BY <1>2, <1>7, <1>8, <1>9
  <1>12. Overlay'[first] = 0
    <2>1. rows'[first] = IF head[first] # 0 THEN 0 ELSE NoRow
      BY <1>2, <1>8 DEF Retirement
    <2>2. Overlay'[first] = Over(head[first], rows'[first])
      BY <1>2, <1>8 DEF Overlay, Over
    <2> QED
      BY <2>1, <2>2 DEF Over, NoRow
  <1>13. \A f \in Files \ {first} : Overlay'[f] = Overlay[f]
    BY <1>2, <1>8 DEF Overlay, Over
  <1>14. \A f \in Retired(call'[c]) \ call'[c].todo : Overlay'[f] = 0
    BY <1>3, <1>7, <1>9, <1>10, <1>12, <1>13
  <1>15. /\ Maintained' \subseteq call'[c].maintained \cup emissions[call'[c].output].files
         /\ \A f \in Files : call'[c].seen[f] # 0 => f \in Maintained
    BY <1>3, <1>5, <1>6, WritingFacts DEF Wrote
  <1>16. /\ \A f \in emissions[call'[c].output].files : rows'[f] = call'[c].output
         /\ call'[c].todo \subseteq Retired(call'[c])
    BY <1>3, <1>7, <1>9, <1>11 DEF Wrote
  <1> QED
    BY <1>2, <1>3, <1>4, <1>5, <1>14, <1>15, <1>16, InTheLoops

(* What there is after the loops is what the call emitted, and the session   *)
(* has the same.                                                             *)
LEMMA HandStep ==
  ASSUME MemoInv, AloneInv, OneAtATime, OneAtATime', NEW c \in Calls, Hand(c)
  PROVE  AloneInv'
  <1>0. TypeOK
    BY DEF MemoInv, Typed
  <1>1. /\ call[c].pc = "retire" /\ call[c].todo = {} /\ Done(c) /\ mixed' = FALSE
        /\ UNCHANGED <<code, patterns, patternsStale, head, rows, emissions, memo, synced>>
    BY DEF Hand, At, Kept, history
  <1>2. call[c].pc \in Writing
    BY <1>1 DEF Writing
  <1> DEFINE out == call[c].output
             Final == [f \in Files |-> IF f \in Wrote(c) THEN out ELSE 0]
  <1>3. \A f \in Files : f \notin Wrote(c) /\ f \in Maintained => f \in Retired(call[c])
    BY <1>2, WritingFacts DEF Retired, Wrote
  <1>4. Overlay = Final
    <2>1. ASSUME NEW f \in Files PROVE Overlay[f] = IF f \in Wrote(c) THEN out ELSE 0
      <3>1. CASE f \in Wrote(c)
        <4>1. rows[f] = out /\ out # NoRow
          BY <1>1, <1>2, <3>1, WritingFacts DEF AloneInv, LoopsAreOnTheirWay
        <4> QED
          BY <3>1, <4>1 DEF Overlay, Over
      <3>2. CASE f \notin Wrote(c)
        <4>1. f \in Retired(call[c]) => Overlay[f] = 0
          BY <1>1 DEF AloneInv, LoopsAreOnTheirWay
        <4>2. Overlay[f] # 0 => f \in Maintained
          BY OverlayIsKnown
        <4> QED
          BY <1>3, <3>2, <4>1, <4>2
      <3> QED
        BY <3>1, <3>2
    <2>2. Overlay = [f \in Files |-> Overlay[f]]
      BY DEF Overlay
    <2> QED
      BY <2>1, <2>2
  <1>5. Assembled(call[c]) = Final
    <2>1. ASSUME NEW f \in Files PROVE Assembled(call[c])[f] = IF f \in Wrote(c) THEN out ELSE 0
      <3>1. call[c].seen[f] # 0 => f \in Maintained
        BY <1>2, WritingFacts
      <3> QED
        BY <1>3, <3>1 DEF Assembled, Wrote
    <2>2. Assembled(call[c]) = [f \in Files |-> Assembled(call[c])[f]]
      BY DEF Assembled
    <2> QED
      BY <2>1, <2>2
  <1>6. Patched(call[c]) = Final
    <2>1. ASSUME NEW f \in Files PROVE Patched(call[c])[f] = IF f \in Wrote(c) THEN out ELSE 0
      <3>1. session.files[f] # 0 => f \in Maintained
        BY DEF AloneInv, SessionFollows
      <3> QED
        BY <1>3, <3>1 DEF Patched, Wrote
    <2>2. Patched(call[c]) = [f \in Files |-> Patched(call[c])[f]]
      BY DEF Patched
    <2> QED
      BY <2>1, <2>2
  <1>7. \/ session' = [up |-> TRUE, files |-> Final, code |-> call[c].fp.code]
        \/ session.up /\ session' = [session EXCEPT !.files = Final]
        \/ ~session.up /\ session' = session
    BY <1>5, <1>6 DEF Hand
  <1>8. session \in [up : BOOLEAN, files : [Files -> Emission], code : Codes]
    BY <1>0 DEF TypeOK
  <1> HIDE DEF Final
  <1>9. /\ session'.files = Final \/ session' = session
        /\ session'.up => session'.files = Final
        /\ session'.up => session'.code = code \/ (session.up /\ session'.code = session.code)
    BY <1>2, <1>7, <1>8, WritingFacts
  <1>10. Maintained' = Maintained /\ Overlay' = Overlay
    BY <1>1, OverlayStays DEF Maintained
  <1>11. \A f \in Files : session'.files[f] # 0 => f \in Maintained'
    <2>1. \A f \in Files : Final[f] # 0 => f \in Maintained
      BY <1>2, WritingFacts DEF Final
    <2> QED
      BY <1>9, <1>10, <2>1 DEF AloneInv, SessionFollows
  <1>12. Whole'
    <2>1. Registry \in Files /\ Registry \in Wrote(c) /\ out \in DOMAIN emissions
      BY <1>2, WritingFacts DEF Files
    <2>2. Overlay[Registry] = out
      BY <1>4, <2>1 DEF Final
    <2>3. Applied(Overlay)
      BY <1>4, <2>2 DEF Applied, Final, Wrote
    <2>4. Whole
      BY <2>1, <2>2, <2>3 DEF Whole
    <2> QED
      BY <1>1, <1>10, <2>4 DEF Whole, Applied
  <1>13. WholeBetweenCalls'
    BY <1>4, <1>9, <1>10, <1>12 DEF WholeBetweenCalls
  <1>14. \A d \in Calls \ {c} : call'[d] = call[d] /\ call[d].pc = "idle"
    BY <1>0, <1>1, DoneEnds, OthersAreIdle DEF Ends
  <1>15. call'[c].pc = "idle"
    BY <1>0, <1>1, DoneEnds, NoCallIsACall DEF Ends
  <1>16. call'[c].pc \notin {"maintained", "markStale", "through", "markFresh"} \cup Reading \cup Writing
    BY <1>15 DEF Reading, Writing
  <1>17. \A d \in Calls : call[d].pc \notin {"markStale", "through"}
    BY <1>1, <1>14
  <1>18. /\ session'.up => synced' \/ session'.code = code'
         /\ ~synced' /\ patterns' # 0 /\ ~patternsStale' => patterns' = code'
    BY <1>1, <1>9, <1>17 DEF AloneInv, SessionFollows, AnalysisFollows
  <1> QED
    BY <1>11, <1>13, <1>14, <1>15, <1>16, <1>18, AfterTheLoops

-----------------------------------------------------------------------------
LEMMA NextAloneInv == MemoInv /\ AloneInv /\ OneAtATime /\ OneAtATime' /\ [Next]_vars => AloneInv'
  <1> SUFFICES ASSUME MemoInv, AloneInv, OneAtATime, OneAtATime', [Next]_vars PROVE AloneInv'
    OBVIOUS
  <1>1. CASE UNCHANGED vars
    BY <1>1, SketchStep DEF vars
  <1>2. ASSUME NEW s \in Sketches, EditSketch(s) PROVE AloneInv'
    BY <1>2, SketchStep DEF EditSketch, history
  <1>3. ASSUME NEW c \in Calls, NEW kind \in Kinds, NEW v \in Codes, Begin(c, kind, v) PROVE AloneInv'
    BY <1>3, BeginStep
  <1>4. ASSUME NEW c \in Calls,
               \/ ReadMaintained(c) \/ PatternsState(c) \/ Analyze(c) \/ MarkFresh(c) \/ Miss(c)
               \/ \E answer \in SUBSET Outs : Generate(c, answer)
        PROVE  AloneInv'
    BY <1>4, ReadingSteps
  <1>5. ASSUME NEW c \in Calls,
               \/ Refuse(c) \/ Fail(c) \/ WriteThrough(c) \/ Commit(c) \/ Sync(c) \/ Stop(c)
               \/ \E f \in Files : Discard(c, f)
        PROVE  AloneInv'
    BY <1>5, EndingSteps
  <1>6. ASSUME NEW c \in Calls, WriteCode(c) \/ MarkStale(c) PROVE AloneInv'
    BY <1>6, SavingSteps
  <1>7. ASSUME NEW c \in Calls, Hit(c) \/ Store(c) PROVE AloneInv'
    BY <1>7, LandingSteps
  <1>8. ASSUME NEW c \in Calls, Save(c) \/ Saved(c) \/ Retire(c) \/ Hand(c) PROVE AloneInv'
    BY <1>8, SaveStep, SavedStep, RetireStep, HandStep
  <1> QED
    BY <1>1, <1>2, <1>3, <1>4, <1>5, <1>6, <1>7, <1>8 DEF Next

LEMMA AlwaysAlone == Spec /\ []OneAtATime => [](MemoInv /\ AloneInv)
  <1>1. OneAtATime => OneAsks
    BY DEF OneAtATime, OneAsks
  <1> QED
    BY <1>1, InitMemoInv, NextMemoInv, InitAloneInv, NextAloneInv, PTL DEF Spec

(* Between calls there is no loop under way.                                 *)
LEMMA IdleIsUnwritten == Idle => Unwritten
  BY DEF Idle, At, Unwritten, Writing

(* When calls do not overlap, what the page shows as applied is exactly one  *)
(* emission: after a discard or a save that failed the next call that gets   *)
(* through restores it, because every file there ever was from the model is  *)
(* in the memo and is saved over or retired.                                 *)
THEOREM CurrentIsOneEmission == Spec /\ []OneAtATime => []CurrentMeansEmitted
  <1>1. MemoInv /\ AloneInv => CurrentMeansEmitted
    <2> SUFFICES ASSUME MemoInv, AloneInv, Idle, ~mixed, ApplyState(Overlay, CurrentFp) = "current"
                 PROVE  Applied(Overlay)
      BY DEF CurrentMeansEmitted
    <2>1. Overlay[Registry] # 0
      BY DEF ApplyState
    <2>2. Whole
      BY IdleIsUnwritten DEF AloneInv, WholeBetweenCalls
    <2> QED
      BY <2>1, <2>2 DEF Whole, Files
  <1> QED
    BY <1>1, AlwaysAlone, PTL

(* And neither the running session nor the analysis of the author's code     *)
(* goes stale: a session started or patched has the files and the code there *)
(* are, and an analysis that counts as fresh is of that code.                *)
THEOREM NothingIsLeftStale == Spec /\ []OneAtATime => []NothingGoesStale
  <1>1. MemoInv /\ AloneInv => NothingGoesStale
    <2> SUFFICES ASSUME MemoInv, AloneInv, Idle PROVE NothingGoesStale
      BY DEF NothingGoesStale, SessionRunsWhatWasApplied, PatternsFollowTheCode
    <2>1. \A c \in Calls : call[c].pc = "idle"
      BY DEF Idle
    <2>2. SessionRunsWhatWasApplied
      BY <2>1, IdleIsUnwritten DEF SessionRunsWhatWasApplied, AloneInv, WholeBetweenCalls, SessionFollows
    <2>3. PatternsFollowTheCode
      BY <2>1 DEF PatternsFollowTheCode, AloneInv, AnalysisFollows
    <2> QED
      BY <2>2, <2>3 DEF NothingGoesStale
  <1> QED
    BY <1>1, AlwaysAlone, PTL
=============================================================================
