--------------------------- MODULE Editing_proofs ---------------------------
(* Theorems about Editing, for one author who waits for each answer, at one  *)
(* page: there the history of operations always tells what happened to the   *)
(* documents, and an undo takes back its own edit and nothing else.  With    *)
(* two pages, without waiting, with a lost answer or with an undo that is    *)
(* refused it does not: TLC finds each of these.  And about SignIn, which    *)
(* says who the author is: for any number of people, accounts, installations *)
(* and requests, of starts and of ticks, and for every lifetime of sessions  *)
(* and tokens.                                                               *)
EXTENDS Editing, SignIn,
        NaturalsInduction, WellFoundedInduction, FiniteSetTheorems, SequenceTheorems, TLAPS

-----------------------------------------------------------------------------
(* Editing.                                                                  *)

OnePatientAuthor ==
    /\ Patient /\ Faults \subseteq {"refused"}
    /\ \A p, q \in Pages : p = q
    /\ \A p \in Pages : "lift" \notin Does[p]

-----------------------------------------------------------------------------
(* What the history tells, given the pending texts and those at HEAD of the *)
(* branch in front, and the edits made so far: every entry is an edit that  *)
(* was made to the text before it and is not in a commit; an entry that     *)
(* began the pending row started from HEAD; each of the others started from *)
(* what the one before it in its document left, and the last of a document  *)
(* left what is there.                                                      *)
EntryTold(entry, base, edits) ==
    /\ entry.previous \subseteq edits /\ entry.edit \subseteq edits
    /\ entry.edit \cap entry.previous = {} /\ entry.edit \cap base[entry.doc] = {}
    /\ ~entry.hadPending => entry.previous = base[entry.doc]

ChainTold(stack, i, j) ==
    Follows(stack, i, j) => stack[j].hadPending /\ stack[j].previous = After(stack[i])

TopTold(stack, j, texts) ==
    LastOf(stack, j) => texts[stack[j].doc] = After(stack[j])

Told(stack, texts, base, edits) ==
    /\ \A j \in DOMAIN stack : EntryTold(stack[j], base, edits) /\ TopTold(stack, j, texts)
    /\ \A i, j \in DOMAIN stack : ChainTold(stack, i, j)

(* Every text is made of edits that were made.                              *)
TextsAreMade ==
    /\ \A b \in Branches, d \in Docs : /\ head[b][d] \subseteq made
                                       /\ rows[b][d] # Absent => rows[b][d] \subseteq made
    /\ \A p \in Pages, d \in Docs : tab[p][d] # Absent => tab[p][d] \subseteq made
    /\ \A c \in Calls : call[c].text \subseteq made

(* One call at a time, of a kind the page makes; what it read is so.        *)
Flying(c) == call[c].pc # "idle"

CallIsSo(q) ==
    /\ q.kind \in Does[q.page]
    /\ q.pc = "listed" => q.kind = "op" /\ q.seen = rows[current][q.doc]
    /\ q.pc \in {"routed", "listed"} => q.branch = current /\ q.base = head[current][q.doc]
    /\ q.kind = "op" /\ q.pc # "answered" =>
          /\ q.text \cap head[current][q.doc] = {}
          /\ rows[current][q.doc] = Absent \/ q.text \cap rows[current][q.doc] = {}
    /\ q.kind = "undo" => q.ok /\ q.doc = q.entry.doc

CallsAreAlone ==
    /\ \A c, e \in Calls : Flying(c) /\ Flying(e) => c = e
    /\ \A c \in Calls : Flying(c) => CallIsSo(call[c])

(* What is told while nothing is under way; by the history with the entry   *)
(* an undo on its way took off it; by the history as the answer leaves it.  *)
TellsNow(stack) == Told(stack, rows[current], head[current], made)

CallTells(q) ==
    LET stack == undo[q.page]
    IN IF q.pc = "answered" THEN TellsNow(HistoryAfter(q))
       ELSE TellsNow(IF q.kind = "undo" THEN Append(stack, q.entry) ELSE stack)

HistoryTells ==
    /\ (\A c \in Calls : ~Flying(c)) => \A p \in Pages : TellsNow(undo[p])
    /\ \A c \in Calls : Flying(c) => CallTells(call[c])

HistoryInv == TypeOK /\ TextsAreMade /\ CallsAreAlone /\ HistoryTells

USE EditingAssumption

-----------------------------------------------------------------------------
(* The history without the entries of one document.                         *)

LEMMA LeastNumber ==
  ASSUME NEW T \in SUBSET Nat, T # {}
  PROVE  \E x \in T : \A y \in T : x <= y
  <1> DEFINE R == OpToRel(<, Nat)
  <1>1. IsWellFoundedOn(R, Nat)
    BY NatLessThanWellFounded
  <1> HIDE DEF R
  <1>2. PICK x \in T : \A y \in T : ~(<<y, x>> \in R)
    BY <1>1, WFMin, Zenon
  <1>3. \A m, n \in Nat : m < n => <<m, n>> \in R
    BY DEF R, OpToRel
  <1>4. ASSUME NEW y \in T PROVE x <= y
    <2>1. x \in Nat /\ y \in Nat
      OBVIOUS
    <2>2. ~(y < x)
      BY <1>2, <1>3, <2>1
    <2> QED
      BY <2>1, <2>2
  <1> QED
    BY <1>4

KeptAt(f, stack, d, i) ==
    IF i = 0 THEN <<>>
    ELSE LET before == f[i - 1]
         IN IF stack[i].doc = d THEN before ELSE Append(before, stack[i])

Fits(f, stack, d, n) == f = [i \in 0 .. n |-> KeptAt(f, stack, d, i)]

LEMMA KeptExists ==
    ASSUME NEW S, NEW stack \in Seq(S), NEW d
    PROVE  \E f : Fits(f, stack, d, Len(stack))
  <1> DEFINE T == {n \in 0 .. Len(stack) : ~(\E f : Fits(f, stack, d, n))}
  <1>a. Len(stack) \in Nat
    OBVIOUS
  <1>1. SUFFICES ASSUME T # {} PROVE FALSE
    BY <1>a
  <1>b. T \in SUBSET Nat
    BY <1>a
  <1>2. PICK m \in T : \A y \in T : m <= y
    <2> HIDE DEF T
    <2> QED
      BY <1>1, <1>b, LeastNumber
  <1>3. m # 0
    <2>1. Fits([i \in 0 .. 0 |-> <<>>], stack, d, 0)
      BY DEF KeptAt, Fits
    <2> QED
      BY <1>2, <2>1
  <1>4. m \in Nat /\ m - 1 \in 0 .. Len(stack) /\ m - 1 \notin T
    BY <1>a, <1>2, <1>3
  <1>5. PICK g : Fits(g, stack, d, m - 1)
    BY <1>4
  <1> DEFINE f == [i \in 0 .. m |-> IF i = m THEN KeptAt(g, stack, d, m) ELSE g[i]]
  <1>6. ASSUME NEW i \in 0 .. m PROVE f[i] = KeptAt(f, stack, d, i)
    <2>1. CASE i = 0
      BY <1>3, <1>4, <1>5, <2>1 DEF KeptAt, Fits
    <2>2. CASE i # 0
      <3>1. i - 1 \in 0 .. m - 1 /\ f[i - 1] = g[i - 1]
        BY <1>4, <2>2
      <3>2. KeptAt(f, stack, d, i) = KeptAt(g, stack, d, i)
        BY <2>2, <3>1 DEF KeptAt
      <3>3. CASE i = m
        BY <3>2, <3>3
      <3>4. CASE i # m
        <4>1. i \in 0 .. m - 1
          BY <1>4, <3>4
        <4>2. g[i] = KeptAt(g, stack, d, i)
          BY <1>5, <4>1 DEF Fits
        <4> QED
          BY <3>2, <3>4, <4>2
      <3> QED
        BY <3>3, <3>4
    <2> QED
      BY <2>1, <2>2
  <1>7. Fits(f, stack, d, m)
    BY <1>6 DEF Fits
  <1> QED
    BY <1>2, <1>7

(* The first n entries of other documents, each once, in order: where they  *)
(* stood.                                                                   *)
StoodAt(s, stack, d, n, at) ==
    /\ at \in [1 .. Len(s) -> 1 .. n]
    /\ \A k, l \in 1 .. Len(s) : k < l => at[k] < at[l]
    /\ \A k \in 1 .. Len(s) : s[k] = stack[at[k]] /\ stack[at[k]].doc # d
    /\ \A i \in 1 .. n : stack[i].doc # d => \E k \in 1 .. Len(s) : at[k] = i

OthersOf(s, S, stack, d, n) ==
    s \in Seq(S) /\ Len(s) <= n /\ \E at : StoodAt(s, stack, d, n, at)

LEMMA WithoutDocKeeps ==
    ASSUME NEW S, NEW stack \in Seq(S), NEW d
    PROVE  OthersOf(WithoutDoc(stack, d), S, stack, d, Len(stack))
  <1> DEFINE f == CHOOSE g : Fits(g, stack, d, Len(stack))
             Good(n) == OthersOf(f[n], S, stack, d, n)
             T == {n \in 0 .. Len(stack) : ~Good(n)}
  <1>a. Len(stack) \in Nat
    OBVIOUS
  <1>1. Fits(f, stack, d, Len(stack))
    BY KeptExists
  <1>2. WithoutDoc(stack, d) = f[Len(stack)]
    BY DEF WithoutDoc, KeptAt, Fits
  <1> HIDE DEF f
  <1>3. Good(0)
    <2>1. f[0] = <<>>
      BY <1>1, <1>a DEF KeptAt, Fits
    <2>2. StoodAt(<<>>, stack, d, 0, <<>>)
      BY DEF StoodAt
    <2> QED
      BY <2>1, <2>2 DEF OthersOf
  <1>4. T = {}
    <2> SUFFICES ASSUME T # {} PROVE FALSE
      OBVIOUS
    <2> HIDE DEF Good
    <2>a. T \in SUBSET Nat
      BY <1>a
    <2>1. PICK m \in T : \A y \in T : m <= y
      <3> HIDE DEF T
      <3> QED
        BY <2>a, LeastNumber
    <2>2. m # 0
      BY <1>3, <2>1
    <2>3. m \in Nat /\ m \in 1 .. Len(stack) /\ m - 1 \in 0 .. Len(stack) /\ m - 1 \notin T
      BY <1>a, <2>1, <2>2
    <2>4. Good(m - 1)
      BY <2>3
    <2> DEFINE s == f[m - 1]
               n == Len(s)
    <2>5. f[m] = IF stack[m].doc = d THEN s ELSE Append(s, stack[m])
      <3>1. f[m] = KeptAt(f, stack, d, m)
        BY <1>1, <2>3 DEF Fits
      <3> QED
        BY <2>2, <3>1 DEF KeptAt
    <2>6. s \in Seq(S) /\ n \in Nat /\ n <= m - 1
      BY <2>3, <2>4 DEF Good, OthersOf
    <2>7. PICK at : StoodAt(s, stack, d, m - 1, at)
      BY <2>4 DEF Good, OthersOf
    <2> HIDE DEF s
    <2>8. CASE stack[m].doc = d
      <3>1. \A i \in 1 .. m : i \in 1 .. m - 1 \/ i = m
        BY <2>3
      <3>2. at \in [1 .. n -> 1 .. m]
        BY <2>3, <2>7 DEF StoodAt
      <3>3. StoodAt(s, stack, d, m, at)
        BY <2>7, <2>8, <3>1, <3>2 DEF StoodAt
      <3>4. f[m] = s /\ n <= m
        BY <2>3, <2>5, <2>6, <2>8
      <3> QED
        BY <2>1, <2>6, <3>3, <3>4 DEF Good, OthersOf
    <2>9. CASE stack[m].doc # d
      <3> DEFINE new == Append(s, stack[m])
                 more == [k \in 1 .. n + 1 |-> IF k = n + 1 THEN m ELSE at[k]]
      <3>1. stack[m] \in S
        BY <2>3
      <3>2. /\ new \in Seq(S) /\ Len(new) = n + 1 /\ new[n + 1] = stack[m]
            /\ \A k \in 1 .. n : new[k] = s[k]
        BY <2>6, <3>1
      <3> HIDE DEF new
      <3>3. StoodAt(new, stack, d, m, more)
        <4>1. more \in [1 .. Len(new) -> 1 .. m]
          BY <2>3, <2>6, <2>7, <3>2 DEF StoodAt
        <4>2. ASSUME NEW k \in 1 .. Len(new), NEW l \in 1 .. Len(new), k < l
              PROVE  more[k] < more[l]
          <5>1. k \in 1 .. n /\ l \in 1 .. n + 1
            BY <2>6, <3>2, <4>2
          <5>a. more[k] = at[k] /\ at[k] \in 1 .. m - 1
            <6>1. at[k] \in 1 .. m - 1
              BY <2>7, <5>1 DEF StoodAt
            <6>2. k \in 1 .. n + 1 /\ k # n + 1
              BY <2>6, <5>1
            <6> QED
              BY <6>1, <6>2
          <5>2. CASE l = n + 1
            BY <2>3, <2>6, <5>1, <5>a, <5>2
          <5>3. CASE l # n + 1
            <6>1. l \in 1 .. n /\ more[l] = at[l]
              BY <2>6, <5>1, <5>3
            <6> QED
              BY <2>7, <4>2, <5>1, <5>a, <6>1 DEF StoodAt
          <5> QED
            BY <5>2, <5>3
        <4>3. ASSUME NEW k \in 1 .. Len(new)
              PROVE  new[k] = stack[more[k]] /\ stack[more[k]].doc # d
          <5>1. CASE k = n + 1
            BY <2>6, <2>9, <3>2, <5>1
          <5>2. CASE k # n + 1
            <6>1. k \in 1 .. n /\ more[k] = at[k]
              BY <2>6, <3>2, <5>2
            <6> QED
              BY <2>7, <3>2, <6>1 DEF StoodAt
          <5> QED
            BY <5>1, <5>2
        <4>4. ASSUME NEW i \in 1 .. m, stack[i].doc # d
              PROVE  \E k \in 1 .. Len(new) : more[k] = i
          <5>1. CASE i = m
            <6>1. n + 1 \in 1 .. Len(new) /\ more[n + 1] = m
              BY <2>6, <3>2
            <6> QED
              BY <5>1, <6>1
          <5>2. CASE i # m
            <6>1. i \in 1 .. m - 1
              BY <2>3, <5>2
            <6>2. PICK k \in 1 .. n : at[k] = i
              BY <2>7, <4>4, <6>1 DEF StoodAt
            <6>3. k \in 1 .. Len(new) /\ more[k] = at[k]
              BY <2>6, <3>2
            <6> QED
              BY <6>2, <6>3
          <5> QED
            BY <5>1, <5>2
        <4> HIDE DEF more
        <4> QED
          BY <4>1, <4>2, <4>3, <4>4 DEF StoodAt
      <3>4. Len(new) <= m /\ f[m] = new
        BY <2>3, <2>5, <2>6, <2>9, <3>2 DEF new
      <3>5. Good(m)
        BY <3>2, <3>3, <3>4 DEF Good, OthersOf
      <3> QED
        BY <2>1, <3>5
    <2> QED
      BY <2>8, <2>9
  <1> QED
    BY <1>a, <1>2, <1>4

-----------------------------------------------------------------------------
(* What becomes of a history that tells.                                    *)

LEMMA EntryTyped ==
    ASSUME NEW stack \in Seq(Entry), NEW i \in DOMAIN stack
    PROVE  /\ stack[i] \in Entry /\ stack[i].doc \in Docs /\ stack[i].previous \in Text
           /\ stack[i].edit \in Text
  <1>1. stack[i] \in Entry
    OBVIOUS
  <1> QED
    BY <1>1 DEF Entry, Text

LEMMA NothingTold ==
    ASSUME NEW texts, NEW base, NEW edits
    PROVE  Told(<<>>, texts, base, edits)
  BY DEF Told

(* A file that was saved or reverted: its entries go, the others still tell.*)
LEMMA ToldWithout ==
    ASSUME NEW stack \in Seq(Entry), NEW d, NEW texts, NEW others, NEW base, NEW edits,
           Told(stack, texts, base, edits),
           \A e \in Docs : e # d => others[e] = texts[e]
    PROVE  Told(WithoutDoc(stack, d), others, base, edits)
  <1> DEFINE new == WithoutDoc(stack, d)
  <1>1. PICK at : StoodAt(new, stack, d, Len(stack), at)
    BY WithoutDocKeeps DEF OthersOf
  <1>2. new \in Seq(Entry) /\ Len(new) \in Nat /\ Len(stack) \in Nat
    BY WithoutDocKeeps DEF OthersOf
  <1>3. DOMAIN new = 1 .. Len(new) /\ DOMAIN stack = 1 .. Len(stack)
    BY <1>2
  <1> HIDE DEF new
  <1>4. ASSUME NEW k \in DOMAIN new
        PROVE  /\ at[k] \in DOMAIN stack /\ new[k] = stack[at[k]] /\ new[k].doc # d
               /\ new[k].doc \in Docs
    <2>1. at[k] \in DOMAIN stack /\ new[k] = stack[at[k]] /\ new[k].doc # d
      BY <1>1, <1>3 DEF StoodAt
    <2>2. new[k] \in Entry
      BY <1>2, <1>3
    <2> QED
      BY <2>1, <2>2 DEF Entry
  <1>5. ASSUME NEW k \in DOMAIN new, NEW l \in DOMAIN new, at[k] < at[l]
        PROVE  k < l
    <2>1. ~(l < k)
      BY <1>1, <1>3, <1>4, <1>5 DEF StoodAt
    <2>2. l # k
      BY <1>3, <1>4, <1>5
    <2> QED
      BY <1>2, <1>3, <2>1, <2>2
  <1>6. ASSUME NEW k \in DOMAIN new, LastOf(new, k) PROVE LastOf(stack, at[k])
    <2> SUFFICES ASSUME NEW i \in DOMAIN stack, i > at[k], stack[i].doc = stack[at[k]].doc
                 PROVE  FALSE
      BY DEF LastOf
    <2>1. PICK l \in DOMAIN new : at[l] = i
      BY <1>1, <1>3, <1>4 DEF StoodAt
    <2>2. l > k
      BY <1>2, <1>3, <1>4, <1>5, <2>1
    <2> QED
      BY <1>4, <1>6, <2>1, <2>2 DEF LastOf
  <1>7. ASSUME NEW k \in DOMAIN new, NEW l \in DOMAIN new, Follows(new, k, l)
        PROVE  Follows(stack, at[k], at[l])
    <2>1. at[k] < at[l] /\ stack[at[k]].doc = stack[at[l]].doc
      BY <1>1, <1>3, <1>4, <1>7 DEF StoodAt, Follows
    <2> SUFFICES ASSUME NEW i \in DOMAIN stack, at[k] < i, i < at[l],
                        stack[i].doc = stack[at[k]].doc
                 PROVE  FALSE
      BY <2>1 DEF Follows
    <2>2. PICK m \in DOMAIN new : at[m] = i
      BY <1>1, <1>3, <1>4 DEF StoodAt
    <2>3. k < m /\ m < l
      BY <1>5, <2>2
    <2> QED
      BY <1>4, <1>7, <2>2, <2>3 DEF Follows
  <1>8. ASSUME NEW k \in DOMAIN new
        PROVE  EntryTold(new[k], base, edits) /\ TopTold(new, k, others)
    BY <1>4, <1>6 DEF Told, TopTold
  <1>9. ASSUME NEW k \in DOMAIN new, NEW l \in DOMAIN new PROVE ChainTold(new, k, l)
    BY <1>4, <1>7 DEF Told, ChainTold
  <1> QED
    BY <1>8, <1>9 DEF Told, new

(* The oldest entry may fall off.                                           *)
LEMMA ToldTail ==
    ASSUME NEW stack \in Seq(Entry), stack # <<>>, NEW texts, NEW base, NEW edits,
           Told(stack, texts, base, edits)
    PROVE  Told(Tail(stack), texts, base, edits)
  <1> DEFINE new == Tail(stack)
  <1>1. /\ new \in Seq(Entry) /\ Len(stack) \in Nat \ {0} /\ Len(new) = Len(stack) - 1
        /\ \A k \in 1 .. Len(new) : new[k] = stack[k + 1]
    OBVIOUS
  <1>2. DOMAIN new = 1 .. Len(new) /\ DOMAIN stack = 1 .. Len(stack)
    BY <1>1
  <1> HIDE DEF new
  <1>3. \A k \in DOMAIN new : k + 1 \in DOMAIN stack /\ new[k] = stack[k + 1]
    BY <1>1, <1>2
  <1>4. \A i \in DOMAIN stack : i > 1 => i - 1 \in DOMAIN new /\ new[i - 1] = stack[i]
    BY <1>1, <1>2
  <1>5. ASSUME NEW k \in DOMAIN new, LastOf(new, k) PROVE LastOf(stack, k + 1)
    <2> SUFFICES ASSUME NEW i \in DOMAIN stack, i > k + 1, stack[i].doc = stack[k + 1].doc
                 PROVE  FALSE
      BY DEF LastOf
    <2>1. i - 1 \in DOMAIN new /\ new[i - 1] = stack[i] /\ i - 1 > k
      BY <1>1, <1>2, <1>4
    <2> QED
      BY <1>3, <1>5, <2>1 DEF LastOf
  <1>6. ASSUME NEW k \in DOMAIN new, NEW l \in DOMAIN new, Follows(new, k, l)
        PROVE  Follows(stack, k + 1, l + 1)
    <2>1. k + 1 < l + 1 /\ stack[k + 1].doc = stack[l + 1].doc
      BY <1>1, <1>2, <1>3, <1>6 DEF Follows
    <2> SUFFICES ASSUME NEW i \in DOMAIN stack, k + 1 < i, i < l + 1,
                        stack[i].doc = stack[k + 1].doc
                 PROVE  FALSE
      BY <2>1 DEF Follows
    <2>2. i - 1 \in DOMAIN new /\ new[i - 1] = stack[i] /\ k < i - 1 /\ i - 1 < l
      BY <1>1, <1>2, <1>4
    <2> QED
      BY <1>3, <1>6, <2>2 DEF Follows
  <1>7. ASSUME NEW k \in DOMAIN new
        PROVE  EntryTold(new[k], base, edits) /\ TopTold(new, k, texts)
    BY <1>3, <1>5 DEF Told, TopTold
  <1>8. ASSUME NEW k \in DOMAIN new, NEW l \in DOMAIN new PROVE ChainTold(new, k, l)
    BY <1>3, <1>6 DEF Told, ChainTold
  <1> QED
    BY <1>7, <1>8 DEF Told, new

LEMMA Appended ==
    ASSUME NEW stack \in Seq(Entry), NEW entry \in Entry
    PROVE  /\ Append(stack, entry) \in Seq(Entry) /\ Len(stack) \in Nat
           /\ DOMAIN Append(stack, entry) = DOMAIN stack \cup {Len(stack) + 1}
           /\ DOMAIN stack = 1 .. Len(stack)
           /\ Append(stack, entry)[Len(stack) + 1] = entry
           /\ \A i \in DOMAIN stack : Append(stack, entry)[i] = stack[i]
  OBVIOUS

(* One more operation, made to the text that is there.                      *)
LEMMA ToldAppend ==
    ASSUME NEW stack \in Seq(Entry), NEW entry \in Entry,
           NEW texts, NEW later, NEW base, NEW edits,
           Told(stack, texts, base, edits), EntryTold(entry, base, edits),
           texts[entry.doc] # Absent => entry.hadPending /\ entry.previous = texts[entry.doc],
           \A i \in DOMAIN stack : texts[stack[i].doc] = After(stack[i]) => texts[stack[i].doc] # Absent,
           later[entry.doc] = After(entry),
           \A d \in Docs : d # entry.doc => later[d] = texts[d]
    PROVE  Told(Append(stack, entry), later, base, edits)
  <1> DEFINE new == Append(stack, entry)
             n == Len(stack) + 1
  <1>1. /\ n \in Nat /\ DOMAIN new = DOMAIN stack \cup {n} /\ DOMAIN stack = 1 .. n - 1
        /\ new[n] = entry /\ \A i \in DOMAIN stack : new[i] = stack[i] /\ i < n
    <2>1. Len(stack) \in Nat /\ n - 1 = Len(stack)
      BY Appended
    <2> QED
      BY Appended, <2>1
  <1>2. \A i \in DOMAIN stack : stack[i].doc \in Docs
    BY EntryTyped
  <1> HIDE DEF new, n
  <1>3. ASSUME NEW k \in DOMAIN new
        PROVE  EntryTold(new[k], base, edits) /\ TopTold(new, k, later)
    <2>1. CASE k = n
      BY <1>1, <2>1 DEF TopTold
    <2>2. CASE k \in DOMAIN stack
      <3>1. EntryTold(new[k], base, edits)
        BY <1>1, <2>2 DEF Told
      <3>2. ASSUME LastOf(new, k) PROVE later[new[k].doc] = After(new[k])
        <4>1. stack[k].doc # entry.doc
          BY <1>1, <2>2, <3>2 DEF LastOf
        <4>2. LastOf(stack, k)
          BY <1>1, <2>2, <3>2 DEF LastOf
        <4> QED
          BY <1>1, <1>2, <2>2, <4>1, <4>2 DEF Told, TopTold
      <3> QED
        BY <3>1, <3>2 DEF TopTold
    <2> QED
      BY <1>1, <2>1, <2>2
  <1>4. ASSUME NEW i \in DOMAIN new, NEW j \in DOMAIN new, Follows(new, i, j)
        PROVE  new[j].hadPending /\ new[j].previous = After(new[i])
    <2>1. i \in DOMAIN stack
      BY <1>1, <1>4 DEF Follows
    <2>2. CASE j = n
      <3>1. LastOf(stack, i) /\ stack[i].doc = entry.doc
        BY <1>1, <1>4, <2>1, <2>2 DEF Follows, LastOf
      <3>2. texts[entry.doc] = After(stack[i])
        BY <2>1, <3>1 DEF Told, TopTold
      <3> QED
        BY <1>1, <2>1, <2>2, <3>1, <3>2
    <2>3. CASE j \in DOMAIN stack
      <3>1. Follows(stack, i, j)
        BY <1>1, <1>4, <2>1, <2>3 DEF Follows
      <3> QED
        BY <1>1, <2>1, <2>3, <3>1 DEF Told, ChainTold
    <2> QED
      BY <1>1, <2>2, <2>3
  <1> QED
    BY <1>3, <1>4 DEF Told, ChainTold, new

(* The last operation, taken back.                                          *)
LEMMA ToldBefore ==
    ASSUME NEW stack \in Seq(Entry), NEW entry \in Entry,
           NEW texts, NEW before, NEW base, NEW edits,
           Told(Append(stack, entry), texts, base, edits),
           before[entry.doc] = IF entry.hadPending THEN entry.previous ELSE Absent,
           \A d \in Docs : d # entry.doc => before[d] = texts[d]
    PROVE  Told(stack, before, base, edits)
  <1> DEFINE new == Append(stack, entry)
             n == Len(stack) + 1
  <1>1. /\ n \in Nat /\ DOMAIN new = DOMAIN stack \cup {n} /\ DOMAIN stack = 1 .. n - 1
        /\ new[n] = entry /\ \A i \in DOMAIN stack : new[i] = stack[i] /\ i < n
    <2>1. Len(stack) \in Nat /\ n - 1 = Len(stack)
      BY Appended
    <2> QED
      BY Appended, <2>1
  <1>2. \A i \in DOMAIN stack : stack[i].doc \in Docs
    BY EntryTyped
  <1>3. Told(new, texts, base, edits)
    OBVIOUS
  <1> HIDE DEF new, n
  <1>4. ASSUME NEW k \in DOMAIN stack, LastOf(stack, k)
        PROVE  before[stack[k].doc] = After(stack[k])
    <2>1. CASE stack[k].doc = entry.doc
      <3>1. Follows(new, k, n)
        BY <1>1, <1>4, <2>1 DEF Follows, LastOf
      <3>2. entry.hadPending /\ entry.previous = After(stack[k])
        BY <1>1, <1>3, <3>1 DEF Told, ChainTold
      <3> QED
        BY <2>1, <3>2
    <2>2. CASE stack[k].doc # entry.doc
      <3>1. LastOf(new, k)
        BY <1>1, <1>4, <2>2 DEF LastOf
      <3>2. texts[stack[k].doc] = After(stack[k])
        BY <1>1, <1>3, <3>1 DEF Told, TopTold
      <3> QED
        BY <1>2, <2>2, <3>2
    <2> QED
      BY <2>1, <2>2
  <1>5. ASSUME NEW i \in DOMAIN stack, NEW j \in DOMAIN stack, Follows(stack, i, j)
        PROVE  stack[j].hadPending /\ stack[j].previous = After(stack[i])
    <2>1. ~(n < j)
      BY <1>1
    <2>2. Follows(new, i, j)
      BY <1>1, <1>5, <2>1 DEF Follows
    <2> QED
      BY <1>1, <1>3, <2>2 DEF Told, ChainTold
  <1>6. ASSUME NEW k \in DOMAIN stack PROVE EntryTold(stack[k], base, edits)
    BY <1>1, <1>3 DEF Told
  <1> QED
    BY <1>4, <1>5, <1>6 DEF Told, TopTold, ChainTold

-----------------------------------------------------------------------------
(* Types.                                                                   *)

LEMMA NothingTyped == NoEntry \in Entry /\ NoCall \in Call
  <1>1. NoEntry \in Entry /\ NoEntry.doc \in Docs
    BY DEF NoEntry, Entry, Text
  <1>2. (CHOOSE p \in Pages : TRUE) \in Pages
    OBVIOUS
  <1>3. {} \in Text /\ Absent \in Row
    BY DEF Text, Row
  <1> HIDE DEF NoEntry
  <1>4. NoCall \in Call
    BY <1>1, <1>2, <1>3 DEF NoCall, Call
  <1> QED
    BY <1>1, <1>4

(* What a gesture that calls leaves.                                        *)
LEMMA SentCall ==
    ASSUME TypeOK, NEW c \in Calls, NEW p \in Pages, NEW kind \in Kinds, NEW doc \in Docs,
           NEW text \in Text, NEW to \in Branches, NEW entry \in Entry,
           Send(c, p, kind, doc, text, to, entry)
    PROVE  /\ call' \in [Calls -> Call]
           /\ \A e \in Calls \ {c} : call'[e] = call[e]
           /\ call'[c].pc = "sent" /\ call'[c].kind = kind /\ call'[c].page = p
           /\ call'[c].doc = doc /\ call'[c].text = text /\ call'[c].to = to
           /\ call'[c].entry = entry /\ call'[c].ok = TRUE
           /\ kind \in Does[p] /\ call[c].pc = "idle"
           /\ Patient => InFlight(p) = {}
  <1> DEFINE new == [NoCall EXCEPT !.kind = kind, !.pc = "sent", !.page = p, !.doc = doc,
                                   !.text = text, !.to = to, !.entry = entry]
  <1>1. call' = [call EXCEPT ![c] = new]
    BY DEF Send
  <1>2. call \in [Calls -> Call]
    BY DEF TypeOK
  <1>3. NoCall \in Call /\ NoCall.ok = TRUE
    BY NothingTyped DEF NoCall
  <1>4. /\ new \in Call /\ new.pc = "sent" /\ new.kind = kind /\ new.page = p
        /\ new.doc = doc /\ new.text = text /\ new.to = to /\ new.entry = entry
        /\ new.ok = TRUE
    <2> HIDE DEF NoCall
    <2> QED
      BY <1>3 DEF Call
  <1> HIDE DEF new
  <1>5. call'[c] = new /\ \A e \in Calls \ {c} : call'[e] = call[e]
    BY <1>1, <1>2
  <1>6. call' \in [Calls -> Call]
    BY <1>1, <1>2, <1>4
  <1> QED
    BY <1>4, <1>5, <1>6 DEF Send

(* What an answer leaves.                                                   *)
LEMMA AnsweredCall ==
    ASSUME TypeOK, NEW c \in Calls, NEW ok \in BOOLEAN, Answer(c, ok)
    PROVE  /\ call' \in [Calls -> Call]
           /\ \A e \in Calls \ {c} : call'[e] = call[e]
           /\ call'[c].pc = "answered" /\ call'[c].ok = ok
           /\ call'[c].kind = call[c].kind /\ call'[c].page = call[c].page
           /\ call'[c].doc = call[c].doc /\ call'[c].text = call[c].text
           /\ call'[c].entry = call[c].entry
  <1> DEFINE new == [call[c] EXCEPT !.pc = "answered", !.ok = ok]
  <1>1. call \in [Calls -> Call] /\ call[c] \in Call
    BY DEF TypeOK
  <1>2. call' = [call EXCEPT ![c] = new]
    BY DEF Answer
  <1>3. /\ new \in Call /\ new.pc = "answered" /\ new.ok = ok /\ new.kind = call[c].kind
        /\ new.page = call[c].page /\ new.doc = call[c].doc /\ new.text = call[c].text
        /\ new.entry = call[c].entry
    BY <1>1 DEF Call
  <1> HIDE DEF new
  <1> QED
    BY <1>1, <1>2, <1>3

LEMMA CallTyped ==
    ASSUME TypeOK, NEW c \in Calls
    PROVE  /\ call \in [Calls -> Call] /\ call[c] \in Call
           /\ call[c].kind \in Kinds \cup {"none"} /\ call[c].page \in Pages
           /\ call[c].doc \in Docs /\ call[c].text \in Text /\ call[c].to \in Branches
           /\ call[c].branch \in Branches /\ call[c].base \in Text /\ call[c].seen \in Row
           /\ call[c].entry \in Entry /\ call[c].ok \in BOOLEAN
           /\ call[c].entry.doc \in Docs /\ call[c].entry.previous \in Text
           /\ call[c].pc \in {"idle", "sent", "routed", "listed", "answered"}
  <1>1. call \in [Calls -> Call] /\ call[c] \in Call
    BY DEF TypeOK
  <1>2. /\ call[c].kind \in Kinds \cup {"none"} /\ call[c].page \in Pages
        /\ call[c].doc \in Docs /\ call[c].text \in Text /\ call[c].to \in Branches
        /\ call[c].branch \in Branches /\ call[c].base \in Text /\ call[c].seen \in Row
        /\ call[c].entry \in Entry /\ call[c].ok \in BOOLEAN
        /\ call[c].pc \in {"idle", "sent", "routed", "listed", "answered"}
    BY <1>1 DEF Call
  <1>3. call[c].entry.doc \in Docs /\ call[c].entry.previous \in Text
    BY <1>2 DEF Entry
  <1> QED
    BY <1>1, <1>2, <1>3

(* The state beside the calls.                                              *)
LEMMA RestTyped ==
    ASSUME TypeOK
    PROVE  /\ current \in Branches /\ head \in [Branches -> [Docs -> Text]]
           /\ rows \in [Branches -> [Docs -> Row]]
           /\ tab \in [Pages -> [Docs -> Row]] /\ made \subseteq Edits
           /\ undo \in [Pages -> Seq(Entry)]
           /\ \A b \in Branches, d \in Docs : TextOf(b, d) \in Text
  <1>1. ASSUME NEW b \in Branches, NEW d \in Docs PROVE TextOf(b, d) \in Text
    BY DEF TypeOK, TextOf, Over, Row
  <1> QED
    BY <1>1 DEF TypeOK

LEMMA Unchanging ==
    ASSUME TypeOK, call' \in [Calls -> Call], current' \in Branches,
           head' \in [Branches -> [Docs -> Text]], rows' \in [Branches -> [Docs -> Row]],
           tab' \in [Pages -> [Docs -> Row]], made' \subseteq Edits,
           undo' \in [Pages -> Seq(Entry)], \A p \in Pages : Len(undo'[p]) <= UNDO_LIMIT
    PROVE  TypeOK'
  BY DEF TypeOK

LEMMA GestureTypeOK ==
    ASSUME TypeOK, Gesture
    PROVE  TypeOK'
  <1> USE DEF Kinds
  <1>a. undo \in [Pages -> Seq(Entry)] /\ \A p \in Pages : Len(undo[p]) <= UNDO_LIMIT
    BY DEF TypeOK
  <1>b. NoEntry \in Entry /\ NoEntry.doc \in Docs
    BY NothingTyped DEF Entry
  <1>c. {} \in Text /\ Main \in Branches
    BY DEF Text
  <1>1. PICK c \in Calls, p \in Pages :
        \/ \E d \in Docs, e \in Edits :
              SendOp(c, p, d, e) \/ SendSave(c, p, d, e) \/ SendLift(c, p, d, e)
        \/ \E d \in Docs : SendDiscard(c, p, d) \/ OpenTab(p, d)
        \/ \E d \in Docs, e \in Edits : SendSync(c, p, d, {e}) \/ SendSync(c, p, d, {})
        \/ SendUndo(c, p)
        \/ \E b \in Branches : SendGit(c, p, "switch", b)
        \/ SendGit(c, p, "commit", Main)
    BY DEF Gesture
  <1>2. ASSUME NEW kind \in Kinds, NEW doc \in Docs, NEW text \in Text, NEW to \in Branches,
               NEW entry \in Entry, Send(c, p, kind, doc, text, to, entry),
               UNCHANGED <<current, head, rows, tab>>, made' \subseteq Edits,
               undo' \in [Pages -> Seq(Entry)], \A q \in Pages : Len(undo'[q]) <= UNDO_LIMIT
        PROVE  TypeOK'
    <2> HIDE DEF Kinds
    <2>1. call' \in [Calls -> Call]
      BY <1>2, SentCall
    <2> QED
      BY <1>2, <2>1, RestTyped, Unchanging
  <1>3. ASSUME NEW d \in Docs, NEW e \in Edits, SendOp(c, p, d, e) PROVE TypeOK'
    <2>1. {e} \in Text /\ made' \subseteq Edits
      BY <1>3, RestTyped DEF Text, SendOp
    <2> QED
      BY <1>a, <1>b, <1>2, <1>3, <2>1 DEF SendOp
  <1>4. ASSUME NEW d \in Docs, NEW e \in Edits, SendSave(c, p, d, e) PROVE TypeOK'
    <2>1. tab[p][d] \cup {e} \in Text /\ made' \subseteq Edits
      BY <1>4, RestTyped DEF Text, SendSave, Row
    <2> QED
      BY <1>a, <1>b, <1>2, <1>4, <2>1 DEF SendSave
  <1>5. ASSUME NEW d \in Docs, NEW e \in Edits, SendLift(c, p, d, e) PROVE TypeOK'
    <2>1. {e} \in Text /\ made' \subseteq Edits
      BY <1>5, RestTyped DEF Text, SendLift
    <2> QED
      BY <1>a, <1>b, <1>2, <1>5, <2>1 DEF SendLift
  <1>6. ASSUME NEW d \in Docs, NEW found \in SUBSET Edits, SendSync(c, p, d, found) PROVE TypeOK'
    <2>1. found \in Text /\ made' \subseteq Edits
      BY <1>6, RestTyped DEF Text, SendSync
    <2> QED
      BY <1>a, <1>b, <1>2, <1>6, <2>1 DEF SendSync
  <1>7. ASSUME NEW d \in Docs, SendDiscard(c, p, d) PROVE TypeOK'
    BY <1>a, <1>b, <1>c, <1>2, <1>7, RestTyped DEF SendDiscard
  <1>8. ASSUME NEW kind \in {"commit", "switch"}, NEW to \in Branches, SendGit(c, p, kind, to)
        PROVE  TypeOK'
    <2>1. /\ Send(c, p, kind, NoEntry.doc, {}, to, NoEntry)
          /\ UNCHANGED <<current, head, rows, undo, tab, made>>
      BY <1>8 DEF SendGit
    <2>2. kind \in Kinds /\ made' \subseteq Edits
      BY <1>8, <2>1, RestTyped
    <2> HIDE DEF Kinds, NoEntry
    <2> QED
      BY <1>a, <1>b, <1>c, <1>2, <2>1, <2>2
  <1>9. CASE SendUndo(c, p)
    <2>1. undo[p] \in Seq(Entry) /\ undo[p] # <<>> /\ Len(undo[p]) <= UNDO_LIMIT
      BY <1>9, <1>a DEF SendUndo
    <2>a. UNDO_LIMIT \in Nat
      OBVIOUS
    <2>2. Last(undo[p]) \in Entry /\ Last(undo[p]).doc \in Docs
      BY <2>1, EntryTyped DEF Last
    <2>3. /\ Front(undo[p]) \in Seq(Entry) /\ Len(Front(undo[p])) = Len(undo[p]) - 1
          /\ Len(undo[p]) \in Nat
      BY <2>1 DEF Front
    <2>4. Len(Front(undo[p])) <= UNDO_LIMIT
      BY <2>1, <2>3, <2>a
    <2>5. undo' = [undo EXCEPT ![p] = Front(undo[p])]
      BY <1>9 DEF SendUndo
    <2>6. undo' \in [Pages -> Seq(Entry)] /\ \A q \in Pages : Len(undo'[q]) <= UNDO_LIMIT
      BY <1>a, <2>3, <2>4, <2>5
    <2>7. /\ Send(c, p, "undo", Last(undo[p]).doc, {}, Main, Last(undo[p]))
          /\ UNCHANGED <<current, head, rows, tab>> /\ made' = made
      BY <1>9 DEF SendUndo
    <2>8. made' \subseteq Edits /\ "undo" \in Kinds
      BY <2>7, RestTyped
    <2> QED
      BY <1>c, <1>2, <2>2, <2>6, <2>7, <2>8
  <1>10. ASSUME NEW d \in Docs, OpenTab(p, d) PROVE TypeOK'
    <2>1. tab' \in [Pages -> [Docs -> Row]]
      BY <1>10, RestTyped DEF OpenTab, Row
    <2> QED
      BY <1>a, <1>10, <2>1, RestTyped, Unchanging DEF OpenTab, TypeOK
  <1>11. \A e \in Edits : {e} \in SUBSET Edits /\ {} \in SUBSET Edits
    OBVIOUS
  <1> QED
    BY <1>1, <1>3, <1>4, <1>5, <1>6, <1>7, <1>8, <1>9, <1>10, <1>11

(* A pending row is written; nothing else but the call changes.             *)
LEMMA RowsTyped ==
    ASSUME TypeOK, NEW c \in Calls, NEW text \in Row,
           rows' = [rows EXCEPT ![call[c].branch][call[c].doc] = text]
    PROVE  rows' \in [Branches -> [Docs -> Row]]
  BY CallTyped, RestTyped

LEMMA WrittenTypeOK ==
    ASSUME TypeOK, NEW c \in Calls, NEW text \in Row, Write(c, text)
    PROVE  TypeOK'
  <1>1. rows' \in [Branches -> [Docs -> Row]]
    BY RowsTyped DEF Write
  <1>2. call' \in [Calls -> Call]
    <2>1. PICK ok \in BOOLEAN : Answer(c, ok)
      BY DEF Write
    <2> QED
      BY <2>1, AnsweredCall
  <1> QED
    BY <1>1, <1>2, RestTyped, Unchanging DEF Write, TypeOK

(* The answer to an operation carries its entry.                            *)
LEMMA AppliedCall ==
    ASSUME TypeOK, NEW c \in Calls, Apply(c)
    PROVE  LET text == Over(call[c].base, call[c].seen)
               entry == [doc |-> call[c].doc, previous |-> text,
                         hadPending |-> call[c].seen # Absent, edit |-> call[c].text]
           IN /\ call' \in [Calls -> Call] /\ entry \in Entry /\ text \in Text
              /\ \A e \in Calls \ {c} : call'[e] = call[e]
              /\ call'[c].pc = "answered" /\ call'[c].entry = entry
              /\ call'[c].kind = call[c].kind /\ call'[c].page = call[c].page
              /\ call'[c].doc = call[c].doc /\ call'[c].text = call[c].text
              /\ Faults \subseteq {"refused"} => call'[c].ok = TRUE
  <1> DEFINE text == Over(call[c].base, call[c].seen)
             entry == [doc |-> call[c].doc, previous |-> text,
                       hadPending |-> call[c].seen # Absent, edit |-> call[c].text]
  <1>1. text \in Text
    BY CallTyped DEF Over, Row
  <1>2. entry \in Entry
    BY <1>1, CallTyped DEF Entry, Text
  <1>3. PICK ok \in {TRUE} \cup (IF "lostAnswer" \in Faults THEN {FALSE} ELSE {}) :
             call' = [call EXCEPT ![c].pc = "answered", ![c].ok = ok, ![c].entry = entry]
    BY DEF Apply
  <1> DEFINE new == [call[c] EXCEPT !.pc = "answered", !.ok = ok, !.entry = entry]
  <1> HIDE DEF entry
  <1>4. ok \in BOOLEAN /\ (Faults \subseteq {"refused"} => ok = TRUE)
    BY <1>3
  <1>5. call' = [call EXCEPT ![c] = new]
    BY <1>3, CallTyped
  <1>6. /\ new \in Call /\ new.pc = "answered" /\ new.ok = ok /\ new.kind = call[c].kind
        /\ new.page = call[c].page /\ new.doc = call[c].doc /\ new.text = call[c].text
        /\ new.entry = entry
    BY <1>2, <1>4, CallTyped DEF Call
  <1> HIDE DEF new
  <1>7. call'[c] = new /\ (\A e \in Calls \ {c} : call'[e] = call[e]) /\ call' \in [Calls -> Call]
    BY <1>5, <1>6, CallTyped
  <1> QED
    BY <1>1, <1>2, <1>4, <1>6, <1>7 DEF entry

(* What getProject and listPending return goes into the call.               *)
LEMMA RoutedCall ==
    ASSUME TypeOK, NEW c \in Calls, Route(c)
    PROVE  /\ call' \in [Calls -> Call]
           /\ \A e \in Calls \ {c} : call'[e] = call[e]
           /\ call'[c].pc = "routed" /\ call'[c].branch = current
           /\ call'[c].base = head[current][call[c].doc]
           /\ call'[c].kind = call[c].kind /\ call'[c].page = call[c].page
           /\ call'[c].doc = call[c].doc /\ call'[c].text = call[c].text
           /\ call'[c].entry = call[c].entry /\ call'[c].ok = call[c].ok
  <1> DEFINE base == head[current][call[c].doc]
             new == [call[c] EXCEPT !.pc = "routed", !.branch = current, !.base = base]
  <1>1. base \in Text /\ current \in Branches
    BY CallTyped, RestTyped
  <1>2. call' = [call EXCEPT ![c] = new]
    BY CallTyped DEF Route
  <1> HIDE DEF base
  <1>3. /\ new \in Call /\ new.pc = "routed" /\ new.branch = current /\ new.base = base
        /\ new.kind = call[c].kind /\ new.page = call[c].page /\ new.doc = call[c].doc
        /\ new.text = call[c].text /\ new.entry = call[c].entry /\ new.ok = call[c].ok
    BY <1>1, CallTyped DEF Call
  <1> HIDE DEF new
  <1> QED
    BY <1>2, <1>3, CallTyped DEF base

LEMMA ListedCall ==
    ASSUME TypeOK, NEW c \in Calls, List(c)
    PROVE  /\ call' \in [Calls -> Call]
           /\ \A e \in Calls \ {c} : call'[e] = call[e]
           /\ call'[c].pc = "listed" /\ call'[c].branch = call[c].branch
           /\ call'[c].base = call[c].base /\ call'[c].ok = call[c].ok
           /\ call'[c].seen = rows[call[c].branch][call[c].doc]
           /\ call'[c].kind = call[c].kind /\ call'[c].page = call[c].page
           /\ call'[c].doc = call[c].doc /\ call'[c].text = call[c].text
           /\ call'[c].entry = call[c].entry
  <1> DEFINE seen == rows[call[c].branch][call[c].doc]
             new == [call[c] EXCEPT !.pc = "listed", !.seen = seen]
  <1>1. seen \in Row
    BY CallTyped, RestTyped
  <1>2. call' = [call EXCEPT ![c] = new]
    BY CallTyped DEF List
  <1> HIDE DEF seen
  <1>3. /\ new \in Call /\ new.pc = "listed" /\ new.branch = call[c].branch
        /\ new.base = call[c].base /\ new.ok = call[c].ok /\ new.seen = seen
        /\ new.kind = call[c].kind /\ new.page = call[c].page /\ new.doc = call[c].doc
        /\ new.text = call[c].text /\ new.entry = call[c].entry
    BY <1>1, CallTyped DEF Call
  <1> HIDE DEF new
  <1> QED
    BY <1>2, <1>3, CallTyped DEF seen

(* The history stays one, within its limit.                                 *)
LEMMA HistoryTyped ==
    ASSUME TypeOK, NEW c \in Calls
    PROVE  HistoryAfter(call[c]) \in Seq(Entry) /\ Len(HistoryAfter(call[c])) <= UNDO_LIMIT
  <1> DEFINE q == call[c]
             stack == undo[q.page]
  <1>1. /\ stack \in Seq(Entry) /\ Len(stack) <= UNDO_LIMIT /\ q.entry \in Entry
        /\ UNDO_LIMIT \in Nat \ {0} /\ Len(stack) \in Nat
    BY CallTyped DEF TypeOK
  <1> HIDE DEF stack
  <1>2. /\ Remembered(stack, q.entry) \in Seq(Entry)
        /\ Len(Remembered(stack, q.entry)) <= UNDO_LIMIT
    <2>1. CASE Len(stack) < UNDO_LIMIT
      <3>1. Append(stack, q.entry) \in Seq(Entry) /\ Len(Append(stack, q.entry)) = Len(stack) + 1
        BY <1>1
      <3> QED
        BY <1>1, <2>1, <3>1 DEF Remembered
    <2>2. CASE ~(Len(stack) < UNDO_LIMIT)
      <3>1. Len(stack) = UNDO_LIMIT /\ stack # <<>>
        BY <1>1, <2>2
      <3>2. Tail(stack) \in Seq(Entry) /\ Len(Tail(stack)) = Len(stack) - 1
        BY <1>1, <3>1
      <3>3. /\ Append(Tail(stack), q.entry) \in Seq(Entry)
            /\ Len(Append(Tail(stack), q.entry)) = Len(Tail(stack)) + 1
        BY <1>1, <3>2
      <3> QED
        BY <1>1, <2>2, <3>1, <3>2, <3>3 DEF Remembered
    <2> QED
      BY <2>1, <2>2
  <1>3. WithoutDoc(stack, q.doc) \in Seq(Entry) /\ Len(WithoutDoc(stack, q.doc)) <= UNDO_LIMIT
    <2>1. /\ WithoutDoc(stack, q.doc) \in Seq(Entry)
          /\ Len(WithoutDoc(stack, q.doc)) <= Len(stack)
      BY <1>1, WithoutDocKeeps DEF OthersOf
    <2>2. Len(WithoutDoc(stack, q.doc)) \in Nat
      BY <2>1
    <2> QED
      BY <1>1, <2>1, <2>2
  <1>4. <<>> \in Seq(Entry) /\ Len(<<>>) <= UNDO_LIMIT
    BY <1>1
  <1> QED
    BY <1>1, <1>2, <1>3, <1>4 DEF HistoryAfter, stack

LEMMA HandlerTypeOK ==
    ASSUME TypeOK, NEW c \in Calls,
           \/ Route(c) \/ List(c) \/ Apply(c) \/ Undo(c) \/ Save(c) \/ Discard(c)
           \/ Commit(c) \/ Switch(c) \/ Sync(c) \/ Refuse(c) \/ Receive(c)
    PROVE  TypeOK'
  <1>a. undo \in [Pages -> Seq(Entry)] /\ \A p \in Pages : Len(undo[p]) <= UNDO_LIMIT
    BY DEF TypeOK
  <1>b. Absent \in Row /\ Text \subseteq Row
    BY DEF Row
  <1>1. CASE Route(c)
    BY <1>1, <1>a, RoutedCall, RestTyped, Unchanging DEF Route
  <1>2. CASE List(c)
    BY <1>2, <1>a, ListedCall, RestTyped, Unchanging DEF List
  <1>3. CASE Apply(c)
    <2>1. call' \in [Calls -> Call] /\ Over(call[c].base, call[c].seen) \in Text
      BY <1>3, AppliedCall
    <2>2. Over(call[c].base, call[c].seen) \cup call[c].text \in Row
      BY <1>b, <2>1, CallTyped DEF Text
    <2>3. rows' \in [Branches -> [Docs -> Row]]
      BY <1>3, <2>2, RowsTyped DEF Apply
    <2> QED
      BY <1>3, <1>a, <2>1, <2>3, RestTyped, Unchanging DEF Apply
  <1>4. CASE Undo(c)
    <2>1. (IF call[c].entry.hadPending THEN call[c].entry.previous ELSE Absent) \in Row
      BY <1>b, CallTyped
    <2> QED
      BY <1>4, <2>1, WrittenTypeOK DEF Undo
  <1>5. CASE Save(c)
    BY <1>5, <1>b, CallTyped, WrittenTypeOK DEF Save
  <1>6. CASE Discard(c)
    BY <1>6, <1>b, WrittenTypeOK DEF Discard
  <1>7. CASE Commit(c)
    <2>1. head' \in [Branches -> [Docs -> Text]] /\ rows' \in [Branches -> [Docs -> Row]]
      BY <1>7, <1>b, CallTyped, RestTyped DEF Commit
    <2>2. call' \in [Calls -> Call]
      BY <1>7, AnsweredCall DEF Commit
    <2> QED
      BY <1>7, <1>a, <2>1, <2>2, RestTyped, Unchanging DEF Commit
  <1>8. CASE Switch(c)
    BY <1>8, <1>a, CallTyped, AnsweredCall, RestTyped, Unchanging DEF Switch
  <1>9. CASE Sync(c)
    <2>1. head' \in [Branches -> [Docs -> Text]]
      BY <1>9, CallTyped, RestTyped DEF Sync, Text
    <2> QED
      BY <1>9, <1>a, <2>1, AnsweredCall, RestTyped, Unchanging DEF Sync
  <1>10. CASE Refuse(c)
    BY <1>10, <1>a, AnsweredCall, RestTyped, Unchanging DEF Refuse
  <1>11. CASE Receive(c)
    <2>1. call' \in [Calls -> Call]
      BY <1>11, NothingTyped, CallTyped DEF Receive
    <2>2. tab' \in [Pages -> [Docs -> Row]]
      BY <1>11, <1>b, CallTyped, RestTyped DEF Receive
    <2>3. undo' = [undo EXCEPT ![call[c].page] = HistoryAfter(call[c])]
      BY <1>11 DEF Receive
    <2>4. undo' \in [Pages -> Seq(Entry)] /\ \A p \in Pages : Len(undo'[p]) <= UNDO_LIMIT
      BY <1>a, <2>3, HistoryTyped DEF TypeOK
    <2> QED
      BY <1>11, <2>1, <2>2, <2>4, RestTyped, Unchanging DEF Receive
  <1> QED
    BY <1>1, <1>2, <1>3, <1>4, <1>5, <1>6, <1>7, <1>8, <1>9, <1>10, <1>11

LEMMA InitTypeOK == Init => TypeOK
  BY NothingTyped DEF Init, TypeOK, Text, Row

LEMMA NextTypeOK == TypeOK /\ [Next]_vars => TypeOK'
  <1>1. TypeOK /\ UNCHANGED vars => TypeOK'
    BY DEF TypeOK, vars
  <1> QED
    BY <1>1, GestureTypeOK, HandlerTypeOK DEF Next, Handler

(* Every variable keeps its type, for any number of pages and calls.        *)
THEOREM EditingTypesStay == Spec => []TypeOK
  BY InitTypeOK, NextTypeOK, PTL DEF Spec

-----------------------------------------------------------------------------
(* The history keeps telling.                                               *)

LEMMA ToldMore ==
    ASSUME NEW stack, NEW texts, NEW base, NEW edits, NEW more,
           Told(stack, texts, base, edits), edits \subseteq more
    PROVE  Told(stack, texts, base, more)
  BY DEF Told, EntryTold

LEMMA NoneFlying ==
    ASSUME OnePatientAuthor, TypeOK, NEW p \in Pages, InFlight(p) = {}
    PROVE  \A c \in Calls : ~Flying(c)
  BY CallTyped DEF OnePatientAuthor, InFlight, Flying

LEMMA OnlyThis ==
    ASSUME NEW c \in Calls, \A e \in Calls \ {c} : call'[e].pc = "idle",
           call'[c].pc # "idle", CallIsSo(call[c])', CallTells(call[c])'
    PROVE  CallsAreAlone' /\ HistoryTells'
  BY DEF CallsAreAlone, HistoryTells, Flying

(* A gesture that calls, while nothing is under way.                        *)
LEMMA Sending ==
    ASSUME OnePatientAuthor, HistoryInv, TypeOK',
           NEW c \in Calls, NEW p \in Pages, NEW kind \in Kinds, NEW doc \in Docs,
           NEW text \in Text, NEW to \in Branches, NEW entry \in Entry,
           Send(c, p, kind, doc, text, to, entry), UNCHANGED <<current, head, rows, tab>>,
           made \subseteq made', text \subseteq made',
           kind = "op" => text \cap made = {},
           IF kind = "undo" THEN doc = entry.doc /\ undo[p] = Append(undo'[p], entry)
                            ELSE undo'[p] = undo[p]
    PROVE  HistoryInv'
  <1>1. TypeOK /\ TextsAreMade /\ CallsAreAlone /\ HistoryTells
    BY DEF HistoryInv
  <1>2. /\ \A e \in Calls \ {c} : call'[e] = call[e]
        /\ call'[c].pc = "sent" /\ call'[c].kind = kind /\ call'[c].page = p
        /\ call'[c].doc = doc /\ call'[c].text = text
        /\ call'[c].entry = entry /\ call'[c].ok = TRUE
        /\ kind \in Does[p] /\ InFlight(p) = {}
    <2>1. Patient
      BY DEF OnePatientAuthor
    <2>2. TypeOK
      BY <1>1
    <2>3. /\ call' \in [Calls -> Call]
          /\ \A e \in Calls \ {c} : call'[e] = call[e]
          /\ call'[c].pc = "sent" /\ call'[c].kind = kind /\ call'[c].page = p
          /\ call'[c].doc = doc /\ call'[c].text = text /\ call'[c].to = to
          /\ call'[c].entry = entry /\ call'[c].ok = TRUE
          /\ kind \in Does[p] /\ call[c].pc = "idle"
          /\ Patient => InFlight(p) = {}
      BY <2>2, SentCall
    <2> QED
      BY <2>1, <2>3
  <1>3. \A e \in Calls : ~Flying(e)
    BY <1>1, <1>2, NoneFlying
  <1>4. TellsNow(undo[p])
    BY <1>1, <1>3 DEF HistoryTells
  <1>5. TextsAreMade'
    <2>1. \A e \in Calls : call'[e].text \subseteq made'
      BY <1>1, <1>2 DEF TextsAreMade
    <2>2. ASSUME NEW b \in Branches, NEW d \in Docs
          PROVE  /\ head'[b][d] \subseteq made'
                 /\ rows'[b][d] # Absent => rows'[b][d] \subseteq made'
      BY <1>1 DEF TextsAreMade
    <2>3. ASSUME NEW q \in Pages, NEW d \in Docs
          PROVE  tab'[q][d] # Absent => tab'[q][d] \subseteq made'
      BY <1>1 DEF TextsAreMade
    <2> QED
      BY <2>1, <2>2, <2>3 DEF TextsAreMade
  <1>6. CallIsSo(call[c])'
    <2>1. kind = "op" => /\ text \cap head[current][doc] = {}
                         /\ rows[current][doc] = Absent \/ text \cap rows[current][doc] = {}
      BY <1>1, RestTyped DEF TextsAreMade
    <2> QED
      BY <1>2, <2>1 DEF CallIsSo
  <1>7. CallTells(call[c])'
    <2>1. Told(undo[p], rows'[current'], head'[current'], made')
      BY <1>4, ToldMore DEF TellsNow
    <2> QED
      BY <1>2, <2>1 DEF CallTells, TellsNow
  <1>8. \A e \in Calls \ {c} : call'[e].pc = "idle"
    BY <1>2, <1>3 DEF Flying
  <1>9. CallsAreAlone' /\ HistoryTells'
    BY <1>2, <1>6, <1>7, <1>8, OnlyThis
  <1> QED
    BY <1>5, <1>9 DEF HistoryInv

LEMMA GestureTells ==
    ASSUME OnePatientAuthor, HistoryInv, Gesture
    PROVE  HistoryInv'
  <1>a. TypeOK /\ TextsAreMade /\ TypeOK'
    BY GestureTypeOK DEF HistoryInv
  <1>b. NoEntry \in Entry /\ NoEntry.doc \in Docs
    BY NothingTyped DEF Entry
  <1>c. {} \in Text /\ Main \in Branches
    BY DEF Text
  <1>1. PICK c \in Calls, p \in Pages :
        \/ \E d \in Docs, e \in Edits :
              SendOp(c, p, d, e) \/ SendSave(c, p, d, e) \/ SendLift(c, p, d, e)
        \/ \E d \in Docs : SendDiscard(c, p, d) \/ OpenTab(p, d)
        \/ \E d \in Docs, e \in Edits : SendSync(c, p, d, {e}) \/ SendSync(c, p, d, {})
        \/ SendUndo(c, p)
        \/ \E b \in Branches : SendGit(c, p, "switch", b)
        \/ SendGit(c, p, "commit", Main)
    BY DEF Gesture
  <1>k. "op" \in Kinds /\ "save" \in Kinds /\ "sync" \in Kinds /\ "discard" \in Kinds
        /\ "undo" \in Kinds /\ "commit" \in Kinds /\ "switch" \in Kinds
    BY DEF Kinds
  <1>2. ASSUME NEW kind \in Kinds \ {"op", "undo"}, NEW doc \in Docs, NEW text \in Text,
               NEW to \in Branches, Send(c, p, kind, doc, text, to, NoEntry),
               UNCHANGED <<current, head, rows, undo, tab>>, made \subseteq made',
               text \subseteq made'
        PROVE  HistoryInv'
    BY <1>a, <1>b, <1>2, Sending
  <1>3. ASSUME NEW d \in Docs, NEW e \in Edits, SendOp(c, p, d, e) PROVE HistoryInv'
    <2>1. {e} \in Text /\ made' = made \cup {e} /\ {e} \cap made = {}
      BY <1>3 DEF Text, SendOp
    <2> QED
      BY <1>a, <1>b, <1>c, <1>k, <1>3, <2>1, Sending DEF SendOp
  <1>4. ASSUME NEW d \in Docs, NEW e \in Edits, SendSave(c, p, d, e) PROVE HistoryInv'
    <2>1. tab[p][d] \in Text /\ tab[p][d] \subseteq made
      BY <1>4, <1>a, RestTyped DEF TextsAreMade, SendSave, Row
    <2>2. tab[p][d] \cup {e} \in Text /\ made' = made \cup {e}
      BY <1>4, <2>1 DEF Text, SendSave
    <2> QED
      BY <1>c, <1>k, <1>2, <1>4, <2>1, <2>2 DEF SendSave
  <1>5. ASSUME NEW d \in Docs, NEW e \in Edits, SendLift(c, p, d, e) PROVE HistoryInv'
    BY <1>5 DEF SendLift, Send, OnePatientAuthor
  <1>6. ASSUME NEW d \in Docs, NEW found \in SUBSET Edits, SendSync(c, p, d, found)
        PROVE  HistoryInv'
    BY <1>c, <1>k, <1>2, <1>6 DEF SendSync, Text
  <1>7. ASSUME NEW d \in Docs, SendDiscard(c, p, d) PROVE HistoryInv'
    BY <1>c, <1>k, <1>2, <1>7 DEF SendDiscard
  <1>8. ASSUME NEW kind \in {"commit", "switch"}, NEW to \in Branches, SendGit(c, p, kind, to)
        PROVE  HistoryInv'
    BY <1>b, <1>c, <1>k, <1>2, <1>8 DEF SendGit
  <1>9. CASE SendUndo(c, p)
    <2>1. undo[p] \in Seq(Entry) /\ undo[p] # <<>>
      BY <1>9, <1>a, RestTyped DEF SendUndo
    <2>2. Last(undo[p]) \in Entry /\ Last(undo[p]).doc \in Docs
      BY <2>1, EntryTyped DEF Last
    <2>3. undo[p] = Append(Front(undo[p]), Last(undo[p]))
      BY <2>1 DEF Front, Last
    <2>4. undo'[p] = Front(undo[p])
      BY <1>9, <1>a DEF SendUndo, TypeOK
    <2>5. undo[p] = Append(undo'[p], Last(undo[p]))
      BY <2>3, <2>4
    <2> QED
      BY <1>a, <1>c, <1>k, <1>9, <2>2, <2>5, Sending DEF SendUndo
  <1>10. ASSUME NEW d \in Docs, OpenTab(p, d) PROVE HistoryInv'
    <2>1. TextOf(current, d) \subseteq made
      BY <1>a, RestTyped DEF TextsAreMade, TextOf, Over
    <2>2. ASSUME NEW q \in Pages, NEW f \in Docs, tab'[q][f] # Absent
          PROVE  tab'[q][f] \subseteq made'
      <3>1. tab'[q][f] = tab[q][f] \/ tab'[q][f] = TextOf(current, d)
        BY <1>10, <1>a, RestTyped DEF OpenTab
      <3> QED
        BY <1>10, <1>a, <2>1, <2>2, <3>1 DEF OpenTab, TextsAreMade
    <2>3. TextsAreMade'
      BY <1>10, <1>a, <2>2 DEF OpenTab, TextsAreMade
    <2>4. CallsAreAlone'
      BY <1>10 DEF OpenTab, HistoryInv, CallsAreAlone, CallIsSo, Flying
    <2>5. HistoryTells'
      BY <1>10 DEF OpenTab, HistoryInv, HistoryTells, CallTells, TellsNow, HistoryAfter, Flying
    <2> QED
      BY <1>a, <2>3, <2>4, <2>5 DEF HistoryInv
  <1>11. \A e \in Edits : {e} \in SUBSET Edits /\ {} \in SUBSET Edits
    OBVIOUS
  <1> QED
    BY <1>1, <1>c, <1>3, <1>4, <1>5, <1>6, <1>7, <1>8, <1>9, <1>10, <1>11

(* A handler's step, which leaves its call on its way or answered.          *)
LEMMA Handling ==
    ASSUME HistoryInv, TypeOK', TextsAreMade', NEW c \in Calls, Flying(c),
           \A e \in Calls \ {c} : call'[e] = call[e], call'[c].pc # "idle",
           CallIsSo(call[c])', CallTells(call[c])'
    PROVE  HistoryInv'
  <1>1. \A e \in Calls \ {c} : call'[e].pc = "idle"
    BY DEF HistoryInv, CallsAreAlone, Flying
  <1> QED
    BY <1>1, OnlyThis DEF HistoryInv

(* The texts a step may write are made of edits that were made.             *)
LEMMA RowsMade ==
    ASSUME HistoryInv, NEW c \in Calls, NEW text \in Row,
           text # Absent => text \subseteq made,
           rows' = [rows EXCEPT ![call[c].branch][call[c].doc] = text],
           UNCHANGED <<head, tab, made>>,
           \A e \in Calls : call'[e].text = call[e].text
    PROVE  TextsAreMade'
  <1>1. ASSUME NEW b \in Branches, NEW d \in Docs, rows'[b][d] # Absent
        PROVE  rows'[b][d] \subseteq made
    <2>1. rows'[b][d] = rows[b][d] \/ rows'[b][d] = text
      BY <1>1, CallTyped, RestTyped DEF HistoryInv
    <2> QED
      BY <1>1, <2>1 DEF HistoryInv, TextsAreMade
  <1> QED
    BY <1>1 DEF HistoryInv, TextsAreMade

(* Of the branch in front one pending row is written, and no other.         *)
LEMMA RowsOnce ==
    ASSUME HistoryInv, NEW c \in Calls, Flying(c), call[c].pc \in {"routed", "listed"},
           NEW text,
           rows' = [rows EXCEPT ![call[c].branch][call[c].doc] = text]
    PROVE  /\ rows'[current][call[c].doc] = text
           /\ \A d \in Docs : d # call[c].doc => rows'[current][d] = rows[current][d]
  <1>1. call[c].branch = current
    BY DEF HistoryInv, CallsAreAlone, CallIsSo
  <1> QED
    BY <1>1, CallTyped, RestTyped DEF HistoryInv

LEMMA ApplyTells ==
    ASSUME OnePatientAuthor, HistoryInv, NEW c \in Calls, Apply(c)
    PROVE  HistoryInv'
  <1> DEFINE text == Over(call[c].base, call[c].seen)
             doc == call[c].doc
             entry == [doc |-> doc, previous |-> text, hadPending |-> call[c].seen # Absent,
                       edit |-> call[c].text]
             stack == undo[call[c].page]
  <1>1. /\ TypeOK /\ TextsAreMade /\ CallsAreAlone /\ HistoryTells /\ TypeOK'
        /\ Flying(c) /\ call[c].pc = "listed"
    BY HandlerTypeOK DEF HistoryInv, Apply, Flying
  <1>2. CallIsSo(call[c]) /\ CallTells(call[c])
    BY <1>1 DEF CallsAreAlone, HistoryTells
  <1>3. /\ call[c].kind = "op" /\ call[c].seen = rows[current][doc]
        /\ call[c].branch = current /\ call[c].base = head[current][doc]
        /\ call[c].text \cap head[current][doc] = {}
        /\ rows[current][doc] = Absent \/ call[c].text \cap rows[current][doc] = {}
        /\ call[c].kind \in Does[call[c].page]
    BY <1>1, <1>2 DEF CallIsSo
  <1>4. TellsNow(stack)
    BY <1>1, <1>2, <1>3 DEF CallTells
  <1>5. /\ entry \in Entry /\ text \in Text
        /\ \A e \in Calls \ {c} : call'[e] = call[e]
        /\ call'[c].pc = "answered" /\ call'[c].entry = entry
        /\ call'[c].kind = "op" /\ call'[c].page = call[c].page
        /\ call'[c].doc = doc /\ call'[c].text = call[c].text
        /\ call'[c].ok = TRUE
    BY <1>1, <1>3, AppliedCall DEF OnePatientAuthor
  <1>6. /\ rows' = [rows EXCEPT ![call[c].branch][doc] = text \cup call[c].text]
        /\ UNCHANGED <<current, head, undo, tab, made>>
    BY DEF Apply
  <1>7. /\ rows'[current][doc] = text \cup call[c].text
        /\ \A d \in Docs : d # doc => rows'[current][d] = rows[current][d]
    BY <1>1, <1>6, RowsOnce
  <1>8. text \subseteq made /\ call[c].text \subseteq made /\ doc \in Docs
    BY <1>1, <1>3, CallTyped, RestTyped DEF TextsAreMade, Over
  <1>9. TextsAreMade'
    <2>1. text \cup call[c].text \in Row /\ text \cup call[c].text \subseteq made
      BY <1>1, <1>5, <1>8, CallTyped DEF Row, Text
    <2>2. \A e \in Calls : call'[e].text = call[e].text
      BY <1>5
    <2> QED
      BY <1>6, <2>1, <2>2, RowsMade
  <1>10. EntryTold(entry, head[current], made)
    <2>1. call[c].text \cap text = {}
      BY <1>3 DEF Over
    <2> QED
      BY <1>3, <1>8, <2>1 DEF EntryTold, Over
  <1>11. stack \in Seq(Entry)
    BY <1>1, CallTyped, RestTyped
  <1>12. \A i \in DOMAIN stack : After(stack[i]) # Absent
    <2>1. \A i \in DOMAIN stack : After(stack[i]) \subseteq Edits
      BY <1>11, EntryTyped DEF After, Text
    <2> QED
      BY <2>1 DEF Absent
  <1>13. Told(Append(stack, entry), rows'[current], head[current], made)
    <2>1. rows[current][entry.doc] # Absent
            => entry.hadPending /\ entry.previous = rows[current][entry.doc]
      BY <1>3 DEF Over
    <2>2. rows'[current][entry.doc] = After(entry)
      BY <1>7 DEF After
    <2>3. Told(stack, rows[current], head[current], made)
      BY <1>4 DEF TellsNow
    <2>4. \A d \in Docs : d # entry.doc => rows'[current][d] = rows[current][d]
      BY <1>7
    <2> HIDE DEF entry, stack
    <2> QED
      BY <1>5, <1>10, <1>11, <1>12, <2>1, <2>2, <2>3, <2>4, ToldAppend
  <1>14. Told(Remembered(stack, entry), rows'[current], head[current], made)
    <2> HIDE DEF entry, stack
    <2>1. CASE Len(stack) < UNDO_LIMIT
      BY <1>13, <2>1 DEF Remembered
    <2>2. CASE ~(Len(stack) < UNDO_LIMIT)
      <3>1. Len(stack) \in Nat /\ UNDO_LIMIT \in Nat \ {0}
        BY <1>11
      <3>2. stack # <<>>
        BY <1>11, <2>2, <3>1
      <3>3. Append(Tail(stack), entry) = Tail(Append(stack, entry))
        BY <1>5, <1>11, <3>2
      <3>4. Append(stack, entry) \in Seq(Entry) /\ Append(stack, entry) # <<>>
        BY <1>5, <1>11
      <3>5. Told(Tail(Append(stack, entry)), rows'[current], head[current], made)
        BY <1>13, <3>4, ToldTail
      <3> QED
        BY <2>2, <3>3, <3>5 DEF Remembered
    <2> QED
      BY <2>1, <2>2
  <1>15. CallTells(call[c])'
    BY <1>5, <1>6, <1>14 DEF CallTells, HistoryAfter, TellsNow
  <1>16. CallIsSo(call[c])'
    BY <1>3, <1>5 DEF CallIsSo
  <1> QED
    BY <1>1, <1>5, <1>9, <1>15, <1>16, Handling

(* Reading changes nothing that is told.                                    *)
LEMMA ReadingTells ==
    ASSUME OnePatientAuthor, HistoryInv, NEW c \in Calls, Route(c) \/ List(c)
    PROVE  HistoryInv'
  <1>1. /\ TypeOK /\ TextsAreMade /\ CallsAreAlone /\ HistoryTells /\ TypeOK' /\ Flying(c)
    BY HandlerTypeOK DEF HistoryInv, Route, List, Flying
  <1>2. CallIsSo(call[c]) /\ CallTells(call[c])
    BY <1>1 DEF CallsAreAlone, HistoryTells
  <1>3. UNCHANGED <<current, head, rows, undo, tab, made>>
    BY DEF Route, List
  <1>4. /\ \A e \in Calls \ {c} : call'[e] = call[e]
        /\ call'[c].pc \in {"routed", "listed"} /\ call[c].pc # "answered"
        /\ call'[c].kind = call[c].kind /\ call'[c].page = call[c].page
        /\ call'[c].doc = call[c].doc /\ call'[c].text = call[c].text
        /\ call'[c].entry = call[c].entry /\ call'[c].ok = call[c].ok
    BY <1>1, RoutedCall, ListedCall DEF Route, List
  <1>5. TextsAreMade'
    <2>1. \A e \in Calls : call'[e].text = call[e].text
      BY <1>4
    <2> QED
      BY <1>1, <1>3, <2>1 DEF TextsAreMade
  <1>6. CallIsSo(call[c])'
    <2>1. CASE Route(c)
      <3>1. call'[c].pc = "routed" /\ call'[c].branch = current
            /\ call'[c].base = head[current][call[c].doc]
        BY <1>1, <2>1, RoutedCall
      <3> QED
        BY <1>2, <1>3, <1>4, <3>1 DEF CallIsSo
    <2>2. CASE List(c)
      <3>1. /\ call'[c].pc = "listed" /\ call'[c].branch = call[c].branch
            /\ call'[c].base = call[c].base
            /\ call'[c].seen = rows[call[c].branch][call[c].doc]
            /\ call[c].kind \in {"op", "lift"} /\ call[c].pc = "routed"
        BY <1>1, <2>2, ListedCall DEF List
      <3>2. call[c].kind # "lift"
        BY <1>1, <1>2, CallTyped DEF CallIsSo, OnePatientAuthor
      <3> QED
        BY <1>2, <1>3, <1>4, <3>1, <3>2 DEF CallIsSo
    <2> QED
      BY <2>1, <2>2
  <1>7. CallTells(call[c])'
    BY <1>2, <1>3, <1>4 DEF CallTells, TellsNow
  <1> QED
    BY <1>1, <1>4, <1>5, <1>6, <1>7, Handling

(* An answer of any other call than an operation.                           *)
LEMMA Answering ==
    ASSUME OnePatientAuthor, HistoryInv, TypeOK', TextsAreMade', NEW c \in Calls, Flying(c),
           call[c].pc \in {"routed", "listed"}, NEW ok \in BOOLEAN, Answer(c, ok),
           call[c].kind = "undo" => ok,
           undo' = undo,
           LET stack == undo[call[c].page]
               afterwards(s) == Told(s, rows'[current'], head'[current'], made')
           IN IF ~ok THEN afterwards(stack) ELSE
              CASE call[c].kind = "op"                       -> FALSE
                [] call[c].kind \in {"save", "discard"}      -> afterwards(WithoutDoc(stack, call[c].doc))
                [] call[c].kind \in {"commit", "switch"}     -> TRUE
                [] call[c].kind = "sync" /\ call[c].text # {} -> TRUE
                [] OTHER                                     -> afterwards(stack)
    PROVE  HistoryInv'
  <1>1. TypeOK /\ CallIsSo(call[c])
    BY DEF HistoryInv, CallsAreAlone
  <1>2. /\ \A e \in Calls \ {c} : call'[e] = call[e]
        /\ call'[c].pc = "answered" /\ call'[c].ok = ok
        /\ call'[c].kind = call[c].kind /\ call'[c].page = call[c].page
        /\ call'[c].doc = call[c].doc /\ call'[c].text = call[c].text
        /\ call'[c].entry = call[c].entry
    BY <1>1, AnsweredCall
  <1>3. CallIsSo(call[c])'
    BY <1>1, <1>2 DEF CallIsSo
  <1>4. \A texts, base, edits : Told(<<>>, texts, base, edits)
    BY NothingTold
  <1>5. CallTells(call[c])'
    BY <1>2, <1>4 DEF CallTells, HistoryAfter, TellsNow
  <1> QED
    BY <1>2, <1>3, <1>5, Handling

(* Undo, save and discard write one row.                                    *)
LEMMA WritingTells ==
    ASSUME OnePatientAuthor, HistoryInv, NEW c \in Calls, Undo(c) \/ Save(c) \/ Discard(c)
    PROVE  HistoryInv'
  <1> DEFINE doc == call[c].doc
             entry == call[c].entry
             stack == undo[call[c].page]
  <1>1. /\ TypeOK /\ TextsAreMade /\ CallsAreAlone /\ HistoryTells /\ TypeOK'
        /\ Flying(c) /\ call[c].pc = "routed"
    BY HandlerTypeOK DEF HistoryInv, Undo, Save, Discard, Flying
  <1>2. CallIsSo(call[c]) /\ CallTells(call[c]) /\ doc \in Docs /\ stack \in Seq(Entry)
        /\ entry \in Entry
    BY <1>1, CallTyped, RestTyped DEF CallsAreAlone, HistoryTells
  <1>3. ASSUME NEW text \in Row, Write(c, text), text # Absent => text \subseteq made
        PROVE  /\ Answer(c, TRUE) /\ UNCHANGED <<current, head, undo, tab, made>>
               /\ rows'[current][doc] = text /\ TextsAreMade'
               /\ \A d \in Docs : d # doc => rows'[current][d] = rows[current][d]
    <2>1. /\ Answer(c, TRUE) /\ UNCHANGED <<current, head, undo, tab, made>>
          /\ rows' = [rows EXCEPT ![call[c].branch][doc] = text]
      BY <1>3 DEF Write, OnePatientAuthor
    <2>2. \A e \in Calls : call'[e].text = call[e].text
      BY <1>1, <2>1, AnsweredCall
    <2> HIDE DEF doc
    <2> QED
      BY <1>1, <1>3, <2>1, <2>2, RowsMade, RowsOnce DEF doc
  <1>4. CASE Undo(c)
    <2> DEFINE text == IF entry.hadPending THEN entry.previous ELSE Absent
    <2>1. call[c].kind = "undo" /\ Write(c, text)
      BY <1>4 DEF Undo
    <2>2. Told(Append(stack, entry), rows[current], head[current], made)
      BY <1>1, <1>2, <2>1 DEF CallTells, TellsNow
    <2>3. entry.doc = doc
      BY <1>1, <1>2, <2>1 DEF CallIsSo
    <2>4. text \in Row /\ (text # Absent => text \subseteq made)
      <3>1. EntryTold(entry, head[current], made)
        BY <1>2, <2>2, Appended DEF Told
      <3> QED
        BY <1>1, <3>1, CallTyped DEF EntryTold, Row
    <2>5. /\ Answer(c, TRUE) /\ UNCHANGED <<current, head, undo, tab, made>>
          /\ rows'[current][doc] = text /\ TextsAreMade'
          /\ \A d \in Docs : d # doc => rows'[current][d] = rows[current][d]
      BY <1>3, <2>1, <2>4
    <2>6. Told(stack, rows'[current], head[current], made)
      <3> HIDE DEF entry, stack
      <3> QED
        BY <1>2, <2>2, <2>3, <2>5, ToldBefore
    <2> QED
      BY <1>1, <2>1, <2>5, <2>6, Answering
  <1>5. CASE Save(c) \/ Discard(c)
    <2>1. PICK text \in Row : /\ Write(c, text) /\ (text # Absent => text \subseteq made)
                              /\ call[c].kind \in {"save", "discard"}
      <3>1. call[c].text \in Row /\ Absent \in Row /\ call[c].text \subseteq made
        BY <1>1, CallTyped DEF Row, TextsAreMade
      <3> QED
        BY <1>5, <3>1 DEF Save, Discard
    <2>2. /\ Answer(c, TRUE) /\ UNCHANGED <<current, head, undo, tab, made>>
          /\ TextsAreMade'
          /\ \A d \in Docs : d # doc => rows'[current][d] = rows[current][d]
      BY <1>3, <2>1
    <2>3. Told(stack, rows[current], head[current], made)
      BY <1>1, <1>2, <2>1 DEF CallTells, TellsNow
    <2>4. Told(WithoutDoc(stack, doc), rows'[current], head[current], made)
      BY <1>2, <2>2, <2>3, ToldWithout
    <2> QED
      BY <1>1, <2>1, <2>2, <2>4, Answering
  <1> QED
    BY <1>4, <1>5

LEMMA GitTells ==
    ASSUME OnePatientAuthor, HistoryInv, NEW c \in Calls,
           Commit(c) \/ Switch(c) \/ Sync(c) \/ Refuse(c)
    PROVE  HistoryInv'
  <1> DEFINE stack == undo[call[c].page]
  <1>1. /\ TypeOK /\ TextsAreMade /\ CallsAreAlone /\ HistoryTells /\ TypeOK'
        /\ Flying(c) /\ call[c].pc \in {"routed", "listed"}
    BY HandlerTypeOK DEF HistoryInv, Commit, Switch, Sync, Refuse, Flying
  <1>2. CallIsSo(call[c]) /\ CallTells(call[c]) /\ call[c].branch = current
    BY <1>1 DEF CallsAreAlone, HistoryTells, CallIsSo
  <1>3. call[c].kind # "undo" => Told(stack, rows[current], head[current], made)
    BY <1>1, <1>2 DEF CallTells, TellsNow
  <1>4. ASSUME NEW ok, Answer(c, ok), ok \in BOOLEAN
        PROVE  \A e \in Calls : call'[e].text = call[e].text
    BY <1>1, <1>4, AnsweredCall
  <1>5. CASE Commit(c)
    <2> DEFINE ok == Changed(current) # {}
    <2>1. /\ call[c].kind = "commit" /\ Answer(c, ok) /\ UNCHANGED <<current, undo, tab, made>>
          /\ head' = [head EXCEPT ![current] = [d \in Docs |-> TextOf(current, d)]]
          /\ rows' = [rows EXCEPT ![current] = [d \in Docs |-> Absent]]
      BY <1>2, <1>5 DEF Commit
    <2>2. \A b \in Branches, d \in Docs : TextOf(b, d) \subseteq made
      BY <1>1 DEF TextsAreMade, TextOf, Over
    <2>3. \A b \in Branches, d \in Docs :
             /\ head'[b][d] \in {head[b][d], TextOf(b, d)}
             /\ rows'[b][d] \in {rows[b][d], Absent}
      BY <1>1, <2>1, RestTyped
    <2>4. TextsAreMade'
      <3>1. \A b \in Branches, d \in Docs :
               /\ head'[b][d] \subseteq made /\ (rows'[b][d] # Absent => rows'[b][d] \subseteq made)
        BY <1>1, <2>2, <2>3 DEF TextsAreMade
      <3> QED
        BY <1>1, <1>4, <2>1, <3>1 DEF TextsAreMade
    <2>5. ~ok => rows'[current] = rows[current] /\ head'[current] = head[current]
      <3> SUFFICES ASSUME ~ok PROVE rows'[current] = rows[current] /\ head'[current] = head[current]
        OBVIOUS
      <3>1. \A d \in Docs : rows[current][d] = Absent /\ TextOf(current, d) = head[current][d]
        BY DEF Changed, TextOf, Over
      <3>2. /\ rows[current] \in [Docs -> Row] /\ head[current] \in [Docs -> Text]
            /\ rows'[current] = [d \in Docs |-> Absent]
            /\ head'[current] = [d \in Docs |-> TextOf(current, d)]
        BY <1>1, <2>1, RestTyped
      <3> QED
        BY <3>1, <3>2
    <2>6. ~ok => Told(stack, rows'[current], head'[current], made)
      BY <1>3, <2>1, <2>5
    <2> HIDE DEF ok
    <2>7. ok \in BOOLEAN
      BY DEF ok
    <2> QED
      BY <1>1, <2>1, <2>4, <2>6, <2>7, Answering
  <1>6. CASE Switch(c)
    <2>1. /\ call[c].kind = "switch" /\ Answer(c, TRUE) /\ UNCHANGED <<head, rows, undo, tab, made>>
      BY <1>6 DEF Switch
    <2>2. TextsAreMade'
      BY <1>1, <1>4, <2>1 DEF TextsAreMade
    <2> QED
      BY <1>1, <2>1, <2>2, Answering
  <1>7. CASE Sync(c)
    <2>1. /\ call[c].kind = "sync" /\ Answer(c, TRUE)
          /\ UNCHANGED <<current, rows, undo, tab, made>>
          /\ head' = [head EXCEPT ![current][call[c].doc] = @ \cup call[c].text]
      BY <1>2, <1>7 DEF Sync
    <2>2. ASSUME NEW b \in Branches, NEW d \in Docs
          PROVE  head'[b][d] = head[b][d] \/ head'[b][d] = head[b][d] \cup call[c].text
      BY <1>1, <2>1, CallTyped, RestTyped
    <2>3. TextsAreMade'
      <3>1. \A b \in Branches, d \in Docs : head'[b][d] \subseteq made
        BY <1>1, <2>2 DEF TextsAreMade
      <3> QED
        BY <1>1, <1>4, <2>1, <3>1 DEF TextsAreMade
    <2>4. call[c].text = {} => head' = head
      <3> SUFFICES ASSUME call[c].text = {} PROVE head' = head
        OBVIOUS
      <3>1. head[current][call[c].doc] \cup call[c].text = head[current][call[c].doc]
        OBVIOUS
      <3> QED
        BY <1>1, <2>1, <3>1, CallTyped, RestTyped
    <2>5. call[c].text = {} => Told(stack, rows'[current], head'[current], made)
      BY <1>3, <2>1, <2>4
    <2> QED
      BY <1>1, <2>1, <2>3, <2>5, Answering
  <1>8. CASE Refuse(c)
    <2>1. /\ call[c].kind # "undo" /\ Answer(c, FALSE)
          /\ UNCHANGED <<current, head, rows, undo, tab, made>>
      BY <1>8 DEF Refuse, OnePatientAuthor
    <2>2. TextsAreMade'
      BY <1>1, <1>4, <2>1 DEF TextsAreMade
    <2>3. Told(stack, rows'[current'], head'[current'], made')
      BY <1>3, <2>1
    <2> QED
      BY <1>1, <2>1, <2>2, <2>3, Answering
  <1> QED
    BY <1>5, <1>6, <1>7, <1>8

LEMMA ReceivingTells ==
    ASSUME OnePatientAuthor, HistoryInv, NEW c \in Calls, Receive(c)
    PROVE  HistoryInv'
  <1>1. /\ TypeOK /\ TextsAreMade /\ CallsAreAlone /\ HistoryTells /\ TypeOK'
        /\ Flying(c) /\ call[c].pc = "answered"
    BY HandlerTypeOK DEF HistoryInv, Receive, Flying
  <1>2. /\ call' = [call EXCEPT ![c] = NoCall] /\ UNCHANGED <<current, head, rows, made>>
        /\ undo' = [undo EXCEPT ![call[c].page] = HistoryAfter(call[c])]
    BY DEF Receive
  <1>3. NoCall.pc = "idle" /\ NoCall.text = {}
    BY DEF NoCall
  <1>4. /\ \A e \in Calls : call'[e] = call[e] \/ call'[e] = NoCall
        /\ \A e \in Calls : call'[e].pc = "idle"
    <2>1. call'[c] = NoCall /\ \A e \in Calls \ {c} : call'[e] = call[e] /\ ~Flying(e)
      <3> HIDE DEF NoCall
      <3> QED
        BY <1>1, <1>2, CallTyped DEF CallsAreAlone
    <2> QED
      BY <1>3, <2>1 DEF Flying
  <1> HIDE DEF NoCall
  <1>5. TextsAreMade'
    <2>1. \A e \in Calls : call'[e].text \subseteq made
      BY <1>1, <1>3, <1>4 DEF TextsAreMade
    <2>2. ASSUME NEW p \in Pages, NEW d \in Docs, tab'[p][d] # Absent
          PROVE  tab'[p][d] \subseteq made
      <3>1. tab'[p][d] = tab[p][d] \/ tab'[p][d] = call[c].text
        BY <1>1, CallTyped, RestTyped DEF Receive
      <3> QED
        BY <1>1, <2>2, <3>1 DEF TextsAreMade
    <2> QED
      BY <1>1, <1>2, <2>1, <2>2 DEF TextsAreMade
  <1>6. CallsAreAlone'
    BY <1>4 DEF CallsAreAlone, Flying
  <1>7. ASSUME NEW p \in Pages PROVE Told(undo'[p], rows[current], head[current], made)
    <2>1. p = call[c].page
      BY <1>1, CallTyped DEF OnePatientAuthor
    <2>2. undo'[p] = HistoryAfter(call[c])
      BY <1>1, <1>2, <2>1, RestTyped
    <2> QED
      BY <1>1, <2>2 DEF HistoryTells, CallTells, TellsNow
  <1>8. HistoryTells'
    BY <1>2, <1>4, <1>7 DEF HistoryTells, TellsNow, Flying
  <1> QED
    BY <1>1, <1>5, <1>6, <1>8 DEF HistoryInv

LEMMA AlwaysTells ==
    ASSUME OnePatientAuthor
    PROVE  Spec => []HistoryInv
  <1>1. Init => HistoryInv
    <2> SUFFICES ASSUME Init PROVE HistoryInv
      OBVIOUS
    <2>1. \A c \in Calls : call[c].pc = "idle" /\ call[c].text = {}
      BY DEF Init, NoCall
    <2>2. TextsAreMade
      BY <2>1 DEF Init, TextsAreMade
    <2>3. CallsAreAlone
      BY <2>1 DEF CallsAreAlone, Flying
    <2>4. HistoryTells
      BY <2>1, NothingTold DEF Init, HistoryTells, TellsNow, Flying
    <2> QED
      BY <2>2, <2>3, <2>4, InitTypeOK DEF HistoryInv
  <1>2. HistoryInv /\ UNCHANGED vars => HistoryInv'
    <2> SUFFICES ASSUME HistoryInv, UNCHANGED vars PROVE HistoryInv'
      OBVIOUS
    <2>1. TypeOK' /\ TextsAreMade'
      BY DEF HistoryInv, TypeOK, TextsAreMade, vars
    <2>2. CallsAreAlone'
      BY DEF HistoryInv, CallsAreAlone, CallIsSo, Flying, vars
    <2>3. HistoryTells'
      BY DEF HistoryInv, HistoryTells, CallTells, TellsNow, HistoryAfter, Flying, vars
    <2> QED
      BY <2>1, <2>2, <2>3 DEF HistoryInv
  <1>3. HistoryInv /\ Gesture => HistoryInv'
    BY GestureTells
  <1>4. HistoryInv /\ Handler => HistoryInv'
    BY ReadingTells, ApplyTells, WritingTells, GitTells, ReceivingTells DEF Handler
  <1> QED
    BY <1>1, <1>2, <1>3, <1>4, PTL DEF Spec, Next

(* What the page remembers is what happened to the file (HistoryMatchesThe- *)
(* File): whatever an author does at one page, waiting for each answer, the *)
(* last entry of a document left the text that is pending there, and every  *)
(* other entry of it starts where the one before it ended.                  *)
THEOREM HistoryIsTrue ==
    ASSUME OnePatientAuthor
    PROVE  Spec => []HistoryMatchesTheFile
  <1>1. HistoryInv => HistoryMatchesTheFile
    <2> SUFFICES ASSUME HistoryInv, NEW p \in Pages, InFlight(p) = {}
                 PROVE  LET stack == undo[p]
                        IN \A j \in DOMAIN stack :
                             /\ LastOf(stack, j) => rows[current][stack[j].doc] = After(stack[j])
                             /\ \A i \in DOMAIN stack : Follows(stack, i, j) =>
                                   stack[j].hadPending /\ stack[j].previous = After(stack[i])
      BY DEF HistoryMatchesTheFile
    <2>1. TypeOK /\ HistoryTells
      BY DEF HistoryInv
    <2>2. \A c \in Calls : ~Flying(c)
      BY <2>1, NoneFlying
    <2>3. TellsNow(undo[p])
      BY <2>1, <2>2 DEF HistoryTells
    <2> QED
      BY <2>3 DEF TellsNow, Told, TopTold, ChainTold
  <1>2. Spec => []HistoryInv
    BY AlwaysTells
  <1> QED
    BY <1>1, <1>2, PTL

(* The entry an undo brings along: the text in front of the author is what  *)
(* that operation left.                                                     *)
LEMMA UndoneEntry ==
    ASSUME HistoryInv, NEW c \in Calls, call[c].kind = "undo", call[c].pc = "routed"
    PROVE  LET entry == call[c].entry
           IN /\ entry.doc = call[c].doc /\ EntryTold(entry, head[current], made)
              /\ rows[current][entry.doc] = After(entry)
  <1> DEFINE entry == call[c].entry
             stack == undo[call[c].page]
             n == Len(stack) + 1
  <1>1. TypeOK /\ CallIsSo(call[c]) /\ CallTells(call[c])
    BY DEF HistoryInv, CallsAreAlone, HistoryTells, Flying
  <1>2. Told(Append(stack, entry), rows[current], head[current], made)
    BY <1>1 DEF CallTells, TellsNow
  <1>3. stack \in Seq(Entry) /\ entry \in Entry
    BY <1>1, CallTyped, RestTyped
  <1>4. entry.doc = call[c].doc
    BY <1>1 DEF CallIsSo
  <1> HIDE DEF entry, stack
  <1>5. /\ n \in DOMAIN Append(stack, entry) /\ Append(stack, entry)[n] = entry
        /\ LastOf(Append(stack, entry), n)
    <2>1. /\ Len(stack) \in Nat /\ DOMAIN Append(stack, entry) = (1 .. Len(stack)) \cup {n}
          /\ Append(stack, entry)[n] = entry
      BY <1>3, Appended
    <2> QED
      BY <2>1 DEF LastOf
  <1>6. EntryTold(entry, head[current], made) /\ rows[current][entry.doc] = After(entry)
    BY <1>2, <1>5 DEF Told, TopTold
  <1> QED
    BY <1>4, <1>6 DEF entry

(* Only the undo itself writes while it is on its way.                      *)
LEMMA OnlyTheUndoWrites ==
    ASSUME OnePatientAuthor, HistoryInv, Next, NEW c \in Calls,
           call[c].kind = "undo", call[c].pc = "routed", rows' # rows
    PROVE  Undo(c)
  <1>1. CASE Gesture
    <2>1. \A e \in Calls, p \in Pages, d \in Docs, f \in Edits :
            /\ SendOp(e, p, d, f) \/ SendSave(e, p, d, f) \/ SendLift(e, p, d, f) => rows' = rows
            /\ SendSync(e, p, d, {f}) \/ SendSync(e, p, d, {}) => rows' = rows
      BY DEF SendOp, SendSave, SendLift, SendSync
    <2>2. \A e \in Calls, p \in Pages, d \in Docs :
            SendDiscard(e, p, d) \/ OpenTab(p, d) => rows' = rows
      BY DEF SendDiscard, OpenTab
    <2>3. \A e \in Calls, p \in Pages : SendUndo(e, p) => rows' = rows
      BY DEF SendUndo
    <2>4. \A e, p, kind, to : SendGit(e, p, kind, to) => rows' = rows
      BY DEF SendGit
    <2> QED
      BY <1>1, <2>1, <2>2, <2>3, <2>4 DEF Gesture
  <1>2. CASE Handler
    <2>1. PICK e \in Calls :
            \/ Route(e) \/ List(e) \/ Apply(e) \/ Undo(e) \/ Save(e) \/ Discard(e)
            \/ Commit(e) \/ Switch(e) \/ Sync(e) \/ Refuse(e) \/ Receive(e)
      BY <1>2 DEF Handler
    <2>2. Flying(e) /\ Flying(c)
      BY <2>1 DEF Route, List, Apply, Undo, Save, Discard, Commit, Switch, Sync, Refuse, Receive,
                  Flying
    <2>3. e = c
      BY <2>2 DEF HistoryInv, CallsAreAlone
    <2>4. ~Route(c) /\ ~List(c) /\ ~Switch(c) /\ ~Sync(c) /\ ~Refuse(c) /\ ~Receive(c)
      BY DEF Route, List, Switch, Sync, Refuse, Receive
    <2>5. ~Apply(c) /\ ~Save(c) /\ ~Discard(c) /\ ~Commit(c)
      BY DEF Apply, Save, Discard, Commit
    <2> QED
      BY <2>1, <2>3, <2>4, <2>5
  <1> QED
    BY <1>1, <1>2 DEF Next

LEMMA AnUndoTakesItsEdit ==
    ASSUME OnePatientAuthor, HistoryInv, Next, NEW c \in Calls,
           call[c].kind = "undo", call[c].pc = "routed", rows' # rows
    PROVE  /\ \A b \in Branches, d \in Docs :
                 TextOf(b, d)' = IF b = current /\ d = call[c].doc
                                 THEN TextOf(b, d) \ call[c].entry.edit
                                 ELSE TextOf(b, d)
           /\ call[c].entry.edit \cap head[current][call[c].doc] = {}
  <1> DEFINE entry == call[c].entry
             doc == call[c].doc
             text == IF entry.hadPending THEN entry.previous ELSE Absent
  <1>1. TypeOK /\ CallIsSo(call[c]) /\ doc \in Docs /\ current \in Branches /\ made \subseteq Edits
    BY CallTyped, RestTyped DEF HistoryInv, CallsAreAlone, Flying
  <1>2. /\ entry.doc = doc /\ EntryTold(entry, head[current], made)
        /\ rows[current][doc] = After(entry)
    BY UndoneEntry
  <1>3. Undo(c)
    BY OnlyTheUndoWrites
  <1>4. rows' = [rows EXCEPT ![current][doc] = text] /\ UNCHANGED head
    BY <1>1, <1>3 DEF Undo, Write, CallIsSo
  <1> HIDE DEF entry, doc
  <1>5. /\ entry.previous \subseteq Edits /\ entry.edit \subseteq Edits
        /\ entry.edit \cap entry.previous = {} /\ entry.edit \cap head[current][doc] = {}
        /\ (~entry.hadPending => entry.previous = head[current][doc])
    BY <1>1, <1>2 DEF EntryTold
  <1>6. After(entry) # Absent /\ entry.previous # Absent
    BY <1>5, EditingAssumption DEF After, Absent
  <1>7. TextOf(current, doc) = After(entry)
    BY <1>2, <1>6 DEF TextOf, Over
  <1>8. Over(head[current][doc], text) = entry.previous
    BY <1>5, <1>6 DEF Over
  <1>9. entry.previous = After(entry) \ entry.edit
    BY <1>5 DEF After
  <1>10. ASSUME NEW b \in Branches, NEW d \in Docs
         PROVE  TextOf(b, d)' = IF b = current /\ d = doc
                                THEN TextOf(b, d) \ entry.edit ELSE TextOf(b, d)
    <2>1. TextOf(b, d)' = Over(head[b][d], rows'[b][d])
      BY <1>4 DEF TextOf
    <2>2. CASE b = current /\ d = doc
      <3>1. rows'[b][d] = text
        BY <1>1, <1>4, <2>2, RestTyped
      <3> QED
        BY <1>7, <1>8, <1>9, <2>1, <2>2, <3>1
    <2>3. CASE ~(b = current /\ d = doc)
      <3>1. rows'[b][d] = rows[b][d]
        BY <1>1, <1>4, <2>3, RestTyped
      <3> QED
        BY <2>1, <2>3, <3>1 DEF TextOf
    <2> QED
      BY <2>2, <2>3
  <1> QED
    BY <1>5, <1>10 DEF entry, doc

(* An undo takes out its own edit and nothing else, in the branch in front  *)
(* of the author and in no other, and never one that has been committed     *)
(* (UndoIsSafe).                                                            *)
THEOREM UndoTakesBackItsOwn ==
    ASSUME OnePatientAuthor
    PROVE  Spec => UndoIsSafe
  <1> DEFINE Exact ==
        \A c \in Calls :
          call[c].kind = "undo" /\ call[c].pc = "routed" /\ rows' # rows =>
            \A b \in Branches, d \in Docs :
                TextOf(b, d)' = IF b = current /\ d = call[c].doc
                                THEN TextOf(b, d) \ call[c].entry.edit
                                ELSE TextOf(b, d)
             Stops ==
        \A c \in Calls :
          call[c].kind = "undo" /\ call[c].pc = "routed" /\ rows' # rows =>
            call[c].entry.edit \cap head[current][call[c].doc] = {}
  <1>1. HistoryInv /\ [Next]_vars => Exact \/ UNCHANGED vars
    BY AnUndoTakesItsEdit
  <1>2. HistoryInv /\ [Next]_vars => Stops \/ UNCHANGED vars
    BY AnUndoTakesItsEdit
  <1>3. HistoryInv /\ [Next]_vars => [Exact]_vars
    BY <1>1
  <1>4. HistoryInv /\ [Next]_vars => [Stops]_vars
    BY <1>2
  <1>5. Spec => []HistoryInv
    BY AlwaysTells
  <1>6. Spec => UndoIsExact
    BY <1>3, <1>5, PTL DEF Spec, UndoIsExact
  <1>7. Spec => UndoStopsAtACommit
    BY <1>4, <1>5, PTL DEF Spec, UndoStopsAtACommit
  <1> QED
    BY <1>6, <1>7 DEF UndoIsSafe

HIDE EditingAssumption

-----------------------------------------------------------------------------
(* Who is signed in (SignIn).                                               *)

UserRow    == [sub : People, email : Addresses]
SessionRow == [user : Nat, row : BOOLEAN, expires : Nat, born : Nat, person : People]
Stages     == {"away", "back", "exchanged", "over"}
Trip       == [provider : Providers, at : Stages, who : People \cup Accounts \cup {Nobody},
               cookie : Nat, session : Nat, address : Addresses \cup {Nobody}, by : Nat]
Connection == [account : Accounts \cup {Nobody}, installation : Installations \cup {Nobody}]
Token      == [of : Installations \cup {Nobody}, until : Nat]
Phases     == {"idle", "repositories", "disconnect", "logout",
               "connected", "minting", "holds", "again"}
Asked      == [phase : Phases, session : Nat, user : Nat,
               installation : Installations \cup {Nobody}, token : Token, since : Nat]

(* A session is of the row of the person who signed in, lasts as long as it *)
(* was given, and has no row once it is signed out.                         *)
SessionsHold ==
  /\ addressOf \in [People -> Addresses]
  /\ users \in Seq(UserRow) /\ sessions \in Seq(SessionRow)
  /\ \A s \in DOMAIN sessions :
       /\ sessions[s].user \in DOMAIN users
       /\ users[sessions[s].user].sub = sessions[s].person
       /\ sessions[s].expires = sessions[s].born + SESSION_TTL
  /\ signedOut \subseteq DOMAIN sessions
  /\ \A s \in signedOut : ~sessions[s].row

CookiesHold ==
  cookies \in [session : 0..Len(sessions), google : 0..Len(starts), github : 0..Len(starts)]

(* A start that came back says who of; exchanged with Google, at which      *)
(* address.                                                                 *)
TripHolds(s) ==
  /\ s \in Trip
  /\ s.cookie <= Len(starts) /\ s.session <= Len(sessions) /\ s.by <= Len(users)
  /\ s.at \in {"back", "exchanged"} =>
       s.who \in IF s.provider = "google" THEN People ELSE Accounts
  /\ s.at = "exchanged" /\ s.provider = "google" => s.address \in Addresses
StartsHold ==
  /\ starts \in Seq(Trip) /\ Len(starts) <= MaxStarts
  /\ \A t \in DOMAIN starts : TripHolds(starts[t])

(* Each row of users was made by a start of its own: the rows of links are  *)
(* enough for them.                                                         *)
TripsOver == {t \in DOMAIN starts : starts[t].at = "over"}
RowsComeOfStarts == Len(users) <= Cardinality(TripsOver)

LinksHold == connections \in [UserIds -> Connection]

(* The cache has, for an installation, a token of it or none.               *)
CacheHolds ==
  /\ tokens \in [Installations -> Token]
  /\ \A i \in Installations : tokens[i].of = i \/ tokens[i] = NoToken

(* A token that is held lasts longer than the margin from when it was       *)
(* taken, and is not held longer than that.                                 *)
RequestHolds(q) ==
  /\ q \in Asked /\ q.session <= Len(sessions) /\ q.user <= Len(users)
  /\ q.phase # "idle" => q.session # 0
  /\ q.phase \in {"connected", "minting", "holds", "again"} => q.installation \in Installations
  /\ q.phase \in {"holds", "again"} =>
       /\ q.token.of = q.installation
       /\ q.since + TOKEN_RENEW_MARGIN < q.token.until
       /\ now <= q.since + TOKEN_RENEW_MARGIN
RequestsHold == request \in [Requests -> Asked] /\ \A r \in Requests : RequestHolds(request[r])

Inv ==
  /\ now \in 0..MaxTime
  /\ SessionsHold /\ CookiesHold /\ StartsHold /\ RowsComeOfStarts
  /\ LinksHold /\ CacheHolds /\ RequestsHold

-----------------------------------------------------------------------------
(* Facts about the parts.                                                   *)
LEMMA LenTypes ==
  ASSUME SessionsHold, StartsHold
  PROVE  /\ Len(users) \in Nat /\ DOMAIN users = 1..Len(users)
         /\ Len(sessions) \in Nat /\ DOMAIN sessions = 1..Len(sessions)
         /\ Len(starts) \in Nat /\ DOMAIN starts = 1..Len(starts)
  BY DEF SessionsHold, StartsHold

LEMMA InitInv == SignInInit => Inv
  <1> SUFFICES ASSUME SignInInit PROVE Inv
    OBVIOUS
  <1>1. Len(users) = 0 /\ Len(sessions) = 0 /\ Len(starts) = 0 /\ DOMAIN starts = {} /\ DOMAIN sessions = {}
    BY DEF SignInInit
  <1>2. SessionsHold
    <2>1. users \in Seq(UserRow) /\ sessions \in Seq(SessionRow) /\ signedOut = {}
      BY DEF SignInInit
    <2> QED
      BY <1>1, <2>1 DEF SignInInit, SessionsHold
  <1>3. CookiesHold
    BY <1>1 DEF SignInInit, CookiesHold
  <1>4. StartsHold
    <2>1. starts \in Seq(Trip)
      BY DEF SignInInit
    <2> QED
      BY <1>1, <2>1, SignInAssumption DEF StartsHold
  <1>5. RowsComeOfStarts
    <2>1. TripsOver = {}
      BY <1>1 DEF TripsOver
    <2> QED
      BY <1>1, <2>1, FS_EmptySet DEF RowsComeOfStarts
  <1>6. LinksHold
    BY DEF SignInInit, LinksHold, NotLinked, Connection
  <1>7. CacheHolds
    BY DEF SignInInit, CacheHolds, NoToken, Token
  <1>8. RequestsHold
    <2>1. Idle \in Asked
      BY DEF Idle, NoToken, Asked, Phases, Token
    <2>2. RequestHolds(Idle)
      BY <1>1, <2>1 DEF RequestHolds, Idle
    <2> QED
      BY <2>1, <2>2 DEF SignInInit, RequestsHold
  <1> QED
    BY <1>2, <1>3, <1>4, <1>5, <1>6, <1>7, <1>8, SignInAssumption DEF SignInInit, Inv

(* The identity a session gives is a row's, or nobody's; and only while the *)
(* session has a row and time.                                              *)
LEMMA IdentityOfASession ==
  ASSUME SessionsHold, StartsHold, NEW s \in 0..Len(sessions)
  PROVE  /\ LoadSession(s) \in 0..Len(users)
         /\ LoadSession(s) # 0 => s # 0 /\ sessions[s].row /\ now < sessions[s].expires
  <1>1. CASE s # 0 /\ sessions[s].row /\ now < sessions[s].expires
    <2>1. s \in DOMAIN sessions
      BY <1>1, LenTypes
    <2>2. sessions[s].user \in 1..Len(users)
      BY <2>1, LenTypes DEF SessionsHold
    <2> QED
      BY <1>1, <2>2 DEF LoadSession
  <1>2. CASE ~(s # 0 /\ sessions[s].row /\ now < sessions[s].expires)
    BY <1>2, LenTypes DEF LoadSession
  <1> QED
    BY <1>1, <1>2

(* A start that is changed as a start may be.                               *)
LEMMA AStartChanges ==
  ASSUME SessionsHold, StartsHold, NEW t \in DOMAIN starts, NEW s, TripHolds(s),
         starts' = [starts EXCEPT ![t] = s], UNCHANGED <<users, sessions>>
  PROVE  StartsHold' /\ Len(starts') = Len(starts) /\ starts'[t] = s
  <1>1. t \in 1..Len(starts) /\ s \in Trip /\ starts \in Seq(Trip)
    BY LenTypes DEF StartsHold, TripHolds
  <1>2. /\ starts' \in Seq(Trip) /\ Len(starts') = Len(starts)
        /\ \A u \in 1..Len(starts) : starts'[u] = IF u = t THEN s ELSE starts[u]
    BY <1>1, ExceptSeq
  <1>3. DOMAIN starts' = 1..Len(starts) /\ Len(starts) \in Nat
    BY <1>2, LenTypes
  <1>4. \A q \in Trip : TripHolds(q) => TripHolds(q)'
    BY <1>2 DEF TripHolds
  <1>5. ASSUME NEW u \in DOMAIN starts' PROVE TripHolds(starts[u])'
    <2>1. PICK q \in Trip : q = starts'[u] /\ TripHolds(q)
      <3>1. starts'[u] = s \/ (u \in DOMAIN starts /\ starts'[u] = starts[u])
        BY <1>2, <1>3, LenTypes
      <3> QED
        BY <3>1 DEF StartsHold, TripHolds
    <2>2. TripHolds(q)'
      BY <1>4, <2>1
    <2> QED
      BY <2>1, <2>2 DEF TripHolds
  <1>6. Len(starts') <= MaxStarts
    BY <1>2 DEF StartsHold
  <1>7. StartsHold'
    BY <1>2, <1>5, <1>6 DEF StartsHold
  <1> QED
    BY <1>1, <1>2, <1>7

(* How many starts are over: no more than there are, and no fewer than      *)
(* before while none begins again.                                          *)
LEMMA OverIsFinite ==
  ASSUME NEW trips \in Seq(Trip)
  PROVE  LET over == {t \in DOMAIN trips : trips[t].at = "over"}
         IN  IsFiniteSet(over) /\ Cardinality(over) \in Nat /\ Cardinality(over) <= Len(trips)
  <1> DEFINE over == {t \in DOMAIN trips : trips[t].at = "over"}
  <1>1. Len(trips) \in Nat /\ DOMAIN trips = 1..Len(trips)
    OBVIOUS
  <1>2. IsFiniteSet(1..Len(trips)) /\ Cardinality(1..Len(trips)) = Len(trips)
    <2>1. 1 \in Int /\ Len(trips) \in Int /\ (1 > Len(trips) => Len(trips) = 0)
      BY <1>1
    <2>2. /\ IsFiniteSet(1..Len(trips))
          /\ Cardinality(1..Len(trips)) = IF 1 > Len(trips) THEN 0 ELSE Len(trips) - 1 + 1
      BY <2>1, FS_Interval
    <2> QED
      BY <1>1, <2>1, <2>2
  <1>3. over \subseteq 1..Len(trips)
    BY <1>1
  <1>4. IsFiniteSet(over) /\ Cardinality(over) <= Len(trips)
    BY <1>2, <1>3, FS_Subset
  <1> QED
    BY <1>4, FS_CardinalityType

LEMMA WhatIsOverStays ==
  ASSUME SessionsHold, StartsHold, StartsHold', RowsComeOfStarts, UNCHANGED users,
         \A t \in DOMAIN starts : t \in DOMAIN starts' /\ (starts[t].at = "over" => starts'[t].at = "over")
  PROVE  RowsComeOfStarts'
  <1>1. TripsOver \subseteq TripsOver'
    BY DEF TripsOver
  <1>2. IsFiniteSet(TripsOver') /\ Cardinality(TripsOver') \in Nat
    <2>1. starts' \in Seq(Trip)
      BY DEF StartsHold
    <2> QED
      BY <2>1, OverIsFinite DEF TripsOver
  <1>3. Cardinality(TripsOver) <= Cardinality(TripsOver')
    BY <1>1, <1>2, FS_Subset
  <1>4. Cardinality(TripsOver) \in Nat /\ Len(users) \in Nat
    BY OverIsFinite, LenTypes DEF StartsHold, TripsOver
  <1>5. (Len(users) <= Cardinality(TripsOver))'
    BY <1>2, <1>3, <1>4 DEF RowsComeOfStarts
  <1> QED
    BY <1>5 DEF RowsComeOfStarts

-----------------------------------------------------------------------------
(* At the providers.                                                        *)
LEMMA ATripStep ==
  ASSUME Inv, NEW t \in DOMAIN starts, NEW s, TripHolds(s), starts' = [starts EXCEPT ![t] = s],
         starts[t].at = "over" => s.at = "over",
         UNCHANGED <<now, addressOf, users, sessions, signedOut, tokens, request>>, LinksHold',
         cookies' \in [session : 0..Len(sessions), google : 0..Len(starts), github : 0..Len(starts)]
  PROVE  Inv'
  <1>1. SessionsHold /\ StartsHold /\ RowsComeOfStarts
    BY DEF Inv
  <1>2. StartsHold' /\ Len(starts') = Len(starts) /\ starts'[t] = s
    BY <1>1, AStartChanges
  <1>3. SessionsHold'
    BY <1>1 DEF SessionsHold
  <1>4. CookiesHold'
    BY <1>2 DEF CookiesHold
  <1>5. RowsComeOfStarts'
    <2>1. \A u \in DOMAIN starts : u \in DOMAIN starts' /\ (starts[u].at = "over" => starts'[u].at = "over")
      BY <1>2
    <2> QED
      BY <1>1, <1>2, <2>1, WhatIsOverStays
  <1>6. CacheHolds' /\ RequestsHold' /\ now' \in 0..MaxTime
    BY DEF Inv, CacheHolds, RequestsHold, RequestHolds
  <1> QED
    BY <1>2, <1>3, <1>4, <1>5, <1>6 DEF Inv

(* A start that comes back, and one that is exchanged.                      *)
Back(r, who, cookie, session) ==
  [r EXCEPT !.at = "back", !.who = who, !.cookie = cookie, !.session = session]
Exchanged(r, by, address) == [r EXCEPT !.at = "exchanged", !.by = by, !.address = address]

LEMMA BackIsATrip ==
  ASSUME NEW r \in Trip, NEW who \in People \cup Accounts \cup {Nobody}, NEW cookie \in Nat, NEW session \in Nat,
         NEW s, s = Back(r, who, cookie, session)
  PROVE  /\ s \in Trip /\ s.at = "back" /\ s.who = who /\ s.provider = r.provider
         /\ s.cookie = cookie /\ s.session = session /\ s.by = r.by
  <1> DEFINE r1 == [r EXCEPT !.at = "back"]
             r2 == [r1 EXCEPT !.who = who]
             r3 == [r2 EXCEPT !.cookie = cookie]
             r4 == [r3 EXCEPT !.session = session]
  <1>1. r1 \in Trip /\ r1.at = "back" /\ r1.provider = r.provider /\ r1.by = r.by
    BY DEF Trip, Stages
  <1> HIDE DEF r1
  <1>2. r2 \in Trip /\ r2.at = "back" /\ r2.who = who /\ r2.provider = r.provider /\ r2.by = r.by
    BY <1>1 DEF Trip
  <1> HIDE DEF r2
  <1>3. r3 \in Trip /\ r3.at = "back" /\ r3.who = who /\ r3.cookie = cookie /\ r3.provider = r.provider /\ r3.by = r.by
    BY <1>2 DEF Trip
  <1> HIDE DEF r3
  <1>4. /\ r4 \in Trip /\ r4.at = "back" /\ r4.who = who /\ r4.cookie = cookie /\ r4.session = session
        /\ r4.provider = r.provider /\ r4.by = r.by
    BY <1>3 DEF Trip
  <1>5. r4 = Back(r, who, cookie, session)
    BY DEF r1, r2, r3, Back
  <1> QED
    BY <1>4, <1>5

LEMMA ExchangedIsATrip ==
  ASSUME NEW r \in Trip, NEW by \in Nat, NEW address \in Addresses \cup {Nobody}
  PROVE  LET s == Exchanged(r, by, address)
         IN  /\ s \in Trip /\ s.at = "exchanged" /\ s.who = r.who /\ s.provider = r.provider
             /\ s.cookie = r.cookie /\ s.session = r.session /\ s.by = by /\ s.address = address
  <1> DEFINE r1 == [r EXCEPT !.at = "exchanged"]
             r2 == [r1 EXCEPT !.by = by]
             r3 == [r2 EXCEPT !.address = address]
             Same(q) == q.who = r.who /\ q.provider = r.provider /\ q.cookie = r.cookie /\ q.session = r.session
  <1>1. r1 \in Trip /\ r1.at = "exchanged" /\ Same(r1)
    BY DEF Trip, Stages
  <1> HIDE DEF r1
  <1>2. r2 \in Trip /\ r2.at = "exchanged" /\ r2.by = by /\ Same(r2)
    BY <1>1 DEF Trip
  <1> HIDE DEF r2
  <1>3. r3 \in Trip /\ r3.at = "exchanged" /\ r3.by = by /\ r3.address = address /\ Same(r3)
    BY <1>2 DEF Trip
  <1>4. r3 = Exchanged(r, by, address)
    BY DEF r1, r2, Exchanged
  <1> QED
    BY <1>3, <1>4

(* The cookie of a provider, and the start it was of, when that is over.    *)
LEMMA CookieOfAStart ==
  ASSUME Inv, NEW t \in DOMAIN starts
  PROVE  /\ TripHolds(starts[t])
         /\ cookies \in [session : 0..Len(sessions), google : 0..Len(starts), github : 0..Len(starts)]
         /\ [cookies EXCEPT ![starts[t].provider] = 0]
               \in [session : 0..Len(sessions), google : 0..Len(starts), github : 0..Len(starts)]
         /\ TripHolds([starts[t] EXCEPT !.at = "over"])
         /\ [starts[t] EXCEPT !.at = "over"].at = "over"
  <1>1. TripHolds(starts[t])
    BY DEF Inv, StartsHold
  <1>2. starts[t] \in Trip
    BY <1>1 DEF TripHolds
  <1>3. cookies \in [session : 0..Len(sessions), google : 0..Len(starts), github : 0..Len(starts)]
    BY DEF Inv, CookiesHold
  <1>4. 0 \in 0..Len(starts)
    BY LenTypes DEF Inv
  <1>5. [cookies EXCEPT ![starts[t].provider] = 0]
               \in [session : 0..Len(sessions), google : 0..Len(starts), github : 0..Len(starts)]
    <2>1. starts[t].provider = "google" \/ starts[t].provider = "github"
      BY <1>2 DEF Trip, Providers
    <2> QED
      BY <1>3, <1>4, <2>1
  <1>6. [starts[t] EXCEPT !.at = "over"] \in Trip
    BY <1>2 DEF Trip, Stages
  <1>7. TripHolds([starts[t] EXCEPT !.at = "over"])
    BY <1>1, <1>2, <1>6 DEF TripHolds, Trip
  <1> QED
    BY <1>1, <1>2, <1>3, <1>5, <1>7 DEF Trip

(* What ends a start and takes its cookie.                                  *)
LEMMA EndsKeeps ==
  ASSUME Inv, NEW t \in DOMAIN starts, Ends(t), LinksHold',
         UNCHANGED <<now, addressOf, users, sessions, signedOut, tokens, request>>
  PROVE  Inv'
  <1> DEFINE s == [starts[t] EXCEPT !.at = "over"]
  <1>1. starts' = [starts EXCEPT ![t] = s] /\ cookies' = [cookies EXCEPT ![starts[t].provider] = 0]
    BY DEF Ends
  <1>2. /\ TripHolds(s) /\ s.at = "over"
        /\ cookies' \in [session : 0..Len(sessions), google : 0..Len(starts), github : 0..Len(starts)]
    BY <1>1, CookieOfAStart
  <1> HIDE DEF s
  <1> QED
    BY <1>1, <1>2, ATripStep

LEMMA DeclineKeeps ==
  ASSUME Inv, NEW t \in DOMAIN starts, Decline(t)
  PROVE  Inv'
  <1> DEFINE s == [starts[t] EXCEPT !.at = "over"]
  <1>1. starts' = [starts EXCEPT ![t] = s]
    BY DEF Decline
  <1>2. /\ TripHolds(s) /\ s.at = "over"
        /\ cookies' \in [session : 0..Len(sessions), google : 0..Len(starts), github : 0..Len(starts)]
    BY CookieOfAStart DEF Decline
  <1>3. LinksHold' /\ UNCHANGED <<now, addressOf, users, sessions, signedOut, tokens, request>>
    BY DEF Decline, Inv, LinksHold
  <1> HIDE DEF s
  <1> QED
    BY <1>1, <1>2, <1>3, ATripStep

LEMMA ReturnKeeps ==
  ASSUME Inv, NEW t \in DOMAIN starts, NEW who, Return(t, who)
  PROVE  Inv'
  <1>1. TripHolds(starts[t]) /\ starts[t] \in Trip /\ starts[t].at = "away"
    BY CookieOfAStart DEF TripHolds, Return
  <1>2. cookies \in [session : 0..Len(sessions), google : 0..Len(starts), github : 0..Len(starts)]
    BY CookieOfAStart
  <1>3. /\ who \in IF starts[t].provider = "google" THEN People ELSE Accounts
        /\ who \in People \cup Accounts \cup {Nobody}
    BY DEF Return
  <1>4. Len(starts) \in Nat /\ Len(sessions) \in Nat
    BY LenTypes DEF Inv
  <1>5. PICK r \in Trip, cookie \in Nat, session \in Nat :
           /\ r = starts[t] /\ cookie = cookies[starts[t].provider] /\ session = cookies.session
           /\ cookie <= Len(starts) /\ session <= Len(sessions)
    <2>1. starts[t].provider = "google" \/ starts[t].provider = "github"
      BY <1>1 DEF Trip, Providers
    <2>2. cookies[starts[t].provider] \in 0..Len(starts) /\ cookies.session \in 0..Len(sessions)
      BY <1>2, <2>1
    <2> QED
      BY <1>1, <1>4, <2>2
  <1>6. PICK s : s = Back(r, who, cookie, session)
    OBVIOUS
  <1>7. /\ s \in Trip /\ s.at = "back" /\ s.who = who /\ s.provider = r.provider
        /\ s.cookie = cookie /\ s.session = session /\ s.by = r.by
    <2>1. who \in People \cup Accounts \cup {Nobody}
      BY <1>3
    <2> QED
      BY <1>6, <2>1, BackIsATrip
  <1>8. starts' = [starts EXCEPT ![t] = s]
    BY <1>5, <1>6 DEF Return, Back
  <1>9. LinksHold' /\ UNCHANGED <<now, addressOf, users, sessions, signedOut, tokens, request, cookies>>
    BY DEF Return, Inv, LinksHold
  <1>10. TripHolds(s)
    BY <1>1, <1>3, <1>5, <1>7 DEF TripHolds
  <1> QED
    BY <1>1, <1>2, <1>8, <1>9, <1>10, ATripStep

LEMMA RejectKeeps ==
  ASSUME Inv, NEW t \in DOMAIN starts, Reject(t)
  PROVE  Inv'
  <1>1. LinksHold' /\ UNCHANGED <<now, addressOf, users, sessions, signedOut, tokens, request>>
    BY DEF Reject, Inv, LinksHold
  <1>2. CASE Ends(t)
    BY <1>1, <1>2, EndsKeeps
  <1>3. CASE starts' = [starts EXCEPT ![t].at = "over"] /\ UNCHANGED cookies
    <2> DEFINE s == [starts[t] EXCEPT !.at = "over"]
    <2>1. starts' = [starts EXCEPT ![t] = s]
      BY <1>3
    <2>2. /\ TripHolds(s) /\ s.at = "over"
          /\ cookies' \in [session : 0..Len(sessions), google : 0..Len(starts), github : 0..Len(starts)]
      BY <1>3, CookieOfAStart
    <2> HIDE DEF s
    <2> QED
      BY <1>1, <2>1, <2>2, ATripStep
  <1> QED
    BY <1>2, <1>3 DEF Reject

LEMMA ExchangeKeeps ==
  ASSUME Inv, NEW t \in DOMAIN starts, Exchange(t)
  PROVE  Inv'
  <1>1. LinksHold' /\ UNCHANGED <<now, addressOf, users, sessions, signedOut, tokens, request>>
    BY DEF Exchange, Inv, LinksHold
  <1>2. CASE Ends(t)
    BY <1>1, <1>2, EndsKeeps
  <1>3. CASE ~Ends(t)
    <2> DEFINE by == IF starts[t].provider = "github" THEN LoadSession(starts[t].session) ELSE starts[t].by
               address == IF starts[t].provider = "google" THEN GoogleProfile(t) ELSE Nobody
               s == Exchanged(starts[t], by, address)
    <2>1. starts' = [starts EXCEPT ![t] = s] /\ UNCHANGED cookies
      BY <1>3 DEF Exchange, Exchanged
    <2>2. TripHolds(starts[t]) /\ starts[t] \in Trip /\ starts[t].at = "back"
      BY CookieOfAStart DEF TripHolds, Exchange
    <2>3. SessionsHold /\ StartsHold /\ Len(users) \in Nat /\ Len(sessions) \in Nat
      BY LenTypes DEF Inv
    <2>4. by \in 0..Len(users)
      <3>1. starts[t].session \in 0..Len(sessions) /\ starts[t].by \in 0..Len(users)
        BY <2>2, <2>3 DEF TripHolds, Trip
      <3> QED
        BY <2>3, <3>1, IdentityOfASession
    <2>5. starts[t].provider = "google" => address \in Addresses
      BY <2>2, <2>3 DEF TripHolds, GoogleProfile, SessionsHold
    <2>6. address \in Addresses \cup {Nobody}
      BY <2>5
    <2> HIDE DEF by, address
    <2>7. /\ s \in Trip /\ s.at = "exchanged" /\ s.who = starts[t].who /\ s.provider = starts[t].provider
          /\ s.cookie = starts[t].cookie /\ s.session = starts[t].session /\ s.by = by /\ s.address = address
      <3>1. by \in Nat
        BY <2>3, <2>4
      <3> QED
        BY <2>2, <2>6, <3>1, ExchangedIsATrip
    <2>8. cookies' \in [session : 0..Len(sessions), google : 0..Len(starts), github : 0..Len(starts)]
      BY <2>1, CookieOfAStart
    <2> HIDE DEF s
    <2>9. TripHolds(s)
      BY <2>2, <2>3, <2>4, <2>5, <2>7 DEF TripHolds
    <2> QED
      BY <1>1, <2>1, <2>2, <2>8, <2>9, ATripStep
  <1> QED
    BY <1>2, <1>3

LEMMA LeaveKeeps ==
  ASSUME Inv, NEW p \in Providers, Leave(p)
  PROVE  Inv'
  <1>1. SessionsHold /\ StartsHold /\ RowsComeOfStarts /\ starts \in Seq(Trip)
    BY DEF Inv, StartsHold
  <1>2. /\ Len(starts) \in Nat /\ DOMAIN starts = 1..Len(starts)
        /\ Len(users) \in Nat /\ Len(sessions) \in Nat /\ MaxStarts \in Nat
    BY <1>1, LenTypes, SignInAssumption
  <1>3. PICK s \in Trip : s = Begun(p)
    BY DEF Begun, Trip, Stages
  <1>4. TripHolds(s)
    BY <1>2, <1>3 DEF Begun, TripHolds
  <1>5. /\ starts' = Append(starts, s) /\ Len(starts) < MaxStarts
        /\ cookies' = [cookies EXCEPT ![p] = Len(starts) + 1]
        /\ UNCHANGED <<now, addressOf, users, sessions, signedOut, connections, tokens, request>>
    BY <1>3 DEF Leave
  <1>6. /\ starts' \in Seq(Trip) /\ Len(starts') = Len(starts) + 1 /\ DOMAIN starts' = 1..Len(starts) + 1
        /\ \A t \in 1..Len(starts) : starts'[t] = starts[t]
        /\ starts'[Len(starts) + 1] = s
    BY <1>1, <1>5
  <1>7. StartsHold'
    <2>1. ASSUME NEW q \in Trip, TripHolds(q) PROVE TripHolds(q)'
      <3>1. q.cookie \in Nat /\ q.cookie <= Len(starts)
        BY <2>1 DEF Trip, TripHolds
      <3>2. q.cookie <= Len(starts')
        BY <1>2, <1>6, <3>1
      <3> QED
        BY <1>5, <2>1, <3>2 DEF TripHolds
    <2>2. ASSUME NEW u \in DOMAIN starts' PROVE TripHolds(starts[u])'
      <3>1. PICK q \in Trip : q = starts'[u] /\ TripHolds(q)
        <4>1. u \in 1..Len(starts) \/ u = Len(starts) + 1
          BY <1>2, <1>6
        <4>2. CASE u \in 1..Len(starts)
          BY <1>1, <1>2, <1>6, <4>2 DEF StartsHold, TripHolds
        <4>3. CASE u = Len(starts) + 1
          BY <1>4, <1>6, <4>3
        <4> QED
          BY <4>1, <4>2, <4>3
      <3>2. TripHolds(q)'
        BY <2>1, <3>1
      <3> QED
        BY <3>1, <3>2 DEF TripHolds
    <2>3. Len(starts') <= MaxStarts
      BY <1>2, <1>5, <1>6
    <2> QED
      BY <1>6, <2>2, <2>3 DEF StartsHold
  <1>8. SessionsHold'
    BY <1>1, <1>5 DEF SessionsHold
  <1>9. CookiesHold'
    <2>1. cookies \in [session : 0..Len(sessions), google : 0..Len(starts), github : 0..Len(starts)]
      BY DEF Inv, CookiesHold
    <2>2. p = "google" \/ p = "github"
      BY DEF Providers
    <2> QED
      BY <1>2, <1>5, <1>6, <2>1, <2>2 DEF CookiesHold
  <1>10. RowsComeOfStarts'
    <2>1. \A u \in DOMAIN starts : u \in DOMAIN starts' /\ (starts[u].at = "over" => starts'[u].at = "over")
      BY <1>2, <1>6
    <2>2. UNCHANGED users
      BY <1>5
    <2> QED
      BY <1>1, <1>7, <2>1, <2>2, WhatIsOverStays
  <1>11. LinksHold' /\ CacheHolds' /\ RequestsHold' /\ now' \in 0..MaxTime
    BY <1>5 DEF Inv, LinksHold, CacheHolds, RequestsHold, RequestHolds
  <1> QED
    BY <1>7, <1>8, <1>9, <1>10, <1>11 DEF Inv

LEMMA ForgetKeeps ==
  ASSUME Inv, NEW p \in Providers, Forget(p)
  PROVE  Inv'
  <1>1. /\ cookies' = [cookies EXCEPT ![p] = 0]
        /\ UNCHANGED <<now, addressOf, users, sessions, signedOut, starts, connections, tokens, request>>
    BY DEF Forget
  <1>2. CookiesHold'
    <2>1. cookies \in [session : 0..Len(sessions), google : 0..Len(starts), github : 0..Len(starts)]
      BY DEF Inv, CookiesHold
    <2>2. 0 \in 0..Len(starts)
      BY LenTypes DEF Inv
    <2>3. p = "google" \/ p = "github"
      BY DEF Providers
    <2> QED
      BY <1>1, <2>1, <2>2, <2>3 DEF CookiesHold
  <1>3. SessionsHold' /\ StartsHold' /\ RowsComeOfStarts'
    BY <1>1 DEF Inv, SessionsHold, StartsHold, TripHolds, RowsComeOfStarts, TripsOver
  <1>4. LinksHold' /\ CacheHolds' /\ RequestsHold' /\ now' \in 0..MaxTime
    BY <1>1 DEF Inv, LinksHold, CacheHolds, RequestsHold, RequestHolds
  <1> QED
    BY <1>2, <1>3, <1>4 DEF Inv

LEMMA ChangeAddressKeeps ==
  ASSUME Inv, NEW person \in People, NEW address \in Addresses, ChangeAddress(person, address)
  PROVE  Inv'
  <1>1. /\ addressOf' = [addressOf EXCEPT ![person] = address]
        /\ UNCHANGED <<now, users, sessions, signedOut, cookies, starts, connections, tokens, request>>
    BY DEF ChangeAddress
  <1>2. SessionsHold'
    BY <1>1 DEF Inv, SessionsHold
  <1>3. CookiesHold' /\ StartsHold' /\ RowsComeOfStarts'
    BY <1>1 DEF Inv, CookiesHold, StartsHold, TripHolds, RowsComeOfStarts, TripsOver
  <1>4. LinksHold' /\ CacheHolds' /\ RequestsHold' /\ now' \in 0..MaxTime
    BY <1>1 DEF Inv, LinksHold, CacheHolds, RequestsHold, RequestHolds
  <1> QED
    BY <1>2, <1>3, <1>4 DEF Inv

(* A link is to an installation the account can reach.                      *)
LEMMA LinkedKeeps ==
  ASSUME Inv, NEW t \in DOMAIN starts, Linked(t)
  PROVE  Inv'
  <1>1. TripHolds(starts[t]) /\ starts[t].at = "exchanged" /\ starts[t].provider = "github"
    BY CookieOfAStart DEF Linked
  <1>2. starts[t].who \in Accounts
    BY <1>1 DEF TripHolds
  <1>3. GitHubReach(t) \in Installations \cup {Nobody}
    <2>1. PICK who \in Accounts : who = starts[t].who
      BY <1>2
    <2>2. ReachOf[who] \in Seq(Installations)
      BY SignInAssumption
    <2>3. ReachOf[who] # <<>> => Head(ReachOf[who]) \in Installations
      BY <2>2, HeadTailProperties
    <2> QED
      BY <2>1, <2>3 DEF GitHubReach
  <1>4. Link(starts[t].who, GitHubReach(t)) \in Connection
    BY <1>2, <1>3 DEF Link, Connection
  <1>5. LinksHold'
    BY <1>4 DEF Inv, LinksHold, Linked
  <1>6. Ends(t) /\ UNCHANGED <<now, addressOf, users, sessions, signedOut, tokens, request>>
    BY DEF Linked
  <1> QED
    BY <1>5, <1>6, EndsKeeps

(* Signing in leaves every row with the account it is of, and the session   *)
(* it makes is of the row of the account that signed in: the sub is the     *)
(* key, and the address follows it.                                         *)
LEMMA TheirOwnRow ==
  ASSUME SessionsHold, StartsHold, NEW who \in People, NEW address \in Addresses
  PROVE  LET upserted == Upserted(who, address)
         IN  /\ upserted.rows \in Seq(UserRow)
             /\ Len(upserted.rows) \in Len(users)..Len(users) + 1
             /\ \A u \in 1..Len(users) : upserted.rows[u].sub = users[u].sub
             /\ upserted.id \in 1..Len(upserted.rows)
             /\ upserted.rows[upserted.id].sub = who
  <1> DEFINE theirs == RowOf(who, address)
             row(sub) == [sub |-> sub, email |-> address]
  <1>1. users \in Seq(UserRow) /\ Len(users) \in Nat /\ DOMAIN users = 1..Len(users)
    BY LenTypes DEF SessionsHold
  <1>2. CASE theirs = {}
    <2> DEFINE userRows == Append(users, row(who))
    <2>1. Upserted(who, address) = [id |-> Len(users) + 1, rows |-> userRows]
      BY <1>2 DEF Upserted
    <2>2. row(who) \in UserRow /\ row(who).sub = who
      BY DEF UserRow
    <2>3. /\ userRows \in Seq(UserRow) /\ Len(userRows) = Len(users) + 1
          /\ \A u \in 1..Len(users) : userRows[u] = users[u]
          /\ userRows[Len(users) + 1] = row(who)
      BY <1>1, <2>2
    <2> HIDE DEF userRows, row
    <2>4. Len(userRows) \in Len(users)..Len(users) + 1 /\ Len(users) + 1 \in 1..Len(userRows)
      BY <1>1, <2>3
    <2> QED
      BY <2>1, <2>2, <2>3, <2>4
  <1>3. CASE theirs # {}
    <2> DEFINE u == CHOOSE u \in theirs : TRUE
               mine == row(users[u].sub)
               userRows == [users EXCEPT ![u] = mine]
    <2>1. u \in 1..Len(users) /\ users[u].sub = who
      BY <1>1, <1>3 DEF RowOf
    <2>2. Upserted(who, address) = [id |-> u, rows |-> userRows]
      BY <1>3 DEF Upserted
    <2>3. mine \in UserRow /\ mine.sub = who
      BY <2>1 DEF UserRow
    <2> HIDE DEF u, mine
    <2>4. /\ userRows \in Seq(UserRow) /\ Len(userRows) = Len(users)
          /\ \A v \in 1..Len(users) : userRows[v] = IF v = u THEN mine ELSE users[v]
      BY <1>1, <2>1, <2>3, ExceptSeq
    <2> HIDE DEF userRows
    <2>5. \A v \in 1..Len(users) : userRows[v].sub = users[v].sub
      BY <2>1, <2>3, <2>4
    <2>6. userRows[u].sub = who /\ u \in 1..Len(userRows) /\ Len(userRows) \in Len(users)..Len(users) + 1
      BY <1>1, <2>1, <2>3, <2>4
    <2> QED
      BY <2>2, <2>4, <2>5, <2>6
  <1> QED
    BY <1>2, <1>3

(* One start more is over, for at most one row more.                        *)
LEMMA ARowForAStart ==
  ASSUME SessionsHold, StartsHold, RowsComeOfStarts, StartsHold', NEW t \in DOMAIN starts,
         starts[t].at # "over", starts'[t].at = "over", Len(starts') = Len(starts),
         \A u \in DOMAIN starts : u # t => starts'[u] = starts[u],
         Len(users') \in Len(users)..Len(users) + 1
  PROVE  RowsComeOfStarts'
  <1>1. starts \in Seq(Trip) /\ starts' \in Seq(Trip)
    BY DEF StartsHold
  <1>2. DOMAIN starts' = DOMAIN starts
    BY <1>1
  <1>3. TripsOver' = TripsOver \cup {t} /\ t \notin TripsOver
    BY <1>2 DEF TripsOver
  <1>4. IsFiniteSet(TripsOver) /\ Cardinality(TripsOver) \in Nat
    BY <1>1, OverIsFinite DEF TripsOver
  <1>5. Cardinality(TripsOver') = Cardinality(TripsOver) + 1
    BY <1>3, <1>4, FS_AddElement
  <1>6. Len(users) \in Nat /\ Len(users) <= Cardinality(TripsOver) /\ Len(users') <= Len(users) + 1
    BY LenTypes DEF RowsComeOfStarts
  <1>7. Len(users') \in Nat
    BY <1>6
  <1> QED
    BY <1>4, <1>5, <1>6, <1>7 DEF RowsComeOfStarts

(* What a request knows holds on while users and sessions come.             *)
LEMMA RequestsStay ==
  ASSUME RequestsHold, Len(users) \in Nat, Len(sessions) \in Nat,
         Len(users') \in Nat, Len(sessions') \in Nat,
         Len(users) <= Len(users'), Len(sessions) <= Len(sessions'), UNCHANGED <<now, request>>
  PROVE  RequestsHold'
  <1>1. ASSUME NEW q \in Asked, RequestHolds(q) PROVE RequestHolds(q)'
    <2>1. q.session \in Nat /\ q.user \in Nat
      BY DEF Asked
    <2>2. q.session <= Len(sessions') /\ q.user <= Len(users')
      BY <1>1, <2>1 DEF RequestHolds
    <2> QED
      BY <1>1, <2>2 DEF RequestHolds
  <1>2. ASSUME NEW r \in Requests PROVE RequestHolds(request[r])'
    <2>1. PICK q \in Asked : q = request[r] /\ RequestHolds(q)
      BY DEF RequestsHold
    <2>2. RequestHolds(q)'
      BY <1>1, <2>1
    <2> QED
      BY <2>1, <2>2 DEF RequestHolds
  <1> QED
    BY <1>2 DEF RequestsHold

LEMMA SignedInKeeps ==
  ASSUME Inv, NEW t \in DOMAIN starts, SignedIn(t)
  PROVE  Inv'
  <1>1. SessionsHold /\ StartsHold /\ RowsComeOfStarts /\ RequestsHold /\ now \in Nat
    BY SignInAssumption DEF Inv
  <1>2. /\ Len(starts) \in Nat /\ DOMAIN starts = 1..Len(starts)
        /\ Len(users) \in Nat /\ DOMAIN users = 1..Len(users)
        /\ Len(sessions) \in Nat /\ DOMAIN sessions = 1..Len(sessions)
    BY <1>1, LenTypes
  <1>3. TripHolds(starts[t]) /\ starts[t].at = "exchanged" /\ starts[t].provider = "google"
    BY CookieOfAStart DEF SignedIn
  <1>4. PICK who \in People, address \in Addresses : who = starts[t].who /\ address = starts[t].address
    BY <1>3 DEF TripHolds
  <1>5. PICK id, userRows : id = Upserted(who, address).id /\ userRows = Upserted(who, address).rows
    OBVIOUS
  <1>6. /\ userRows \in Seq(UserRow) /\ Len(userRows) \in Len(users)..Len(users) + 1
        /\ \A u \in 1..Len(users) : userRows[u].sub = users[u].sub
        /\ id \in 1..Len(userRows) /\ userRows[id].sub = who
    BY <1>1, <1>5, TheirOwnRow
  <1>7. PICK began : began = NewSession(id, who)
    OBVIOUS
  <1>8. /\ began \in SessionRow /\ began.user = id /\ began.person = who
        /\ began.expires = began.born + SESSION_TTL
    BY <1>1, <1>2, <1>6, <1>7, SignInAssumption DEF NewSession, SessionRow
  <1>9. /\ users' = userRows /\ sessions' = Append(sessions, began)
        /\ starts' = [starts EXCEPT ![t].at = "over"]
        /\ cookies' = [cookies EXCEPT !.google = 0, !.session = Len(sessions) + 1]
        /\ UNCHANGED <<now, addressOf, signedOut, connections, tokens, request>>
    BY <1>4, <1>5, <1>7 DEF SignedIn
  <1>10. sessions \in Seq(SessionRow)
    BY <1>1 DEF SessionsHold
  <1>11. /\ sessions' \in Seq(SessionRow) /\ Len(sessions') = Len(sessions) + 1
         /\ DOMAIN sessions' = 1..Len(sessions) + 1
         /\ \A s \in 1..Len(sessions) : sessions'[s] = sessions[s]
         /\ sessions'[Len(sessions) + 1] = began
    BY <1>2, <1>8, <1>9, <1>10
  <1>12. /\ Len(users') \in Nat /\ Len(users) <= Len(users') /\ DOMAIN users' = 1..Len(users')
         /\ Len(users') \in Len(users)..Len(users) + 1
    BY <1>2, <1>6, <1>9
  <1>13. SessionsHold'
    <2>1. ASSUME NEW s \in DOMAIN sessions'
          PROVE  /\ sessions'[s].user \in DOMAIN users' /\ users'[sessions'[s].user].sub = sessions'[s].person
                 /\ sessions'[s].expires = sessions'[s].born + SESSION_TTL
      <3>1. CASE s \in 1..Len(sessions)
        <4>1. sessions[s].user \in 1..Len(users)
          BY <1>1, <1>2, <3>1 DEF SessionsHold
        <4>2. sessions[s].user \in 1..Len(users')
          BY <1>2, <1>12, <4>1
        <4>3. userRows[sessions[s].user].sub = users[sessions[s].user].sub
          BY <1>6, <4>1
        <4> QED
          BY <1>1, <1>2, <1>9, <1>11, <1>12, <3>1, <4>2, <4>3 DEF SessionsHold
      <3>2. CASE s = Len(sessions) + 1
        BY <1>6, <1>8, <1>9, <1>11, <1>12, <3>2
      <3> QED
        BY <1>2, <1>11, <3>1, <3>2
    <2>2. signedOut' \subseteq DOMAIN sessions'
      BY <1>1, <1>2, <1>9, <1>11 DEF SessionsHold
    <2>3. \A s \in signedOut' : ~sessions'[s].row
      BY <1>1, <1>2, <1>9, <1>11 DEF SessionsHold
    <2>4. addressOf' \in [People -> Addresses] /\ users' \in Seq(UserRow)
      BY <1>1, <1>6, <1>9 DEF SessionsHold
    <2> QED
      BY <1>11, <2>1, <2>2, <2>3, <2>4 DEF SessionsHold
  <1>14. PICK s \in Trip : /\ s = [starts[t] EXCEPT !.at = "over"] /\ TripHolds(s) /\ s.at = "over"
    BY CookieOfAStart DEF TripHolds
  <1>15. /\ starts' \in Seq(Trip) /\ Len(starts') = Len(starts) /\ DOMAIN starts' = 1..Len(starts)
         /\ \A u \in 1..Len(starts) : starts'[u] = IF u = t THEN s ELSE starts[u]
    <2>1. starts \in Seq(Trip) /\ t \in 1..Len(starts)
      BY <1>1, <1>2 DEF StartsHold
    <2>2. starts' = [starts EXCEPT ![t] = s]
      BY <1>9, <1>14
    <2>3. /\ starts' \in Seq(Trip) /\ Len(starts') = Len(starts)
          /\ \A u \in 1..Len(starts) : starts'[u] = IF u = t THEN s ELSE starts[u]
      BY <2>1, <2>2, ExceptSeq
    <2> QED
      BY <1>2, <2>3
  <1>16. StartsHold'
    <2>1. ASSUME NEW q \in Trip, TripHolds(q) PROVE TripHolds(q)'
      <3>1. q.session \in Nat /\ q.session <= Len(sessions) /\ q.by \in Nat /\ q.by <= Len(users)
        BY <2>1 DEF Trip, TripHolds
      <3>2. q.session <= Len(sessions') /\ q.by <= Len(users')
        BY <1>2, <1>11, <1>12, <3>1
      <3> QED
        BY <1>15, <2>1, <3>2 DEF TripHolds
    <2>2. ASSUME NEW u \in DOMAIN starts' PROVE TripHolds(starts[u])'
      <3>1. PICK q \in Trip : q = starts'[u] /\ TripHolds(q)
        BY <1>1, <1>2, <1>14, <1>15 DEF StartsHold, TripHolds
      <3>2. TripHolds(q)'
        BY <2>1, <3>1
      <3> QED
        BY <3>1, <3>2 DEF TripHolds
    <2> QED
      BY <1>1, <1>15, <2>2 DEF StartsHold
  <1>17. RowsComeOfStarts'
    <2>1. starts[t].at # "over" /\ starts'[t].at = "over" /\ \A u \in DOMAIN starts : u # t => starts'[u] = starts[u]
      BY <1>2, <1>3, <1>14, <1>15
    <2> QED
      BY <1>1, <1>12, <1>15, <1>16, <2>1, ARowForAStart
  <1>18. CookiesHold'
    <2>1. cookies \in [session : 0..Len(sessions), google : 0..Len(starts), github : 0..Len(starts)]
      BY DEF Inv, CookiesHold
    <2>2. Len(sessions) + 1 \in 0..Len(sessions') /\ 0 \in 0..Len(starts')
      BY <1>2, <1>11, <1>15
    <2>3. cookies' = [session |-> Len(sessions) + 1, google |-> 0, github |-> cookies.github]
      BY <1>9, <2>1
    <2> QED
      BY <1>15, <2>1, <2>2, <2>3 DEF CookiesHold
  <1>19. RequestsHold'
    BY <1>1, <1>2, <1>9, <1>11, <1>12, RequestsStay
  <1>20. LinksHold' /\ CacheHolds' /\ now' \in 0..MaxTime
    BY <1>9 DEF Inv, LinksHold, CacheHolds
  <1> QED
    BY <1>13, <1>16, <1>17, <1>18, <1>19, <1>20 DEF Inv

-----------------------------------------------------------------------------
(* In a request.                                                            *)

(* A request that becomes one that holds.                                   *)
LEMMA ARequestStep ==
  ASSUME Inv, NEW r \in Requests, NEW q \in Asked, RequestHolds(q), request' = [request EXCEPT ![r] = q],
         UNCHANGED <<now, addressOf, users, sessions, signedOut, cookies, starts>>, LinksHold', CacheHolds'
  PROVE  Inv'
  <1>1. RequestsHold'
    <2>1. RequestsHold
      BY DEF Inv
    <2>2. request' \in [Requests -> Asked]
      BY <2>1 DEF RequestsHold
    <2>3. ASSUME NEW p \in Requests PROVE RequestHolds(request[p])'
      <3>1. PICK o \in Asked : o = request'[p] /\ RequestHolds(o)
        BY <2>1 DEF RequestsHold
      <3> QED
        BY <3>1 DEF RequestHolds
    <2> QED
      BY <2>2, <2>3 DEF RequestsHold
  <1>2. SessionsHold' /\ CookiesHold' /\ StartsHold' /\ RowsComeOfStarts' /\ now' \in 0..MaxTime
    BY DEF Inv, SessionsHold, CookiesHold, StartsHold, TripHolds, RowsComeOfStarts, TripsOver
  <1> QED
    BY <1>1, <1>2 DEF Inv

LEMMA IdleHolds == ASSUME Inv PROVE Idle \in Asked /\ RequestHolds(Idle)
  <1>1. Idle \in Asked
    BY DEF Idle, NoToken, Asked, Phases, Token
  <1>2. Len(sessions) \in Nat /\ Len(users) \in Nat
    BY LenTypes DEF Inv
  <1> QED
    BY <1>1, <1>2 DEF RequestHolds, Idle

(* Every user there is has a row to link: users come of starts.             *)
LEMMA UsersHaveLinks == ASSUME Inv PROVE 1..Len(users) \subseteq UserIds
  <1>1. StartsHold /\ Len(users) \in Nat /\ Len(users) <= Cardinality(TripsOver)
    BY LenTypes DEF Inv, RowsComeOfStarts
  <1>2. starts \in Seq(Trip) /\ Len(starts) \in Nat /\ Len(starts) <= MaxStarts
    BY <1>1 DEF StartsHold
  <1>3. Cardinality(TripsOver) \in Nat /\ Cardinality(TripsOver) <= Len(starts)
    BY <1>2, OverIsFinite DEF TripsOver
  <1>4. MaxStarts \in Nat /\ Len(users) <= MaxStarts
    BY <1>1, <1>2, <1>3, SignInAssumption
  <1> QED
    BY <1>1, <1>4 DEF UserIds

LEMMA ARequest ==
  ASSUME Inv, NEW r \in Requests
  PROVE  request[r] \in Asked /\ RequestHolds(request[r])
  BY DEF Inv, RequestsHold

LEMMA AskKeeps ==
  ASSUME Inv, NEW r \in Requests, NEW kind \in {"repositories", "disconnect", "logout"}, Ask(r, kind)
  PROVE  Inv'
  <1>1. PICK q : q = [Idle EXCEPT !.phase = kind, !.session = cookies.session]
    OBVIOUS
  <1>2. cookies.session \in Nat /\ cookies.session <= Len(sessions) /\ cookies.session # 0
    BY LenTypes DEF Inv, CookiesHold, Ask
  <1>3. Idle \in Asked /\ RequestHolds(Idle)
    BY IdleHolds
  <1>4. q \in Asked /\ q.phase = kind /\ q.session = cookies.session /\ q.user = 0
    BY <1>1, <1>2 DEF Idle, NoToken, Asked, Phases, Token
  <1>5. Len(users) \in Nat
    BY LenTypes DEF Inv
  <1>6. RequestHolds(q)
    BY <1>2, <1>4, <1>5 DEF RequestHolds
  <1>7. /\ request' = [request EXCEPT ![r] = q]
        /\ UNCHANGED <<now, addressOf, users, sessions, signedOut, cookies, starts, connections, tokens>>
    BY <1>1 DEF Ask
  <1>8. LinksHold' /\ CacheHolds'
    BY <1>7 DEF Inv, LinksHold, CacheHolds
  <1> QED
    BY <1>4, <1>6, <1>7, <1>8, ARequestStep

LEMMA DoneKeeps ==
  ASSUME Inv, NEW r \in Requests, Done(r), LinksHold', CacheHolds',
         UNCHANGED <<now, addressOf, users, sessions, signedOut, cookies, starts>>
  PROVE  Inv'
  BY IdleHolds, ARequestStep DEF Done

(* Signing out takes the session's row, and nobody's but its own.           *)
LEMMA LogOutKeeps ==
  ASSUME Inv, NEW r \in Requests, LogOut(r)
  PROVE  Inv'
  <1>1. SessionsHold /\ StartsHold /\ RequestsHold
    BY DEF Inv
  <1>2. /\ sessions \in Seq(SessionRow) /\ Len(sessions) \in Nat /\ DOMAIN sessions = 1..Len(sessions)
        /\ Len(users) \in Nat
    BY <1>1, LenTypes DEF SessionsHold
  <1>3. PICK s \in 1..Len(sessions) : s = request[r].session
    BY <1>2, ARequest DEF LogOut, RequestHolds, Asked
  <1>4. PICK gone \in SessionRow : /\ gone = [sessions[s] EXCEPT !.row = FALSE] /\ ~gone.row
                                   /\ gone.user = sessions[s].user /\ gone.person = sessions[s].person
                                   /\ gone.expires = sessions[s].expires /\ gone.born = sessions[s].born
    <2>1. PICK o \in SessionRow : o = sessions[s]
      BY <1>2
    <2>2. PICK gone : gone = [o EXCEPT !.row = FALSE]
      OBVIOUS
    <2>3. /\ gone \in SessionRow /\ ~gone.row /\ gone.user = o.user /\ gone.person = o.person
          /\ gone.expires = o.expires /\ gone.born = o.born
      BY <2>2 DEF SessionRow
    <2> QED
      BY <2>1, <2>2, <2>3
  <1>5. /\ sessions' = [sessions EXCEPT ![s] = gone] /\ signedOut' = signedOut \cup {s}
        /\ cookies' = [cookies EXCEPT !.session = 0] /\ request' = [request EXCEPT ![r] = Idle]
        /\ UNCHANGED <<now, addressOf, users, starts, connections, tokens>>
    BY <1>3, <1>4 DEF LogOut, Done
  <1>6. /\ sessions' \in Seq(SessionRow) /\ Len(sessions') = Len(sessions) /\ DOMAIN sessions' = 1..Len(sessions)
        /\ \A u \in 1..Len(sessions) : sessions'[u] = IF u = s THEN gone ELSE sessions[u]
    <2>1. /\ sessions' \in Seq(SessionRow) /\ Len(sessions') = Len(sessions)
          /\ \A u \in 1..Len(sessions) : sessions'[u] = IF u = s THEN gone ELSE sessions[u]
      BY <1>2, <1>5, ExceptSeq
    <2> QED
      BY <1>2, <2>1
  <1>7. SessionsHold'
    <2>1. ASSUME NEW u \in DOMAIN sessions'
          PROVE  /\ sessions'[u].user \in DOMAIN users' /\ users'[sessions'[u].user].sub = sessions'[u].person
                 /\ sessions'[u].expires = sessions'[u].born + SESSION_TTL
      BY <1>1, <1>2, <1>4, <1>5, <1>6 DEF SessionsHold
    <2>2. signedOut' \subseteq DOMAIN sessions' /\ \A u \in signedOut' : ~sessions'[u].row
      BY <1>1, <1>2, <1>4, <1>5, <1>6 DEF SessionsHold
    <2>3. addressOf' \in [People -> Addresses] /\ users' \in Seq(UserRow)
      BY <1>1, <1>5 DEF SessionsHold
    <2> QED
      BY <1>6, <2>1, <2>2, <2>3 DEF SessionsHold
  <1>8. StartsHold' /\ RowsComeOfStarts'
    BY <1>5, <1>6 DEF Inv, StartsHold, TripHolds, RowsComeOfStarts, TripsOver
  <1>9. CookiesHold'
    <2>1. 0 \in 0..Len(sessions')
      BY <1>2, <1>6
    <2> QED
      BY <1>5, <1>6, <2>1 DEF Inv, CookiesHold
  <1>10. RequestsHold'
    <2>1. request' \in [Requests -> Asked]
      BY <1>1, <1>5, IdleHolds DEF RequestsHold
    <2>2. ASSUME NEW p \in Requests PROVE RequestHolds(request[p])'
      <3>1. PICK o \in Asked : o = request'[p] /\ RequestHolds(o)
        BY <1>1, <1>5, IdleHolds DEF RequestsHold
      <3> QED
        BY <1>5, <1>6, <3>1 DEF RequestHolds
    <2> QED
      BY <2>1, <2>2 DEF RequestsHold
  <1>11. LinksHold' /\ CacheHolds' /\ now' \in 0..MaxTime
    BY <1>5 DEF Inv, LinksHold, CacheHolds
  <1> QED
    BY <1>7, <1>8, <1>9, <1>10, <1>11 DEF Inv

LEMMA IdentifyKeeps ==
  ASSUME Inv, NEW r \in Requests, Identify(r)
  PROVE  Inv'
  <1>1. LinksHold' /\ CacheHolds' /\ UNCHANGED <<now, addressOf, users, sessions, signedOut, cookies, starts>>
    BY DEF Identify, Inv, LinksHold, CacheHolds
  <1>2. PICK o \in Asked : o = request[r] /\ RequestHolds(o)
    BY ARequest
  <1>3. PICK user : user = LoadSession(o.session)
    OBVIOUS
  <1>4. Len(sessions) \in Nat /\ Len(users) \in Nat /\ SessionsHold /\ StartsHold
    BY LenTypes DEF Inv
  <1>5. o.session \in 0..Len(sessions)
    BY <1>2, <1>4 DEF RequestHolds, Asked
  <1>6. user \in Nat /\ user <= Len(users)
    BY <1>3, <1>4, <1>5, IdentityOfASession
  <1>7. CASE user = 0
    <2>1. Done(r)
      BY <1>2, <1>3, <1>7 DEF Identify, Done
    <2> QED
      BY <1>1, <2>1, DoneKeeps
  <1>8. CASE user # 0
    <2>1. PICK q : q = [o EXCEPT !.user = user]
      OBVIOUS
    <2>2. q \in Asked /\ RequestHolds(q)
      BY <1>2, <1>6, <2>1 DEF RequestHolds, Asked
    <2>3. request' = [request EXCEPT ![r] = q]
      BY <1>2, <1>3, <1>8, <2>1 DEF Identify
    <2> QED
      BY <1>1, <2>2, <2>3, ARequestStep
  <1> QED
    BY <1>7, <1>8

LEMMA DisconnectKeeps ==
  ASSUME Inv, NEW r \in Requests, Disconnect(r)
  PROVE  Inv'
  <1>1. NotLinked \in Connection
    BY DEF NotLinked, Connection
  <1>2. /\ Done(r) /\ LinksHold' /\ CacheHolds'
        /\ UNCHANGED <<now, addressOf, users, sessions, signedOut, cookies, starts>>
    BY <1>1 DEF Disconnect, Inv, LinksHold, CacheHolds
  <1> QED
    BY <1>2, DoneKeeps

LEMMA ReadConnectionKeeps ==
  ASSUME Inv, NEW r \in Requests, ReadConnection(r)
  PROVE  Inv'
  <1>1. LinksHold' /\ CacheHolds' /\ UNCHANGED <<now, addressOf, users, sessions, signedOut, cookies, starts>>
    BY DEF ReadConnection, Inv, LinksHold, CacheHolds
  <1>2. PICK o \in Asked : o = request[r] /\ RequestHolds(o) /\ o.phase = "repositories" /\ o.user # 0
    BY ARequest DEF ReadConnection
  <1>3. PICK installation : installation = connections[o.user].installation
    OBVIOUS
  <1>4. installation \in Installations \cup {Nobody}
    <2>1. o.user \in 1..Len(users)
      BY <1>2, LenTypes DEF RequestHolds, Asked, Inv
    <2>2. o.user \in UserIds
      BY <2>1, UsersHaveLinks
    <2> QED
      BY <1>3, <2>2 DEF Inv, LinksHold, Connection
  <1>5. CASE installation = Nobody
    <2>1. Done(r)
      BY <1>2, <1>3, <1>5 DEF ReadConnection, Done
    <2> QED
      BY <1>1, <2>1, DoneKeeps
  <1>6. CASE installation # Nobody
    <2>1. PICK q : q = [o EXCEPT !.phase = "connected", !.installation = installation]
      OBVIOUS
    <2>2. /\ q \in Asked /\ q.phase = "connected" /\ q.installation \in Installations
          /\ q.session = o.session /\ q.user = o.user
      BY <1>2, <1>4, <1>6, <2>1 DEF Asked, Phases
    <2>3. RequestHolds(q)
      BY <1>2, <2>2 DEF RequestHolds
    <2>4. request' = [request EXCEPT ![r] = q]
      BY <1>2, <1>3, <1>6, <2>1 DEF ReadConnection
    <2> QED
      BY <1>1, <2>2, <2>3, <2>4, ARequestStep
  <1> QED
    BY <1>5, <1>6

(* A token to be held: of the request's installation, and with the margin   *)
(* before it.                                                               *)
LEMMA HoldKeeps ==
  ASSUME Inv, NEW r \in Requests, request[r].installation \in Installations,
         request[r].phase \in {"connected", "minting"},
         NEW token \in Token, token.of = request[r].installation, now + TOKEN_RENEW_MARGIN < token.until,
         Hold(r, token), LinksHold', CacheHolds',
         UNCHANGED <<now, addressOf, users, sessions, signedOut, cookies, starts>>
  PROVE  Inv'
  <1>1. PICK o \in Asked : o = request[r] /\ RequestHolds(o)
    BY ARequest
  <1>2. now \in Nat /\ TOKEN_RENEW_MARGIN \in Nat
    BY SignInAssumption DEF Inv
  <1>3. PICK q : q = [o EXCEPT !.phase = "holds", !.token = token, !.since = now]
    OBVIOUS
  <1>4. PICK held : held = [o EXCEPT !.phase = "holds"]
    OBVIOUS
  <1>5. PICK given : given = [held EXCEPT !.token = token]
    OBVIOUS
  <1>6. held \in Asked /\ held.phase = "holds" /\ held.installation = o.installation
        /\ held.session = o.session /\ held.user = o.user
    BY <1>4 DEF Asked, Phases
  <1>7. given \in Asked /\ given.phase = "holds" /\ given.installation = o.installation
        /\ given.session = o.session /\ given.user = o.user /\ given.token = token
    BY <1>5, <1>6 DEF Asked
  <1>8. q = [given EXCEPT !.since = now]
    BY <1>3, <1>4, <1>5
  <1>9. q \in Asked /\ q.phase = "holds" /\ q.installation = o.installation
        /\ q.session = o.session /\ q.user = o.user /\ q.token = token /\ q.since = now
    BY <1>2, <1>7, <1>8 DEF Asked
  <1>10. RequestHolds(q)
    BY <1>1, <1>2, <1>9 DEF RequestHolds
  <1>11. request' = [request EXCEPT ![r] = q]
    BY <1>1, <1>3 DEF Hold
  <1> QED
    BY <1>9, <1>10, <1>11, ARequestStep

(* The cached token, when it outlasts the margin, is of the installation    *)
(* the cache has it under: none does not last.                              *)
LEMMA CachedTokenKeeps ==
  ASSUME Inv, NEW r \in Requests, CachedToken(r)
  PROVE  Inv'
  <1>1. LinksHold' /\ CacheHolds' /\ UNCHANGED <<now, addressOf, users, sessions, signedOut, cookies, starts>>
    BY DEF CachedToken, Inv, LinksHold, CacheHolds
  <1>2. PICK o \in Asked : o = request[r] /\ RequestHolds(o) /\ o.phase = "connected"
    BY ARequest DEF CachedToken
  <1>3. o.installation \in Installations
    BY <1>2 DEF RequestHolds
  <1>4. PICK token \in Token : /\ token = tokens[o.installation]
                               /\ token.of = o.installation \/ token = NoToken
    BY <1>3 DEF Inv, CacheHolds
  <1>5. CASE Lasting(token)
    <2>1. now \in Nat /\ TOKEN_RENEW_MARGIN \in Nat /\ token.until \in Nat
      BY SignInAssumption DEF Inv, Token
    <2>2. now + TOKEN_RENEW_MARGIN < token.until
      BY <1>5, <2>1 DEF Lasting
    <2>3. token.of = o.installation
      BY <1>4, <2>1, <2>2 DEF NoToken
    <2>4. Hold(r, token)
      BY <1>2, <1>4, <1>5 DEF CachedToken, CacheKey
    <2> QED
      BY <1>1, <1>2, <1>3, <2>2, <2>3, <2>4, HoldKeeps
  <1>6. CASE ~Lasting(token)
    <2>1. PICK q : q = [o EXCEPT !.phase = "minting"]
      OBVIOUS
    <2>2. /\ q \in Asked /\ q.phase = "minting" /\ q.installation = o.installation
          /\ q.session = o.session /\ q.user = o.user
      BY <2>1 DEF Asked, Phases
    <2>3. RequestHolds(q)
      BY <1>2, <1>3, <2>2 DEF RequestHolds
    <2>4. request' = [request EXCEPT ![r] = q]
      BY <1>2, <1>4, <1>6, <2>1 DEF CachedToken, CacheKey
    <2> QED
      BY <1>1, <2>2, <2>3, <2>4, ARequestStep
  <1> QED
    BY <1>5, <1>6

LEMMA MintKeeps ==
  ASSUME Inv, NEW r \in Requests, Mint(r)
  PROVE  Inv'
  <1>1. UNCHANGED <<now, addressOf, users, sessions, signedOut, cookies, starts, connections>>
    BY DEF Mint
  <1>2. LinksHold'
    BY <1>1 DEF Inv, LinksHold
  <1>3. PICK o \in Asked : o = request[r] /\ RequestHolds(o) /\ o.phase = "minting"
    BY ARequest DEF Mint
  <1>4. o.installation \in Installations
    BY <1>3 DEF RequestHolds
  <1>5. PICK minted : minted = MintedFor(o.installation)
    OBVIOUS
  <1>6. now \in Nat /\ TOKEN_RENEW_MARGIN \in Nat /\ TOKEN_TTL \in Nat /\ TOKEN_RENEW_MARGIN < TOKEN_TTL
    BY SignInAssumption DEF Inv
  <1>7. minted \in Token /\ minted.of = o.installation /\ now + TOKEN_RENEW_MARGIN < minted.until
    BY <1>4, <1>5, <1>6 DEF MintedFor, Token
  <1>8. CASE Done(r) /\ UNCHANGED tokens
    <2>1. CacheHolds'
      BY <1>8 DEF Inv, CacheHolds
    <2> QED
      BY <1>1, <1>2, <1>8, <2>1, DoneKeeps
  <1>9. CASE Hold(r, minted) /\ tokens' = [tokens EXCEPT ![CacheKey(minted.of)] = minted]
    <2>1. CacheHolds'
      BY <1>4, <1>7, <1>9 DEF Inv, CacheHolds, CacheKey
    <2> QED
      BY <1>1, <1>2, <1>3, <1>4, <1>7, <1>9, <2>1, HoldKeeps
  <1> QED
    BY <1>3, <1>5, <1>8, <1>9 DEF Mint

LEMMA GitHubAnswersKeeps ==
  ASSUME Inv, NEW r \in Requests, GitHubAnswers(r)
  PROVE  Inv'
  <1>1. /\ UNCHANGED <<now, addressOf, users, sessions, signedOut, cookies, starts, connections, tokens>>
        /\ LinksHold' /\ CacheHolds'
    BY DEF GitHubAnswers, Inv, LinksHold, CacheHolds
  <1>2. CASE Throttled(r)
    <2>1. PICK o \in Asked : o = request[r] /\ RequestHolds(o) /\ o.phase = "holds"
      BY <1>2, ARequest DEF Throttled
    <2>2. PICK q : q = [o EXCEPT !.phase = "again"]
      OBVIOUS
    <2>3. /\ q \in Asked /\ q.phase = "again" /\ q.installation = o.installation /\ q.token = o.token
          /\ q.session = o.session /\ q.user = o.user /\ q.since = o.since
      BY <2>2 DEF Asked, Phases
    <2>4. RequestHolds(q)
      BY <2>1, <2>3 DEF RequestHolds
    <2>5. request' = [request EXCEPT ![r] = q]
      BY <1>2, <2>1, <2>2 DEF Throttled
    <2> QED
      BY <1>1, <2>3, <2>4, <2>5, ARequestStep
  <1>3. CASE Done(r)
    BY <1>1, <1>3, DoneKeeps
  <1> QED
    BY <1>2, <1>3 DEF GitHubAnswers

LEMMA TickKeeps ==
  ASSUME Inv, Tick
  PROVE  Inv'
  <1>1. UNCHANGED <<addressOf, users, sessions, signedOut, cookies, starts, connections, tokens, request>>
    BY DEF Tick
  <1>2. now \in Nat /\ MaxTime \in Nat /\ TOKEN_RENEW_MARGIN \in Nat /\ now' = now + 1 /\ now' \in 0..MaxTime
    BY SignInAssumption DEF Inv, Tick
  <1>3. ASSUME NEW r \in Requests PROVE RequestHolds(request[r])'
    <2>1. PICK o \in Asked : o = request[r] /\ o = request'[r] /\ RequestHolds(o)
      BY <1>1, ARequest
    <2>2. o.phase \in {"holds", "again"} => now < o.since + TOKEN_RENEW_MARGIN
      BY <2>1 DEF Tick
    <2>3. o.since \in Nat
      BY DEF Asked
    <2>4. o.phase \in {"holds", "again"} => now' <= o.since + TOKEN_RENEW_MARGIN
      BY <1>2, <2>2, <2>3
    <2> QED
      BY <1>1, <2>1, <2>4 DEF RequestHolds
  <1>4. RequestsHold'
    BY <1>1, <1>3 DEF Inv, RequestsHold
  <1>5. SessionsHold' /\ CookiesHold' /\ StartsHold' /\ RowsComeOfStarts' /\ LinksHold' /\ CacheHolds'
    BY <1>1 DEF Inv, SessionsHold, CookiesHold, StartsHold, TripHolds, RowsComeOfStarts, TripsOver, LinksHold, CacheHolds
  <1> QED
    BY <1>2, <1>4, <1>5 DEF Inv

-----------------------------------------------------------------------------
LEMMA Inductive == Inv /\ [SignInNext]_signInVars => Inv'
  <1> SUFFICES ASSUME Inv, [SignInNext]_signInVars PROVE Inv'
    OBVIOUS
  <1>1. CASE UNCHANGED signInVars
    <2>1. UNCHANGED <<now, addressOf, users, sessions, signedOut, cookies, starts, connections, tokens, request>>
      BY <1>1 DEF signInVars
    <2>2. now' \in 0..MaxTime /\ SessionsHold' /\ CookiesHold' /\ StartsHold' /\ RowsComeOfStarts'
      BY <2>1 DEF Inv, SessionsHold, CookiesHold, StartsHold, TripHolds, RowsComeOfStarts, TripsOver
    <2>3. LinksHold' /\ CacheHolds' /\ RequestsHold'
      BY <2>1 DEF Inv, LinksHold, CacheHolds, RequestsHold, RequestHolds
    <2> QED
      BY <2>2, <2>3 DEF Inv
  <1>2. CASE AtProviders
    <2>1. ASSUME NEW p \in Providers, Leave(p) \/ Forget(p) PROVE Inv'
      BY <2>1, LeaveKeeps, ForgetKeeps
    <2>2. ASSUME NEW t \in DOMAIN starts,
                 Decline(t) \/ Reject(t) \/ Exchange(t) \/ SignedIn(t) \/ Linked(t)
          PROVE Inv'
      BY <2>2, DeclineKeeps, RejectKeeps, ExchangeKeeps, SignedInKeeps, LinkedKeeps
    <2>3. ASSUME NEW t \in DOMAIN starts, NEW who \in People \cup Accounts, Return(t, who) PROVE Inv'
      BY <2>3, ReturnKeeps
    <2>4. ASSUME NEW p \in People, NEW a \in Addresses, ChangeAddress(p, a) PROVE Inv'
      BY <2>4, ChangeAddressKeeps
    <2> QED
      BY <1>2, <2>1, <2>2, <2>3, <2>4 DEF AtProviders
  <1>3. ASSUME NEW r \in Requests, InRequest(r) PROVE Inv'
    BY <1>3, AskKeeps, LogOutKeeps, IdentifyKeeps, DisconnectKeeps, ReadConnectionKeeps, CachedTokenKeeps,
       MintKeeps, GitHubAnswersKeeps DEF InRequest
  <1> QED
    BY <1>1, <1>2, <1>3, TickKeeps DEF SignInNext

THEOREM AlwaysInv == SignInSpec => []Inv
  BY InitInv, Inductive, PTL DEF SignInSpec

-----------------------------------------------------------------------------
(* What the invariant says of types, of rows and of tokens.                 *)
LEMMA InvTypes == Inv => SignInTypeOK
  <1> SUFFICES ASSUME Inv PROVE SignInTypeOK
    OBVIOUS
  <1>1. SessionsHold /\ StartsHold
    BY DEF Inv
  <1>2. /\ Len(users) \in Nat /\ DOMAIN users = 1..Len(users)
        /\ Len(sessions) \in Nat /\ DOMAIN sessions = 1..Len(sessions)
        /\ Len(starts) \in Nat /\ DOMAIN starts = 1..Len(starts)
    BY <1>1, LenTypes
  <1>3. /\ now \in 0..MaxTime /\ addressOf \in [People -> Addresses]
        /\ \A u \in DOMAIN users : users[u] \in [sub : People, email : Addresses]
        /\ signedOut \subseteq DOMAIN sessions
    <2>1. \A u \in DOMAIN users : users[u] \in UserRow
      BY <1>1, <1>2 DEF SessionsHold
    <2> QED
      BY <2>1 DEF Inv, SessionsHold, UserRow
  <1>4. \A s \in DOMAIN sessions :
           sessions[s] \in [user : DOMAIN users, row : BOOLEAN, expires : Nat, born : Nat, person : People]
    <2> SUFFICES ASSUME NEW s \in DOMAIN sessions
                 PROVE  sessions[s] \in [user : DOMAIN users, row : BOOLEAN, expires : Nat, born : Nat,
                                         person : People]
      OBVIOUS
    <2>1. PICK o \in SessionRow : o = sessions[s] /\ o.user \in DOMAIN users
      BY <1>2 DEF Inv, SessionsHold
    <2> QED
      BY <2>1 DEF SessionRow
  <1>5. cookies \in [session : {0} \cup DOMAIN sessions, google : {0} \cup DOMAIN starts,
                     github : {0} \cup DOMAIN starts]
    <2>1. 0..Len(sessions) = {0} \cup DOMAIN sessions /\ 0..Len(starts) = {0} \cup DOMAIN starts
      BY <1>2
    <2> QED
      BY <2>1 DEF Inv, CookiesHold
  <1>6. \A t \in DOMAIN starts :
           starts[t] \in [provider : Providers, at : {"away", "back", "exchanged", "over"},
                          who : People \cup Accounts \cup {Nobody}, cookie : 0..Len(starts),
                          session : 0..Len(sessions), address : Addresses \cup {Nobody},
                          by : 0..Len(users)]
    <2> SUFFICES ASSUME NEW t \in DOMAIN starts
                 PROVE  starts[t] \in [provider : Providers, at : {"away", "back", "exchanged", "over"},
                          who : People \cup Accounts \cup {Nobody}, cookie : 0..Len(starts),
                          session : 0..Len(sessions), address : Addresses \cup {Nobody},
                          by : 0..Len(users)]
      OBVIOUS
    <2>1. PICK o \in Trip : /\ o = starts[t] /\ o.cookie <= Len(starts) /\ o.session <= Len(sessions)
                            /\ o.by <= Len(users)
      BY <1>1 DEF StartsHold, TripHolds
    <2>2. o.cookie \in 0..Len(starts) /\ o.session \in 0..Len(sessions) /\ o.by \in 0..Len(users)
      BY <1>2, <2>1 DEF Trip
    <2> QED
      BY <2>1, <2>2 DEF Trip, Stages
  <1>7. connections \in [UserIds -> [account : Accounts \cup {Nobody},
                                     installation : Installations \cup {Nobody}]]
    BY DEF Inv, LinksHold, Connection
  <1>8. \A i \in Installations : tokens[i].of \in Installations \cup {Nobody}
    BY DEF Inv, CacheHolds, Token
  <1>9. \A r \in Requests : request[r].user \in {0} \cup DOMAIN users
    <2> SUFFICES ASSUME NEW r \in Requests PROVE request[r].user \in {0} \cup DOMAIN users
      OBVIOUS
    <2>1. request[r].user \in Nat /\ request[r].user <= Len(users)
      BY ARequest DEF RequestHolds, Asked
    <2> QED
      BY <1>2, <2>1
  <1> QED
    BY <1>3, <1>4, <1>5, <1>6, <1>7, <1>8, <1>9 DEF SignInTypeOK

LEMMA InvRows == Inv => PersonKeepsTheirRow
  BY DEF Inv, SessionsHold, PersonKeepsTheirRow

LEMMA InvTokens == Inv => TokensServeTheirRequest
  <1> SUFFICES ASSUME Inv, NEW r \in Requests, request[r].phase \in {"holds", "again"}
               PROVE  request[r].token.of = request[r].installation /\ request[r].token.until > now
    BY DEF TokensServeTheirRequest
  <1>1. PICK o \in Asked : o = request[r] /\ RequestHolds(o)
    BY ARequest
  <1>2. o.token.of = o.installation /\ o.since + TOKEN_RENEW_MARGIN < o.token.until /\ now <= o.since + TOKEN_RENEW_MARGIN
    BY <1>1 DEF RequestHolds
  <1>3. now \in Nat /\ TOKEN_RENEW_MARGIN \in Nat /\ o.since \in Nat /\ o.token.until \in Nat
    BY SignInAssumption DEF Inv, Asked, Token
  <1> QED
    BY <1>1, <1>2, <1>3

-----------------------------------------------------------------------------
(* What a step may do.                                                      *)
LEMMA AliveIsNotEnded ==
  ASSUME Inv, NEW s \in 0..Len(sessions), LoadSession(s) # 0
  PROVE  ~Ended(s)
  <1>1. SessionsHold /\ StartsHold /\ s # 0 /\ sessions[s].row /\ now < sessions[s].expires
    BY IdentityOfASession DEF Inv
  <1>2. s \in DOMAIN sessions /\ sessions \in Seq(SessionRow)
    BY <1>1, LenTypes DEF SessionsHold
  <1>3. sessions[s].expires = sessions[s].born + SESSION_TTL /\ s \notin signedOut
    BY <1>1, <1>2 DEF SessionsHold
  <1>4. sessions[s].born \in Nat /\ SESSION_TTL \in Nat /\ now \in Nat
    <2>1. PICK o \in SessionRow : o = sessions[s]
      BY <1>2
    <2>2. now \in Nat /\ SESSION_TTL \in Nat
      BY SignInAssumption DEF Inv
    <2> QED
      BY <2>1, <2>2 DEF SessionRow
  <1> QED
    BY <1>1, <1>3, <1>4 DEF Ended

(* Only the hook says whose a request is, and it asks the session.          *)
LEMMA TheHookKnowsWhose ==
  ASSUME Inv, SignInNext, NEW r \in Requests, request'[r].user # 0, request[r].user = 0
  PROVE  LoadSession(request[r].session) # 0
  <1>1. request \in [Requests -> Asked]
    BY DEF Inv, RequestsHold
  <1>2. PICK q \in Requests : InRequest(q)
    BY DEF SignInNext, AtProviders, Tick, Leave, Forget, Decline, Reject, Exchange, SignedIn, Linked, Return, ChangeAddress
  <1>3. PICK o \in Asked : o = request[q]
    BY <1>1
  <1>4. ASSUME NEW v, request' = [request EXCEPT ![q] = v], v.user # 0 => o.user # 0 PROVE FALSE
    BY <1>1, <1>3, <1>4
  <1>5. Idle.user = 0
    BY DEF Idle
  <1>6. ~Done(q)
    BY <1>4, <1>5 DEF Done
  <1>7. ASSUME NEW kind \in {"repositories", "disconnect", "logout"}, Ask(q, kind) PROVE FALSE
    <2>1. PICK v : v = [Idle EXCEPT !.phase = kind, !.session = cookies.session]
      OBVIOUS
    <2>2. v.user = 0
      BY <2>1 DEF Idle
    <2> QED
      BY <1>4, <1>7, <2>1, <2>2 DEF Ask
  <1>8. CASE Identify(q)
    <2>1. request' = [request EXCEPT ![q] = IF LoadSession(o.session) = 0 THEN Idle
                                            ELSE [o EXCEPT !.user = LoadSession(o.session)]]
      BY <1>3, <1>8 DEF Identify
    <2>2. LoadSession(o.session) # 0
      BY <2>1, <1>4, <1>5
    <2>3. q = r
      BY <1>1, <2>1
    <2> QED
      BY <1>3, <2>2, <2>3
  <1>9. CASE ReadConnection(q)
    <2>1. PICK v : v = IF connections[o.user].installation = Nobody THEN Idle
                       ELSE [o EXCEPT !.phase = "connected", !.installation = connections[o.user].installation]
      OBVIOUS
    <2>2. request' = [request EXCEPT ![q] = v] /\ o.user # 0
      BY <1>3, <1>9, <2>1 DEF ReadConnection
    <2> QED
      BY <1>4, <2>2
  <1>10. ASSUME NEW token PROVE ~Hold(q, token)
    <2>1. PICK v : v = [o EXCEPT !.phase = "holds", !.token = token, !.since = now]
      OBVIOUS
    <2>2. v.user = o.user
      BY <2>1 DEF Asked
    <2> QED
      BY <1>3, <1>4, <2>1, <2>2 DEF Hold
  <1>11. ASSUME NEW phase, request' = [request EXCEPT ![q].phase = phase] PROVE FALSE
    <2>1. PICK v : v = [o EXCEPT !.phase = phase]
      OBVIOUS
    <2>2. v.user = o.user
      BY <2>1 DEF Asked
    <2> QED
      BY <1>3, <1>4, <1>11, <2>1, <2>2
  <1>12. ~LogOut(q) /\ ~Disconnect(q) /\ ~CachedToken(q) /\ ~Mint(q) /\ ~GitHubAnswers(q)
    BY <1>6, <1>10, <1>11 DEF LogOut, Disconnect, CachedToken, Mint, GitHubAnswers, Throttled
  <1> QED
    BY <1>2, <1>7, <1>8, <1>9, <1>12 DEF InRequest

(* Only the exchange makes a start somebody's, or finishes it; and it asks  *)
(* the session, and the state.                                              *)
LEMMA TheExchangeKnowsWhose ==
  ASSUME Inv, SignInNext, NEW t \in DOMAIN starts,
         \/ starts'[t].by # 0 /\ starts[t].by = 0
         \/ starts'[t].at = "exchanged" /\ starts[t].at = "back"
  PROVE  /\ MayFinish(t)
         /\ starts'[t].by # 0 /\ starts[t].by = 0 => LoadSession(starts[t].session) # 0
  <1>1. starts \in Seq(Trip) /\ DOMAIN starts = 1..Len(starts) /\ Len(starts) \in Nat
    BY LenTypes DEF Inv, StartsHold
  <1>2. PICK o \in Trip : o = starts[t]
    BY <1>1
  <1>3. starts' # starts
    BY <1>2
  <1>4. ASSUME NEW p \in Providers, Leave(p) PROVE FALSE
    <2>1. starts' = Append(starts, Begun(p))
      BY <1>4 DEF Leave
    <2>2. starts'[t] = starts[t]
      BY <1>1, <2>1
    <2> QED
      BY <1>2, <2>2
  <1>5. PICK u \in DOMAIN starts : \/ Decline(u) \/ Reject(u) \/ Exchange(u) \/ SignedIn(u) \/ Linked(u)
                                   \/ \E who \in People \cup Accounts : Return(u, who)
    BY <1>3, <1>4 DEF SignInNext, AtProviders, Tick, Forget, ChangeAddress, InRequest, Ask, LogOut, Identify,
                      Disconnect, ReadConnection, CachedToken, Mint, GitHubAnswers
  <1>6. ASSUME NEW v, starts' = [starts EXCEPT ![u] = v] PROVE u = t /\ starts'[t] = v
    <2>1. u # t => starts'[t] = starts[t]
      BY <1>1, <1>6
    <2> QED
      BY <1>1, <1>2, <1>6, <2>1
  <1>7. starts' # [starts EXCEPT ![u].at = "over"]
    <2> SUFFICES ASSUME starts' = [starts EXCEPT ![u].at = "over"] PROVE FALSE
      OBVIOUS
    <2>1. PICK v : v = [starts[u] EXCEPT !.at = "over"]
      OBVIOUS
    <2>2. u = t /\ starts'[t] = v
      BY <1>6, <2>1
    <2>3. v.by = o.by /\ v.at = "over"
      BY <1>2, <2>1, <2>2 DEF Trip
    <2> QED
      BY <1>2, <2>2, <2>3
  <1>8. ASSUME NEW who \in People \cup Accounts, Return(u, who) PROVE FALSE
    <2>1. PICK v : v = Back(starts[u], who, cookies[starts[u].provider], cookies.session)
      OBVIOUS
    <2>2. starts' = [starts EXCEPT ![u] = v] /\ starts[u].at = "away"
      BY <1>8, <2>1 DEF Return, Back
    <2>3. u = t /\ starts'[t] = v
      BY <1>6, <2>2
    <2>4. v.by = o.by
      BY <1>2, <2>1, <2>3 DEF Trip, Back
    <2> QED
      BY <1>2, <2>2, <2>3, <2>4
  <1>9. Exchange(u)
    BY <1>5, <1>7, <1>8 DEF Decline, Reject, SignedIn, Linked, Ends
  <1>10. PICK v : /\ v = Exchanged(starts[u],
                                   IF starts[u].provider = "github" THEN LoadSession(starts[u].session) ELSE starts[u].by,
                                   IF starts[u].provider = "google" THEN GoogleProfile(u) ELSE Nobody)
    OBVIOUS
  <1>11. starts' = [starts EXCEPT ![u] = v]
    BY <1>7, <1>9, <1>10 DEF Exchange, Exchanged, Ends
  <1>12. u = t /\ starts'[t] = v
    BY <1>6, <1>11
  <1>13. v.by = IF o.provider = "github" THEN LoadSession(o.session) ELSE o.by
    BY <1>2, <1>10, <1>12 DEF Exchanged, Trip
  <1> QED
    BY <1>2, <1>9, <1>12, <1>13 DEF Exchange

LEMMA ServedStep == Inv /\ [SignInNext]_signInVars =>
  [/\ \A r \in Requests :
          request'[r].user # 0 /\ request[r].user = 0 => ~Ended(request[r].session)
   /\ \A t \in DOMAIN starts :
          starts'[t].by # 0 /\ starts[t].by = 0 => ~Ended(starts[t].session)]_signInVars
  <1> SUFFICES ASSUME Inv, SignInNext
               PROVE  /\ \A r \in Requests :
                             request'[r].user # 0 /\ request[r].user = 0 => ~Ended(request[r].session)
                      /\ \A t \in DOMAIN starts :
                             starts'[t].by # 0 /\ starts[t].by = 0 => ~Ended(starts[t].session)
    OBVIOUS
  <1>0. Len(sessions) \in Nat
    BY LenTypes DEF Inv
  <1>1. ASSUME NEW r \in Requests, request'[r].user # 0, request[r].user = 0
        PROVE  ~Ended(request[r].session)
    <2>1. LoadSession(request[r].session) # 0
      BY <1>1, TheHookKnowsWhose
    <2>2. request[r].session \in 0..Len(sessions)
      BY <1>0, ARequest DEF RequestHolds, Asked
    <2> QED
      BY <2>1, <2>2, AliveIsNotEnded
  <1>2. ASSUME NEW t \in DOMAIN starts, starts'[t].by # 0, starts[t].by = 0
        PROVE  ~Ended(starts[t].session)
    <2>1. LoadSession(starts[t].session) # 0
      BY <1>2, TheExchangeKnowsWhose
    <2>2. PICK o \in Trip : o = starts[t] /\ o.session <= Len(sessions)
      BY CookieOfAStart DEF TripHolds
    <2>3. starts[t].session \in 0..Len(sessions)
      BY <1>0, <2>2 DEF Trip
    <2> QED
      BY <2>1, <2>3, AliveIsNotEnded
  <1> QED
    BY <1>1, <1>2

LEMMA LastStartStep == Inv /\ [SignInNext]_signInVars =>
  [\A t \in DOMAIN starts :
       starts[t].at = "back" /\ starts'[t].at = "exchanged" =>
           \A later \in DOMAIN starts :
               later > t /\ starts[later].provider = starts[t].provider
                   => starts[t].cookie # later]_signInVars
  <1> SUFFICES ASSUME Inv, SignInNext, NEW t \in DOMAIN starts,
                      starts[t].at = "back", starts'[t].at = "exchanged",
                      NEW later \in DOMAIN starts, later > t
               PROVE  starts[t].cookie # later
    OBVIOUS
  <1>1. starts[t].cookie = t
    BY TheExchangeKnowsWhose DEF MayFinish, HasState
  <1>2. t \in Nat /\ later \in Nat
    BY LenTypes DEF Inv
  <1> QED
    BY <1>1, <1>2

-----------------------------------------------------------------------------
(* Sign-in keeps to its types, whoever signs in, out, links and asks.       *)
THEOREM SignInTypesStay == SignInSpec => []SignInTypeOK
  BY AlwaysInv, InvTypes, PTL

(* Whoever a session, a link or a request is of, it stays theirs, for any   *)
(* number of people and tabs: a session is of the row of the person who     *)
(* signed in, whatever becomes of addresses (auth/sessions.ts:31); a        *)
(* request is nobody's once its session was signed out or has run out, and  *)
(* so is a callback that links; a start that another tab overtook does not  *)
(* finish; and what is sent to GitHub, the second time too, goes with a     *)
(* token of its installation that GitHub still takes (github/app.ts:123).   *)
THEOREM IdentityStaysWithItsOwner == SignInSpec => IdentityHolds
  BY AlwaysInv, InvRows, InvTokens, ServedStep, LastStartStep, PTL
     DEF SignInSpec, IdentityHolds, ServedWhileSignedIn, FinishesTheLastStart
=============================================================================
