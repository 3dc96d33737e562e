----------------------------- MODULE LiftClaims -----------------------------
(***************************************************************************)
(* What Civil believes about a codebase: the reader, analysts and          *)
(* verifiers each assert or refute, claims about one thing are weighed     *)
(* into one belief, and what is believed is assembled into a skeleton      *)
(* (lift/claims.ts).                                                       *)
(*                                                                         *)
(* Parts are services and stores; the code weighs every drawn kind alike.  *)
(* A claim's evidence is what checkEvidence finds of it: none, holds,      *)
(* unread (listed, past the cap) or broken.  Domains are numbers: the code *)
(* sorts ids.                                                              *)
(***************************************************************************)
EXTENDS Integers, FiniteSets, Sequences, Functions

CONSTANTS
    Parts, Domains, \* ids of what is drawn
    Reader, Others, \* voices
    Bases,          \* skeletons the reader may have found
    Topics,         \* what the other voices speak about
    MaxClaims       \* bound: claims of the other voices

Ids == Parts \cup Domains
Things == {<<id>> : id \in Ids}                                 \* entity claims
Lines == {<<"depends-on", a, b>> : a, b \in Parts}
Places == {<<"contains", d, id>> : d \in Domains, id \in Ids}

(* What is found: ids, lines, the domain each id is directly in, and parts  *)
(* placed on weak evidence.                                                 *)
SkeletonShapes ==
    [has : SUBSET Ids, lines : SUBSET Lines, unsure : SUBSET Parts,
     within : UNION {[inside -> Domains] : inside \in SUBSET Ids}]

(* What the reader finds hangs together; 0 is no id.                        *)
ASSUME ClaimsAssumption ==
    /\ Domains \subseteq Nat /\ IsFiniteSet(Ids) /\ 0 \notin Ids
    /\ Reader \notin Others /\ MaxClaims \in Nat /\ Topics \subseteq Things \cup Lines \cup Places
    /\ Bases \subseteq SkeletonShapes
    /\ \A base \in Bases :
        /\ \A line \in base.lines : {line[2], line[3]} \subseteq base.has
        /\ \A id \in DOMAIN base.within : {id, base.within[id]} \subseteq base.has
        /\ base.unsure \subseteq DOMAIN base.within

Claims == [key : Topics, by : Others, stance : {"assert", "refute"},
           evidence : {"none", "holds", "unread", "broken"}]

VARIABLES
    read,           \* what the reader found
    said            \* the claims of the other voices, in area order

claimsVars == <<read, said>>

-----------------------------------------------------------------------------
(* What the reader claims: all it found, but for the place of a part it put *)
(* somewhere on weak evidence.                                              *)
ClaimsFromSkeleton(sk) ==
    {<<id>> : id \in sk.has} \cup sk.lines
    \cup {<<"contains", sk.within[id], id>> : id \in DOMAIN sk.within \ sk.unsure}

(* Every claim with its place in the list; the reader speaks first.         *)
AllClaims(others) ==
    {<<0, [key |-> k, by |-> Reader, stance |-> "assert", evidence |-> "holds"]>> :
        k \in ClaimsFromSkeleton(read)}
    \cup {<<i, others[i]>> : i \in DOMAIN others}

(* checkEvidence: an assertion needs some, and what is cited must hold as   *)
(* far as it was read.                                                      *)
Sound(c) == c.evidence \in {"holds", "unread"} \/ (c.stance = "refute" /\ c.evidence = "none")

(* The voices behind some claims: who says a thing twice is one voice.      *)
Voices(cs) == {x[2].by : x \in cs}

Asserting(cs, k) == {x \in cs : x[2].key = k /\ x[2].stance = "assert"}
Refuting(cs, k) == {x \in cs : x[2].key = k /\ x[2].stance = "refute"}
SoundOf(cs) == {x \in cs : Sound(x[2])}
ReaderSays(cs) == \E x \in cs : x[2].by = Reader

(* Dropped: no sound support, or refuted by as many voices as support it,   *)
(* unless the reader read it exactly and no refuter cites anything.         *)
Dropped(cs, k) ==
    LET supporters == Asserting(cs, k)  refuters == Refuting(cs, k) IN
    \/ SoundOf(supporters) = {}
    \/ /\ Cardinality(Voices(refuters)) >= Cardinality(Voices(supporters))
       /\ ~ /\ ReaderSays(SoundOf(supporters))
            /\ \A x \in SoundOf(refuters) : x[2].evidence = "none"

Low == 1  Medium == 2  High == 3
Confidence(cs, k) ==
    LET supporters == Asserting(cs, k) IN
    IF Refuting(cs, k) # {} \/ SoundOf(supporters) # supporters THEN Low
    ELSE IF ReaderSays(supporters) \/ Cardinality(Voices(supporters)) >= 2 THEN High
    ELSE Medium

KeysOf(cs) == {x[2].key : x \in cs}
Believed(cs) ==
    LET kept == {k \in KeysOf(cs) : ~Dropped(cs, k)} IN
    {k \in kept : Len(k) = 3 => <<k[2]>> \in kept /\ <<k[3]>> \in kept}

-----------------------------------------------------------------------------
(* Where an id goes: the strongest place believed, by confidence, then by   *)
(* voices, then by id.                                                      *)
PlacesOf(cs, live, id) == {k \in live : Len(k) = 3 /\ k[1] = "contains" /\ k[3] = id}

Stronger(cs, a, b) ==
    LET ca == Confidence(cs, a)  cb == Confidence(cs, b)
        va == Cardinality(Voices(Asserting(cs, a)))  vb == Cardinality(Voices(Asserting(cs, b)))
    IN  ca > cb \/ (ca = cb /\ (va > vb \/ (va = vb /\ a[2] < b[2])))

Strongest(cs, places) ==
    (CHOOSE a \in places : \A b \in places \ {a} : Stronger(cs, a, b))[2]

(* Otherwise where the reader put it, when that domain still stands.        *)
Placed(cs, live) ==
    LET stands == {d \in Domains : <<d>> \in live}
        byVoices == {id \in Ids : PlacesOf(cs, live, id) # {}}
        byReader == {id \in DOMAIN read.within \ byVoices :
                        read.within[id] \in stands /\ (id \in Domains => id \in stands)}
    IN  [id \in byVoices \cup byReader |->
            IF id \in byVoices THEN Strongest(cs, PlacesOf(cs, live, id)) ELSE read.within[id]]

(* The domain n levels above one, or 0.                                     *)
Above(parent, id, n) ==
    LET at[i \in 0 .. n] ==
            IF i = 0 THEN id
            ELSE IF at[i - 1] \in DOMAIN parent THEN parent[at[i - 1]] ELSE 0
    IN  at[n]

(* No domain the reader finds is inside itself, however far up.             *)
ASSUME ReaderNestsProperly ==
    \A base \in Bases, d \in Domains, n \in 1 .. Cardinality(Domains) : Above(base.within, d, n) # d

(* Mutation: only a domain directly inside itself is cut.                   *)
InsideItself(parent, id) == id \in DOMAIN parent /\ parent[id] = id

(* The chain above a domain comes back round.                               *)
ComesBack(parent, id) == Above(parent, id, Cardinality(Domains) + 1) # 0

(* In the order of the ids, a domain whose chain comes back round is taken  *)
(* out of its own.                                                          *)
Cut(parent, stands) ==
    LET order == [i \in 1 .. Cardinality(stands) |->
                    CHOOSE d \in stands : Cardinality({x \in stands : x <= d}) = i]
        upTo[n \in 0 .. Cardinality(stands)] ==
            IF n = 0 THEN parent
            ELSE LET p == upTo[n - 1] IN
                 IF ComesBack(p, order[n]) THEN Restrict(p, DOMAIN p \ {order[n]}) ELSE p
    IN  upTo[Cardinality(stands)]

ToSkeleton(cs) ==
    LET live   == Believed(cs)
        has    == {id \in Ids : <<id>> \in live}
        placed == Cut(Placed(cs, live), has \cap Domains)
    IN  [has    |-> has,
         lines  |-> live \cap Lines,
         within |-> Restrict(placed, DOMAIN placed \cap has),
         unsure |-> {m \in read.unsure : read.within[m] \in has /\ PlacesOf(cs, live, m) = {}}]

-----------------------------------------------------------------------------
ClaimsInit == read \in Bases /\ said = <<>>

Say(c) == Len(said) < MaxClaims /\ said' = Append(said, c) /\ UNCHANGED read

ClaimsNext == \E c \in Claims : Say(c)
ClaimsSpec == ClaimsInit /\ [][ClaimsNext]_claimsVars

-----------------------------------------------------------------------------
DrawnSkeleton == ToSkeleton(AllClaims(said))

(* With the reader as the only voice the claims lose nothing: they come     *)
(* back to the skeleton they were made from.  And voices that only repeat   *)
(* the reader, with sound evidence, change nothing either.                  *)
RoundTrip ==
    (\A i \in DOMAIN said : /\ said[i].key \in ClaimsFromSkeleton(read)
                            /\ said[i].stance = "assert" /\ Sound(said[i]))
    => DrawnSkeleton = read

(* What is drawn hangs together, whatever was claimed: a line joins drawn   *)
(* parts, an id is in a drawn domain, and no domain is inside itself.       *)
DrawnHangsTogether ==
    LET sk == DrawnSkeleton IN
    /\ \A l \in sk.lines : {l[2], l[3]} \subseteq sk.has
    /\ \A id \in DOMAIN sk.within : {id, sk.within[id]} \subseteq sk.has
    /\ \A d \in Domains, n \in 1 .. Cardinality(Domains) : Above(sk.within, d, n) # d

(* A voice that says again what it said adds nothing.                       *)
VoiceCountsOnce ==
    \A i \in DOMAIN said : ToSkeleton(AllClaims(Append(said, said[i]))) = DrawnSkeleton

(* One more voice with sound evidence for a thing never makes another thing *)
(* go, nor this one.                                                        *)
SupportNeverHurts ==
    \A c \in [key : Topics, by : Others, stance : {"assert"}, evidence : {"holds"}] :
        Believed(AllClaims(said)) \subseteq Believed(AllClaims(Append(said, c)))

(* The comment of reconcile: evidence that fails the mechanical check       *)
(* counts for nothing.                                                      *)
BrokenCountsForNothing ==
    Believed(AllClaims(said)) =
        Believed(AllClaims(SelectSeq(said, LAMBDA c : Sound(c) \/ c.evidence = "none")))

(* The comment of toSkeleton: a chain that comes back round is cut where it *)
(* closes; a domain that only leads into the round keeps its place.         *)
CutOnlyWhereItCloses ==
    LET cs == AllClaims(said)  live == Believed(cs)  placed == Placed(cs, live) IN
    \A d \in DOMAIN placed \cap Domains :
        /\ <<d>> \in live
        /\ \A n \in 1 .. Cardinality(Domains) : Above(placed, d, n) # d
        => d \in DOMAIN DrawnSkeleton.within

(* The weighing of claims is sound: it loses nothing of what was read,       *)
(* draws what hangs together, and counts voices and not words.               *)
ClaimsHold == RoundTrip /\ DrawnHangsTogether /\ VoiceCountsOnce /\ SupportNeverHurts
=============================================================================
