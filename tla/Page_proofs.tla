----------------------------- MODULE Page_proofs -----------------------------
(* Theorems about the page (Page), for any documents, of any names; and what *)
(* they come to together with those of Editing_proofs and Author_proofs, for *)
(* the properties that MCEditing states of the six modules.                  *)
EXTENDS MCEditing, Editing_proofs, Author_proofs

-----------------------------------------------------------------------------
(* Where the author is (Page): levels and stacks.                            *)

(* What a level may be: of a view in a domain or in a diagram, of a graph, or *)
(* of code with one of its files in front.                                   *)
Level ==
    {Composition(view, domain, None) : view \in Views \cup {None}, domain \in Insides \cup {None}}
    \cup {Composition(view, None, diagram) : view \in Views \cup {None}, diagram \in Insides \cup {None}}
    \cup {GraphLevel(path) : path \in GraphPaths}
    \cup {level \in {CodeLevel(files, file) : files \in SUBSET Files, file \in Files \cup {None}} :
              level.files # {} /\ level.file \in level.files \cup {None}}

(* A level that the path can name.                                           *)
IsNamed(level) == level.kind = "graph" \/ (level.kind = "composition" /\ level.view # None)

(* The path that names it.                                                   *)
PathAt(project, level) ==
    IF level.kind = "graph" THEN PlaceAt("graph", project, None, None, level.path)
    ELSE PlaceAt("view", project, level.view,
                 IF level.domain # None THEN level.domain ELSE level.diagram, None)

(* The k-th level is the last that the path can name.                        *)
Deepest(levels, k) ==
    /\ k \in 1 .. Len(levels) /\ IsNamed(levels[k])
    /\ \A j \in 1 .. Len(levels) : j > k => ~IsNamed(levels[j])

(* What the search for the deepest named level finds, forwards in the stack. *)
LEMMA NoneIsNamed ==
    ASSUME NEW levels \in Seq(Level), \A j \in 1 .. Len(levels) : ~IsNamed(levels[j])
    PROVE  Named(levels) = 0
  <1> DEFINE rev == Reverse(levels)
             Test(l) == l.kind = "graph" \/ (l.kind = "composition" /\ l.view # None)
             I == {i \in 1 .. Len(rev) : Test(rev[i])}
  <1>1. rev = [i \in 1 .. Len(levels) |-> levels[(Len(levels) - i) + 1]]
    BY DEF Reverse
  <1>2. Len(levels) \in Nat /\ Len(rev) = Len(levels)
    BY <1>1
  <1>3. \A i \in 1 .. Len(rev) : (Len(levels) - i) + 1 \in 1 .. Len(levels) /\ rev[i] = levels[(Len(levels) - i) + 1]
    BY <1>1, <1>2
  <1>4. I = {}
    BY <1>2, <1>3 DEF IsNamed
  <1>5. Named(levels) = IF I # {} THEN Min(I) ELSE 0
    BY DEF Named, SelectInSeq
  <1> QED
    BY <1>4, <1>5

LEMMA DeepestIsNamed ==
    ASSUME NEW levels \in Seq(Level), NEW k, Deepest(levels, k)
    PROVE  Named(levels) # 0 /\ Reverse(levels)[Named(levels)] = levels[k]
  <1> DEFINE rev == Reverse(levels)
             Test(l) == l.kind = "graph" \/ (l.kind = "composition" /\ l.view # None)
             I == {i \in 1 .. Len(rev) : Test(rev[i])}
             n == (Len(levels) - k) + 1
  <1>1. rev = [i \in 1 .. Len(levels) |-> levels[(Len(levels) - i) + 1]]
    BY DEF Reverse
  <1>2. Len(levels) \in Nat /\ Len(rev) = Len(levels)
    BY <1>1
  <1>3. \A i \in 1 .. Len(rev) : (Len(levels) - i) + 1 \in 1 .. Len(levels) /\ rev[i] = levels[(Len(levels) - i) + 1]
    BY <1>1, <1>2
  <1>4. n \in 1 .. Len(levels) /\ (Len(levels) - n) + 1 = k
    BY <1>2 DEF Deepest
  <1>5. n \in I
    BY <1>2, <1>3, <1>4 DEF Deepest, IsNamed
  <1>6. ASSUME NEW i \in I PROVE n <= i
    <2>1. IsNamed(levels[(Len(levels) - i) + 1]) /\ i \in 1 .. Len(levels)
      BY <1>2, <1>3 DEF IsNamed
    <2>2. (Len(levels) - i) + 1 \in 1 .. Len(levels)
      BY <1>2, <2>1
    <2>3. ~((Len(levels) - i) + 1 > k)
      BY <2>1, <2>2 DEF Deepest
    <2>4. k \in 1 .. Len(levels)
      BY DEF Deepest
    <2> QED
      BY <1>2, <2>1, <2>3, <2>4
  <1>7. Named(levels) = Min(I)
    BY <1>5 DEF Named, SelectInSeq
  <1>8. I \subseteq Nat
    BY <1>2
  <1> HIDE DEF I, n, rev
  <1>9. Min(I) \in I /\ \A i \in I : Min(I) <= i
    BY <1>5, <1>6 DEF Min
  <1>10. Min(I) = n
    <2>1. Min(I) \in Nat /\ n \in Nat
      BY <1>5, <1>8, <1>9
    <2>2. Min(I) <= n /\ n <= Min(I)
      BY <1>5, <1>6, <1>9
    <2> QED
      BY <2>1, <2>2
  <1> QED
    BY <1>2, <1>3, <1>4, <1>7, <1>10 DEF rev

(* The path is the one of the deepest level that it can name, else of the    *)
(* project alone; and there either is a deepest one or none.                 *)
LEMMA PathOfTheDeepest ==
    ASSUME NEW levels \in Seq(Level), NEW k, Deepest(levels, k), NEW project, project # None
    PROVE  CurrentPath(FALSE, project, levels) = PathAt(project, levels[k])
  <1>1. Named(levels) # 0 /\ Reverse(levels)[Named(levels)] = levels[k]
    BY DeepestIsNamed
  <1> QED
    BY <1>1 DEF CurrentPath, PathAt

LEMMA PathOfNone ==
    ASSUME NEW levels \in Seq(Level), \A j \in 1 .. Len(levels) : ~IsNamed(levels[j]),
           NEW project, project # None
    PROVE  CurrentPath(FALSE, project, levels) = PlaceAt("project", project, None, None, None)
  <1>1. Named(levels) = 0
    BY NoneIsNamed
  <1> QED
    BY <1>1 DEF CurrentPath

LEMMA SomeIsDeepest ==
    ASSUME NEW levels \in Seq(Level)
    PROVE  (\A j \in 1 .. Len(levels) : ~IsNamed(levels[j])) \/ \E k : Deepest(levels, k)
  <1> DEFINE T == {d \in 0 .. Len(levels) : \E j \in 1 .. Len(levels) : IsNamed(levels[j]) /\ d = Len(levels) - j}
  <1>1. Len(levels) \in Nat
    OBVIOUS
  <1>2. T \in SUBSET Nat
    BY <1>1
  <1>3. CASE T = {}
    <2>1. ASSUME NEW j \in 1 .. Len(levels), IsNamed(levels[j]) PROVE FALSE
      <3>1. Len(levels) - j \in 0 .. Len(levels)
        BY <1>1
      <3> QED
        BY <1>3, <2>1, <3>1
    <2> QED
      BY <2>1
  <1>4. CASE T # {}
    <2>1. PICK d \in T : \A v \in T : d <= v
      <3> HIDE DEF T
      <3> QED
        BY <1>2, <1>4, LeastNumber
    <2>2. PICK k \in 1 .. Len(levels) : IsNamed(levels[k]) /\ d = Len(levels) - k
      BY <2>1
    <2>3. ASSUME NEW j \in 1 .. Len(levels), j > k, IsNamed(levels[j]) PROVE FALSE
      <3>1. Len(levels) - j \in T
        BY <1>1, <2>3
      <3>2. d <= Len(levels) - j
        BY <2>1, <3>1
      <3> QED
        BY <1>1, <2>2, <2>3, <3>2
    <2> QED
      BY <2>2, <2>3 DEF Deepest
  <1> QED
    BY <1>3, <1>4

(* What a level says, by its kind.                                           *)
LEMMA LevelFields ==
    ASSUME NEW level \in Level
    PROVE  /\ level.kind \in {"composition", "graph", "code"}
           /\ level.kind = "composition" =>
                 /\ level.view \in Views \cup {None} /\ level.domain \in Insides \cup {None}
                 /\ level.diagram \in Insides \cup {None}
                 /\ level.domain = None \/ level.diagram = None
           /\ level.kind = "graph" => level.path \in GraphPaths
           /\ level.kind = "code" => level.files \in SUBSET Files /\ level.files # {} /\ level.file \in level.files \cup {None}
  BY DEF Level, Composition, GraphLevel, CodeLevel

(* A path is always one that the address bar can be opened at.               *)
LEMMA PathIsARoute ==
    ASSUME NEW levels \in Seq(Level), NEW home \in BOOLEAN, NEW project \in Projects \cup {None}
    PROVE  CurrentPath(home, project, levels) \in Routes
  <1>1. CASE home \/ project = None
    BY <1>1 DEF CurrentPath, Routes
  <1>2. CASE ~home /\ project # None
    <2>1. project \in Projects /\ home = FALSE
      BY <1>2
    <2>2. CASE \A j \in 1 .. Len(levels) : ~IsNamed(levels[j])
      <3>1. CurrentPath(home, project, levels) = PlaceAt("project", project, None, None, None)
        BY <1>2, <2>1, <2>2, PathOfNone
      <3> QED
        BY <2>1, <3>1 DEF Routes
    <2>3. CASE \E k : Deepest(levels, k)
      <3>1. PICK k : Deepest(levels, k)
        BY <2>3
      <3>2. CurrentPath(home, project, levels) = PathAt(project, levels[k])
        BY <1>2, <2>1, <3>1, PathOfTheDeepest
      <3>3. levels[k] \in Level /\ IsNamed(levels[k])
        BY <3>1 DEF Deepest
      <3>4. CASE levels[k].kind = "graph"
        <4>1. levels[k].path \in GraphPaths
          BY <3>3, <3>4, LevelFields
        <4> QED
          BY <2>1, <3>2, <3>4, <4>1 DEF PathAt, Routes
      <3>5. CASE levels[k].kind # "graph"
        <4> DEFINE inside == IF levels[k].domain # None THEN levels[k].domain ELSE levels[k].diagram
        <4>1. levels[k].view \in Views /\ inside \in Insides \cup {None}
          BY <3>3, <3>5, LevelFields DEF IsNamed
        <4>2. CurrentPath(home, project, levels) = PlaceAt("view", project, levels[k].view, inside, None)
          BY <3>2, <3>5 DEF PathAt
        <4> QED
          BY <2>1, <4>1, <4>2 DEF Routes
      <3> QED
        BY <3>4, <3>5
    <2> QED
      BY <2>2, <2>3, SomeIsDeepest
  <1> QED
    BY <1>1, <1>2

(* What StackIsWhole says of two levels, and of a stack of any length.       *)
Below(levels, i, j) ==
    /\ levels[i].kind # "code"
    /\ levels[j].kind = "composition" =>
          levels[i].kind = "composition" /\ levels[i].view = levels[j].view

Whole(levels) ==
    /\ levels \in Seq(Level) /\ levels # <<>> /\ levels[1].kind = "composition"
    /\ \A i, j \in 1 .. Len(levels) : i < j => Below(levels, i, j)

USE PageAssumption, LinksAssumption, DocumentsAssumption

(* The levels that the gestures make are levels.                             *)
LEMMA LevelsAre ==
    /\ \A view \in Views \cup {None}, inside \in Insides \cup {None} :
          Composition(view, inside, None) \in Level /\ Composition(view, None, inside) \in Level
    /\ \A path \in GraphPaths : GraphLevel(path) \in Level
    /\ \A files \in SUBSET Files, file \in Files : file \in files => CodeLevel(files, file) \in Level
    /\ \A file \in Files : CodeLevel({file}, None) \in Level
  <1>1. \A view \in Views \cup {None}, inside \in Insides \cup {None} :
          Composition(view, inside, None) \in Level /\ Composition(view, None, inside) \in Level
    BY DEF Level
  <1>2. \A path \in GraphPaths : GraphLevel(path) \in Level
    BY DEF Level
  <1>3. ASSUME NEW files \in SUBSET Files, NEW file \in Files \cup {None}, files # {}, file \in files \cup {None}
        PROVE  CodeLevel(files, file) \in Level
    <2>1. CodeLevel(files, file).files = files /\ CodeLevel(files, file).file = file
      BY DEF CodeLevel
    <2> QED
      BY <1>3, <2>1 DEF Level
  <1> QED
    BY <1>1, <1>2, <1>3

(* Stacks stay whole: of one level, with one more, cut off, ascended from.   *)
LEMMA OneLevelIsWhole ==
    ASSUME NEW level \in Level, level.kind = "composition"
    PROVE  Whole(<<level>>)
  BY DEF Whole

LEMMA OneMoreIsWhole ==
    ASSUME NEW levels, Whole(levels), NEW level \in Level,
           levels[Len(levels)].kind # "code",
           level.kind = "composition" =>
              levels[Len(levels)].kind = "composition" /\ levels[Len(levels)].view = level.view
    PROVE  Whole(Append(levels, level))
  <1>1. levels \in Seq(Level) /\ Len(levels) \in Nat /\ Len(levels) > 0
    BY DEF Whole
  <1> DEFINE more == Append(levels, level)
  <1>2. /\ more \in Seq(Level) /\ Len(more) = Len(levels) + 1
        /\ more[Len(levels) + 1] = level
        /\ \A i \in 1 .. Len(levels) : more[i] = levels[i]
    BY <1>1
  <1> HIDE DEF more
  <1>3. ASSUME NEW i \in 1 .. Len(more), NEW j \in 1 .. Len(more), i < j PROVE Below(more, i, j)
    <2>1. i \in 1 .. Len(levels) /\ more[i] = levels[i]
      BY <1>1, <1>2, <1>3
    <2>2. CASE j \in 1 .. Len(levels)
      <3>1. Below(levels, i, j)
        BY <1>3, <2>1, <2>2 DEF Whole
      <3> QED
        BY <1>2, <2>1, <2>2, <3>1 DEF Below
    <2>3. CASE j = Len(levels) + 1
      <3>1. CASE i = Len(levels)
        BY <1>2, <2>1, <2>3, <3>1 DEF Below
      <3>2. CASE i # Len(levels)
        <4>1. Len(levels) \in 1 .. Len(levels) /\ i < Len(levels)
          BY <1>1, <2>1, <3>2
        <4>2. Below(levels, i, Len(levels))
          BY <2>1, <4>1 DEF Whole
        <4> QED
          BY <1>2, <2>1, <2>3, <4>2 DEF Below
      <3> QED
        BY <3>1, <3>2
    <2> QED
      BY <1>1, <1>2, <2>2, <2>3
  <1>4. more # <<>> /\ more[1].kind = "composition"
    BY <1>1, <1>2 DEF Whole
  <1> QED
    BY <1>2, <1>3, <1>4 DEF Whole, more

LEMMA FewerAreWhole ==
    ASSUME NEW levels, Whole(levels), NEW n \in 1 .. Len(levels)
    PROVE  Whole(SubSeq(levels, 1, n)) /\ Len(SubSeq(levels, 1, n)) = n
           /\ \A i \in 1 .. n : SubSeq(levels, 1, n)[i] = levels[i]
  <1>1. levels \in Seq(Level) /\ Len(levels) \in Nat
    BY DEF Whole
  <1> DEFINE some == SubSeq(levels, 1, n)
  <1>2. some \in Seq(Level) /\ Len(some) = n /\ \A i \in 1 .. n : some[i] = levels[i]
    BY <1>1
  <1> HIDE DEF some
  <1>3. ASSUME NEW i \in 1 .. n, NEW j \in 1 .. n, i < j PROVE Below(some, i, j)
    <2>1. Below(levels, i, j)
      BY <1>1, <1>3 DEF Whole
    <2> QED
      BY <1>2, <1>3, <2>1 DEF Below
  <1>4. some # <<>> /\ some[1].kind = "composition"
    BY <1>1, <1>2 DEF Whole
  <1> QED
    BY <1>2, <1>3, <1>4 DEF Whole, some

LEMMA TopOfWhole ==
    ASSUME NEW levels, Whole(levels)
    PROVE  /\ Top(levels) = levels[Len(levels)] /\ Top(levels) \in Level
           /\ Len(levels) \in Nat \ {0} /\ Head(levels) = levels[1]
  BY DEF Whole, Top, Last

LEMMA AscendedIsWhole ==
    ASSUME NEW levels, Whole(levels)
    PROVE  Whole(Ascended(levels))
  <1>1. Len(levels) \in Nat \ {0}
    BY TopOfWhole
  <1>2. CASE Len(levels) > 1
    <2>1. Len(levels) - 1 \in 1 .. Len(levels) /\ Ascended(levels) = SubSeq(levels, 1, Len(levels) - 1)
      BY <1>1, <1>2 DEF Ascended, Front
    <2>2. Whole(SubSeq(levels, 1, Len(levels) - 1))
      BY <2>1, FewerAreWhole
    <2> QED
      BY <2>1, <2>2
  <1>3. CASE ~(Len(levels) > 1)
    BY <1>3 DEF Ascended
  <1> QED
    BY <1>2, <1>3

(* Another level of code in place of the one on top.                        *)
LEMMA AnotherTabIsWhole ==
    ASSUME NEW levels, Whole(levels), Top(levels).kind = "code", NEW level \in Level, level.kind = "code"
    PROVE  Whole(Append(Front(levels), level))
  <1>1. Len(levels) \in Nat \ {0} /\ levels[Len(levels)].kind = "code" /\ levels[1].kind = "composition"
    BY TopOfWhole DEF Whole
  <1>2. Len(levels) - 1 \in 1 .. Len(levels) /\ Len(levels) - 1 < Len(levels)
    BY <1>1
  <1>3. Front(levels) = SubSeq(levels, 1, Len(levels) - 1)
    BY DEF Front
  <1>4. /\ Whole(Front(levels)) /\ Len(Front(levels)) = Len(levels) - 1
        /\ Front(levels)[Len(levels) - 1] = levels[Len(levels) - 1]
    BY <1>2, <1>3, FewerAreWhole
  <1>5. levels[Len(levels) - 1].kind # "code"
    BY <1>1, <1>2 DEF Whole, Below
  <1> QED
    BY <1>4, <1>5, OneMoreIsWhole

(* A file opened is a tab of the code on top, or a level of code.            *)
LEMMA OpenedIsWhole ==
    ASSUME NEW levels, Whole(levels), NEW file \in Files
    PROVE  Whole(Opened(levels, file))
  <1>1. Top(levels) = levels[Len(levels)] /\ Top(levels) \in Level
    BY TopOfWhole
  <1>2. CASE Top(levels).kind = "code"
    <2> DEFINE level == CodeLevel(Top(levels).files \cup {file}, file)
    <2>1. Top(levels).files \cup {file} \in SUBSET Files
      BY <1>1, <1>2, LevelFields
    <2>2. level \in Level
      BY <2>1, LevelsAre
    <2>3. level.kind = "code"
      BY DEF CodeLevel
    <2>4. Opened(levels, file) = Append(Front(levels), level)
      BY <1>2 DEF Opened
    <2> QED
      BY <1>2, <2>2, <2>3, <2>4, AnotherTabIsWhole
  <1>3. CASE Top(levels).kind # "code"
    <2> DEFINE level == CodeLevel({file}, file)
    <2>1. level \in Level
      BY LevelsAre
    <2>2. level.kind = "code"
      BY DEF CodeLevel
    <2>3. Opened(levels, file) = Append(levels, level)
      BY <1>3 DEF Opened
    <2> QED
      BY <1>1, <1>3, <2>1, <2>2, <2>3, OneMoreIsWhole
  <1> QED
    BY <1>2, <1>3

(* What a canvas leads to is a level, of the same view if it is of a view.   *)
LEMMA TargetsAreLevels ==
    ASSUME NEW p \in Projects, NEW level \in Level, level.kind # "code", NEW target \in Targets(p, level)
    PROVE  /\ target \in Level
           /\ target.kind = "composition" => level.kind = "composition" /\ target.view = level.view
  <1>1. CASE level.kind = "graph"
    <2>1. CASE target \in {CodeLevel({f}, None) : f \in Files}
      BY <2>1, LevelsAre DEF CodeLevel
    <2>2. CASE target \notin {CodeLevel({f}, None) : f \in Files}
      <3>1. PICK w \in IF level.path \in DOMAIN Documents[p].graphs THEN Documents[p].graphs[level.path] ELSE {} :
                target = GraphLevel(w)
        BY <1>1, <2>2 DEF Targets
      <3>2. w \in GraphPaths
        BY <3>1
      <3> QED
        BY <3>1, <3>2, LevelsAre DEF GraphLevel
    <2> QED
      BY <2>1, <2>2
  <1>2. CASE level.kind = "composition"
    <2>a. level.view \in Views \cup {None} /\ level.kind # "graph"
      BY <1>2, LevelFields
    <2>1. CASE DiagramShown(p, level) # None
      <3> DEFINE diagrams == ViewsOf(p)[level.view].diagrams
                 shown == DiagramShown(p, level)
      <3>1. level.view \in DOMAIN ViewsOf(p)
        BY <2>1 DEF DiagramShown
      <3>2. PICK d \in IF shown \in DOMAIN diagrams THEN diagrams[shown] ELSE {} :
                target = Composition(level.view, None, d)
        BY <2>a, <2>1 DEF Targets
      <3>3. d \in Insides
        BY <3>1, <3>2
      <3> QED
        BY <1>2, <2>a, <3>2, <3>3, LevelsAre DEF Composition
    <2>2. CASE DiagramShown(p, level) = None
      <3>1. CASE target \in {GraphLevel(w) : w \in Documents[p].services}
        BY <3>1, LevelsAre DEF GraphLevel
      <3>2. CASE target \notin {GraphLevel(w) : w \in Documents[p].services}
        <4> DEFINE domains == ViewsOf(p)[level.view].domains
        <4>1. level.view \in DOMAIN ViewsOf(p)
          BY <2>a, <2>2, <3>2 DEF Targets
        <4>2. PICK d \in DOMAIN domains : target = Composition(level.view, d, None)
          BY <2>a, <2>2, <3>2, <4>1 DEF Targets
        <4>3. d \in Insides
          BY <4>1, <4>2
        <4> QED
          BY <1>2, <2>a, <4>2, <4>3, LevelsAre DEF Composition
      <3> QED
        BY <3>1, <3>2
    <2> QED
      BY <2>1, <2>2
  <1> QED
    BY <1>1, <1>2, LevelFields

(* Sequences of one and of two.                                              *)
LEMMA TwoAtOnce ==
    ASSUME NEW u, NEW v
    PROVE  /\ <<u>> \o <<v>> = <<u, v>> /\ <<u>> \o <<>> = <<u>> /\ <<u, v>> \o <<>> = <<u, v>>
           /\ Append(<<u>>, v) = <<u, v>> /\ Len(<<u>>) = 1 /\ <<u>>[1] = u
  <1> DEFINE S == {u, v}
  <1>1. <<u>> \in Seq(S) /\ <<v>> \in Seq(S) /\ <<>> \in Seq(S) /\ <<u, v>> \in Seq(S)
    OBVIOUS
  <1>2. <<u>> \o <<v>> = <<u, v>>
    <2>1. <<u>> \o <<v>> \in Seq(S) /\ Len(<<u>> \o <<v>>) = 2
      BY <1>1
    <2> DEFINE s == <<u>> \o <<v>>
               t == <<u, v>>
    <2>2. s[1] = u /\ s[2] = v /\ t[1] = u /\ t[2] = v /\ Len(t) = 2
      BY <1>1
    <2>3. s \in Seq(S) /\ t \in Seq(S) /\ Len(s) = Len(t) /\ \A i \in 1 .. Len(s) : s[i] = t[i]
      <3>1. \A i \in 1 .. 2 : i = 1 \/ i = 2
        OBVIOUS
      <3> QED
        BY <1>1, <2>1, <2>2, <3>1
    <2> HIDE DEF s, t, S
    <2>4. s = t
      BY <2>3, SeqEqual
    <2> QED
      BY <2>4 DEF s, t
  <1>3. <<u>> \o <<>> = <<u>> /\ <<u, v>> \o <<>> = <<u, v>>
    BY <1>1
  <1>4. Append(<<u>>, v) = <<u, v>>
    <2>1. Append(<<u>>, v) \in Seq(S) /\ Len(Append(<<u>>, v)) = 2
      BY <1>1
    <2> DEFINE s == Append(<<u>>, v)
               t == <<u, v>>
    <2>2. s[1] = u /\ s[2] = v /\ t[1] = u /\ t[2] = v /\ Len(t) = 2
      BY <1>1
    <2>3. s \in Seq(S) /\ t \in Seq(S) /\ Len(s) = Len(t) /\ \A i \in 1 .. Len(s) : s[i] = t[i]
      <3>1. \A i \in 1 .. 2 : i = 1 \/ i = 2
        OBVIOUS
      <3> QED
        BY <1>1, <2>1, <2>2, <3>1
    <2> HIDE DEF s, t, S
    <2>4. s = t
      BY <2>3, SeqEqual
    <2> QED
      BY <2>4 DEF s, t
  <1> QED
    BY <1>2, <1>3, <1>4

(* The stack rebuilt from a path is whole, and its own path is that path:    *)
(* this is why Back pushes nothing.                                          *)
LEMMA RouteLeadsToWhole ==
    ASSUME NEW route \in Routes
    PROVE  /\ Whole(StackForRoute(route))
           /\ \A i \in 1 .. Len(StackForRoute(route)) : StackForRoute(route)[i].kind # "code"
           /\ route.kind \in {"home", "project", "view", "graph"}
           /\ route.kind = "home" => route = HomeRoute
           /\ route.kind # "home" => route.project \in Projects
  <1> DEFINE first == Composition(route.view, None, None)
             levels == StackForRoute(route)
  <1>1. /\ route.view \in Views \cup {None} /\ route.inside \in Insides \cup {None}
        /\ route.kind \in {"home", "project", "view", "graph"}
        /\ route.kind = "home" => route = HomeRoute
        /\ route.kind # "home" => route.project \in Projects
        /\ route.kind = "graph" => route.inside = None /\ route.graph \in GraphPaths
    BY DEF Routes, HomeRoute, PlaceAt
  <1>2. first \in Level /\ first.kind = "composition" /\ first.view = route.view
    BY <1>1, LevelsAre DEF Composition
  <1>3. Whole(<<first>>)
    BY <1>2, OneLevelIsWhole
  <1>a. levels = (<<first>> \o (IF route.inside # None THEN <<Composition(route.view, route.inside, None)>> ELSE <<>>))
                 \o (IF route.kind = "graph" THEN <<GraphLevel(route.graph)>> ELSE <<>>)
    BY DEF StackForRoute
  <1>4. CASE route.kind = "graph"
    <2> DEFINE second == GraphLevel(route.graph)
    <2>1. second \in Level /\ second.kind = "graph"
      BY <1>1, <1>4, LevelsAre DEF GraphLevel
    <2>2. levels = <<first, second>>
      <3> HIDE DEF first, second, levels
      <3>1. levels = (<<first>> \o <<>>) \o <<second>>
        BY <1>1, <1>4, <1>a DEF second
      <3> QED
        BY <3>1, TwoAtOnce
    <2> HIDE DEF first, second, levels
    <2>3. Append(<<first>>, second) = <<first, second>> /\ <<first>>[Len(<<first>>)] = first
      BY TwoAtOnce
    <2>4. Whole(Append(<<first>>, second))
      BY <1>2, <1>3, <2>1, <2>3, OneMoreIsWhole
    <2>5. \A i \in 1 .. Len(levels) : levels[i].kind # "code"
      BY <1>2, <2>1, <2>2
    <2> QED
      BY <1>1, <2>2, <2>3, <2>4, <2>5 DEF levels
  <1>5. CASE route.kind # "graph" /\ route.inside # None
    <2> DEFINE second == Composition(route.view, route.inside, None)
    <2>1. second \in Level /\ second.kind = "composition" /\ second.view = route.view
      BY <1>1, LevelsAre DEF Composition
    <2>2. levels = <<first, second>>
      <3> HIDE DEF first, second, levels
      <3>1. levels = (<<first>> \o <<second>>) \o <<>>
        BY <1>5, <1>a DEF second
      <3> QED
        BY <3>1, TwoAtOnce
    <2> HIDE DEF first, second, levels
    <2>3. Append(<<first>>, second) = <<first, second>> /\ <<first>>[Len(<<first>>)] = first
      BY TwoAtOnce
    <2>4. Whole(Append(<<first>>, second))
      BY <1>2, <1>3, <2>1, <2>3, OneMoreIsWhole
    <2>5. \A i \in 1 .. Len(levels) : levels[i].kind # "code"
      BY <1>2, <2>1, <2>2
    <2> QED
      BY <1>1, <2>2, <2>3, <2>4, <2>5 DEF levels
  <1>6. CASE route.kind # "graph" /\ route.inside = None
    <2>1. levels = <<first>>
      BY <1>6 DEF StackForRoute
    <2> HIDE DEF first, levels
    <2>2. \A i \in 1 .. Len(levels) : levels[i].kind # "code"
      BY <1>2, <2>1
    <2> QED
      BY <1>1, <1>3, <2>1, <2>2 DEF levels
  <1> QED
    BY <1>4, <1>5, <1>6

LEMMA RouteLeadsBack ==
    ASSUME NEW route \in Routes, NEW project \in Projects \cup {None},
           route.kind # "home" => project = route.project
    PROVE  CurrentPath(route.kind = "home", project, StackForRoute(route)) = route
  <1> DEFINE first == Composition(route.view, None, None)
             levels == StackForRoute(route)
  <1>a. levels \in Seq(Level)
    BY RouteLeadsToWhole DEF Whole
  <1>1. CASE route.kind = "home"
    BY <1>1, RouteLeadsToWhole DEF CurrentPath
  <1>2. CASE route \in {PlaceAt("project", p, None, None, None) : p \in Projects}
    <2>1. route = PlaceAt("project", project, None, None, None) /\ project # None /\ route.kind # "home"
      BY <1>2 DEF PlaceAt
    <2>2. levels = <<Composition(None, None, None)>>
      BY <2>1 DEF StackForRoute, PlaceAt
    <2>3. \A j \in 1 .. Len(levels) : ~IsNamed(levels[j])
      BY <2>2 DEF IsNamed, Composition
    <2> HIDE DEF levels
    <2>4. CurrentPath(FALSE, project, levels) = route
      BY <1>a, <2>1, <2>3, PathOfNone
    <2> QED
      BY <2>1, <2>4 DEF levels
  <1>3. CASE route \in {PlaceAt("view", p, view, inside, None) :
                          p \in Projects, view \in Views, inside \in Insides \cup {None}}
    <2>1. PICK view \in Views, inside \in Insides \cup {None} :
              route = PlaceAt("view", project, view, inside, None) /\ project # None
      BY <1>3 DEF PlaceAt
    <2>2. route.kind # "home" /\ view # None
      BY <2>1 DEF PlaceAt
    <2>3. CASE inside # None
      <3> DEFINE u == Composition(view, None, None)
                 v == Composition(view, inside, None)
      <3>a. route.view = view /\ route.inside = inside /\ route.kind = "view"
        BY <2>1 DEF PlaceAt
      <3>b. levels = (<<u>> \o <<v>>) \o <<>>
        BY <2>3, <3>a DEF StackForRoute
      <3>1. levels = <<u, v>>
        <4> HIDE DEF u, v, levels
        <4> QED
          BY <3>b, TwoAtOnce
      <3>2. Deepest(levels, 2) /\ levels[2] = Composition(view, inside, None)
        BY <2>2, <3>1 DEF Deepest, IsNamed, Composition
      <3> HIDE DEF levels
      <3>3. CurrentPath(FALSE, project, levels) = PathAt(project, levels[2])
        BY <1>a, <2>1, <3>2, PathOfTheDeepest
      <3>4. PathAt(project, levels[2]) = route
        BY <2>1, <2>3, <3>2 DEF PathAt, PlaceAt, Composition
      <3> QED
        BY <2>2, <3>3, <3>4 DEF levels
    <2>4. CASE inside = None
      <3> DEFINE u == Composition(view, None, None)
      <3>a. route.view = view /\ route.inside = inside /\ route.kind = "view"
        BY <2>1 DEF PlaceAt
      <3>b. levels = (<<u>> \o <<>>) \o <<>>
        BY <2>4, <3>a DEF StackForRoute
      <3>1. levels = <<u>>
        <4> HIDE DEF u, levels
        <4> QED
          BY <3>b, TwoAtOnce
      <3>2. Deepest(levels, 1) /\ levels[1] = Composition(view, None, None)
        BY <2>2, <3>1 DEF Deepest, IsNamed, Composition
      <3> HIDE DEF levels
      <3>3. CurrentPath(FALSE, project, levels) = PathAt(project, levels[1])
        BY <1>a, <2>1, <3>2, PathOfTheDeepest
      <3>4. PathAt(project, levels[1]) = route
        BY <2>1, <2>4, <3>2 DEF PathAt, PlaceAt, Composition
      <3> QED
        BY <2>2, <3>3, <3>4 DEF levels
    <2> QED
      BY <2>3, <2>4
  <1>4. CASE route \in {PlaceAt("graph", p, None, None, w) : p \in Projects, w \in GraphPaths}
    <2>1. PICK w \in GraphPaths : route = PlaceAt("graph", project, None, None, w) /\ project # None
      BY <1>4 DEF PlaceAt
    <2>2. route.kind # "home"
      BY <2>1 DEF PlaceAt
    <2> DEFINE u == Composition(None, None, None)
               v == GraphLevel(w)
    <2>a. route.view = None /\ route.inside = None /\ route.kind = "graph" /\ route.graph = w
      BY <2>1 DEF PlaceAt
    <2>b. levels = (<<u>> \o <<>>) \o <<v>>
      BY <2>a DEF StackForRoute
    <2>3. levels = <<u, v>>
      <3> HIDE DEF u, v, levels
      <3> QED
        BY <2>b, TwoAtOnce
    <2>4. Deepest(levels, 2) /\ levels[2] = GraphLevel(w)
      BY <2>3 DEF Deepest, IsNamed, GraphLevel
    <2> HIDE DEF levels
    <2>5. CurrentPath(FALSE, project, levels) = PathAt(project, levels[2])
      BY <1>a, <2>1, <2>4, PathOfTheDeepest
    <2>6. PathAt(project, levels[2]) = route
      BY <2>1, <2>4 DEF PathAt, PlaceAt, GraphLevel
    <2> QED
      BY <2>2, <2>5, <2>6 DEF levels
  <1> QED
    BY <1>1, <1>2, <1>3, <1>4 DEF Routes, HomeRoute, PlaceAt

(* The chain of domains, as far up as n steps.                              *)
UpAt(f, domains, d, n) ==
    IF n = 0 THEN <<d>>
    ELSE LET before == f[n - 1]
             above  == domains[Head(before)]
         IN IF above \notin DOMAIN domains THEN before ELSE <<above>> \o before

Climbs(f, domains, d, n) == f = [i \in 0 .. n |-> UpAt(f, domains, d, i)]

(* The recursion is a function, for any number of steps: a least number at   *)
(* which it failed would have a number before it.                            *)
LEMMA ClimbExists ==
    ASSUME NEW domains, NEW d, NEW last \in Nat
    PROVE  \E f : Climbs(f, domains, d, last)
  <1> DEFINE T == {n \in 0 .. last : ~(\E f : Climbs(f, domains, d, n))}
  <1>1. SUFFICES ASSUME T # {} PROVE FALSE
    OBVIOUS
  <1>b. T \in SUBSET Nat
    OBVIOUS
  <1>2. PICK m \in T : \A v \in T : m <= v
    <2> HIDE DEF T
    <2> QED
      BY <1>1, <1>b, LeastNumber
  <1>3. m # 0
    <2>1. Climbs([i \in 0 .. 0 |-> <<d>>], domains, d, 0)
      BY DEF UpAt, Climbs
    <2> QED
      BY <1>2, <2>1
  <1>4. m \in Nat /\ m - 1 \in 0 .. last /\ m - 1 \notin T
    BY <1>2, <1>3
  <1>5. PICK w : Climbs(w, domains, d, m - 1)
    BY <1>4
  <1> DEFINE f == [i \in 0 .. m |-> IF i = m THEN UpAt(w, domains, d, m) ELSE w[i]]
  <1>6. ASSUME NEW i \in 0 .. m PROVE f[i] = UpAt(f, domains, d, i)
    <2>1. CASE i = 0
      BY <1>3, <1>4, <1>5, <2>1 DEF UpAt, Climbs
    <2>2. CASE i # 0
      <3>1. i - 1 \in 0 .. m - 1 /\ f[i - 1] = w[i - 1]
        BY <1>4, <2>2
      <3>2. UpAt(f, domains, d, i) = UpAt(w, domains, d, i)
        <4> HIDE DEF f
        <4> QED
          BY <2>2, <3>1 DEF UpAt
      <3>3. CASE i = m
        BY <3>2, <3>3
      <3>4. CASE i # m
        <4>1. i \in 0 .. m - 1
          BY <1>4, <3>4
        <4>2. w[i] = UpAt(w, domains, d, i)
          BY <1>5, <4>1 DEF Climbs
        <4> QED
          BY <3>2, <3>4, <4>2
      <3> QED
        BY <3>3, <3>4
    <2> QED
      BY <2>1, <2>2
  <1>7. Climbs(f, domains, d, m)
    BY <1>6 DEF Climbs
  <1> QED
    BY <1>2, <1>7

(* However far: domains that are known, down to the one it began at.        *)
LEMMA ClimbIsOfDomains ==
    ASSUME NEW domains, NEW d \in DOMAIN domains, NEW last \in Nat, NEW f, Climbs(f, domains, d, last),
           NEW n \in 0 .. last
    PROVE  f[n] \in Seq(DOMAIN domains) /\ f[n] # <<>> /\ f[n][Len(f[n])] = d
  <1> DEFINE Fine(s) == s \in Seq(DOMAIN domains) /\ s # <<>> /\ s[Len(s)] = d
             T == {k \in 0 .. last : ~Fine(f[k])}
  <1>1. SUFFICES ASSUME T # {} PROVE FALSE
    OBVIOUS
  <1>b. T \in SUBSET Nat
    OBVIOUS
  <1>2. PICK m \in T : \A v \in T : m <= v
    <2> HIDE DEF T
    <2> QED
      BY <1>1, <1>b, LeastNumber
  <1>3. f[m] = UpAt(f, domains, d, m)
    BY <1>2 DEF Climbs
  <1>4. m # 0
    <2>1. Fine(<<d>>)
      OBVIOUS
    <2> QED
      BY <1>2, <1>3, <2>1 DEF UpAt
  <1>5. m - 1 \in 0 .. last /\ m - 1 \notin T
    BY <1>2, <1>4
  <1>6. Fine(f[m - 1])
    BY <1>5
  <1> DEFINE before == f[m - 1]
             above  == domains[Head(before)]
  <1>7. CASE above \notin DOMAIN domains
    BY <1>2, <1>3, <1>4, <1>6, <1>7 DEF UpAt
  <1>8. CASE above \in DOMAIN domains
    <2>1. f[m] = <<above>> \o before
      BY <1>3, <1>4, <1>8 DEF UpAt
    <2> HIDE DEF above, before
    <2>2. Fine(<<above>> \o before)
      <3>1. before \in Seq(DOMAIN domains) /\ Len(before) \in Nat /\ Len(before) > 0 /\ before[Len(before)] = d
        BY <1>6 DEF before
      <3>2. /\ <<above>> \o before \in Seq(DOMAIN domains) /\ Len(<<above>> \o before) = 1 + Len(before)
            /\ (<<above>> \o before)[1 + Len(before)] = before[Len(before)]
        BY <1>8, <3>1
      <3> QED
        BY <3>1, <3>2
    <2> QED
      BY <1>2, <2>1, <2>2
  <1> QED
    BY <1>7, <1>8

(* So the chain of a domain is of known domains, and ends in it.             *)
LEMMA ChainIsOfDomains ==
    ASSUME NEW view, NEW domains, NEW d \in DOMAIN domains
    PROVE  \E chain \in Seq(DOMAIN domains) :
               /\ chain # <<>> /\ chain[Len(chain)] = d
               /\ ChainOf(view, domains, d) = [i \in 1 .. Len(chain) |-> Composition(view, chain[i], None)]
  <1> DEFINE up == CHOOSE f : Climbs(f, domains, d, 31)
  <1>1. Climbs(up, domains, d, 31)
    BY ClimbExists
  <1>2. up[31] \in Seq(DOMAIN domains) /\ up[31] # <<>> /\ up[31][Len(up[31])] = d
    <2> HIDE DEF up
    <2>1. 31 \in Nat /\ 31 \in 0 .. 31
      OBVIOUS
    <2> QED
      BY <1>1, <2>1, ClimbIsOfDomains
  <1>3. ChainOf(view, domains, d) = [i \in DOMAIN up[31] |-> Composition(view, up[31][i], None)]
    BY DEF ChainOf, Climbs, UpAt
  <1> HIDE DEF up
  <1>4. DOMAIN up[31] = 1 .. Len(up[31])
    BY <1>2
  <1> QED
    BY <1>2, <1>3, <1>4

(* Where the place lands.                                                   *)
ViewLanded(levels, p) ==
    IF Head(levels).view # None
    THEN IF Head(levels).view \in DOMAIN ViewsOf(p) THEN Head(levels).view ELSE None
    ELSE Documents[p].opens

Into(top) == IF top.kind # "composition" THEN None
             ELSE IF top.diagram # None THEN top.diagram ELSE top.domain

AtDiagram(p, view, top) == view # None /\ Into(top) \in SteppedInto(p, view)
AtDomain(p, view, top) ==
    view # None /\ top.kind = "composition" /\ top.domain \in DOMAIN ViewsOf(p)[view].domains
AtGraph(p, top) == top.kind = "graph" /\ top.path \in DOMAIN Documents[p].graphs

(* A view, then domains of it down to one.                                   *)
Chain(levels, view, domains, d) ==
    \E chain \in Seq(DOMAIN domains) :
        /\ chain # <<>> /\ chain[Len(chain)] = d
        /\ levels = <<Composition(view, None, None)>>
                    \o [i \in 1 .. Len(chain) |-> Composition(view, chain[i], None)]

(* The four ways to land.                                                    *)
LEMMA LandedIs ==
    ASSUME NEW p \in Projects, NEW levels, Whole(levels),
           NEW view, view = ViewLanded(levels, p), NEW top, top = Top(levels)
    PROVE  /\ view \in DOMAIN ViewsOf(p) \cup {None} /\ view \in Views \cup {None}
           /\ AtDiagram(p, view, top) =>
                 Landed(levels, p) = <<Composition(view, None, None), Composition(view, None, Into(top))>>
           /\ ~AtDiagram(p, view, top) /\ AtDomain(p, view, top) =>
                 Chain(Landed(levels, p), view, ViewsOf(p)[view].domains, top.domain)
           /\ ~AtDiagram(p, view, top) /\ AtGraph(p, top) =>
                 Landed(levels, p) = <<Composition(view, None, None), top>>
           /\ ~AtDiagram(p, view, top) /\ ~AtDomain(p, view, top) /\ ~AtGraph(p, top) =>
                 Landed(levels, p) = <<Composition(view, None, None)>>
  <1> DEFINE loaded == IF view = None THEN [domains |-> <<>>, diagrams |-> <<>>, entry |-> None]
                       ELSE ViewsOf(p)[view]
             first == Composition(view, None, None)
             second == Composition(view, None, Into(top))
             chain == ChainOf(view, loaded.domains, top.domain)
  <1>1. view \in DOMAIN ViewsOf(p) \cup {None} /\ view \in Views \cup {None}
    BY DEF ViewLanded
  <1>2. /\ DOMAIN loaded.diagrams \ {loaded.entry} = IF view = None THEN {} ELSE SteppedInto(p, view)
        /\ DOMAIN loaded.domains = IF view = None THEN {} ELSE DOMAIN ViewsOf(p)[view].domains
    BY DEF SteppedInto
  <1>3. Landed(levels, p) =
          IF Into(top) \in DOMAIN loaded.diagrams \ {loaded.entry}
          THEN <<first, second>>
          ELSE <<first>> \o
               CASE top.kind = "composition" /\ top.domain \in DOMAIN loaded.domains -> chain
                 [] top.kind = "graph" /\ top.path \in DOMAIN Documents[p].graphs -> <<top>>
                 [] OTHER -> <<>>
    BY DEF Landed, ViewLanded, Into
  <1> HIDE DEF loaded, first, second, chain
  <1>4. /\ AtDiagram(p, view, top) <=> Into(top) \in DOMAIN loaded.diagrams \ {loaded.entry}
        /\ AtDomain(p, view, top) <=> top.kind = "composition" /\ top.domain \in DOMAIN loaded.domains
    BY <1>2 DEF AtDiagram, AtDomain
  <1>5. CASE AtDiagram(p, view, top)
    BY <1>1, <1>3, <1>4, <1>5 DEF first, second
  <1>6. CASE ~AtDiagram(p, view, top) /\ AtDomain(p, view, top)
    <2>1. top.kind = "composition" /\ ~AtGraph(p, top) /\ top.domain \in DOMAIN loaded.domains /\ view # None
      BY <1>4, <1>6 DEF AtDomain, AtGraph
    <2>2. Landed(levels, p) = <<first>> \o chain
      BY <1>3, <1>4, <1>6, <2>1
    <2> DEFINE domains == loaded.domains
               d == top.domain
    <2>a. d \in DOMAIN domains /\ chain = ChainOf(view, domains, d)
      BY <2>1 DEF chain
    <2> HIDE DEF domains, d
    <2>b. \E c \in Seq(DOMAIN domains) :
             /\ c # <<>> /\ c[Len(c)] = d
             /\ ChainOf(view, domains, d) = [i \in 1 .. Len(c) |-> Composition(view, c[i], None)]
      BY <2>a, ChainIsOfDomains
    <2>3. PICK c \in Seq(DOMAIN loaded.domains) :
             /\ c # <<>> /\ c[Len(c)] = top.domain
             /\ chain = [i \in 1 .. Len(c) |-> Composition(view, c[i], None)]
      BY <2>a, <2>b DEF domains, d
    <2>4. loaded = ViewsOf(p)[view]
      BY <2>1 DEF loaded
    <2>5. Chain(Landed(levels, p), view, loaded.domains, top.domain)
      BY <2>2, <2>3 DEF Chain, first
    <2> QED
      BY <1>1, <1>6, <2>1, <2>4, <2>5
  <1>7. CASE ~AtDiagram(p, view, top) /\ AtGraph(p, top)
    <2>1. top.kind = "graph" /\ top.path \in DOMAIN Documents[p].graphs /\ ~AtDomain(p, view, top)
      BY <1>7 DEF AtGraph, AtDomain
    <2>2. Landed(levels, p) = <<first>> \o <<top>>
      BY <1>3, <1>4, <1>7, <2>1
    <2>3. Landed(levels, p) = <<first, top>>
      BY <2>2, TwoAtOnce
    <2> QED
      BY <1>1, <1>7, <2>1, <2>3 DEF first
  <1>8. CASE ~AtDiagram(p, view, top) /\ ~AtDomain(p, view, top) /\ ~AtGraph(p, top)
    <2>1. Landed(levels, p) = <<first>> \o <<>>
      BY <1>3, <1>4, <1>8 DEF AtGraph
    <2>2. Landed(levels, p) = <<first>>
      BY <2>1, TwoAtOnce
    <2> QED
      BY <1>1, <1>8, <2>2 DEF first
  <1> QED
    BY <1>5, <1>6, <1>7, <1>8

(* Wherever it lands, the stack is whole and all of it is held by the bundle. *)
LEMMA TwoAreWhole ==
    ASSUME NEW first \in Level, first.kind = "composition", NEW second \in Level,
           second.kind = "composition" => first.view = second.view
    PROVE  Whole(<<first, second>>) /\ Len(<<first, second>>) = 2
           /\ <<first, second>>[1] = first /\ <<first, second>>[2] = second
  <1>1. Whole(<<first>>)
    BY OneLevelIsWhole
  <1>2. Append(<<first>>, second) = <<first, second>> /\ Len(<<first>>) = 1 /\ <<first>>[1] = first
    BY TwoAtOnce
  <1>3. Whole(Append(<<first>>, second))
    BY <1>1, <1>2, OneMoreIsWhole
  <1> QED
    BY <1>2, <1>3

OfDomains(levels, view, domains) ==
    \A i \in 1 .. Len(levels) : \E u \in {None} \cup DOMAIN domains : levels[i] = Composition(view, u, None)

LEMMA ChainIsWhole ==
    ASSUME NEW p \in Projects, NEW view \in DOMAIN ViewsOf(p), NEW d, NEW levels,
           Chain(levels, view, ViewsOf(p)[view].domains, d)
    PROVE  /\ Whole(levels) /\ Len(levels) > 1 /\ levels[Len(levels)] = Composition(view, d, None)
           /\ OfDomains(levels, view, ViewsOf(p)[view].domains)
  <1> DEFINE domains == ViewsOf(p)[view].domains
             L == {Composition(view, u, None) : u \in {None} \cup DOMAIN domains}
  <1>1. PICK chain \in Seq(DOMAIN domains) :
            /\ chain # <<>> /\ chain[Len(chain)] = d
            /\ levels = <<Composition(view, None, None)>>
                        \o [i \in 1 .. Len(chain) |-> Composition(view, chain[i], None)]
    BY DEF Chain
  <1> DEFINE first == Composition(view, None, None)
             rest == [i \in 1 .. Len(chain) |-> Composition(view, chain[i], None)]
  <1>2. Len(chain) \in Nat /\ Len(chain) > 0 /\ \A i \in 1 .. Len(chain) : chain[i] \in DOMAIN domains
    BY <1>1
  <1>3. first \in L /\ rest \in [1 .. Len(chain) -> L]
    BY <1>2
  <1>4. rest \in Seq(L) /\ Len(rest) = Len(chain) /\ rest[Len(chain)] = Composition(view, d, None)
    BY <1>1, <1>2, <1>3
  <1>5. L \subseteq Level /\ \A l \in L : l.kind = "composition" /\ l.view = view
    <2>1. \A u \in {None} \cup DOMAIN domains : u \in Insides \cup {None}
      OBVIOUS
    <2>2. view \in Views \cup {None}
      OBVIOUS
    <2>3. \A u \in {None} \cup DOMAIN domains : Composition(view, u, None) \in Level
      BY <2>1, <2>2, LevelsAre
    <2> QED
      BY <2>3 DEF Composition
  <1>6. levels = <<first>> \o rest
    BY <1>1
  <1> HIDE DEF first, rest, L, domains
  <1>7. /\ levels \in Seq(L) /\ Len(levels) = 1 + Len(rest)
        /\ levels[Len(levels)] = rest[Len(chain)]
    BY <1>2, <1>3, <1>4, <1>6
  <1>8. levels \in Seq(Level) /\ levels # <<>> /\ \A i \in 1 .. Len(levels) : levels[i] \in L
    BY <1>2, <1>4, <1>5, <1>7
  <1>9. Whole(levels)
    <2>1. \A i \in 1 .. Len(levels) : levels[i].kind = "composition" /\ levels[i].view = view
      BY <1>5, <1>8
    <2>2. 1 \in 1 .. Len(levels)
      BY <1>2, <1>4, <1>7
    <2> QED
      BY <1>8, <2>1, <2>2 DEF Whole, Below
  <1>10. OfDomains(levels, view, domains)
    BY <1>8 DEF L, OfDomains
  <1> QED
    BY <1>2, <1>4, <1>7, <1>9, <1>10 DEF domains

LEMMA LandedIsHeld ==
    ASSUME NEW p \in Projects, NEW levels, Whole(levels)
    PROVE  Whole(Landed(levels, p)) /\ \A i \in DOMAIN Landed(levels, p) : Holds(p, Landed(levels, p)[i])
  <1> DEFINE view == ViewLanded(levels, p)
             top == Top(levels)
             first == Composition(view, None, None)
             landed == Landed(levels, p)
  <1>1. /\ view \in DOMAIN ViewsOf(p) \cup {None} /\ view \in Views \cup {None}
        /\ AtDiagram(p, view, top) => landed = <<first, Composition(view, None, Into(top))>>
        /\ ~AtDiagram(p, view, top) /\ AtDomain(p, view, top) =>
              Chain(landed, view, ViewsOf(p)[view].domains, top.domain)
        /\ ~AtDiagram(p, view, top) /\ AtGraph(p, top) => landed = <<first, top>>
        /\ ~AtDiagram(p, view, top) /\ ~AtDomain(p, view, top) /\ ~AtGraph(p, top) => landed = <<first>>
    BY LandedIs
  <1>2. top \in Level
    BY TopOfWhole
  <1>3. first \in Level /\ first.kind = "composition" /\ first.view = view
    BY <1>1, LevelsAre DEF Composition
  <1>4. Holds(p, first)
    BY <1>1 DEF Holds, Composition
  <1>5. CASE AtDiagram(p, view, top)
    <2> DEFINE second == Composition(view, None, Into(top))
    <2>1. view \in DOMAIN ViewsOf(p) /\ Into(top) \in DOMAIN ViewsOf(p)[view].diagrams
      BY <1>1, <1>5 DEF AtDiagram, SteppedInto
    <2>2. Into(top) \in Insides \cup {None}
      BY <2>1
    <2>3. second \in Level /\ second.kind = "composition" /\ second.view = view
      BY <1>1, <2>2, LevelsAre DEF Composition
    <2>4. Holds(p, second)
      BY <2>1 DEF Holds, Composition
    <2>5. landed = <<first, second>>
      BY <1>1, <1>5
    <2> HIDE DEF first, second, landed
    <2>6. /\ Whole(<<first, second>>) /\ Len(<<first, second>>) = 2
          /\ <<first, second>>[1] = first /\ <<first, second>>[2] = second
      BY <1>3, <2>3, TwoAreWhole
    <2>7. \A i \in DOMAIN landed : Holds(p, landed[i])
      BY <1>4, <2>4, <2>5, <2>6
    <2> QED
      BY <2>5, <2>6, <2>7 DEF landed
  <1>6. CASE ~AtDiagram(p, view, top) /\ AtDomain(p, view, top)
    <2>1. view \in DOMAIN ViewsOf(p)
      BY <1>1, <1>6 DEF AtDomain
    <2>2. Chain(landed, view, ViewsOf(p)[view].domains, top.domain)
      BY <1>1, <1>6
    <2> DEFINE d == top.domain
    <2> HIDE DEF view, landed, top, d
    <2>a. Chain(landed, view, ViewsOf(p)[view].domains, d)
      BY <2>2 DEF d
    <2>b. /\ Whole(landed) /\ Len(landed) > 1 /\ landed[Len(landed)] = Composition(view, d, None)
          /\ OfDomains(landed, view, ViewsOf(p)[view].domains)
      BY ONLY <2>1, <2>a, ChainIsWhole, p \in Projects
    <2>3. /\ Whole(landed)
          /\ \A i \in 1 .. Len(landed) :
                \E u \in {None} \cup DOMAIN ViewsOf(p)[view].domains : landed[i] = Composition(view, u, None)
      BY <2>b DEF OfDomains
    <2>4. DOMAIN landed = 1 .. Len(landed)
      BY <2>3 DEF Whole
    <2>5. \A u \in {None} \cup DOMAIN ViewsOf(p)[view].domains : Holds(p, Composition(view, u, None))
      BY <2>1 DEF Holds, Composition
    <2> QED
      BY <2>3, <2>4, <2>5 DEF landed
  <1>7. CASE ~AtDiagram(p, view, top) /\ AtGraph(p, top)
    <2>1. landed = <<first, top>> /\ top.kind = "graph" /\ top.path \in DOMAIN Documents[p].graphs
      BY <1>1, <1>7 DEF AtGraph
    <2>2. Holds(p, top)
      BY <2>1 DEF Holds
    <2> HIDE DEF first, top, landed
    <2>3. /\ Whole(<<first, top>>) /\ Len(<<first, top>>) = 2
          /\ <<first, top>>[1] = first /\ <<first, top>>[2] = top
      BY <1>2, <1>3, <2>1, TwoAreWhole
    <2>4. \A i \in DOMAIN landed : Holds(p, landed[i])
      BY <1>4, <2>1, <2>2, <2>3
    <2> QED
      BY <2>1, <2>3, <2>4 DEF landed
  <1>8. CASE ~AtDiagram(p, view, top) /\ ~AtDomain(p, view, top) /\ ~AtGraph(p, top)
    <2>1. landed = <<first>>
      BY <1>1, <1>8
    <2> HIDE DEF first, landed
    <2>2. Whole(<<first>>)
      BY <1>3, OneLevelIsWhole
    <2>3. \A i \in DOMAIN landed : Holds(p, landed[i])
      BY <1>4, <2>1
    <2> QED
      BY <2>1, <2>2, <2>3 DEF landed
  <1> QED
    BY <1>5, <1>6, <1>7, <1>8

(* A place that the bundle keeps has the path it had.                        *)
LEMMA TopNamesThePath ==
    ASSUME NEW levels, Whole(levels), NEW level, level = levels[Len(levels)], IsNamed(level),
           NEW p \in Projects
    PROVE  CurrentPath(FALSE, p, levels) = PathAt(p, level)
  <1>1. levels \in Seq(Level) /\ Len(levels) \in Nat /\ Len(levels) \in 1 .. Len(levels)
    BY DEF Whole
  <1>2. Deepest(levels, Len(levels))
    BY <1>1 DEF Deepest
  <1>3. p # None
    OBVIOUS
  <1> QED
    BY <1>1, <1>2, <1>3, PathOfTheDeepest

LEMMA PathSurvives ==
    ASSUME NEW p \in Projects, NEW levels, Whole(levels),
           CurrentPath(FALSE, p, levels).kind # "project",
           \A i \in DOMAIN levels : Keeps(p, levels[i])
    PROVE  CurrentPath(FALSE, p, Landed(levels, p)) = CurrentPath(FALSE, p, levels)
  <1> DEFINE view == ViewLanded(levels, p)
             top == Top(levels)
             first == Composition(view, None, None)
             landed == Landed(levels, p)
  <1>1. /\ view \in DOMAIN ViewsOf(p) \cup {None} /\ view \in Views \cup {None}
        /\ AtDiagram(p, view, top) => landed = <<first, Composition(view, None, Into(top))>>
        /\ ~AtDiagram(p, view, top) /\ AtDomain(p, view, top) =>
              Chain(landed, view, ViewsOf(p)[view].domains, top.domain)
        /\ ~AtDiagram(p, view, top) /\ AtGraph(p, top) => landed = <<first, top>>
        /\ ~AtDiagram(p, view, top) /\ ~AtDomain(p, view, top) /\ ~AtGraph(p, top) => landed = <<first>>
    BY LandedIs
  <1>2. /\ top \in Level /\ top = levels[Len(levels)] /\ Len(levels) \in Nat \ {0}
        /\ Head(levels) = levels[1] /\ Len(levels) \in DOMAIN levels
        /\ DOMAIN levels = 1 .. Len(levels) /\ levels \in Seq(Level)
    BY TopOfWhole DEF Whole
  <1>3. first \in Level /\ first.kind = "composition" /\ first.view = view
    BY <1>1, LevelsAre DEF Composition
  <1>4. Keeps(p, top)
    BY <1>2
  <1>5. Whole(landed) /\ landed \in Seq(Level)
    BY LandedIsHeld DEF Whole
  <1>6. top.kind \in {"composition", "graph"}
    <2>1. top.kind \in {"composition", "graph", "code"}
      BY <1>2, LevelFields
    <2>2. top.kind # "code"
      BY <1>4 DEF Keeps, Holds
    <2> QED
      BY <2>1, <2>2
  <1>7. p # None
    OBVIOUS
  <1>8. view # None => /\ DOMAIN ViewsOf(p)[view].domains \subseteq Insides
                       /\ SteppedInto(p, view) \subseteq Insides
    BY <1>1 DEF SteppedInto
  <1>9. None \notin Insides /\ None \notin Views
    OBVIOUS
  <1>10. CASE top.kind = "graph"
    <2>1. IsNamed(top)
      BY <1>10 DEF IsNamed
    <2>2. CurrentPath(FALSE, p, levels) = PathAt(p, top)
      BY <1>2, <2>1, TopNamesThePath
    <2>3. ~AtDiagram(p, view, top)
      BY <1>8, <1>9, <1>10 DEF AtDiagram, Into
    <2>4. AtGraph(p, top)
      BY <1>4, <1>10 DEF Keeps, Holds, AtGraph
    <2>5. landed = <<first, top>>
      BY <1>1, <2>3, <2>4
    <2> HIDE DEF landed, top, first
    <2>6. landed[Len(landed)] = top
      BY <2>5
    <2>7. CurrentPath(FALSE, p, landed) = PathAt(p, top)
      BY <1>5, <2>1, <2>6, TopNamesThePath
    <2> QED
      BY <2>2, <2>7 DEF landed
  <1>11. CASE top.kind = "composition"
    <2>1. \A i \in 1 .. Len(levels) : levels[i].kind = "composition" /\ levels[i].view = top.view
      <3> SUFFICES ASSUME NEW i \in 1 .. Len(levels)
                   PROVE  levels[i].kind = "composition" /\ levels[i].view = top.view
        OBVIOUS
      <3>1. CASE i = Len(levels)
        BY <1>2, <1>11, <3>1
      <3>2. CASE i # Len(levels)
        <4>a. Len(levels) \in Nat \ {0}
          BY <1>2
        <4>1. i < Len(levels) /\ Len(levels) \in 1 .. Len(levels)
          BY ONLY <3>2, <4>a, i \in 1 .. Len(levels)
        <4>2. Below(levels, i, Len(levels))
          BY <4>1 DEF Whole
        <4> QED
          BY <1>2, <1>11, <4>2 DEF Below
      <3> QED
        BY <3>1, <3>2
    <2>2. top.view # None
      <3> SUFFICES ASSUME top.view = None PROVE FALSE
        OBVIOUS
      <3>1. \A j \in 1 .. Len(levels) : ~IsNamed(levels[j])
        BY <2>1 DEF IsNamed
      <3>2. CurrentPath(FALSE, p, levels) = PlaceAt("project", p, None, None, None)
        BY <1>2, <1>7, <3>1, PathOfNone
      <3>3. PlaceAt("project", p, None, None, None).kind = "project"
        BY DEF PlaceAt
      <3> QED
        BY ONLY <3>2, <3>3, CurrentPath(FALSE, p, levels).kind # "project"
    <2>3. top.view \in DOMAIN ViewsOf(p)
      BY <1>4, <1>11, <2>2 DEF Keeps, Holds
    <2>4. view = top.view
      <3>1. Head(levels).view = top.view
        BY <1>2, <2>1
      <3> QED
        BY <2>2, <2>3, <3>1 DEF ViewLanded
    <2>5. IsNamed(top)
      BY <1>11, <2>2 DEF IsNamed
    <2>6. CurrentPath(FALSE, p, levels) = PathAt(p, top)
      BY <1>2, <2>5, TopNamesThePath
    <2> DEFINE inside == IF top.domain # None THEN top.domain ELSE top.diagram
    <2>7. PathAt(p, top) = PlaceAt("view", p, view, inside, None)
      BY <1>11, <2>4 DEF PathAt
    <2>8. Into(top) = inside /\ (top.domain = None \/ top.diagram = None)
      BY <1>2, <1>11, LevelFields DEF Into
    <2>9. CASE AtDiagram(p, view, top)
      <3> DEFINE second == Composition(view, None, inside)
      <3>1. landed = <<first, second>>
        BY <1>1, <2>8, <2>9
      <3>2. IsNamed(second) /\ PathAt(p, second) = PlaceAt("view", p, view, inside, None)
        BY <2>2, <2>4 DEF IsNamed, PathAt, Composition
      <3> HIDE DEF landed, first, second
      <3>3. landed[Len(landed)] = second
        BY <3>1
      <3>4. CurrentPath(FALSE, p, landed) = PathAt(p, second)
        BY <1>5, <3>2, <3>3, TopNamesThePath
      <3> QED
        BY <2>6, <2>7, <3>2, <3>4 DEF landed
    <2>10. CASE ~AtDiagram(p, view, top) /\ AtDomain(p, view, top)
      <3> DEFINE second == Composition(view, top.domain, None)
      <3>1. top.domain # None
        BY <1>8, <1>9, <2>10 DEF AtDomain
      <3>2. IsNamed(second) /\ PathAt(p, second) = PlaceAt("view", p, view, inside, None)
        BY <2>2, <2>4, <3>1 DEF IsNamed, PathAt, Composition
      <3>3. Chain(landed, view, ViewsOf(p)[view].domains, top.domain)
        BY <1>1, <2>10
      <3>4. view \in DOMAIN ViewsOf(p)
        BY <2>3, <2>4
      <3> DEFINE d == top.domain
      <3>a. Chain(landed, view, ViewsOf(p)[view].domains, d)
        BY <3>3
      <3> HIDE DEF landed, view, d
      <3>5. /\ Whole(landed) /\ Len(landed) > 1 /\ landed[Len(landed)] = Composition(view, d, None)
            /\ OfDomains(landed, view, ViewsOf(p)[view].domains)
        BY ONLY <3>4, <3>a, ChainIsWhole, p \in Projects
      <3>6. landed[Len(landed)] = second
        BY <3>5 DEF d
      <3> HIDE DEF second
      <3>7. CurrentPath(FALSE, p, landed) = PathAt(p, second)
        BY <1>5, <3>2, <3>6, TopNamesThePath
      <3> QED
        BY <2>6, <2>7, <3>2, <3>7 DEF landed
    <2>11. CASE ~AtDiagram(p, view, top) /\ ~AtDomain(p, view, top)
      <3>1. inside = None
        BY <1>4, <1>8, <1>9, <1>11, <2>2, <2>3, <2>4, <2>8, <2>11
           DEF Keeps, Holds, AtDiagram, AtDomain
      <3>2. landed = <<first>>
        BY <1>1, <1>11, <2>11 DEF AtGraph
      <3>3. IsNamed(first) /\ PathAt(p, first) = PlaceAt("view", p, view, None, None)
        BY <2>2, <2>4 DEF IsNamed, PathAt, Composition
      <3> HIDE DEF landed, first
      <3>4. landed[Len(landed)] = first
        BY <3>2
      <3>5. CurrentPath(FALSE, p, landed) = PathAt(p, first)
        BY <1>5, <3>3, <3>4, TopNamesThePath
      <3> QED
        BY <2>6, <2>7, <3>1, <3>3, <3>5 DEF landed
    <2> QED
      BY <2>9, <2>10, <2>11
  <1> QED
    BY <1>6, <1>10, <1>11

-----------------------------------------------------------------------------
(* The address bar says where the author is.                                 *)
PlacesInv ==
    /\ visited \in Seq(Routes) /\ at \in 1 .. Len(visited) /\ Len(visited) <= MaxPlaces
    /\ visited[at] = CurrentPath(atHome, active, stack)

(* A bundle on its way is of the project in front: a load while that loads, a *)
(* refresh once it is drawn.                                                 *)
FetchSo(f) ==
    /\ f.of = active
    /\ f.for = "load" => load.status = "loading"
    /\ f.for = "refresh" => load.status = "ready"

FrontInv ==
    /\ atHome \in BOOLEAN /\ active \in Projects \cup {None}
    /\ load \in [status : {"loading", "ready", "error"}, of : Projects \cup {None}]
    /\ load.status = "ready" => load.of \in Projects /\ (active # None => load.of = active)
    /\ fetches \subseteq [for : {"load", "refresh"}, of : Projects]
    /\ \A f \in fetches : FetchSo(f)

(* Nothing is selected on the canvas while code is in front.                 *)
SelectionInv == Top(stack).kind = "code" => selectedOn = None

PageInv == PlacesInv /\ FrontInv /\ Whole(stack) /\ SelectionInv

(* Show, from any place of the browser's history.                            *)
Shows(n, home, project, levels) ==
    /\ atHome' = home /\ stack' = levels
    /\ MirrorAt(n, home, project, levels)
    /\ IF project = active THEN UNCHANGED <<active, fetches, load>>
       ELSE /\ Unhurried => \A f \in fetches : f.for # "refresh"
            /\ SwitchTo(project)

(* What each step amounts to: it shows a place, stays at the one there is, or *)
(* lands as the project in front has come.                                   *)
Moves(n, home, project, levels) ==
    /\ Shows(n, home, project, levels)
    /\ n \in 1 .. Len(visited) /\ home \in BOOLEAN /\ project \in Projects \cup {None} /\ Whole(levels)
    /\ Top(levels).kind = "code" => selectedOn' = None
    /\ levels # stack /\ gesture' # "popped" => selectedOn' = None
    /\ gesture' = "popped" => visited' = visited

Stays ==
    /\ UNCHANGED <<atHome, active, stack, visited, at>> /\ gesture' # "popped" /\ FrontInv'
    /\ ~(load.status = "loading" /\ load'.status = "ready")
    /\ Top(stack).kind = "code" => selectedOn' = None

Lands(f) ==
    /\ f \in fetches /\ f.for = "load" /\ gesture' # "popped"
    /\ fetches' = fetches \ {f} /\ load' = [status |-> "ready", of |-> f.of]
    /\ stack' = Landed(stack, f.of) /\ MirrorAt(at, atHome, active, Landed(stack, f.of))
    /\ selectedOn' = None /\ UNCHANGED <<atHome, active>>

(* What is on its way, as one fact.                                          *)
LEMMA FetchesAre ==
    ASSUME FrontInv, NEW f \in fetches
    PROVE  /\ f \in [for : {"load", "refresh"}, of : Projects]
           /\ f.for \in {"load", "refresh"} /\ f.of \in Projects /\ f.of = active
           /\ f.for = "load" => load.status = "loading"
           /\ f.for = "refresh" => load.status = "ready"
  <1>1. fetches \subseteq [for : {"load", "refresh"}, of : Projects]
    BY ONLY FrontInv DEF FrontInv
  <1>2. FetchSo(f)
    BY DEF FrontInv
  <1>3. f \in [for : {"load", "refresh"}, of : Projects]
    BY <1>1
  <1>4. f.for \in {"load", "refresh"} /\ f.of \in Projects
    BY <1>3
  <1>5. /\ f.of = active
        /\ f.for = "load" => load.status = "loading"
        /\ f.for = "refresh" => load.status = "ready"
    BY <1>2 DEF FetchSo
  <1> QED
    BY ONLY <1>3, <1>4, <1>5, Zenon

AnyMove == \E n, home, project, levels : Moves(n, home, project, levels)

(* The address bar follows whatever is shown.                                *)
LEMMA MirrorIsSo ==
    ASSUME PlacesInv, NEW n \in 1 .. Len(visited), NEW home \in BOOLEAN, NEW project \in Projects \cup {None},
           NEW levels \in Seq(Level), MirrorAt(n, home, project, levels)
    PROVE  /\ visited' \in Seq(Routes) /\ at' \in 1 .. Len(visited') /\ Len(visited') <= MaxPlaces
           /\ visited'[at'] = CurrentPath(home, project, levels)
  <1> DEFINE place == CurrentPath(home, project, levels)
  <1>1. place \in Routes
    BY PathIsARoute
  <1>2. visited \in Seq(Routes) /\ Len(visited) \in Nat /\ Len(visited) <= MaxPlaces
    BY DEF PlacesInv
  <1>3. CASE visited[n] = place
    BY <1>2, <1>3 DEF MirrorAt
  <1>4. CASE visited[n] # place
    <2>1. n < MaxPlaces /\ visited' = Append(SubSeq(visited, 1, n), place) /\ at' = n + 1
      BY <1>4 DEF MirrorAt
    <2> HIDE DEF place
    <2>2. SubSeq(visited, 1, n) \in Seq(Routes) /\ Len(SubSeq(visited, 1, n)) = n
      BY <1>2
    <2>3. /\ visited' \in Seq(Routes) /\ Len(visited') = n + 1 /\ visited'[n + 1] = place
      BY <1>1, <2>1, <2>2
    <2> QED
      BY <1>2, <2>1, <2>3 DEF place
  <1> QED
    BY <1>3, <1>4

(* Each of the three keeps the invariant.                                    *)
LEMMA MovesKeep ==
    ASSUME Unhurried, PageInv, AnyMove
    PROVE  PageInv' /\ ~(load.status = "loading" /\ load'.status = "ready")
  <1>1. PICK n, home, project, levels : Moves(n, home, project, levels)
    BY DEF AnyMove
  <1>2. /\ n \in 1 .. Len(visited) /\ home \in BOOLEAN /\ project \in Projects \cup {None} /\ Whole(levels)
        /\ Top(levels).kind = "code" => selectedOn' = None
        /\ atHome' = home /\ stack' = levels /\ MirrorAt(n, home, project, levels)
        /\ IF project = active THEN UNCHANGED <<active, fetches, load>>
           ELSE (\A f \in fetches : f.for # "refresh") /\ SwitchTo(project)
    BY <1>1 DEF Moves, Shows
  <1>3. levels \in Seq(Level) /\ PlacesInv /\ FrontInv
    BY <1>2 DEF Whole, PageInv
  <1>4. active' = project
    BY <1>2 DEF SwitchTo
  <1>5. PlacesInv'
    <2>1. /\ visited' \in Seq(Routes) /\ at' \in 1 .. Len(visited') /\ Len(visited') <= MaxPlaces
          /\ visited'[at'] = CurrentPath(home, project, levels)
      BY <1>2, <1>3, MirrorIsSo
    <2> QED
      BY <1>2, <1>4, <2>1 DEF PlacesInv
  <1>6. FrontInv' /\ ~(load.status = "loading" /\ load'.status = "ready")
    <2>1. CASE project = active
      BY <1>2, <1>3, <2>1 DEF FrontInv, FetchSo
    <2>2. CASE project # active /\ project = None
      <3>1. fetches' = {} /\ load' = load
        <4>1. fetches' = {f \in fetches : f.for = "refresh"} \cup {} /\ load' = load
          BY <1>2, <2>2 DEF SwitchTo
        <4> QED
          BY <1>2, <2>2, <4>1
      <3> QED
        BY <1>2, <1>3, <1>4, <2>2, <3>1 DEF FrontInv, FetchSo
    <2>3. CASE project # active /\ project # None
      <3> DEFINE new == [for |-> "load", of |-> project]
      <3>1. fetches' = {new} /\ load' = [status |-> "loading", of |-> None]
        <4>1. /\ fetches' = {f \in fetches : f.for = "refresh"} \cup {new}
              /\ load' = [status |-> "loading", of |-> None]
          BY <1>2, <2>3 DEF SwitchTo
        <4> QED
          BY <1>2, <2>3, <4>1
      <3>2. new \in [for : {"load", "refresh"}, of : Projects] /\ new.of = project /\ new.for = "load"
        BY <1>2, <2>3
      <3>3. /\ load' \in [status : {"loading", "ready", "error"}, of : Projects \cup {None}]
            /\ load'.status = "loading"
        BY <3>1
      <3> HIDE DEF new
      <3> QED
        BY <1>2, <1>3, <1>4, <3>1, <3>2, <3>3 DEF FrontInv, FetchSo
    <2> QED
      BY <2>1, <2>2, <2>3
  <1>7. Whole(stack)'
    BY <1>2
  <1>8. SelectionInv'
    BY <1>2 DEF SelectionInv
  <1> QED
    BY <1>5, <1>6, <1>7, <1>8 DEF PageInv

LEMMA StaysKeep ==
    ASSUME PageInv, Stays
    PROVE  PageInv'
  <1>1. PlacesInv' /\ Whole(stack)'
    BY DEF PageInv, Stays, PlacesInv
  <1>2. SelectionInv'
    BY DEF Stays, SelectionInv
  <1> QED
    BY <1>1, <1>2 DEF PageInv, Stays

LEMMA LandsKeep ==
    ASSUME PageInv, NEW f, Lands(f)
    PROVE  /\ PageInv' /\ f.of \in Projects /\ f.of = active /\ load'.of = f.of
           /\ visited'[at'] = CurrentPath(atHome, active, Landed(stack, f.of))
  <1>1. /\ f \in fetches /\ f.for = "load" /\ fetches' = fetches \ {f}
        /\ load' = [status |-> "ready", of |-> f.of]
        /\ stack' = Landed(stack, f.of) /\ MirrorAt(at, atHome, active, Landed(stack, f.of))
        /\ selectedOn' = None /\ UNCHANGED <<atHome, active>>
    BY DEF Lands
  <1>2. PlacesInv /\ FrontInv /\ Whole(stack)
    BY DEF PageInv
  <1>3. f.of \in Projects /\ f.of = active /\ load.status = "loading"
    BY <1>1, <1>2, FetchesAre
  <1>4. Whole(Landed(stack, f.of)) /\ Landed(stack, f.of) \in Seq(Level)
    BY <1>2, <1>3, LandedIsHeld DEF Whole
  <1>5. at \in 1 .. Len(visited) /\ atHome \in BOOLEAN /\ active \in Projects \cup {None}
    BY <1>2 DEF PlacesInv, FrontInv
  <1>6. /\ visited' \in Seq(Routes) /\ at' \in 1 .. Len(visited') /\ Len(visited') <= MaxPlaces
        /\ visited'[at'] = CurrentPath(atHome, active, Landed(stack, f.of))
    BY <1>1, <1>2, <1>4, <1>5, MirrorIsSo
  <1>7. PlacesInv'
    BY <1>1, <1>6 DEF PlacesInv
  <1>8. fetches' = {}
    <2>1. ASSUME NEW w \in fetches PROVE w.for = "load" /\ w.of = f.of
      <3>1. w.for \in {"load", "refresh"} /\ w.of = active /\ (w.for = "refresh" => load.status = "ready")
        BY <1>2, FetchesAre
      <3> QED
        BY <1>3, <3>1
    <2>2. \A w \in fetches : w = f
      <3>1. fetches \subseteq [for : {"load", "refresh"}, of : Projects]
        BY <1>2 DEF FrontInv, FetchSo
      <3> QED
        BY <1>1, <2>1, <3>1
    <2> QED
      BY <1>1, <2>2
  <1>9. FrontInv'
    <2>1. /\ load' \in [status : {"loading", "ready", "error"}, of : Projects \cup {None}]
          /\ load'.of = f.of
      BY <1>1, <1>3
    <2> QED
      BY <1>1, <1>3, <1>5, <1>8, <2>1 DEF FrontInv, FetchSo
  <1>10. Whole(stack)' /\ SelectionInv'
    BY <1>1, <1>4 DEF SelectionInv
  <1> QED
    BY <1>1, <1>3, <1>6, <1>7, <1>9, <1>10 DEF PageInv

(* What a gesture that shows a stack in the project in front amounts to.    *)
LEMMA ShowIsAMove ==
    ASSUME PageInv, NEW home \in BOOLEAN, NEW project \in Projects \cup {None}, NEW levels, Whole(levels),
           Show(home, project, levels), gesture' # "popped",
           Top(levels).kind = "code" => selectedOn' = None, levels # stack => selectedOn' = None
    PROVE  AnyMove
  <1>1. at \in 1 .. Len(visited)
    BY DEF PageInv, PlacesInv
  <1>2. Shows(at, home, project, levels)
    BY DEF Show, Shows
  <1>3. Moves(at, home, project, levels)
    BY <1>1, <1>2 DEF Moves
  <1> QED
    BY <1>3 DEF AnyMove

(* Each gesture and each answer is one of the three.                         *)
LEMMA GoIsAMove ==
    ASSUME PageInv, NEW levels, Whole(levels), Go(levels), gesture' # "popped"
    PROVE  AnyMove
  <1>1. /\ atHome \in BOOLEAN /\ active \in Projects \cup {None}
        /\ Show(atHome, active, levels) /\ selectedOn' = None
    BY DEF PageInv, FrontInv, Go
  <1> QED
    BY <1>1, ShowIsAMove

LEMMA PopIsAMove ==
    ASSUME PageInv, NEW n, Pop(n)
    PROVE  AnyMove
  <1> DEFINE route == visited[n]
             home == route.kind = "home"
             project == IF home THEN active ELSE route.project
             levels == StackForRoute(route)
  <1>1. /\ n \in {at - 1, at + 1} \cap DOMAIN visited /\ gesture' = "popped"
        /\ atHome' = home /\ stack' = levels /\ MirrorAt(n, home, project, levels)
        /\ IF project = active THEN UNCHANGED <<active, fetches, load>>
           ELSE /\ Unhurried => \A f \in fetches : f.for # "refresh"
                /\ SwitchTo(project)
    BY DEF Pop
  <1>2. visited \in Seq(Routes) /\ active \in Projects \cup {None}
    BY DEF PageInv, PlacesInv, FrontInv
  <1>3. n \in 1 .. Len(visited) /\ route \in Routes
    BY <1>1, <1>2
  <1>4. /\ Whole(levels) /\ \A i \in 1 .. Len(levels) : levels[i].kind # "code"
        /\ route.kind # "home" => route.project \in Projects
    BY <1>3, RouteLeadsToWhole
  <1>5. project \in Projects \cup {None} /\ (route.kind # "home" => project = route.project)
    BY <1>2, <1>4
  <1> HIDE DEF project, levels
  <1>6. CurrentPath(home, project, levels) = route
    BY <1>3, <1>5, RouteLeadsBack DEF levels
  <1>7. visited' = visited
    BY <1>1, <1>6 DEF MirrorAt
  <1>8. Top(levels).kind # "code"
    <2>1. Top(levels) = levels[Len(levels)] /\ Len(levels) \in Nat \ {0}
      BY <1>4, TopOfWhole
    <2> QED
      BY <1>4, <2>1
  <1>9. home \in BOOLEAN
    OBVIOUS
  <1>10. Shows(n, home, project, levels)
    BY <1>1 DEF Shows
  <1>11. Moves(n, home, project, levels)
    BY <1>1, <1>3, <1>4, <1>5, <1>7, <1>8, <1>9, <1>10 DEF Moves
  <1> QED
    BY <1>11 DEF AnyMove

LEMMA GesturesMove ==
    ASSUME PageInv
    PROVE  /\ \A p \in Projects : EnterProject(p) => AnyMove
           /\ GoHome => AnyMove
           /\ Descend => AnyMove
           /\ Escape => AnyMove
           /\ \A i : AscendTo(i) => AnyMove
           /\ \A view : SwitchView(view) => AnyMove
           /\ \A file \in Files : OpenFile(file) \/ ReportActiveFile(file) => AnyMove
  <1>1. /\ Whole(stack) /\ atHome \in BOOLEAN /\ active \in Projects \cup {None}
        /\ load.status = "ready" => load.of \in Projects
        /\ Top(stack).kind = "code" => selectedOn = None
    BY DEF PageInv, FrontInv, SelectionInv
  <1>2. /\ Top(stack) = stack[Len(stack)] /\ Top(stack) \in Level /\ Len(stack) \in Nat \ {0}
    BY <1>1, TopOfWhole
  <1>3. ASSUME NEW p \in Projects, EnterProject(p) PROVE AnyMove
    <2>1. Show(FALSE, p, stack) /\ gesture' # "popped" /\ selectedOn' = selectedOn
      BY <1>3 DEF EnterProject
    <2> QED
      BY <1>1, <2>1, ShowIsAMove
  <1>4. ASSUME GoHome PROVE AnyMove
    <2>1. Show(TRUE, active, stack) /\ gesture' # "popped" /\ selectedOn' = selectedOn
      BY <1>4 DEF GoHome
    <2> QED
      BY <1>1, <2>1, ShowIsAMove
  <1>5. ASSUME Descend PROVE AnyMove
    <2>1. PICK target \in Targets(load.of, Top(stack)) : Go(Append(stack, target))
      BY <1>5 DEF Descend
    <2>2. Top(stack).kind # "code" /\ load.of \in Projects /\ gesture' # "popped"
      BY <1>1, <1>5 DEF Descend, OnCanvas, Ready
    <2>3. /\ target \in Level
          /\ target.kind = "composition" => Top(stack).kind = "composition" /\ target.view = Top(stack).view
      BY <1>2, <2>1, <2>2, TargetsAreLevels
    <2>4. Whole(Append(stack, target))
      BY <1>1, <1>2, <2>2, <2>3, OneMoreIsWhole
    <2> QED
      BY <2>1, <2>2, <2>4, GoIsAMove
  <1>6. ASSUME Escape PROVE AnyMove
    <2> DEFINE levels == IF OnCanvas THEN Ascended(Ascended(stack)) ELSE Ascended(stack)
    <2>1. Go(levels) /\ gesture' # "popped"
      BY <1>6 DEF Escape
    <2>2. Whole(Ascended(stack)) /\ Whole(Ascended(Ascended(stack)))
      BY <1>1, AscendedIsWhole
    <2>3. Whole(levels)
      BY <2>2
    <2> QED
      BY <2>1, <2>3, GoIsAMove
  <1>7. ASSUME NEW i, AscendTo(i) PROVE AnyMove
    <2>1. Go(SubSeq(stack, 1, i)) /\ gesture' # "popped" /\ i \in 1 .. Len(stack)
      BY <1>2, <1>7 DEF AscendTo
    <2>2. Whole(SubSeq(stack, 1, i))
      BY <1>1, <2>1, FewerAreWhole
    <2> QED
      BY <2>1, <2>2, GoIsAMove
  <1>8. ASSUME NEW view, SwitchView(view) PROVE AnyMove
    <2> DEFINE level == Composition(view, None, None)
    <2>1. /\ Go(<<level>>) /\ gesture' # "popped" /\ load.of \in Projects
          /\ view \in DOMAIN ViewsOf(load.of) \cup {None}
      BY <1>1, <1>8 DEF SwitchView, OnCanvas, Ready
    <2>2. view \in Views \cup {None}
      BY <2>1
    <2>3. level \in Level /\ level.kind = "composition"
      BY <2>2, LevelsAre DEF Composition
    <2> HIDE DEF level
    <2>4. Whole(<<level>>)
      BY <2>3, OneLevelIsWhole
    <2> QED
      BY <2>1, <2>4, GoIsAMove
  <1>9. ASSUME NEW file \in Files, OpenFile(file) PROVE AnyMove
    <2>1. Go(Opened(stack, file)) /\ gesture' # "popped"
      BY <1>9 DEF OpenFile
    <2> QED
      BY <1>1, <2>1, OpenedIsWhole, GoIsAMove
  <1>10. ASSUME NEW file \in Files, ReportActiveFile(file) PROVE AnyMove
    <2> DEFINE level == CodeLevel(Top(stack).files, file)
               levels == Append(Front(stack), level)
    <2>1. /\ Show(atHome, active, levels) /\ gesture' # "popped" /\ selectedOn' = selectedOn
          /\ Top(stack).kind = "code" /\ file \in Top(stack).files
      BY <1>10 DEF ReportActiveFile
    <2>2. Top(stack).files \in SUBSET Files
      BY <1>2, <2>1, LevelFields
    <2>3. level \in Level /\ level.kind = "code"
      BY <2>1, <2>2, LevelsAre DEF CodeLevel
    <2> HIDE DEF level
    <2>4. Whole(levels)
      BY <1>1, <2>1, <2>3, AnotherTabIsWhole
    <2> QED
      BY <1>1, <2>1, <2>4, ShowIsAMove
  <1> QED
    BY <1>3, <1>4, <1>5, <1>6, <1>7, <1>8, <1>9, <1>10

LEMMA AnswersAreSo ==
    ASSUME PageInv
    PROVE  /\ Select => Stays
           /\ ListProjects => AnyMove \/ Stays
           /\ Refresh => Stays
           /\ \A f : LoadAnswers(f) => Stays \/ Lands(f)
           /\ \A f : RefreshAnswers(f) => Stays
  <1>1. /\ Whole(stack) /\ atHome \in BOOLEAN /\ active \in Projects \cup {None} /\ FrontInv
        /\ Top(stack).kind = "code" => selectedOn = None
    BY DEF PageInv, FrontInv, SelectionInv
  <1>2. ASSUME Select PROVE Stays
    <2>1. /\ UNCHANGED <<atHome, active, stack, load, fetches, listed, visited, at>>
          /\ gesture' # "popped" /\ Top(stack).kind # "code"
      BY <1>2 DEF Select, OnCanvas
    <2>2. FrontInv'
      BY <1>1, <2>1 DEF FrontInv, FetchSo
    <2> QED
      BY <2>1, <2>2 DEF Stays
  <1>3. ASSUME ListProjects PROVE AnyMove \/ Stays
    <2>1. gesture' # "popped" /\ selectedOn' = selectedOn
      BY <1>3 DEF ListProjects
    <2>2. CASE active = None \/ active \in Existing
      <3>1. UNCHANGED <<atHome, active, stack, load, fetches, visited, at>>
        BY <1>3, <2>2 DEF ListProjects
      <3>2. FrontInv'
        BY <1>1, <3>1 DEF FrontInv, FetchSo
      <3> QED
        BY <1>1, <2>1, <3>1, <3>2 DEF Stays
    <2>3. CASE ~(active = None \/ active \in Existing)
      <3>1. Show(atHome, None, stack)
        BY <1>3, <2>3 DEF ListProjects
      <3> QED
        BY <1>1, <2>1, <3>1, ShowIsAMove
    <2> QED
      BY <2>2, <2>3
  <1>4. ASSUME Refresh PROVE Stays
    <2> DEFINE new == [for |-> "refresh", of |-> active]
    <2>1. /\ UNCHANGED <<atHome, active, stack, load, listed, selectedOn, visited, at>>
          /\ gesture' # "popped" /\ active # None /\ load.status = "ready"
          /\ fetches' = fetches \cup {new}
      BY <1>4 DEF Refresh, Ready
    <2>2. new \in [for : {"load", "refresh"}, of : Projects] /\ new.of = active /\ new.for = "refresh"
      BY <1>1, <2>1
    <2> HIDE DEF new
    <2>3. FrontInv'
      BY <1>1, <2>1, <2>2 DEF FrontInv, FetchSo
    <2> QED
      BY <1>1, <2>1, <2>3 DEF Stays
  <1>5. ASSUME NEW f, LoadAnswers(f) PROVE Stays \/ Lands(f)
    <2>1. /\ f \in fetches /\ f.for = "load" /\ gesture' # "popped" /\ fetches' = fetches \ {f}
          /\ UNCHANGED <<atHome, active, listed>>
      BY <1>5 DEF LoadAnswers
    <2>2. CASE /\ load' = [status |-> "ready", of |-> f.of] /\ stack' = Landed(stack, f.of)
               /\ MirrorAt(at, atHome, active, Landed(stack, f.of)) /\ selectedOn' = None
      BY <2>1, <2>2 DEF Lands
    <2>3. CASE load' = [status |-> "error", of |-> None] /\ UNCHANGED <<stack, selectedOn, visited, at>>
      <3>1. load.status = "loading"
        BY <1>1, <2>1, FetchesAre
      <3>2. fetches' = {w \in fetches : w # f} /\ \A w \in fetches : w.for # "refresh"
        BY <1>1, <2>1, <3>1, FetchesAre
      <3>3. /\ load' \in [status : {"loading", "ready", "error"}, of : Projects \cup {None}]
            /\ load'.status = "error"
        BY <2>3
      <3>4. \A w \in fetches' : w.for # "load"
        <4> SUFFICES ASSUME NEW w \in fetches, w # f, w.for = "load" PROVE FALSE
          BY <3>2
        <4>1. /\ w \in [for : {"load", "refresh"}, of : Projects] /\ w.of = active
              /\ f \in [for : {"load", "refresh"}, of : Projects] /\ f.of = active
          BY <1>1, <2>1, FetchesAre
        <4> QED
          BY <2>1, <4>1
      <3>5. FrontInv'
        BY <1>1, <2>1, <3>2, <3>3, <3>4 DEF FrontInv, FetchSo
      <3> QED
        BY <1>1, <2>1, <2>3, <3>3, <3>5 DEF Stays
    <2> QED
      BY <1>5, <2>2, <2>3 DEF LoadAnswers
  <1>6. ASSUME NEW f, RefreshAnswers(f) PROVE Stays
    <2>1. /\ f \in fetches /\ f.for = "refresh" /\ gesture' # "popped" /\ fetches' = fetches \ {f}
          /\ load' = load \/ load' = [status |-> "ready", of |-> f.of]
          /\ UNCHANGED <<atHome, active, stack, listed, selectedOn, visited, at>>
      BY <1>6 DEF RefreshAnswers
    <2>2. f \in [for : {"load", "refresh"}, of : Projects] /\ f.of = active /\ load.status = "ready"
      BY <1>1, <2>1, FetchesAre
    <2>3. /\ load' \in [status : {"loading", "ready", "error"}, of : Projects \cup {None}]
          /\ load'.status = "ready" /\ load'.of \in Projects /\ (active # None => load'.of = active)
      BY <1>1, <2>1, <2>2 DEF FrontInv, FetchSo
    <2>4. FrontInv'
      BY <1>1, <2>1, <2>2, <2>3 DEF FrontInv, FetchSo
    <2> QED
      BY <1>1, <2>1, <2>2, <2>4 DEF Stays
  <1> QED
    BY <1>2, <1>3, <1>4, <1>5, <1>6

LEMMA EveryStepIsOne ==
    ASSUME PageInv, PageNext
    PROVE  AnyMove \/ Stays \/ \E f : Lands(f)
  <1>1. ASSUME NEW n, Pop(n) PROVE AnyMove
    BY <1>1, PopIsAMove
  <1> QED
    BY <1>1, GesturesMove, AnswersAreSo DEF PageNext

(* A page that opens at a link is where the link says.                       *)
LEMMA PageInitially == PageInit => PageInv
  <1> SUFFICES ASSUME PageInit PROVE PageInv
    OBVIOUS
  <1>1. PICK route \in Links :
            /\ stack = StackForRoute(route) /\ visited = <<route>> /\ atHome = (route.kind = "home")
            /\ active \in IF route.kind = "home" THEN Projects \cup {None} ELSE {route.project}
    BY DEF PageInit
  <1>2. route \in Routes
    OBVIOUS
  <1>3. /\ Whole(stack) /\ \A i \in 1 .. Len(stack) : stack[i].kind # "code"
        /\ route.kind # "home" => route.project \in Projects
    BY <1>1, <1>2, RouteLeadsToWhole
  <1>4. active \in Projects \cup {None} /\ (route.kind # "home" => active = route.project)
    BY <1>1, <1>3
  <1>5. CurrentPath(atHome, active, stack) = route
    BY <1>1, <1>2, <1>4, RouteLeadsBack
  <1>6. PlacesInv
    <2>1. at = 1 /\ visited \in Seq(Routes) /\ Len(visited) = 1 /\ visited[1] = route
      BY <1>1, <1>2 DEF PageInit
    <2>2. MaxPlaces \in Nat /\ 1 <= MaxPlaces
      OBVIOUS
    <2> QED
      BY <1>5, <2>1, <2>2 DEF PlacesInv
  <1>7. FrontInv
    <2> DEFINE new == [for |-> "load", of |-> active]
    <2>1. /\ load = [status |-> "loading", of |-> None]
          /\ fetches = IF active = None THEN {} ELSE {new}
      BY DEF PageInit
    <2>2. /\ load \in [status : {"loading", "ready", "error"}, of : Projects \cup {None}]
          /\ load.status = "loading"
      BY <2>1
    <2>3. active # None =>
             new \in [for : {"load", "refresh"}, of : Projects] /\ new.of = active /\ new.for = "load"
      BY <1>4
    <2> HIDE DEF new
    <2>4. atHome \in BOOLEAN
      BY <1>1
    <2> QED
      BY <1>4, <2>1, <2>2, <2>3, <2>4 DEF FrontInv, FetchSo
  <1>8. SelectionInv
    BY DEF PageInit, SelectionInv
  <1> QED
    BY <1>3, <1>6, <1>7, <1>8 DEF PageInv

(* No step leads anywhere else.                                              *)
LEMMA PageStep ==
    ASSUME Unhurried, PageInv, [PageNext]_pageVars
    PROVE  PageInv'
  <1>1. CASE PageNext
    <2>1. ASSUME NEW f, Lands(f) PROVE PageInv'
      BY <2>1, LandsKeep
    <2> QED
      BY <1>1, <2>1, EveryStepIsOne, MovesKeep, StaysKeep
  <1>2. CASE UNCHANGED pageVars
    BY <1>2 DEF pageVars, PageInv, PlacesInv, FrontInv, FetchSo, SelectionInv
  <1> QED
    BY <1>1, <1>2

LEMMA ThePageIsSo == PageInv => PageTypeOK /\ FrontShowsItsOwn /\ StackIsWhole
  <1> SUFFICES ASSUME PageInv PROVE PageTypeOK /\ FrontShowsItsOwn /\ StackIsWhole
    OBVIOUS
  <1>1. FrontInv /\ PlacesInv /\ Whole(stack) /\ stack \in Seq(Level) /\ stack # <<>>
    BY DEF PageInv, Whole
  <1>2. DOMAIN stack = 1 .. Len(stack)
    BY <1>1
  <1>3. ASSUME NEW i \in DOMAIN stack PROVE IsLevel(stack[i])
    <2>1. stack[i] \in Level
      BY <1>1, <1>2
    <2> QED
      BY <2>1, LevelFields DEF IsLevel
  <1>4. at \in DOMAIN visited /\ Len(visited) <= MaxPlaces
    BY <1>1 DEF PlacesInv
  <1>5. /\ active \in Projects \cup {None} /\ load.status \in {"loading", "ready", "error"}
        /\ fetches \subseteq [for : {"load", "refresh"}, of : Projects]
    BY <1>1 DEF FrontInv
  <1>6. FrontShowsItsOwn
    BY <1>1 DEF FrontInv, FrontShowsItsOwn
  <1>7. StackIsWhole
    <2>1. Head(stack).kind = "composition"
      BY <1>1 DEF Whole
    <2>2. \A i, j \in DOMAIN stack : i < j => Below(stack, i, j)
      BY <1>1, <1>2 DEF Whole
    <2> QED
      BY <2>1, <2>2 DEF StackIsWhole, Below
  <1> QED
    BY <1>1, <1>3, <1>4, <1>5, <1>6, <1>7 DEF PageTypeOK

(* What the steps may not do: Back pushes nothing; a selection ends with its *)
(* canvas; and what loads lands where the path said.                         *)
LEMMA PopStep ==
    ASSUME PageInv, [PageNext]_pageVars
    PROVE  [gesture' = "popped" => visited' = visited]_pageVars
  <1> SUFFICES ASSUME PageNext, gesture' = "popped" PROVE visited' = visited
    BY DEF pageVars
  <1>1. CASE AnyMove
    BY <1>1 DEF AnyMove, Moves
  <1>2. ~Stays /\ \A f : ~Lands(f)
    BY DEF Stays, Lands
  <1> QED
    BY <1>1, <1>2, EveryStepIsOne

LEMMA SelectionStep ==
    ASSUME PageInv, [PageNext]_pageVars
    PROVE  [stack' # stack /\ gesture' # "popped" => selectedOn' = None]_pageVars
  <1> SUFFICES ASSUME PageNext, stack' # stack, gesture' # "popped" PROVE selectedOn' = None
    BY DEF pageVars
  <1>1. CASE AnyMove
    BY <1>1 DEF AnyMove, Moves, Shows
  <1>2. ~Stays
    BY DEF Stays
  <1>3. ASSUME NEW f, Lands(f) PROVE selectedOn' = None
    BY <1>3 DEF Lands
  <1> QED
    BY <1>1, <1>2, <1>3, EveryStepIsOne

LandsWhereItSays ==
    load.status = "loading" /\ load'.status = "ready" =>
        /\ \A i \in DOMAIN stack' : Holds(load'.of, stack'[i])
        /\ (~atHome /\ visited[at].kind # "project"
            /\ \A i \in DOMAIN stack : Keeps(load'.of, stack[i])) => visited'[at'] = visited[at]

LEMMA LandStep ==
    ASSUME Unhurried, PageInv, [PageNext]_pageVars
    PROVE  [LandsWhereItSays]_pageVars
  <1> SUFFICES ASSUME PageNext PROVE LandsWhereItSays
    BY DEF pageVars
  <1>1. CASE AnyMove
    BY <1>1, MovesKeep DEF LandsWhereItSays
  <1>2. CASE Stays
    BY <1>2 DEF Stays, LandsWhereItSays
  <1>3. ASSUME NEW f, Lands(f) PROVE LandsWhereItSays
    <2>1. /\ f.of \in Projects /\ f.of = active /\ load'.of = f.of
          /\ visited'[at'] = CurrentPath(atHome, active, Landed(stack, f.of))
      BY <1>3, LandsKeep
    <2>2. stack' = Landed(stack, f.of)
      BY <1>3 DEF Lands
    <2>3. Whole(stack) /\ visited[at] = CurrentPath(atHome, active, stack) /\ atHome \in BOOLEAN
      BY DEF PageInv, PlacesInv, FrontInv
    <2>4. \A i \in DOMAIN stack' : Holds(load'.of, stack'[i])
      <3>1. \A i \in DOMAIN Landed(stack, f.of) : Holds(f.of, Landed(stack, f.of)[i])
        BY <2>1, <2>3, LandedIsHeld
      <3> QED
        BY <2>1, <2>2, <3>1
    <2>5. ASSUME ~atHome, visited[at].kind # "project", \A i \in DOMAIN stack : Keeps(load'.of, stack[i])
          PROVE  visited'[at'] = visited[at]
      <3> DEFINE p == f.of
      <3>1. /\ p \in Projects /\ atHome = FALSE /\ CurrentPath(FALSE, p, stack).kind # "project"
            /\ \A i \in DOMAIN stack : Keeps(p, stack[i])
        BY <2>1, <2>3, <2>5
      <3> HIDE DEF p
      <3>2. CurrentPath(FALSE, p, Landed(stack, p)) = CurrentPath(FALSE, p, stack)
        BY <2>3, <3>1, PathSurvives
      <3> QED
        BY <2>1, <2>3, <3>1, <3>2 DEF p
    <2> QED
      BY <2>4, <2>5 DEF LandsWhereItSays
  <1> QED
    BY <1>1, <1>2, <1>3, EveryStepIsOne

(* While no project is left with a refresh of it under way, every state of the *)
(* page is so.                                                               *)
LEMMA PageAlways ==
    ASSUME Unhurried
    PROVE  PageSpec => []PageInv
  <1>1. PageInv /\ [PageNext]_pageVars => PageInv'
    BY PageStep
  <1> QED
    BY <1>1, PageInitially, PTL DEF PageSpec

(* The page is where its address says, for any documents, links, views and   *)
(* length of history (App.tsx:309, 384-456, 488, routes.ts): the bundle drawn is *)
(* of the project in front, the stack is whole, Back and Forward only walk the *)
(* history, a place that the project has survives its load and nothing else  *)
(* is on the stack, and a selection ends with its canvas.  While a refresh may *)
(* outlast its project the first is not so, which is what Unhurried excludes. *)
THEOREM ThePageIsWhereItSays ==
    ASSUME Unhurried
    PROVE  PageSpec => NavigationHolds
  <1>1. PageInv => FrontShowsItsOwn /\ StackIsWhole
    BY ThePageIsSo
  <1>2. PageInv /\ [PageNext]_pageVars => [gesture' = "popped" => visited' = visited]_pageVars
    BY PopStep
  <1>3. PageInv /\ [PageNext]_pageVars => [stack' # stack /\ gesture' # "popped" => selectedOn' = None]_pageVars
    BY SelectionStep
  <1>4. PageInv /\ [PageNext]_pageVars =>
           [load.status = "loading" /\ load'.status = "ready" =>
              /\ \A i \in DOMAIN stack' : Holds(load'.of, stack'[i])
              /\ (~atHome /\ visited[at].kind # "project"
                  /\ \A i \in DOMAIN stack : Keeps(load'.of, stack[i])) => visited'[at'] = visited[at]]_pageVars
    BY LandStep DEF LandsWhereItSays
  <1> QED
    BY <1>1, <1>2, <1>3, <1>4, PageAlways, PTL
       DEF PageSpec, NavigationHolds, PopPushesNothing, LinksLandWhereTheySay, SelectionEndsWithItsCanvas

-----------------------------------------------------------------------------
(* All of it, together.                                                      *)

(* Where the author is, what the code in front says and what source control  *)
(* shows are each as their module says, whatever the three do in between.    *)
THEOREM WhatThePageSaysIsSo ==
    ASSUME Unhurried
    PROVE  PageSpec /\ PaneSpec /\ PanelSpec => PageHolds
  BY ThePageIsWhereItSays, CodeInFrontIsKept, SourceControlShowsWhatIs DEF PageHolds

(* Every variable of the six modules keeps its type.                         *)
THEOREM EachKeepsItsTypes ==
    ASSUME Unhurried
    PROVE  Spec /\ PageSpec /\ PaneSpec /\ PanelSpec /\ SignInSpec /\ ProcessesSpec => []TypesOK
  <1>1. PageSpec => []PageTypeOK
    <2>1. PageInv => PageTypeOK
      BY ThePageIsSo
    <2> QED
      BY <2>1, PageAlways, PTL
  <1>2. PaneSpec => []PaneTypeOK
    <2>1. PaneInv => PaneTypeOK
      BY DEF PaneInv, PaneTypes
    <2> QED
      BY <2>1, PaneAlways, PTL
  <1>3. PanelSpec => []PanelTypeOK
    <2>1. PanelInv => PanelTypeOK
      BY ThePanelIsSo
    <2> QED
      BY <2>1, PanelAlways, PTL
  <1>4. ProcessesSpec => []ProcessesTypeOK
    <2>1. ProcessesInv => ProcessesTypeOK
      BY TheProcessesAreSo
    <2> QED
      BY <2>1, ProcessesAlways, PTL
  <1>5. TypeOK /\ PageTypeOK /\ PaneTypeOK /\ PanelTypeOK /\ SignInTypeOK /\ ProcessesTypeOK => TypesOK
    BY DEF TypesOK
  <1> QED
    BY <1>1, <1>2, <1>3, <1>4, <1>5, EditingTypesStay, SignInTypesStay, PTL
=============================================================================
