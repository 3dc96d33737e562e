------------------------------ MODULE MCManifest -----------------------------
(* Model-checking instance of ManifestText, which implements ManifestOps, over *)
(* texts in each style an author may write.                                    *)
EXTENDS ManifestText

Plain(id) == [id |-> id, type |-> IF id = "a" THEN "boundary" ELSE "service", names |-> {}, overrides |-> {}]
Line(e, a, b) == [id |-> e, kind |-> "calls", from |-> a, to |-> b]
Row(v) == <<[t |-> "row", v |-> v]>>
Lines(v) == <<[t |-> "map", v |-> v]>>
NL == <<Tok("nl")>>
Dash == NL \o <<Tok("-")>>
Note == <<Tok("sp"), Tok("#")>>
Sheet(nodes, edges, layout) ==
  <<Tok("nodes:")>> \o nodes \o NL \o <<Tok("edges:")>> \o edges \o NL \o NL
    \o <<Tok("layout:")>> \o layout \o NL
None == <<Tok("sp")>> \o Lists
NoPlaces == <<Tok("sp")>> \o Maps
Inline(items) == <<Tok("sp"), Tok("[")>> \o items \o <<Tok("]")>>
Comma == <<Tok(","), Tok("sp")>>
(* As a scaffold leaves it; inline throughout; rows with comments; lines.      *)
MCTexts == {
  Sheet(None, None, NoPlaces),
  Sheet(Inline(Row(Plain("a")) \o Comma \o Row(Plain("b")) \o Comma \o Row(Plain("c"))),
        Inline(Row(Line("e", "a", "b")) \o Comma \o Row(Line("f", "b", "c"))
                 \o Comma \o Row(Line("g", "c", "a"))),
        NL \o Lines([id |-> "a"])),
  Sheet(Dash \o Row(Plain("a")) \o Note \o Dash \o Row(Plain("b")) \o Note,
        Dash \o Row(Line("e", "a", "b")) \o Note \o Dash \o Row(Line("f", "b", "b")) \o Note
          \o Dash \o Row(Line("g", "b", "a")) \o Note,
        NL \o Lines([id |-> "a"]) \o NL \o Lines([id |-> "b"])),
  Sheet(Dash \o Lines(Plain("a")) \o Dash \o Lines(Plain("b")),
        Dash \o Lines(Line("e", "a", "b")), NoPlaces)}
=============================================================================
