------------------------------ MODULE MCRunView ------------------------------
(* A run of two tasks, the second of which composes a surface.               *)
EXTENDS RunView

P(a, w, r, f) == [NoPatch EXCEPT !.add = a, !.wait = w, !.resume = r, !.finish = f]
MCPatches == {P({1, 2}, {1}, {}, FALSE), P({}, {}, {1}, FALSE), P({}, {}, {}, TRUE)}

\* A column of a text and of a card with a button; then with one flaw each.
Column(type) == C("r", type, <<>>, {"c", "t"})
Card(kids) == C("c", "Card", [title |-> V("word", "news")], kids)
Button(action) == C("b", "Button", [label |-> V("word", "go"), onPress |-> V("action", action)], {})
TextOf(v) == C("t", "Text", [text |-> v], {})
S(r, c, b, t) == [root |-> "r", components |-> {r, c, b, t}]
MCProposals ==
  { S(Column("Column"), Card({"b"}), Button("approve"), TextOf(Bound)),
    S(Column("Column"), Card({"b"}), Button("approve"), TextOf(V("markup", ""))),
    S(Column("Column"), Card({"b"}), Button("approve"), TextOf(V("odd", ""))),
    S(Column("Column"), Card({"b"}), Button("pay"), TextOf(Bound)),
    S(Column("Column"), Card({"b", Odd}), Button("approve"), TextOf(Bound)),
    S(Column(Odd), Card({"b"}), Button("approve"), TextOf(Bound)),
    S(Column("Column"), Card({"b", "r"}), Button("approve"), TextOf(Bound)),
    S(Column("Grid"), Card({"b"}), Button("approve"), TextOf(Bound)) }
=============================================================================
