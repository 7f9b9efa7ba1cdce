------------------------------- MODULE Surface -------------------------------
(***************************************************************************)
(* Declarative surfaces (ui/catalog.py, ui/validator.py, ui/surface.py):    *)
(* the catalog of component types, the validator in front of every client,  *)
(* what a client draws of a surface, and the progress view of a run.        *)
(*                                                                         *)
(* A component is [id, type, props, children], a surface its root and a set *)
(* of components with different ids.  Of a property's value only what the   *)
(* validator looks at is kept: its form, and the word of an enum or action. *)
(***************************************************************************)
EXTENDS Naturals, FiniteSets

Forms == {"word", "number", "markup", "script", "pointer", "badpointer", "odd", "action"}

\* A value of a form nobody expected, on which the code raises a TypeError: as the form of a
\* property, a pointer that is no string or an action whose name cannot be hashed; in the
\* place of a type, an id or a child, a list or an object.
Odd == "odd"
V(form, word) == [form |-> form, word |-> word]
Bound == V("pointer", "")

-----------------------------------------------------------------------------
(* The catalog: the kind of each property of each type.                     *)

Enums == [align |-> {"start", "center", "end", "stretch", "baseline"},
          justify |-> {"start", "center", "end", "spaceBetween", "spaceAround"},
          variant |-> {"heading", "subtitle", "body", "caption"},
          tone |-> {"neutral", "good", "warn", "bad"}]

Catalog == [
  Row |-> [align |-> "align", justify |-> "justify"],
  Column |-> <<>>, List |-> <<>>, Divider |-> <<>>,
  Card |-> [title |-> "text"],
  Text |-> [text |-> "binding", variant |-> "variant"],
  Image |-> [src |-> "text", alt |-> "text"],
  TextField |-> [label |-> "text", value |-> "binding", placeholder |-> "text"],
  CheckBox |-> [label |-> "text", checked |-> "binding"],
  Slider |-> [label |-> "text", value |-> "binding", min |-> "number", max |-> "number"],
  InputChoice |-> [label |-> "text", options |-> "binding", value |-> "binding"],
  DateTime |-> [label |-> "text", value |-> "binding"],
  Button |-> [label |-> "text", onPress |-> "action"],
  Tabs |-> [labels |-> "text"],
  Modal |-> [title |-> "text", open |-> "binding"],
  BarChart |-> [title |-> "text", data |-> "binding", xKey |-> "text", yKey |-> "text"],
  Sparkline |-> [data |-> "binding", tone |-> "tone"],
  StatTile |-> [label |-> "text", value |-> "binding", unit |-> "text",
                delta |-> "binding", tone |-> "tone"],
  ProgressBar |-> [value |-> "binding", max |-> "number", tone |-> "tone"],
  Timeline |-> [title |-> "text", events |-> "binding"],
  DataTable |-> [columns |-> "text", rows |-> "binding", sortable |-> "bool",
                 filterKey |-> "text"],
  Heatmap |-> [title |-> "text", data |-> "binding", columns |-> "number"],
  Notice |-> [text |-> "binding", tone |-> "tone"],
  ApprovalCard |-> [summary |-> "binding", params |-> "binding",
                    confirm |-> "action", reject |-> "action"]]

RegisteredActions == {"approve", "reject", "rerun", "request_data"}

\* The types a client draws the children of.
Containers == {"Row", "Column", "List", "Card", "Tabs", "Modal"}

-----------------------------------------------------------------------------
(* A mutated form of Tone, for the mutation runs only.                       *)

\* A tile takes the node's state for its tone.
ToneIsState(s) == s

-----------------------------------------------------------------------------
(* validate_surface.                                                        *)

\* What one property may carry.  Every kind is refused a script URL.
Allowed(kind, v) ==
  /\ v.form # "script"
  /\ kind \in {"text", "binding"} => v.form # "markup"
  /\ kind = "binding" => v.form = "pointer"
  /\ kind \in DOMAIN Enums => v.form = "word" /\ v.word \in Enums[kind]
  /\ kind = "action" => v.form = "action" /\ v.word \in RegisteredActions

Accepts(c) ==
  /\ c.type \in DOMAIN Catalog
  /\ \A f \in DOMAIN c.props :
       f \in DOMAIN Catalog[c.type] /\ Allowed(Catalog[c.type][f], c.props[f])

\* Mutated form of Accepted: one offending component spoils the surface.
AcceptedTogether(components) == IF \A c \in components : Accepts(c) THEN components ELSE {}

\* The components that are served, each judged by itself.
Accepted(components) == {c \in components : Accepts(c)}

\* The validator, or the report on what it accepted, raises on such a component, and nothing is
\* served at all.  (The validator would stop before an odd value behind an earlier flaw of the
\* same component; components here have one flaw at most.)
Raises(components) ==
  \/ \E c \in components :
       \/ c.type = Odd
       \/ /\ c.type \in DOMAIN Catalog
          /\ \E f \in DOMAIN c.props \cap DOMAIN Catalog[c.type] :
               Catalog[c.type][f] \in {"binding", "action"} /\ c.props[f].form = Odd
  \/ \E c \in Accepted(components) : c.id = Odd \/ Odd \in c.children

-----------------------------------------------------------------------------
(* The clients: from the root through the children of containers, skipping  *)
(* children that are not there.  app.html draws what a task composed,       *)
(* index.html the progress view, by the same walk.                          *)

Kids(components, id) ==
  LET present == {c.id : c \in components}
  IN UNION {c.children \cap present : c \in {d \in components : d.id = id /\ d.type \in Containers}}

\* The components below `from', itself included.
Reached(components, from) ==
  LET drawing == {c \in components : c.type \in Containers}
      within[k \in 0 .. Cardinality(drawing)] ==
        IF k = 0 THEN from
        ELSE LET nearer == within[k - 1]
             IN nearer \cup UNION {c.children : c \in {d \in drawing : d.id \in nearer}}
  IN within[Cardinality(drawing)] \cap {c.id : c \in components}

\* Without its root, or with a container inside itself, a surface is not drawn at all.
Drawable(s) ==
  /\ \E c \in s.components : c.id = s.root
  /\ \A id \in Reached(s.components, {s.root}) :
       id \notin Reached(s.components, Kids(s.components, id))

Drawn(s) == IF Drawable(s) THEN Reached(s.components, {s.root}) ELSE {}

-----------------------------------------------------------------------------
(* build_run_surface: the progress view of a run, from the states of its    *)
(* nodes.  Ids are pairs; the answer is that of a node in Answers.          *)

ToneForState == [succeeded |-> "good", running |-> "neutral", pending |-> "neutral",
                 failed |-> "bad", cancelled |-> "warn", waiting |-> "warn"]
Tone(s) == ToneForState[s]

C(id, type, props, children) == [id |-> id, type |-> type, props |-> props, children |-> children]
Root == <<"root", 0>>
Title == <<"title", 0>>
Answer == <<"answer", 0>>
Notice == <<"notice", 0>>

RowOf(n, state) ==
  { C(<<"row", n>>, "Row", [align |-> V("word", "center"), justify |-> V("word", "spaceBetween")],
      {<<"name", n>>, <<"state", n>>}),
    C(<<"name", n>>, "Text", [variant |-> V("word", "body"), text |-> Bound], {}),
    C(<<"state", n>>, "StatTile",
      [label |-> V("word", "state"), value |-> Bound, tone |-> V("word", Tone(state))], {}) }

RunSurface(states, answers) ==
  LET nodes == {n \in DOMAIN states : states[n] # "absent"}
      answered == \E n \in nodes \cap answers : states[n] = "succeeded"
      failed == \E n \in nodes : states[n] = "failed"
      extra == (IF answered THEN {Answer} ELSE {}) \cup (IF failed THEN {Notice} ELSE {})
  IN [root |-> Root,
      components |->
        { C(Root, "Column", <<>>, {Title} \cup {<<"row", n>> : n \in nodes} \cup extra),
          C(Title, "Text", [variant |-> V("word", "heading"), text |-> Bound], {}) }
        \cup (UNION {RowOf(n, states[n]) : n \in nodes})
        \cup {c \in {C(Answer, "Text", [text |-> Bound], {}),
                      C(Notice, "Notice", [text |-> Bound, tone |-> V("word", "bad")], {})} :
                 c.id \in extra}]
=============================================================================
