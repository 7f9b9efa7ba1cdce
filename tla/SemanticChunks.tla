--------------------------- MODULE SemanticChunks ---------------------------
(***************************************************************************)
(* semantic_chunks (core/memory/chunking.py): a text is cut into blocks of  *)
(* at most max_words, a segmenter may name the second topic of a block, and *)
(* the rest of the block from there on is rolled over into the next one.    *)
(*                                                                         *)
(* A text is a sequence of words.  Of a word the model keeps whether it      *)
(* begins a line, and whether that line looks like a heading, a code fence  *)
(* or a table row; offsets are word positions, so that a reply which begins *)
(* inside a word (216-219 would split there) is not represented.  The text  *)
(* does not end with a line end.  A step is one turn of the loop.           *)
(***************************************************************************)
EXTENDS Naturals, Sequences, FiniteSets, FiniteSetsExt

CONSTANTS Texts,     \* the texts
          MaxWords,  \* max_words
          Floor      \* min_words: shorter blocks are not shown to the segmenter

Within == "word"                                  \* a word inside its line
LineStarts == {"line", "heading", "fence", "row"}           \* what a line may begin with
Words == LineStarts \cup {Within}

ASSUME ChunkAssumption ==
  /\ MaxWords \in Nat \ {0} /\ Floor \in Nat
  \* A text begins with a line, and a heading has a title on its own line.
  /\ \A t \in Texts : /\ t \in Seq(Words) /\ t # <<>> /\ t[1] \in LineStarts
                      /\ \A i \in 1 .. Len(t) : t[i] = "heading" => i < Len(t) /\ t[i + 1] = Within

VARIABLES source,   \* the text
          pending,  \* pending_start: the first word that is in no segment
          raw,      \* the segments: first and last word, and whether the segmenter ended it
          turn      \* flips with every turn, so that a turn without progress is a step too

vars == <<source, pending, raw, turn>>

Part(first, last) == SubSeq(source, first, last)
Marked(mark, first, last) == {i \in first .. last : source[i] = mark}
Done == pending > Len(source)

\* What the segmenter may answer about a block: nothing, any part of it in whole words or
\* something else; or it fails.
Failure == <<"failure">>
Replies(block) ==
  {<<>>, <<"foreign">>, Failure} \cup {SubSeq(block, i, j) : i, j \in DOMAIN block}

\* Equal up to the white space before the first word.
SameText(a, b) ==
  /\ Len(a) = Len(b) /\ Tail(a) = Tail(b)
  /\ {Head(a), Head(b)} \subseteq {"line", Within} \/ Head(a) = Head(b)

-----------------------------------------------------------------------------
(* Mutated forms of the definitions below, for the mutation runs only.      *)

\* Any answer is taken for a second topic, one that is the whole block included.
SplitsAnywhere(at, first, reply) == reply \notin {<<>>, Failure}

\* The loop goes on behind the block whatever was cut off.
NextAfterBlock(at, first, last, reply) == last + 1

\* The pattern is only tried where the block begins, as without its (?m).
HeadingsAtStart(first, last) ==
  IF first < last THEN Marked("heading", first, first) ELSE {}

-----------------------------------------------------------------------------
(* The budget and the structures it spares: _structural_end.                *)

NominalEnd(first) ==
  IF Len(source) - first + 1 <= MaxWords THEN Len(source) ELSE first + MaxWords - 1

\* A marker that is the last word of the candidate is no heading yet.
Headings(first, last) == Marked("heading", first, last - 1)
Fences(first, last) == Marked("fence", first, last)

\* rfind of a line end within the block; without one it yields -1, so that the line is
\* taken to begin where the text does.
LineStart(first, last) ==
  LET starts == {i \in first + 1 .. last : source[i] \in LineStarts}
  IN IF starts = {} THEN 1 ELSE Max(starts)

\* Up from a row's first word, while the line above is a row.
TableStart(first, row) ==
  LET start[r \in 0 .. row] ==
        IF r <= first THEN r
        ELSE LET above == LineStart(first, r - 1)
             IN IF source[above] = "row" THEN start[above] ELSE r
  IN start[row]

\* The last word of the block.
StructuralEnd(first, last) ==
  LET headings == Headings(first, last) \ {first}
      fences == Fences(first, last)
      line == LineStart(first, last)
      table == TableStart(first, line)
  IN IF headings # {} THEN Max(headings) - 1
     ELSE IF Cardinality(fences) % 2 = 1 /\ Max(fences) > first THEN Max(fences) - 1
     ELSE IF source[line] = "row" /\ table > first THEN table - 1
     ELSE last

-----------------------------------------------------------------------------
(* The segmenter's answer.                                                  *)

\* Where the second topic begins: a verbatim suffix of the block, or else no split.
SplitAt(first, last, reply) ==
  LET n == Len(reply)
  IN IF reply \in {<<>>, Failure} \/ n > last - first + 1 THEN first
     ELSE IF SameText(Part(last - n + 1, last), reply) THEN last - n + 1 ELSE first

Splits(at, first, reply) == at > first

NextPending(at, first, last, reply) == IF Splits(at, first, reply) THEN at ELSE last + 1

Segment(reply) ==
  LET last == StructuralEnd(pending, NominalEnd(pending))
      at == SplitAt(pending, last, reply)
      rolls == Splits(at, pending, reply)
  IN /\ ~Done
     /\ IF last - pending + 1 < Floor THEN reply = <<>> ELSE reply \in Replies(Part(pending, last))
     /\ raw' = IF rolls /\ at = pending THEN raw   \* an empty first topic is not kept
               ELSE Append(raw, [first |-> pending, last |-> IF rolls THEN at - 1 ELSE last,
                                 rolled |-> rolls])
     /\ pending' = NextPending(at, pending, last, reply)
     /\ turn' = ~turn
     /\ UNCHANGED source

\* The replies to every block that may come.
AllReplies == UNION {Replies(Part(pending, last)) : last \in pending .. NominalEnd(pending)}

Init == source \in Texts /\ pending = 1 /\ raw = <<>> /\ turn = FALSE
Next == ~Done /\ \E reply \in AllReplies : Segment(reply)
Spec == Init /\ [][Next]_vars /\ WF_vars(Next)

-----------------------------------------------------------------------------
(* What the segments promise.                                               *)

\* The segments are the text: nothing before the first, between two or behind the last is
\* lost or said twice, wherever the segmenter splits, and each of them has a word and fits
\* the budget (chunking.py:184-237).
SegmentsAreTheText ==
  /\ pending = IF raw = <<>> THEN 1 ELSE raw[Len(raw)].last + 1
  /\ pending <= Len(source) + 1
  /\ \A i \in DOMAIN raw :
       /\ raw[i].first = IF i = 1 THEN 1 ELSE raw[i - 1].last + 1
       /\ raw[i].last \in raw[i].first .. raw[i].first + MaxWords - 1

\* The line that word i is in.
LineOf(i) == Max({l \in 1 .. i : source[l] \in LineStarts})

InFence(i) == Cardinality(Fences(1, i)) % 2 = 1
InTable(i) == source[LineOf(i)] = "row"

\* Where the budget ends a segment it falls inside no heading's line, fence or table
\* (chunking.py:128-133) except one that the block begins with or in.  Four shapes escape
\* the rule: a heading's marker may be the last word of the budget; a line in a fence may
\* look like a heading; and since the search for the line above runs into the start of the
\* text when the block has no more line ends (145), a table at the start of a later block
\* loses its first row, and in a text that opens with a table no later table is kept whole.
StructureIsKept ==
  \A i \in DOMAIN raw : ~raw[i].rolled /\ raw[i].last < Len(source) =>
    LET first == raw[i].first
        last == raw[i].last
        line == LineOf(last)
    IN /\ source[line] = "heading" /\ source[last + 1] = Within =>
            line <= first \/ (line = last /\ last = first + MaxWords - 1)
       /\ InFence(last) =>
            InFence(first - 1) \/ source[first] = "fence" \/ source[last + 1] = "heading"
       /\ InTable(last) /\ InTable(last + 1) => InTable(first) \/ source[1] = "row"

\* Whatever the segmenter answers, the loop ends.
ChunkingEnds == <>Done
=============================================================================
