------------------------ MODULE SemanticChunks_proofs ------------------------
(***************************************************************************)
(* The segments are the text, and where the budget ends one it cuts no      *)
(* structure, for every text, every budget and every answer of the          *)
(* segmenter.                                                               *)
(***************************************************************************)
EXTENDS SemanticChunks, FiniteSetTheorems, WellFoundedInduction, TLAPS

-----------------------------------------------------------------------------
(* Least and greatest members of a set of positions.                        *)

\* Every property of numbers that fails has a least counterexample.
LEMMA LeastMember ==
  ASSUME NEW S \in SUBSET Nat, S # {}
  PROVE  \E x \in S : \A y \in S : x <= y
  <1> DEFINE T == {0 .. n : n \in S}
  <1>1. T \subseteq FiniteSubsetsOf(Nat) /\ T # {}
    <2>1. ASSUME NEW n \in S PROVE 0 .. n \in SUBSET Nat /\ IsFiniteSet(0 .. n)
      BY FS_Interval
    <2> QED BY <2>1 DEF FiniteSubsetsOf
  <1>2. PICK I \in T : \A J \in T : ~(<<J, I>> \in StrictSubsetOrdering(Nat))
    BY <1>1, FS_StrictSubsetOrderingWellFounded, WFMin, Zenon
  <1>3. PICK x \in S : I = 0 .. x
    OBVIOUS
  <1>4. ASSUME NEW y \in S, y < x PROVE FALSE
    <2>1. 0 .. y \in T /\ 0 .. y \subseteq 0 .. x /\ x \in 0 .. x /\ x \notin 0 .. y
      BY <1>4
    <2>2. <<0 .. y, 0 .. x>> \in StrictSubsetOrdering(Nat)
      BY <2>1 DEF StrictSubsetOrdering
    <2> QED BY <1>2, <1>3, <2>1, <2>2
  <1> QED BY <1>4

\* The greatest member of a bounded set is in it.
LEMMA MaxIsIn ==
  ASSUME NEW a \in Nat, NEW b \in Nat, NEW S \in SUBSET (a .. b), S # {}
  PROVE  Max(S) \in S /\ \A x \in S : x <= Max(S)
  <1> DEFINE D == {b - x : x \in S}
  <1>1. D \in SUBSET Nat /\ D # {}
    <2>1. ASSUME NEW x \in S PROVE b - x \in Nat
      <3>1. x \in a .. b
        OBVIOUS
      <3> QED BY <3>1
    <2> QED BY <2>1
  <1>2. PICK d \in D : \A e \in D : d <= e
    <2> HIDE DEF D
    <2> QED BY <1>1, LeastMember
  <1>3. PICK m \in S : d = b - m
    OBVIOUS
  <1>4. \A x \in S : m >= x
    <2> SUFFICES ASSUME NEW x \in S PROVE m >= x
      OBVIOUS
    <2>1. b - x \in D
      OBVIOUS
    <2>2. b - m <= b - x
      BY <1>2, <1>3, <2>1
    <2>3. m \in Nat /\ x \in Nat
      OBVIOUS
    <2> QED BY <2>2, <2>3
  <1>5. Max(S) \in S /\ \A x \in S : Max(S) >= x
    BY <1>4 DEF Max
  <1> QED BY <1>5

-----------------------------------------------------------------------------
(* The lines of a block.                                                    *)

\* The line that a block's last word is in begins behind the block's first word, or is
\* taken to be the first of the text.
LEMMA LineStartIs ==
  ASSUME NEW first \in Nat, NEW last \in Nat
  PROVE  \/ LineStart(first, last) = 1 /\ \A i \in first + 1 .. last : source[i] \notin LineStarts
         \/ /\ LineStart(first, last) \in first + 1 .. last
            /\ source[LineStart(first, last)] \in LineStarts
            /\ \A i \in first + 1 .. last :
                 source[i] \in LineStarts => i <= LineStart(first, last)
  <1> DEFINE starts == {i \in first + 1 .. last : source[i] \in LineStarts}
  <1>1. CASE starts = {}
    BY <1>1 DEF LineStart
  <1>2. CASE starts # {}
    <2>1. Max(starts) \in starts /\ \A x \in starts : x <= Max(starts)
      <3>1. first + 1 \in Nat /\ starts \in SUBSET (first + 1 .. last)
        OBVIOUS
      <3> HIDE DEF starts
      <3> QED BY <1>2, <3>1, MaxIsIn
    <2>2. LineStart(first, last) = Max(starts)
      BY <1>2 DEF LineStart
    <2> QED BY <2>1, <2>2
  <1> QED BY <1>1, <1>2

\* One step of TableStart, and the function it is the value of.
RowAbove(f, first, r) ==
  IF r <= first THEN r
  ELSE LET above == LineStart(first, r - 1)
       IN IF source[above] = "row" THEN f[above] ELSE r

IsClimb(f, first, row) == f = [r \in 0 .. row |-> RowAbove(f, first, r)]

\* The climb that finds the first row of a table.
LEMMA TableStartIs ==
  ASSUME NEW first, NEW row
  PROVE  TableStart(first, row) = (CHOOSE f : IsClimb(f, first, row))[row]
BY DEF TableStart, IsClimb, RowAbove

\* Each turn of it goes up the text.
LEMMA ClimbsDown ==
  ASSUME NEW first \in Nat \ {0}, NEW r \in Nat, r > first
  PROVE  LineStart(first, r - 1) \in 1 .. r - 1
BY LineStartIs

\* It is defined for every line.
LEMMA ClimbExists ==
  ASSUME NEW first \in Nat \ {0}, NEW row \in Nat
  PROVE  \E f : IsClimb(f, first, row)
  <1> DEFINE S == {n \in Nat : ~ \E f : IsClimb(f, first, n)}
  <1>1. SUFFICES ASSUME S # {} PROVE FALSE
    OBVIOUS
  <1>2. PICK n \in S : \A m \in S : n <= m
    <2> HIDE DEF S
    <2>1. S \subseteq Nat
      BY DEF S
    <2> QED BY <1>1, <2>1, LeastMember
  <1>3. CASE n = 0
    <2> DEFINE f == [r \in 0 .. 0 |-> 0]
    <2>1. f = [r \in 0 .. n |-> RowAbove(f, first, r)]
      BY <1>3 DEF RowAbove
    <2> QED BY <1>2, <2>1 DEF IsClimb
  <1>4. CASE n > 0
    <2>1. n - 1 \in Nat /\ n - 1 \notin S
      BY <1>2, <1>4
    <2>2. PICK g : IsClimb(g, first, n - 1)
      BY <2>1
    <2> DEFINE f == [r \in 0 .. n |-> IF r = n THEN RowAbove(g, first, n) ELSE g[r]]
    <2>3. ASSUME NEW r \in 0 .. n PROVE f[r] = RowAbove(f, first, r)
      <3>1. \A m \in 0 .. n - 1 : f[m] = g[m]
        OBVIOUS
      <3>2. r > first => f[LineStart(first, r - 1)] = g[LineStart(first, r - 1)]
        <4>1. r > first => LineStart(first, r - 1) \in 0 .. n - 1
          BY ClimbsDown
        <4> HIDE DEF f
        <4> QED BY <3>1, <4>1
      <3>3. RowAbove(f, first, r) = RowAbove(g, first, r)
        <4> HIDE DEF f
        <4> QED BY <3>2 DEF RowAbove
      <3>4. r # n => f[r] = g[r] /\ g[r] = RowAbove(g, first, r)
        BY <2>2 DEF IsClimb
      <3> QED BY <3>3, <3>4
    <2>4. f = [r \in 0 .. n |-> f[r]]
      OBVIOUS
    <2> HIDE DEF f
    <2>5. f = [r \in 0 .. n |-> RowAbove(f, first, r)]
      BY <2>3, <2>4
    <2> QED BY <1>2, <2>5 DEF IsClimb
  <1> QED BY <1>3, <1>4

\* Where the climb from a row ends: at a row, with only rows from there on; and either no
\* row is above it or the climb has run into the start of the text.
ClimbEnds(first, row, t) ==
  /\ t \in 1 .. row /\ source[t] = "row"
  /\ t <= first => source[1] = "row"
  /\ t > first => /\ source[LineStart(first, t - 1)] # "row"
                  /\ \A i \in t .. row : source[i] \in LineStarts => source[i] = "row"

\* Where it ends: below a line that is no row, or at or above the start of the block if the text opens with a row.
LEMMA TableStartEnds ==
  ASSUME NEW first \in Nat \ {0}, NEW row \in Nat, row > first, source[row] = "row"
  PROVE  ClimbEnds(first, row, TableStart(first, row))
  <1>1. PICK f : f = CHOOSE g : IsClimb(g, first, row)
    OBVIOUS
  <1>2. IsClimb(f, first, row) /\ TableStart(first, row) = f[row]
    BY <1>1, ClimbExists, TableStartIs
  <1>3. \A r \in 0 .. row : f[r] = RowAbove(f, first, r)
    BY <1>2 DEF IsClimb
  <1> DEFINE S == {r \in first + 1 .. row : source[r] = "row" /\ ~ClimbEnds(first, r, f[r])}
  <1>4. SUFFICES ASSUME S # {} PROVE FALSE
    BY <1>2
  <1>5. PICK r \in S : \A m \in S : r <= m
    <2> HIDE DEF S
    <2>1. S \subseteq Nat
      BY DEF S
    <2> QED BY <1>4, <2>1, LeastMember
  <1>6. r \in first + 1 .. row /\ r \in Nat /\ r > first /\ source[r] = "row"
    BY <1>5
  <1> DEFINE above == LineStart(first, r - 1)
  <1>7. above \in 1 .. r - 1
    BY <1>6, ClimbsDown
  <1>8. f[r] = IF source[above] = "row" THEN f[above] ELSE r
    BY <1>3, <1>6 DEF RowAbove
  <1>9. CASE source[above] # "row"
    <2>1. f[r] = r
      BY <1>8, <1>9
    <2>2. ClimbEnds(first, r, r)
      BY <1>6, <1>9 DEF ClimbEnds
    <2> QED BY <1>5, <2>1, <2>2
  <1>10. CASE source[above] = "row" /\ above <= first
    <2>1. above = 1
      BY <1>6, <1>10, LineStartIs
    <2>2. f[r] = 1
      <3>1. f[above] = above
        BY <1>3, <1>6, <1>7, <1>10 DEF RowAbove
      <3> QED BY <1>8, <1>10, <2>1, <3>1
    <2>3. ClimbEnds(first, r, 1)
      BY <1>6, <1>10, <2>1 DEF ClimbEnds
    <2> QED BY <1>5, <2>2, <2>3
  <1>11. CASE source[above] = "row" /\ above > first
    <2>1. \A i \in above + 1 .. r - 1 : source[i] \notin LineStarts
      <3>1. \A i \in first + 1 .. r - 1 : source[i] \in LineStarts => i <= above
        BY <1>6, <1>11, LineStartIs
      <3> QED BY <1>6, <1>7, <1>11, <3>1
    <2>2. above \notin S
      BY <1>5, <1>6, <1>7
    <2>3. ClimbEnds(first, above, f[above])
      BY <1>6, <1>7, <1>11, <2>2
    <2>4. f[r] = f[above]
      BY <1>8, <1>11
    <2>5. PICK t : t = f[above]
      OBVIOUS
    <2>6. t \in 1 .. above /\ ClimbEnds(first, above, t)
      BY <2>3, <2>5 DEF ClimbEnds
    <2> HIDE DEF above
    <2>7. ASSUME t > first, NEW i \in t .. r, source[i] \in LineStarts PROVE source[i] = "row"
      <3>1. i \in t .. above \/ i \in above + 1 .. r - 1 \/ i = r
        BY <1>6, <1>7, <2>6
      <3> QED BY <1>6, <2>1, <2>6, <2>7, <3>1 DEF ClimbEnds
    <2>8. ClimbEnds(first, r, t)
      BY <1>6, <1>7, <2>6, <2>7 DEF ClimbEnds
    <2> QED BY <1>5, <2>4, <2>5, <2>8
  <1> QED BY <1>6, <1>7, <1>9, <1>10, <1>11

-----------------------------------------------------------------------------
(* The block and its split.                                                 *)

\* What a text is.
LEMMA TextIs ==
  ASSUME source \in Texts
  PROVE  /\ source \in Seq(Words) /\ Len(source) \in Nat \ {0} /\ source[1] \in LineStarts
         /\ \A i \in 1 .. Len(source) :
              source[i] = "heading" => i < Len(source) /\ source[i + 1] = Within
  <1>1. source \in Seq(Words) /\ source # <<>>
    BY ChunkAssumption
  <1>2. Len(source) \in Nat \ {0}
    BY <1>1
  <1> QED BY <1>1, <1>2, ChunkAssumption

\* The budget's end is in the text.
LEMMA NominalEndIs ==
  ASSUME source \in Texts, NEW first \in 1 .. Len(source)
  PROVE  /\ NominalEnd(first) \in first .. Len(source)
         /\ NominalEnd(first) <= first + MaxWords - 1
         /\ NominalEnd(first) < Len(source) => NominalEnd(first) = first + MaxWords - 1
BY TextIs, ChunkAssumption DEF NominalEnd

\* Every end of a block, with the reason for it.
Cut(first, nominal, last) ==
  LET headings == Headings(first, nominal) \ {first}
      fences == Fences(first, nominal)
      line == LineStart(first, nominal)
  IN \/ headings # {} /\ last + 1 \in headings
     \/ /\ headings = {} /\ Cardinality(fences) % 2 = 1
        /\ last + 1 \in fences /\ \A x \in fences : x <= last + 1
     \/ /\ headings = {}
        /\ Cardinality(fences) % 2 = 1 => \A x \in fences : x <= first
        /\ \/ /\ source[line] = "row" /\ line > first /\ last + 1 > first
              /\ ClimbEnds(first, line, last + 1)
           \/ last = nominal /\ (source[line] = "row" /\ line > first => source[1] = "row")

\* The structural end is not behind it, and is there for a reason.
LEMMA StructuralEndIs ==
  ASSUME source \in Texts, NEW first \in 1 .. Len(source), NEW nominal \in first .. Len(source)
  PROVE  /\ StructuralEnd(first, nominal) \in first .. nominal
         /\ Cut(first, nominal, StructuralEnd(first, nominal))
  <1> DEFINE headings == Headings(first, nominal) \ {first}
             fences == Fences(first, nominal)
             line == LineStart(first, nominal)
             table == TableStart(first, line)
             odd == Cardinality(fences) % 2 = 1
             last == StructuralEnd(first, nominal)
  <1>0. first \in Nat \ {0} /\ nominal \in Nat /\ first <= nominal
    BY TextIs
  <1>1. headings \in SUBSET (first .. nominal)
    BY <1>0 DEF Headings, Marked
  <1>2. fences \in SUBSET (first .. nominal)
    BY DEF Fences, Marked
  <1>3. headings # {} => Max(headings) \in headings
    <2> HIDE DEF headings
    <2> QED BY <1>0, <1>1, MaxIsIn
  <1>4. odd => fences # {}
    <2> SUFFICES ASSUME fences = {} PROVE Cardinality(fences) % 2 = 0
      OBVIOUS
    <2> HIDE DEF fences
    <2> QED BY FS_EmptySet
  <1>5. odd => Max(fences) \in fences /\ \A x \in fences : x <= Max(fences)
    <2> HIDE DEF fences
    <2> QED BY <1>0, <1>2, <1>4, MaxIsIn
  <1>6. last = IF headings # {} THEN Max(headings) - 1
               ELSE IF odd /\ Max(fences) > first THEN Max(fences) - 1
               ELSE IF source[line] = "row" /\ table > first THEN table - 1
               ELSE nominal
    BY DEF StructuralEnd
  <1>7. line \in 1 .. nominal /\ (line > first => line \in first + 1 .. nominal)
    BY <1>0, LineStartIs
  <1>8. line > first /\ source[line] = "row" => ClimbEnds(first, line, table)
    BY <1>0, <1>7, TableStartEnds
  <1>9. ~(line > first) => table = line
    <2>1. PICK f : IsClimb(f, first, line) /\ table = f[line]
      BY <1>0, <1>7, ClimbExists, TableStartIs
    <2>2. f[line] = RowAbove(f, first, line)
      BY <1>7, <2>1 DEF IsClimb
    <2> QED BY <1>7, <2>1, <2>2 DEF RowAbove
  <1>10. PICK h, x, t, l : h = headings /\ x = fences /\ t = table /\ l = last
    OBVIOUS
  <1>11. CASE headings # {}
    <2>1. l = Max(h) - 1 /\ Max(h) \in h /\ h \in SUBSET (first .. nominal) /\ first \notin h
      BY <1>1, <1>3, <1>6, <1>10, <1>11
    <2>2. Max(h) \in first .. nominal /\ Max(h) # first
      BY <2>1
    <2>3. l \in first .. nominal /\ l + 1 = Max(h)
      BY <1>0, <2>1, <2>2
    <2> QED BY <1>10, <1>11, <2>1, <2>3 DEF Cut
  <1>12. CASE headings = {} /\ odd /\ Max(fences) > first
    <2>1. /\ l = Max(x) - 1 /\ Max(x) \in x /\ x \in SUBSET (first .. nominal) /\ Max(x) > first
          /\ \A y \in x : y <= Max(x)
      BY <1>2, <1>5, <1>6, <1>10, <1>12
    <2>2. Max(x) \in first .. nominal
      BY <2>1
    <2>3. l \in first .. nominal /\ l + 1 = Max(x)
      BY <1>0, <2>1, <2>2
    <2> QED BY <1>10, <1>12, <2>1, <2>3 DEF Cut
  <1>13. CASE headings = {} /\ ~(odd /\ Max(fences) > first)
    <2>1. odd => \A y \in fences : y <= first
      <3>1. ASSUME odd, NEW y \in fences PROVE y <= first
        <4>1. y <= Max(fences) /\ ~(Max(fences) > first) /\ Max(fences) \in fences
          BY <1>5, <1>13, <3>1
        <4>2. y \in Nat /\ Max(fences) \in Nat
          BY <1>0, <1>2, <4>1
        <4> HIDE DEF fences
        <4> QED BY <1>0, <4>1, <4>2
      <3> QED BY <3>1
    <2>2. CASE source[line] = "row" /\ table > first
      <3>1. line > first
        BY <1>0, <1>7, <1>9, <2>2
      <3>2. ClimbEnds(first, line, t) /\ t \in 1 .. line /\ t > first
        BY <1>8, <1>10, <2>2, <3>1 DEF ClimbEnds
      <3>3. l = t - 1
        BY <1>6, <1>10, <1>13, <2>2
      <3>4. l \in first .. nominal /\ l + 1 = t
        BY <1>0, <1>7, <3>2, <3>3
      <3> QED BY <1>10, <1>13, <2>1, <2>2, <3>1, <3>2, <3>4 DEF Cut
    <2>3. CASE ~(source[line] = "row" /\ table > first)
      <3>1. last = nominal
        BY <1>6, <1>13, <2>3
      <3>2. source[line] = "row" /\ line > first => source[1] = "row"
        <4> SUFFICES ASSUME source[line] = "row", line > first PROVE source[1] = "row"
          OBVIOUS
        <4>1. ClimbEnds(first, line, t) /\ ~(t > first) /\ t \in 1 .. line
          BY <1>8, <1>10, <2>3 DEF ClimbEnds
        <4> QED BY <1>0, <1>7, <4>1 DEF ClimbEnds
      <3> QED BY <1>0, <1>13, <2>1, <3>1, <3>2 DEF Cut
    <2> QED BY <2>2, <2>3
  <1> QED BY <1>11, <1>12, <1>13

\* A split leaves at least one word before it, whatever the segmenter answers.
LEMMA SplitAtIs ==
  ASSUME NEW first \in Nat \ {0}, NEW last \in Nat, first <= last,
         NEW reply, reply = <<>> \/ reply \in Replies(Part(first, last)),
         source \in Texts, last <= Len(source)
  PROVE  SplitAt(first, last, reply) \in first .. last
  <1>1. CASE reply \in {<<>>, Failure}
    BY <1>1 DEF SplitAt
  <1>2. CASE reply \notin {<<>>, Failure}
    <2>1. Len(reply) \in Nat /\ Len(reply) # 0
      <3>1. CASE reply = <<"foreign">>
        BY <3>1
      <3>2. CASE reply # <<"foreign">>
        <4>1. PICK i \in DOMAIN Part(first, last), j \in DOMAIN Part(first, last) :
                reply = SubSeq(Part(first, last), i, j)
          BY <1>2, <3>2 DEF Replies
        <4>2. Part(first, last) \in Seq(Words)
          <5>1. source \in Seq(Words) /\ Len(source) \in Nat
            BY TextIs
          <5> QED BY <5>1 DEF Part
        <4>3. PICK block : block = Part(first, last)
          OBVIOUS
        <4>4. block \in Seq(Words) /\ i \in 1 .. Len(block) /\ j \in 1 .. Len(block)
          BY <4>1, <4>2, <4>3
        <4>5. SubSeq(block, i, j) \in Seq(Words)
          BY <4>4
        <4>6. reply \in Seq(Words) /\ reply # <<>>
          BY <1>2, <4>1, <4>3, <4>5
        <4> QED BY <4>6
      <3> QED BY <3>1, <3>2
    <2>2. SplitAt(first, last, reply) = first
            \/ /\ Len(reply) <= last - first + 1
               /\ SplitAt(first, last, reply) = last - Len(reply) + 1
      BY <1>2, <2>1 DEF SplitAt
    <2> QED BY <2>1, <2>2
  <1> QED BY <1>1, <1>2

-----------------------------------------------------------------------------
(* The loop.                                                                *)

SegmentType == [first : Nat, last : Nat, rolled : BOOLEAN]
ChunkTypeOK == source \in Texts /\ pending \in Nat \ {0} /\ raw \in Seq(SegmentType)

\* A segment that the segmenter did not end goes to the end of its block.
EndsAreBlocks ==
  \A i \in DOMAIN raw :
    /\ raw[i].first \in 1 .. Len(source)
    /\ ~raw[i].rolled => raw[i].last = StructuralEnd(raw[i].first, NominalEnd(raw[i].first))

ChunkInv == ChunkTypeOK /\ SegmentsAreTheText /\ EndsAreBlocks

\* The invariant holds at first.
LEMMA ChunkInit == Init => ChunkInv
  <1> SUFFICES ASSUME Init PROVE ChunkInv
    OBVIOUS
  <1>1. source \in Texts /\ pending = 1 /\ raw = <<>>
    BY DEF Init
  <1>2. Len(source) \in Nat \ {0}
    BY <1>1, TextIs
  <1> QED BY <1>1, <1>2 DEF ChunkInv, ChunkTypeOK, SegmentsAreTheText, EndsAreBlocks

\* The text is never written.
LEMMA TextStays ==
  ASSUME source' = source
  PROVE  /\ \A f : NominalEnd(f)' = NominalEnd(f)
         /\ \A f, e : StructuralEnd(f, e)' = StructuralEnd(f, e)
BY DEF NominalEnd, StructuralEnd, Headings, Fences, Marked, LineStart, TableStart

\* One turn of the loop.
LEMMA SegmentStep ==
  ASSUME ChunkInv, NEW reply, Segment(reply) PROVE ChunkInv'
  <1> DEFINE nominal == NominalEnd(pending)
             last == StructuralEnd(pending, nominal)
             at == SplitAt(pending, last, reply)
             x == [first |-> pending, last |-> IF at > pending THEN at - 1 ELSE last,
                   rolled |-> at > pending]
  <1>0. source \in Texts /\ pending \in Nat \ {0} /\ raw \in Seq(SegmentType) /\ source' = source
    BY DEF ChunkInv, ChunkTypeOK, Segment
  <1>1. Len(source) \in Nat /\ pending \in 1 .. Len(source)
    BY <1>0, TextIs DEF Segment, Done
  <1>2. nominal \in pending .. Len(source) /\ nominal <= pending + MaxWords - 1
    BY <1>0, <1>1, NominalEndIs
  <1>3. last \in pending .. nominal
    BY <1>0, <1>1, <1>2, StructuralEndIs
  <1>4. reply = <<>> \/ reply \in Replies(Part(pending, last))
    BY DEF Segment
  <1>5. at \in pending .. last
    BY <1>0, <1>1, <1>2, <1>3, <1>4, SplitAtIs
  <1>6. /\ raw' = Append(raw, x)
        /\ pending' = IF at > pending THEN at ELSE last + 1
    BY <1>5 DEF Segment, Splits, NextPending
  <1>7. PICK y, l, a : y = x /\ l = last /\ a = at
    OBVIOUS
  <1>8. /\ y \in SegmentType /\ y.first = pending /\ pending' = y.last + 1
        /\ y.last \in pending .. l
        /\ ~y.rolled => y.last = last
    <2>1. /\ y = [first |-> pending, last |-> IF a > pending THEN a - 1 ELSE l,
                   rolled |-> a > pending]
          /\ pending' = IF a > pending THEN a ELSE l + 1
      BY <1>6, <1>7
    <2>2. l \in pending .. nominal /\ l \in Nat /\ a \in pending .. l
      BY <1>0, <1>1, <1>2, <1>3, <1>5, <1>7
    <2>3. /\ y.first = pending /\ y.last = IF a > pending THEN a - 1 ELSE l
          /\ y.rolled = (a > pending)
      BY <2>1
    <2>4. y.last \in pending .. l /\ y.last \in Nat /\ pending' = y.last + 1
      BY <1>0, <2>1, <2>2, <2>3
    <2>5. y \in SegmentType
      BY <1>0, <2>1, <2>2 DEF SegmentType
    <2> QED BY <1>7, <2>3, <2>4, <2>5
  <1> HIDE DEF x, at
  <1>9. /\ Len(raw) \in Nat /\ Len(raw') = Len(raw) + 1
        /\ raw' \in Seq(SegmentType)
        /\ DOMAIN raw = 1 .. Len(raw) /\ DOMAIN raw' = 1 .. Len(raw) + 1
        /\ raw'[Len(raw) + 1] = y
        /\ \A i \in DOMAIN raw : raw'[i] = raw[i] /\ i # Len(raw) + 1
    BY <1>0, <1>6, <1>7, <1>8
  <1>10. /\ MaxWords \in Nat /\ MaxWords # 0
         /\ y.last <= pending + MaxWords - 1 /\ pending' <= Len(source) + 1
         /\ pending' \in Nat \ {0}
    BY <1>1, <1>2, <1>3, <1>7, <1>8, ChunkAssumption
  <1>11. ChunkTypeOK'
    BY <1>0, <1>9, <1>10 DEF ChunkTypeOK
  <1>12. SegmentsAreTheText'
    <2>1. pending' = raw'[Len(raw')].last + 1 /\ raw' # <<>>
      BY <1>6, <1>8, <1>9
    <2>2. ASSUME NEW i \in DOMAIN raw
          PROVE  /\ raw'[i].first = IF i = 1 THEN 1 ELSE raw'[i - 1].last + 1
                 /\ raw'[i].last \in raw'[i].first .. raw'[i].first + MaxWords - 1
      <3>1. i # 1 => i - 1 \in DOMAIN raw
        BY <1>9
      <3>2. raw'[i] = raw[i] /\ (i # 1 => raw'[i - 1] = raw[i - 1])
        BY <1>9, <3>1
      <3> QED BY <3>2 DEF ChunkInv, SegmentsAreTheText
    <2>3. y.first = IF Len(raw) + 1 = 1 THEN 1 ELSE raw'[(Len(raw) + 1) - 1].last + 1
      <3>1. CASE Len(raw) = 0
        <4>1. raw = <<>>
          BY <1>0, <3>1
        <4> QED BY <1>8, <3>1, <4>1 DEF ChunkInv, SegmentsAreTheText
      <3>2. CASE Len(raw) # 0
        <4>1. (Len(raw) + 1) - 1 = Len(raw) /\ Len(raw) \in DOMAIN raw /\ raw # <<>>
          BY <1>9, <3>2
        <4>2. raw'[Len(raw)] = raw[Len(raw)]
          BY <1>9, <4>1
        <4> QED BY <1>8, <1>9, <3>2, <4>1, <4>2 DEF ChunkInv, SegmentsAreTheText
      <3> QED BY <3>1, <3>2
    <2>4. y.last \in y.first .. y.first + MaxWords - 1
      BY <1>1, <1>3, <1>7, <1>8, <1>10
    <2>5. ASSUME NEW i \in DOMAIN raw'
          PROVE  /\ raw'[i].first = IF i = 1 THEN 1 ELSE raw'[i - 1].last + 1
                 /\ raw'[i].last \in raw'[i].first .. raw'[i].first + MaxWords - 1
      <3>1. i \in DOMAIN raw \/ i = Len(raw) + 1
        BY <1>9
      <3> QED BY <1>9, <2>2, <2>3, <2>4, <3>1
    <2> QED BY <1>0, <1>10, <2>1, <2>5 DEF SegmentsAreTheText
  <1>13. EndsAreBlocks'
    <2>1. /\ \A f : NominalEnd(f)' = NominalEnd(f)
          /\ \A f, e : StructuralEnd(f, e)' = StructuralEnd(f, e)
      BY <1>0, TextStays
    <2>2. ASSUME NEW i \in DOMAIN raw'
          PROVE  /\ raw'[i].first \in 1 .. Len(source)
                 /\ ~raw'[i].rolled =>
                      raw'[i].last = StructuralEnd(raw'[i].first, NominalEnd(raw'[i].first))
      <3>1. i \in DOMAIN raw \/ i = Len(raw) + 1
        BY <1>9
      <3>2. CASE i \in DOMAIN raw
        BY <1>9, <3>2 DEF ChunkInv, EndsAreBlocks
      <3>3. CASE i = Len(raw) + 1
        BY <1>1, <1>8, <1>9, <3>3
      <3> QED BY <3>1, <3>2, <3>3
    <2> QED BY <1>0, <2>1, <2>2 DEF EndsAreBlocks
  <1> QED BY <1>11, <1>12, <1>13 DEF ChunkInv

\* The invariant holds after every step.
LEMMA ChunkStep == ChunkInv /\ [Next]_vars => ChunkInv'
  <1> SUFFICES ASSUME ChunkInv, [Next]_vars PROVE ChunkInv'
    OBVIOUS
  <1>1. CASE Next
    BY <1>1, SegmentStep DEF Next
  <1>2. CASE UNCHANGED vars
    <2>1. source' = source /\ pending' = pending /\ raw' = raw
      BY <1>2 DEF vars
    <2>2. ChunkTypeOK' /\ SegmentsAreTheText'
      BY <2>1 DEF ChunkInv, ChunkTypeOK, SegmentsAreTheText
    <2>3. EndsAreBlocks'
      BY <2>1, TextStays DEF ChunkInv, EndsAreBlocks
    <2> QED BY <2>2, <2>3 DEF ChunkInv
  <1> QED BY <1>1, <1>2

\* The segments, and where the block of each of them ends, after every turn of the loop.
THEOREM ChunkInvariance == Spec => []ChunkInv
BY ChunkInit, ChunkStep, PTL DEF Spec

\* No word is lost or said twice, and every segment has a word and fits the budget.
THEOREM SegmentsCoverTheText == Spec => []SegmentsAreTheText
BY ChunkInvariance, PTL DEF ChunkInv

-----------------------------------------------------------------------------
(* What a block that the budget ends cuts.                                  *)

\* A line begins with its last start before the word.
LEMMA LineOfIs ==
  ASSUME source \in Texts, NEW i \in 1 .. Len(source)
  PROVE  /\ LineOf(i) \in 1 .. i /\ source[LineOf(i)] \in LineStarts
         /\ \A m \in 1 .. i : source[m] \in LineStarts => m <= LineOf(i)
         /\ \A l \in 1 .. i :
              /\ source[l] \in LineStarts
              /\ \A m \in l + 1 .. i : source[m] \notin LineStarts
              => LineOf(i) = l
  <1> DEFINE S == {l \in 1 .. i : source[l] \in LineStarts}
  <1>0. i \in Nat /\ 1 <= i /\ source[1] \in LineStarts
    BY TextIs
  <1>1. S \in SUBSET (1 .. i) /\ 1 \in S
    BY <1>0
  <1>2. LineOf(i) \in S /\ \A m \in S : m <= LineOf(i)
    <2>1. LineOf(i) = Max(S)
      BY DEF LineOf
    <2> HIDE DEF S
    <2> QED BY <1>0, <1>1, <2>1, MaxIsIn
  <1>3. ASSUME NEW l \in 1 .. i, source[l] \in LineStarts,
               \A m \in l + 1 .. i : source[m] \notin LineStarts
        PROVE  LineOf(i) = l
    <2>1. l \in S
      BY <1>3
    <2>2. l <= LineOf(i) /\ LineOf(i) \in 1 .. i
      BY <1>2, <2>1
    <2>3. ~(LineOf(i) \in l + 1 .. i)
      BY <1>2, <1>3
    <2> QED BY <2>2, <2>3
  <1> QED BY <1>2, <1>3

\* Without a line start between them two words are in one line.
LEMMA SameLine ==
  ASSUME source \in Texts, NEW i \in 1 .. Len(source), NEW k \in i .. Len(source),
         \A m \in i + 1 .. k : source[m] \notin LineStarts
  PROVE  LineOf(k) = LineOf(i)
  <1>1. PICK l : l = LineOf(i)
    OBVIOUS
  <1>2. l \in 1 .. i /\ source[l] \in LineStarts
    BY <1>1, LineOfIs
  <1>3. \A m \in 1 .. i : source[m] \in LineStarts => m <= l
    BY <1>1, LineOfIs
  <1>4. k \in 1 .. Len(source) /\ l \in 1 .. k /\ i \in Nat /\ k \in Nat
    BY <1>2, TextIs
  <1>5. \A m \in l + 1 .. k : source[m] \notin LineStarts
    <2> SUFFICES ASSUME NEW m \in l + 1 .. k PROVE source[m] \notin LineStarts
      OBVIOUS
    <2>1. m \in 1 .. i \/ m \in i + 1 .. k
      BY <1>2, <1>4
    <2> QED BY <1>2, <1>3, <2>1
  <1> QED BY <1>1, <1>2, <1>4, <1>5, LineOfIs

\* Fences can be counted.
LEMMA FencesAreFinite ==
  ASSUME NEW a \in Nat, NEW b \in Nat
  PROVE  IsFiniteSet(Fences(a, b)) /\ Cardinality(Fences(a, b)) \in Nat
  <1>1. IsFiniteSet(a .. b) /\ Fences(a, b) \in SUBSET (a .. b)
    BY FS_Interval DEF Fences, Marked
  <1> QED BY <1>1, FS_Subset, FS_CardinalityType

\* The fences up to a word are those before a block and those in it.
LEMMA FencesAdd ==
  ASSUME NEW a \in Nat \ {0}, NEW b \in Nat, a <= b + 1, NEW c \in Nat, c + 1 = a, NEW d \in Nat,
         d <= a
  PROVE  Cardinality(Fences(d, b)) = Cardinality(Fences(d, c)) + Cardinality(Fences(a, b))
  <1>1. PICK X, Y, Z : X = Fences(d, c) /\ Y = Fences(a, b) /\ Z = Fences(d, b)
    OBVIOUS
  <1>2. Z = X \cup Y /\ X \cap Y = {}
    BY <1>1 DEF Fences, Marked
  <1>3. /\ IsFiniteSet(X) /\ IsFiniteSet(Y)
        /\ Cardinality(X) \in Nat /\ Cardinality(Y) \in Nat
    BY <1>1, FencesAreFinite
  <1>4. Cardinality(Z) = Cardinality(X) + Cardinality(Y) - 0
    BY <1>2, <1>3, FS_Union, FS_EmptySet
  <1> QED BY <1>1, <1>3, <1>4

SparesHeading(first, last) ==
  source[LineOf(last)] = "heading" /\ source[last + 1] = Within =>
    LineOf(last) <= first \/ (LineOf(last) = last /\ last = first + MaxWords - 1)

Structured(first, last) ==
  /\ SparesHeading(first, last)
  /\ InFence(last) =>
       InFence(first - 1) \/ source[first] = "fence" \/ source[last + 1] = "heading"
  /\ InTable(last) /\ InTable(last + 1) => InTable(first) \/ source[1] = "row"

\* The reasons of a cut, and the shapes that escape them.
LEMMA BlockKeepsStructure ==
  ASSUME source \in Texts, NEW first \in 1 .. Len(source), NEW last,
         last = StructuralEnd(first, NominalEnd(first)), last < Len(source)
  PROVE  Structured(first, last)
  <1>1. PICK nominal : nominal = NominalEnd(first)
    OBVIOUS
  <1>2. /\ Len(source) \in Nat /\ first \in Nat \ {0} /\ nominal \in first .. Len(source)
        /\ nominal < Len(source) => nominal = first + MaxWords - 1
    BY <1>1, TextIs, NominalEndIs
  <1>3. last \in first .. nominal /\ Cut(first, nominal, last)
    BY <1>1, <1>2, StructuralEndIs
  <1>4. /\ nominal \in Nat /\ last \in Nat /\ first <= last /\ last <= nominal
        /\ last \in 1 .. Len(source) /\ last + 1 \in 1 .. Len(source) /\ 1 <= first
    BY <1>2, <1>3
  <1> DEFINE headings == Headings(first, nominal) \ {first}
             fences == Fences(first, nominal)
             odd == Cardinality(fences) % 2 = 1
             line == LineStart(first, nominal)
             cutsHeading == headings # {} /\ last + 1 \in headings
             cutsFence == /\ headings = {} /\ odd
                          /\ last + 1 \in fences /\ \A x \in fences : x <= last + 1
             closed == headings = {} /\ (odd => \A x \in fences : x <= first)
             cutsTable == /\ closed
                          /\ source[line] = "row" /\ line > first /\ last + 1 > first
                          /\ ClimbEnds(first, line, last + 1)
             cutsNothing == /\ closed
                            /\ last = nominal
                            /\ (source[line] = "row" /\ line > first => source[1] = "row")
  <1>5. cutsHeading \/ cutsFence \/ cutsTable \/ cutsNothing
    BY <1>3 DEF Cut
  <1>6. \A i \in 1 .. Len(source) :
          source[i] = "heading" => i < Len(source) /\ source[i + 1] = Within
    BY TextIs
  <1>7. \/ line = 1 /\ \A i \in first + 1 .. nominal : source[i] \notin LineStarts
        \/ /\ line \in first + 1 .. nominal /\ source[line] \in LineStarts
           /\ \A i \in first + 1 .. nominal : source[i] \in LineStarts => i <= line
    BY <1>2, <1>4, LineStartIs
  <1>8. SparesHeading(first, last)
    <2>1. PICK l : l = LineOf(last)
      OBVIOUS
    <2> SUFFICES ASSUME source[l] = "heading", source[last + 1] = Within, l > first
                 PROVE  l = last /\ last = first + MaxWords - 1
      <3>1. l \in 1 .. last
        BY <1>4, <2>1, LineOfIs
      <3> QED BY <1>4, <2>1, <3>1 DEF SparesHeading
    <2>2. l \in 1 .. last
      BY <1>4, <2>1, LineOfIs
    <2>3. cutsNothing
      <3>1. ~cutsHeading
        BY DEF Headings, Marked, Within
      <3>2. ~cutsFence
        BY DEF Fences, Marked, Within
      <3>3. ~cutsTable
        BY DEF ClimbEnds, Within
      <3> QED BY <1>5, <3>1, <3>2, <3>3
    <2>4. l \notin headings
      BY <2>3
    <2>5. l = nominal
      BY <1>4, <2>2, <2>4 DEF Headings, Marked
    <2> QED BY <1>2, <1>4, <2>2, <2>3, <2>5
  <1>9. InFence(last) =>
          InFence(first - 1) \/ source[first] = "fence" \/ source[last + 1] = "heading"
    <2> SUFFICES ASSUME InFence(last), ~InFence(first - 1), source[first] # "fence",
                        source[last + 1] # "heading"
                 PROVE  FALSE
      OBVIOUS
    <2> DEFINE before == Cardinality(Fences(1, first - 1))
               inside == Cardinality(Fences(first, last))
               behind == Cardinality(Fences(last + 1, nominal))
               whole == Cardinality(Fences(first, nominal))
               upto == Cardinality(Fences(1, last))
    <2>1. before \in Nat /\ inside \in Nat /\ behind \in Nat /\ whole \in Nat /\ upto \in Nat
      BY <1>4, FencesAreFinite
    <2>2. first - 1 \in Nat /\ (first - 1) + 1 = first
      BY <1>4
    <2>3. upto = before + inside
      BY <1>2, <1>4, <2>2, FencesAdd
    <2>4. whole = inside + behind
      BY <1>2, <1>4, FencesAdd
    <2>5. upto % 2 = 1 /\ before % 2 # 1
      BY DEF InFence
    <2>6. inside % 2 = 1
      <3> HIDE DEF before, inside, upto
      <3> QED BY <2>1, <2>3, <2>5
    <2>7. ~cutsHeading
      BY DEF Headings, Marked
    <2>8. ~cutsFence
      <3> SUFFICES ASSUME cutsFence PROVE FALSE
        OBVIOUS
      <3>1. Fences(last + 1, nominal) = {last + 1}
        <4>1. last + 1 \in Fences(last + 1, nominal)
          BY <1>4 DEF Fences, Marked
        <4>2. ASSUME NEW x \in Fences(last + 1, nominal) PROVE x = last + 1
          <5>1. x \in last + 1 .. nominal /\ x \in fences
            BY <1>4 DEF Fences, Marked
          <5>2. x <= last + 1
            BY <5>1
          <5> HIDE DEF fences
          <5> QED BY <1>4, <5>1, <5>2
        <4> QED BY <4>1, <4>2
      <3>2. behind = 1
        BY <3>1, FS_Singleton
      <3>3. whole % 2 = 1
        OBVIOUS
      <3> HIDE DEF inside, behind, whole
      <3> QED BY <2>1, <2>4, <2>6, <3>2, <3>3
    <2>9. closed => whole % 2 = 0
      <3> SUFFICES ASSUME closed, odd PROVE FALSE
        <4> HIDE DEF whole
        <4> QED BY <2>1 DEF whole
      <3>1. fences = {}
        BY <1>4 DEF Fences, Marked
      <3>2. whole = 0
        BY <3>1, FS_EmptySet
      <3> QED BY <3>2
    <2>10. ~cutsTable
      <3> SUFFICES ASSUME cutsTable PROVE FALSE
        OBVIOUS
      <3>1. line \in first + 1 .. nominal
        BY <1>4, <1>7
      <3>2. Fences(last + 1, nominal) = {}
        <4> SUFFICES ASSUME NEW x \in Fences(last + 1, nominal) PROVE FALSE
          OBVIOUS
        <4>1. x \in last + 1 .. nominal /\ source[x] = "fence"
          BY DEF Fences, Marked
        <4>2. source[x] \in LineStarts
          BY <4>1 DEF LineStarts
        <4>3. x \in first + 1 .. nominal /\ x <= line
          BY <1>4, <1>7, <3>1, <4>1, <4>2
        <4>4. x \in last + 1 .. line
          BY <1>4, <3>1, <4>1, <4>3
        <4> QED BY <4>1, <4>2, <4>4 DEF ClimbEnds
      <3>3. behind = 0
        BY <3>2, FS_EmptySet
      <3> HIDE DEF inside, behind, whole
      <3> QED BY <2>1, <2>4, <2>6, <2>9, <3>3
    <2>11. ~cutsNothing
      <3> SUFFICES ASSUME cutsNothing PROVE FALSE
        OBVIOUS
      <3>1. inside = whole
        OBVIOUS
      <3> HIDE DEF inside, whole
      <3> QED BY <2>6, <2>9, <3>1
    <2> QED BY <1>5, <2>7, <2>8, <2>10, <2>11
  <1>10. InTable(last) /\ InTable(last + 1) => InTable(first) \/ source[1] = "row"
    <2> SUFFICES ASSUME InTable(last), InTable(last + 1), source[1] # "row"
                 PROVE  InTable(first)
      OBVIOUS
    <2>1. source[last + 1] \in LineStarts => source[last + 1] = "row"
      <3> SUFFICES ASSUME source[last + 1] \in LineStarts PROVE source[last + 1] = "row"
        OBVIOUS
      <3>1. LineOf(last + 1) = last + 1
        <4>1. \A m \in (last + 1) + 1 .. last + 1 : source[m] \notin LineStarts
          BY <1>4
        <4>2. last + 1 \in 1 .. last + 1
          BY <1>4
        <4> QED BY <1>4, <4>1, <4>2, LineOfIs
      <3> QED BY <3>1 DEF InTable
    <2>2. ~cutsHeading
      BY <2>1 DEF Headings, Marked, LineStarts
    <2>3. ~cutsFence
      BY <2>1 DEF Fences, Marked, LineStarts
    <2>4. ASSUME NEW above, above = LineStart(first, last), source[above] # "row"
          PROVE  InTable(first)
      <3>1. \/ above = 1 /\ \A i \in first + 1 .. last : source[i] \notin LineStarts
            \/ /\ above \in first + 1 .. last /\ source[above] \in LineStarts
               /\ \A i \in first + 1 .. last : source[i] \in LineStarts => i <= above
        BY <1>4, <2>4, LineStartIs
      <3>2. CASE \A i \in first + 1 .. last : source[i] \notin LineStarts
        <4>1. LineOf(last) = LineOf(first)
          BY <1>2, <1>4, <3>2, SameLine
        <4> QED BY <4>1 DEF InTable
      <3>3. CASE /\ above \in first + 1 .. last /\ source[above] \in LineStarts
                 /\ \A i \in first + 1 .. last : source[i] \in LineStarts => i <= above
        <4>1. above \in 1 .. last /\ \A m \in above + 1 .. last : source[m] \notin LineStarts
          BY <1>4, <3>3
        <4>2. LineOf(last) = above
          BY <1>4, <3>3, <4>1, LineOfIs
        <4> QED BY <2>4, <4>2 DEF InTable
      <3> QED BY <3>1, <3>2, <3>3
    <2>5. CASE cutsTable
      <3>1. source[LineStart(first, (last + 1) - 1)] # "row" /\ (last + 1) - 1 = last
        BY <1>4, <2>5 DEF ClimbEnds
      <3>2. source[LineStart(first, last)] # "row"
        BY <3>1
      <3> QED BY <2>4, <3>2
    <2>6. CASE cutsNothing
      <3>1. source[line] # "row"
        <4>1. line > first \/ line = 1
          BY <1>4, <1>7
        <4> QED BY <2>6, <4>1
      <3>2. source[LineStart(first, last)] # "row"
        BY <2>6, <3>1
      <3> QED BY <2>4, <3>2
    <2> QED BY <1>5, <2>2, <2>3, <2>5, <2>6
  <1> QED BY <1>8, <1>9, <1>10 DEF Structured

\* Where the budget ends a segment it falls inside no heading's line, fence or table that
\* begins behind the block's first word, except in the four shapes that the property names.
THEOREM BudgetKeepsStructure == Spec => []StructureIsKept
  <1>1. ChunkInv => StructureIsKept
    <2> SUFFICES ASSUME ChunkInv, NEW i \in DOMAIN raw, ~raw[i].rolled, raw[i].last < Len(source)
                 PROVE  Structured(raw[i].first, raw[i].last)
      BY DEF StructureIsKept, Structured, SparesHeading
    <2>1. /\ source \in Texts /\ raw[i].first \in 1 .. Len(source)
          /\ raw[i].last = StructuralEnd(raw[i].first, NominalEnd(raw[i].first))
      BY DEF ChunkInv, ChunkTypeOK, EndsAreBlocks
    <2> QED BY <2>1, BlockKeepsStructure
  <1> QED BY <1>1, ChunkInvariance, PTL
=============================================================================
