-------------------------- MODULE MCSemanticChunks --------------------------
EXTENDS SemanticChunks, SequencesExt

CONSTANT MaxLength

\* Every text of at most MaxLength words that meets the assumption.
MCTexts ==
  {t \in SeqOf(Words, MaxLength) :
     /\ t # <<>> /\ t[1] \in LineStarts
     /\ \A i \in 1 .. Len(t) : t[i] = "heading" => i < Len(t) /\ t[i + 1] = Within}
=============================================================================
