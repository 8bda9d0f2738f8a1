----------------------------- MODULE TextSearch -----------------------------
(***************************************************************************)
(* The functions of the C library, and the unfolding loops, that the       *)
(* commands take a text apart with.  A text is a sequence of tokens, each  *)
(* a piece of text that is looked for as a whole; CR and LF are tokens of  *)
(* their own.  A place is the number of a token; 0 is a NULL pointer.      *)
(***************************************************************************)
EXTENDS Integers, Sequences, SequencesExt

Eol    == <<"CR", "LF">>
Blanks == {" ", "TAB"}
LineEnds == {"CR", "LF"}

\* The first of the places in S, or NULL.
FirstOf[S \in SUBSET Nat] == IF S = {} THEN 0 ELSE CHOOSE i \in S : \A j \in S : i <= j

\* The last of them.
LastOf[S \in SUBSET Nat] == IF S = {} THEN 0 ELSE CHOOSE i \in S : \A j \in S : j <= i

\* The text p begins at place i of t.
BeginsAt(p, t, i) == i + Len(p) - 1 <= Len(t) /\ SubSeq(t, i, i + Len(p) - 1) = p

\* strstr() from place k on.
Find(p, t, k) == FirstOf[{i \in k .. Len(t) : BeginsAt(p, t, i)}]

\* strchr() and strpbrk() from place k on: the first token that is in S.
FindOneOf(S, t, k) == FirstOf[{i \in k .. Len(t) : t[i] \in S}]

From(t, k) == SubSeq(t, k, Len(t))

\* Without the tokens in S that it begins with, or ends with.
WithoutLeading(S, t) ==
  SubSeq(t, 1 + LastOf[{n \in 1 .. Len(t) : \A i \in 1 .. n : t[i] \in S}], Len(t))

WithoutTrailing(S, t) == SubSeq(t, 1, LastOf[{n \in 1 .. Len(t) : t[n] \notin S}])

-----------------------------------------------------------------------------
\* The places before end at which a header line is folded: a line end with a blank
\* after it.
FoldsBefore(end, t) ==
  {i \in 1 .. Len(t) - 2 : i < end /\ BeginsAt(Eol, t, i) /\ t[i + 2] \in Blanks}

\* Place i of t is in a fold, or in the blanks after it.
FoldedAway(folds, t, i) == \E f \in folds : f <= i /\ \A k \in f + 2 .. i : t[k] \in Blanks

\* Text t with filler in the place of each of the folds is Unfold(filler)[folds][t].
Unfold(filler) ==
  [folds \in SUBSET Nat |-> [t \in Seq(STRING) |->
     FlattenSeq([i \in 1 .. Len(t) |-> IF i \in folds THEN filler
                                      ELSE IF FoldedAway(folds, t, i) THEN <<>> ELSE <<t[i]>>])]]
=============================================================================
