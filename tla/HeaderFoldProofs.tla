-------------------------- MODULE HeaderFoldProofs --------------------------
(***************************************************************************)
(* parse() prints the headers that were sent, for every header block: any  *)
(* fields, in any order, number and folding, whatever was unread before    *)
(* them and however much came behind; and a beginning of each when the end *)
(* was lost.  The reply is laid out in places, a row of it for each field; *)
(* unfolding gives each field one line; strtok() returns these lines one   *)
(* by one; and the list has, at every step, the fields read so far.        *)
(***************************************************************************)
EXTENDS MessageOutputProofs

-----------------------------------------------------------------------------
(* Where the tokens of texts in one are.                                   *)

\* The tokens of a piece of a text.
LEMMA PieceAt ==
  ASSUME NEW S, NEW t \in Seq(S), NEW a \in Nat, 1 <= a, NEW b \in Int, b <= Len(t)
  PROVE  \A i \in 1 .. b - a + 1 : SubSeq(t, a, b)[i] = t[a + i - 1]
OBVIOUS

\* The tokens of the first k texts.
Upto(s, k) == Len(FlattenSeq(SubSeq(s, 1, k)))

LEMMA OneMore ==
  ASSUME NEW S, NEW s \in Seq(Seq(S)), NEW n \in 0 .. Len(s) - 1
  PROVE  /\ SubSeq(s, 1, n) \in Seq(Seq(S)) /\ s[n + 1] \in Seq(S)
         /\ FlattenSeq(SubSeq(s, 1, n)) \in Seq(S) /\ FlattenSeq(SubSeq(s, 1, n + 1)) \in Seq(S)
         /\ FlattenSeq(SubSeq(s, 1, n + 1)) = FlattenSeq(SubSeq(s, 1, n)) \o s[n + 1]
<1> DEFINE e == s[n + 1]
           p == SubSeq(s, 1, n)
<1>1. /\ Len(s) \in Nat /\ n \in Nat /\ n + 1 \in Nat /\ n <= Len(s) /\ n + 1 <= Len(s)
      /\ n + 1 \in 1 .. Len(s) /\ (n + 1) - 1 = n /\ 1 \in 1 .. Len(s)
  OBVIOUS
<1>2. e \in Seq(S) /\ p \in Seq(Seq(S))
  <2>1. e \in Seq(S)
    BY <1>1, ElementOfSeq
  <2> QED BY <1>1, <2>1, Piece
<1>3. SubSeq(s, 1, n + 1) = Append(p, e)
  <2>1. SubSeq(s, 1, n + 1) = p \o <<e>>
    BY <1>1, SubSeqRecursiveSecond
  <2> HIDE DEF p, e
  <2> QED BY <1>2, <2>1, AppendIsConcat
<1> HIDE DEF p, e
<1>4. FlattenSeq(Append(p, e)) = FlattenSeq(p) \o e /\ FlattenSeq(p) \in Seq(S)
      /\ FlattenSeq(Append(p, e)) \in Seq(S)
  BY <1>2, FlattenMore, FlattenTyped
<1> QED BY <1>2, <1>3, <1>4 DEF p, e

LEMMA UptoEnds ==
  ASSUME NEW S, NEW s \in Seq(Seq(S))
  PROVE  Upto(s, 0) = 0 /\ Upto(s, Len(s)) = Len(FlattenSeq(s))
<1>1. SubSeq(s, 1, 0) = <<>> /\ Len(<<>>) = 0
  BY SubSeqEmpty
<1>2. SubSeq(s, 1, Len(s)) = s
  BY SubSeqFull
<1> QED BY <1>1, <1>2, FlattenNone DEF Upto

LEMMA UptoNext ==
  ASSUME NEW S, NEW s \in Seq(Seq(S)), NEW k \in 1 .. Len(s)
  PROVE  /\ Upto(s, k - 1) \in Nat /\ Upto(s, k) \in Nat /\ Len(s[k]) \in Nat
         /\ Upto(s, k) = Upto(s, k - 1) + Len(s[k])
<1>1. k - 1 \in 0 .. Len(s) - 1 /\ (k - 1) + 1 = k
  OBVIOUS
<1> DEFINE a == FlattenSeq(SubSeq(s, 1, k - 1))
           b == FlattenSeq(SubSeq(s, 1, k))
<1>2. a \in Seq(S) /\ b = a \o s[k] /\ s[k] \in Seq(S)
  BY <1>1, OneMore
<1>3. Upto(s, k - 1) = Len(a) /\ Upto(s, k) = Len(b)
  BY DEF Upto
<1> DEFINE e == s[k]
<1> HIDE DEF a, b, e
<1>4. Len(a) \in Nat /\ Len(e) \in Nat /\ Len(a \o e) = Len(a) + Len(e)
  BY <1>2, Joined DEF e
<1>5. b = a \o e
  BY <1>2 DEF e
<1>6. Upto(s, k - 1) \in Nat /\ Upto(s, k) \in Nat /\ Len(e) \in Nat
      /\ Upto(s, k) = Upto(s, k - 1) + Len(e)
  BY <1>3, <1>4, <1>5
<1> QED BY <1>6 DEF e

LEMMA UptoGrows ==
  ASSUME NEW S, NEW s \in Seq(Seq(S)), NEW i \in 0 .. Len(s)
  PROVE  Upto(s, i) \in Nat /\ \A j \in i .. Len(s) : Upto(s, j) \in Nat /\ Upto(s, i) <= Upto(s, j)
<1> DEFINE T == {n \in Nat : Upto(s, i + n) \in Nat /\ Upto(s, i) <= Upto(s, i + n)}
           m == Len(s) - i
<1>0. Len(s) \in Nat /\ m \in Nat
  OBVIOUS
<1>1. Upto(s, i) \in Nat
  <2>1. CASE i = 0
    BY <2>1, UptoEnds
  <2>2. CASE i # 0
    BY <1>0, <2>2, UptoNext
  <2> QED BY <2>1, <2>2
<1>2. 0 \in T
  BY <1>1
<1>3. ASSUME NEW n \in 0 .. m - 1, n \in T PROVE n + 1 \in T
  <2> DEFINE k == i + (n + 1)
  <2>1. k \in 1 .. Len(s) /\ k - 1 = i + n
    BY <1>0
  <2> HIDE DEF k
  <2>4. Upto(s, k) \in Nat /\ Upto(s, k - 1) \in Nat /\ Len(s[k]) \in Nat
        /\ Upto(s, k) = Upto(s, k - 1) + Len(s[k])
    BY <2>1, UptoNext
  <2>2. Upto(s, i + (n + 1)) \in Nat /\ Upto(s, i + n) <= Upto(s, i + (n + 1)) /\ Upto(s, i + n) \in Nat
    BY <2>1, <2>4 DEF k
  <2>3. Upto(s, i) <= Upto(s, i + n)
    BY <1>3
  <2> QED BY <1>0, <1>1, <2>2, <2>3
<1> HIDE DEF T
<1>4. \A n \in 0 .. m : n \in T
  BY <1>0, <1>2, <1>3, UpTo
<1>5. ASSUME NEW j \in i .. Len(s) PROVE Upto(s, j) \in Nat /\ Upto(s, i) <= Upto(s, j)
  <2>1. j - i \in 0 .. m /\ i + (j - i) = j
    BY <1>0
  <2>2. j - i \in T
    BY <1>4, <2>1
  <2> QED BY <2>1, <2>2 DEF T
<1> QED BY <1>1, <1>5

\* The texts up to k and those behind it.
LEMMA FlattenSplit ==
  ASSUME NEW S, NEW s \in Seq(Seq(S)), NEW k \in 0 .. Len(s)
  PROVE  /\ SubSeq(s, 1, k) \in Seq(Seq(S)) /\ SubSeq(s, k + 1, Len(s)) \in Seq(Seq(S))
         /\ FlattenSeq(SubSeq(s, 1, k)) \in Seq(S) /\ FlattenSeq(SubSeq(s, k + 1, Len(s))) \in Seq(S)
         /\ FlattenSeq(s) = FlattenSeq(SubSeq(s, 1, k)) \o FlattenSeq(SubSeq(s, k + 1, Len(s)))
<1> DEFINE a == SubSeq(s, 1, k)
           b == SubSeq(s, k + 1, Len(s))
<1>1. Len(s) \in Nat /\ k \in Nat /\ k + 1 \in Nat /\ 1 <= k + 1 /\ k <= Len(s)
  OBVIOUS
<1>2. a \in Seq(Seq(S)) /\ b \in Seq(Seq(S))
  BY <1>1, Piece
<1>3. a \o b = s
  <2>1. 1 \in 1 .. Len(s) + 1 /\ k \in 1 - 1 .. Len(s) /\ Len(s) \in k .. Len(s)
    BY <1>1
  <2>2. a \o b = SubSeq(s, 1, Len(s))
    BY <2>1, ConcatAdjacentSubSeq
  <2> QED BY <2>2, SubSeqFull
<1> HIDE DEF a, b
<1>4. FlattenSeq(a \o b) = FlattenSeq(a) \o FlattenSeq(b) /\ FlattenSeq(a) \in Seq(S) /\ FlattenSeq(b) \in Seq(S)
  BY <1>2, FlattenBoth, FlattenTyped
<1> QED BY <1>2, <1>3, <1>4 DEF a, b

\* The tokens of text k.
LEMMA FlattenAt ==
  ASSUME NEW S, NEW s \in Seq(Seq(S)), NEW k \in 1 .. Len(s)
  PROVE  /\ Upto(s, k) <= Len(FlattenSeq(s)) /\ Len(FlattenSeq(s)) \in Nat
         /\ \A i \in 1 .. Len(s[k]) : FlattenSeq(s)[Upto(s, k - 1) + i] = s[k][i]
<1> DEFINE a == FlattenSeq(SubSeq(s, 1, k - 1))
           b == FlattenSeq(SubSeq(s, 1, k))
           c == FlattenSeq(SubSeq(s, k + 1, Len(s)))
           e == s[k]
<1>1. k - 1 \in 0 .. Len(s) - 1 /\ (k - 1) + 1 = k /\ k \in 0 .. Len(s)
  OBVIOUS
<1>2. a \in Seq(S) /\ b = a \o e /\ e \in Seq(S) /\ b \in Seq(S)
  BY <1>1, OneMore
<1>3. c \in Seq(S) /\ FlattenSeq(s) = b \o c
  BY <1>1, FlattenSplit
<1>4. Upto(s, k) = Len(b) /\ Upto(s, k - 1) = Len(a)
  BY DEF Upto
<1> HIDE DEF a, b, c, e
<1>5. Len(b) \in Nat /\ Len(c) \in Nat /\ Len(b \o c) = Len(b) + Len(c)
      /\ \A i \in 1 .. Len(b) : (b \o c)[i] = b[i]
  BY <1>2, <1>3, Joined
<1>6. Len(a) \in Nat /\ Len(e) \in Nat /\ Len(b) = Len(a) + Len(e)
      /\ \A i \in 1 .. Len(e) : b[Len(a) + i] = e[i]
  BY <1>2, Joined
<1>7. \A i \in 1 .. Len(e) : Len(a) + i \in 1 .. Len(b)
  BY <1>6
<1>8. \A i \in 1 .. Len(e) : (b \o c)[Len(a) + i] = e[i]
  BY <1>5, <1>6, <1>7
<1>9. Len(b) <= Len(b \o c) /\ Len(b \o c) \in Nat
  BY <1>5
<1>10. \A i \in 1 .. Len(s[k]) : (b \o c)[Len(a) + i] = s[k][i]
  BY <1>8 DEF e
<1>11. Upto(s, k) <= Len(FlattenSeq(s)) /\ Len(FlattenSeq(s)) \in Nat
  BY <1>3, <1>4, <1>9
<1> QED BY <1>3, <1>4, <1>10, <1>11

\* Each token is in one of the texts.
LEMMA FlattenWhere ==
  ASSUME NEW S, NEW s \in Seq(Seq(S)), NEW p \in 1 .. Len(FlattenSeq(s))
  PROVE  \E k \in 1 .. Len(s) : Upto(s, k - 1) < p /\ p <= Upto(s, k)
<1> SUFFICES ASSUME \A k \in 1 .. Len(s) : Upto(s, k - 1) < p => ~(p <= Upto(s, k)) PROVE FALSE
  OBVIOUS
<1> DEFINE T == {n \in Nat : Upto(s, n) < p}
           L == Len(s)
<1>1. L \in Nat
  OBVIOUS
<1>2. 0 \in T
  BY UptoEnds
<1>3. ASSUME NEW n \in 0 .. L - 1, n \in T PROVE n + 1 \in T
  <2>1. n + 1 \in 1 .. Len(s) /\ (n + 1) - 1 = n
    BY <1>1
  <2>2. Upto(s, n + 1) \in Nat
    BY <2>1, UptoNext
  <2>3. Upto(s, n) < p
    BY <1>3
  <2>4. ~(p <= Upto(s, n + 1))
    BY <2>1, <2>3
  <2> QED BY <2>1, <2>2, <2>4
<1> HIDE DEF T, L
<1>4. L \in T
  <2>1. L \in 0 .. L
    BY <1>1
  <2> QED BY <1>1, <1>2, <1>3, <2>1, UpTo
<1>5. Upto(s, Len(s)) < p
  BY <1>4 DEF T, L
<1>6. Upto(s, Len(s)) = Len(FlattenSeq(s))
  BY UptoEnds
<1>7. FlattenSeq(s) \in Seq(S)
  BY FlattenTyped
<1> QED BY <1>5, <1>6, <1>7

\* One text in one is that text.
LEMMA FlattenOne ==
  ASSUME NEW S, NEW e \in Seq(S)
  PROVE  <<e>> \in Seq(Seq(S)) /\ FlattenSeq(<<e>>) = e
<1> DEFINE z == <<>>
<1>1. z \in Seq(Seq(S)) /\ Append(z, e) = <<e>>
  OBVIOUS
<1>2. FlattenSeq(Append(z, e)) = FlattenSeq(z) \o e /\ Append(z, e) \in Seq(Seq(S))
  <2> HIDE DEF z
  <2> QED BY <1>1, FlattenMore
<1>3. FlattenSeq(z) \o e = e
  BY FlattenNone, ConcatEmptySeq
<1> QED BY <1>1, <1>2, <1>3

\* A text is its tokens in one.
LEMMA FlattenSingles ==
  ASSUME NEW S, NEW t \in Seq(S), NEW s \in Seq(Seq(S)), Len(s) = Len(t),
         \A i \in 1 .. Len(t) : s[i] = <<t[i]>>
  PROVE  FlattenSeq(s) = t
<1> DEFINE T == {n \in Nat : FlattenSeq(SubSeq(s, 1, n)) = SubSeq(t, 1, n)}
           L == Len(t)
<1>1. L \in Nat
  OBVIOUS
<1>2. 0 \in T
  <2>1. SubSeq(s, 1, 0) = <<>> /\ SubSeq(t, 1, 0) = <<>>
    BY SubSeqEmpty
  <2> QED BY <2>1, FlattenNone
<1>3. ASSUME NEW n \in 0 .. L - 1, n \in T PROVE n + 1 \in T
  <2>1. n \in 0 .. Len(s) - 1 /\ n + 1 \in 1 .. Len(t) /\ (n + 1) - 1 = n /\ 1 \in 1 .. Len(t) /\ n + 1 \in Nat
    BY <1>1
  <2>2. FlattenSeq(SubSeq(s, 1, n + 1)) = FlattenSeq(SubSeq(s, 1, n)) \o s[n + 1]
    BY <2>1, OneMore
  <2>3. SubSeq(t, 1, n + 1) = SubSeq(t, 1, n) \o <<t[n + 1]>>
    BY <2>1, SubSeqRecursiveSecond
  <2>4. s[n + 1] = <<t[n + 1]>>
    BY <2>1
  <2>5. FlattenSeq(SubSeq(s, 1, n)) = SubSeq(t, 1, n)
    BY <1>3
  <2>6. FlattenSeq(SubSeq(s, 1, n + 1)) = SubSeq(t, 1, n + 1)
    BY <2>2, <2>3, <2>4, <2>5, Zenon
  <2> QED BY <2>1, <2>6
<1> HIDE DEF T
<1>4. L \in T
  <2>1. L \in 0 .. L
    BY <1>1
  <2> HIDE DEF L
  <2> QED BY <1>1, <1>2, <1>3, <2>1, UpTo
<1>5. SubSeq(s, 1, L) = s /\ SubSeq(t, 1, L) = t
  BY SubSeqFull
<1> QED BY <1>4, <1>5 DEF T

\* Empty texts are nothing.
LEMMA FlattenEmpties ==
  ASSUME NEW S, NEW s \in Seq(Seq(S)), \A i \in 1 .. Len(s) : s[i] = <<>>
  PROVE  FlattenSeq(s) = <<>>
<1> DEFINE T == {n \in Nat : Upto(s, n) = 0}
           L == Len(s)
<1>1. L \in Nat
  OBVIOUS
<1>2. 0 \in T
  BY UptoEnds
<1>3. ASSUME NEW n \in 0 .. L - 1, n \in T PROVE n + 1 \in T
  <2>1. n + 1 \in 1 .. Len(s) /\ (n + 1) - 1 = n /\ n + 1 \in Nat
    BY <1>1
  <2>2. Upto(s, n + 1) = Upto(s, n) + Len(s[n + 1])
    BY <2>1, UptoNext
  <2>3. Len(s[n + 1]) = 0
    BY <2>1
  <2>4. Upto(s, n) = 0
    BY <1>3
  <2> QED BY <2>1, <2>2, <2>3, <2>4
<1> HIDE DEF T, L
<1>4. L \in T
  <2>1. L \in 0 .. L
    BY <1>1
  <2> QED BY <1>1, <1>2, <1>3, <2>1, UpTo
<1>5. Len(FlattenSeq(s)) = 0
  BY <1>4, UptoEnds DEF T, L
<1> QED BY <1>5, FlattenTyped, EmptySeq

-----------------------------------------------------------------------------
(* Unfolding a whole text.                                                 *)

Folds(t) == FoldsBefore(Len(t) + 1, t)

\* What its places become, and the text that is made of them.
Pieces(t) == UnfoldedPlaces(Folds(t), <<" ">>, t)
Smooth(t) == FlattenSeq(Pieces(t))

\* A fold is a line end with a blank after it.
LEMMA FoldsIs ==
  ASSUME NEW S, NEW t \in Seq(S)
  PROVE  /\ Folds(t) \in SUBSET Nat
         /\ \A i \in Nat : i \in Folds(t) <=> /\ 1 <= i /\ i + 2 <= Len(t)
                                              /\ t[i] = "CR" /\ t[i + 1] = "LF" /\ t[i + 2] \in Blanks
<1>1. Len(t) \in Nat /\ ~(Len(t) + 1 < Len(t) - 2)
  OBVIOUS
<1>2. Folds(t) = {i \in 1 .. Len(t) - 2 : BeginsAt(Eol, t, i) /\ t[i + 2] \in Blanks}
  BY <1>1 DEF Folds, FoldsBefore
<1>3. ASSUME NEW i \in 1 .. Len(t) - 2
      PROVE  BeginsAt(Eol, t, i) <=> t[i] = "CR" /\ t[i + 1] = "LF"
  <2>1. /\ i \in Nat /\ i + 1 \in Nat /\ i <= i + 1 /\ i \in 1 .. Len(t) /\ i + 1 \in 1 .. Len(t)
        /\ (i + 1) - i + 1 = 2
    BY <1>1
  <2> DEFINE u == SubSeq(t, i, i + 1)
  <2>2. u \in Seq(S) /\ Len(u) = 2
    BY <1>1, <2>1, Piece
  <2>3. u[1] = t[i] /\ u[2] = t[i + 1]
    BY <1>1, <2>1
  <2>4. BeginsAt(Eol, t, i) <=> u = <<"CR", "LF">>
    BY <1>1, <2>1 DEF BeginsAt, Eol
  <2> HIDE DEF u
  <2>5. u = <<"CR", "LF">> <=> u[1] = "CR" /\ u[2] = "LF"
    <3>1. u = <<u[1], u[2]>>
      BY <2>2
    <3> QED BY <3>1
  <2> QED BY <2>3, <2>4, <2>5
<1> QED BY <1>1, <1>2, <1>3

LEMMA PiecesTyped ==
  ASSUME NEW t \in Seq(Tokens)
  PROVE  /\ Pieces(t) \in Seq(Seq(Tokens)) /\ Len(Pieces(t)) = Len(t)
         /\ \A i \in 1 .. Len(t) : Pieces(t)[i] = Unfolded(Folds(t), <<" ">>, t, i)
         /\ Smooth(t) \in Seq(Tokens) /\ Unfold(<<" ">>)[Folds(t)][t] = Smooth(t)
<1> DEFINE x == <<" ">>
<1>1. x \in Seq(Tokens) /\ Tokens \subseteq STRING
  BY WrittenTokens, Short
<1>2. Folds(t) \in SUBSET Nat
  BY FoldsIs
<1>3. Len(t) \in Nat
  OBVIOUS
<1>4. /\ UnfoldedPlaces(Folds(t), x, t) \in Seq(Seq(Tokens))
      /\ Unfold(x)[Folds(t)][t] = FlattenSeq(UnfoldedPlaces(Folds(t), x, t))
      /\ Unfold(x)[Folds(t)][t] \in Seq(Tokens)
  <2> HIDE DEF x
  <2> QED BY <1>1, <1>2, UnfoldTyped
<1>5. Len(UnfoldedPlaces(Folds(t), x, t)) = Len(t)
  BY <1>3 DEF UnfoldedPlaces
<1>6. \A i \in 1 .. Len(t) : UnfoldedPlaces(Folds(t), x, t)[i] = Unfolded(Folds(t), x, t, i)
  BY DEF UnfoldedPlaces
<1> QED BY <1>4, <1>5, <1>6 DEF Pieces, Smooth

\* A text that has the tokens of two.
LEMMA JoinedIs ==
  ASSUME NEW S, NEW p \in Seq(S), NEW a \in Seq(S), NEW b \in Seq(S), Len(p) = Len(a) + Len(b),
         \A i \in 1 .. Len(a) : p[i] = a[i], \A j \in 1 .. Len(b) : p[Len(a) + j] = b[j]
  PROVE  p = a \o b
<1> DEFINE c == a \o b
<1>1. /\ c \in Seq(S) /\ Len(a) \in Nat /\ Len(b) \in Nat /\ Len(c) = Len(a) + Len(b)
      /\ \A i \in 1 .. Len(a) : c[i] = a[i]
      /\ \A i \in 1 .. Len(b) : c[Len(a) + i] = b[i]
  BY Joined
<1> HIDE DEF c
<1>2. ASSUME NEW i \in 1 .. Len(p) PROVE p[i] = c[i]
  <2>1. CASE i <= Len(a)
    BY <1>1, <2>1
  <2>2. CASE i > Len(a)
    <3> DEFINE j == i - Len(a)
    <3>1. j \in 1 .. Len(b) /\ Len(a) + j = i
      BY <1>1, <2>2
    <3> HIDE DEF j
    <3>2. p[Len(a) + j] = b[j]
      BY <3>1
    <3>3. c[Len(a) + j] = b[j]
      BY <1>1, <3>1
    <3> QED BY <3>1, <3>2, <3>3
  <2> QED BY <1>1, <2>1, <2>2
<1>3. p = c
  BY <1>1, <1>2, SeqEqual
<1> QED BY <1>3 DEF c

\* Two texts of which the second does not end a fold of the first.
LEMMA PiecesJoined ==
  ASSUME NEW a \in Seq(Tokens), NEW b \in Seq(Tokens), b = <<>> \/ (b[1] \notin Blanks /\ b[1] # "LF")
  PROVE  Pieces(a \o b) = Pieces(a) \o Pieces(b) /\ a \o b \in Seq(Tokens)
<1> DEFINE t == a \o b
           x == <<" ">>
           n == Len(a)
           k == Len(b)
<1>1. /\ t \in Seq(Tokens) /\ n \in Nat /\ k \in Nat /\ Len(t) = n + k
      /\ \A i \in 1 .. n : t[i] = a[i]
      /\ \A i \in 1 .. k : t[n + i] = b[i]
  BY Joined
<1>2. k = 0 \/ (t[n + 1] \notin Blanks /\ t[n + 1] # "LF")
  BY <1>1
<1> HIDE DEF t, n, k
<1>3. /\ \A i \in Nat : i \in Folds(t) <=> /\ 1 <= i /\ i + 2 <= n + k
                                           /\ t[i] = "CR" /\ t[i + 1] = "LF" /\ t[i + 2] \in Blanks
      /\ \A i \in Nat : i \in Folds(a) <=> /\ 1 <= i /\ i + 2 <= n
                                           /\ a[i] = "CR" /\ a[i + 1] = "LF" /\ a[i + 2] \in Blanks
      /\ \A i \in Nat : i \in Folds(b) <=> /\ 1 <= i /\ i + 2 <= k
                                           /\ b[i] = "CR" /\ b[i + 1] = "LF" /\ b[i + 2] \in Blanks
      /\ Folds(t) \in SUBSET Nat /\ Folds(a) \in SUBSET Nat /\ Folds(b) \in SUBSET Nat
  BY <1>1, FoldsIs DEF n, k
<1>4. ASSUME NEW i \in 1 .. n PROVE i \in Folds(t) <=> i \in Folds(a)
  <2>1. CASE i + 2 <= n
    <3>1. t[i] = a[i] /\ t[i + 1] = a[i + 1] /\ t[i + 2] = a[i + 2] /\ i + 2 <= n + k
      BY <1>1, <2>1, SMTT(30)
    <3> QED BY <1>1, <1>3, <2>1, <3>1
  <2>2. CASE i = n - 1
    <3>1. i + 2 = n + 1 /\ i \notin Folds(a)
      BY <1>1, <1>3, <2>2
    <3> QED BY <1>1, <1>2, <1>3, <3>1
  <2>3. CASE i = n
    <3>1. i + 1 = n + 1 /\ i \notin Folds(a)
      BY <1>1, <1>3, <2>3
    <3> QED BY <1>1, <1>2, <1>3, <3>1
  <2> QED BY <1>1, <2>1, <2>2, <2>3
<1>5. ASSUME NEW j \in 1 .. k PROVE n + j \in Folds(t) <=> j \in Folds(b)
  <2>1. CASE j + 2 <= k
    <3>1. /\ t[n + j] = b[j] /\ t[(n + j) + 1] = b[j + 1] /\ t[(n + j) + 2] = b[j + 2]
      <4>1. t[n + j] = b[j] /\ t[n + (j + 1)] = b[j + 1] /\ t[n + (j + 2)] = b[j + 2]
        BY <1>1, <2>1
      <4>2. n + (j + 1) = (n + j) + 1 /\ n + (j + 2) = (n + j) + 2
        BY <1>1
      <4> QED BY <4>1, <4>2
    <3>2. n + j \in Nat /\ 1 <= n + j /\ (n + j) + 2 <= n + k /\ j \in Nat
      BY <1>1, <2>1
    <3> QED BY <1>3, <2>1, <3>1, <3>2
  <2>2. CASE ~(j + 2 <= k)
    BY <1>1, <1>3, <2>2
  <2> QED BY <2>1, <2>2
<1>6. ASSUME NEW i \in 1 .. n PROVE FoldedAway(Folds(t), t, i) <=> FoldedAway(Folds(a), a, i)
  <2>1. ASSUME NEW f \in Nat, f <= i
        PROVE  /\ f \in Folds(t) <=> f \in Folds(a)
               /\ (\A q \in f + 2 .. i : t[q] \in Blanks) <=> (\A q \in f + 2 .. i : a[q] \in Blanks)
    <3>1. f = 0 \/ f \in 1 .. n
      BY <1>1, <2>1
    <3>2. 0 \notin Folds(t) /\ 0 \notin Folds(a)
      BY <1>3
    <3>3. \A q \in f + 2 .. i : t[q] = a[q]
      BY <1>1, <2>1
    <3> QED BY <1>4, <3>1, <3>2, <3>3
  <2> QED BY <1>3, <2>1 DEF FoldedAway
<1>7. ASSUME NEW j \in 1 .. k PROVE FoldedAway(Folds(t), t, n + j) <=> FoldedAway(Folds(b), b, j)
  <2>1. ASSUME NEW f \in Folds(t), f <= n + j, \A q \in f + 2 .. n + j : t[q] \in Blanks
        PROVE  FoldedAway(Folds(b), b, j)
    <3>1. f \in Nat /\ 1 <= f
      BY <1>3
    <3>2. CASE f <= n
      <4>1. f \in Folds(a)
        BY <1>4, <3>1, <3>2
      <4>2. n + 1 \in f + 2 .. n + j
        BY <1>1, <1>3, <3>1, <4>1
      <4> QED BY <1>1, <1>2, <2>1, <4>2
    <3>3. CASE f > n
      <4>1. f - n \in 1 .. k /\ n + (f - n) = f /\ f - n <= j
        BY <1>1, <2>1, <3>1, <3>3
      <4>2. f - n \in Folds(b)
        BY <1>5, <4>1
      <4>3. ASSUME NEW q \in (f - n) + 2 .. j PROVE b[q] \in Blanks
        <5>1. n + q \in f + 2 .. n + j /\ q \in 1 .. k
          BY <1>1, <3>1, <3>3
        <5> QED BY <1>1, <2>1, <5>1
      <4> QED BY <4>1, <4>2, <4>3 DEF FoldedAway
    <3> QED BY <1>1, <3>1, <3>2, <3>3
  <2>2. ASSUME NEW f \in Folds(b), f <= j, \A q \in f + 2 .. j : b[q] \in Blanks
        PROVE  FoldedAway(Folds(t), t, n + j)
    <3>1. f \in Nat /\ 1 <= f /\ f \in 1 .. k
      BY <1>1, <1>3, <2>2
    <3>2. n + f \in Folds(t) /\ n + f <= n + j
      BY <1>1, <1>5, <2>2, <3>1
    <3>3. ASSUME NEW q \in (n + f) + 2 .. n + j PROVE t[q] \in Blanks
      <4>1. q - n \in f + 2 .. j /\ q - n \in 1 .. k /\ n + (q - n) = q
        BY <1>1, <3>1
      <4> QED BY <1>1, <2>2, <4>1
    <3> QED BY <3>2, <3>3 DEF FoldedAway
  <2> QED BY <2>1, <2>2 DEF FoldedAway
<1> DEFINE P == Pieces(t)
           A == Pieces(a)
           B == Pieces(b)
<1>8. /\ P \in Seq(Seq(Tokens)) /\ Len(P) = n + k
      /\ \A i \in 1 .. n + k : P[i] = Unfolded(Folds(t), x, t, i)
  BY <1>1, PiecesTyped
<1>9. /\ A \in Seq(Seq(Tokens)) /\ Len(A) = n
      /\ \A i \in 1 .. n : A[i] = Unfolded(Folds(a), x, a, i)
  BY PiecesTyped DEF n
<1>10. /\ B \in Seq(Seq(Tokens)) /\ Len(B) = k
       /\ \A i \in 1 .. k : B[i] = Unfolded(Folds(b), x, b, i)
  BY PiecesTyped DEF k
<1> HIDE DEF P, A, B, x
<1>11. ASSUME NEW i \in 1 .. n PROVE P[i] = A[i]
  <2>1. P[i] = Unfolded(Folds(t), x, t, i) /\ A[i] = Unfolded(Folds(a), x, a, i)
    BY <1>1, <1>8, <1>9
  <2>2. t[i] = a[i] /\ (i \in Folds(t) <=> i \in Folds(a))
        /\ (FoldedAway(Folds(t), t, i) <=> FoldedAway(Folds(a), a, i))
    BY <1>1, <1>4, <1>6
  <2> QED BY <2>1, <2>2, Zenon DEF Unfolded
<1>12. ASSUME NEW j \in 1 .. k PROVE P[n + j] = B[j]
  <2>1. P[n + j] = Unfolded(Folds(t), x, t, n + j) /\ B[j] = Unfolded(Folds(b), x, b, j)
    BY <1>1, <1>8, <1>10, SMTT(30)
  <2>2. t[n + j] = b[j] /\ (n + j \in Folds(t) <=> j \in Folds(b))
        /\ (FoldedAway(Folds(t), t, n + j) <=> FoldedAway(Folds(b), b, j))
    BY <1>1, <1>5, <1>7
  <2> QED BY <2>1, <2>2, Zenon DEF Unfolded
<1> DEFINE Z == Seq(Tokens)
<1>13. P \in Seq(Z) /\ A \in Seq(Z) /\ B \in Seq(Z) /\ Len(P) = Len(A) + Len(B)
       /\ (\A i \in 1 .. Len(A) : P[i] = A[i]) /\ \A j \in 1 .. Len(B) : P[Len(A) + j] = B[j]
  BY <1>8, <1>9, <1>10, <1>11, <1>12
<1> HIDE DEF Z
<1>15. P = A \o B
  BY <1>13, JoinedIs
<1> QED BY <1>1, <1>15 DEF P, A, B, t

LEMMA SmoothJoined ==
  ASSUME NEW a \in Seq(Tokens), NEW b \in Seq(Tokens), b = <<>> \/ (b[1] \notin Blanks /\ b[1] # "LF")
  PROVE  Smooth(a \o b) = Smooth(a) \o Smooth(b)
<1>1. Pieces(a \o b) = Pieces(a) \o Pieces(b)
  BY PiecesJoined
<1>2. Pieces(a) \in Seq(Seq(Tokens)) /\ Pieces(b) \in Seq(Seq(Tokens))
  BY PiecesTyped
<1>3. FlattenSeq(Pieces(a) \o Pieces(b)) = FlattenSeq(Pieces(a)) \o FlattenSeq(Pieces(b))
  BY <1>2, FlattenBoth
<1> QED BY <1>1, <1>3 DEF Smooth

\* A text without a fold stays as it is.
LEMMA SmoothNone ==
  ASSUME NEW t \in Seq(Tokens), Folds(t) = {}
  PROVE  Smooth(t) = t
<1>1. Pieces(t) \in Seq(Seq(Tokens)) /\ Len(Pieces(t)) = Len(t)
      /\ \A i \in 1 .. Len(t) : Pieces(t)[i] = Unfolded(Folds(t), <<" ">>, t, i)
  BY PiecesTyped
<1>2. \A i \in 1 .. Len(t) : Pieces(t)[i] = <<t[i]>>
  BY <1>1 DEF Unfolded, FoldedAway
<1> QED BY <1>1, <1>2, FlattenSingles DEF Smooth

\* Texts that do not end folds of each other.
LEMMA SmoothAll ==
  ASSUME NEW s \in Seq(Seq(Tokens)), NEW u \in Seq(Seq(Tokens)), Len(u) = Len(s),
         \A i \in 1 .. Len(s) : s[i][1] \notin Blanks /\ s[i][1] # "LF" /\ u[i] = Smooth(s[i])
  PROVE  Smooth(FlattenSeq(s)) = FlattenSeq(u)
<1> DEFINE T == {n \in Nat : Smooth(FlattenSeq(SubSeq(s, 1, n))) = FlattenSeq(SubSeq(u, 1, n))}
           L == Len(s)
<1>1. L \in Nat
  OBVIOUS
<1>2. 0 \in T
  <2>1. SubSeq(s, 1, 0) = <<>> /\ SubSeq(u, 1, 0) = <<>>
    BY SubSeqEmpty
  <2>2. Smooth(<<>>) = <<>>
    <3>1. <<>> \in Seq(Tokens) /\ Folds(<<>>) = {}
      BY DEF Folds, FoldsBefore
    <3> QED BY <3>1, SmoothNone
  <2> QED BY <2>1, <2>2, FlattenNone
<1>3. ASSUME NEW n \in 0 .. L - 1, n \in T PROVE n + 1 \in T
  <2> DEFINE a == FlattenSeq(SubSeq(s, 1, n))
             b == s[n + 1]
  <2>1. n \in 0 .. Len(s) - 1 /\ n \in 0 .. Len(u) - 1 /\ n + 1 \in 1 .. Len(s) /\ n + 1 \in Nat
    BY <1>1
  <2>2. FlattenSeq(SubSeq(s, 1, n + 1)) = a \o b /\ a \in Seq(Tokens) /\ b \in Seq(Tokens)
    BY <2>1, OneMore
  <2>3. FlattenSeq(SubSeq(u, 1, n + 1)) = FlattenSeq(SubSeq(u, 1, n)) \o u[n + 1]
    BY <2>1, OneMore
  <2>4. b[1] \notin Blanks /\ b[1] # "LF" /\ u[n + 1] = Smooth(b)
    BY <2>1
  <2>5. Smooth(a) = FlattenSeq(SubSeq(u, 1, n))
    BY <1>3
  <2> HIDE DEF a, b
  <2>6. Smooth(a \o b) = Smooth(a) \o Smooth(b)
    BY <2>2, <2>4, SmoothJoined
  <2>7. Smooth(FlattenSeq(SubSeq(s, 1, n + 1))) = FlattenSeq(SubSeq(u, 1, n + 1))
    BY <2>2, <2>3, <2>4, <2>5, <2>6, Zenon
  <2> QED BY <2>1, <2>7
<1> HIDE DEF T
<1>4. L \in T
  <2>1. L \in 0 .. L
    BY <1>1
  <2> HIDE DEF L
  <2> QED BY <1>1, <1>2, <1>3, <2>1, UpTo
<1>5. SubSeq(s, 1, L) = s /\ SubSeq(u, 1, L) = u
  BY SubSeqFull
<1> QED BY <1>4, <1>5 DEF T

\* The places of t in S before any other.
LEMMA LeadingIs ==
  ASSUME NEW S, NEW t \in Seq(S), NEW P
  PROVE  \E n \in 0 .. Len(t) :
           /\ \A i \in 1 .. n : t[i] \in P
           /\ n < Len(t) => t[n + 1] \notin P
           /\ WithoutLeading(P, t) = SubSeq(t, n + 1, Len(t))
<1> DEFINE T == {n \in 1 .. Len(t) : \A i \in 1 .. n : t[i] \in P}
           n == LastOf[T]
<1>1. Len(t) \in Nat /\ T \subseteq 0 .. Len(t)
  OBVIOUS
<1>2. WithoutLeading(P, t) = SubSeq(t, 1 + n, Len(t))
  BY DEF WithoutLeading
<1>3. \/ T = {} /\ n = 0
      \/ n \in T /\ \A j \in T : j <= n
  <2> HIDE DEF T
  <2> QED BY <1>1, LastOfIs
<1>4. n \in 0 .. Len(t) /\ \A i \in 1 .. n : t[i] \in P
  <2> HIDE DEF n
  <2> QED BY <1>1, <1>3
<1>5. ASSUME n < Len(t) PROVE t[n + 1] \notin P
  <2> HIDE DEF n
  <2> SUFFICES ASSUME t[n + 1] \in P PROVE FALSE
    OBVIOUS
  <2>1. n + 1 \in 1 .. Len(t)
    BY <1>1, <1>4, <1>5
  <2>2. n + 1 \in T
    BY <1>1, <1>4, <2>1
  <2> QED BY <1>1, <1>3, <1>4, <2>2
<1> HIDE DEF n
<1>6. 1 + n = n + 1
  BY <1>1, <1>4
<1> QED BY <1>2, <1>4, <1>5, <1>6

\* A line that begins with a blank, and the line end before it: one blank and the rest.
LEMMA SmoothLine ==
  ASSUME NEW l \in Seq(Tokens), l # <<>>, l[1] \in Blanks, \A i \in 1 .. Len(l) : l[i] \notin LineEnds
  PROVE  /\ Eol \o l \in Seq(Tokens)
         /\ Smooth(Eol \o l) = <<" ">> \o WithoutLeading(Blanks, l)
<1> DEFINE t == Eol \o l
           k == Len(l)
           P == Pieces(t)
<1>1. /\ t \in Seq(Tokens) /\ k \in Nat /\ 1 <= k /\ Len(t) = k + 2
      /\ t[1] = "CR" /\ t[2] = "LF" /\ \A i \in 1 .. k : t[i + 2] = l[i]
  <2>1. Eol \in Seq(Tokens) /\ Len(Eol) = 2 /\ Eol[1] = "CR" /\ Eol[2] = "LF"
    BY FrameTokens, Short DEF Eol
  <2>2. /\ t \in Seq(Tokens) /\ k \in Nat /\ Len(t) = 2 + k
        /\ \A i \in 1 .. 2 : t[i] = Eol[i]
        /\ \A i \in 1 .. k : t[2 + i] = l[i]
    <3>1. /\ t \in Seq(Tokens) /\ k \in Nat /\ Len(t) = Len(Eol) + k
          /\ \A i \in 1 .. Len(Eol) : t[i] = Eol[i]
          /\ \A i \in 1 .. k : t[Len(Eol) + i] = l[i]
      <4>1. Eol \in Seq(Tokens)
        BY <2>1
      <4> QED BY <4>1, Joined
    <3> QED BY <2>1, <3>1
  <2>3. 1 <= k
    BY NotEmpty
  <2>4. \A i \in 1 .. k : i + 2 = 2 + i
    OBVIOUS
  <2> QED BY <2>1, <2>2, <2>3, <2>4
<1> HIDE DEF t, k
<1>2. PICK n \in 0 .. k : /\ \A i \in 1 .. n : l[i] \in Blanks
                          /\ n < k => l[n + 1] \notin Blanks
                          /\ WithoutLeading(Blanks, l) = SubSeq(l, n + 1, k)
  BY LeadingIs DEF k
<1>3. 1 <= n /\ n \in Nat
  <2>1. n # 0
    BY <1>1, <1>2
  <2> QED BY <1>1, <2>1
<1>4. \A i \in Nat : i \in Folds(t) <=> i = 1
  <2>1. /\ \A i \in Nat : i \in Folds(t) <=> /\ 1 <= i /\ i + 2 <= Len(t)
                                             /\ t[i] = "CR" /\ t[i + 1] = "LF" /\ t[i + 2] \in Blanks
    BY <1>1, FoldsIs
  <2>2. 1 \in Folds(t)
    <3>1. t[1 + 2] \in Blanks /\ t[1 + 1] = "LF"
      BY <1>1 DEF k
    <3> QED BY <1>1, <2>1, <3>1
  <2>3. ASSUME NEW i \in Nat, i \in Folds(t) PROVE i = 1
    <3>1. 1 <= i /\ i + 2 <= k + 2 /\ t[i] = "CR" /\ t[i + 1] = "LF"
      BY <1>1, <2>1, <2>3
    <3>2. i # 2
      BY <1>1, <3>1
    <3>3. ASSUME i >= 3 PROVE FALSE
      <4>1. i - 2 \in 1 .. k /\ (i - 2) + 2 = i
        BY <1>1, <3>1, <3>3
      <4>2. t[i] = l[i - 2]
        BY <1>1, <4>1
      <4> QED BY <3>1, <4>1, <4>2 DEF LineEnds, k
    <3> QED BY <3>1, <3>2, <3>3
  <2> QED BY <2>2, <2>3
<1>5. Folds(t) = {1}
  <2>1. Folds(t) \in SUBSET Nat
    BY <1>1, FoldsIs
  <2> QED BY <1>4, <2>1
<1>6. \A i \in 1 .. Len(t) : FoldedAway(Folds(t), t, i) <=> \A q \in 3 .. i : t[q] \in Blanks
  BY <1>1, <1>5 DEF FoldedAway
<1> DEFINE Z == Seq(Tokens)
<1>17. P \in Seq(Seq(Tokens)) /\ Len(P) = Len(t)
       /\ \A i \in 1 .. Len(t) : P[i] = Unfolded(Folds(t), <<" ">>, t, i)
  BY <1>1, PiecesTyped
<1> HIDE DEF P
<1>18. P \in Seq(Z) /\ Len(P) = k + 2
  BY <1>1, <1>17
<1>7. \A i \in 1 .. k + 2 : P[i] = Unfolded(Folds(t), <<" ">>, t, i)
  BY <1>1, <1>17
<1>8. P[1] = <<" ">>
  <2>1. 1 \in 1 .. k + 2 /\ 1 \in Folds(t)
    BY <1>1, <1>5
  <2> QED BY <1>7, <2>1, Zenon DEF Unfolded
<1> HIDE DEF Z
<1>9. ASSUME NEW i \in 2 .. n + 2 PROVE P[i] = <<>>
  <2>1. i \in 1 .. k + 2 /\ i # 1 /\ i \in 1 .. Len(t)
    BY <1>1
  <2>2. ASSUME NEW q \in 3 .. i PROVE t[q] \in Blanks
    <3>1. q - 2 \in 1 .. n /\ (q - 2) + 2 = q /\ q - 2 \in 1 .. k
      BY <1>1
    <3>2. t[q] = l[q - 2]
      BY <1>1, <3>1
    <3> QED BY <1>2, <3>1, <3>2
  <2>3. FoldedAway(Folds(t), t, i) /\ i \notin Folds(t)
    BY <1>5, <1>6, <2>1, <2>2
  <2> QED BY <1>7, <2>1, <2>3 DEF Unfolded
<1>10. ASSUME NEW i \in n + 1 .. k PROVE P[i + 2] = <<l[i]>>
  <2>1. i + 2 \in 1 .. k + 2 /\ i + 2 # 1 /\ i \in 1 .. k /\ i + 2 \in 1 .. Len(t)
    BY <1>1, <1>3
  <2>2. t[(n + 1) + 2] \notin Blanks /\ (n + 1) + 2 \in 3 .. i + 2
    <3>1. n < k /\ n + 1 \in 1 .. k
      BY <1>1, <1>3
    <3> QED BY <1>1, <1>2, <3>1
  <2>3. ~FoldedAway(Folds(t), t, i + 2) /\ i + 2 \notin Folds(t)
    BY <1>5, <1>6, <2>1, <2>2
  <2>4. t[i + 2] = l[i]
    BY <1>1, <2>1
  <2> QED BY <1>7, <2>1, <2>3, <2>4 DEF Unfolded
<1> DEFINE A == SubSeq(P, 2, n + 2)
           B == SubSeq(P, n + 3, k + 2)
           r == SubSeq(l, n + 1, k)
<1>11. FlattenSeq(A) = <<>> /\ A \in Seq(Z)
  <2>1. A \in Seq(Z) /\ Len(A) = n + 1
    BY <1>1, <1>3, <1>18, Piece
  <2>2. \A i \in 1 .. n + 1 : A[i] = P[i + 1]
    <3>1. 2 \in Nat /\ 1 <= 2 /\ n + 2 \in Int /\ n + 2 <= Len(P) /\ n + 2 - 2 + 1 = n + 1
      BY <1>1, <1>3, <1>18
    <3>2. \A i \in 1 .. n + 2 - 2 + 1 : SubSeq(P, 2, n + 2)[i] = P[2 + i - 1]
      <4> DEFINE c == 2
                 d == n + 2
      <4>1. c \in Nat /\ 1 <= c /\ d \in Int /\ d <= Len(P)
        BY <3>1
      <4> HIDE DEF c, d
      <4>2. \A i \in 1 .. d - c + 1 : SubSeq(P, c, d)[i] = P[c + i - 1]
        BY <1>18, <4>1, PieceAt
      <4> QED BY <4>2 DEF c, d
    <3>3. \A i \in 1 .. n + 1 : 2 + i - 1 = i + 1
      OBVIOUS
    <3> QED BY <3>1, <3>2, <3>3
  <2>3. \A i \in 1 .. Len(A) : A[i] = <<>>
    BY <1>3, <1>9, <2>1, <2>2
  <2> HIDE DEF A
  <2> QED BY <2>1, <2>3, FlattenEmpties DEF Z
<1>12. FlattenSeq(B) = r /\ B \in Seq(Z) /\ r \in Seq(Tokens)
  <2>1. B \in Seq(Z) /\ Len(B) = k - n
    BY <1>1, <1>3, <1>18, Piece
  <2>2. r \in Seq(Tokens) /\ Len(r) = k - n
    BY <1>1, <1>3, Piece DEF k
  <2>3. ASSUME NEW i \in 1 .. k - n PROVE B[i] = <<r[i]>>
    <3>1. n + i \in n + 1 .. k /\ (n + i) + 2 = n + 3 + i - 1 /\ n + i = n + 1 + i - 1
      BY <1>1, <1>3
    <3>2. B[i] = P[(n + i) + 2]
      <4> DEFINE c == n + 3
                 d == k + 2
      <4>1. c \in Nat /\ 1 <= c /\ d \in Int /\ d <= Len(P) /\ i \in 1 .. d - c + 1 /\ c + i - 1 = (n + i) + 2
        BY <1>1, <1>3, <1>18
      <4>2. B = SubSeq(P, c, d)
        OBVIOUS
      <4> HIDE DEF c, d, B
      <4>3. \A j \in 1 .. d - c + 1 : SubSeq(P, c, d)[j] = P[c + j - 1]
        BY <1>18, <4>1, PieceAt
      <4> QED BY <4>1, <4>2, <4>3
    <3>3. r[i] = l[n + i]
      BY <1>1, <1>3, <3>1 DEF k
    <3> QED BY <1>10, <3>1, <3>2, <3>3
  <2> HIDE DEF B, r
  <2> QED BY <2>1, <2>2, <2>3, FlattenSingles DEF Z
<1>13. SubSeq(P, 1, n + 2) = <<P[1]>> \o A
  <2>1. 1 \in 1 .. Len(P) /\ n + 2 \in 1 .. Len(P) /\ 1 + 1 = 2
    BY <1>1, <1>3, <1>18
  <2> QED BY <1>18, <2>1, SubSeqRecursiveFirst
<1>14. /\ FlattenSeq(P) = FlattenSeq(SubSeq(P, 1, n + 2)) \o FlattenSeq(B)
  <2>1. n + 2 \in 0 .. Len(P) /\ (n + 2) + 1 = n + 3
    BY <1>1, <1>3, <1>18
  <2> QED BY <1>18, <2>1, FlattenSplit DEF Z
<1>15. FlattenSeq(SubSeq(P, 1, n + 2)) = <<" ">>
  <2> HIDE DEF A
  <2> DEFINE x == <<" ">>
             y == <<x>>
  <2>1. x \in Seq(Tokens)
    BY WrittenTokens, Short
  <2> HIDE DEF x
  <2>2. y \in Seq(Z) /\ FlattenSeq(y) = x
    BY <2>1, FlattenOne DEF Z
  <2> HIDE DEF y
  <2>3. FlattenSeq(y \o A) = FlattenSeq(y) \o FlattenSeq(A)
    BY <1>11, <2>2, FlattenBoth DEF Z
  <2>4. x \o <<>> = x
    BY <2>1, ConcatEmptySeq
  <2>5. SubSeq(P, 1, n + 2) = y \o A
    BY <1>8, <1>13 DEF x, y
  <2> QED BY <1>11, <2>2, <2>3, <2>4, <2>5 DEF x
<1>16. FlattenSeq(P) = <<" ">> \o r
  BY <1>12, <1>14, <1>15, Zenon
<1> QED BY <1>1, <1>2, <1>16 DEF P, t, Smooth

-----------------------------------------------------------------------------
(* The reply to A04, unfolded: a line for each field.                      *)

\* The lines of a field behind the first, as they are added to it.
Continued(f) ==
  [i \in 1 .. Len(f.lines) - 1 |-> <<" ">> \o WithoutLeading(Blanks, f.lines[i + 1])]

\* The value of a field in one line, and the line.
OneLine(f) == f.lines[1] \o FlattenSeq(Continued(f))
Row(f) == (<<f.name, ":">> \o OneLine(f)) \o Eol

Rows(m) == [i \in 1 .. Len(m.fields) |-> Row(m.fields[i])]

\* The reply up to the blank line, unfolded.
Lined(m) == Preamble(m) \o FlattenSeq(Rows(m))

LEMMA EolIs == Eol \in Seq(Tokens) /\ Len(Eol) = 2 /\ Eol[1] = "CR" /\ Eol[2] = "LF"
BY FrameTokens, Short DEF Eol

LEMMA BehindIs ==
  /\ BehindHeader \in Seq(Tokens) /\ Len(BehindHeader) = 8 /\ BehindHeader[1] = "CR"
  /\ \A i \in 1 .. 8 : BehindHeader[i] \notin Blanks /\ BehindHeader[i] # ":"
<1> DEFINE F == {"CR", "LF", ")", "A04 OK"}
           p == <<")">>
           t == <<"A04 OK">>
<1>1. Eol \in Seq(F) /\ p \in Seq(F) /\ t \in Seq(F)
  BY Short DEF Eol
<1>2. F \subseteq Tokens
  BY FrameTokens, TextsAssumption, Zenon DEF TextsAssumption, Announced, Paren
<1>3. \A x \in F : x \notin Blanks /\ x # ":"
  BY DEF Blanks
<1>4. Len(BehindHeader) = 8
  BY DEF BehindHeader, Eol
<1> DEFINE a == Eol \o p
           b == a \o Eol
           c == b \o t
<1>5. BehindHeader = c \o Eol
  BY DEF BehindHeader
<1>6. Len(Eol) = 2 /\ Eol[1] = "CR" /\ 1 \in 1 .. Len(Eol)
  BY DEF Eol
<1> HIDE DEF F, p, t
<1>7. a \in Seq(F) /\ 1 \in 1 .. Len(a) /\ a[1] = "CR"
  <2>1. /\ a \in Seq(F) /\ Len(p) \in Nat /\ Len(a) = Len(Eol) + Len(p)
        /\ \A i \in 1 .. Len(Eol) : a[i] = Eol[i]
    BY <1>1, Joined
  <2> QED BY <1>6, <2>1
<1> HIDE DEF a
<1>8. b \in Seq(F) /\ 1 \in 1 .. Len(b) /\ b[1] = "CR"
  <2>1. /\ b \in Seq(F) /\ Len(b) = Len(a) + Len(Eol) /\ \A i \in 1 .. Len(a) : b[i] = a[i]
    BY <1>1, <1>7, Joined
  <2> QED BY <1>6, <1>7, <2>1
<1> HIDE DEF b
<1>9. c \in Seq(F) /\ 1 \in 1 .. Len(c) /\ c[1] = "CR"
  <2>1. /\ c \in Seq(F) /\ Len(t) \in Nat /\ Len(c) = Len(b) + Len(t)
        /\ \A i \in 1 .. Len(b) : c[i] = b[i]
    BY <1>1, <1>8, Joined
  <2> QED BY <1>8, <2>1
<1> HIDE DEF c
<1>10. BehindHeader \in Seq(F) /\ BehindHeader[1] = "CR"
  <2>1. c \o Eol \in Seq(F) /\ \A i \in 1 .. Len(c) : (c \o Eol)[i] = c[i]
    BY <1>1, <1>9, Joined
  <2> QED BY <1>5, <1>9, <2>1
<1>11. BehindHeader \in Seq(Tokens)
  BY <1>2, <1>10, SeqMonotonic
<1>12. \A i \in 1 .. 8 : BehindHeader[i] \in F
  BY <1>4, <1>10, ElementOfSeq
<1> QED BY <1>3, <1>4, <1>10, <1>11, <1>12

\* Without line ends there is no fold.
LEMMA SmoothWithin ==
  ASSUME NEW t \in Seq(Tokens \ LineEnds)
  PROVE  t \in Seq(Tokens) /\ Smooth(t) = t /\ \A i \in 1 .. Len(t) : t[i] \notin LineEnds
<1>1. t \in Seq(Tokens)
  <2>1. Tokens \ LineEnds \subseteq Tokens
    OBVIOUS
  <2> QED BY <2>1, SeqMonotonic
<1>2. \A i \in 1 .. Len(t) : t[i] \notin LineEnds
  BY ElementOfSeq
<1>3. Folds(t) = {}
  <2>1. ASSUME NEW i \in Nat, i \in Folds(t) PROVE FALSE
    <3>1. 1 <= i /\ i + 2 <= Len(t) /\ t[i] = "CR" /\ Len(t) \in Nat
      BY <1>1, <2>1, FoldsIs
    <3>2. i \in 1 .. Len(t)
      BY <3>1
    <3> QED BY <1>2, <3>1, <3>2 DEF LineEnds
  <2>2. Folds(t) \in SUBSET Nat
    BY <1>1, FoldsIs
  <2> QED BY <2>1, <2>2
<1> QED BY <1>1, <1>2, <1>3, SmoothNone

\* Texts in one begin with the first of them.
LEMMA FlattenFirst ==
  ASSUME NEW S, NEW s \in Seq(Seq(S)), \A i \in 1 .. Len(s) : s[i] # <<>>
  PROVE  FlattenSeq(s) = <<>> \/ (1 \in 1 .. Len(s) /\ FlattenSeq(s)[1] = s[1][1])
<1>1. CASE s = <<>>
  BY <1>1, FlattenNone
<1>2. CASE s # <<>>
  <2>1. 1 \in 1 .. Len(s)
    BY <1>2, NotEmpty
  <2>2. s[1] \in Seq(S) /\ s[1] # <<>>
    BY <2>1, ElementOfSeq
  <2>3. 1 \in 1 .. Len(s[1])
    BY <2>2, NotEmpty
  <2>4. FlattenSeq(s)[Upto(s, 1 - 1) + 1] = s[1][1]
    BY <2>1, <2>3, FlattenAt
  <2>5. Upto(s, 1 - 1) + 1 = 1
    BY UptoEnds
  <2> QED BY <2>1, <2>4, <2>5
<1> QED BY <1>1, <1>2

\* The lines of a field, and the lines as they are added to it.
LEMMA ContinuedIs ==
  ASSUME NEW m \in HeaderBlocks, NEW j \in 1 .. Len(m.fields), NEW f, f = m.fields[j]
  PROVE  /\ Continued(f) \in Seq(Seq(Tokens \ LineEnds)) /\ Continued(f) \in Seq(Seq(Tokens))
         /\ Len(Continued(f)) = Len(f.lines) - 1
         /\ \A i \in 1 .. Len(f.lines) - 1 :
              /\ FoldedLines(f)[i] # <<>> /\ FoldedLines(f)[i][1] = "CR"
              /\ Continued(f)[i] = Smooth(FoldedLines(f)[i])
<1> DEFINE n == Len(f.lines) - 1
           w(i) == <<" ">> \o WithoutLeading(Blanks, f.lines[i + 1])
<1>1. n \in Nat /\ \A i \in 1 .. n : i + 1 \in 2 .. Len(f.lines) /\ i + 1 \in 1 .. Len(f.lines)
  BY FieldIs
<1>2. ASSUME NEW i \in 1 .. n
      PROVE  /\ w(i) \in Seq(Tokens \ LineEnds) /\ w(i) \in Seq(Tokens)
             /\ FoldedLines(f)[i] # <<>> /\ FoldedLines(f)[i][1] = "CR"
             /\ w(i) = Smooth(FoldedLines(f)[i])
  <2> DEFINE l == f.lines[i + 1]
  <2>1. l \in Seq(Tokens \ LineEnds) /\ l \in Seq(Tokens) /\ l # <<>> /\ l[1] \in Blanks
    BY <1>1, FieldIs DEF Folded
  <2> HIDE DEF l
  <2>2. WithoutLeading(Blanks, l) \in Seq(Tokens \ LineEnds)
    BY <2>1, TrimTyped
  <2>3. <<" ">> \in Seq(Tokens \ LineEnds)
    <3>1. " " \in Tokens \ LineEnds
      BY WrittenTokens DEF LineEnds
    <3> QED BY <3>1, Short
  <2>4. <<" ">> \o WithoutLeading(Blanks, l) \in Seq(Tokens \ LineEnds)
    BY <2>2, <2>3, Joined
  <2>5. \A k \in 1 .. Len(l) : l[k] \notin LineEnds
    BY <2>1, SmoothWithin
  <2>6. Eol \o l \in Seq(Tokens) /\ Smooth(Eol \o l) = <<" ">> \o WithoutLeading(Blanks, l)
    BY <2>1, <2>5, SmoothLine
  <2>7. FoldedLines(f)[i] = Eol \o l
    BY DEF FoldedLines, l
  <2>8. (Eol \o l)[1] = "CR" /\ Eol \o l # <<>>
    <3>1. /\ Eol \o l \in Seq(Tokens) /\ Len(Eol \o l) = Len(Eol) + Len(l) /\ Len(l) \in Nat
          /\ \A k \in 1 .. Len(Eol) : (Eol \o l)[k] = Eol[k]
      <4>1. Eol \in Seq(Tokens) /\ l \in Seq(Tokens)
        BY <2>1, EolIs
      <4>2. Eol \o l \in Seq(Tokens) /\ Len(Eol \o l) = Len(Eol) + Len(l) /\ Len(l) \in Nat
        BY <4>1, Joined
      <4>3. \A k \in 1 .. Len(Eol) : (Eol \o l)[k] = Eol[k]
        BY <4>1, Joined
      <4> QED BY <4>2, <4>3
    <3> QED BY <3>1, EolIs
  <2>9. <<" ">> \o WithoutLeading(Blanks, l) \in Seq(Tokens)
    BY <2>4, SmoothWithin
  <2> QED BY <2>4, <2>6, <2>7, <2>8, <2>9 DEF l
<1>3. Continued(f) = [i \in 1 .. n |-> w(i)]
  BY DEF Continued
<1> HIDE DEF n, w
<1> DEFINE Z == Seq(Tokens)
           Y == Seq(Tokens \ LineEnds)
<1>4. [i \in 1 .. n |-> w(i)] \in Seq(Z) /\ [i \in 1 .. n |-> w(i)] \in Seq(Y)
  <2>1. \A i \in 1 .. n : w(i) \in Z /\ w(i) \in Y
    BY <1>2
  <2> HIDE DEF Z, Y
  <2> QED BY <1>1, <2>1
<1>5. Len([i \in 1 .. n |-> w(i)]) = n /\ \A i \in 1 .. n : [k \in 1 .. n |-> w(k)][i] = w(i)
  BY <1>1
<1> QED BY <1>2, <1>3, <1>4, <1>5 DEF n

\* The value in one line has no line end.
LEMMA OneLineTyped ==
  ASSUME NEW m \in HeaderBlocks, NEW j \in 1 .. Len(m.fields), NEW f, f = m.fields[j]
  PROVE  OneLine(f) \in Seq(Tokens \ LineEnds)
<1>1. FlattenSeq(Continued(f)) \in Seq(Tokens \ LineEnds)
  BY ContinuedIs, FlattenTyped
<1>2. f.lines[1] \in Seq(Tokens \ LineEnds)
  BY FieldIs
<1> QED BY <1>1, <1>2, Joined DEF OneLine

\* A field is unfolded to its line.
LEMMA RowIs ==
  ASSUME NEW m \in HeaderBlocks, NEW j \in 1 .. Len(m.fields), NEW f, f = m.fields[j]
  PROVE  /\ FieldText(f) \in Seq(Tokens) /\ FieldText(f) # <<>> /\ FieldText(f)[1] = f.name
         /\ Row(f) \in Seq(Tokens) /\ Smooth(FieldText(f)) = Row(f)
<1> DEFINE h == <<f.name, ":">>
           l == f.lines[1]
           x == FlattenSeq(FoldedLines(f))
           y == FlattenSeq(Continued(f))
<1>1. /\ h \in Seq(Tokens) /\ Len(h) = 2 /\ h[1] = f.name
      /\ FieldText(f) = ((h \o l) \o x) \o Eol /\ FieldText(f) \in Seq(Tokens)
      /\ l \in Seq(Tokens) /\ l \in Seq(Tokens \ LineEnds)
  <2>1. h \in Seq(Tokens) /\ FieldText(f) = ((h \o l) \o x) \o Eol /\ FieldText(f) \in Seq(Tokens)
    BY FieldTyped
  <2>2. Len(h) = 2 /\ h[1] = f.name
    OBVIOUS
  <2>3. l \in Seq(Tokens) /\ l \in Seq(Tokens \ LineEnds)
    BY FieldIs
  <2> QED BY <2>1, <2>2, <2>3
<1>2. h \in Seq(Tokens \ LineEnds)
  <2>1. f.name \in Tokens \ LineEnds /\ ":" \in Tokens \ LineEnds
    BY FieldIs, WrittenTokens DEF LineEnds
  <2> QED BY <2>1, Short
<1>3. Row(f) = (h \o (l \o y)) \o Eol
  BY DEF Row, OneLine
<1> HIDE DEF h, l
<1>4. h \o l \in Seq(Tokens) /\ Smooth(h \o l) = h \o l
  <2>1. h \o l \in Seq(Tokens \ LineEnds)
    BY <1>1, <1>2, Joined
  <2> QED BY <2>1, SmoothWithin
<1>5. x \in Seq(Tokens) /\ y \in Seq(Tokens) /\ Smooth(x) = y
      /\ (x = <<>> \/ (x[1] \notin Blanks /\ x[1] # "LF"))
  <2> DEFINE s == FoldedLines(f)
             u == Continued(f)
  <2>1. /\ s \in Seq(Seq(Tokens)) /\ Len(s) = Len(f.lines) - 1
        /\ u \in Seq(Seq(Tokens)) /\ Len(u) = Len(f.lines) - 1
    BY FieldTyped, ContinuedIs
  <2>2. \A i \in 1 .. Len(s) : s[i] # <<>> /\ s[i][1] = "CR" /\ u[i] = Smooth(s[i])
    BY <2>1, ContinuedIs
  <2>3. "CR" \notin Blanks /\ "CR" # "LF"
    BY DEF Blanks
  <2> HIDE DEF s, u
  <2>4. Smooth(FlattenSeq(s)) = FlattenSeq(u)
    BY <2>1, <2>2, <2>3, SmoothAll
  <2>5. FlattenSeq(s) = <<>> \/ (1 \in 1 .. Len(s) /\ FlattenSeq(s)[1] = s[1][1])
    BY <2>1, <2>2, FlattenFirst
  <2>6. FlattenSeq(s) \in Seq(Tokens) /\ FlattenSeq(u) \in Seq(Tokens)
    BY <2>1, FlattenTyped
  <2>7. FlattenSeq(s) = <<>> \/ FlattenSeq(s)[1] = "CR"
    BY <2>2, <2>5
  <2> QED BY <2>3, <2>4, <2>6, <2>7 DEF s, u
<1> HIDE DEF x, y
<1>6. Smooth((h \o l) \o x) = (h \o l) \o y /\ (h \o l) \o x \in Seq(Tokens)
  <2>1. Smooth((h \o l) \o x) = Smooth(h \o l) \o Smooth(x)
    BY <1>4, <1>5, SmoothJoined
  <2> QED BY <1>4, <1>5, <2>1, Joined
<1>7. Smooth(((h \o l) \o x) \o Eol) = ((h \o l) \o y) \o Eol
  <2>1. Smooth(Eol) = Eol
    <3>1. Folds(Eol) = {}
      BY EolIs DEF Folds, FoldsBefore
    <3> QED BY <3>1, EolIs, SmoothNone
  <2>2. Eol[1] \notin Blanks /\ Eol[1] # "LF"
    BY EolIs DEF Blanks
  <2>3. Smooth(((h \o l) \o x) \o Eol) = Smooth((h \o l) \o x) \o Smooth(Eol)
    BY <1>6, <2>2, EolIs, SmoothJoined
  <2> QED BY <1>6, <2>1, <2>3, Zenon
<1>8. (h \o l) \o y = h \o (l \o y)
  <2>1. h \in Texts /\ l \in Texts /\ y \in Texts
    BY <1>1, <1>5 DEF Texts
  <2> QED BY <2>1, Associates DEF Cat
<1>9. Row(f) \in Seq(Tokens)
  <2>1. (h \o l) \o y \in Seq(Tokens)
    BY <1>4, <1>5, Joined
  <2>2. ((h \o l) \o y) \o Eol \in Seq(Tokens)
    BY <2>1, EolIs, Joined
  <2> QED BY <1>3, <1>8, <2>2, Zenon
<1>10. FieldText(f) # <<>> /\ FieldText(f)[1] = f.name
  <2> DEFINE a == h \o l
             b == a \o x
             c == b \o Eol
  <2>1. Len(a) \in Nat /\ 1 <= Len(a) /\ a[1] = f.name
    <3>1. /\ Len(l) \in Nat /\ Len(a) = Len(h) + Len(l)
          /\ \A i \in 1 .. Len(h) : a[i] = h[i]
      <4>1. h \in Seq(Tokens) /\ l \in Seq(Tokens)
        BY <1>1
      <4> HIDE DEF h, l
      <4>2. Len(l) \in Nat /\ Len(h \o l) = Len(h) + Len(l)
        BY <4>1, Joined
      <4>3. \A i \in 1 .. Len(h) : (h \o l)[i] = h[i]
        BY <4>1, Joined
      <4> QED BY <4>2, <4>3
    <3> QED BY <1>1, <3>1
  <2> HIDE DEF a
  <2>2. b \in Seq(Tokens) /\ Len(b) \in Nat /\ 1 <= Len(b) /\ b[1] = f.name
    <3>1. a \in Seq(Tokens)
      BY <1>4 DEF a
    <3>2. /\ b \in Seq(Tokens) /\ Len(x) \in Nat /\ Len(b) = Len(a) + Len(x)
          /\ \A i \in 1 .. Len(a) : b[i] = a[i]
      BY <1>5, <3>1, Joined
    <3> QED BY <2>1, <3>2
  <2> HIDE DEF b
  <2>3. Len(c) \in Nat /\ 1 <= Len(c) /\ c[1] = f.name
    <3>1. /\ c \in Seq(Tokens) /\ Len(c) = Len(b) + Len(Eol)
          /\ \A i \in 1 .. Len(b) : c[i] = b[i]
      <4>1. b \in Seq(Tokens) /\ Eol \in Seq(Tokens)
        BY <2>2, EolIs
      <4>2. b \o Eol \in Seq(Tokens) /\ Len(b \o Eol) = Len(b) + Len(Eol)
        BY <4>1, Joined
      <4>3. \A i \in 1 .. Len(b) : (b \o Eol)[i] = b[i]
        BY <4>1, Joined
      <4> QED BY <4>2, <4>3
    <3> QED BY <2>2, <3>1, EolIs
  <2>4. FieldText(f) = c
    BY <1>1 DEF a, b
  <2> HIDE DEF c
  <2> QED BY <2>3, <2>4
<1> QED BY <1>1, <1>3, <1>7, <1>8, <1>9, <1>10, Zenon

LEMMA PreambleIs ==
  ASSUME NEW m \in HeaderBlocks, NEW a, a = Len(m.ahead)
  PROVE  /\ Preamble(m) \in Seq(Tokens) /\ a \in Nat /\ Len(Preamble(m)) = a + 3
         /\ \A i \in 1 .. a : Preamble(m)[i] = m.ahead[i]
         /\ Preamble(m)[a + 1] = "* FETCH" /\ Preamble(m)[a + 2] = "CR" /\ Preamble(m)[a + 3] = "LF"
<1> DEFINE h == m.ahead
           u == h \o <<"* FETCH">>
           v == u \o <<"CR", "LF">>
<1>1. h \in Seq(Tokens) /\ {"* FETCH", "CR", "LF"} \subseteq Tokens
  BY BlockIs, FrameTokens DEF Announced
<1>2. Preamble(m) = v
  BY DEF Preamble, Eol
<1>3. a = Len(h)
  OBVIOUS
<1> HIDE DEF h
<1>4. /\ u \in Seq(Tokens) /\ a \in Nat /\ Len(u) = a + 1
      /\ \A i \in 1 .. a : u[i] = h[i]
      /\ u[a + 1] = "* FETCH"
  <2>1. /\ u \in Seq(Tokens) /\ Len(h) \in Nat /\ Len(u) = Len(h) + 1
        /\ \A i \in 1 .. Len(h) : u[i] = h[i]
        /\ u[Len(h) + 1] = "* FETCH"
    BY <1>1, JoinedOne
  <2> HIDE DEF u
  <2> QED BY <1>3, <2>1
<1> HIDE DEF u
<1>5. /\ v \in Seq(Tokens) /\ Len(v) = Len(u) + 2
      /\ \A i \in 1 .. Len(u) : v[i] = u[i]
      /\ v[Len(u) + 1] = "CR" /\ v[Len(u) + 2] = "LF"
  <2>1. u \in Seq(Tokens) /\ "CR" \in Tokens /\ "LF" \in Tokens
    BY <1>1, <1>4
  <2> QED BY <2>1, JoinedTwo
<1> HIDE DEF v
<1>6. /\ Len(v) = a + 3
      /\ \A i \in 1 .. a : v[i] = h[i]
      /\ v[a + 1] = "* FETCH" /\ v[a + 2] = "CR" /\ v[a + 3] = "LF"
  <2>0. a \in Nat /\ Len(u) = a + 1
    BY <1>4
  <2>1. a + 1 \in 1 .. Len(u) /\ Len(u) + 1 = a + 2 /\ Len(u) + 2 = a + 3 /\ \A i \in 1 .. a : i \in 1 .. Len(u)
    BY <2>0
  <2> QED BY <1>4, <1>5, <2>1
<1> QED BY <1>2, <1>4, <1>5, <1>6 DEF h

\* A line end in what is before the fields is the last token, or has * FETCH after it.
LEMMA PreambleEnds ==
  ASSUME NEW m \in HeaderBlocks, NEW i \in 1 .. Len(Preamble(m)), Preamble(m)[i] = "LF"
  PROVE  i = Len(Preamble(m)) \/ Preamble(m)[i + 1] = "* FETCH"
<1> DEFINE a == Len(m.ahead)
           p == Preamble(m)
<1>1. /\ p \in Seq(Tokens) /\ a \in Nat /\ Len(p) = a + 3
      /\ \A k \in 1 .. a : p[k] = m.ahead[k]
      /\ p[a + 1] = "* FETCH" /\ p[a + 2] = "CR" /\ p[a + 3] = "LF"
  BY PreambleIs
<1>2. \A k \in 1 .. a : m.ahead[k] = "LF" => k = a
  BY BlockIs DEF RestOfLine
<1>3. p[i] = "LF" /\ i \in 1 .. a + 3
  BY <1>1
<1> HIDE DEF a, p
<1>4. CASE i <= a
  <2>1. i = a
    <3>0. i \in 1 .. a
      <4>1. a \in Nat /\ i \in 1 .. a + 3
        BY <1>1, <1>3
      <4> QED BY <1>4, <4>1
    <3>1. i \in 1 .. a /\ p[i] = m.ahead[i]
      BY <1>1, <3>0
    <3> QED BY <1>2, <1>3, <3>1
  <2>2. p[i + 1] = "* FETCH"
    BY <1>1, <2>1
  <2> QED BY <2>2 DEF p
<1>5. CASE i > a
  <2>0. a \in Nat /\ i \in 1 .. a + 3
    BY <1>1, <1>3
  <2>1. i = a + 3
    <3>1. i = a + 1 \/ i = a + 2 \/ i = a + 3
      BY <1>5, <2>0
    <3>2. p[a + 1] # "LF" /\ p[a + 2] # "LF"
      BY <1>1
    <3> QED BY <1>3, <3>1, <3>2
  <2>2. i = Len(p)
    BY <1>1, <2>1
  <2> QED BY <2>2 DEF p
<1>6. a \in Nat /\ i \in 1 .. a + 3
  BY <1>1, <1>3
<1>7. i <= a \/ i > a
  BY <1>6
<1> QED BY <1>4, <1>5, <1>7

LEMMA RowsTyped ==
  ASSUME NEW m \in HeaderBlocks
  PROVE  /\ Rows(m) \in Seq(Seq(Tokens)) /\ Len(Rows(m)) = Len(m.fields) /\ Len(m.fields) \in Nat
         /\ \A j \in 1 .. Len(m.fields) : Rows(m)[j] = Row(m.fields[j])
         /\ FlattenSeq(Rows(m)) \in Seq(Tokens) /\ Lined(m) \in Seq(Tokens)
<1> DEFINE n == Len(m.fields)
           w(i) == Row(m.fields[i])
           Z == Seq(Tokens)
<1>1. n \in Nat /\ \A i \in 1 .. n : w(i) \in Z
  BY BlockIs, RowIs
<1>2. Rows(m) = [i \in 1 .. n |-> w(i)]
  BY DEF Rows
<1> HIDE DEF n, w
<1>3. [i \in 1 .. n |-> w(i)] \in Seq(Z) /\ Len([i \in 1 .. n |-> w(i)]) = n
      /\ \A j \in 1 .. n : [i \in 1 .. n |-> w(i)][j] = w(j)
  <2> HIDE DEF Z
  <2> QED BY <1>1
<1>4. FlattenSeq(Rows(m)) \in Seq(Tokens)
  BY <1>2, <1>3, FlattenTyped
<1>5. Lined(m) \in Seq(Tokens)
  BY <1>4, PreambleIs, Joined DEF Lined
<1> QED BY <1>1, <1>2, <1>3, <1>4, <1>5 DEF n, w

\* The header is unfolded to its lines.
LEMMA HeaderSmooth ==
  ASSUME NEW m \in HeaderBlocks
  PROVE  Smooth(HeaderText(m)) = Lined(m)
<1> DEFINE p == Preamble(m)
           s == FieldTexts(m)
           u == Rows(m)
<1>1. p \in Seq(Tokens) /\ Smooth(p) = p
  <2>1. Folds(p) = {}
    <3>1. ASSUME NEW i \in Nat, i \in Folds(p) PROVE FALSE
      <4>1. 1 <= i /\ i + 2 <= Len(p) /\ p[i + 1] = "LF" /\ p[i + 2] \in Blanks /\ Len(p) \in Nat
        <5>1. p \in Seq(Tokens)
          BY PreambleIs
        <5> HIDE DEF p
        <5> QED BY <3>1, <5>1, FoldsIs
      <4>2. i + 1 \in 1 .. Len(p) /\ i + 1 # Len(p) /\ (i + 1) + 1 = i + 2
        BY <4>1
      <4>3. p[i + 2] = "* FETCH"
        BY <4>1, <4>2, PreambleEnds
      <4> QED BY <4>1, <4>3 DEF Blanks
    <3>2. Folds(p) \in SUBSET Nat
      BY PreambleIs, FoldsIs
    <3> QED BY <3>1, <3>2
  <2>2. p \in Seq(Tokens)
    BY PreambleIs
  <2> HIDE DEF p
  <2> QED BY <2>1, <2>2, SmoothNone
<1>2. /\ s \in Seq(Seq(Tokens)) /\ Len(s) = Len(m.fields)
      /\ u \in Seq(Seq(Tokens)) /\ Len(u) = Len(m.fields)
  BY FieldTextsTyped, RowsTyped
<1>3. \A i \in 1 .. Len(m.fields) :
        s[i] # <<>> /\ s[i][1] \notin Blanks /\ s[i][1] # "LF" /\ u[i] = Smooth(s[i])
  <2> SUFFICES ASSUME NEW i \in 1 .. Len(m.fields)
      PROVE s[i] # <<>> /\ s[i][1] \notin Blanks /\ s[i][1] # "LF" /\ u[i] = Smooth(s[i])
    OBVIOUS
  <2>1. s[i] = FieldText(m.fields[i]) /\ u[i] = Row(m.fields[i])
    BY DEF FieldTexts, Rows
  <2>2. FieldText(m.fields[i]) # <<>> /\ FieldText(m.fields[i])[1] = m.fields[i].name
        /\ Smooth(FieldText(m.fields[i])) = Row(m.fields[i])
    BY RowIs
  <2>3. m.fields[i].name \notin Blanks /\ m.fields[i].name # "LF"
    BY FieldIs DEF LineEnds
  <2> HIDE DEF s, u
  <2> QED BY <2>1, <2>2, <2>3
<1> HIDE DEF s, u, p
<1>4. Smooth(FlattenSeq(s)) = FlattenSeq(u)
  BY <1>2, <1>3, SmoothAll
<1>5. FlattenSeq(s) = <<>> \/ (1 \in 1 .. Len(s) /\ FlattenSeq(s)[1] = s[1][1])
  BY <1>2, <1>3, FlattenFirst
<1>6. FlattenSeq(s) = <<>> \/ (FlattenSeq(s)[1] \notin Blanks /\ FlattenSeq(s)[1] # "LF")
  BY <1>2, <1>3, <1>5
<1>7. FlattenSeq(s) \in Seq(Tokens)
  BY <1>2, FlattenTyped
<1>8. Smooth(p \o FlattenSeq(s)) = Smooth(p) \o Smooth(FlattenSeq(s))
  BY <1>1, <1>6, <1>7, SmoothJoined
<1> QED BY <1>1, <1>4, <1>8 DEF p, s, u, HeaderText, Lined

\* No fold goes beyond the header.
LEMMA ReplySmooth ==
  ASSUME NEW m \in HeaderBlocks
  PROVE  /\ Pieces(HeaderReply(m)) = Pieces(HeaderText(m)) \o Pieces(BehindHeader)
         /\ Smooth(HeaderReply(m)) = Lined(m) \o BehindHeader
         /\ \A i \in Folds(HeaderReply(m)) : i \in Nat /\ i + 2 <= Len(HeaderText(m))
<1> DEFINE h == HeaderText(m)
           b == BehindHeader
           r == HeaderReply(m)
<1>1. h \in Seq(Tokens) /\ r = h \o b /\ r \in Seq(Tokens)
  BY HeaderReplyIs
<1>2. b \in Seq(Tokens) /\ Len(b) = 8 /\ b[1] = "CR" /\ \A i \in 1 .. 8 : b[i] \notin Blanks
  BY BehindIs
<1>3. Smooth(h) = Lined(m)
  BY HeaderSmooth
<1> HIDE DEF h, b, r
<1>4. b[1] \notin Blanks /\ b[1] # "LF"
  BY <1>2
<1>5. Pieces(h \o b) = Pieces(h) \o Pieces(b) /\ Smooth(h \o b) = Smooth(h) \o Smooth(b)
  BY <1>1, <1>2, <1>4, PiecesJoined, SmoothJoined
<1>6. /\ Len(h) \in Nat /\ Len(r) = Len(h) + 8
      /\ \A i \in 1 .. 8 : r[Len(h) + i] = b[i]
  <2>1. /\ Len(h) \in Nat /\ Len(h \o b) = Len(h) + Len(b)
        /\ \A i \in 1 .. Len(b) : (h \o b)[Len(h) + i] = b[i]
    <3>1. h \in Seq(Tokens) /\ b \in Seq(Tokens)
      BY <1>1, <1>2
    <3> QED BY <3>1, Joined
  <2> QED BY <1>1, <1>2, <2>1
<1>7. ASSUME NEW i \in Nat, i \in Folds(r) PROVE i + 2 <= Len(h)
  <2>1. i + 2 <= Len(r) /\ r[i + 2] \in Blanks
    BY <1>1, <1>7, FoldsIs
  <2> SUFFICES ASSUME ~(i + 2 <= Len(h)) PROVE FALSE
    OBVIOUS
  <2>2. i + 2 - Len(h) \in 1 .. 8 /\ Len(h) + (i + 2 - Len(h)) = i + 2
    BY <1>6, <2>1
  <2>3. r[i + 2] = b[i + 2 - Len(h)]
    BY <1>6, <2>2
  <2> QED BY <1>2, <2>1, <2>2, <2>3
<1>8. Folds(r) \in SUBSET Nat
  BY <1>1, FoldsIs
<1>9. Smooth(b) = b
  <2>1. ASSUME NEW i \in Nat, i \in Folds(b) PROVE FALSE
    <3>1. 1 <= i /\ i + 2 <= 8 /\ b[i + 2] \in Blanks
      BY <1>2, <2>1, FoldsIs
    <3> QED BY <1>2, <3>1
  <2>2. Folds(b) \in SUBSET Nat
    BY <1>2, FoldsIs
  <2>3. Folds(b) = {}
    BY <2>1, <2>2
  <2> QED BY <1>2, <2>3, SmoothNone
<1>10. Pieces(r) = Pieces(h) \o Pieces(b)
  BY <1>1, <1>5, Zenon
<1>11. Smooth(r) = Lined(m) \o b
  BY <1>1, <1>3, <1>5, <1>9, Zenon
<1> QED BY <1>7, <1>8, <1>10, <1>11 DEF h, b, r

-----------------------------------------------------------------------------
(* A text that was read up to place n, unfolded.                           *)

\* The first k places become what they become in the whole text r, and the others are
\* the rest of a line end.
LEMMA CutPieces ==
  ASSUME NEW r \in Seq(Tokens), NEW n \in 0 .. Len(r), NEW k \in 0 .. n,
         \A f \in Folds(r) : f <= k => f + 2 <= n,
         k + 2 >= n, \A i \in k + 1 .. n : r[i] \in LineEnds,
         NEW t, t = SubSeq(r, 1, n)
  PROVE  /\ t \in Seq(Tokens) /\ Len(t) = n
         /\ \A i \in 1 .. k : Pieces(t)[i] = Pieces(r)[i]
         /\ \A i \in k + 1 .. n : Pieces(t)[i] \in Seq(LineEnds)
<1>1. Len(r) \in Nat /\ n \in Nat /\ k \in Nat /\ n <= Len(r) /\ k <= n
  OBVIOUS
<1>2. t \in Seq(Tokens) /\ Len(t) = n /\ \A i \in 1 .. n : t[i] = r[i]
  <2>1. t \in Seq(Tokens) /\ Len(t) = n
    BY <1>1, Piece
  <2>2. \A i \in 1 .. n : t[i] = r[i]
    BY <1>1
  <2> QED BY <2>1, <2>2
<1>3. /\ \A i \in Nat : i \in Folds(t) <=> /\ 1 <= i /\ i + 2 <= n
                                           /\ t[i] = "CR" /\ t[i + 1] = "LF" /\ t[i + 2] \in Blanks
      /\ Folds(t) \in SUBSET Nat
  <2>1. /\ \A i \in Nat : i \in Folds(t) <=> /\ 1 <= i /\ i + 2 <= Len(t)
                                             /\ t[i] = "CR" /\ t[i + 1] = "LF" /\ t[i + 2] \in Blanks
        /\ Folds(t) \in SUBSET Nat
    BY <1>2, FoldsIs
  <2> QED BY <1>2, <2>1
<1>4. /\ \A i \in Nat : i \in Folds(r) <=> /\ 1 <= i /\ i + 2 <= Len(r)
                                           /\ r[i] = "CR" /\ r[i + 1] = "LF" /\ r[i + 2] \in Blanks
      /\ Folds(r) \in SUBSET Nat
  BY FoldsIs
<1>5. ASSUME NEW i \in Nat PROVE i \in Folds(t) <=> i \in Folds(r) /\ i + 2 <= n
  <2>1. CASE 1 <= i /\ i + 2 <= n
    <3>1. i \in 1 .. n /\ i + 1 \in 1 .. n /\ i + 2 \in 1 .. n /\ i + 2 <= Len(r)
      BY <1>1, <2>1
    <3>2. t[i] = r[i] /\ t[i + 1] = r[i + 1] /\ t[i + 2] = r[i + 2]
      BY <1>2, <3>1
    <3> QED BY <1>3, <1>4, <2>1, <3>1, <3>2
  <2>2. CASE ~(1 <= i /\ i + 2 <= n)
    BY <1>3, <1>4, <2>2
  <2> QED BY <2>1, <2>2
<1>6. ASSUME NEW i \in 1 .. k PROVE /\ i \in Folds(t) <=> i \in Folds(r)
                                    /\ FoldedAway(Folds(t), t, i) <=> FoldedAway(Folds(r), r, i)
  <2>1. i \in Nat /\ i <= k /\ i \in 1 .. n
    BY <1>1
  <2>2. ASSUME NEW f \in Nat, f <= i PROVE f \in Folds(t) <=> f \in Folds(r)
    <3>1. f <= k
      BY <1>1, <2>1, <2>2
    <3> QED BY <1>5, <3>1
  <2>3. ASSUME NEW f \in Nat
        PROVE  (\A q \in f + 2 .. i : t[q] \in Blanks) <=> (\A q \in f + 2 .. i : r[q] \in Blanks)
    <3>1. \A q \in f + 2 .. i : q \in 1 .. n
      BY <1>1, <2>1
    <3>2. \A q \in f + 2 .. i : t[q] = r[q]
      BY <1>2, <3>1
    <3> QED BY <3>2
  <2>4. i \in Folds(t) <=> i \in Folds(r)
    BY <2>1, <2>2
  <2>5. FoldedAway(Folds(t), t, i) <=> FoldedAway(Folds(r), r, i)
    BY <1>3, <1>4, <2>2, <2>3 DEF FoldedAway
  <2> QED BY <2>4, <2>5
<1>7. \A i \in 1 .. n : Pieces(t)[i] = Unfolded(Folds(t), <<" ">>, t, i)
  BY <1>2, PiecesTyped
<1>8. \A i \in 1 .. Len(r) : Pieces(r)[i] = Unfolded(Folds(r), <<" ">>, r, i)
  BY PiecesTyped
<1>9. ASSUME NEW i \in 1 .. k PROVE Pieces(t)[i] = Pieces(r)[i]
  <2>1. i \in 1 .. n /\ i \in 1 .. Len(r)
    BY <1>1
  <2>2. t[i] = r[i] /\ Pieces(t)[i] = Unfolded(Folds(t), <<" ">>, t, i)
        /\ Pieces(r)[i] = Unfolded(Folds(r), <<" ">>, r, i)
    BY <1>2, <1>7, <1>8, <2>1
  <2> QED BY <1>6, <2>2, Zenon DEF Unfolded
<1>10. ASSUME NEW i \in k + 1 .. n PROVE Pieces(t)[i] \in Seq(LineEnds)
  <2>1. i \in Nat /\ i \in 1 .. n /\ ~(i + 2 <= n)
    BY <1>1
  <2>2. i \notin Folds(t)
    BY <1>5, <2>1
  <2>3. t[i] \in LineEnds
    BY <1>2, <2>1
  <2>4. <<>> \in Seq(LineEnds) /\ <<t[i]>> \in Seq(LineEnds)
    BY <2>3, Short, EmptySeq
  <2>5. Pieces(t)[i] = Unfolded(Folds(t), <<" ">>, t, i)
    BY <1>7, <2>1
  <2> QED BY <2>2, <2>4, <2>5 DEF Unfolded
<1> QED BY <1>2, <1>9, <1>10

\* When t is r up to place n, as many tokens of Smooth(t) are those of Smooth(r) as there
\* are before place k + 1 of r, and line ends follow; with no fold behind n, all are.
KeptTo(r, n, t, k) ==
  /\ Upto(Pieces(r), k) \in Nat /\ Upto(Pieces(r), k) <= Len(Smooth(t))
  /\ \A i \in 1 .. Upto(Pieces(r), k) : Smooth(t)[i] = Smooth(r)[i]
  /\ \A i \in Upto(Pieces(r), k) + 1 .. Len(Smooth(t)) : Smooth(t)[i] \in LineEnds
  /\ (\A f \in Folds(r) : f + 2 <= n) => k = n

LEMMA CutSmooth ==
  ASSUME NEW r \in Seq(Tokens), NEW n \in 0 .. Len(r), NEW t, t = SubSeq(r, 1, n)
  PROVE  \E k \in 0 .. n : KeptTo(r, n, t, k)
<1>1. Len(r) \in Nat /\ n \in Nat /\ n <= Len(r)
  OBVIOUS
<1>2. /\ \A i \in Nat : i \in Folds(r) <=> /\ 1 <= i /\ i + 2 <= Len(r)
                                           /\ r[i] = "CR" /\ r[i + 1] = "LF" /\ r[i + 2] \in Blanks
      /\ Folds(r) \in SUBSET Nat
  BY FoldsIs
<1>3. PICK k \in 0 .. n :
        /\ \A f \in Folds(r) : f <= k => f + 2 <= n
        /\ k + 2 >= n /\ \A i \in k + 1 .. n : r[i] \in LineEnds
        /\ (\A f \in Folds(r) : f + 2 <= n) => k = n
  <2>1. CASE n \in Folds(r)
    <3>1. 1 <= n /\ r[n] = "CR"
      BY <1>1, <1>2, <2>1
    <3>2. n - 1 \notin Folds(r)
      <4>1. CASE n = 1
        BY <1>2, <4>1
      <4>2. CASE n # 1
        <5>1. n - 1 \in Nat /\ (n - 1) + 1 = n
          BY <1>1, <3>1
        <5>2. n - 1 \in Folds(r) => r[(n - 1) + 1] = "LF"
          BY <1>2, <5>1
        <5> QED BY <3>1, <5>1, <5>2
      <4> QED BY <4>1, <4>2
    <3>3. ASSUME NEW f \in Folds(r), f <= n - 1 PROVE f + 2 <= n
      BY <1>1, <1>2, <3>2, <3>3
    <3>4. \A i \in (n - 1) + 1 .. n : r[i] \in LineEnds
      BY <1>1, <3>1 DEF LineEnds
    <3>5. ~\A f \in Folds(r) : f + 2 <= n
      BY <1>1, <2>1
    <3>6. n - 1 \in 0 .. n /\ (n - 1) + 2 >= n
      BY <1>1, <3>1
    <3> QED BY <3>3, <3>4, <3>5, <3>6
  <2>2. CASE n \notin Folds(r) /\ n - 1 \in Folds(r)
    <3>1. 1 <= n - 1 /\ r[n - 1] = "CR" /\ r[n] = "LF"
      <4>1. n - 1 \in Nat /\ (n - 1) + 1 = n
        BY <1>1, <1>2, <2>2
      <4> QED BY <1>2, <2>2, <4>1
    <3>2. ASSUME NEW f \in Folds(r), f <= n - 2 PROVE f + 2 <= n
      BY <1>1, <1>2, <3>2
    <3>3. \A i \in (n - 2) + 1 .. n : r[i] \in LineEnds
      <4>1. \A i \in (n - 2) + 1 .. n : i = n - 1 \/ i = n
        BY <1>1
      <4> QED BY <3>1, <4>1 DEF LineEnds
    <3>4. ~\A f \in Folds(r) : f + 2 <= n
      BY <1>1, <2>2
    <3>5. n - 2 \in 0 .. n /\ (n - 2) + 2 >= n
      BY <1>1, <3>1
    <3> QED BY <3>2, <3>3, <3>4, <3>5
  <2>3. CASE n \notin Folds(r) /\ n - 1 \notin Folds(r)
    <3>1. ASSUME NEW f \in Folds(r), f <= n PROVE f + 2 <= n
      BY <1>1, <1>2, <2>3, <3>1
    <3>2. n \in 0 .. n /\ n + 2 >= n /\ \A i \in n + 1 .. n : r[i] \in LineEnds
      BY <1>1
    <3> QED BY <3>1, <3>2
  <2> QED BY <2>1, <2>2, <2>3
<1>4. /\ t \in Seq(Tokens) /\ Len(t) = n
      /\ \A i \in 1 .. k : Pieces(t)[i] = Pieces(r)[i]
      /\ \A i \in k + 1 .. n : Pieces(t)[i] \in Seq(LineEnds)
  BY <1>3, CutPieces
<1> DEFINE P == Pieces(t)
           R == Pieces(r)
           Z == Seq(Tokens)
           Y == Seq(LineEnds)
           a == FlattenSeq(SubSeq(P, 1, k))
           b == FlattenSeq(SubSeq(P, k + 1, n))
<1>5. P \in Seq(Z) /\ Len(P) = n /\ R \in Seq(Z) /\ Len(R) = Len(r)
  BY <1>4, PiecesTyped
<1>6. k \in Nat /\ k <= n /\ k \in 0 .. Len(r)
  BY <1>1
<1>7. Smooth(t) = FlattenSeq(P) /\ Smooth(r) = FlattenSeq(R)
  BY DEF Smooth
<1> HIDE DEF P, R
<1>8. SubSeq(P, 1, k) = SubSeq(R, 1, k)
  <2> HIDE DEF Z
  <2>1. \A i \in 1 .. k : P[i] = R[i]
    BY <1>4 DEF P, R
  <2>2. SubSeq(P, 1, k) \in Seq(Z) /\ Len(SubSeq(P, 1, k)) = k
        /\ SubSeq(R, 1, k) \in Seq(Z) /\ Len(SubSeq(R, 1, k)) = k
    BY <1>1, <1>5, <1>6, Piece
  <2>3. \A i \in 1 .. k : SubSeq(P, 1, k)[i] = P[i] /\ SubSeq(R, 1, k)[i] = R[i]
    BY <1>1, <1>5, <1>6
  <2> QED BY <2>1, <2>2, <2>3, SeqEqual
<1>9. /\ a \in Seq(Tokens) /\ b \in Seq(Tokens) /\ FlattenSeq(P) = a \o b
  <2>1. k \in 0 .. Len(P)
    BY <1>1, <1>5, <1>6
  <2>2. Len(P) = n
    BY <1>5
  <2> QED BY <1>5, <2>1, <2>2, FlattenSplit DEF a, b, Z
<1>10. b \in Seq(LineEnds)
  <2> HIDE DEF Z, Y
  <2> DEFINE B == SubSeq(P, k + 1, n)
  <2>1. B \in Seq(Z) /\ Len(B) = n - k
    BY <1>1, <1>5, <1>6, Piece
  <2>2. \A i \in 1 .. n - k : B[i] = P[k + i]
    BY <1>1, <1>5, <1>6
  <2>3. ASSUME NEW i \in 1 .. n - k PROVE B[i] \in Y
    <3>1. k + i \in k + 1 .. n
      BY <1>1, <1>6
    <3>2. P[k + i] \in Y
      BY <1>4, <3>1 DEF P, Y
    <3> QED BY <2>2, <3>2
  <2> HIDE DEF B
  <2>4. B \in Seq(Y)
    <3> DEFINE d == n - k
    <3>1. d \in Nat /\ Len(B) = d /\ \A i \in 1 .. d : B[i] \in Y
      BY <1>1, <1>6, <2>1, <2>3
    <3> HIDE DEF d
    <3>2. B = [i \in 1 .. d |-> B[i]]
      BY <2>1, <3>1, LenProperties
    <3>3. [i \in 1 .. d |-> B[i]] \in Seq(Y)
      BY <3>1
    <3> QED BY <3>2, <3>3
  <2> QED BY <2>4, FlattenTyped DEF Y, B, b
<1>11. Upto(R, k) = Len(a)
  BY <1>8, Zenon DEF Upto
<1>12. \A i \in 1 .. Len(a) : FlattenSeq(R)[i] = a[i]
  <2> DEFINE c == FlattenSeq(SubSeq(R, k + 1, Len(R)))
  <2>1. k \in 0 .. Len(R)
    BY <1>5, <1>6
  <2>2. c \in Seq(Tokens) /\ FlattenSeq(R) = FlattenSeq(SubSeq(R, 1, k)) \o c
    BY <1>5, <2>1, FlattenSplit DEF Z
  <2>3. FlattenSeq(R) = a \o c
    BY <1>8, <2>2
  <2> HIDE DEF a, c
  <2> QED BY <1>9, <2>2, <2>3, Joined
<1> HIDE DEF a, b
<1>13. /\ Len(a) \in Nat /\ Len(b) \in Nat /\ Len(a \o b) = Len(a) + Len(b)
       /\ \A i \in 1 .. Len(a) : (a \o b)[i] = a[i]
       /\ \A i \in 1 .. Len(b) : (a \o b)[Len(a) + i] = b[i]
  BY <1>9, Joined
<1>14. ASSUME NEW i \in Len(a) + 1 .. Len(a \o b) PROVE (a \o b)[i] \in LineEnds
  <2> DEFINE j == i - Len(a)
  <2>1. j \in 1 .. Len(b) /\ Len(a) + j = i
    BY <1>13
  <2> HIDE DEF j
  <2>2. (a \o b)[Len(a) + j] = b[j] /\ b[j] \in LineEnds
    BY <1>10, <1>13, <2>1, ElementOfSeq
  <2> QED BY <2>1, <2>2
<1>15. /\ Len(a) \in Nat /\ Len(a) <= Len(a \o b)
       /\ \A i \in 1 .. Len(a) : (a \o b)[i] = FlattenSeq(R)[i]
       /\ \A i \in Len(a) + 1 .. Len(a \o b) : (a \o b)[i] \in LineEnds
  BY <1>12, <1>13, <1>14
<1>16. KeptTo(r, n, t, k)
  BY <1>3, <1>7, <1>9, <1>11, <1>15 DEF R, KeptTo
<1> QED BY <1>16

-----------------------------------------------------------------------------
(* Where the lines of the fields are.                                      *)

\* The places in the unfolded header of the name of field j, and behind its value.
Place(m, j) == Len(Preamble(m)) + Upto(Rows(m), j - 1) + 1
EndOfRow(m, j) == Place(m, j) + 2 + Len(OneLine(m.fields[j]))

\* The header is the preamble and the lines.
LEMMA LinedParts ==
  ASSUME NEW m \in HeaderBlocks, NEW a, a = Preamble(m), NEW g, g = FlattenSeq(Rows(m)),
         NEW t, t = Lined(m)
  PROVE  /\ a \in Seq(Tokens) /\ g \in Seq(Tokens) /\ t \in Seq(Tokens)
         /\ Len(a) \in Nat /\ Len(g) \in Nat /\ Len(t) = Len(a) + Len(g)
         /\ \A i \in 1 .. Len(a) : t[i] = a[i]
         /\ \A i \in 1 .. Len(g) : t[Len(a) + i] = g[i]
<1>1. a \in Seq(Tokens)
  BY PreambleIs
<1>2. g \in Seq(Tokens)
  BY RowsTyped
<1>3. t = a \o g
  BY DEF Lined
<1> QED BY <1>1, <1>2, <1>3, Joined

\* The tokens of a line.
LEMMA RowAt ==
  ASSUME NEW m \in HeaderBlocks, NEW j \in 1 .. Len(m.fields), NEW f, f = m.fields[j],
         NEW v, v = OneLine(f), NEW u, u = Row(f)
  PROVE  /\ u \in Seq(Tokens) /\ Len(v) \in Nat /\ Len(u) = Len(v) + 4
         /\ u[1] = f.name /\ u[2] = ":"
         /\ \A i \in 1 .. Len(v) : u[i + 2] = v[i]
         /\ u[Len(v) + 3] = "CR" /\ u[Len(v) + 4] = "LF"
<1> DEFINE h == <<f.name, ":">>
           x == h \o v
           k == Len(v)
<1>1. h \in Seq(Tokens)
  BY FieldTyped
<1>2. Len(h) = 2 /\ h[1] = f.name /\ h[2] = ":"
  OBVIOUS
<1>3. v \in Seq(Tokens) /\ u = x \o <<"CR", "LF">>
  BY OneLineTyped, SmoothWithin DEF Row, Eol
<1> HIDE DEF h
<1>4. /\ x \in Seq(Tokens) /\ k \in Nat /\ Len(x) = Len(h) + k
      /\ \A i \in 1 .. Len(h) : x[i] = h[i]
      /\ \A i \in 1 .. k : x[Len(h) + i] = v[i]
  BY <1>1, <1>3, Joined
<1> HIDE DEF x
<1>5. "CR" \in Tokens /\ "LF" \in Tokens
  BY FrameTokens
<1>6. /\ u \in Seq(Tokens) /\ Len(u) = Len(x) + 2
      /\ \A i \in 1 .. Len(x) : u[i] = x[i]
      /\ u[Len(x) + 1] = "CR" /\ u[Len(x) + 2] = "LF"
  BY <1>3, <1>4, <1>5, JoinedTwo
<1> HIDE DEF k
<1>7. k \in Nat /\ Len(x) = 2 + k /\ Len(u) = Len(x) + 2 /\ Len(h) = 2
  BY <1>2, <1>4, <1>6
<1>8. /\ 1 \in 1 .. Len(x) /\ 2 \in 1 .. Len(x) /\ 1 \in 1 .. Len(h) /\ 2 \in 1 .. Len(h)
      /\ Len(u) = k + 4 /\ Len(x) + 1 = k + 3 /\ Len(x) + 2 = k + 4
      /\ \A i \in 1 .. k : i + 2 = Len(h) + i /\ i + 2 \in 1 .. Len(x)
  BY <1>7
<1>9. u[1] = f.name /\ u[2] = ":"
  BY <1>2, <1>4, <1>6, <1>8
<1>10. \A i \in 1 .. k : u[i + 2] = v[i]
  BY <1>4, <1>6, <1>8
<1>11. u[k + 3] = "CR" /\ u[k + 4] = "LF"
  BY <1>6, <1>8
<1> QED BY <1>6, <1>7, <1>8, <1>9, <1>10, <1>11 DEF k

\* Where they are in the header.
LEMMA PlaceIs ==
  ASSUME NEW m \in HeaderBlocks, NEW j \in 1 .. Len(m.fields), NEW f, f = m.fields[j],
         NEW v, v = OneLine(f), NEW p, p = Place(m, j), NEW t, t = Lined(m)
  PROVE  /\ p \in Nat /\ Len(v) \in Nat /\ Len(Preamble(m)) < p /\ EndOfRow(m, j) = p + 2 + Len(v)
         /\ EndOfRow(m, j) + 1 <= Len(t) /\ Place(m, j + 1) = EndOfRow(m, j) + 2
         /\ t[p] = f.name /\ t[p + 1] = ":"
         /\ \A i \in 1 .. Len(v) : t[p + 1 + i] = v[i]
         /\ t[EndOfRow(m, j)] = "CR" /\ t[EndOfRow(m, j) + 1] = "LF"
<1> DEFINE a == Preamble(m)
           s == Rows(m)
           g == FlattenSeq(s)
           u == Row(f)
           n == Upto(s, j - 1)
           k == Len(v)
           Z == Seq(Tokens)
<1>1. s \in Seq(Z) /\ Len(s) = Len(m.fields) /\ s[j] = u /\ g \in Seq(Tokens)
  BY RowsTyped
<1>2. a \in Seq(Tokens)
  BY PreambleIs
<1>3. /\ u \in Seq(Tokens) /\ Len(v) \in Nat /\ Len(u) = Len(v) + 4 /\ u[1] = f.name /\ u[2] = ":"
      /\ \A i \in 1 .. Len(v) : u[i + 2] = v[i]
      /\ u[Len(v) + 3] = "CR" /\ u[Len(v) + 4] = "LF"
  BY RowAt
<1>4. t = a \o g
  BY DEF Lined
<1>4a. /\ k \in Nat /\ Len(u) = k + 4
       /\ \A i \in 1 .. k : u[i + 2] = v[i]
       /\ u[k + 3] = "CR" /\ u[k + 4] = "LF"
  BY <1>3
<1> HIDE DEF a, s, g, u, k
<1>5. j \in 1 .. Len(s)
  BY <1>1
<1>6. n \in Nat /\ Upto(s, j) = n + Len(u) /\ Upto(s, j) <= Len(g)
      /\ \A i \in 1 .. Len(u) : g[n + i] = u[i]
  <2>1. Upto(s, j - 1) \in Nat /\ Upto(s, j) = Upto(s, j - 1) + Len(s[j])
    BY <1>1, <1>5, UptoNext
  <2>2. Upto(s, j) <= Len(FlattenSeq(s))
        /\ \A i \in 1 .. Len(s[j]) : FlattenSeq(s)[Upto(s, j - 1) + i] = s[j][i]
    BY <1>1, <1>5, FlattenAt
  <2> QED BY <1>1, <2>1, <2>2 DEF g
<1> HIDE DEF n
<1>7. /\ Len(a) \in Nat /\ Len(g) \in Nat /\ Len(t) = Len(a) + Len(g)
      /\ \A i \in 1 .. Len(g) : t[Len(a) + i] = g[i]
  BY <1>1, <1>2, <1>4, Joined
<1>8. p = Len(a) + n + 1
  BY DEF Place, a, n, s
<1>9. EndOfRow(m, j) = p + 2 + k
  BY DEF EndOfRow, k
<1>10. Place(m, j + 1) = Len(a) + Upto(s, j) + 1
  <2>1. (j + 1) - 1 = j
    OBVIOUS
  <2> QED BY <2>1 DEF Place, a, s
<1>11. Len(a) \in Nat /\ Len(g) \in Nat /\ n \in Nat /\ k \in Nat /\ Len(u) = k + 4
       /\ Upto(s, j) = n + (k + 4) /\ n + (k + 4) <= Len(g) /\ Len(t) = Len(a) + Len(g)
  BY <1>4a, <1>6, <1>7
<1>12. /\ p \in Nat /\ Len(a) < p /\ EndOfRow(m, j) + 1 <= Len(t)
       /\ Place(m, j + 1) = EndOfRow(m, j) + 2
  <2> DEFINE x == Len(a)
             y == Len(g)
             z == Upto(s, j)
             w == Place(m, j + 1)
             e == EndOfRow(m, j)
             l == Len(t)
  <2>1. x \in Nat /\ y \in Nat /\ n \in Nat /\ k \in Nat
        /\ z = n + (k + 4) /\ n + (k + 4) <= y /\ l = x + y
    BY <1>11
  <2>2. p = x + n + 1 /\ e = p + 2 + k /\ w = x + z + 1
    BY <1>8, <1>9, <1>10
  <2> HIDE DEF x, y, z, w, e, l
  <2>3. p \in Nat /\ x < p /\ e + 1 <= l /\ w = e + 2
    BY <2>1, <2>2, SMTT(30)
  <2> QED BY <2>3 DEF x, y, z, w, e, l
<1>13. ASSUME NEW i \in 1 .. k + 4 PROVE t[p + i - 1] = u[i]
  <2>1. n + i \in 1 .. Len(g) /\ Len(a) + (n + i) = p + i - 1 /\ i \in 1 .. Len(u)
    BY <1>8, <1>11
  <2> QED BY <1>6, <1>7, <2>1
<1>14. /\ 1 \in 1 .. k + 4 /\ 2 \in 1 .. k + 4 /\ k + 3 \in 1 .. k + 4 /\ k + 4 \in 1 .. k + 4
       /\ p + 1 - 1 = p /\ p + 2 - 1 = p + 1 /\ p + (k + 3) - 1 = p + 2 + k
       /\ p + (k + 4) - 1 = (p + 2 + k) + 1
       /\ \A i \in 1 .. k : i + 2 \in 1 .. k + 4 /\ p + (i + 2) - 1 = p + 1 + i
  BY <1>11, <1>12
<1>15. t[p] = f.name /\ t[p + 1] = ":"
  <2>1. t[p + 1 - 1] = u[1] /\ t[p + 2 - 1] = u[2]
    BY <1>13, <1>14
  <2> QED BY <1>3, <1>14, <2>1
<1>16. t[EndOfRow(m, j)] = "CR" /\ t[EndOfRow(m, j) + 1] = "LF"
  <2>1. t[p + (k + 3) - 1] = u[k + 3] /\ t[p + (k + 4) - 1] = u[k + 4]
    BY <1>13, <1>14
  <2> QED BY <1>4a, <1>9, <1>14, <2>1
<1>17. ASSUME NEW i \in 1 .. k PROVE t[p + 1 + i] = v[i]
  <2>1. t[p + (i + 2) - 1] = u[i + 2]
    BY <1>13, <1>14
  <2> QED BY <1>4a, <1>14, <2>1
<1> QED BY <1>9, <1>11, <1>12, <1>15, <1>16, <1>17 DEF a, k

\* The same without names.
LEMMA PlaceHas ==
  ASSUME NEW m \in HeaderBlocks, NEW j \in 1 .. Len(m.fields)
  PROVE  /\ Place(m, j) \in Nat /\ Len(OneLine(m.fields[j])) \in Nat /\ Len(Preamble(m)) < Place(m, j)
         /\ EndOfRow(m, j) = Place(m, j) + 2 + Len(OneLine(m.fields[j]))
         /\ EndOfRow(m, j) + 1 <= Len(Lined(m)) /\ Place(m, j + 1) = EndOfRow(m, j) + 2
         /\ Lined(m)[Place(m, j)] = m.fields[j].name /\ Lined(m)[Place(m, j) + 1] = ":"
         /\ \A i \in 1 .. Len(OneLine(m.fields[j])) :
              Lined(m)[Place(m, j) + 1 + i] = OneLine(m.fields[j])[i]
         /\ Lined(m)[EndOfRow(m, j)] = "CR" /\ Lined(m)[EndOfRow(m, j) + 1] = "LF"
<1>1. Place(m, j) \in Nat
  BY PlaceIs
<1>2. Len(OneLine(m.fields[j])) \in Nat /\ Len(Preamble(m)) < Place(m, j)
  BY PlaceIs
<1>3. EndOfRow(m, j) = Place(m, j) + 2 + Len(OneLine(m.fields[j]))
  BY PlaceIs
<1>4. EndOfRow(m, j) + 1 <= Len(Lined(m)) /\ Place(m, j + 1) = EndOfRow(m, j) + 2
  BY PlaceIs
<1>5. Lined(m)[Place(m, j)] = m.fields[j].name /\ Lined(m)[Place(m, j) + 1] = ":"
  BY PlaceIs, SMTT(30)
<1>6. \A i \in 1 .. Len(OneLine(m.fields[j])) : Lined(m)[Place(m, j) + 1 + i] = OneLine(m.fields[j])[i]
  BY PlaceIs
<1>7. Lined(m)[EndOfRow(m, j)] = "CR"
  BY PlaceIs
<1>8. Lined(m)[EndOfRow(m, j) + 1] = "LF"
  BY PlaceIs
<1> QED BY <1>1, <1>2, <1>3, <1>4, <1>5, <1>6, <1>7, <1>8

\* The lines follow each other to the end of the header.
LEMMA PlacesGrow ==
  ASSUME NEW m \in HeaderBlocks
  PROVE  /\ \A i \in 1 .. Len(m.fields) : \A j \in i + 1 .. Len(m.fields) : EndOfRow(m, i) + 2 <= Place(m, j)
         /\ Place(m, 1) = Len(Preamble(m)) + 1
         /\ Place(m, Len(m.fields) + 1) = Len(Lined(m)) + 1
<1> DEFINE s == Rows(m)
           N == Len(m.fields)
           a == Len(Preamble(m))
           Z == Seq(Tokens)
<1>1. s \in Seq(Z) /\ Len(s) = N /\ N \in Nat
  BY RowsTyped
<1>2. a \in Nat /\ Len(Lined(m)) = a + Len(FlattenSeq(s))
  BY LinedParts
<1>3. Upto(s, 0) = 0 /\ Upto(s, N) = Len(FlattenSeq(s))
  BY <1>1, UptoEnds
<1>4. ASSUME NEW i \in 1 .. N, NEW j \in i + 1 .. N PROVE EndOfRow(m, i) + 2 <= Place(m, j)
  <2>1. Place(m, i + 1) = EndOfRow(m, i) + 2
    BY PlaceIs
  <2>2. i \in 0 .. Len(s) /\ j - 1 \in i .. Len(s) /\ (i + 1) - 1 = i
    BY <1>1
  <2>3. Upto(s, i) \in Nat /\ Upto(s, j - 1) \in Nat /\ Upto(s, i) <= Upto(s, j - 1)
    BY <1>1, <2>2, UptoGrows
  <2>4. Place(m, i + 1) = a + Upto(s, i) + 1 /\ Place(m, j) = a + Upto(s, j - 1) + 1
    BY <2>2 DEF Place
  <2> QED BY <1>2, <2>1, <2>3, <2>4
<1>5. Place(m, 1) = a + 1
  <2>1. 1 - 1 = 0
    OBVIOUS
  <2>2. Place(m, 1) = a + Upto(s, 0) + 1
    BY <2>1 DEF Place
  <2> QED BY <1>2, <1>3, <2>2
<1>6. Place(m, N + 1) = Len(Lined(m)) + 1
  <2>1. (N + 1) - 1 = N
    BY <1>1
  <2>2. Place(m, N + 1) = a + Upto(s, N) + 1
    BY <2>1 DEF Place
  <2> QED BY <1>2, <1>3, <2>2
<1> QED BY <1>4, <1>5, <1>6

\* Each place behind the preamble is in a line.
LEMMA PlaceWhere ==
  ASSUME NEW m \in HeaderBlocks, NEW p \in Len(Preamble(m)) + 1 .. Len(Lined(m))
  PROVE  \E j \in 1 .. Len(m.fields) : Place(m, j) <= p /\ p <= EndOfRow(m, j) + 1
<1> DEFINE s == Rows(m)
           N == Len(m.fields)
           a == Len(Preamble(m))
           Z == Seq(Tokens)
<1>1. s \in Seq(Z) /\ Len(s) = N /\ N \in Nat
  BY RowsTyped
<1>2. a \in Nat /\ Len(Lined(m)) = a + Len(FlattenSeq(s)) /\ Len(FlattenSeq(s)) \in Nat
  BY LinedParts
<1>3. p - a \in 1 .. Len(FlattenSeq(s)) /\ p \in Nat
  <2> DEFINE l == Len(FlattenSeq(s))
             w == Len(Lined(m))
  <2>1. a \in Nat /\ l \in Nat /\ w = a + l /\ p \in a + 1 .. w
    BY <1>2
  <2> HIDE DEF a, l, w
  <2>2. p - a \in 1 .. l /\ p \in Nat
    BY <2>1
  <2> QED BY <2>2 DEF l
<1>4. PICK j \in 1 .. N : Upto(s, j - 1) < p - a /\ p - a <= Upto(s, j)
  <2> HIDE DEF s, a
  <2>1. \E j \in 1 .. Len(s) : Upto(s, j - 1) < p - a /\ p - a <= Upto(s, j)
    BY <1>1, <1>3, FlattenWhere
  <2> QED BY <1>1, <2>1
<1>5. Place(m, j) = a + Upto(s, j - 1) + 1 /\ Place(m, j + 1) = EndOfRow(m, j) + 2
  <2>1. Place(m, j + 1) = EndOfRow(m, j) + 2
    BY PlaceIs
  <2> QED BY <2>1 DEF Place
<1>6. Place(m, j + 1) = a + Upto(s, j) + 1
  <2>1. (j + 1) - 1 = j
    BY <1>1
  <2> QED BY <2>1 DEF Place
<1>7. Place(m, j) \in Nat /\ EndOfRow(m, j) = Place(m, j) + 2 + Len(OneLine(m.fields[j]))
      /\ Len(OneLine(m.fields[j])) \in Nat
  BY PlaceIs
<1>8. Upto(s, j - 1) \in Nat /\ Upto(s, j) \in Nat
  <2>1. j \in 1 .. Len(s)
    BY <1>1
  <2> HIDE DEF s, Z
  <2> QED BY <1>1, <2>1, UptoNext DEF Z
<1> DEFINE x == Upto(s, j - 1)
           y == Upto(s, j)
           w == Place(m, j)
           z == Place(m, j + 1)
           l == Len(OneLine(m.fields[j]))
           e == EndOfRow(m, j)
<1>9. /\ a \in Nat /\ p \in Nat /\ x \in Nat /\ y \in Nat /\ w \in Nat /\ l \in Nat
      /\ x < p - a /\ p - a <= y /\ w = a + x + 1 /\ z = e + 2 /\ z = a + y + 1 /\ e = w + 2 + l
  BY <1>2, <1>3, <1>4, <1>5, <1>6, <1>7, <1>8
<1> HIDE DEF a, x, y, w, z, l, e
<1>10. w <= p /\ p <= e + 1
  BY <1>9
<1> QED BY <1>10 DEF w, e
\* There is no line end in a line.
LEMMA RowInside ==
  ASSUME NEW m \in HeaderBlocks, NEW j \in 1 .. Len(m.fields), NEW p \in Nat,
         Place(m, j) <= p, p < EndOfRow(m, j)
  PROVE  /\ Lined(m)[p] \notin LineEnds
         /\ p = Place(m, j) \/ p = Place(m, j) + 1
            \/ \E i \in 1 .. Len(OneLine(m.fields[j])) : p = Place(m, j) + 1 + i
<1> DEFINE f == m.fields[j]
           v == OneLine(f)
           s == Place(m, j)
           t == Lined(m)
           k == Len(v)
           e == EndOfRow(m, j)
<1>1. /\ s \in Nat /\ k \in Nat /\ e = s + 2 + k
      /\ t[s] = f.name /\ t[s + 1] = ":" /\ \A i \in 1 .. k : t[s + 1 + i] = v[i]
  <2>1. /\ Place(m, j) \in Nat /\ Len(OneLine(m.fields[j])) \in Nat
        /\ EndOfRow(m, j) = Place(m, j) + 2 + Len(OneLine(m.fields[j]))
        /\ Lined(m)[Place(m, j)] = m.fields[j].name /\ Lined(m)[Place(m, j) + 1] = ":"
        /\ \A i \in 1 .. Len(OneLine(m.fields[j])) :
             Lined(m)[Place(m, j) + 1 + i] = OneLine(m.fields[j])[i]
    BY PlaceHas
  <2> QED BY <2>1
<1>2. f.name \notin LineEnds
  BY FieldIs
<1>3. \A i \in 1 .. k : v[i] \notin LineEnds
  BY OneLineTyped, SmoothWithin
<1>4. s <= p /\ p < e
  OBVIOUS
<1> HIDE DEF f, v, s, t, k, e
<1>5. CASE p = s
  BY <1>1, <1>2, <1>5 DEF t, s
<1>6. CASE p = s + 1
  BY <1>1, <1>6 DEF LineEnds, t, s
<1>7. CASE p # s /\ p # s + 1
  <2>1. p - s - 1 \in 1 .. k /\ p = s + 1 + (p - s - 1)
    BY <1>1, <1>4, <1>7
  <2>2. t[p] \notin LineEnds
    BY <1>1, <1>3, <2>1
  <2>3. \E i \in 1 .. k : p = s + 1 + i
    BY <2>1
  <2> QED BY <2>2, <2>3 DEF t, s, k, v, f
<1> QED BY <1>5, <1>6, <1>7

\* Behind each line end in the header is another line, or the announcement.
LEMMA LinedEnds ==
  ASSUME NEW m \in HeaderBlocks, NEW i \in 1 .. Len(Lined(m)), Lined(m)[i] = "LF"
  PROVE  \/ i = Len(Lined(m))
         \/ i < Len(Preamble(m)) /\ Lined(m)[i + 1] = "* FETCH"
         \/ \E j \in 1 .. Len(m.fields) : i + 1 = Place(m, j)
<1> DEFINE a == Len(Preamble(m))
           l == Len(Lined(m))
           t == Lined(m)
           N == Len(m.fields)
<1>1. a \in Nat /\ l \in Nat /\ a <= l /\ \A k \in 1 .. a : t[k] = Preamble(m)[k]
  <2>1. Len(Preamble(m)) \in Nat /\ Len(FlattenSeq(Rows(m))) \in Nat
        /\ Len(Lined(m)) = Len(Preamble(m)) + Len(FlattenSeq(Rows(m)))
        /\ \A k \in 1 .. Len(Preamble(m)) : Lined(m)[k] = Preamble(m)[k]
    BY LinedParts
  <2> QED BY <2>1
<1>2. Place(m, 1) = a + 1 /\ Place(m, N + 1) = l + 1
  BY PlacesGrow
<1>3. N \in Nat
  BY BlockIs
<1>4. i \in 1 .. l /\ t[i] = "LF"
  OBVIOUS
<1>5. ASSUME NEW k \in 1 .. N + 1, i + 1 = Place(m, k)
      PROVE  i = l \/ \E j \in 1 .. N : i + 1 = Place(m, j)
  <2>1. CASE k = N + 1
    <3>1. i + 1 = l + 1
      BY <1>2, <1>5, <2>1
    <3> HIDE DEF l
    <3> QED BY <1>1, <1>4, <3>1
  <2>2. CASE k # N + 1
    <3>1. k \in 1 .. N
      BY <1>3, <2>2
    <3> QED BY <1>5, <3>1
  <2> QED BY <2>1, <2>2
<1>6. CASE i <= a
  <2>1. i \in 1 .. a
    <3> HIDE DEF a, l
    <3> QED BY <1>1, <1>4, <1>6
  <2>2. Preamble(m)[i] = "LF"
    BY <1>1, <1>4, <2>1
  <2>3. i = a \/ Preamble(m)[i + 1] = "* FETCH"
    BY <2>1, <2>2, PreambleEnds
  <2>4. CASE i = a
    <3>1. 1 \in 1 .. N + 1
      BY <1>3
    <3> QED BY <1>2, <1>5, <2>4, <3>1
  <2>5. CASE i # a
    <3>1. i < a /\ i + 1 \in 1 .. a
      <4> HIDE DEF a, l
      <4> QED BY <1>1, <2>1, <2>5
    <3>2. t[i + 1] = Preamble(m)[i + 1]
      BY <1>1, <3>1
    <3> QED BY <2>3, <2>5, <3>1, <3>2
  <2> QED BY <2>4, <2>5
<1>7. CASE ~(i <= a)
  <2>1. i \in a + 1 .. l
    <3> HIDE DEF a, l
    <3> QED BY <1>1, <1>4, <1>7
  <2>2. PICK j \in 1 .. N : Place(m, j) <= i /\ i <= EndOfRow(m, j) + 1
    BY <2>1, PlaceWhere
  <2>3. /\ Place(m, j) \in Nat /\ Len(OneLine(m.fields[j])) \in Nat
        /\ EndOfRow(m, j) = Place(m, j) + 2 + Len(OneLine(m.fields[j]))
        /\ t[EndOfRow(m, j)] = "CR"
        /\ Place(m, j + 1) = EndOfRow(m, j) + 2
    BY PlaceIs
  <2>4. ~(i < EndOfRow(m, j))
    <3> SUFFICES ASSUME i < EndOfRow(m, j) PROVE FALSE
      OBVIOUS
    <3>1. i \in Nat
      BY <1>4
    <3>2. t[i] \notin LineEnds
      BY <2>2, <3>1, RowInside
    <3> QED BY <1>4, <3>2 DEF LineEnds
  <2>5. i # EndOfRow(m, j)
    BY <1>4, <2>3
  <2> DEFINE e == EndOfRow(m, j)
             x == Place(m, j)
             y == Len(OneLine(m.fields[j]))
  <2>6. i \in Nat /\ x \in Nat /\ y \in Nat /\ e = x + 2 + y /\ i <= e + 1 /\ ~(i < e) /\ i # e
    BY <1>4, <2>2, <2>3, <2>4, <2>5
  <2>7. i + 1 = e + 2
    <3> HIDE DEF e, x, y
    <3> QED BY <2>6
  <2>8. i + 1 = Place(m, j + 1) /\ j + 1 \in 1 .. N + 1
    BY <1>3, <2>3, <2>7
  <2> QED BY <1>5, <2>8
<1>8. i <= a \/ ~(i <= a)
  OBVIOUS
<1> QED BY <1>6, <1>7
-----------------------------------------------------------------------------
(* Where the header ends.                                                  *)

\* The last tokens of the text of a field.
LEMMA FieldEnds ==
  ASSUME NEW m \in HeaderBlocks, NEW j \in 1 .. Len(m.fields), NEW u, u = FieldText(m.fields[j])
  PROVE  /\ u \in Seq(Tokens) /\ Len(u) \in Nat /\ 2 <= Len(u)
         /\ u[Len(u) - 1] = "CR" /\ u[Len(u)] = "LF"
<1> DEFINE f == m.fields[j]
           x == (<<f.name, ":">> \o f.lines[1]) \o FlattenSeq(FoldedLines(f))
<1>1. /\ <<f.name, ":">> \in Seq(Tokens) /\ FoldedLines(f) \in Seq(Seq(Tokens))
      /\ u = x \o Eol
  BY FieldTyped
<1>2. f.lines[1] \in Seq(Tokens)
  <2>1. 1 <= Len(f.lines) /\ Len(f.lines) \in Nat /\ \A i \in 1 .. Len(f.lines) : f.lines[i] \in Seq(Tokens)
    BY FieldIs
  <2> QED BY <2>1
<1>3. x \in Seq(Tokens)
  <2>1. <<f.name, ":">> \o f.lines[1] \in Seq(Tokens)
    BY <1>1, <1>2, Joined
  <2>2. FlattenSeq(FoldedLines(f)) \in Seq(Tokens)
    BY <1>1, FlattenTyped
  <2> QED BY <2>1, <2>2, Joined
<1>4. u = x \o <<"CR", "LF">>
  BY <1>1 DEF Eol
<1>5. "CR" \in Tokens /\ "LF" \in Tokens
  BY FrameTokens
<1> HIDE DEF x, f
<1>6. /\ u \in Seq(Tokens) /\ Len(x) \in Nat /\ Len(u) = Len(x) + 2
      /\ u[Len(x) + 1] = "CR" /\ u[Len(x) + 2] = "LF"
  BY <1>3, <1>4, <1>5, JoinedTwo
<1>7. Len(u) \in Nat /\ 2 <= Len(u) /\ Len(u) - 1 = Len(x) + 1
  BY <1>6
<1> QED BY <1>6, <1>7

\* The last tokens of a text that ends with another.
LEMMA EndsWith ==
  ASSUME NEW a \in Seq(Tokens), NEW b \in Seq(Tokens), 2 <= Len(b),
         NEW c, c = a \o b
  PROVE  /\ Len(c) \in Nat /\ 2 <= Len(c)
         /\ c[Len(c) - 1] = b[Len(b) - 1] /\ c[Len(c)] = b[Len(b)]
<1>1. /\ Len(a) \in Nat /\ Len(b) \in Nat /\ Len(c) = Len(a) + Len(b)
      /\ \A i \in 1 .. Len(b) : c[Len(a) + i] = b[i]
  BY Joined
<1>2. /\ Len(b) - 1 \in 1 .. Len(b) /\ Len(b) \in 1 .. Len(b)
      /\ Len(c) - 1 = Len(a) + (Len(b) - 1) /\ Len(c) \in Nat /\ 2 <= Len(c)
  BY <1>1
<1> QED BY <1>1, <1>2

\* The header ends with a line end.
LEMMA HeaderEnds ==
  ASSUME NEW m \in HeaderBlocks, NEW h, h = HeaderText(m)
  PROVE  /\ h \in Seq(Tokens) /\ Len(h) \in Nat /\ 2 <= Len(h)
         /\ h[Len(h) - 1] = "CR" /\ h[Len(h)] = "LF"
<1> DEFINE p == Preamble(m)
           s == FieldTexts(m)
           g == FlattenSeq(s)
           N == Len(m.fields)
<1>1. p \in Seq(Tokens) /\ Len(p) \in Nat /\ 2 <= Len(p) /\ p[Len(p) - 1] = "CR" /\ p[Len(p)] = "LF"
  <2> DEFINE a == Len(m.ahead)
  <2>1. p \in Seq(Tokens) /\ a \in Nat /\ Len(p) = a + 3 /\ p[a + 2] = "CR" /\ p[a + 3] = "LF"
    BY PreambleIs
  <2> HIDE DEF a, p
  <2>2. Len(p) \in Nat /\ 2 <= Len(p) /\ Len(p) - 1 = a + 2
    BY <2>1
  <2> QED BY <2>1, <2>2
<1>2. g \in Seq(Tokens) /\ h \in Seq(Tokens)
  BY HeaderReplyIs
<1>3. h = p \o g
  BY DEF HeaderText
<1>4. s \in Seq(Seq(Tokens)) /\ Len(s) = N /\ N \in Nat
  BY FieldTextsTyped, BlockIs
<1>5. \A i \in 1 .. N : s[i] = FieldText(m.fields[i])
  BY DEF FieldTexts
<1>6. CASE N = 0
  <2>1. g = <<>>
    <3>1. s = <<>>
      <4> HIDE DEF s, N
      <4> QED BY <1>4, <1>6
    <3> QED BY <3>1, FlattenNone
  <2>2. h = p
    <3> HIDE DEF p, g
    <3> QED BY <1>1, <1>3, <2>1
  <2> QED BY <1>1, <1>2, <2>2
<1>7. CASE N # 0
  <2> DEFINE u == s[N]
  <2>1. N \in 1 .. N /\ N \in 1 .. Len(s) /\ N = Len(s)
    BY <1>4, <1>7
  <2>2. /\ u \in Seq(Tokens) /\ Len(u) \in Nat /\ 2 <= Len(u)
        /\ u[Len(u) - 1] = "CR" /\ u[Len(u)] = "LF"
    BY <1>5, <2>1, FieldEnds
  <2> HIDE DEF s, N
  <2>3. /\ Upto(s, N - 1) \in Nat /\ Upto(s, N) = Upto(s, N - 1) + Len(u)
    BY <1>4, <2>1, UptoNext
  <2>4. \A i \in 1 .. Len(u) : g[Upto(s, N - 1) + i] = u[i]
    BY <1>4, <2>1, FlattenAt
  <2>5. Upto(s, N) = Len(g)
    BY <1>4, <2>1, UptoEnds
  <2> DEFINE k == Upto(s, N - 1)
  <2>6. Len(u) - 1 \in 1 .. Len(u) /\ Len(u) \in 1 .. Len(u) /\ 2 <= Len(g)
        /\ k + (Len(u) - 1) = Len(g) - 1 /\ k + Len(u) = Len(g)
    <3>1. k \in Nat /\ Len(g) = k + Len(u) /\ Len(u) \in Nat /\ 2 <= Len(u)
      BY <2>2, <2>3, <2>5
    <3> HIDE DEF k, u, g
    <3> QED BY <3>1
  <2>7. g[Len(g) - 1] = "CR" /\ g[Len(g)] = "LF"
    BY <2>2, <2>4, <2>6
  <2> HIDE DEF g, p
  <2>8. /\ Len(h) \in Nat /\ 2 <= Len(h)
        /\ h[Len(h) - 1] = g[Len(g) - 1] /\ h[Len(h)] = g[Len(g)]
    BY <1>1, <1>2, <1>3, <2>6, EndsWith
  <2> QED BY <1>2, <2>7, <2>8
<1> QED BY <1>6, <1>7

\* There is no empty line in the header.
LEMMA NoBlankLine ==
  ASSUME NEW m \in HeaderBlocks, NEW h, h = HeaderText(m), NEW i \in Nat, 1 <= i, i + 2 <= Len(h),
         h[i] = "CR", h[i + 1] = "LF"
  PROVE  h[i + 2] # "CR"
<1> SUFFICES ASSUME h[i + 2] = "CR" PROVE FALSE
  OBVIOUS
<1> DEFINE s == Pieces(h)
           F == Folds(h)
           t == Lined(m)
<1>1. h \in Seq(Tokens) /\ Len(h) \in Nat
  BY HeaderEnds
<1>2. i + 1 \in Nat /\ i + 2 \in Nat /\ i + 1 \in 1 .. Len(h) /\ i + 2 \in 1 .. Len(h)
  BY <1>1
<1>3. /\ F \in SUBSET Nat
      /\ \A f \in Nat : f \in F => h[f] = "CR" /\ h[f + 1] = "LF" /\ h[f + 2] \in Blanks
  BY <1>1, FoldsIs
<1>4. s \in Seq(Seq(Tokens)) /\ Len(s) = Len(h) /\ \A k \in 1 .. Len(h) : s[k] = Unfolded(F, <<" ">>, h, k)
  BY <1>1, PiecesTyped
<1>4a. s \in Seq(Seq(Tokens)) /\ Len(s) = Len(h)
  BY <1>4
<1>5. t = FlattenSeq(s)
  BY HeaderSmooth DEF Smooth
<1>6. i \notin F /\ i + 1 \notin F
  BY <1>2, <1>3 DEF Blanks
<1> HIDE DEF F, s, t
<1>7. ~FoldedAway(F, h, i + 1) /\ (i + 2 \notin F => ~FoldedAway(F, h, i + 2))
  <2>1. ASSUME NEW f \in F, NEW e \in {i + 1, i + 2}, f <= e, e \notin F,
               \A k \in f + 2 .. e : h[k] \in Blanks
        PROVE  FALSE
    <3>1. f \in Nat /\ f # i /\ f # i + 1 /\ f # e
      BY <1>3, <1>6, <2>1
    <3>2. e \in f + 2 .. e
      BY <2>1, <3>1
    <3>3. h[e] \notin Blanks
      BY DEF Blanks
    <3> QED BY <2>1, <3>2, <3>3
  <2> QED BY <1>6, <2>1 DEF FoldedAway
<1>8. s[i + 1] = <<"LF">>
  <2>1. s[i + 1] = <<h[i + 1]>>
    BY <1>2, <1>4, <1>6, <1>7 DEF Unfolded
  <2> QED BY <2>1
<1>9. s[i + 2] = <<"CR">> \/ s[i + 2] = <<" ">>
  <2>1. s[i + 2] = <<h[i + 2]>> \/ s[i + 2] = <<" ">>
    BY <1>2, <1>4, <1>7 DEF Unfolded
  <2> QED BY <2>1
<1> DEFINE a == Upto(s, i)
           x == s[i + 1]
           y == s[i + 2]
<1>10. i + 1 \in 1 .. Len(s) /\ i + 2 \in 1 .. Len(s) /\ (i + 1) - 1 = i /\ (i + 2) - 1 = i + 1
  BY <1>2, <1>4a
<1>10a. Len(x) = 1 /\ Len(y) = 1 /\ x[1] = "LF" /\ (y[1] = "CR" \/ y[1] = " ")
  <2>1. Len(x) = 1 /\ x[1] = "LF"
    BY <1>8
  <2>2. CASE y = <<"CR">>
    <3>1. Len(y) = 1 /\ y[1] = "CR"
      BY <2>2
    <3> QED BY <2>1, <3>1
  <2>3. CASE y = <<" ">>
    <3>0. \A z : Len(<<z>>) = 1 /\ <<z>>[1] = z
      OBVIOUS
    <3> HIDE DEF y
    <3>1. Len(y) = 1 /\ y[1] = " "
      BY <2>3, <3>0
    <3> QED BY <2>1, <3>1
  <2> QED BY <1>9, <2>2, <2>3
<1>10b. Upto(s, i) \in Nat /\ Upto(s, i + 1) = Upto(s, i) + Len(x)
  BY <1>4a, <1>10, UptoNext
<1>10c. Upto(s, i + 2) = Upto(s, i + 1) + Len(y)
  BY <1>4a, <1>10, UptoNext
<1>10d. \A k \in 1 .. Len(x) : FlattenSeq(s)[Upto(s, i) + k] = x[k]
  <2>1. \A k \in 1 .. Len(s[i + 1]) : FlattenSeq(s)[Upto(s, (i + 1) - 1) + k] = s[i + 1][k]
    <3> DEFINE c == i + 1
    <3>1. c \in 1 .. Len(s)
      BY <1>10
    <3> HIDE DEF c
    <3>2. \A k \in 1 .. Len(s[c]) : FlattenSeq(s)[Upto(s, c - 1) + k] = s[c][k]
      BY <1>4a, <3>1, FlattenAt, SMTT(30)
    <3> QED BY <3>2 DEF c
  <2> QED BY <1>10, <2>1
<1>10e. /\ \A k \in 1 .. Len(y) : FlattenSeq(s)[Upto(s, i + 1) + k] = y[k]
        /\ Upto(s, i + 2) <= Len(FlattenSeq(s)) /\ Len(FlattenSeq(s)) \in Nat
  <2>1. /\ \A k \in 1 .. Len(s[i + 2]) : FlattenSeq(s)[Upto(s, (i + 2) - 1) + k] = s[i + 2][k]
        /\ Upto(s, i + 2) <= Len(FlattenSeq(s)) /\ Len(FlattenSeq(s)) \in Nat
    <3> HIDE DEF y, a, x
    <3> QED BY <1>4a, <1>10, FlattenAt
  <2> QED BY <1>10, <2>1
<1> HIDE DEF a, x, y
<1>10f. /\ a \in Nat /\ Upto(s, i + 1) = a + 1 /\ a + 2 <= Len(t) /\ Len(t) \in Nat
        /\ a + 1 + 1 = a + 2
  <2>1. a \in Nat /\ Upto(s, i + 1) = a + 1
    BY <1>10a, <1>10b DEF a
  <2>2. Upto(s, i + 2) = Upto(s, i + 1) + 1
    BY <1>10a, <1>10c
  <2>3. Upto(s, i + 2) <= Len(t) /\ Len(t) \in Nat
    BY <1>5, <1>10e
  <2>4. Upto(s, i + 2) = a + 2
    BY <2>1, <2>2
  <2>5. a + 1 + 1 = a + 2
    BY <2>1
  <2> QED BY <2>1, <2>3, <2>4, <2>5
<1>11. t[a + 1] = "LF" /\ (t[a + 2] = "CR" \/ t[a + 2] = " ")
  <2>1. t[a + 1] = x[1]
    <3>0. Len(x) = 1
      BY <1>10a
    <3>1. 1 \in 1 .. Len(x)
      BY <3>0
    <3>2. FlattenSeq(s)[Upto(s, i) + 1] = x[1]
      BY <1>10d, <3>1
    <3> QED BY <1>5, <3>2 DEF a
  <2>2. t[a + 2] = y[1]
    <3>0. Len(y) = 1
      BY <1>10a
    <3>1. 1 \in 1 .. Len(y)
      BY <3>0
    <3>2. FlattenSeq(s)[Upto(s, i + 1) + 1] = y[1]
      BY <1>10e, <3>1
    <3> QED BY <1>5, <1>10f, <3>2
  <2> QED BY <1>10a, <2>1, <2>2
<1>12. a + 1 \in 1 .. Len(t) /\ a + 1 # Len(t) /\ (a + 1) + 1 = a + 2
  BY <1>10f
<1>13. \/ t[a + 2] = "* FETCH"
       \/ \E j \in 1 .. Len(m.fields) : a + 2 = Place(m, j)
  BY <1>11, <1>12, LinedEnds DEF t
<1>14. CASE t[a + 2] = "* FETCH"
  BY <1>11, <1>14
<1>15. CASE \E j \in 1 .. Len(m.fields) : a + 2 = Place(m, j)
  <2>1. PICK j \in 1 .. Len(m.fields) : a + 2 = Place(m, j)
    BY <1>15
  <2>2. Lined(m)[Place(m, j)] = m.fields[j].name
    BY PlaceHas
  <2>3. m.fields[j].name \notin LineEnds /\ m.fields[j].name \notin Blanks
    BY FieldIs
  <2> QED BY <1>11, <2>1, <2>2, <2>3 DEF LineEnds, Blanks, t
<1> QED BY <1>13, <1>14, <1>15
\* An empty line is found, and it is behind the header.
LEMMA BlankLine ==
  ASSUME NEW m \in HeaderBlocks, NEW r, r = HeaderReply(m), NEW k, k = Find(Eol \o Eol, r, 1)
  PROVE  k \in Nat /\ k # 0 /\ Len(HeaderText(m)) <= k + 3 /\ k + 3 <= Len(r)
<1> DEFINE h == HeaderText(m)
           b == BehindHeader
           p == Eol \o Eol
           l == Len(h)
           S == {i \in 1 .. Len(r) : BeginsAt(p, r, i)}
<1>1. h \in Seq(Tokens) /\ l \in Nat /\ 2 <= l /\ h[l - 1] = "CR" /\ h[l] = "LF"
  BY HeaderEnds
<1>2. b \in Seq(Tokens) /\ r = h \o b /\ r \in Seq(Tokens)
  BY HeaderReplyIs
<1>3. Len(b) = 8 /\ b[1] = "CR" /\ b[2] = "LF"
  BY DEF BehindHeader, Eol
<1>4. /\ p = Eol \o Eol /\ Eol \in Seq(Tokens) /\ Len(Eol) = 2 /\ Eol[1] = "CR" /\ Eol[2] = "LF"
      /\ Len(p) = 4 /\ p[1] = "CR" /\ p[2] = "LF" /\ p[3] = "CR"
  <2>1. Eol \in Seq(Tokens) /\ Len(Eol) = 2 /\ Eol[1] = "CR" /\ Eol[2] = "LF"
    BY EolIs
  <2>2. /\ Len(p) = Len(Eol) + Len(Eol) /\ \A i \in 1 .. Len(Eol) : p[i] = Eol[i]
        /\ \A i \in 1 .. Len(Eol) : p[Len(Eol) + i] = Eol[i]
    <3>1. Eol \in Seq(Tokens)
      BY <2>1
    <3> QED BY <3>1, Joined
  <2> HIDE DEF p
  <2>3. /\ Len(p) = 4 /\ \A i \in 1 .. 2 : p[i] = Eol[i]
        /\ \A i \in 1 .. 2 : p[2 + i] = Eol[i]
    BY <2>1, <2>2
  <2>4. p[1] = Eol[1] /\ p[2] = Eol[2] /\ p[2 + 1] = Eol[1]
    BY <2>3
  <2>5. p[3] = p[2 + 1]
    OBVIOUS
  <2>6. p = Eol \o Eol
    BY DEF p
  <2> QED BY <2>1, <2>3, <2>4, <2>5, <2>6
<1> HIDE DEF h, b, p
<1>5. /\ Len(r) = l + 8 /\ \A i \in 1 .. l : r[i] = h[i]
      /\ \A i \in 1 .. 8 : r[l + i] = b[i]
  <2>1. /\ Len(h \o b) = Len(h) + Len(b) /\ \A i \in 1 .. Len(h) : (h \o b)[i] = h[i]
        /\ \A i \in 1 .. Len(b) : (h \o b)[Len(h) + i] = b[i]
    BY <1>1, <1>2, Joined
  <2> QED BY <1>2, <1>3, <2>1
<1>6. r[l - 1] = "CR" /\ r[l] = "LF" /\ r[l + 1] = "CR" /\ r[l + 2] = "LF"
  <2>1. l - 1 \in 1 .. l /\ l \in 1 .. l /\ 1 \in 1 .. 8 /\ 2 \in 1 .. 8
    BY <1>1
  <2> QED BY <1>1, <1>3, <1>5, <2>1
<1> HIDE DEF l
<1>7. l - 1 \in S
  <2> DEFINE q == SubSeq(r, l - 1, l + 2)
  <2>1. l - 1 \in 1 .. Len(r) /\ (l - 1) + 4 - 1 = l + 2 /\ l + 2 <= Len(r) /\ l + 2 \in Int /\ l - 1 \in Nat
    BY <1>1, <1>5
  <2>2. q = p
    <3>1. Len(q) = 4 /\ q \in Seq(Tokens)
      BY <1>1, <1>2, <2>1, Piece
    <3>2. q[1] = r[l - 1] /\ q[2] = r[l] /\ q[3] = r[l + 1] /\ q[4] = r[l + 2]
      <4>1. l - 1 \in Int /\ l + 2 - (l - 1) + 1 = 4
        BY <1>1
      <4>2. \A i \in 1 .. 4 : q[i] = r[l - 1 + i - 1]
        BY <1>1, <1>2, <2>1, <4>1
      <4>3. /\ l - 1 + 1 - 1 = l - 1 /\ l - 1 + 2 - 1 = l /\ l - 1 + 3 - 1 = l + 1 /\ l - 1 + 4 - 1 = l + 2
            /\ 1 \in 1 .. 4 /\ 2 \in 1 .. 4 /\ 3 \in 1 .. 4 /\ 4 \in 1 .. 4
        BY <1>1
      <4> HIDE DEF q
      <4> QED BY <4>2, <4>3
    <3> HIDE DEF q
    <3>3. \A i \in 1 .. Len(Eol) : q[i] = Eol[i]
      <4>1. q[1] = Eol[1] /\ q[2] = Eol[2]
        BY <1>4, <1>6, <3>2
      <4>2. \A i \in 1 .. Len(Eol) : i = 1 \/ i = 2
        BY <1>4
      <4> QED BY <4>1, <4>2
    <3>4. \A i \in 1 .. Len(Eol) : q[Len(Eol) + i] = Eol[i]
      <4>1. q[3] = Eol[1] /\ q[4] = Eol[2]
        BY <1>4, <1>6, <3>2
      <4>2. \A i \in 1 .. Len(Eol) : (i = 1 /\ Len(Eol) + i = 3) \/ (i = 2 /\ Len(Eol) + i = 4)
        BY <1>4
      <4> QED BY <4>1, <4>2
    <3>5. Len(q) = Len(Eol) + Len(Eol)
      BY <1>4, <3>1
    <3>6. q = Eol \o Eol
      BY <1>4, <3>1, <3>3, <3>4, <3>5, JoinedIs
    <3> QED BY <1>4, <3>6
  <2>3. BeginsAt(p, r, l - 1)
    BY <1>4, <2>1, <2>2 DEF BeginsAt
  <2> QED BY <2>1, <2>3
<1>8. ASSUME NEW i \in S PROVE l <= i + 3 /\ i + 3 <= Len(r)
  <2> DEFINE q == SubSeq(r, i, i + 3)
  <2>1. i \in Nat /\ 1 <= i /\ i + 4 - 1 <= Len(r) /\ SubSeq(r, i, i + 4 - 1) = p
    BY <1>4, <1>8 DEF BeginsAt
  <2>2. i + 3 <= Len(r) /\ q = p /\ i + 3 \in Int /\ i + 4 - 1 = i + 3
    BY <2>1
  <2>3. r[i] = "CR" /\ r[i + 1] = "LF" /\ r[i + 2] = "CR"
    <3>1. \A x \in 1 .. 4 : q[x] = r[i + x - 1]
      BY <1>2, <2>1, <2>2
    <3>2. i + 1 - 1 = i /\ i + 2 - 1 = i + 1 /\ i + 3 - 1 = i + 2 /\ 1 \in 1 .. 4 /\ 2 \in 1 .. 4 /\ 3 \in 1 .. 4
      BY <2>1
    <3>3. q[1] = "CR" /\ q[2] = "LF" /\ q[3] = "CR"
      <4> HIDE DEF q
      <4> QED BY <1>4, <2>2
    <3> HIDE DEF q
    <3> QED BY <3>1, <3>2, <3>3
  <2>4. ~(i + 2 <= l)
    <3> SUFFICES ASSUME i + 2 <= l PROVE FALSE
      OBVIOUS
    <3>1. i \in 1 .. l /\ i + 1 \in 1 .. l /\ i + 2 \in 1 .. l
      BY <1>1, <2>1
    <3>2. h[i] = "CR" /\ h[i + 1] = "LF" /\ h[i + 2] = "CR"
      BY <1>5, <2>3, <3>1
    <3> QED BY <2>1, <3>2, NoBlankLine DEF h, l
  <2> QED BY <1>1, <2>1, <2>2, <2>4
<1>9. k \in S
  <2>1. S \subseteq Nat \ {0}
    OBVIOUS
  <2>2. k = FirstOf[S]
    BY <1>4 DEF Find
  <2> HIDE DEF S
  <2> QED BY <1>7, <2>1, <2>2, FirstOfIs
<1>10. k \in Nat /\ k # 0
  BY <1>9
<1>11. l <= k + 3 /\ k + 3 <= Len(r)
  BY <1>8, <1>9
<1> QED BY <1>10, <1>11 DEF l, h

\* An unfolded text t has the first q tokens of Lined(m).  When these are not all, only
\* line ends follow; otherwise nothing with a colon.
CutAt(m, t, q) ==
  /\ q \in 0 .. Len(Lined(m)) /\ q <= Len(t)
  /\ \A i \in 1 .. q : t[i] = Lined(m)[i]
  /\ IF q < Len(Lined(m)) THEN m.lost /\ \A i \in q + 1 .. Len(t) : t[i] \in LineEnds
     ELSE \A i \in q + 1 .. Len(t) : t[i] # ":"

\* What parse() has read, unfolded, is a beginning of the header, or all of it.
LEMMA CollectedCut ==
  ASSUME NEW m \in HeaderBlocks, NEW c \in Collected(m)
  PROVE  /\ c \in Seq(Tokens) /\ Smooth(c) \in Seq(Tokens)
         /\ \E q \in 0 .. Len(Lined(m)) : CutAt(m, Smooth(c), q)
<1> DEFINE r == HeaderReply(m)
           h == HeaderText(m)
           b == BehindHeader
           l == Lined(m)
           t == Smooth(c)
           blank == Find(Eol \o Eol, r, 1)
<1>1. c \in Seq(Tokens) /\ t \in Seq(Tokens)
  <2>1. c \in Seq(Tokens)
    BY CollectedTyped
  <2> QED BY <2>1, PiecesTyped
<1>2. r \in Seq(Tokens) /\ h \in Seq(Tokens) /\ b \in Seq(Tokens) /\ r = h \o b
  BY HeaderReplyIs
<1>3. Len(b) = 8 /\ \A i \in 1 .. 8 : b[i] # ":"
  BY BehindIs
<1>4. l \in Seq(Tokens)
  BY RowsTyped
<1>5. blank \in Nat /\ blank # 0 /\ Len(h) <= blank + 3 /\ blank + 3 <= Len(r)
  BY BlankLine
<1>6. PICK n \in IF m.lost THEN 0 .. blank + 2 ELSE blank + 3 .. Len(r) : c = SubSeq(r, 1, n)
  BY Zenon DEF Collected
<1>7. m.lost \in BOOLEAN
  BY BlockIs
<1>8. /\ Smooth(r) = l \o b /\ Pieces(r) = Pieces(h) \o Pieces(b)
      /\ \A f \in Folds(r) : f \in Nat /\ f + 2 <= Len(h)
  BY ReplySmooth
<1>9. l = FlattenSeq(Pieces(h))
  BY HeaderSmooth DEF Smooth
<1>10. Pieces(h) \in Seq(Seq(Tokens)) /\ Len(Pieces(h)) = Len(h) /\ Len(h) \in Nat
  <2>1. h \in Seq(Tokens)
    BY <1>2
  <2>2. Pieces(h) \in Seq(Seq(Tokens))
    BY <2>1, PiecesTyped
  <2>3. Len(Pieces(h)) = Len(h)
    BY <2>1, PiecesTyped
  <2> QED BY <2>1, <2>2, <2>3
<1>11. Pieces(b) \in Seq(Seq(Tokens)) /\ Pieces(r) \in Seq(Seq(Tokens)) /\ Len(Pieces(r)) = Len(r) /\ Len(r) \in Nat
  <2>1. b \in Seq(Tokens) /\ r \in Seq(Tokens)
    BY <1>2
  <2> HIDE DEF b, r
  <2>2. Pieces(b) \in Seq(Seq(Tokens))
    BY <2>1, PiecesTyped
  <2>3. Pieces(r) \in Seq(Seq(Tokens)) /\ Len(Pieces(r)) = Len(r)
    BY <2>1, PiecesTyped
  <2> QED BY <2>1, <2>2, <2>3
<1> HIDE DEF r, h, b, l, t, blank
<1>12. n \in 0 .. Len(r) /\ (~m.lost => Len(h) <= n)
  BY <1>5, <1>6, <1>7, <1>11
<1> DEFINE s == Pieces(r)
<1>13. PICK k \in 0 .. n :
         /\ Upto(s, k) \in Nat /\ Upto(s, k) <= Len(t)
         /\ \A i \in 1 .. Upto(s, k) : t[i] = Smooth(r)[i]
         /\ \A i \in Upto(s, k) + 1 .. Len(t) : t[i] \in LineEnds
         /\ (\A f \in Folds(r) : f + 2 <= n) => k = n
  <2>1. r \in Seq(Tokens) /\ n \in 0 .. Len(r) /\ c = SubSeq(r, 1, n)
    BY <1>2, <1>6, <1>12
  <2>2. \E k \in 0 .. n : KeptTo(r, n, c, k)
    BY <2>1, CutSmooth
  <2> QED BY <2>2 DEF KeptTo, t
<1> DEFINE u == Upto(s, k)
           L == Len(l)
<1>14. /\ L \in Nat /\ Len(Smooth(r)) = L + 8 /\ \A i \in 1 .. L : Smooth(r)[i] = l[i]
       /\ \A i \in 1 .. 8 : Smooth(r)[L + i] = b[i]
  <2>1. /\ Len(l) \in Nat /\ Len(l \o b) = Len(l) + Len(b) /\ \A i \in 1 .. Len(l) : (l \o b)[i] = l[i]
        /\ \A i \in 1 .. Len(b) : (l \o b)[Len(l) + i] = b[i]
    BY <1>2, <1>4, Joined
  <2> QED BY <1>3, <1>8, <2>1
<1>15. u <= L + 8
  <2>1. Upto(s, k) <= Upto(s, Len(s))
    <3>1. k \in 0 .. Len(s) /\ Len(s) \in k .. Len(s)
      BY <1>11, <1>12
    <3> HIDE DEF s
    <3> QED BY <1>11, <3>1, UptoGrows DEF s
  <2>2. Upto(s, Len(s)) = Len(Smooth(r))
    BY <1>11, UptoEnds DEF Smooth
  <2> QED BY <1>14, <2>1, <2>2
<1>16. ~m.lost => L <= u
  <2> SUFFICES ASSUME ~m.lost PROVE L <= u
    OBVIOUS
  <2>1. k = n
    <3>1. \A f \in Folds(r) : f + 2 <= n
      <4> SUFFICES ASSUME NEW f \in Folds(r) PROVE f + 2 <= n
        OBVIOUS
      <4>1. f \in Nat /\ f + 2 <= Len(h) /\ Len(h) <= n /\ n \in Nat
        BY <1>8, <1>12
      <4> QED BY <1>10, <4>1
    <3> QED BY <1>13, <3>1
  <2>2. Upto(s, Len(h)) <= Upto(s, k)
    <3>1. Len(h) \in 0 .. Len(s) /\ k \in Len(h) .. Len(s)
      BY <1>10, <1>11, <1>12, <2>1
    <3> HIDE DEF s
    <3> QED BY <1>11, <3>1, UptoGrows DEF s
  <2>3. Upto(s, Len(h)) = L
    <3> DEFINE x == Pieces(h)
               y == Pieces(b)
    <3>1. SubSeq(x \o y, 1, Len(x)) = x
      <4>1. x \in Seq(Seq(Tokens)) /\ y \in Seq(Seq(Tokens))
        BY <1>10, <1>11
      <4> HIDE DEF x, y
      <4> DEFINE Z == Seq(Tokens)
      <4>2. x \in Seq(Z) /\ y \in Seq(Z)
        BY <4>1
      <4> HIDE DEF Z
      <4> QED BY <4>2
    <3> QED BY <1>8, <1>9, <1>10, <3>1 DEF Upto
  <2> QED BY <2>2, <2>3
<1> HIDE DEF u, L, s
<1>17. u \in Nat /\ u <= Len(t) /\ \A i \in 1 .. u : t[i] = Smooth(r)[i]
  BY <1>13 DEF u
<1>18. \A i \in u + 1 .. Len(t) : t[i] \in LineEnds
  BY <1>13 DEF u
<1>19. Len(t) \in Nat
  BY <1>1
<1>20. CASE u < L
  <2>1. u \in 0 .. L /\ \A i \in 1 .. u : i \in 1 .. L
    BY <1>14, <1>17, <1>20
  <2>2. \A i \in 1 .. u : t[i] = l[i]
    BY <1>14, <1>17, <2>1
  <2>3. m.lost
    BY <1>14, <1>16, <1>17, <1>20, SMTT(30)
  <2>4. CutAt(m, t, u)
    BY <1>17, <1>18, <1>20, <2>1, <2>2, <2>3 DEF CutAt, L, l
  <2> QED BY <1>1, <2>1, <2>4 DEF L, l, t
<1>21. CASE ~(u < L)
  <2>1. L \in 0 .. L /\ L <= u /\ L <= Len(t) /\ \A i \in 1 .. L : i \in 1 .. u
    BY <1>14, <1>17, <1>19, <1>21
  <2>2. \A i \in 1 .. L : t[i] = l[i]
    BY <1>14, <1>17, <2>1
  <2>3. ASSUME NEW i \in L + 1 .. Len(t) PROVE t[i] # ":"
    <3>1. CASE i <= u
      <4>1. i \in 1 .. u /\ i - L \in 1 .. 8 /\ L + (i - L) = i
        <5>1. L \in Nat /\ u \in Nat /\ u <= L + 8
          BY <1>14, <1>15, <1>17
        <5>2. i \in L + 1 .. Len(t) /\ Len(t) \in Nat /\ i <= u
          BY <1>19, <2>3, <3>1
        <5> QED BY <5>1, <5>2
      <4>2. t[i] = b[i - L]
        BY <1>14, <1>17, <4>1
      <4> QED BY <1>3, <4>1, <4>2
    <3>2. CASE ~(i <= u)
      <4>1. i \in u + 1 .. Len(t)
        BY <1>14, <1>17, <1>19, <3>2
      <4>2. t[i] \in LineEnds
        BY <1>18, <4>1
      <4> QED BY <4>2 DEF LineEnds
    <3> QED BY <3>1, <3>2
  <2>4. ~(L < L)
    BY <1>14
  <2>5. CutAt(m, t, L)
    BY <2>1, <2>2, <2>3, <2>4 DEF CutAt, L, l
  <2> QED BY <1>1, <2>1, <2>5 DEF L, l, t
<1> QED BY <1>20, <1>21

-----------------------------------------------------------------------------
(* The lines of an unfolded text.                                          *)

\* Place p is not within a line of a field, as far as the text has it.
Between(m, q, p) ==
  \A j \in 1 .. Len(m.fields) : ~(Place(m, j) < p /\ p <= q /\ p < EndOfRow(m, j))

\* As much of the value of field j as the first q tokens have.
Had(m, q, j) ==
  SubSeq(OneLine(m.fields[j]), 1,
         IF q < EndOfRow(m, j) THEN q - Place(m, j) - 1 ELSE Len(OneLine(m.fields[j])))

FieldLine(m, q, j) == <<m.fields[j].name, ":">> \o Had(m, q, j)

\* A line from place s of t to place e, which is a line end or behind t.
LineAt(t, s, e) ==
  /\ s \in 1 .. Len(t) /\ e \in s + 1 .. Len(t) + 1
  /\ \A i \in s .. e - 1 : t[i] \notin LineEnds
  /\ e = Len(t) + 1 \/ t[e] \in LineEnds

\* The place to go on at behind it.
Behind(t, e) == IF e = Len(t) + 1 THEN e ELSE e + 1

\* The text of line x, read before place p and from place s: a field, or none of the four.
LineOf(m, q, s, p, x) ==
  \/ /\ \A j \in 1 .. Len(m.fields) : ~(s <= Place(m, j) /\ Place(m, j) < p /\ Place(m, j) < q)
     /\ \A f \in DOMAIN Spellings : ~(Len(x) > 1 /\ x[1] \in Spellings[f] /\ x[2] = ":")
  \/ \E j \in 1 .. Len(m.fields) :
       /\ s = Place(m, j) /\ s < q /\ s < p
       /\ \A i \in 1 .. Len(m.fields) : i # j => ~(s <= Place(m, i) /\ Place(m, i) < p /\ Place(m, i) < q)
       /\ x = FieldLine(m, q, j)

\* What the first q tokens have of a field.
LEMMA FieldRead ==
  ASSUME NEW m \in HeaderBlocks, NEW t \in Seq(Tokens), NEW q \in Nat, CutAt(m, t, q),
         NEW j \in 1 .. Len(m.fields), NEW i \in Nat, Place(m, j) <= i, i < EndOfRow(m, j), i <= q
  PROVE  /\ i \in 1 .. Len(t) /\ t[i] = Lined(m)[i] /\ t[i] \notin LineEnds
<1> DEFINE s == Place(m, j)
           l == Lined(m)
           a == Len(Preamble(m))
<1>1. s \in Nat /\ a < s
  BY PlaceHas
<1>2. a \in Nat
  <2>1. Preamble(m) \in Seq(Tokens)
    BY PreambleIs
  <2> QED BY <2>1
<1>3. q <= Len(t) /\ \A k \in 1 .. q : t[k] = l[k]
  BY DEF CutAt
<1>4. l[i] \notin LineEnds
  BY RowInside
<1>5. s <= i /\ i <= q
  OBVIOUS
<1> HIDE DEF s, l, a
<1>6. Len(t) \in Nat
  OBVIOUS
<1>7. i \in 1 .. q /\ i \in 1 .. Len(t)
  BY <1>1, <1>2, <1>3, <1>5, <1>6
<1> QED BY <1>3, <1>4, <1>7 DEF l

\* A line that begins within a field is the whole of it.
LEMMA LineStarts ==
  ASSUME NEW m \in HeaderBlocks, NEW t \in Seq(Tokens), NEW q \in Nat, CutAt(m, t, q),
         NEW p \in 1 .. Len(t) + 1, Between(m, q, p),
         NEW s \in p .. Len(t), \A i \in p .. s - 1 : t[i] \in LineEnds,
         NEW j \in 1 .. Len(m.fields), Place(m, j) <= s, s < EndOfRow(m, j), s <= q
  PROVE  s = Place(m, j)
<1> SUFFICES ASSUME s # Place(m, j) PROVE FALSE
  OBVIOUS
<1> DEFINE x == Place(m, j)
           e == EndOfRow(m, j)
<1>1. x \in Nat /\ e = x + 2 + Len(OneLine(m.fields[j])) /\ Len(OneLine(m.fields[j])) \in Nat
  BY PlaceHas
<1>2. p \in Nat /\ s \in Nat /\ p <= s /\ x < s /\ s < e /\ s <= q /\ e \in Nat /\ x < e
  BY <1>1
<1>3. ~(x < p /\ p <= q /\ p < e)
  BY DEF Between
<1> HIDE DEF x, e
<1>4. p <= x /\ x \in p .. s - 1 /\ x <= q
  BY <1>1, <1>2, <1>3
<1>5. t[x] \notin LineEnds
  BY <1>1, <1>2, <1>4, FieldRead DEF x, e
<1> QED BY <1>4, <1>5

\* The line of a field ends where it does, or where the text is cut.
LEMMA RowLine ==
  ASSUME NEW m \in HeaderBlocks, NEW t \in Seq(Tokens), NEW q \in Nat, CutAt(m, t, q),
         NEW j \in 1 .. Len(m.fields), NEW s, s = Place(m, j), s <= q, NEW e, LineAt(t, s, e)
  PROVE  /\ q < EndOfRow(m, j) => e = q + 1
         /\ ~(q < EndOfRow(m, j)) => e = EndOfRow(m, j)
<1> DEFINE z == EndOfRow(m, j)
           n == Len(t)
           L == Len(Lined(m))
           k == Len(OneLine(m.fields[j]))
<1>1. s \in Nat /\ k \in Nat /\ z = s + 2 + k /\ z + 1 <= L /\ Lined(m)[z] = "CR"
  BY PlaceHas
<1>2. /\ q <= n /\ \A i \in 1 .. q : t[i] = Lined(m)[i]
      /\ q < L => \A i \in q + 1 .. n : t[i] \in LineEnds
  BY DEF CutAt
<1>3. /\ s \in 1 .. n /\ e \in s + 1 .. n + 1 /\ \A i \in s .. e - 1 : t[i] \notin LineEnds
      /\ e = n + 1 \/ t[e] \in LineEnds
  BY DEF LineAt
<1>4. n \in Nat /\ L \in Nat /\ s <= q
  <2>1. Lined(m) \in Seq(Tokens)
    BY RowsTyped
  <2> QED BY <2>1
<1>5. \A i \in Nat : s <= i /\ i < z /\ i <= q => t[i] \notin LineEnds
  BY FieldRead
<1> HIDE DEF z, n, L, k
<1>5a. s \in Nat /\ e \in Nat /\ z \in Nat /\ n \in Nat /\ L \in Nat /\ s < z /\ z < L
       /\ s < e /\ e <= n + 1 /\ q <= n /\ s <= q /\ 1 <= s
  BY <1>1, <1>2, <1>3, <1>4, SMTT(30)
<1>6. CASE q < z
  <2>1. e > q
    <3> SUFFICES ASSUME ~(e > q) PROVE FALSE
      OBVIOUS
    <3>1. e \in Nat /\ s <= e /\ e < z /\ e <= q /\ e # n + 1
      BY <1>5a, <1>6
    <3> QED BY <1>3, <1>5, <3>1
  <2>2. ~(e > q + 1)
    <3> SUFFICES ASSUME e > q + 1 PROVE FALSE
      OBVIOUS
    <3>1. q + 1 \in q + 1 .. n /\ q + 1 \in s .. e - 1 /\ q < L
      BY <1>5a, <1>6
    <3> QED BY <1>2, <1>3, <3>1
  <2>3. e = q + 1
    BY <1>5a, <2>1, <2>2
  <2> QED BY <1>6, <2>3 DEF z
<1>7. CASE ~(q < z)
  <2>0. t[z] = "CR"
    <3>1. z \in 1 .. q
      BY <1>5a, <1>7
    <3> QED BY <1>1, <1>2, <3>1
  <2>1. ~(e < z)
    <3> SUFFICES ASSUME e < z PROVE FALSE
      OBVIOUS
    <3>1. e \in Nat /\ s <= e /\ e < z /\ e <= q /\ e # n + 1
      BY <1>5a, <1>7
    <3> QED BY <1>3, <1>5, <3>1
  <2>2. ~(e > z)
    <3> SUFFICES ASSUME e > z PROVE FALSE
      OBVIOUS
    <3>1. z \in s .. e - 1
      BY <1>5a
    <3> QED BY <1>3, <2>0, <3>1 DEF LineEnds
  <2>3. e = z
    BY <1>5a, <2>1, <2>2
  <2> QED BY <1>7, <2>3 DEF z
<1> QED BY <1>6, <1>7

\* The text of the line of a field.
LEMMA RowText ==
  ASSUME NEW m \in HeaderBlocks, NEW t \in Seq(Tokens), NEW q \in Nat, CutAt(m, t, q),
         NEW j \in 1 .. Len(m.fields), NEW s, s = Place(m, j), s < q, NEW e, LineAt(t, s, e)
  PROVE  SubSeq(t, s, e - 1) = FieldLine(m, q, j)
<1> DEFINE z == EndOfRow(m, j)
           n == Len(t)
           v == OneLine(m.fields[j])
           k == Len(v)
           l == Lined(m)
           a == <<m.fields[j].name, ":">>
           h == IF q < z THEN q - s - 1 ELSE k
           b == SubSeq(v, 1, h)
           x == SubSeq(t, s, e - 1)
<1>1. /\ s \in Nat /\ k \in Nat /\ z = s + 2 + k /\ l[s] = m.fields[j].name /\ l[s + 1] = ":"
      /\ \A i \in 1 .. k : l[s + 1 + i] = v[i]
  <2>1. /\ s \in Nat /\ Len(OneLine(m.fields[j])) \in Nat /\ z = s + 2 + Len(OneLine(m.fields[j]))
        /\ Lined(m)[s] = m.fields[j].name /\ Lined(m)[s + 1] = ":"
    BY PlaceHas
  <2>2. \A i \in 1 .. Len(OneLine(m.fields[j])) : Lined(m)[s + 1 + i] = OneLine(m.fields[j])[i]
    BY PlaceHas
  <2> QED BY <2>1, <2>2
<1>2. v \in Seq(Tokens)
  BY OneLineTyped, SmoothWithin
<1>3. a \in Seq(Tokens)
  BY FieldTyped
<1>4. Len(a) = 2 /\ a[1] = m.fields[j].name /\ a[2] = ":"
  OBVIOUS
<1>5. q <= n /\ \A i \in 1 .. q : t[i] = l[i]
  BY DEF CutAt
<1>6. s \in 1 .. n /\ e \in s + 1 .. n + 1
  BY DEF LineAt
<1>7. (q < z => e = q + 1) /\ (~(q < z) => e = z)
  <2>1. q < EndOfRow(m, j) => e = q + 1
    <3>1. s <= q
      BY <1>1
    <3> QED BY <3>1, RowLine
  <2>2. ~(q < EndOfRow(m, j)) => e = EndOfRow(m, j)
    <3>1. s <= q
      BY <1>1
    <3> QED BY <3>1, RowLine
  <2> QED BY <2>1, <2>2
<1>8. Had(m, q, j) = b
  BY DEF Had
<1>9. n \in Nat /\ q \in Nat /\ s < q
  OBVIOUS
<1> HIDE DEF z, n, v, k, l, a, h, b, x
<1>10. s \in Nat /\ k \in Nat /\ z \in Nat /\ z = s + 2 + k /\ q <= n /\ 1 <= s /\ e \in Nat /\ s < e /\ e <= n + 1
  BY <1>1, <1>5, <1>6, <1>9
<1>11. h \in 0 .. k /\ e - s = 2 + h /\ e - 1 <= q /\ e - 1 \in Int /\ e - 1 <= n /\ s <= e - 1
  <2>1. s < q /\ q \in Nat
    BY <1>9
  <2>2. h = IF q < z THEN q - s - 1 ELSE k
    BY DEF h
  <2>3. CASE q < z
    <3>1. h = q - s - 1 /\ e = q + 1
      BY <1>7, <2>2, <2>3
    <3> QED BY <1>10, <2>1, <2>3, <3>1, SMTT(30)
  <2>4. CASE ~(q < z)
    <3>1. h = k /\ e = z
      BY <1>7, <2>2, <2>4
    <3> QED BY <1>9, <1>10, <2>1, <2>4, <3>1
  <2> QED BY <2>3, <2>4
<1>12. x \in Seq(Tokens) /\ Len(x) = 2 + h /\ \A i \in 1 .. 2 + h : x[i] = t[s + i - 1]
  <2>1. x \in Seq(Tokens) /\ Len(x) = e - 1 - s + 1
    BY <1>10, <1>11, Piece, SMTT(30) DEF x, n
  <2>2. \A i \in 1 .. e - 1 - s + 1 : SubSeq(t, s, e - 1)[i] = t[s + i - 1]
    <3>1. e - 1 \in Int /\ e - 1 <= Len(t)
      BY <1>11 DEF n
    <3> QED BY <1>10, <3>1, PieceAt, SMTT(30)
  <2>3. e - 1 - s + 1 = 2 + h
    BY <1>10, <1>11
  <2> QED BY <2>1, <2>2, <2>3 DEF x
<1>13. b \in Seq(Tokens) /\ Len(b) = h /\ \A i \in 1 .. h : b[i] = v[i]
  <2>1. h \in Int /\ h <= k /\ 0 <= h /\ k \in Nat
    BY <1>10, <1>11
  <2>2. b \in Seq(Tokens) /\ Len(b) = h
    BY <1>2, <2>1, Piece DEF b, k
  <2>3. \A i \in 1 .. h : b[i] = v[i]
    BY <1>2, <2>1 DEF b, k
  <2> QED BY <2>2, <2>3
<1>14. ASSUME NEW i \in 1 .. 2 + h PROVE x[i] = l[s + i - 1]
  <2>1. s + i - 1 \in 1 .. q
    BY <1>9, <1>10, <1>11, SMTT(30)
  <2> QED BY <1>5, <1>12, <2>1
<1>15. \A i \in 1 .. Len(a) : x[i] = a[i]
  <2>1. 1 \in 1 .. 2 + h /\ 2 \in 1 .. 2 + h /\ s + 1 - 1 = s /\ s + 2 - 1 = s + 1
    BY <1>10, <1>11
  <2>2. x[1] = a[1] /\ x[2] = a[2]
    BY <1>1, <1>4, <1>14, <2>1
  <2>3. \A i \in 1 .. Len(a) : i = 1 \/ i = 2
    BY <1>4
  <2> QED BY <2>2, <2>3
<1>16. ASSUME NEW i \in 1 .. Len(b) PROVE x[Len(a) + i] = b[i]
  <2>1. Len(b) = h /\ Len(a) = 2
    BY <1>4, <1>13
  <2>2. i \in 1 .. h /\ i \in 1 .. k /\ 2 + i \in 1 .. 2 + h /\ s + (2 + i) - 1 = s + 1 + i
    BY <1>10, <1>11, <1>16, <2>1, SMTT(30)
  <2>3. x[2 + i] = l[s + 1 + i]
    BY <1>14, <2>2
  <2>4. b[i] = v[i]
    BY <1>13, <2>2
  <2>5. l[s + 1 + i] = v[i]
    BY <1>1, <2>2
  <2> QED BY <2>1, <2>3, <2>4, <2>5
<1>17. Len(x) = Len(a) + Len(b)
  BY <1>4, <1>12, <1>13
<1>18. x = a \o b
  BY <1>3, <1>12, <1>13, <1>15, <1>16, <1>17, JoinedIs
<1> QED BY <1>8, <1>18 DEF x, a, FieldLine

\* A line in what is before the fields is none of the four.
LEMMA PreambleLine ==
  ASSUME NEW m \in HeaderBlocks, NEW t \in Seq(Tokens), NEW q \in Nat, CutAt(m, t, q),
         NEW s, s <= q, s <= Len(Preamble(m)), NEW e, LineAt(t, s, e)
  PROVE  /\ e <= Len(Preamble(m))
         /\ s + 1 < e /\ t[s + 1] = ":" => \A f \in DOMAIN Spellings : t[s] \notin Spellings[f]
<1> DEFINE a == Len(m.ahead)
           b == Len(Preamble(m))
           p == Preamble(m)
           n == Len(t)
           L == Len(Lined(m))
<1>1. /\ p \in Seq(Tokens) /\ a \in Nat /\ b = a + 3 /\ \A i \in 1 .. a : p[i] = m.ahead[i]
      /\ p[a + 1] = "* FETCH" /\ p[a + 2] = "CR" /\ p[a + 3] = "LF"
  BY PreambleIs
<1>2. \A i \in 1 .. a : i < a /\ m.ahead[i + 1] = ":" => \A f \in DOMAIN Spellings : m.ahead[i] \notin Spellings[f]
  BY BlockIs DEF RestOfLine
<1>3. b <= L /\ L \in Nat /\ \A i \in 1 .. b : Lined(m)[i] = p[i]
  <2>1. /\ Len(Preamble(m)) \in Nat /\ Len(FlattenSeq(Rows(m))) \in Nat
        /\ Len(Lined(m)) = Len(Preamble(m)) + Len(FlattenSeq(Rows(m)))
        /\ \A i \in 1 .. Len(Preamble(m)) : Lined(m)[i] = Preamble(m)[i]
    BY LinedParts
  <2> QED BY <2>1
<1>4. /\ q <= n /\ \A i \in 1 .. q : t[i] = Lined(m)[i]
      /\ q < L => \A i \in q + 1 .. n : t[i] \in LineEnds
  BY DEF CutAt
<1>5. /\ s \in 1 .. n /\ e \in s + 1 .. n + 1 /\ \A i \in s .. e - 1 : t[i] \notin LineEnds
  BY DEF LineAt
<1>6. n \in Nat /\ s <= q /\ s <= b
  OBVIOUS
<1> HIDE DEF a, b, p, n, L
<1>7. s \in Nat /\ 1 <= s /\ e \in Nat /\ s < e /\ e <= n + 1 /\ a \in Nat /\ b = a + 3
  <2>1. a \in Nat /\ b = a + 3
    BY <1>1
  <2>2. s \in 1 .. n /\ e \in s + 1 .. n + 1
    BY <1>5
  <2> QED BY <1>6, <2>1, <2>2
<1>8. \A i \in Nat : 1 <= i /\ i <= b /\ i <= q => t[i] = p[i]
  <2> SUFFICES ASSUME NEW i \in Nat, 1 <= i, i <= b, i <= q PROVE t[i] = p[i]
    OBVIOUS
  <2>1. i \in 1 .. b /\ i \in 1 .. q
    BY <1>7
  <2> QED BY <1>3, <1>4, <2>1
<1>9. e <= b
  <2> SUFFICES ASSUME ~(e <= b) PROVE FALSE
    OBVIOUS
  <2>1. CASE b <= q
    <3>1. b \in s .. e - 1 /\ b \in Nat /\ 1 <= b
      BY <1>6, <1>7
    <3>2. t[b] = p[b]
      <4>1. b <= b
        BY <3>1
      <4> QED BY <1>8, <2>1, <3>1, <4>1
    <3>3. p[b] = "LF"
      BY <1>1
    <3> QED BY <1>5, <3>1, <3>2, <3>3 DEF LineEnds
  <2>2. CASE ~(b <= q)
    <3>1. q + 1 \in s .. e - 1 /\ q + 1 \in q + 1 .. n /\ q < L
      BY <1>3, <1>6, <1>7, <2>2
    <3> QED BY <1>4, <1>5, <3>1
  <2> QED BY <2>1, <2>2
<1>10. ASSUME s + 1 < e, t[s + 1] = ":", NEW f \in DOMAIN Spellings PROVE t[s] \notin Spellings[f]
  <2>1. s + 1 <= q
    <3> SUFFICES ASSUME ~(s + 1 <= q) PROVE FALSE
      OBVIOUS
    <3>1. s + 1 \in q + 1 .. n /\ q < L
      BY <1>3, <1>6, <1>7, <1>9, <1>10
    <3>2. t[s + 1] \in LineEnds
      BY <1>4, <3>1
    <3> QED BY <1>10, <3>2 DEF LineEnds
  <2>2. t[s] = p[s] /\ t[s + 1] = p[s + 1]
    <3>1. s + 1 <= b /\ s + 1 \in Nat /\ 1 <= s + 1
      BY <1>7, <1>9, <1>10
    <3> QED BY <1>6, <1>7, <1>8, <2>1, <3>1
  <2>3. s < a
    <3>1. s + 1 <= a + 3
      BY <1>7, <1>9, <1>10
    <3>2. s + 1 # a + 1 /\ s + 1 # a + 2 /\ s + 1 # a + 3
      <4>1. p[s + 1] = ":"
        BY <1>10, <2>2
      <4>2. p[a + 1] # ":" /\ p[a + 2] # ":" /\ p[a + 3] # ":"
        BY <1>1
      <4> QED BY <4>1, <4>2
    <3> QED BY <1>7, <3>1, <3>2
  <2>4. s \in 1 .. a /\ s + 1 \in 1 .. a
    BY <1>7, <2>3
  <2> QED BY <1>1, <1>2, <1>10, <2>2, <2>3, <2>4
<1> QED BY <1>9, <1>10 DEF b

\* Two fields are apart.
LEMMA PlacesApart ==
  ASSUME NEW m \in HeaderBlocks, NEW i \in 1 .. Len(m.fields), NEW j \in 1 .. Len(m.fields), i # j
  PROVE  EndOfRow(m, i) + 2 <= Place(m, j) \/ EndOfRow(m, j) + 2 <= Place(m, i)
<1> DEFINE N == Len(m.fields)
<1>1. N \in Nat
  BY BlockIs
<1> HIDE DEF N
<1>2. i \in 1 .. N /\ j \in 1 .. N
  BY DEF N
<1>3. j \in i + 1 .. N \/ i \in j + 1 .. N
  BY <1>1, <1>2
<1>4. \A a \in 1 .. N : \A b \in a + 1 .. N : EndOfRow(m, a) + 2 <= Place(m, b)
  BY PlacesGrow DEF N
<1> QED BY <1>2, <1>3, <1>4

\* The numbers of a field.
LEMMA PlaceNumbers ==
  ASSUME NEW m \in HeaderBlocks, NEW j \in 1 .. Len(m.fields)
  PROVE  /\ Place(m, j) \in Nat /\ EndOfRow(m, j) \in Nat /\ Place(m, j) + 2 <= EndOfRow(m, j)
         /\ Len(Preamble(m)) < Place(m, j) /\ EndOfRow(m, j) + 1 <= Len(Lined(m))
         /\ Len(Preamble(m)) \in Nat /\ Len(Lined(m)) \in Nat
<1> DEFINE k == Len(OneLine(m.fields[j]))
           a == Len(Preamble(m))
           l == Len(Lined(m))
<1>1. /\ Place(m, j) \in Nat /\ k \in Nat /\ EndOfRow(m, j) = Place(m, j) + 2 + k
      /\ a < Place(m, j) /\ EndOfRow(m, j) + 1 <= l
  BY PlaceHas
<1>2. Preamble(m) \in Seq(Tokens)
  BY PreambleIs
<1>3. Lined(m) \in Seq(Tokens)
  BY RowsTyped
<1>4. a \in Nat /\ l \in Nat
  BY <1>2, <1>3
<1> HIDE DEF k, a, l
<1>5. EndOfRow(m, j) \in Nat /\ Place(m, j) + 2 <= EndOfRow(m, j)
  BY <1>1
<1> QED BY <1>1, <1>4, <1>5 DEF a, l

\* The text of a line.
LEMMA LineText ==
  ASSUME NEW t \in Seq(Tokens), NEW s, NEW e, LineAt(t, s, e)
  PROVE  /\ SubSeq(t, s, e - 1) \in Seq(Tokens) /\ Len(SubSeq(t, s, e - 1)) = e - s
         /\ s \in Nat /\ 1 <= s /\ e \in Nat /\ s < e /\ e <= Len(t) + 1 /\ Len(t) \in Nat
         /\ s + 1 < e => SubSeq(t, s, e - 1)[1] = t[s] /\ SubSeq(t, s, e - 1)[2] = t[s + 1]
         /\ Behind(t, e) \in Nat /\ e <= Behind(t, e) /\ Behind(t, e) <= e + 1
         /\ Behind(t, e) <= Len(t) + 1
         /\ e <= Len(t) => Behind(t, e) = e + 1
<1>1. Len(t) \in Nat
  OBVIOUS
<1>2. s \in 1 .. Len(t) /\ e \in s + 1 .. Len(t) + 1
  BY DEF LineAt
<1>3. s \in Nat /\ 1 <= s /\ e \in Nat /\ s < e /\ e <= Len(t) + 1 /\ e - 1 \in Int /\ e - 1 <= Len(t)
      /\ s <= e - 1 /\ e - 1 - s + 1 = e - s
  BY <1>1, <1>2
<1>4. SubSeq(t, s, e - 1) \in Seq(Tokens) /\ Len(SubSeq(t, s, e - 1)) = e - s
  BY <1>3, Piece
<1>5. \A i \in 1 .. e - 1 - s + 1 : SubSeq(t, s, e - 1)[i] = t[s + i - 1]
  BY <1>3, PieceAt
<1>6. ASSUME s + 1 < e PROVE SubSeq(t, s, e - 1)[1] = t[s] /\ SubSeq(t, s, e - 1)[2] = t[s + 1]
  <2>1. 1 \in 1 .. e - 1 - s + 1 /\ 2 \in 1 .. e - 1 - s + 1 /\ s + 1 - 1 = s /\ s + 2 - 1 = s + 1
    BY <1>3, <1>6
  <2> QED BY <1>5, <2>1
<1>7. /\ Behind(t, e) \in Nat /\ e <= Behind(t, e) /\ Behind(t, e) <= e + 1
      /\ Behind(t, e) <= Len(t) + 1
      /\ e <= Len(t) => Behind(t, e) = e + 1
  BY <1>1, <1>3 DEF Behind
<1> QED BY <1>1, <1>3, <1>4, <1>6, <1>7

\* A line of a field as it is read.
LEMMA ReadRow ==
  ASSUME NEW m \in HeaderBlocks, NEW t \in Seq(Tokens), NEW q \in Nat, CutAt(m, t, q),
         NEW j \in 1 .. Len(m.fields), NEW s, s = Place(m, j), s <= q, NEW e, LineAt(t, s, e)
  PROVE  /\ Between(m, q, Behind(t, e))
         /\ LineOf(m, q, s, Behind(t, e), SubSeq(t, s, e - 1))
<1> DEFINE z == EndOfRow(m, j)
           w == Behind(t, e)
           x == SubSeq(t, s, e - 1)
           n == Len(t)
           N == Len(m.fields)
<1>1. /\ s \in Nat /\ e \in Nat /\ s < e /\ e <= n + 1 /\ n \in Nat /\ w \in Nat /\ e <= w /\ w <= e + 1
      /\ (e <= n => w = e + 1)
      /\ Len(x) = e - s
  BY LineText
<1>2. (q < z => e = q + 1) /\ (~(q < z) => e = z)
  BY RowLine
<1>3. z \in Nat /\ s + 2 <= z
  BY PlaceNumbers
<1>4. q <= n
  BY DEF CutAt
<1>5. s <= q /\ q \in Nat
  OBVIOUS
<1>6. ASSUME NEW i \in 1 .. N, i # j PROVE (EndOfRow(m, i) + 2 <= s \/ z + 2 <= Place(m, i))
                                          /\ Place(m, i) \in Nat /\ EndOfRow(m, i) \in Nat
                                          /\ Place(m, i) + 2 <= EndOfRow(m, i)
  <2>1. EndOfRow(m, i) + 2 <= s \/ z + 2 <= Place(m, i)
    BY <1>6, PlacesApart
  <2>2. Place(m, i) \in Nat /\ EndOfRow(m, i) \in Nat /\ Place(m, i) + 2 <= EndOfRow(m, i)
    BY PlaceNumbers
  <2> QED BY <2>1, <2>2
<1> HIDE DEF z, w, x, n
<1>7. e <= z
  BY <1>2, <1>3, <1>5
<1>8. ASSUME NEW i \in 1 .. N, i # j PROVE ~(s <= Place(m, i) /\ Place(m, i) < w)
  <2> DEFINE b == Place(m, i)
             c == EndOfRow(m, i)
  <2>1. (c + 2 <= s \/ z + 2 <= b) /\ b \in Nat /\ c \in Nat /\ b + 2 <= c
    BY <1>6, <1>8
  <2> HIDE DEF b, c
  <2>2. ~(s <= b /\ b < w)
    BY <1>1, <1>3, <1>7, <2>1
  <2> QED BY <2>2 DEF b
<1>9. Between(m, q, w)
  <2> SUFFICES ASSUME NEW i \in 1 .. N, Place(m, i) < w, w <= q, w < EndOfRow(m, i) PROVE FALSE
    BY DEF Between
  <2>0. Place(m, i) < w /\ w <= q /\ w < EndOfRow(m, i)
    OBVIOUS
  <2>1. ~(q < z)
    BY <1>1, <1>2, <1>5, <2>0
  <2>2. e = z /\ w = z + 1
    BY <1>1, <1>2, <1>3, <1>4, <1>5, <2>0, <2>1
  <2>3. i # j
    BY <1>3, <2>0, <2>2 DEF z
  <2> QED BY <1>1, <1>3, <1>6, <2>0, <2>2, <2>3, SMTT(30)
<1>10. CASE s < q
  <2>1. x = FieldLine(m, q, j)
    <3>1. SubSeq(t, s, e - 1) = FieldLine(m, q, j)
      BY <1>10, RowText
    <3> QED BY <3>1 DEF x
  <2>2. s < w
    BY <1>1
  <2>3. LineOf(m, q, s, w, x)
    BY <1>8, <1>10, <2>1, <2>2 DEF LineOf
  <2> QED BY <1>9, <2>3 DEF w, x
<1>11. CASE s = q
  <2>1. Len(x) = 1
    BY <1>1, <1>2, <1>3, <1>11
  <2>2. ASSUME NEW i \in 1 .. N PROVE ~(s <= Place(m, i) /\ Place(m, i) < w /\ Place(m, i) < q)
    <3>1. Place(m, i) \in Nat
      BY PlaceNumbers
    <3> QED BY <1>1, <1>5, <1>11, <3>1
  <2>3. ~(Len(x) > 1)
    BY <2>1
  <2>4. LineOf(m, q, s, w, x)
    BY <2>2, <2>3 DEF LineOf
  <2> QED BY <1>9, <2>4 DEF w, x
<1>12. s < q \/ s = q
  BY <1>1, <1>5
<1> QED BY <1>10, <1>11, <1>12

\* Any line as it is read.
LEMMA ReadLine ==
  ASSUME NEW m \in HeaderBlocks, NEW t \in Seq(Tokens), NEW q \in Nat, CutAt(m, t, q),
         NEW p \in 1 .. Len(t) + 1, Between(m, q, p),
         NEW s \in p .. Len(t), \A i \in p .. s - 1 : t[i] \in LineEnds, NEW e, LineAt(t, s, e)
  PROVE  /\ Between(m, q, Behind(t, e))
         /\ LineOf(m, q, s, Behind(t, e), SubSeq(t, s, e - 1))
<1> DEFINE a == Len(Preamble(m))
           L == Len(Lined(m))
           w == Behind(t, e)
           x == SubSeq(t, s, e - 1)
           n == Len(t)
           N == Len(m.fields)
<1>1. /\ s \in Nat /\ 1 <= s /\ e \in Nat /\ s < e /\ e <= n + 1 /\ n \in Nat /\ w \in Nat /\ e <= w /\ w <= e + 1
      /\ Len(x) = e - s
  BY LineText
<1>2. s + 1 < e => x[1] = t[s] /\ x[2] = t[s + 1]
  BY LineText
<1>3. /\ q <= n /\ q <= L /\ \A i \in 1 .. q : t[i] = Lined(m)[i]
      /\ q < L => \A i \in q + 1 .. n : t[i] \in LineEnds
      /\ ~(q < L) => \A i \in q + 1 .. n : t[i] # ":"
  <2>1. q \in 0 .. L
    BY DEF CutAt
  <2>2. q <= L
    BY <2>1
  <2> QED BY <2>2 DEF CutAt
<1>4. t[s] \notin LineEnds
  <2>1. \A i \in s .. e - 1 : t[i] \notin LineEnds
    BY DEF LineAt
  <2>2. s \in s .. e - 1
    BY <1>1
  <2> QED BY <2>1, <2>2
<1>5. ASSUME NEW j \in 1 .. N PROVE Place(m, j) \in Nat /\ a < Place(m, j)
  BY PlaceNumbers
<1>6. Preamble(m) \in Seq(Tokens) /\ Lined(m) \in Seq(Tokens)
  BY PreambleIs, RowsTyped
<1>7. a \in Nat /\ L \in Nat
  BY <1>6
<1>8. CASE s > q
  <2>1. ~(q < L)
    <3> SUFFICES ASSUME q < L PROVE FALSE
      OBVIOUS
    <3>1. s \in q + 1 .. n
      BY <1>8
    <3> QED BY <1>3, <1>4, <3>1
  <2> HIDE DEF w, x, a, L, n
  <2>2. Between(m, q, w)
    <3>1. ~(w <= q)
      BY <1>1, <1>8
    <3> QED BY <3>1 DEF Between
  <2>3. ASSUME NEW j \in 1 .. N PROVE ~(s <= Place(m, j) /\ Place(m, j) < w /\ Place(m, j) < q)
    BY <1>1, <1>5, <1>8
  <2>4. ASSUME Len(x) > 1 PROVE x[2] # ":"
    <3>1. s + 1 < e /\ s + 1 \in q + 1 .. n
      BY <1>1, <1>8, <2>4
    <3> QED BY <1>2, <1>3, <2>1, <3>1
  <2>5. LineOf(m, q, s, w, x)
    BY <2>3, <2>4 DEF LineOf
  <2> QED BY <2>2, <2>5 DEF w, x
<1>9. CASE s <= q /\ s <= a
  <2>1. e <= a
    BY <1>9, PreambleLine
  <2>2. s + 1 < e /\ t[s + 1] = ":" => \A f \in DOMAIN Spellings : t[s] \notin Spellings[f]
    BY <1>9, PreambleLine
  <2> HIDE DEF w, x, a, L, n
  <2>3. ASSUME NEW j \in 1 .. N PROVE ~(Place(m, j) < w)
    BY <1>1, <1>5, <1>7, <2>1
  <2>4. Between(m, q, w)
    BY <2>3 DEF Between
  <2>5. ASSUME NEW f \in DOMAIN Spellings, Len(x) > 1, x[1] \in Spellings[f], x[2] = ":" PROVE FALSE
    <3>1. s + 1 < e
      BY <1>1, <2>5
    <3> QED BY <1>2, <2>2, <2>5, <3>1
  <2>6. LineOf(m, q, s, w, x)
    BY <2>3, <2>5 DEF LineOf
  <2> QED BY <2>4, <2>6 DEF w, x
<1>10. CASE s <= q /\ ~(s <= a)
  <2>1. s \in a + 1 .. L
    <3> HIDE DEF a, L
    <3>1. q <= L
      BY <1>3
    <3> QED BY <1>1, <1>7, <1>10, <3>1
  <2>2. PICK j \in 1 .. N : Place(m, j) <= s /\ s <= EndOfRow(m, j) + 1
    BY <2>1, PlaceWhere
  <2>3. t[s] = Lined(m)[s]
    BY <1>1, <1>3, <1>10
  <2>4. s # EndOfRow(m, j) /\ s # EndOfRow(m, j) + 1
    <3>1. Lined(m)[EndOfRow(m, j)] = "CR" /\ Lined(m)[EndOfRow(m, j) + 1] = "LF"
      BY PlaceHas
    <3> QED BY <1>4, <2>3, <3>1 DEF LineEnds
  <2>5. s < EndOfRow(m, j)
    <3>1. EndOfRow(m, j) \in Nat
      BY PlaceNumbers
    <3> QED BY <1>1, <2>2, <2>4, <3>1
  <2>6. s = Place(m, j)
    BY <1>10, <2>2, <2>5, LineStarts
  <2> QED BY <1>10, <2>6, ReadRow
<1>11. s > q \/ s <= q
  BY <1>1
<1> QED BY <1>8, <1>9, <1>10, <1>11

-----------------------------------------------------------------------------
(* The list of the headers.                                                *)

\* The nodes of list l that have name f.
Nodes(l, f) == {i \in DOMAIN l : \E s \in Spellings[f] : l[i].type = <<s>>}

\* The fields of that name that are before place p, as far as the first q tokens have them.
Before(m, q, p, f) ==
  {j \in 1 .. Len(m.fields) : m.fields[j].name \in Spellings[f] /\ Place(m, j) < p /\ Place(m, j) < q}

\* The list has a node of that name when there is such a field, and the first of them
\* has the value of the first.
KnownAs(l, m, q, p, f) ==
  /\ Nodes(l, f) = {} <=> Before(m, q, p, f) = {}
  /\ Nodes(l, f) # {} =>
       l[FirstOf[Nodes(l, f)]].packet = TrimSpaces(Had(m, q, FirstOf[Before(m, q, p, f)]))

Known(l, m, q, p) == \A f \in DOMAIN Spellings : KnownAs(l, m, q, p, f)

HeaderNodes == [type : Seq(Tokens), packet : Seq(Tokens)]

\* What is added behind does not become the first.
LEMMA FirstStays ==
  ASSUME NEW A, A \subseteq Nat \ {0}, NEW x \in Nat \ {0}, \A a \in A : a < x
  PROVE  /\ A = {} => FirstOf[A \cup {x}] = x
         /\ A # {} => FirstOf[A \cup {x}] = FirstOf[A] /\ FirstOf[A] \in A
<1> DEFINE B == A \cup {x}
<1>1. B \subseteq Nat \ {0} /\ B # {}
  OBVIOUS
<1>2. FirstOf[B] \in B /\ \A j \in B : FirstOf[B] <= j
  <2> HIDE DEF B
  <2> QED BY <1>1, FirstOfIs
<1>3. A # {} => FirstOf[A] \in A /\ \A j \in A : FirstOf[A] <= j
  BY FirstOfIs
<1>4. CASE A = {}
  BY <1>2, <1>4
<1>5. CASE A # {}
  <2>1. FirstOf[A] \in A /\ \A j \in A : FirstOf[A] <= j
    BY <1>3, <1>5
  <2>2. FirstOf[B] <= FirstOf[A] /\ FirstOf[A] < x /\ FirstOf[A] \in Nat
    BY <1>2, <2>1
  <2>3. FirstOf[B] \in A
    BY <1>1, <1>2, <2>2
  <2>4. FirstOf[A] <= FirstOf[B] /\ FirstOf[B] \in Nat
    BY <1>1, <1>2, <2>1, <2>3
  <2>5. FirstOf[A] = FirstOf[B]
    BY <2>2, <2>4
  <2> QED BY <1>5, <2>1, <2>5
<1> QED BY <1>4, <1>5

\* No field begins among line ends.
LEMMA BeforeSkips ==
  ASSUME NEW m \in HeaderBlocks, NEW t \in Seq(Tokens), NEW q \in Nat, CutAt(m, t, q),
         NEW p \in Nat, NEW s \in Nat, p <= s, \A i \in p .. s - 1 : t[i] \in LineEnds, NEW f
  PROVE  Before(m, q, s, f) = Before(m, q, p, f)
<1>1. ASSUME NEW j \in 1 .. Len(m.fields), Place(m, j) < q
      PROVE  Place(m, j) < s <=> Place(m, j) < p
  <2>1. Place(m, j) \in Nat /\ EndOfRow(m, j) \in Nat /\ Place(m, j) + 2 <= EndOfRow(m, j)
    BY PlaceNumbers
  <2> DEFINE x == Place(m, j)
             z == EndOfRow(m, j)
  <2> HIDE DEF x, z
  <2>2. x \in Nat /\ z \in Nat /\ x + 2 <= z /\ x < q
    BY <1>1, <2>1 DEF x, z
  <2>3. x <= x /\ x < z /\ x <= q
    BY <2>2
  <2>4. t[x] \notin LineEnds
    BY <2>2, <2>3, FieldRead DEF x, z
  <2>5. ~(p <= x /\ x < s)
    <3> SUFFICES ASSUME p <= x, x < s PROVE FALSE
      OBVIOUS
    <3>1. x \in p .. s - 1
      BY <2>2
    <3> QED BY <2>4, <3>1
  <2>6. x < s <=> x < p
    BY <2>2, <2>5
  <2> QED BY <2>6 DEF x
<1> QED BY <1>1 DEF Before

\* A list that grows by a node.
LEMMA NodesGrow ==
  ASSUME NEW l \in Seq(HeaderNodes), NEW d \in HeaderNodes, NEW f \in DOMAIN Spellings
  PROVE  /\ Append(l, d) \in Seq(HeaderNodes) /\ Len(l) \in Nat
         /\ \A i \in 1 .. Len(l) : Append(l, d)[i] = l[i]
         /\ Append(l, d)[Len(l) + 1] = d
         /\ Nodes(l, f) \subseteq 1 .. Len(l)
         /\ Nodes(Append(l, d), f)
              = Nodes(l, f) \cup (IF \E s \in Spellings[f] : d.type = <<s>> THEN {Len(l) + 1} ELSE {})
<1> DEFINE k == Append(l, d)
           n == Len(l)
<1>1. /\ k \in Seq(HeaderNodes) /\ n \in Nat /\ Len(k) = n + 1
      /\ \A i \in 1 .. n : k[i] = l[i]
      /\ k[n + 1] = d
  <2> DEFINE H == HeaderNodes
  <2>1. l \in Seq(H) /\ d \in H
    OBVIOUS
  <2> HIDE DEF H
  <2>2. Append(l, d) \in Seq(H) /\ Len(l) \in Nat /\ Len(Append(l, d)) = Len(l) + 1
        /\ (\A i \in 1 .. Len(l) : Append(l, d)[i] = l[i]) /\ Append(l, d)[Len(l) + 1] = d
    BY <2>1
  <2> QED BY <2>2 DEF H
<1>2. DOMAIN l = 1 .. n /\ DOMAIN k = 1 .. Len(k)
  <2>1. k \in Seq(HeaderNodes)
    BY <1>1
  <2> HIDE DEF k
  <2> QED BY <2>1
<1> HIDE DEF k, n
<1>3. Nodes(l, f) \subseteq 1 .. n
  BY <1>2 DEF Nodes
<1>4. DOMAIN k = 1 .. n \cup {n + 1}
  BY <1>1, <1>2
<1>5. n + 1 \notin 1 .. n
  BY <1>1
<1> DEFINE has(i, u) == \E s \in Spellings[f] : u[i].type = <<s>>
<1>6. Nodes(l, f) = {i \in 1 .. n : has(i, l)} /\ Nodes(k, f) = {i \in 1 .. n \cup {n + 1} : has(i, k)}
  BY <1>2, <1>4 DEF Nodes
<1>7. \A i \in 1 .. n : has(i, k) <=> has(i, l)
  BY <1>1
<1>8. has(n + 1, k) <=> \E s \in Spellings[f] : d.type = <<s>>
  BY <1>1
<1> HIDE DEF has
<1>9. Nodes(k, f) = Nodes(l, f) \cup (IF has(n + 1, k) THEN {n + 1} ELSE {})
  BY <1>5, <1>6, <1>7
<1>10. Nodes(k, f) = Nodes(l, f) \cup (IF \E s \in Spellings[f] : d.type = <<s>> THEN {n + 1} ELSE {})
  BY <1>8, <1>9, Zenon
<1> QED BY <1>1, <1>3, <1>10 DEF k, n

\* What a line with a colon at place k is listed as.
Entry(x, k) == [type |-> SubSeq(x, 1, k - 1), packet |-> TrimSpaces(From(x, k + 1))]

\* The list behind line x.
Lengthened(l, x) ==
  LET k == Find(<<":">>, x, 1) IN IF k = 0 THEN l ELSE Append(l, Entry(x, k))

LEMMA TrimmedTyped == ASSUME NEW t \in Seq(Tokens) PROVE TrimSpaces(t) \in Seq(Tokens)
<1>1. WithoutLeading({" "}, t) \in Seq(Tokens)
  BY TrimTyped
<1> QED BY <1>1, TrimTyped DEF TrimSpaces

\* An entry is a node; its name is one token only when it is that before a colon.
LEMMA EntryIs ==
  ASSUME NEW x \in Seq(Tokens), NEW k, k = Find(<<":">>, x, 1), k # 0
  PROVE  /\ Entry(x, k) \in HeaderNodes
         /\ \A s : Entry(x, k).type = <<s>> => k = 2 /\ Len(x) > 1 /\ x[1] = s /\ x[2] = ":"
<1> DEFINE n == Len(x)
<1>1. k \in 1 .. n /\ x[k] = ":" /\ n \in Nat
  <2>1. 1 \in Nat /\ 1 <= 1
    OBVIOUS
  <2> QED BY <2>1, FindToken
<1>2. k \in Nat /\ 1 <= k /\ k <= n /\ k - 1 \in Int /\ k - 1 <= n /\ 1 <= k + 1 /\ k + 1 \in Nat /\ n \in Int
  BY <1>1
<1>3. SubSeq(x, 1, k - 1) \in Seq(Tokens) /\ Len(SubSeq(x, 1, k - 1)) = k - 1
  <2>1. Len(SubSeq(x, 1, k - 1)) = IF 1 <= k - 1 THEN k - 1 - 1 + 1 ELSE 0
    BY <1>2, Piece
  <2>2. SubSeq(x, 1, k - 1) \in Seq(Tokens)
    BY <1>2, Piece
  <2>3. (IF 1 <= k - 1 THEN k - 1 - 1 + 1 ELSE 0) = k - 1
    BY <1>2
  <2> QED BY <2>1, <2>2, <2>3
<1>4. TrimSpaces(From(x, k + 1)) \in Seq(Tokens)
  <2>1. From(x, k + 1) \in Seq(Tokens)
    BY <1>2, Piece DEF From
  <2> QED BY <2>1, TrimmedTyped
<1>5. Entry(x, k) \in HeaderNodes
  BY <1>3, <1>4 DEF Entry, HeaderNodes
<1>6. ASSUME NEW s, Entry(x, k).type = <<s>>
      PROVE  k = 2 /\ Len(x) > 1 /\ x[1] = s /\ x[2] = ":"
  <2>1. SubSeq(x, 1, k - 1) = <<s>>
    BY <1>6 DEF Entry
  <2>2. Len(<<s>>) = 1 /\ <<s>>[1] = s
    OBVIOUS
  <2>3. k = 2
    BY <1>2, <1>3, <2>1, <2>2
  <2>4. SubSeq(x, 1, k - 1)[1] = x[1]
    <3>1. \A i \in 1 .. k - 1 - 1 + 1 : SubSeq(x, 1, k - 1)[i] = x[1 + i - 1]
      BY <1>2, PieceAt
    <3>2. 1 \in 1 .. k - 1 - 1 + 1 /\ 1 + 1 - 1 = 1
      BY <2>3
    <3> QED BY <3>1, <3>2
  <2>5. Len(x) > 1
    BY <1>2, <2>3
  <2> QED BY <1>1, <2>1, <2>2, <2>3, <2>4, <2>5
<1> QED BY <1>5, <1>6

\* The entry of the line of a field.
LEMMA FieldEntry ==
  ASSUME NEW m \in HeaderBlocks, NEW q \in Nat, NEW j \in 1 .. Len(m.fields), Place(m, j) < q,
         NEW x, x = FieldLine(m, q, j)
  PROVE  /\ x \in Seq(Tokens) /\ Find(<<":">>, x, 1) = 2
         /\ Entry(x, 2).type = <<m.fields[j].name>>
         /\ Entry(x, 2).packet = TrimSpaces(Had(m, q, j))
         /\ Had(m, q, j) \in Seq(Tokens)
<1> DEFINE g == m.fields[j].name
           a == <<g, ":">>
           h == Had(m, q, j)
           v == OneLine(m.fields[j])
           k == Len(v)
           e == EndOfRow(m, j)
           s == Place(m, j)
           n == IF q < e THEN q - s - 1 ELSE k
<1>1. g \in Tokens /\ g # ":"
  BY FieldIs
<1>2. v \in Seq(Tokens)
  BY OneLineTyped, SmoothWithin
<1>3. a \in Seq(Tokens)
  BY FieldTyped
<1>4. s \in Nat /\ k \in Nat /\ e = s + 2 + k /\ s < q
  BY PlaceHas
<1>5. h = SubSeq(v, 1, n)
  BY DEF Had
<1>6. x = a \o h
  BY DEF FieldLine
<1>7. Len(a) = 2 /\ a[1] = g /\ a[2] = ":"
  OBVIOUS
<1> HIDE DEF v, k, e, s, h, a, g
<1>8. n \in Int /\ n <= k
  BY <1>4
<1>9. h \in Seq(Tokens)
  <2> HIDE DEF n
  <2> QED BY <1>2, <1>5, <1>8, Piece DEF k
<1> HIDE DEF n
<1>10. /\ x \in Seq(Tokens) /\ Len(h) \in Nat /\ Len(x) = Len(a) + Len(h)
       /\ \A i \in 1 .. Len(a) : x[i] = a[i]
       /\ \A i \in 1 .. Len(h) : x[Len(a) + i] = h[i]
  BY <1>3, <1>6, <1>9, Joined
<1>11. Len(h) \in Nat /\ Len(x) = 2 + Len(h)
  BY <1>7, <1>10
<1>12. x[1] = g /\ x[2] = ":"
  <2>1. 1 \in 1 .. Len(a) /\ 2 \in 1 .. Len(a)
    BY <1>7
  <2> QED BY <1>7, <1>10, <2>1
<1>13. Find(<<":">>, x, 1) = 2
  <2>1. 2 \in 1 .. Len(x) /\ \A i \in 1 .. 2 - 1 : x[i] # ":"
    <3>1. 2 \in 1 .. Len(x) /\ \A i \in 1 .. 2 - 1 : i = 1
      BY <1>11
    <3> QED BY <1>1, <1>12, <3>1
  <2>2. 1 \in Nat /\ 1 <= 1 /\ x \in Seq(Tokens)
    BY <1>10
  <2> QED BY <1>12, <2>1, <2>2, FindIs
<1>14. SubSeq(x, 1, 1) = <<g>>
  <2> DEFINE y == SubSeq(x, 1, 1)
  <2>0. x \in Seq(Tokens) /\ 1 <= Len(x) /\ 1 \in Nat /\ 1 \in Int /\ 1 <= 1
    BY <1>10, <1>11
  <2>1. y \in Seq(Tokens) /\ Len(y) = IF 1 <= 1 THEN 1 - 1 + 1 ELSE 0
    BY <2>0, Piece
  <2>2. \A i \in 1 .. 1 - 1 + 1 : y[i] = x[1 + i - 1]
    BY <2>0, PieceAt
  <2>3. Len(y) = 1 /\ y[1] = x[1]
    <3> HIDE DEF y
    <3>1. 1 \in 1 .. 1 - 1 + 1 /\ 1 + 1 - 1 = 1
      OBVIOUS
    <3> QED BY <2>1, <2>2, <3>1
  <2> HIDE DEF y
  <2>4. y = <<g>>
    BY <1>12, <2>1, <2>3
  <2> QED BY <2>4 DEF y
<1>15. From(x, 3) = h
  <2> DEFINE y == SubSeq(x, 3, Len(x))
  <2>1. 3 \in Nat /\ 1 <= 3 /\ Len(x) \in Int /\ Len(x) <= Len(x) /\ Len(x) - 3 + 1 = Len(h)
    BY <1>11
  <2>2. y \in Seq(Tokens) /\ Len(y) = IF 3 <= Len(x) THEN Len(x) - 3 + 1 ELSE 0
    BY <1>10, <2>1, Piece
  <2>3. Len(y) = Len(h)
    <3> HIDE DEF y
    <3> QED BY <1>11, <2>1, <2>2
  <2>4. \A i \in 1 .. Len(x) - 3 + 1 : y[i] = x[3 + i - 1]
    BY <1>10, <2>1, PieceAt
  <2> HIDE DEF y
  <2>5. \A i \in 1 .. Len(h) : y[i] = h[i]
    <3> SUFFICES ASSUME NEW i \in 1 .. Len(h) PROVE y[i] = h[i]
      OBVIOUS
    <3>1. i \in 1 .. Len(x) - 3 + 1 /\ 3 + i - 1 = Len(a) + i
      BY <1>7, <2>1
    <3> QED BY <1>10, <2>4, <3>1
  <2>6. y = h
    BY <1>9, <2>2, <2>3, <2>5
  <2> QED BY <2>6 DEF y, From
<1>16. Entry(x, 2).type = <<g>> /\ Entry(x, 2).packet = TrimSpaces(h)
  <2>1. 2 - 1 = 1 /\ 2 + 1 = 3
    OBVIOUS
  <2> QED BY <1>14, <1>15, <2>1 DEF Entry
<1> QED BY <1>9, <1>10, <1>13, <1>16 DEF h, g

\* A line that is none of the four adds none of them.
LEMMA ListOther ==
  ASSUME NEW m \in HeaderBlocks, NEW q \in Nat, NEW s \in Nat, NEW p \in Nat, s <= p,
         NEW l \in Seq(HeaderNodes), NEW x \in Seq(Tokens), Known(l, m, q, s),
         \A j \in 1 .. Len(m.fields) : ~(s <= Place(m, j) /\ Place(m, j) < p /\ Place(m, j) < q),
         \A f \in DOMAIN Spellings : ~(Len(x) > 1 /\ x[1] \in Spellings[f] /\ x[2] = ":")
  PROVE  Known(Lengthened(l, x), m, q, p)
<1> DEFINE k == Find(<<":">>, x, 1)
           n == Lengthened(l, x)
<1> SUFFICES ASSUME NEW f \in DOMAIN Spellings PROVE KnownAs(n, m, q, p, f)
  BY DEF Known
<1>1. KnownAs(l, m, q, s, f)
  BY DEF Known
<1>2. Before(m, q, p, f) = Before(m, q, s, f)
  <2>1. ASSUME NEW j \in 1 .. Len(m.fields), Place(m, j) < q PROVE Place(m, j) < p <=> Place(m, j) < s
    <3>1. Place(m, j) \in Nat
      BY PlaceNumbers
    <3>2. ~(s <= Place(m, j) /\ Place(m, j) < p)
      BY <2>1
    <3> DEFINE y == Place(m, j)
    <3>3. y \in Nat /\ ~(s <= y /\ y < p) /\ s \in Nat /\ p \in Nat /\ s <= p
      BY <3>1, <3>2
    <3> HIDE DEF y
    <3>4. y < p <=> y < s
      BY <3>3
    <3> QED BY <3>4 DEF y
  <2> QED BY <2>1 DEF Before
<1>3. CASE k = 0
  <2>1. n = l
    BY <1>3 DEF Lengthened
  <2> QED BY <1>1, <1>2, <2>1 DEF KnownAs
<1>4. CASE k # 0
  <2> DEFINE d == Entry(x, k)
  <2>1. n = Append(l, d)
    BY <1>4 DEF Lengthened
  <2>2. d \in HeaderNodes
    BY <1>4, EntryIs
  <2>3. ~\E y \in Spellings[f] : d.type = <<y>>
    <3> SUFFICES ASSUME NEW y \in Spellings[f], d.type = <<y>> PROVE FALSE
      OBVIOUS
    <3>1. Len(x) > 1 /\ x[1] = y /\ x[2] = ":"
      BY <1>4, EntryIs
    <3> QED BY <3>1
  <2> HIDE DEF d, k, n
  <2>4. /\ Nodes(n, f) = Nodes(l, f) /\ Nodes(l, f) \subseteq 1 .. Len(l) /\ Len(l) \in Nat
        /\ \A i \in 1 .. Len(l) : n[i] = l[i]
    <3>1. /\ Nodes(Append(l, d), f) = Nodes(l, f) \cup (IF \E y \in Spellings[f] : d.type = <<y>> THEN {Len(l) + 1} ELSE {})
          /\ Nodes(l, f) \subseteq 1 .. Len(l) /\ Len(l) \in Nat
          /\ \A i \in 1 .. Len(l) : Append(l, d)[i] = l[i]
      BY <2>2, NodesGrow
    <3>2. Nodes(l, f) \cup (IF \E y \in Spellings[f] : d.type = <<y>> THEN {Len(l) + 1} ELSE {}) = Nodes(l, f)
      BY <2>3
    <3>3. Nodes(Append(l, d), f) = Nodes(l, f)
      BY <3>1, <3>2, Zenon
    <3>4. Nodes(l, f) \subseteq 1 .. Len(l) /\ Len(l) \in Nat /\ \A i \in 1 .. Len(l) : Append(l, d)[i] = l[i]
      BY <3>1
    <3> QED BY <2>1, <3>3, <3>4, Zenon
  <2>5. ASSUME Nodes(n, f) # {} PROVE n[FirstOf[Nodes(n, f)]] = l[FirstOf[Nodes(l, f)]]
    <3>1. Nodes(l, f) \subseteq Nat \ {0} /\ Nodes(l, f) # {}
      BY <2>4, <2>5
    <3>2. FirstOf[Nodes(l, f)] \in Nodes(l, f)
      BY <3>1, FirstOfIs
    <3> QED BY <2>4, <3>2
  <2> QED BY <1>1, <1>2, <2>4, <2>5 DEF KnownAs
<1> QED BY <1>3, <1>4

\* The line of a field adds it, behind the fields before it.
LEMMA ListField ==
  ASSUME NEW m \in HeaderBlocks, NEW q \in Nat, NEW p \in Nat,
         NEW j \in 1 .. Len(m.fields), NEW s, s = Place(m, j), s < q, s < p,
         \A i \in 1 .. Len(m.fields) : i # j => ~(s <= Place(m, i) /\ Place(m, i) < p /\ Place(m, i) < q),
         NEW l \in Seq(HeaderNodes), Known(l, m, q, s), NEW x, x = FieldLine(m, q, j)
  PROVE  Known(Lengthened(l, x), m, q, p)
<1> DEFINE n == Lengthened(l, x)
           d == Entry(x, 2)
           N == Len(m.fields)
           g == m.fields[j].name
<1> SUFFICES ASSUME NEW f \in DOMAIN Spellings PROVE KnownAs(n, m, q, p, f)
  BY DEF Known
<1>0. x \in Seq(Tokens) /\ Find(<<":">>, x, 1) = 2 /\ d.type = <<g>> /\ d.packet = TrimSpaces(Had(m, q, j))
  <2>1. Place(m, j) < q
    OBVIOUS
  <2>2. x \in Seq(Tokens) /\ Find(<<":">>, x, 1) = 2
    BY <2>1, FieldEntry
  <2>3. d.type = <<g>>
    BY <2>1, FieldEntry
  <2>4. d.packet = TrimSpaces(Had(m, q, j))
    BY <2>1, FieldEntry
  <2> QED BY <2>2, <2>3, <2>4
<1>1. n = Append(l, d)
  <2>1. Find(<<":">>, x, 1) = 2 /\ 2 # 0
    BY <1>0
  <2> QED BY <2>1 DEF Lengthened
<1>2. d \in HeaderNodes
  <2>1. 2 = Find(<<":">>, x, 1) /\ 2 # 0 /\ x \in Seq(Tokens)
    BY <1>0
  <2> QED BY <2>1, EntryIs
<1>3. (\E y \in Spellings[f] : d.type = <<y>>) <=> g \in Spellings[f]
  <2>1. \A y : <<g>> = <<y>> <=> g = y
    OBVIOUS
  <2> HIDE DEF g, d
  <2> QED BY <1>0, <2>1
<1>4. KnownAs(l, m, q, s, f)
  BY DEF Known
<1> DEFINE A == Nodes(l, f)
           B == Before(m, q, s, f)
<1>5. /\ Nodes(Append(l, d), f) = A \cup (IF \E y \in Spellings[f] : d.type = <<y>> THEN {Len(l) + 1} ELSE {})
      /\ A \subseteq 1 .. Len(l) /\ Len(l) \in Nat
      /\ \A i \in 1 .. Len(l) : Append(l, d)[i] = l[i]
      /\ Append(l, d)[Len(l) + 1] = d
  BY <1>2, NodesGrow
<1>6. s \in Nat /\ N \in Nat
  BY PlaceNumbers, BlockIs
<1>7. B \subseteq 1 .. N /\ \A i \in B : i < j
  <2>1. B \subseteq 1 .. N
    BY DEF Before
  <2>2. ASSUME NEW i \in B PROVE i < j
    <3>1. i \in 1 .. N /\ Place(m, i) < s
      BY <2>2 DEF Before
    <3>2. i # j
      BY <1>6, <3>1
    <3>3. ~(j < i)
      <4> SUFFICES ASSUME j < i PROVE FALSE
        OBVIOUS
      <4>1. i \in j + 1 .. N
        BY <3>1
      <4>2. EndOfRow(m, j) + 2 <= Place(m, i)
        BY <4>1, PlacesGrow
      <4>3. EndOfRow(m, j) \in Nat /\ s + 2 <= EndOfRow(m, j)
        BY PlaceNumbers
      <4>4. Place(m, i) \in Nat
        BY <3>1, PlaceNumbers
      <4> QED BY <1>6, <3>1, <4>2, <4>3, <4>4
    <3> QED BY <3>1, <3>2, <3>3
  <2> QED BY <2>1, <2>2
<1>8. Before(m, q, p, f) = B \cup (IF g \in Spellings[f] THEN {j} ELSE {})
  <2>1. ASSUME NEW i \in 1 .. N, i # j, Place(m, i) < q PROVE Place(m, i) < p <=> Place(m, i) < s
    <3>1. Place(m, i) \in Nat
      BY PlaceNumbers
    <3>2. ~(s <= Place(m, i) /\ Place(m, i) < p)
      BY <2>1
    <3> DEFINE y == Place(m, i)
    <3>3. y \in Nat /\ ~(s <= y /\ y < p) /\ s \in Nat /\ p \in Nat /\ s < p
      BY <1>6, <3>1, <3>2
    <3> HIDE DEF y
    <3>4. y < p <=> y < s
      BY <3>3
    <3> QED BY <3>4 DEF y
  <2>2. ~(Place(m, j) < s)
    BY <1>6
  <2> QED BY <2>1, <2>2 DEF Before
<1> HIDE DEF n, d, A, B, g, N
<1>9. CASE g \notin Spellings[f]
  <2>1. Nodes(n, f) = A /\ Before(m, q, p, f) = B
    BY <1>1, <1>3, <1>5, <1>8, <1>9
  <2>2. ASSUME A # {} PROVE n[FirstOf[A]] = l[FirstOf[A]]
    <3>1. A \subseteq Nat \ {0}
      BY <1>5
    <3>2. FirstOf[A] \in A
      BY <2>2, <3>1, FirstOfIs
    <3> QED BY <1>1, <1>5, <3>2
  <2> QED BY <1>4, <2>1, <2>2 DEF KnownAs, A, B
<1>10. CASE g \in Spellings[f]
  <2>1. Nodes(n, f) = A \cup {Len(l) + 1} /\ Before(m, q, p, f) = B \cup {j}
    BY <1>1, <1>3, <1>5, <1>8, <1>10
  <2>2. /\ A \subseteq Nat \ {0} /\ Len(l) + 1 \in Nat \ {0} /\ \A a \in A : a < Len(l) + 1
        /\ B \subseteq Nat \ {0} /\ j \in Nat \ {0}
    <3>1. Len(l) \in Nat /\ A \subseteq 1 .. Len(l)
      BY <1>5
    <3>2. A \subseteq Nat \ {0} /\ Len(l) + 1 \in Nat \ {0} /\ \A a \in A : a < Len(l) + 1
      BY <3>1
    <3>3. B \subseteq Nat \ {0} /\ j \in Nat \ {0}
      <4>1. j \in 1 .. N
        BY DEF N
      <4> QED BY <1>6, <1>7, <4>1
    <3> QED BY <3>2, <3>3
  <2>3. CASE A = {}
    <3>1. B = {}
      BY <1>4, <2>3 DEF KnownAs, A, B
    <3>2. FirstOf[A \cup {Len(l) + 1}] = Len(l) + 1
      BY <2>2, <2>3, FirstStays
    <3>3. FirstOf[B \cup {j}] = j
      <4>1. B \subseteq Nat \ {0} /\ j \in Nat \ {0} /\ \A b \in B : b < j
        BY <1>7, <2>2
      <4> QED BY <3>1, <4>1, FirstStays
    <3>4. n[Len(l) + 1].packet = TrimSpaces(Had(m, q, j))
      BY <1>0, <1>1, <1>5
    <3> QED BY <2>1, <3>2, <3>3, <3>4 DEF KnownAs
  <2>4. CASE A # {}
    <3>1. B # {} /\ l[FirstOf[A]].packet = TrimSpaces(Had(m, q, FirstOf[B]))
      BY <1>4, <2>4 DEF KnownAs, A, B
    <3>2. FirstOf[A \cup {Len(l) + 1}] = FirstOf[A] /\ FirstOf[A] \in A
      BY <2>2, <2>4, FirstStays
    <3>3. FirstOf[B \cup {j}] = FirstOf[B]
      <4>1. B \subseteq Nat \ {0} /\ j \in Nat \ {0} /\ \A b \in B : b < j
        BY <1>7, <2>2
      <4> QED BY <3>1, <4>1, FirstStays
    <3>4. n[FirstOf[A]] = l[FirstOf[A]]
      BY <1>1, <1>5, <3>2
    <3> QED BY <2>1, <3>1, <3>2, <3>3, <3>4 DEF KnownAs
  <2> QED BY <2>3, <2>4
<1> QED BY <1>9, <1>10

-----------------------------------------------------------------------------
(* The lines that strtok() returns.                                        *)

LEMMA PieceOfPiece ==
  ASSUME NEW S, NEW t \in Seq(S), NEW p \in Nat, 1 <= p, NEW n \in Int, n <= Len(t),
         NEW a \in Nat, 1 <= a, NEW b \in Int, b <= n - p + 1
  PROVE  SubSeq(SubSeq(t, p, n), a, b) = SubSeq(t, p + a - 1, p + b - 1)
<1> DEFINE x == SubSeq(t, p, n)
           y == SubSeq(x, a, b)
           c == p + a - 1
           d == p + b - 1
           z == SubSeq(t, c, d)
<1>1. Len(t) \in Nat /\ c \in Nat /\ 1 <= c /\ d \in Int /\ d <= n /\ d <= Len(t) /\ d - c = b - a
      /\ (c <= d <=> a <= b)
  OBVIOUS
<1>2. x \in Seq(S) /\ Len(x) = IF p <= n THEN n - p + 1 ELSE 0
  BY Piece
<1>3. \A i \in 1 .. n - p + 1 : x[i] = t[p + i - 1]
  BY PieceAt
<1> HIDE DEF x
<1>4. ASSUME ~(a <= b) PROVE y = z
  <2>1. y = <<>> /\ z = <<>>
    BY <1>1, <1>2, <1>4
  <2> QED BY <2>1
<1>5. ASSUME a <= b PROVE y = z
  <2>1. p <= n /\ b <= Len(x) /\ c <= d
    BY <1>1, <1>2, <1>5
  <2>2. y \in Seq(S) /\ Len(y) = b - a + 1
    BY <1>2, <1>5, <2>1, Piece
  <2>3. z \in Seq(S) /\ Len(z) = d - c + 1
    <3> HIDE DEF c, d
    <3> QED BY <1>1, <2>1, Piece
  <2>4. \A i \in 1 .. b - a + 1 : y[i] = x[a + i - 1]
    BY <1>2, <2>1, PieceAt
  <2>5. \A i \in 1 .. d - c + 1 : z[i] = t[c + i - 1]
    <3> HIDE DEF c, d
    <3> QED BY <1>1, PieceAt
  <2>6. ASSUME NEW i \in 1 .. b - a + 1 PROVE y[i] = z[i]
    <3>1. a + i - 1 \in 1 .. n - p + 1 /\ i \in 1 .. d - c + 1 /\ c + i - 1 = p + (a + i - 1) - 1
      OBVIOUS
    <3> QED BY <1>3, <2>4, <2>5, <3>1
  <2>7. Len(y) = b - a + 1 /\ Len(z) = b - a + 1
    BY <1>1, <2>2, <2>3
  <2> HIDE DEF y, z
  <2>8. y = z
    BY <2>2, <2>3, <2>6, <2>7
  <2> QED BY <2>8 DEF y, z
<1>6. y = z
  <2> HIDE DEF y, z
  <2> QED BY <1>4, <1>5
<1> QED BY <1>6 DEF x

\* From place p of t, the next line is from s to e.
NextAt(t, p, s, e) ==
  s \in p .. Len(t) /\ (\A i \in p .. s - 1 : t[i] \in LineEnds) /\ LineAt(t, s, e)

\* The line that is found in x, which is t from place p on, is the next line of t.
FoundAt(t, s, e, x, a, b) ==
  /\ SubSeq(x, a, IF b = 0 THEN Len(x) ELSE b - 1) = SubSeq(t, s, e - 1)
  /\ (IF b = 0 THEN <<>> ELSE From(x, b + 1)) = From(t, Behind(t, e))

LEMMA LineSplit ==
  ASSUME NEW t \in Seq(Tokens), NEW p \in 1 .. Len(t) + 1, NEW x, x = From(t, p),
         NEW a, a = FirstOf[{i \in DOMAIN x : x[i] \notin LineEnds}], a # 0,
         NEW b, b = FindOneOf(LineEnds, x, a)
  PROVE  \E s \in Nat, e \in Nat : NextAt(t, p, s, e) /\ FoundAt(t, s, e, x, a, b)
<1> DEFINE n == Len(t)
           A == {i \in DOMAIN x : x[i] \notin LineEnds}
           B == {i \in a .. Len(x) : x[i] \in LineEnds}
           s == p + a - 1
           e == IF b = 0 THEN n + 1 ELSE p + b - 1
           f == IF b = 0 THEN Len(x) ELSE b - 1
<1>1. n \in Nat /\ p \in Nat /\ 1 <= p /\ p <= n + 1 /\ n \in Int /\ n <= Len(t)
  OBVIOUS
<1>2. x = SubSeq(t, p, n)
  BY DEF From
<1>3. x \in Seq(Tokens) /\ Len(x) = n - p + 1 /\ \A i \in 1 .. n - p + 1 : x[i] = t[p + i - 1]
  <2> HIDE DEF n
  <2>1. n <= Len(t)
    BY <1>1
  <2>2. x \in Seq(Tokens) /\ Len(x) = IF p <= n THEN n - p + 1 ELSE 0
    BY <1>1, <1>2, Piece
  <2>3. Len(x) = n - p + 1
    BY <1>1, <2>2
  <2>4. \A i \in 1 .. n - p + 1 : x[i] = t[p + i - 1]
    BY <1>1, <1>2, PieceAt
  <2> QED BY <2>2, <2>3, <2>4
<1>4. DOMAIN x = 1 .. Len(x)
  BY <1>3
<1>5. a \in A /\ \A i \in A : a <= i
  <2>1. A \subseteq Nat \ {0}
    BY <1>4
  <2> HIDE DEF A
  <2>2. a = FirstOf[A]
    BY DEF A
  <2> QED BY <2>1, <2>2, FirstOfIs
<1> HIDE DEF n
<1>6. a \in Nat /\ 1 <= a /\ a <= n - p + 1 /\ x[a] \notin LineEnds
  <2>1. a \in 1 .. Len(x) /\ x[a] \notin LineEnds
    BY <1>4, <1>5
  <2>2. Len(x) = n - p + 1
    BY <1>3
  <2> QED BY <1>1, <2>1, <2>2
<1>7. ASSUME NEW i \in 1 .. a - 1 PROVE x[i] \in LineEnds
  <2> SUFFICES ASSUME x[i] \notin LineEnds PROVE FALSE
    OBVIOUS
  <2>1. i \in 1 .. Len(x) /\ ~(a <= i)
    <3>1. Len(x) = n - p + 1
      BY <1>3
    <3> QED BY <1>1, <1>6, <3>1
  <2> QED BY <1>4, <1>5, <2>1
<1>8. \/ b = 0 /\ \A i \in a .. n - p + 1 : x[i] \notin LineEnds
      \/ /\ b \in Nat /\ a < b /\ b <= n - p + 1 /\ x[b] \in LineEnds
         /\ \A i \in a .. b - 1 : x[i] \notin LineEnds
  <2>0. Len(x) = n - p + 1
    BY <1>3
  <2>1. B \subseteq Nat \ {0}
    <3> DEFINE k == Len(x)
    <3>1. k \in Int /\ a \in Nat /\ 1 <= a
      BY <1>1, <1>6, <2>0
    <3> HIDE DEF k
    <3>2. \A i \in a .. k : i \in Nat \ {0}
      BY <3>1
    <3> QED BY <3>2 DEF k
  <2>2. b = FirstOf[B]
    BY DEF FindOneOf
  <2>3. \A i \in Nat : i \in B <=> a <= i /\ i <= n - p + 1 /\ x[i] \in LineEnds
    <3> HIDE DEF n
    <3> QED BY <1>1, <1>6, <2>0
  <2> HIDE DEF B
  <2>4. (B = {} /\ b = 0) \/ (b \in B /\ \A j \in B : b <= j)
    BY <2>1, <2>2, FirstOfIs
  <2>5. CASE B = {} /\ b = 0
    <3>1. \A i \in a .. n - p + 1 : i \in Nat /\ a <= i /\ i <= n - p + 1
      BY <1>1, <1>6
    <3> QED BY <2>3, <2>5, <3>1
  <2>6. CASE b \in B /\ \A j \in B : b <= j
    <3>1. b \in Nat /\ a <= b /\ b <= n - p + 1 /\ x[b] \in LineEnds
      BY <2>1, <2>3, <2>6
    <3>2. a # b
      BY <1>6, <3>1
    <3>3. ASSUME NEW i \in a .. b - 1 PROVE x[i] \notin LineEnds
      <4>1. i \in Nat /\ a <= i /\ i <= n - p + 1 /\ ~(b <= i)
        BY <1>1, <1>6, <3>1
      <4> QED BY <2>3, <2>6, <4>1
    <3> QED BY <1>6, <3>1, <3>2, <3>3
  <2> QED BY <2>4, <2>5, <2>6
<1> HIDE DEF A, B
<1>9. s \in Nat /\ p <= s /\ s <= n /\ e \in Nat /\ s < e /\ e <= n + 1 /\ s \in p .. n /\ s \in 1 .. n
  BY <1>1, <1>6, <1>8, SMTT(30)
<1>10. ASSUME NEW i \in p .. s - 1 PROVE t[i] \in LineEnds
  <2>1. i - p + 1 \in 1 .. a - 1 /\ i - p + 1 \in 1 .. n - p + 1 /\ p + (i - p + 1) - 1 = i
    BY <1>1, <1>6
  <2> QED BY <1>3, <1>7, <2>1
<1>11. LineAt(t, s, e)
  <2>1. ASSUME NEW i \in s .. e - 1 PROVE t[i] \notin LineEnds
    <3> DEFINE k == i - p + 1
    <3>1. k \in 1 .. n - p + 1 /\ p + k - 1 = i /\ a <= k /\ (b # 0 => k <= b - 1)
      BY <1>1, <1>6, <1>8, SMTT(30)
    <3> HIDE DEF k
    <3>2. x[k] \notin LineEnds
      <4>1. CASE b = 0
        <5>1. k \in a .. n - p + 1
          BY <3>1
        <5> QED BY <1>6, <1>8, <4>1, <5>1
      <4>2. CASE b # 0
        <5>1. k \in a .. b - 1
          BY <1>8, <3>1, <4>2
        <5> QED BY <1>8, <4>2, <5>1
      <4> QED BY <4>1, <4>2
    <3> QED BY <1>3, <3>1, <3>2
  <2>2. e = n + 1 \/ t[e] \in LineEnds
    <3>1. CASE b = 0
      BY <3>1
    <3>2. CASE b # 0
      <4>1. b \in 1 .. n - p + 1 /\ x[b] \in LineEnds /\ e = p + b - 1
        BY <1>1, <1>6, <1>8, <3>2
      <4> QED BY <1>3, <4>1
    <3> QED BY <3>1, <3>2
  <2>3. e \in s + 1 .. n + 1
    <3> HIDE DEF s, e
    <3> QED BY <1>1, <1>9
  <2> HIDE DEF s, e
  <2> QED BY <1>9, <2>1, <2>2, <2>3 DEF LineAt, n
<1>12. FoundAt(t, s, e, x, a, b)
  <2>1. SubSeq(x, a, f) = SubSeq(t, s, e - 1)
    <3>1. f \in Int /\ f <= n - p + 1 /\ p + f - 1 = e - 1
      <4>1. Len(x) = n - p + 1
        BY <1>3
      <4> QED BY <1>1, <1>6, <1>8, <4>1
    <3> HIDE DEF f, e
    <3>2. SubSeq(x, a, f) = SubSeq(t, p + a - 1, p + f - 1)
      <4>1. n <= Len(t)
        BY <1>1 DEF n
      <4>2. /\ t \in Seq(Tokens) /\ p \in Nat /\ 1 <= p /\ n \in Int /\ n <= Len(t) /\ x = SubSeq(t, p, n)
            /\ a \in Nat /\ 1 <= a /\ f \in Int /\ f <= n - p + 1
        BY <1>1, <1>2, <1>6, <3>1, <4>1
      <4>3. SubSeq(SubSeq(t, p, n), a, f) = SubSeq(t, p + a - 1, p + f - 1)
        <5> DEFINE c == a
                   d == f
        <5>1. c \in Nat /\ 1 <= c /\ d \in Int /\ d <= n - p + 1
          BY <4>2
        <5> HIDE DEF c, d
        <5>2. SubSeq(SubSeq(t, p, n), c, d) = SubSeq(t, p + c - 1, p + d - 1)
          BY <4>2, <5>1, PieceOfPiece
        <5> QED BY <5>2 DEF c, d
      <4> QED BY <4>2, <4>3
    <3> QED BY <3>1, <3>2
  <2>2. (IF b = 0 THEN <<>> ELSE From(x, b + 1)) = From(t, Behind(t, e))
    <3>1. CASE b = 0
      <4>1. Behind(t, e) = n + 1
        BY <3>1 DEF Behind, n
      <4>2. SubSeq(t, n + 1, n) = <<>>
        BY <1>1
      <4> QED BY <3>1, <4>1, <4>2 DEF From, n
    <3>2. CASE b # 0
      <4>1. e = p + b - 1 /\ e # n + 1 /\ b + 1 \in Nat /\ 1 <= b + 1 /\ p + (b + 1) - 1 = e + 1
            /\ n - p + 1 \in Int /\ n - p + 1 <= n - p + 1 /\ p + (n - p + 1) - 1 = n
        BY <1>1, <1>6, <1>8, <3>2
      <4>2. Behind(t, e) = e + 1
        BY <4>1 DEF Behind, n
      <4>3. SubSeq(x, b + 1, n - p + 1) = SubSeq(t, p + (b + 1) - 1, p + (n - p + 1) - 1)
        <5>1. n <= Len(t)
          BY <1>1 DEF n
        <5>2. /\ t \in Seq(Tokens) /\ p \in Nat /\ 1 <= p /\ n \in Int /\ n <= Len(t) /\ x = SubSeq(t, p, n)
              /\ b + 1 \in Nat /\ 1 <= b + 1 /\ n - p + 1 \in Int /\ n - p + 1 <= n - p + 1
          BY <1>1, <1>2, <4>1, <5>1
        <5> DEFINE c == b + 1
                   d == n - p + 1
        <5>3. c \in Nat /\ 1 <= c /\ d \in Int /\ d <= n - p + 1
          BY <5>2
        <5> HIDE DEF c, d
        <5>4. SubSeq(SubSeq(t, p, n), c, d) = SubSeq(t, p + c - 1, p + d - 1)
          BY <5>2, <5>3, PieceOfPiece
        <5>5. SubSeq(x, c, d) = SubSeq(t, p + c - 1, p + d - 1)
          BY <5>2, <5>4
        <5> QED BY <5>5 DEF c, d
      <4>4. Len(x) = n - p + 1
        BY <1>3
      <4>5. From(x, b + 1) = From(t, e + 1)
        BY <4>1, <4>3, <4>4 DEF From, n
      <4> QED BY <3>2, <4>2, <4>5
    <3> QED BY <3>1, <3>2
  <2> HIDE DEF s, e
  <2> QED BY <2>1, <2>2 DEF FoundAt, f
<1>13. NextAt(t, p, s, e)
  <2> HIDE DEF s, e
  <2> QED BY <1>9, <1>10, <1>11 DEF NextAt, n
<1> QED BY <1>9, <1>12, <1>13

-----------------------------------------------------------------------------
(* The invariant of parse().                                               *)

\* The code has come to place p of the unfolded text t, q tokens of which are the header's.
Reading(m, t, q, p) == CutAt(m, t, q) /\ p \in 1 .. Len(t) + 1 /\ Between(m, q, p)

Unread == text \in Collected(message) /\ header_list = <<>>

BetweenLines ==
  \E t \in Seq(Tokens), q \in Nat, p \in Nat :
    /\ Reading(message, t, q, p) /\ text = From(t, p)
    /\ Known(header_list, message, q, p)

AtLine ==
  \E t \in Seq(Tokens), q \in Nat, p \in Nat, s \in Nat :
    /\ Reading(message, t, q, p) /\ text = From(t, p)
    /\ s <= p /\ Known(header_list, message, q, s) /\ LineOf(message, q, s, p, line)

Printed ==
  \E q \in Nat :
    /\ q <= Len(Lined(message)) /\ (~message.lost => q = Len(Lined(message)))
    /\ Known(header_list, message, q, q + 1)
    /\ output = InOrder([f \in DOMAIN Spellings |-> Listed(f)])

Parsing ==
  /\ message \in HeaderBlocks
  /\ pc \in {"unfold", "lines", "line", "done"}
  /\ pc = "unfold" => Unread
  /\ pc = "lines" => BetweenLines
  /\ pc = "line" => AtLine
  /\ pc = "done" => Printed

ParseInv == command = "parse" => Parsing

LEMMA ParseStarts == Init => ParseInv
<1> SUFFICES ASSUME Init, command = "parse" PROVE Parsing
  BY DEF ParseInv
<1>1. HeaderInit(HeaderBlocks) /\ header_list = <<>>
  BY DEF Init
<1>2. message \in HeaderBlocks /\ \E t \in Collected(message) : Start(t, "unfold")
  BY <1>1 DEF HeaderInit
<1>3. text \in Collected(message) /\ pc = "unfold"
  BY <1>2 DEF Start
<1> QED BY <1>1, <1>2, <1>3 DEF Parsing, Unread

\* unfold_headers() makes one line of each field.
LEMMA UnfoldKeeps == ASSUME Parsing, UnfoldHeaders PROVE Parsing'
<1> DEFINE m == message
           c == text
           t == Smooth(c)
<1>1. pc = "unfold" /\ pc' = "lines" /\ message' = message /\ header_list' = header_list
      /\ text' = Unfold(<<" ">>)[FoldsBefore(Len(text) + 1, text)][text]
  BY DEF UnfoldHeaders, Step, headerVars
<1>2. m \in HeaderBlocks /\ c \in Collected(m) /\ header_list = <<>>
  BY <1>1 DEF Parsing, Unread
<1>3. /\ c \in Seq(Tokens) /\ t \in Seq(Tokens)
      /\ \E q \in 0 .. Len(Lined(m)) : CutAt(m, t, q)
  BY <1>2, CollectedCut
<1>4. text' = t
  <2>1. Unfold(<<" ">>)[Folds(c)][c] = t
    BY <1>3, PiecesTyped
  <2> QED BY <1>1, <2>1 DEF Folds
<1> HIDE DEF t
<1>5. PICK q \in 0 .. Len(Lined(m)) : CutAt(m, t, q)
  BY <1>3
<1>6. q \in Nat
  OBVIOUS
<1>7. \A j \in 1 .. Len(m.fields) : ~(Place(m, j) < 1)
  <2> SUFFICES ASSUME NEW j \in 1 .. Len(m.fields) PROVE ~(Place(m, j) < 1)
    OBVIOUS
  <2>1. Place(m, j) \in Nat /\ Len(Preamble(m)) < Place(m, j) /\ Len(Preamble(m)) \in Nat
    BY <1>2, PlaceNumbers
  <2> QED BY <2>1
<1>8. Reading(m, t, q, 1)
  <2>1. 1 \in 1 .. Len(t) + 1
    <3>1. Len(t) \in Nat
      BY <1>3
    <3> QED BY <3>1
  <2>2. Between(m, q, 1)
    BY <1>7 DEF Between
  <2> QED BY <1>5, <2>1, <2>2 DEF Reading
<1>9. From(t, 1) = t
  BY <1>3 DEF From
<1>10. Known(<<>>, m, q, 1)
  <2>1. ASSUME NEW f \in DOMAIN Spellings PROVE KnownAs(<<>>, m, q, 1, f)
    <3>1. Nodes(<<>>, f) = {}
      BY DEF Nodes
    <3>2. Before(m, q, 1, f) = {}
      BY <1>7 DEF Before
    <3> QED BY <3>1, <3>2 DEF KnownAs
  <2> QED BY <2>1 DEF Known
<1>11. BetweenLines'
  BY <1>1, <1>2, <1>3, <1>4, <1>6, <1>8, <1>9, <1>10 DEF BetweenLines
<1> QED BY <1>1, <1>2, <1>11 DEF Parsing

\* strtok() returns the next line.
LEMMA NextLineKeeps == ASSUME Parsing, NextLine PROVE Parsing'
<1> DEFINE m == message
           a == FirstOf[{i \in DOMAIN text : text[i] \notin LineEnds}]
           b == FindOneOf(LineEnds, text, a)
<1>1. /\ pc = "lines" /\ pc' = "line" /\ message' = message /\ header_list' = header_list
      /\ a # 0
      /\ line' = SubSeq(text, a, IF b = 0 THEN Len(text) ELSE b - 1)
      /\ text' = IF b = 0 THEN <<>> ELSE From(text, b + 1)
  BY DEF NextLine, Step
<1>2. m \in HeaderBlocks
  BY DEF Parsing
<1>3. PICK t \in Seq(Tokens), q \in Nat, p \in Nat :
        Reading(m, t, q, p) /\ text = From(t, p) /\ Known(header_list, m, q, p)
  BY <1>1 DEF Parsing, BetweenLines
<1>4. CutAt(m, t, q) /\ p \in 1 .. Len(t) + 1 /\ Between(m, q, p)
  BY <1>3 DEF Reading
<1>5. PICK s \in Nat, e \in Nat : NextAt(t, p, s, e) /\ FoundAt(t, s, e, text, a, b)
  BY <1>1, <1>3, <1>4, LineSplit
<1> HIDE DEF a, b
<1>6. s \in p .. Len(t) /\ (\A i \in p .. s - 1 : t[i] \in LineEnds) /\ LineAt(t, s, e)
  BY <1>5 DEF NextAt
<1> DEFINE w == Behind(t, e)
           x == SubSeq(t, s, e - 1)
<1>7. line' = x /\ text' = From(t, w)
  BY <1>1, <1>5 DEF FoundAt
<1>8. Between(m, q, w) /\ LineOf(m, q, s, w, x)
  BY <1>2, <1>4, <1>6, ReadLine
<1>9. w \in Nat /\ s <= w /\ w \in 1 .. Len(t) + 1
  <2>1. /\ s \in Nat /\ 1 <= s /\ e \in Nat /\ s < e /\ Len(t) \in Nat
        /\ e <= Len(t) + 1 /\ Behind(t, e) \in Nat /\ e <= Behind(t, e) /\ Behind(t, e) <= e + 1
    <3> HIDE DEF w
    <3>1. LineAt(t, s, e)
      BY <1>6
    <3> QED BY <3>1, LineText
  <2>2. w \in Nat /\ e <= w /\ w <= Len(t) + 1
    BY <2>1 DEF Behind
  <2> HIDE DEF w
  <2>3. 1 <= w /\ s <= w /\ Len(t) + 1 \in Nat
    BY <2>1, <2>2
  <2> QED BY <2>2, <2>3
<1> HIDE DEF w, x
<1>10. Known(header_list, m, q, s)
  <2>1. ASSUME NEW f \in DOMAIN Spellings PROVE KnownAs(header_list, m, q, s, f)
    <3>1. KnownAs(header_list, m, q, p, f)
      BY <1>3 DEF Known
    <3>2. p <= s
      BY <1>6
    <3>3. Before(m, q, s, f) = Before(m, q, p, f)
      BY <1>2, <1>4, <1>6, <3>2, BeforeSkips
    <3> QED BY <3>1, <3>3 DEF KnownAs
  <2> QED BY <2>1 DEF Known
<1>11. Reading(m, t, q, w)
  BY <1>4, <1>8, <1>9 DEF Reading
<1>12. AtLine'
  BY <1>1, <1>7, <1>8, <1>9, <1>10, <1>11 DEF AtLine
<1> QED BY <1>1, <1>2, <1>12 DEF Parsing

\* A line is listed when it has a colon.
LEMMA ListLineKeeps ==
  ASSUME Parsing, ListLine, header_list \in Seq(HeaderNodes), line \in Seq(Tokens)
  PROVE  Parsing'
<1> DEFINE m == message
<1>1. /\ pc = "line" /\ pc' = "lines" /\ message' = message /\ text' = text
      /\ header_list' = Lengthened(header_list, line)
  BY DEF ListLine, Step, Lengthened, Entry, Colon
<1>2. m \in HeaderBlocks
  BY DEF Parsing
<1>3. PICK t \in Seq(Tokens), q \in Nat, p \in Nat, s \in Nat :
        /\ Reading(m, t, q, p) /\ text = From(t, p)
        /\ s <= p /\ Known(header_list, m, q, s) /\ LineOf(m, q, s, p, line)
  BY <1>1 DEF Parsing, AtLine
<1>4. Known(Lengthened(header_list, line), m, q, p)
  <2>1. CASE /\ \A j \in 1 .. Len(m.fields) : ~(s <= Place(m, j) /\ Place(m, j) < p /\ Place(m, j) < q)
             /\ \A f \in DOMAIN Spellings : ~(Len(line) > 1 /\ line[1] \in Spellings[f] /\ line[2] = ":")
    BY <1>2, <1>3, <2>1, ListOther
  <2>2. ASSUME NEW j \in 1 .. Len(m.fields),
               s = Place(m, j), s < q, s < p,
               \A i \in 1 .. Len(m.fields) : i # j => ~(s <= Place(m, i) /\ Place(m, i) < p /\ Place(m, i) < q),
               line = FieldLine(m, q, j)
        PROVE  Known(Lengthened(header_list, line), m, q, p)
    BY <1>2, <1>3, <2>2, ListField
  <2> QED BY <1>3, <2>1, <2>2 DEF LineOf
<1>5. BetweenLines'
  BY <1>1, <1>3, <1>4 DEF BetweenLines
<1> QED BY <1>1, <1>2, <1>5 DEF Parsing

\* The headers are printed when no line is left.
LEMMA PrintKeeps == ASSUME Parsing, PrintHeaders PROVE Parsing'
<1> DEFINE m == message
<1>1. /\ pc = "lines" /\ pc' = "done" /\ message' = message /\ header_list' = header_list
      /\ output' = InOrder([f \in DOMAIN Spellings |-> Listed(f)])
      /\ \A i \in DOMAIN text : text[i] \in LineEnds
  BY DEF PrintHeaders, Finish, headerVars
<1>2. m \in HeaderBlocks
  BY DEF Parsing
<1>3. PICK t \in Seq(Tokens), q \in Nat, p \in Nat :
        Reading(m, t, q, p) /\ text = From(t, p) /\ Known(header_list, m, q, p)
  BY <1>1 DEF Parsing, BetweenLines
<1>4. CutAt(m, t, q) /\ p \in 1 .. Len(t) + 1
  BY <1>3 DEF Reading
<1>5. /\ q <= Len(t) /\ q <= Len(Lined(m)) /\ (~m.lost => q = Len(Lined(m)))
  <2>1. q \in 0 .. Len(Lined(m)) /\ q <= Len(t) /\ (q < Len(Lined(m)) => m.lost)
    BY <1>4 DEF CutAt
  <2>2. Lined(m) \in Seq(Tokens)
    BY <1>2, RowsTyped
  <2>3. Len(Lined(m)) \in Nat
    BY <2>2
  <2> QED BY <2>1, <2>3
<1>6. \A i \in p .. Len(t) : t[i] \in LineEnds
  <2> DEFINE n == Len(t)
  <2>1. n \in Nat /\ p \in Nat /\ 1 <= p /\ p <= n + 1 /\ n \in Int /\ n <= Len(t)
    BY <1>4
  <2>2. text = SubSeq(t, p, n)
    BY <1>3 DEF From
  <2> HIDE DEF n
  <2>3. text \in Seq(Tokens) /\ Len(text) = IF p <= n THEN n - p + 1 ELSE 0
    BY <2>1, <2>2, Piece
  <2>4. \A i \in 1 .. n - p + 1 : text[i] = t[p + i - 1]
    BY <2>1, <2>2, PieceAt
  <2>5. Len(text) = n - p + 1
    BY <2>1, <2>3
  <2>6. DOMAIN text = 1 .. n - p + 1
    BY <2>3, <2>5
  <2>7. ASSUME NEW i \in p .. n PROVE t[i] \in LineEnds
    <3>1. i - p + 1 \in 1 .. n - p + 1 /\ p + (i - p + 1) - 1 = i
      BY <2>1
    <3> QED BY <1>1, <2>4, <2>6, <3>1
  <2> QED BY <2>7 DEF n
<1>7. ASSUME NEW f \in DOMAIN Spellings PROVE Before(m, q, q + 1, f) = Before(m, q, p, f)
  <2>1. CASE p <= q + 1
    <3>1. q + 1 \in Nat /\ \A i \in p .. (q + 1) - 1 : i \in p .. Len(t)
      BY <1>5
    <3>2. \A i \in p .. (q + 1) - 1 : t[i] \in LineEnds
      BY <1>6, <3>1
    <3> QED BY <1>2, <1>4, <2>1, <3>1, <3>2, BeforeSkips
  <2>2. CASE ~(p <= q + 1)
    <3>1. ASSUME NEW j \in 1 .. Len(m.fields), Place(m, j) < q PROVE Place(m, j) < p /\ Place(m, j) < q + 1
      <4>1. Place(m, j) \in Nat
        BY <1>2, PlaceNumbers
      <4> QED BY <2>2, <3>1, <4>1
    <3> QED BY <3>1 DEF Before
  <2> QED BY <2>1, <2>2
<1>8. Known(header_list, m, q, q + 1)
  <2>1. ASSUME NEW f \in DOMAIN Spellings PROVE KnownAs(header_list, m, q, q + 1, f)
    <3>1. KnownAs(header_list, m, q, p, f)
      BY <1>3 DEF Known
    <3> QED BY <1>7, <3>1 DEF KnownAs
  <2> QED BY <2>1 DEF Known
<1>9. output' = InOrder([f \in DOMAIN Spellings |-> Listed(f)'])
  BY <1>1 DEF Listed
<1>10. Printed'
  BY <1>1, <1>5, <1>8, <1>9 DEF Printed
<1> QED BY <1>1, <1>2, <1>10 DEF Parsing

LEMMA ParseStepKeeps == ASSUME TypeInv, Parsing, Parse PROVE Parsing'
<1>1. header_list \in Seq(HeaderNodes) /\ line \in Seq(Tokens)
  BY DEF TypeInv, TypeOK, HeaderNodes
<1>2. HeaderStep
  BY DEF Parse
<1> QED BY <1>1, <1>2, UnfoldKeeps, NextLineKeeps, ListLineKeeps, PrintKeeps DEF HeaderStep

\* No other command changes what the invariant speaks of.
LEMMA ParseInvKept == ASSUME TypeInv, ParseInv, [Next]_vars PROVE ParseInv'
<1>1. SUFFICES ASSUME command' = "parse" PROVE Parsing'
  BY DEF ParseInv
<1>2. CASE Parse
  <2>1. command = "parse"
    BY <1>2 DEF Parse
  <2> QED BY <1>2, <2>1, ParseStepKeeps DEF ParseInv
<1>3. CASE Retrieve \/ Mime
  <2>1. command' # "parse"
    BY <1>3 DEF Retrieve, Mime
  <2> QED BY <1>1, <2>1
<1>4. CASE UNCHANGED vars
  <2>1. /\ message' = message /\ text' = text /\ pc' = pc /\ output' = output /\ line' = line
        /\ header_list' = header_list /\ command' = command
    BY <1>4 DEF vars, textVars, headerVars
  <2>2. Parsing
    BY <1>1, <2>1 DEF ParseInv
  <2>3. Unread => Unread'
    BY <2>1 DEF Unread
  <2>4. BetweenLines => BetweenLines'
    BY <2>1 DEF BetweenLines
  <2>5. AtLine => AtLine'
    BY <2>1 DEF AtLine
  <2>6. Printed => Printed'
    BY <2>1 DEF Printed, Listed
  <2> QED BY <2>1, <2>2, <2>3, <2>4, <2>5, <2>6 DEF Parsing
<1> QED BY <1>2, <1>3, <1>4 DEF Next

-----------------------------------------------------------------------------
(* The beginnings of a value.                                              *)

LEMMA Beginning ==
  ASSUME NEW S, NEW z \in Seq(S), NEW b \in Nat, NEW c \in Nat, b <= c, c <= Len(z)
  PROVE  IsPrefix(SubSeq(z, 1, b), SubSeq(z, 1, c))
<1>1. Len(z) \in Nat /\ b \in Int /\ c \in Int /\ b <= Len(z)
  OBVIOUS
<1>2. Len(SubSeq(z, 1, b)) = b /\ Len(SubSeq(z, 1, c)) = c
  <2>1. Len(SubSeq(z, 1, b)) = IF 1 <= b THEN b - 1 + 1 ELSE 0
    BY <1>1, Piece
  <2>2. Len(SubSeq(z, 1, c)) = IF 1 <= c THEN c - 1 + 1 ELSE 0
    BY <1>1, Piece
  <2> QED BY <2>1, <2>2
<1>3. SubSeq(SubSeq(z, 1, b), 1, b) = SubSeq(z, 1 + 1 - 1, 1 + b - 1)
  <2>1. b <= b - 1 + 1
    OBVIOUS
  <2> QED BY <1>1, <2>1, PieceOfPiece
<1>4. SubSeq(SubSeq(z, 1, c), 1, b) = SubSeq(z, 1 + 1 - 1, 1 + b - 1)
  <2>1. b <= c - 1 + 1
    OBVIOUS
  <2> QED BY <1>1, <2>1, PieceOfPiece
<1> QED BY <1>2, <1>3, <1>4 DEF IsPrefix

\* Without its leading P, a beginning of a text begins the text without them.
LEMMA LeadingBegins ==
  ASSUME NEW S, NEW t \in Seq(S), NEW h \in 0 .. Len(t), NEW P
  PROVE  \E g \in 0 .. Len(WithoutLeading(P, t)) :
           WithoutLeading(P, SubSeq(t, 1, h)) = SubSeq(WithoutLeading(P, t), 1, g)
<1> DEFINE L == Len(t)
           x == SubSeq(t, 1, h)
           z == WithoutLeading(P, t)
<1>1. L \in Nat /\ h \in Nat /\ h \in Int /\ h <= L
  OBVIOUS
<1>2. x \in Seq(S) /\ Len(x) = h /\ \A i \in 1 .. h : x[i] = t[i]
  <2>1. x \in Seq(S) /\ Len(x) = IF 1 <= h THEN h - 1 + 1 ELSE 0
    BY <1>1, Piece
  <2>2. \A i \in 1 .. h - 1 + 1 : x[i] = t[1 + i - 1]
    BY <1>1, PieceAt
  <2> QED BY <1>1, <2>1, <2>2
<1>3. PICK n \in 0 .. L : /\ \A i \in 1 .. n : t[i] \in P
                          /\ n < L => t[n + 1] \notin P
                          /\ z = SubSeq(t, n + 1, L)
  BY LeadingIs
<1> HIDE DEF x
<1>4. PICK k \in 0 .. h : /\ \A i \in 1 .. k : x[i] \in P
                          /\ k < h => x[k + 1] \notin P
                          /\ WithoutLeading(P, x) = SubSeq(x, k + 1, h)
  <2>1. \E k \in 0 .. Len(x) : /\ \A i \in 1 .. k : x[i] \in P
                               /\ k < Len(x) => x[k + 1] \notin P
                               /\ WithoutLeading(P, x) = SubSeq(x, k + 1, Len(x))
    BY <1>2, LeadingIs
  <2> QED BY <1>2, <2>1
<1> HIDE DEF L, z
<1>5. z \in Seq(S) /\ Len(z) \in Nat
  <2>1. z \in Seq(S)
    BY TrimTyped DEF z
  <2> QED BY <2>1
<1>6. CASE k = h
  <2>1. SubSeq(x, h + 1, h) = <<>>
    BY <1>1, <1>2
  <2>2. SubSeq(z, 1, 0) = <<>>
    BY <1>5
  <2>3. 0 \in 0 .. Len(z)
    BY <1>5
  <2> QED BY <1>4, <1>6, <2>1, <2>2, <2>3 DEF x, z
<1>7. CASE k # h
  <2>1. k < h /\ x[k + 1] = t[k + 1] /\ t[k + 1] \notin P /\ \A i \in 1 .. k : t[i] \in P
    BY <1>1, <1>2, <1>4, <1>7
  <2>2. n = k
    <3>1. ~(k < n)
      <4>1. ASSUME k < n PROVE k + 1 \in 1 .. n
        BY <1>3, <1>4, <4>1
      <4> QED BY <1>3, <2>1, <4>1
    <3>2. ~(n < k)
      <4>1. ASSUME n < k PROVE n + 1 \in 1 .. k /\ n < L
        BY <1>1, <1>3, <1>4, <2>1, <4>1
      <4> QED BY <1>3, <2>1, <4>1
    <3> QED BY <1>1, <1>3, <1>4, <3>1, <3>2
  <2> DEFINE g == h - k
  <2>3. /\ k \in Nat /\ k + 1 \in Nat /\ 1 <= k + 1 /\ h <= h - 1 + 1 /\ L \in Int /\ L <= L
        /\ g \in Nat /\ g \in Int /\ g <= L - (k + 1) + 1 /\ k + 1 + 1 - 1 = k + 1 /\ k + 1 + g - 1 = h
        /\ 1 + (k + 1) - 1 = k + 1 /\ 1 + h - 1 = h
    BY <1>1, <1>4, <2>1
  <2> HIDE DEF g
  <2>4. SubSeq(x, k + 1, h) = SubSeq(t, k + 1, h)
    <3>1. SubSeq(SubSeq(t, 1, h), k + 1, h) = SubSeq(t, 1 + (k + 1) - 1, 1 + h - 1)
      <4> DEFINE c == k + 1
      <4>1. c \in Nat /\ 1 <= c
        BY <2>3
      <4> HIDE DEF c
      <4>2. SubSeq(SubSeq(t, 1, h), c, h) = SubSeq(t, 1 + c - 1, 1 + h - 1)
        BY <1>1, <2>3, <4>1, PieceOfPiece
      <4> QED BY <4>2 DEF c
    <3> QED BY <2>3, <3>1 DEF x
  <2>5. SubSeq(z, 1, g) = SubSeq(t, k + 1, h)
    <3> DEFINE c == k + 1
    <3>1. c \in Nat /\ 1 <= c /\ g \in Int /\ g <= L - c + 1 /\ c + 1 - 1 = k + 1 /\ c + g - 1 = h
      BY <2>3
    <3>2. z = SubSeq(t, c, L)
      BY <1>3, <2>2
    <3> HIDE DEF c
    <3>3. L <= Len(t)
      BY <2>3 DEF L
    <3>4. SubSeq(SubSeq(t, c, L), 1, g) = SubSeq(t, c + 1 - 1, c + g - 1)
      BY <2>3, <3>1, <3>3, PieceOfPiece
    <3> QED BY <3>1, <3>2, <3>4
  <2>6. g \in 0 .. Len(z)
    <3> DEFINE c == k + 1
    <3>1. c \in Nat /\ 1 <= c /\ c <= L /\ g <= L - c + 1
      BY <1>1, <2>1, <2>3
    <3>2. z = SubSeq(t, c, L)
      BY <1>3, <2>2
    <3> HIDE DEF c
    <3>3. L <= Len(t)
      BY <2>3 DEF L
    <3>4. Len(SubSeq(t, c, L)) = IF c <= L THEN L - c + 1 ELSE 0
      BY <2>3, <3>1, <3>3, Piece
    <3>5. Len(z) = L - c + 1
      BY <3>1, <3>2, <3>4
    <3> QED BY <1>5, <2>3, <3>1, <3>5
  <2>7. WithoutLeading(P, x) = SubSeq(z, 1, g)
    BY <1>4, <2>4, <2>5
  <2> QED BY <2>6, <2>7 DEF x, z
<1> QED BY <1>6, <1>7

\* Without its trailing P too.
LEMMA TrailingBegins ==
  ASSUME NEW S, NEW t \in Seq(S), NEW h \in 0 .. Len(t), NEW P
  PROVE  IsPrefix(WithoutTrailing(P, SubSeq(t, 1, h)), WithoutTrailing(P, t))
<1> DEFINE L == Len(t)
           x == SubSeq(t, 1, h)
           A == {n \in 1 .. h : x[n] \notin P}
           B == {n \in 1 .. L : t[n] \notin P}
           a == LastOf[A]
           b == LastOf[B]
<1>1. L \in Nat /\ h \in Nat /\ h \in Int /\ h <= L
  OBVIOUS
<1>2. x \in Seq(S) /\ Len(x) = h /\ \A i \in 1 .. h : x[i] = t[i]
  <2>1. x \in Seq(S) /\ Len(x) = IF 1 <= h THEN h - 1 + 1 ELSE 0
    BY <1>1, Piece
  <2>2. \A i \in 1 .. h - 1 + 1 : x[i] = t[1 + i - 1]
    BY <1>1, PieceAt
  <2> QED BY <1>1, <2>1, <2>2
<1> HIDE DEF x
<1>3. WithoutTrailing(P, x) = SubSeq(x, 1, a) /\ WithoutTrailing(P, t) = SubSeq(t, 1, b)
  BY <1>2 DEF WithoutTrailing
<1> HIDE DEF L
<1>4. A \subseteq 0 .. h /\ B \subseteq 0 .. L /\ A \subseteq B
  BY <1>1, <1>2
<1>5. \/ A = {} /\ a = 0
      \/ a \in A /\ \A j \in A : j <= a
  <2> HIDE DEF A
  <2> QED BY <1>1, <1>4, LastOfIs
<1>6. \/ B = {} /\ b = 0
      \/ b \in B /\ \A j \in B : j <= b
  <2> HIDE DEF B
  <2> QED BY <1>1, <1>4, LastOfIs
<1> HIDE DEF a, b
<1>7. a \in Nat /\ b \in Nat /\ a <= h /\ b <= L /\ a <= b
  <2> HIDE DEF A, B
  <2>1. a \in 0 .. h /\ (a = 0 \/ a \in B)
    <3>1. CASE a \in A
      BY <1>4, <3>1
    <3>2. CASE a = 0
      BY <1>1, <3>2
    <3> QED BY <1>5, <3>1, <3>2
  <2>2. b \in 0 .. L /\ \A j \in B : j <= b
    <3>1. CASE b \in B
      BY <1>4, <1>6, <3>1
    <3>2. CASE B = {} /\ b = 0
      BY <1>1, <3>2
    <3> QED BY <1>6, <3>1, <3>2
  <2> QED BY <1>1, <2>1, <2>2
<1>8. SubSeq(x, 1, a) = SubSeq(t, 1, a)
  <2>1. a \in Int /\ a <= h - 1 + 1 /\ 1 + 1 - 1 = 1 /\ 1 + a - 1 = a
    BY <1>1, <1>7
  <2>2. SubSeq(SubSeq(t, 1, h), 1, a) = SubSeq(t, 1 + 1 - 1, 1 + a - 1)
    BY <1>1, <2>1, PieceOfPiece
  <2> QED BY <2>1, <2>2 DEF x
<1>9. IsPrefix(SubSeq(t, 1, a), SubSeq(t, 1, b))
  BY <1>7, Beginning DEF L
<1> QED BY <1>3, <1>8, <1>9 DEF x

\* A beginning of a text is trimmed to a beginning of the trimmed text.
LEMMA TrimBegins ==
  ASSUME NEW t \in Seq(Tokens), NEW h \in 0 .. Len(t)
  PROVE  IsPrefix(TrimSpaces(SubSeq(t, 1, h)), TrimSpaces(t))
<1> DEFINE P == {" "}
           z == WithoutLeading(P, t)
<1> HIDE DEF P
<1>1. z \in Seq(Tokens)
  BY TrimTyped
<1>2. PICK g \in 0 .. Len(z) : WithoutLeading(P, SubSeq(t, 1, h)) = SubSeq(z, 1, g)
  BY LeadingBegins
<1>3. IsPrefix(WithoutTrailing(P, SubSeq(z, 1, g)), WithoutTrailing(P, z))
  BY <1>1, TrailingBegins
<1>4. /\ TrimSpaces(SubSeq(t, 1, h)) = WithoutTrailing(P, WithoutLeading(P, SubSeq(t, 1, h)))
      /\ TrimSpaces(t) = WithoutTrailing(P, z)
  BY DEF TrimSpaces, P
<1> QED BY <1>2, <1>3, <1>4

-----------------------------------------------------------------------------
(* What is printed of a field.                                             *)

\* The fields of that name.
Named(m, f) == {j \in DOMAIN m.fields : m.fields[j].name \in Spellings[f]}

\* The first field of that name that was read is the first that was sent.
LEMMA FirstRead ==
  ASSUME NEW m \in HeaderBlocks, NEW q \in Nat, NEW f
  PROVE  /\ Before(m, q, q + 1, f) \subseteq Named(m, f)
         /\ Named(m, f) \subseteq 1 .. Len(m.fields)
         /\ \A j \in Before(m, q, q + 1, f) : Place(m, j) < q
         /\ Before(m, q, q + 1, f) # {} =>
              /\ FirstOf[Before(m, q, q + 1, f)] = FirstOf[Named(m, f)]
              /\ FirstOf[Named(m, f)] \in Before(m, q, q + 1, f)
         /\ q = Len(Lined(m)) => Before(m, q, q + 1, f) = Named(m, f)
<1> DEFINE N == Len(m.fields)
           A == Named(m, f)
           B == Before(m, q, q + 1, f)
<1>1. N \in Nat /\ DOMAIN m.fields = 1 .. N
  BY BlockIs
<1>2. \A j \in 1 .. N : /\ Place(m, j) \in Nat /\ EndOfRow(m, j) \in Nat /\ Place(m, j) + 2 <= EndOfRow(m, j)
                        /\ EndOfRow(m, j) + 1 <= Len(Lined(m)) /\ Len(Lined(m)) \in Nat
  BY PlaceNumbers
<1>3. A = {j \in 1 .. N : m.fields[j].name \in Spellings[f]}
  BY <1>1 DEF Named
<1>4. B = {j \in A : Place(m, j) < q}
  <2>1. \A j \in 1 .. N : Place(m, j) < q => Place(m, j) < q + 1
    BY <1>2
  <2> QED BY <1>3, <2>1 DEF Before
<1>5. ASSUME q = Len(Lined(m)) PROVE B = A
  <2>1. \A j \in 1 .. N : Place(m, j) < q
    BY <1>2, <1>5
  <2> QED BY <1>3, <1>4, <2>1
<1>6. ASSUME B # {} PROVE FirstOf[B] = FirstOf[A] /\ FirstOf[A] \in B
  <2> DEFINE k == FirstOf[A]
             j == FirstOf[B]
  <2>1. A \subseteq 1 .. N /\ B \subseteq A /\ A # {}
    BY <1>3, <1>4, <1>6
  <2> HIDE DEF A, B
  <2>2. k \in A /\ \A i \in A : k <= i
    <3>1. A \subseteq Nat \ {0}
      BY <1>1, <2>1
    <3> QED BY <2>1, <3>1, FirstOfIs
  <2>3. j \in B /\ \A i \in B : j <= i
    <3>1. B \subseteq Nat \ {0}
      BY <1>1, <2>1
    <3> QED BY <1>6, <3>1, FirstOfIs
  <2> HIDE DEF k, j
  <2>4. j \in 1 .. N /\ k \in 1 .. N /\ k <= j /\ Place(m, j) < q
    BY <1>4, <2>1, <2>2, <2>3
  <2>5. k = j
    <3>1. CASE k < j
      <4>1. EndOfRow(m, k) + 2 <= Place(m, j)
        <5>1. j \in k + 1 .. N
          BY <1>1, <2>4, <3>1
        <5> QED BY <2>4, <5>1, PlacesGrow
      <4>2. Place(m, k) < q
        BY <1>2, <2>4, <4>1
      <4>3. j <= k
        BY <1>4, <2>2, <2>3, <4>2
      <4> QED BY <2>4, <3>1, <4>3
    <3> QED BY <1>1, <2>4, <3>1
  <2> QED BY <2>3, <2>5 DEF k, j
<1>7. B \subseteq A /\ A \subseteq 1 .. N /\ \A j \in B : Place(m, j) < q
  BY <1>3, <1>4
<1> QED BY <1>5, <1>6, <1>7

\* As much as was read of a value is a beginning of it, and all of it when the header
\* was read to its end.
LEMMA HadBegins ==
  ASSUME NEW m \in HeaderBlocks, NEW q \in Nat, NEW j \in 1 .. Len(m.fields), Place(m, j) < q
  PROVE  /\ OneLine(m.fields[j]) \in Seq(Tokens) /\ TrimSpaces(OneLine(m.fields[j])) \in Seq(Tokens)
         /\ IsPrefix(TrimSpaces(Had(m, q, j)), TrimSpaces(OneLine(m.fields[j])))
         /\ q = Len(Lined(m)) => Had(m, q, j) = OneLine(m.fields[j])
<1> DEFINE v == OneLine(m.fields[j])
           e == EndOfRow(m, j)
           s == Place(m, j)
           h == IF q < e THEN q - s - 1 ELSE Len(v)
<1>1. v \in Seq(Tokens)
  <2>1. v \in Seq(Tokens \ LineEnds)
    BY OneLineTyped
  <2>2. Tokens \ LineEnds \subseteq Tokens
    OBVIOUS
  <2> HIDE DEF v
  <2> QED BY <2>1, <2>2
<1>2. s \in Nat /\ Len(v) \in Nat /\ e = s + 2 + Len(v) /\ e + 1 <= Len(Lined(m)) /\ s < q
  BY PlaceHas
<1>3. Had(m, q, j) = SubSeq(v, 1, h)
  BY DEF Had
<1> HIDE DEF v, e, s
<1>4. h \in 0 .. Len(v) /\ (q = Len(Lined(m)) => h = Len(v))
  BY <1>2
<1> HIDE DEF h
<1>5. SubSeq(v, 1, Len(v)) = v
  BY <1>1
<1>6. TrimSpaces(v) \in Seq(Tokens)
  BY <1>1, TrimmedTyped
<1>7. IsPrefix(TrimSpaces(SubSeq(v, 1, h)), TrimSpaces(v))
  BY <1>1, <1>4, TrimBegins
<1> QED BY <1>1, <1>3, <1>4, <1>5, <1>6, <1>7 DEF v

\* The value that was sent.
LEMMA SentIs ==
  ASSUME NEW m \in HeaderBlocks, NEW f
  PROVE  Sent(m, f) = IF Named(m, f) = {} THEN None
                      ELSE TrimSpaces(OneLine(m.fields[FirstOf[Named(m, f)]]))
<1> DEFINE A == Named(m, f)
           k == FirstOf[A]
<1>1. Sent(m, f) = IF k = 0 THEN None ELSE TrimSpaces(OneLine(m.fields[k]))
  BY DEF Sent, Named, OneLine, Continued
<1>2. A \subseteq Nat \ {0}
  <2>1. Len(m.fields) \in Nat /\ A \subseteq 1 .. Len(m.fields)
    BY BlockIs DEF Named
  <2> QED BY <2>1
<1> HIDE DEF A
<1>3. k = 0 <=> A = {}
  BY <1>2, FirstOfIs
<1> QED BY <1>1, <1>3 DEF A

\* What the list has of the field f.
LEMMA ListedIs ==
  ASSUME TypeInv, message \in HeaderBlocks, NEW q \in Nat, Known(header_list, message, q, q + 1),
         NEW f \in DOMAIN Spellings
  PROVE  Listed(f) = IF Before(message, q, q + 1, f) = {} THEN None
                     ELSE TrimSpaces(Had(message, q, FirstOf[Named(message, f)]))
<1> DEFINE m == message
           l == header_list
           D == Nodes(l, f)
           B == Before(m, q, q + 1, f)
<1>1. Listed(f) = IF FirstOf[D] = 0 THEN None ELSE l[FirstOf[D]].packet
  BY DEF Listed, Nodes
<1>2. D \subseteq Nat \ {0}
  <2>1. l \in Seq(HeaderNodes)
    BY DEF TypeInv, TypeOK, HeaderNodes
  <2>2. Len(l) \in Nat /\ DOMAIN l = 1 .. Len(l)
    BY <2>1, LenProperties
  <2> QED BY <2>2 DEF Nodes
<1>3. KnownAs(l, m, q, q + 1, f)
  BY DEF Known
<1>4. /\ D = {} <=> B = {}
      /\ D # {} => l[FirstOf[D]].packet = TrimSpaces(Had(m, q, FirstOf[B]))
  BY <1>3 DEF KnownAs
<1>5. B # {} => FirstOf[B] = FirstOf[Named(m, f)]
  BY FirstRead
<1> HIDE DEF D, B
<1>6. FirstOf[D] = 0 <=> D = {}
  BY <1>2, FirstOfIs
<1> QED BY <1>1, <1>4, <1>5, <1>6 DEF B

\* What is printed when nothing was lost.
LEMMA PrintedAsSent == ASSUME TypeInv, Parsing PROVE HeadersAsSent
<1> SUFFICES ASSUME pc = "done", ~message.lost
             PROVE  output = InOrder([f \in DOMAIN Spellings |-> Sent(message, f)])
  BY DEF HeadersAsSent
<1> DEFINE m == message
<1>1. m \in HeaderBlocks /\ Printed
  BY DEF Parsing
<1>2. PICK q \in Nat : /\ q = Len(Lined(m)) /\ Known(header_list, m, q, q + 1)
                       /\ output = InOrder([f \in DOMAIN Spellings |-> Listed(f)])
  BY <1>1 DEF Printed
<1>3. ASSUME NEW f \in DOMAIN Spellings PROVE Listed(f) = Sent(m, f)
  <2> DEFINE B == Before(m, q, q + 1, f)
             k == FirstOf[Named(m, f)]
  <2>1. Listed(f) = IF B = {} THEN None ELSE TrimSpaces(Had(m, q, k))
    BY <1>1, <1>2, ListedIs
  <2>2. Sent(m, f) = IF Named(m, f) = {} THEN None ELSE TrimSpaces(OneLine(m.fields[k]))
    BY <1>1, SentIs
  <2>3. B = Named(m, f)
    BY <1>1, <1>2, FirstRead
  <2>4. B # {} => k \in 1 .. Len(m.fields) /\ Place(m, k) < q
    BY <1>1, FirstRead
  <2> HIDE DEF B, k
  <2>5. B # {} => Had(m, q, k) = OneLine(m.fields[k])
    BY <1>1, <1>2, <2>4, HadBegins
  <2> QED BY <2>1, <2>2, <2>3, <2>5
<1>4. [f \in DOMAIN Spellings |-> Listed(f)] = [f \in DOMAIN Spellings |-> Sent(m, f)]
  BY <1>3
<1> QED BY <1>2, <1>4

\* What is printed when the end was lost.
LEMMA PrintedShort == ASSUME TypeInv, Parsing PROVE LostHeadersAreShort
<1> SUFFICES ASSUME pc = "done", NEW f \in DOMAIN Spellings, Listed(f) # None
             PROVE  Sent(message, f) # None /\ IsPrefix(Listed(f), Sent(message, f))
  BY DEF LostHeadersAreShort
<1> DEFINE m == message
<1>1. m \in HeaderBlocks /\ Printed
  BY DEF Parsing
<1>2. PICK q \in Nat : Known(header_list, m, q, q + 1)
  BY <1>1 DEF Printed
<1> DEFINE B == Before(m, q, q + 1, f)
           k == FirstOf[Named(m, f)]
<1>3. Listed(f) = IF B = {} THEN None ELSE TrimSpaces(Had(m, q, k))
  BY <1>1, <1>2, ListedIs
<1>4. B # {} /\ Listed(f) = TrimSpaces(Had(m, q, k))
  BY <1>3
<1>5. Named(m, f) # {} /\ k \in 1 .. Len(m.fields) /\ Place(m, k) < q
  <2>1. B \subseteq Named(m, f) /\ Named(m, f) \subseteq 1 .. Len(m.fields) /\ k \in B
        /\ \A j \in B : Place(m, j) < q
    BY <1>1, <1>4, FirstRead
  <2> HIDE DEF B, k
  <2> QED BY <1>4, <2>1
<1>6. Sent(m, f) = TrimSpaces(OneLine(m.fields[k]))
  BY <1>1, <1>5, SentIs
<1> HIDE DEF B, k
<1>7. /\ TrimSpaces(OneLine(m.fields[k])) \in Seq(Tokens)
      /\ IsPrefix(TrimSpaces(Had(m, q, k)), TrimSpaces(OneLine(m.fields[k])))
  BY <1>1, <1>5, HadBegins
<1>8. None \notin Seq(Tokens)
  BY TextsAssumption, Zenon DEF TextsAssumption
<1> QED BY <1>4, <1>6, <1>7, <1>8

\* The invariant of parse(), of every state of every command.
LEMMA ParseInvariance == Spec => [](TypeInv /\ ParseInv)
<1>1. Init => TypeInv /\ ParseInv
  BY InitTyped, ParseStarts
<1>2. TypeInv /\ ParseInv /\ [Next]_vars => (TypeInv /\ ParseInv)'
  BY TypeInvKept, ParseInvKept
<1> QED BY <1>1, <1>2, PTL DEF Spec

\* `parse` prints From, To, Date and Subject in that order, each as the first field of that
\* name was sent, unfolded and trimmed, or as missing, whatever is in the header, however
\* it is folded, whatever was unread before it, and however much behind it came in the same
\* read: parse(), unfold_headers(), append_header(), print_headers() and trim_spaces()
\* (imap_client.c:596-740).
THEOREM ParsesHeaders == Spec => []ParsePrintsHeaders
<1>1. TypeInv /\ ParseInv => ParsePrintsHeaders
  BY PrintedAsSent DEF ParseInv, ParsePrintsHeaders
<1> QED BY <1>1, ParseInvariance, PTL

\* When the end of the reply was lost, `parse` prints of each field a beginning of what was
\* sent, or that it is missing: it joins no two fields and makes none up, wherever the text
\* ends (imap_client.c:596-740).
THEOREM ParsesNothingElse == Spec => []ParseInventsNothing
<1>1. TypeInv /\ ParseInv => ParseInventsNothing
  BY PrintedShort DEF ParseInv, ParseInventsNothing
<1> QED BY <1>1, ParseInvariance, PTL
=============================================================================
