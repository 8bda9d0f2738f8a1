-------------------------- MODULE MimePartsProofs --------------------------
(***************************************************************************)
(* What `mime` prints, for every set of multipart messages.                *)
(*                                                                         *)
(* MimeInv follows one message through the steps of mime(): what is left   *)
(* at `part` is always the end of the text as the message prescribes it,   *)
(* its header unfolded up to some place.  Where that place is, the code    *)
(* alone knows: unfold_headers_mime() stops at the later of two names that *)
(* it looks for in the rest of the reply, other parts included.  So every  *)
(* lemma about a text is about Till(e, t), the text unfolded up to place e,*)
(* for any e.                                                              *)
(***************************************************************************)
EXTENDS HeaderFoldProofs

-----------------------------------------------------------------------------
(* Unfolding a text up to a place, with nothing in the place of the folds. *)

TillPieces(e, t) == UnfoldedPlaces(FoldsBefore(e, t), <<>>, t)
Till(e, t) == FlattenSeq(TillPieces(e, t))

\* The folds before a place, by their tokens: the loop's condition in unfold_headers_mime().
LEMMA FoldsTill ==
  ASSUME NEW S, NEW t \in Seq(S), NEW e \in Int
  PROVE  /\ FoldsBefore(e, t) \in SUBSET Nat
         /\ \A i \in Nat : i \in FoldsBefore(e, t) <=>
                             /\ 1 <= i /\ i + 2 <= Len(t) /\ i < e
                             /\ t[i] = "CR" /\ t[i + 1] = "LF" /\ t[i + 2] \in Blanks
<1>1. Len(t) \in Nat
  OBVIOUS
<1>2. FoldsBefore(e, t) = {i \in 1 .. Len(t) - 2 : i < e /\ BeginsAt(Eol, t, i) /\ t[i + 2] \in Blanks}
  BY DEF FoldsBefore
<1>3. \A i \in Nat : i \in Folds(t) <=> /\ 1 <= i /\ i + 2 <= Len(t)
                                        /\ t[i] = "CR" /\ t[i + 1] = "LF" /\ t[i + 2] \in Blanks
  BY FoldsIs
<1>4. Folds(t) = {i \in 1 .. Len(t) - 2 : i < Len(t) + 1 /\ BeginsAt(Eol, t, i) /\ t[i + 2] \in Blanks}
  BY DEF Folds, FoldsBefore
<1>5. FoldsBefore(e, t) = {i \in Folds(t) : i < e}
  BY <1>1, <1>2, <1>4
<1>6. Folds(t) \in SUBSET Nat
  BY FoldsIs
<1> QED BY <1>1, <1>3, <1>5, <1>6

\* The same text again, place by place.
LEMMA TillTyped ==
  ASSUME NEW S, S \subseteq STRING, NEW t \in Seq(S), NEW e \in Int
  PROVE  /\ TillPieces(e, t) \in Seq(Seq(S)) /\ Len(TillPieces(e, t)) = Len(t)
         /\ \A i \in 1 .. Len(t) :
              TillPieces(e, t)[i] = IF FoldedAway(FoldsBefore(e, t), t, i) THEN <<>> ELSE <<t[i]>>
         /\ Till(e, t) \in Seq(S) /\ Unfold(<<>>)[FoldsBefore(e, t)][t] = Till(e, t)
<1> DEFINE x == <<>>
           F == FoldsBefore(e, t)
<1>1. x \in Seq(S) /\ Len(t) \in Nat
  OBVIOUS
<1>2. F \in SUBSET Nat
  BY FoldsTill
<1>3. /\ UnfoldedPlaces(F, x, t) \in Seq(Seq(S))
      /\ Unfold(x)[F][t] = FlattenSeq(UnfoldedPlaces(F, x, t))
      /\ Unfold(x)[F][t] \in Seq(S)
  <2> HIDE DEF x, F
  <2> QED BY <1>1, <1>2, UnfoldTyped
<1>4. Len(UnfoldedPlaces(F, x, t)) = Len(t)
  BY <1>1 DEF UnfoldedPlaces
<1>5. ASSUME NEW i \in 1 .. Len(t)
      PROVE  UnfoldedPlaces(F, x, t)[i] = IF FoldedAway(F, t, i) THEN <<>> ELSE <<t[i]>>
  <2>1. UnfoldedPlaces(F, x, t)[i] = Unfolded(F, x, t, i)
    BY DEF UnfoldedPlaces
  <2>2. i \in F => FoldedAway(F, t, i)
    <3>1. \A k \in i + 2 .. i : t[k] \in Blanks
      BY <1>1
    <3>2. i <= i
      BY <1>1
    <3> HIDE DEF F
    <3> QED BY <3>1, <3>2 DEF FoldedAway
  <2> QED BY <2>1, <2>2 DEF Unfolded
<1> QED BY <1>3, <1>4, <1>5 DEF TillPieces, Till

\* Where a text can be cut in two: no fold lies across, nor the blanks after one.
Apart(e, a, b) ==
  \/ b = <<>>
  \/ b[1] \notin Blanks /\ b[1] # "LF"
  \/ a # <<>> /\ a[Len(a)] = "LF" /\ (b[1] \notin Blanks \/ e < Len(a))

\* A joined text that no fold crosses is unfolded part by part.
LEMMA TillPiecesJoined ==
  ASSUME NEW a \in Seq(Tokens), NEW b \in Seq(Tokens), NEW e \in Int, Apart(e, a, b)
  PROVE  TillPieces(e, a \o b) = TillPieces(e, a) \o TillPieces(e - Len(a), b) /\ a \o b \in Seq(Tokens)
<1> DEFINE t == a \o b
           n == Len(a)
           k == Len(b)
           d == e - n
           T == FoldsBefore(e, t)
           A == FoldsBefore(e, a)
           B == FoldsBefore(d, b)
<1>1. /\ t \in Seq(Tokens) /\ n \in Nat /\ k \in Nat /\ Len(t) = n + k
      /\ \A i \in 1 .. n : t[i] = a[i]
      /\ \A i \in 1 .. k : t[n + i] = b[i]
  BY Joined
<1>2. \/ k = 0
      \/ t[n + 1] \notin Blanks /\ t[n + 1] # "LF"
      \/ n # 0 /\ t[n] = "LF" /\ (t[n + 1] \notin Blanks \/ e < n)
  <2>1. CASE b = <<>>
    BY <2>1
  <2>2. CASE b # <<>>
    <3>1. t[n + 1] = b[1]
      BY <1>1, <2>2
    <3>2. ASSUME a # <<>>, a[Len(a)] = "LF"
          PROVE  n # 0 /\ t[n] = "LF"
      <4>1. n # 0
        BY <3>2
      <4>2. n \in 1 .. n
        BY <1>1, <4>1
      <4>3. t[n] = a[n]
        BY <1>1, <4>2
      <4> QED BY <3>2, <4>1, <4>3
    <3> QED BY <2>2, <3>1, <3>2 DEF Apart
  <2> QED BY <2>1, <2>2
<1>3. d \in Int /\ e = n + d
  BY <1>1
<1> HIDE DEF t, n, k, d
<1>4. /\ \A i \in Nat : i \in T <=> /\ 1 <= i /\ i + 2 <= n + k /\ i < e
                                    /\ t[i] = "CR" /\ t[i + 1] = "LF" /\ t[i + 2] \in Blanks
      /\ \A i \in Nat : i \in A <=> /\ 1 <= i /\ i + 2 <= n /\ i < e
                                    /\ a[i] = "CR" /\ a[i + 1] = "LF" /\ a[i + 2] \in Blanks
      /\ \A i \in Nat : i \in B <=> /\ 1 <= i /\ i + 2 <= k /\ i < d
                                    /\ b[i] = "CR" /\ b[i + 1] = "LF" /\ b[i + 2] \in Blanks
      /\ T \in SUBSET Nat /\ A \in SUBSET Nat /\ B \in SUBSET Nat
  <2>1. /\ T \in SUBSET Nat
        /\ \A i \in Nat : i \in T <=> /\ 1 <= i /\ i + 2 <= Len(t) /\ i < e
                                      /\ t[i] = "CR" /\ t[i + 1] = "LF" /\ t[i + 2] \in Blanks
    BY <1>1, FoldsTill
  <2>2. /\ A \in SUBSET Nat
        /\ \A i \in Nat : i \in A <=> /\ 1 <= i /\ i + 2 <= Len(a) /\ i < e
                                      /\ a[i] = "CR" /\ a[i + 1] = "LF" /\ a[i + 2] \in Blanks
    BY FoldsTill
  <2>3. /\ B \in SUBSET Nat
        /\ \A i \in Nat : i \in B <=> /\ 1 <= i /\ i + 2 <= Len(b) /\ i < d
                                      /\ b[i] = "CR" /\ b[i + 1] = "LF" /\ b[i + 2] \in Blanks
    BY <1>3, FoldsTill
  <2>4. Len(t) = n + k /\ Len(a) = n /\ Len(b) = k
    BY <1>1 DEF n, k
  <2> HIDE DEF T, A, B
  <2> QED BY <2>1, <2>2, <2>3, <2>4
<1> HIDE DEF T, A, B
<1>5. ASSUME NEW i \in 1 .. n PROVE i \in T <=> i \in A
  <2>1. CASE i + 2 <= n
    <3>1. t[i] = a[i] /\ t[i + 1] = a[i + 1] /\ t[i + 2] = a[i + 2] /\ i + 2 <= n + k
      BY <1>1, <2>1, SMTT(30)
    <3> QED BY <1>1, <1>4, <2>1, <3>1
  <2>2. CASE i = n - 1
    <3>1. i + 2 = n + 1 /\ i \notin A /\ i + 1 = n /\ i \in Nat
      BY <1>1, <1>4, <2>2
    <3>2. i \notin T
      <4>1. SUFFICES ASSUME i \in T PROVE FALSE
        OBVIOUS
      <4>2. /\ n + 1 <= n + k /\ i < e /\ t[n] = "LF" /\ t[n + 1] \in Blanks
        BY <1>4, <3>1, <4>1
      <4>3. k # 0 /\ ~(e < n)
        BY <1>1, <1>3, <2>2, <4>2
      <4> QED BY <1>2, <4>2, <4>3
    <3> QED BY <3>1, <3>2
  <2>3. CASE i = n
    <3>1. i \notin A /\ i \in Nat
      BY <1>1, <1>4, <2>3
    <3>2. i \notin T
      <4>1. SUFFICES ASSUME i \in T PROVE FALSE
        OBVIOUS
      <4>2. n + 2 <= n + k /\ t[n] = "CR" /\ t[n + 1] = "LF"
        BY <1>4, <2>3, <3>1, <4>1
      <4>3. k # 0
        BY <1>1, <4>2
      <4> QED BY <1>2, <4>2, <4>3
    <3> QED BY <3>1, <3>2
  <2> QED BY <1>1, <2>1, <2>2, <2>3
<1>6. ASSUME NEW j \in 1 .. k PROVE n + j \in T <=> j \in B
  <2>1. CASE j + 2 <= k
    <3>1. /\ t[n + j] = b[j] /\ t[(n + j) + 1] = b[j + 1] /\ t[(n + j) + 2] = b[j + 2]
      <4>1. t[n + j] = b[j] /\ t[n + (j + 1)] = b[j + 1] /\ t[n + (j + 2)] = b[j + 2]
        BY <1>1, <2>1
      <4>2. n + (j + 1) = (n + j) + 1 /\ n + (j + 2) = (n + j) + 2
        BY <1>1
      <4> QED BY <4>1, <4>2
    <3>2. n + j \in Nat /\ 1 <= n + j /\ (n + j) + 2 <= n + k /\ j \in Nat /\ 1 <= j
          /\ (n + j < e <=> j < d)
      BY <1>1, <1>3, <2>1
    <3> QED BY <1>4, <2>1, <3>1, <3>2
  <2>2. CASE ~(j + 2 <= k)
    BY <1>1, <1>4, <2>2
  <2> QED BY <2>1, <2>2
<1>7. ASSUME NEW i \in 1 .. n PROVE FoldedAway(T, t, i) <=> FoldedAway(A, a, i)
  <2>1. ASSUME NEW f \in Nat, f <= i
        PROVE  /\ f \in T <=> f \in A
               /\ (\A q \in f + 2 .. i : t[q] \in Blanks) <=> (\A q \in f + 2 .. i : a[q] \in Blanks)
    <3>1. f = 0 \/ f \in 1 .. n
      BY <1>1, <2>1
    <3>2. 0 \notin T /\ 0 \notin A
      BY <1>4
    <3>3. \A q \in f + 2 .. i : t[q] = a[q]
      BY <1>1, <2>1
    <3> QED BY <1>5, <3>1, <3>2, <3>3
  <2> QED BY <1>4, <2>1 DEF FoldedAway
<1>8. ASSUME NEW j \in 1 .. k PROVE FoldedAway(T, t, n + j) <=> FoldedAway(B, b, j)
  <2>1. ASSUME NEW f \in T, f <= n + j, \A q \in f + 2 .. n + j : t[q] \in Blanks
        PROVE  FoldedAway(B, b, j)
    <3>1. f \in Nat /\ 1 <= f
      BY <1>4
    <3>2. CASE f <= n
      <4>1. f \in A
        BY <1>5, <3>1, <3>2
      <4>2. f + 2 <= n
        BY <1>4, <3>1, <4>1
      <4>3. n + 1 \in f + 2 .. n + j /\ n \in f + 2 .. n + j /\ k # 0
        BY <1>1, <3>1, <4>2
      <4>4. t[n + 1] \in Blanks /\ t[n] \in Blanks
        BY <2>1, <4>3
      <4>5. "LF" \notin Blanks
        BY DEF Blanks
      <4> QED BY <1>2, <4>3, <4>4, <4>5
    <3>3. CASE f > n
      <4>1. f - n \in 1 .. k /\ n + (f - n) = f /\ f - n <= j
        BY <1>1, <2>1, <3>1, <3>3
      <4>2. f - n \in B
        BY <1>6, <4>1
      <4>3. ASSUME NEW q \in (f - n) + 2 .. j PROVE b[q] \in Blanks
        <5>1. n + q \in f + 2 .. n + j /\ q \in 1 .. k
          BY <1>1, <3>1, <3>3
        <5> QED BY <1>1, <2>1, <5>1
      <4> QED BY <4>1, <4>2, <4>3 DEF FoldedAway
    <3> QED BY <1>1, <3>1, <3>2, <3>3
  <2>2. ASSUME NEW f \in B, f <= j, \A q \in f + 2 .. j : b[q] \in Blanks
        PROVE  FoldedAway(T, t, n + j)
    <3>1. f \in Nat /\ 1 <= f /\ f \in 1 .. k
      BY <1>1, <1>4, <2>2
    <3>2. n + f \in T /\ n + f <= n + j
      BY <1>1, <1>6, <2>2, <3>1
    <3>3. ASSUME NEW q \in (n + f) + 2 .. n + j PROVE t[q] \in Blanks
      <4>1. q - n \in f + 2 .. j /\ q - n \in 1 .. k /\ n + (q - n) = q
        BY <1>1, <3>1
      <4> QED BY <1>1, <2>2, <4>1
    <3> QED BY <3>2, <3>3 DEF FoldedAway
  <2> QED BY <2>1, <2>2 DEF FoldedAway
<1> DEFINE P == TillPieces(e, t)
           Q == TillPieces(e, a)
           R == TillPieces(d, b)
<1>9. Tokens \subseteq STRING
  BY WrittenTokens
<1>10. /\ P \in Seq(Seq(Tokens)) /\ Len(P) = n + k
       /\ \A i \in 1 .. n + k : P[i] = IF FoldedAway(T, t, i) THEN <<>> ELSE <<t[i]>>
  BY <1>1, <1>9, TillTyped DEF T
<1>11. /\ Q \in Seq(Seq(Tokens)) /\ Len(Q) = n
       /\ \A i \in 1 .. n : Q[i] = IF FoldedAway(A, a, i) THEN <<>> ELSE <<a[i]>>
  BY <1>9, TillTyped DEF n, A
<1>12. /\ R \in Seq(Seq(Tokens)) /\ Len(R) = k
       /\ \A i \in 1 .. k : R[i] = IF FoldedAway(B, b, i) THEN <<>> ELSE <<b[i]>>
  BY <1>3, <1>9, TillTyped DEF k, B
<1> HIDE DEF P, Q, R
<1>13. ASSUME NEW i \in 1 .. n PROVE P[i] = Q[i]
  <2>1. i \in 1 .. n + k
    BY <1>1
  <2>2. t[i] = a[i] /\ (FoldedAway(T, t, i) <=> FoldedAway(A, a, i))
    BY <1>1, <1>7
  <2> QED BY <1>10, <1>11, <2>1, <2>2, Zenon
<1>14. ASSUME NEW j \in 1 .. k PROVE P[n + j] = R[j]
  <2>1. n + j \in 1 .. n + k
    BY <1>1
  <2>2. t[n + j] = b[j] /\ (FoldedAway(T, t, n + j) <=> FoldedAway(B, b, j))
    BY <1>1, <1>8
  <2> QED BY <1>10, <1>12, <2>1, <2>2, Zenon
<1> DEFINE Z == Seq(Tokens)
<1>15. P \in Seq(Z) /\ Q \in Seq(Z) /\ R \in Seq(Z) /\ Len(P) = Len(Q) + Len(R)
       /\ (\A i \in 1 .. Len(Q) : P[i] = Q[i]) /\ \A j \in 1 .. Len(R) : P[Len(Q) + j] = R[j]
  BY <1>10, <1>11, <1>12, <1>13, <1>14
<1> HIDE DEF Z
<1>16. P = Q \o R
  BY <1>15, JoinedIs
<1> QED BY <1>1, <1>16 DEF P, Q, R, t, d, n

\* The same of the text that the pieces make.
LEMMA TillJoined ==
  ASSUME NEW a \in Seq(Tokens), NEW b \in Seq(Tokens), NEW e \in Int, Apart(e, a, b)
  PROVE  /\ a \o b \in Seq(Tokens) /\ e - Len(a) \in Int
         /\ Till(e, a \o b) = Till(e, a) \o Till(e - Len(a), b)
<1>1. TillPieces(e, a \o b) = TillPieces(e, a) \o TillPieces(e - Len(a), b) /\ a \o b \in Seq(Tokens)
  BY TillPiecesJoined
<1>2. Tokens \subseteq STRING /\ e - Len(a) \in Int
  <2>1. Len(a) \in Nat
    OBVIOUS
  <2>2. e - Len(a) \in Int
    BY <2>1
  <2> QED BY <2>2, WrittenTokens
<1>3. TillPieces(e, a) \in Seq(Seq(Tokens)) /\ TillPieces(e - Len(a), b) \in Seq(Seq(Tokens))
  BY <1>2, TillTyped
<1>4. FlattenSeq(TillPieces(e, a) \o TillPieces(e - Len(a), b))
        = FlattenSeq(TillPieces(e, a)) \o FlattenSeq(TillPieces(e - Len(a), b))
  BY <1>3, FlattenBoth
<1> QED BY <1>1, <1>2, <1>4 DEF Till

\* Without a fold a text stays as it is.
LEMMA TillNone ==
  ASSUME NEW t \in Seq(Tokens), NEW e \in Int, FoldsBefore(e, t) = {}
  PROVE  Till(e, t) = t
<1>1. Tokens \subseteq STRING
  BY WrittenTokens
<1>2. TillPieces(e, t) \in Seq(Seq(Tokens)) /\ Len(TillPieces(e, t)) = Len(t)
      /\ \A i \in 1 .. Len(t) :
           TillPieces(e, t)[i] = IF FoldedAway(FoldsBefore(e, t), t, i) THEN <<>> ELSE <<t[i]>>
  BY <1>1, TillTyped
<1>3. \A i \in 1 .. Len(t) : TillPieces(e, t)[i] = <<t[i]>>
  BY <1>2 DEF FoldedAway
<1> QED BY <1>2, <1>3, FlattenSingles DEF Till

\* So does one that ends before it is unfolded, or that has no line end followed by a blank.
LEMMA TillKept ==
  ASSUME NEW t \in Seq(Tokens), NEW e \in Int,
         e <= 1 \/ \A i \in 1 .. Len(t) - 2 : t[i] = "CR" /\ t[i + 1] = "LF" => t[i + 2] \notin Blanks
  PROVE  Till(e, t) = t
<1>1. /\ FoldsBefore(e, t) \in SUBSET Nat /\ Len(t) \in Nat
      /\ \A i \in Nat : i \in FoldsBefore(e, t) <=>
                          /\ 1 <= i /\ i + 2 <= Len(t) /\ i < e
                          /\ t[i] = "CR" /\ t[i + 1] = "LF" /\ t[i + 2] \in Blanks
  BY FoldsTill
<1>2. FoldsBefore(e, t) = {}
  <2>1. SUFFICES ASSUME NEW i \in FoldsBefore(e, t) PROVE FALSE
    OBVIOUS
  <2>2. i \in Nat /\ 1 <= i /\ i + 2 <= Len(t) /\ i < e
        /\ t[i] = "CR" /\ t[i + 1] = "LF" /\ t[i + 2] \in Blanks
    BY <1>1, <2>1
  <2>3. ~(e <= 1) /\ i \in 1 .. Len(t) - 2
    BY <1>1, <2>2
  <2> QED BY <2>2, <2>3
<1> QED BY <1>2, TillNone

-----------------------------------------------------------------------------
(* Searching.                                                              *)

\* A text begins at a place where its tokens are.
LEMMA BeginsIs ==
  ASSUME NEW S, NEW t \in Seq(S), NEW d \in Seq(S), NEW i \in Nat, 1 <= i
  PROVE  BeginsAt(d, t, i) <=> i + Len(d) - 1 <= Len(t) /\ \A q \in 1 .. Len(d) : t[i + q - 1] = d[q]
<1> DEFINE b == i + Len(d) - 1
           u == SubSeq(t, i, b)
<1>1. Len(t) \in Nat /\ Len(d) \in Nat /\ b \in Int /\ b - i + 1 = Len(d)
  OBVIOUS
<1>2. BeginsAt(d, t, i) <=> b <= Len(t) /\ u = d
  BY DEF BeginsAt
<1>3. ASSUME b <= Len(t)
      PROVE  u \in Seq(S) /\ Len(u) = Len(d) /\ \A q \in 1 .. Len(d) : u[q] = t[i + q - 1]
  <2> HIDE DEF b
  <2>1. u \in Seq(S) /\ Len(u) = IF i <= b THEN b - i + 1 ELSE 0
    BY <1>1, <1>3, Piece
  <2>2. Len(u) = Len(d)
    BY <1>1, <2>1
  <2>3. \A q \in 1 .. b - i + 1 : SubSeq(t, i, b)[q] = t[i + q - 1]
    BY <1>1, <1>3, PieceAt
  <2> QED BY <1>1, <2>1, <2>2, <2>3
<1> HIDE DEF u, b
<1>4. ASSUME b <= Len(t) PROVE u = d <=> \A q \in 1 .. Len(d) : t[i + q - 1] = d[q]
  <2>1. u \in Seq(S) /\ Len(u) = Len(d) /\ \A q \in 1 .. Len(d) : u[q] = t[i + q - 1]
    BY <1>3, <1>4
  <2>2. ASSUME \A q \in 1 .. Len(d) : t[i + q - 1] = d[q] PROVE u = d
    <3>1. \A q \in 1 .. Len(u) : u[q] = d[q]
      BY <2>1, <2>2
    <3> QED BY <2>1, <3>1, SeqEqual
  <2> QED BY <2>1, <2>2
<1> QED BY <1>2, <1>4 DEF b

\* strstr() finds the first place.
LEMMA FindFirst ==
  ASSUME NEW S, NEW t \in Seq(S), NEW d \in Seq(S), NEW k \in Nat, 1 <= k,
         NEW n \in k .. Len(t), BeginsAt(d, t, n), \A i \in k .. n - 1 : ~BeginsAt(d, t, i)
  PROVE  Find(d, t, k) = n
<1> DEFINE T == {i \in k .. Len(t) : BeginsAt(d, t, i)}
<1>1. Len(t) \in Nat /\ T \subseteq Nat \ {0} /\ n \in T
  OBVIOUS
<1>2. Find(d, t, k) = FirstOf[T]
  BY DEF Find
<1>3. \A j \in T : j \in Nat /\ n <= j
  <2> SUFFICES ASSUME NEW j \in T, ~(n <= j) PROVE FALSE
    BY <1>1
  <2>1. j \in k .. n - 1
    BY <1>1
  <2> QED BY <2>1
<1> HIDE DEF T
<1>4. \/ T = {} /\ FirstOf[T] = 0
      \/ FirstOf[T] \in T /\ \A j \in T : FirstOf[T] <= j
  BY <1>1, FirstOfIs
<1> DEFINE f == FirstOf[T]
<1> HIDE DEF f
<1>5. f \in T /\ \A j \in T : f <= j
  BY <1>1, <1>4 DEF f
<1>6. f <= n /\ n <= f /\ f \in Nat
  BY <1>1, <1>3, <1>5
<1>7. f = n
  BY <1>1, <1>6
<1> QED BY <1>2, <1>7 DEF f

\* Or none.
LEMMA FindNone ==
  ASSUME NEW S, NEW t \in Seq(S), NEW d, NEW k \in Nat, \A i \in k .. Len(t) : ~BeginsAt(d, t, i)
  PROVE  Find(d, t, k) = 0
<1> DEFINE T == {i \in k .. Len(t) : BeginsAt(d, t, i)}
<1>1. T = {}
  OBVIOUS
<1>2. FirstOf[{}] = 0
  BY DEF FirstOf
<1> QED BY <1>1, <1>2 DEF Find

\* Not behind a place where the text is.
LEMMA FindBefore ==
  ASSUME NEW S, NEW t \in Seq(S), NEW x, NEW k \in Nat, 1 <= k, NEW n \in k .. Len(t), t[n] = x
  PROVE  Find(<<x>>, t, k) \in k .. n
<1>1. \/ Find(<<x>>, t, k) = 0 /\ \A i \in k .. Len(t) : t[i] # x
      \/ /\ Find(<<x>>, t, k) \in k .. Len(t) /\ t[Find(<<x>>, t, k)] = x
         /\ \A i \in k .. Find(<<x>>, t, k) - 1 : t[i] # x
  BY FindToken
<1> DEFINE f == Find(<<x>>, t, k)
<1> HIDE DEF f
<1>2. f \in k .. Len(t) /\ \A i \in k .. f - 1 : t[i] # x
  BY <1>1 DEF f
<1>3. Len(t) \in Nat
  OBVIOUS
<1>4. f <= n
  BY <1>2, <1>3
<1>5. f \in k .. n
  BY <1>2, <1>3, <1>4
<1> QED BY <1>5 DEF f

-----------------------------------------------------------------------------
(* Texts made of parts.                                                    *)

\* A part of a joined text as a piece of it.
LEMMA JoinedPieces ==
  ASSUME NEW S, NEW a \in Seq(S), NEW b \in Seq(S), NEW t, t = a \o b
  PROVE  /\ t \in Seq(S) /\ Len(a) \in Nat /\ Len(b) \in Nat /\ Len(t) = Len(a) + Len(b)
         /\ SubSeq(t, 1, Len(a)) = a /\ From(t, Len(a) + 1) = b
<1> DEFINE n == Len(a)
           k == Len(b)
<1>1. /\ t \in Seq(S) /\ n \in Nat /\ k \in Nat /\ Len(t) = n + k
      /\ \A i \in 1 .. n : t[i] = a[i]
      /\ \A i \in 1 .. k : t[n + i] = b[i]
  BY Joined
<1>2. SubSeq(t, 1, n) \in Seq(S) /\ Len(SubSeq(t, 1, n)) = n /\ \A i \in 1 .. n : SubSeq(t, 1, n)[i] = a[i]
  <2> HIDE DEF n
  <2>1. n \in Int /\ n <= Len(t) /\ n - 1 + 1 = n /\ (1 <= n \/ n = 0) /\ 1 \in Nat /\ 1 <= 1
    BY <1>1
  <2>2. SubSeq(t, 1, n) \in Seq(S) /\ Len(SubSeq(t, 1, n)) = IF 1 <= n THEN n - 1 + 1 ELSE 0
    BY <1>1, <2>1, Piece
  <2>3. \A i \in 1 .. n - 1 + 1 : SubSeq(t, 1, n)[i] = t[1 + i - 1]
    <3>1. t \in Seq(S) /\ n \in Int /\ n <= Len(t) /\ 1 \in Nat /\ 1 <= 1
      BY <1>1, <2>1
    <3> QED BY <3>1, PieceAt, Zenon
  <2>4. \A i \in 1 .. n : 1 + i - 1 = i
    OBVIOUS
  <2> QED BY <1>1, <2>1, <2>2, <2>3, <2>4
<1>3. From(t, n + 1) \in Seq(S) /\ Len(From(t, n + 1)) = k /\ \A i \in 1 .. k : From(t, n + 1)[i] = b[i]
  <2> HIDE DEF n, k
  <2>1. n + 1 \in Nat /\ 1 <= n + 1 /\ Len(t) \in Int /\ Len(t) <= Len(t) /\ Len(t) - (n + 1) + 1 = k
        /\ (n + 1 <= Len(t) \/ k = 0)
    BY <1>1
  <2>2. SubSeq(t, n + 1, Len(t)) \in Seq(S)
        /\ Len(SubSeq(t, n + 1, Len(t))) = IF n + 1 <= Len(t) THEN Len(t) - (n + 1) + 1 ELSE 0
    BY <1>1, <2>1, Piece
  <2>3. \A i \in 1 .. Len(t) - (n + 1) + 1 : SubSeq(t, n + 1, Len(t))[i] = t[n + 1 + i - 1]
    <3>1. t \in Seq(S) /\ n + 1 \in Nat /\ 1 <= n + 1 /\ Len(t) \in Int /\ Len(t) <= Len(t)
      BY <1>1, <2>1
    <3> QED BY <3>1, PieceAt, Zenon
  <2>4. \A i \in 1 .. k : n + 1 + i - 1 = n + i
    BY <1>1
  <2> QED BY <1>1, <2>1, <2>2, <2>3, <2>4 DEF From
<1>4. SubSeq(t, 1, n) = a
  <2> DEFINE u == SubSeq(t, 1, n)
  <2> HIDE DEF u
  <2>1. u \in Seq(S) /\ Len(u) = Len(a) /\ \A i \in 1 .. Len(u) : u[i] = a[i]
    BY <1>2 DEF u, n
  <2>2. u = a
    BY <2>1, SeqEqual
  <2> QED BY <2>2 DEF u
<1>5. From(t, n + 1) = b
  <2> DEFINE u == From(t, n + 1)
  <2> HIDE DEF u
  <2>1. u \in Seq(S) /\ Len(u) = Len(b) /\ \A i \in 1 .. Len(u) : u[i] = b[i]
    BY <1>3 DEF u, k
  <2>2. u = b
    BY <2>1, SeqEqual
  <2> QED BY <2>2 DEF u
<1> QED BY <1>1, <1>4, <1>5 DEF n, k

\* The second of two joined texts, cut off where it begins.
LEMMA FromJoined ==
  ASSUME NEW S, NEW a \in Seq(S), NEW b \in Seq(S), NEW k, k = Len(a) + 1
  PROVE  From(a \o b, k) = b
<1> DEFINE t == a \o b
<1> HIDE DEF t
<1>1. t = a \o b
  BY DEF t
<1>2. From(t, Len(a) + 1) = b
  BY <1>1, JoinedPieces DEF From
<1> QED BY <1>1, <1>2

\* What a joined text begins with, and what it begins with behind its first part.
LEMMA BeginsJoined ==
  ASSUME NEW S, NEW a \in Seq(S), NEW b \in Seq(S), NEW d \in Seq(S), NEW i \in Nat, 1 <= i,
         NEW n, n = Len(a)
  PROVE  /\ BeginsAt(d, a \o b, n + i) <=> BeginsAt(d, b, i)
         /\ i + Len(d) - 1 <= n => (BeginsAt(d, a \o b, i) <=> BeginsAt(d, a, i))
<1> DEFINE t == a \o b
           k == Len(b)
           l == Len(d)
<1>1. /\ t \in Seq(S) /\ n \in Nat /\ k \in Nat /\ Len(t) = n + k
      /\ \A j \in 1 .. n : t[j] = a[j]
      /\ \A j \in 1 .. k : t[n + j] = b[j]
  BY Joined
<1>2. l \in Nat /\ n + i \in Nat /\ 1 <= n + i
  BY <1>1
<1>3. /\ BeginsAt(d, t, n + i) <=> n + i + l - 1 <= n + k /\ \A q \in 1 .. l : t[n + i + q - 1] = d[q]
      /\ BeginsAt(d, b, i) <=> i + l - 1 <= k /\ \A q \in 1 .. l : b[i + q - 1] = d[q]
      /\ BeginsAt(d, t, i) <=> i + l - 1 <= n + k /\ \A q \in 1 .. l : t[i + q - 1] = d[q]
      /\ BeginsAt(d, a, i) <=> i + l - 1 <= n /\ \A q \in 1 .. l : a[i + q - 1] = d[q]
  <2>1. BeginsAt(d, t, n + i) <=> n + i + Len(d) - 1 <= Len(t) /\ \A q \in 1 .. Len(d) : t[n + i + q - 1] = d[q]
    <3>1. t \in Seq(S) /\ n + i \in Nat /\ 1 <= n + i
      BY <1>1, <1>2
    <3> HIDE DEF t
    <3> QED BY <3>1, BeginsIs
  <2>2. BeginsAt(d, b, i) <=> i + Len(d) - 1 <= Len(b) /\ \A q \in 1 .. Len(d) : b[i + q - 1] = d[q]
    <3>1. b \in Seq(S) /\ i \in Nat /\ 1 <= i
      OBVIOUS
    <3> QED BY <3>1, BeginsIs, SMTT(20)
  <2>3. BeginsAt(d, t, i) <=> i + Len(d) - 1 <= Len(t) /\ \A q \in 1 .. Len(d) : t[i + q - 1] = d[q]
    <3>1. t \in Seq(S)
      BY <1>1
    <3> HIDE DEF t
    <3> QED BY <3>1, BeginsIs, SMTT(20)
  <2>4. BeginsAt(d, a, i) <=> i + Len(d) - 1 <= Len(a) /\ \A q \in 1 .. Len(d) : a[i + q - 1] = d[q]
    <3>1. a \in Seq(S) /\ d \in Seq(S) /\ i \in Nat /\ 1 <= i
      OBVIOUS
    <3> HIDE DEF t, k, l
    <3> QED BY <3>1, BeginsIs, SMTT(20)
  <2>5. Len(t) = n + k /\ Len(a) = n
    BY <1>1
  <2> HIDE DEF t
  <2> QED BY <2>1, <2>2, <2>3, <2>4, <2>5
<1> HIDE DEF t, k, l
<1>4. n + i + l - 1 <= n + k <=> i + l - 1 <= k
  BY <1>1, <1>2
<1>5. ASSUME i + l - 1 <= k, NEW q \in 1 .. l PROVE t[n + i + q - 1] = b[i + q - 1]
  <2>1. i + q - 1 \in 1 .. k /\ n + (i + q - 1) = n + i + q - 1
    BY <1>1, <1>2, <1>5
  <2> QED BY <1>1, <2>1
<1>6. ASSUME i + l - 1 <= n, NEW q \in 1 .. l PROVE t[i + q - 1] = a[i + q - 1]
  <2>1. i + q - 1 \in 1 .. n
    BY <1>1, <1>2, <1>6
  <2> QED BY <1>1, <2>1
<1>7. BeginsAt(d, t, n + i) <=> BeginsAt(d, b, i)
  BY <1>3, <1>4, <1>5
<1>8. i + l - 1 <= n => i + l - 1 <= n + k
  BY <1>1, <1>2
<1>9. ASSUME i + l - 1 <= n PROVE BeginsAt(d, t, i) <=> BeginsAt(d, a, i)
  BY <1>3, <1>6, <1>8, <1>9
<1> QED BY <1>7, <1>9 DEF t, l

\* strstr(), whatever it looks for.
LEMMA FindIsFirst ==
  ASSUME NEW S, NEW t \in Seq(S), NEW d, NEW k \in Nat, 1 <= k, NEW f, f = Find(d, t, k)
  PROVE  \/ f = 0 /\ \A i \in k .. Len(t) : ~BeginsAt(d, t, i)
         \/ /\ f \in k .. Len(t) /\ BeginsAt(d, t, f)
            /\ \A i \in k .. f - 1 : ~BeginsAt(d, t, i)
<1> DEFINE T == {i \in k .. Len(t) : BeginsAt(d, t, i)}
<1>1. Len(t) \in Nat /\ T \subseteq Nat \ {0}
  OBVIOUS
<1>2. f = FirstOf[T]
  BY DEF Find
<1>3. \/ T = {} /\ f = 0
      \/ f \in T /\ \A j \in T : f <= j
  <2> HIDE DEF T
  <2> QED BY <1>1, <1>2, FirstOfIs
<1>4. CASE T = {}
  BY <1>3, <1>4
<1>5. CASE T # {} /\ f \in T /\ \A j \in T : f <= j
  <2>1. f \in k .. Len(t) /\ BeginsAt(d, t, f)
    BY <1>5
  <2>2. ASSUME NEW i \in k .. f - 1, BeginsAt(d, t, i) PROVE FALSE
    <3>1. i \in T /\ ~(f <= i)
      BY <1>1, <2>1, <2>2
    <3> QED BY <1>5, <3>1
  <2> QED BY <2>1, <2>2
<1> QED BY <1>3, <1>4, <1>5

\* A search that finds nothing in the first part of a text goes on in the second.
LEMMA FindBehind ==
  ASSUME NEW S, NEW a \in Seq(S), NEW b \in Seq(S), NEW d \in Seq(S), NEW n, n = Len(a),
         NEW k \in Nat, 1 <= k, NEW j \in Nat, 1 <= j, k <= n + j,
         \A i \in k .. n + j - 1 : ~BeginsAt(d, a \o b, i),
         NEW f, f = Find(d, b, j)
  PROVE  Find(d, a \o b, k) = IF f = 0 THEN 0 ELSE n + f
<1> DEFINE t == a \o b
<1>1. t \in Seq(S) /\ n \in Nat /\ Len(b) \in Nat /\ Len(t) = n + Len(b)
  BY Joined
<1>2. \A i \in Nat : 1 <= i => (BeginsAt(d, t, n + i) <=> BeginsAt(d, b, i))
  BY BeginsJoined
<1>3. \/ f = 0 /\ \A i \in j .. Len(b) : ~BeginsAt(d, b, i)
      \/ /\ f \in j .. Len(b) /\ BeginsAt(d, b, f)
         /\ \A i \in j .. f - 1 : ~BeginsAt(d, b, i)
  BY FindIsFirst
<1> HIDE DEF t
<1>4. \A i \in k .. n + j - 1 : ~BeginsAt(d, t, i)
  BY DEF t
<1>5. CASE f = 0 /\ \A i \in j .. Len(b) : ~BeginsAt(d, b, i)
  <2>1. ASSUME NEW i \in k .. Len(t) PROVE ~BeginsAt(d, t, i)
    <3>1. CASE i <= n + j - 1
      <4>1. i \in k .. n + j - 1
        BY <1>1, <3>1
      <4> QED BY <1>4, <4>1
    <3>2. CASE i > n + j - 1
      <4>1. i - n \in j .. Len(b) /\ n + (i - n) = i /\ i - n \in Nat /\ 1 <= i - n
        BY <1>1, <3>2
      <4> QED BY <1>2, <1>5, <4>1
    <3> QED BY <1>1, <3>1, <3>2
  <2>2. Find(d, t, k) = 0
    BY <1>1, <2>1, FindNone
  <2> QED BY <1>5, <2>2 DEF t
<1>6. CASE f # 0 /\ f \in j .. Len(b) /\ BeginsAt(d, b, f) /\ \A i \in j .. f - 1 : ~BeginsAt(d, b, i)
  <2>1. n + f \in k .. Len(t) /\ f \in Nat /\ 1 <= f
    BY <1>1, <1>6
  <2>2. BeginsAt(d, t, n + f)
    BY <1>2, <1>6, <2>1
  <2>3. ASSUME NEW i \in k .. n + f - 1 PROVE ~BeginsAt(d, t, i)
    <3>1. CASE i <= n + j - 1
      <4>1. i \in k .. n + j - 1
        BY <1>1, <3>1
      <4> QED BY <1>4, <4>1
    <3>2. CASE i > n + j - 1
      <4>1. i - n \in j .. f - 1 /\ n + (i - n) = i /\ i - n \in Nat /\ 1 <= i - n
        <5>1. i \in Int /\ n \in Nat /\ j \in Nat /\ 1 <= j /\ f \in Nat /\ i <= n + f - 1
          BY <1>1, <2>1
        <5> QED BY <3>2, <5>1
      <4> QED BY <1>2, <1>6, <4>1
    <3> QED BY <1>1, <2>1, <3>1, <3>2
  <2> DEFINE g == n + f
  <2>4. g \in k .. Len(t) /\ BeginsAt(d, t, g) /\ \A i \in k .. g - 1 : ~BeginsAt(d, t, i)
    BY <2>1, <2>2, <2>3
  <2> HIDE DEF g
  <2>5. Find(d, t, k) = g
    BY <1>1, <2>4, FindFirst
  <2> QED BY <1>6, <2>5 DEF t, g
<1>7. 0 \notin j .. Len(b)
  BY <1>1
<1> QED BY <1>3, <1>5, <1>6, <1>7

\* What is found where a token of it cannot be: not there.
LEMMA BeginsWith ==
  ASSUME NEW S, NEW t \in Seq(S), NEW d \in Seq(S), d # <<>>, NEW i \in 1 .. Len(t), BeginsAt(d, t, i)
  PROVE  t[i] = d[1]
<1>1. i \in Nat /\ 1 <= i /\ 1 \in 1 .. Len(d) /\ i + 1 - 1 = i
  BY NotEmpty
<1>2. BeginsAt(d, t, i) <=> i + Len(d) - 1 <= Len(t) /\ \A q \in 1 .. Len(d) : t[i + q - 1] = d[q]
  BY <1>1, BeginsIs
<1>3. t[i + 1 - 1] = d[1]
  BY <1>1, <1>2
<1> QED BY <1>1, <1>3

\* What does not begin in the first of two joined texts is found where the second has it.
LEMMA FindNext ==
  ASSUME NEW S, NEW a \in Seq(S), NEW b \in Seq(S), NEW d \in Seq(S), d # <<>>, NEW n, n = Len(a),
         NEW k \in Nat, 1 <= k, k <= n + 1, \A i \in k .. n : a[i] # d[1], NEW f, f = Find(d, b, 1)
  PROVE  Find(d, a \o b, k) = IF f = 0 THEN 0 ELSE n + f
<1> DEFINE t == a \o b
<1>1. t \in Seq(S) /\ n \in Nat /\ Len(b) \in Nat /\ Len(t) = n + Len(b) /\ \A i \in 1 .. n : t[i] = a[i]
  BY Joined
<1> HIDE DEF t
<1>2. ASSUME NEW i \in k .. n + 1 - 1 PROVE ~BeginsAt(d, t, i)
  <2>1. i \in k .. n /\ i \in 1 .. Len(t) /\ i \in 1 .. n
    BY <1>1
  <2>2. t[i] # d[1]
    BY <1>1, <2>1
  <2> QED BY <1>1, <2>1, <2>2, BeginsWith
<1>3. 1 \in Nat /\ 1 <= 1 /\ \A i \in k .. n + 1 - 1 : ~BeginsAt(d, a \o b, i)
  BY <1>2 DEF t
<1> QED BY <1>3, FindBehind

-----------------------------------------------------------------------------
(* A multipart message as a text.                                          *)

\* Joining is associative.
LEMMA Shifted ==
  ASSUME NEW S, NEW a \in Seq(S), NEW b \in Seq(S), NEW c \in Seq(S)
  PROVE  (a \o b) \o c = a \o (b \o c) /\ a \o b \in Seq(S) /\ b \o c \in Seq(S)
  BY Associative

\* What follows the literal in the reply, and the parts and what follows them.
Closing == <<")">> \o (Eol \o (<<"A03 OK">> \o Eol))
Ending  == <<"--", "b", "--">> \o (Eol \o Closing)

\* Any set of tokens that has those of the frame.
Framing == {"CR", "LF", ")", "A03 OK", "* FETCH"}

\* Texts joined from the front are texts joined from the end.
LEMMA Moved ==
  ASSUME NEW S, NEW a \in Seq(S), NEW b \in Seq(S), NEW c \in Seq(S)
  PROVE  Cat(Cat(a, b), c) = Cat(a, Cat(b, c)) /\ Cat(a, b) \in Seq(S) /\ Cat(b, c) \in Seq(S)
  BY Shifted DEF Cat

\* Two texts joined are a text.
LEMMA BothTyped ==
  ASSUME NEW S, NEW a \in Seq(S), NEW b \in Seq(S)
  PROVE  a \o b \in Seq(S)
  OBVIOUS

\* Four texts, joined from the left or from the right,
LEMMA Nested4 ==
  ASSUME NEW S, NEW a \in Seq(S), NEW b \in Seq(S), NEW c \in Seq(S), NEW d \in Seq(S)
  PROVE  Cat(Cat(Cat(a, b), c), d)
           = Cat(a, Cat(b, Cat(c, d)))
         /\ Cat(b, Cat(c, d)) \in Seq(S)
<1> DEFINE x == Cat(a, b)
           y == Cat(c, d)
<1>1. x \in Seq(S)
  BY Moved
<1>2. y \in Seq(S)
  BY Moved
<1>3. Cat(x, y) = Cat(a, Cat(b, y)) /\ Cat(b, y) \in Seq(S)
  <2> HIDE DEF y
  <2> QED BY <1>2, Moved
<1>4. Cat(Cat(x, c), d) = Cat(x, y)
  <2> HIDE DEF x
  <2> QED BY <1>1, Moved
<1> QED BY <1>3, <1>4

\* and five,
LEMMA Nested5 ==
  ASSUME NEW S, NEW a \in Seq(S), NEW b \in Seq(S), NEW c \in Seq(S), NEW d \in Seq(S), NEW e \in Seq(S)
  PROVE  Cat(Cat(Cat(Cat(a, b), c), d), e)
           = Cat(a, Cat(b, Cat(c, Cat(d, e))))
         /\ Cat(b, Cat(c, Cat(d, e))) \in Seq(S)
<1> DEFINE x == Cat(a, b)
           y == Cat(c, Cat(d, e))
<1>1. x \in Seq(S)
  BY Moved
<1>2. y \in Seq(S)
  BY Nested4
<1>3. Cat(x, y) = Cat(a, Cat(b, y)) /\ Cat(b, y) \in Seq(S)
  <2> HIDE DEF y
  <2> QED BY <1>2, Moved, SMTT(20)
<1>4. Cat(Cat(Cat(x, c), d), e) = Cat(x, y)
  <2> HIDE DEF x
  <2> QED BY <1>1, Nested4
<1> QED BY <1>3, <1>4

\* and six.
LEMMA Nested6 ==
  ASSUME NEW S, NEW a \in Seq(S), NEW b \in Seq(S), NEW c \in Seq(S), NEW d \in Seq(S), NEW e \in Seq(S), NEW f \in Seq(S)
  PROVE  Cat(Cat(Cat(Cat(Cat(a, b), c), d), e), f)
           = Cat(a, Cat(b, Cat(c, Cat(d, Cat(e, f)))))
         /\ Cat(b, Cat(c, Cat(d, Cat(e, f)))) \in Seq(S)
<1> DEFINE x == Cat(a, b)
           y == Cat(c, Cat(d, Cat(e, f)))
<1>1. x \in Seq(S)
  BY Moved
<1>2. y \in Seq(S)
  BY Nested5
<1>3. Cat(x, y) = Cat(a, Cat(b, y)) /\ Cat(b, y) \in Seq(S)
  <2> HIDE DEF y
  <2> QED BY <1>2, Moved
<1>4. Cat(Cat(Cat(Cat(x, c), d), e), f) = Cat(x, y)
  <2> HIDE DEF x
  <2> QED BY <1>1, Nested5
<1> QED BY <1>3, <1>4

\* The reply to a FETCH: its first line, the literal, and what closes it.
LEMMA ReplyShape ==
  ASSUME NEW S, Framing \subseteq S, NEW l \in Seq(S)
  PROVE  /\ Closing \in Seq(S) /\ <<"* FETCH">> \o Eol \in Seq(S) /\ Eol \in Seq(S)
         /\ FetchReply(l, "A03 OK") = (<<"* FETCH">> \o Eol) \o (l \o Closing)
<1> DEFINE e == Eol
           q == <<")">>
           g == <<"A03 OK">>
           h == <<"* FETCH">>
           f == h \o e
<1>1. e \in Seq(S) /\ q \in Seq(S) /\ g \in Seq(S) /\ h \in Seq(S)
  <2>1. "CR" \in S /\ "LF" \in S /\ ")" \in S /\ "A03 OK" \in S /\ "* FETCH" \in S
    BY DEF Framing
  <2> QED BY <2>1, Short DEF Eol
<1>2. /\ FetchReply(l, "A03 OK") = Cat(Cat(Cat(Cat(Cat(f, l), q), e), g), e)
      /\ Closing = Cat(q, Cat(e, Cat(g, e)))
  BY Zenon DEF FetchReply, Closing, Cat
<1> HIDE DEF e, q, g, h
<1>3. f \in Seq(S)
  BY <1>1, Shifted
<1>4. Cat(q, Cat(e, Cat(g, e))) \in Seq(S)
  BY <1>1, Nested5
<1> HIDE DEF f
<1>5. Cat(Cat(Cat(Cat(Cat(f, l), q), e), g), e) = Cat(f, Cat(l, Cat(q, Cat(e, Cat(g, e)))))
  BY <1>1, <1>3, Nested6
<1>6. Cat(f, Cat(l, Closing)) = f \o (l \o Closing)
  BY Zenon DEF Cat
<1> QED BY <1>1, <1>2, <1>3, <1>4, <1>5, <1>6, Zenon DEF f, h, e

TheFields(m) ==
  IF m.versionFirst THEN Version \o BoundaryField(m) ELSE BoundaryField(m) \o Version

PartTexts(m) == [i \in DOMAIN m.parts |-> PartText(m.parts[i])]

\* The literal of a multipart message, and the reply behind it.
LEMMA LiteralShape ==
  ASSUME NEW S, Framing \cup {"--", "b"} \subseteq S, NEW m, TheFields(m) \in Seq(S), m.preamble \in Seq(S),
         FlattenSeq(PartTexts(m)) \in Seq(S)
  PROVE  /\ Ending \in Seq(S) /\ MimeLiteral(m) \in Seq(S)
         /\ MimeLiteral(m) \o Closing
              = TheFields(m) \o (Eol \o (m.preamble \o (FlattenSeq(PartTexts(m)) \o Ending)))
<1> DEFINE e == Eol
           a == TheFields(m)
           p == m.preamble
           f == FlattenSeq(PartTexts(m))
           d == <<"--", "b", "--">>
           c == Closing
<1>1. e \in Seq(S) /\ c \in Seq(S)
  <2>1. Framing \subseteq S /\ <<>> \in Seq(S)
    BY EmptySeq
  <2> QED BY <2>1, ReplyShape
<1>2. d \in Seq(S)
  <2>1. "--" \in S /\ "b" \in S
    OBVIOUS
  <2> QED BY <2>1, Longer
<1>3. a \in Seq(S) /\ p \in Seq(S) /\ f \in Seq(S)
  OBVIOUS
<1>4. MimeLiteral(m) = Cat(Cat(Cat(Cat(Cat(a, e), p), f), d), e) /\ Ending = Cat(d, Cat(e, c))
  BY Zenon DEF MimeLiteral, Ending, TheFields, PartTexts, Cat
<1> HIDE DEF e, a, p, f, d, c
<1>5. Cat(Cat(Cat(Cat(Cat(Cat(a, e), p), f), d), e), c) = Cat(a, Cat(e, Cat(p, Cat(f, Cat(d, Cat(e, c))))))
  <2> DEFINE y == Cat(Cat(Cat(Cat(a, e), p), f), d)
             z == Cat(e, c)
  <2>1. z \in Seq(S)
    BY <1>1, Moved
  <2>2. y \in Seq(S)
    <3> DEFINE v == Cat(a, e)
               w == Cat(v, p)
               x == Cat(w, f)
    <3>1. v \in Seq(S)
      BY <1>1, <1>3, Moved
    <3> HIDE DEF v
    <3>2. w \in Seq(S)
      BY <1>3, <3>1, Moved
    <3> HIDE DEF w
    <3>3. x \in Seq(S)
      BY <1>3, <3>2, Moved
    <3> HIDE DEF x
    <3>4. Cat(x, d) \in Seq(S)
      BY <1>2, <3>3, Moved
    <3> QED BY <3>4 DEF x, w, v
  <2>3. Cat(Cat(y, e), c) = Cat(y, z)
    <3> HIDE DEF y
    <3> QED BY <1>1, <2>2, Moved
  <2>4. Cat(y, z) = Cat(a, Cat(e, Cat(p, Cat(f, Cat(d, z)))))
    <3> HIDE DEF z
    <3> QED BY <1>1, <1>2, <1>3, <2>1, Nested6, SMTT(20)
  <2> QED BY <2>3, <2>4
<1>6. Cat(d, Cat(e, c)) \in Seq(S)
  BY <1>1, <1>2, Nested4
<1>7. MimeLiteral(m) \in Seq(S)
  <2> DEFINE v == Cat(a, e)
             w == Cat(v, p)
             x == Cat(w, f)
             y == Cat(x, d)
  <2>1. v \in Seq(S)
    BY <1>1, <1>3, Moved
  <2> HIDE DEF v
  <2>2. w \in Seq(S)
    BY <1>3, <2>1, Moved
  <2> HIDE DEF w
  <2>3. x \in Seq(S)
    BY <1>3, <2>2, Moved
  <2> HIDE DEF x
  <2>4. y \in Seq(S)
    BY <1>2, <2>3, Moved
  <2> HIDE DEF y
  <2>5. Cat(y, e) \in Seq(S)
    BY <1>1, <2>4, Moved
  <2> QED BY <1>4, <2>5 DEF y, x, w, v
<1>8. /\ Cat(a, Cat(e, Cat(p, Cat(f, Ending)))) = a \o (e \o (p \o (f \o Ending)))
      /\ Cat(MimeLiteral(m), c) = MimeLiteral(m) \o c
  BY Zenon DEF Cat
<1> QED BY <1>4, <1>5, <1>6, <1>7, <1>8, Zenon DEF a, e, p, f, c

-----------------------------------------------------------------------------
(* The tokens of a multipart message.                                      *)

\* A text over some tokens is one over more.
LEMMA Within ==
  ASSUME NEW S, NEW R, S \subseteq R, NEW t \in Seq(S)
  PROVE  t \in Seq(R)
  OBVIOUS

\* A part, as TextsAssumption has it.
PartIs(p) ==
  /\ p.type \in Words \ ({"charset=UTF-8"} \cup Readable)
  /\ p.charset \in Words \ ({"text/plain"} \cup Readable)
  /\ p.encoding = "none" \/ p.encoding \in Words \ {"text/plain", "charset=UTF-8"}
  /\ p.folded \in BOOLEAN /\ p.lower \in BOOLEAN /\ p.typeLast \in BOOLEAN /\ p.body \in Unmarked

\* What TextsAssumption says of a multipart message.
LEMMA MultipartIs ==
  ASSUME NEW m \in Multiparts
  PROVE  /\ m.quoted \in BOOLEAN /\ m.versionFirst \in BOOLEAN /\ m.preamble \in Unmarked
         /\ m.parts # <<>> => 1 <= Len(m.parts)
         /\ Len(m.parts) \in Nat /\ DOMAIN m.parts = 1 .. Len(m.parts)
         /\ \A i \in 1 .. Len(m.parts) : PartIs(m.parts[i])
<1> DEFINE P == [type : Words \ ({"charset=UTF-8"} \cup Readable),
                 charset : Words \ ({"text/plain"} \cup Readable),
                 encoding : {"none"} \cup (Words \ {"text/plain", "charset=UTF-8"}),
                 folded : BOOLEAN, lower : BOOLEAN, typeLast : BOOLEAN, body : Unmarked]
<1>1. m \in MultipartMessages
  BY TextsAssumption, Zenon DEF TextsAssumption
<1>2. m \in [quoted : BOOLEAN, versionFirst : BOOLEAN, preamble : Unmarked, parts : Seq(P)]
  BY <1>1 DEF MultipartMessages
<1>3. \A p \in P : PartIs(p)
  BY DEF PartIs
<1> HIDE DEF P
<1>4. m.quoted \in BOOLEAN /\ m.versionFirst \in BOOLEAN /\ m.preamble \in Unmarked /\ m.parts \in Seq(P)
  BY <1>2
<1>5. Len(m.parts) \in Nat /\ DOMAIN m.parts = 1 .. Len(m.parts) /\ \A i \in 1 .. Len(m.parts) : m.parts[i] \in P
  BY <1>4, LenProperties, ElementOfSeq
<1>6. m.parts # <<>> => 1 <= Len(m.parts)
  BY <1>4, NotEmpty
<1> QED BY <1>3, <1>4, <1>5, <1>6

\* The tokens of a message but for the name of the parameter, and with it.
Sayable == Tokens \ {"(null)", "boundary="}
Spoken  == Tokens \ {"(null)"}

\* The tokens that the texts of a message are made of.
LEMMA SayableTokens ==
  /\ Framing \subseteq Sayable /\ {"--", "b", "w", "quote", ";", " ", "MIME-Version: 1.0", "multipart/mixed",
      "Content-Type:", "content-type:", "Content-Transfer-Encoding:", "content-transfer-encoding:"} \subseteq Sayable
  /\ Words \subseteq Sayable /\ Unmarked \subseteq Seq(Sayable)
  /\ Sayable \subseteq Spoken /\ Spoken \subseteq Tokens /\ "boundary=" \in Spoken
<1>1. {"MIME-Version: 1.0", "multipart/mixed", ";", "boundary=", "quote", "b", "w"} \subseteq Tokens
      /\ TypeNames \cup EncodingNames \subseteq Tokens
  BY TextsAssumption, Zenon DEF TextsAssumption
<1>2. {"CR", "LF", ")", "* FETCH", "A03 OK"} \subseteq Tokens
  BY MailsAssumption DEF MailsAssumption
<1>3. Words \subseteq Sayable
  BY DEF Words, Sayable
<1>4. {"Content-Type:", "content-type:", "Content-Transfer-Encoding:", "content-transfer-encoding:"} \subseteq Tokens
  BY <1>1 DEF TypeNames, EncodingNames
<1>5. Tokens \ {"--", "boundary=", "(null)"} \subseteq Sayable
  BY DEF Sayable
<1>6. Unmarked \subseteq Seq(Sayable)
  <2>1. Unmarked \subseteq Seq(Tokens \ {"--", "boundary=", "(null)"})
    BY DEF Unmarked
  <2> QED BY <1>5, <2>1, Within
<1> QED BY <1>1, <1>2, <1>3, <1>4, <1>6, WrittenTokens DEF Sayable, Spoken, Framing

\* A header field over the tokens of its name and its value.
LEMMA FieldTokens ==
  ASSUME NEW S, {" ", "CR", "LF"} \subseteq S, NEW n \in S, NEW v \in Seq(S)
  PROVE  Field(n, v) \in Seq(S)
<1>1. <<n, " ">> \in Seq(S) /\ Eol \in Seq(S)
  BY Short DEF Eol
<1>2. <<n, " ">> \o v \in Seq(S)
  BY <1>1, Shifted
<1> DEFINE w == <<n, " ">> \o v
<1>3. Field(n, v) = w \o Eol
  BY DEF Field
<1> HIDE DEF w
<1>4. w \in Seq(S)
  BY <1>2 DEF w
<1> QED BY <1>1, <1>3, <1>4, BothTyped

\* The value of the type field.
TypeValue(p) == <<p.type, ";">> \o (IF p.folded THEN Eol ELSE <<>>) \o <<" ", p.charset>>

\* The fields of a part name no boundary.
LEMMA PartFieldsTokens ==
  ASSUME NEW p, PartIs(p)
  PROVE  TypeValue(p) \in Seq(Sayable) /\ PartFields(p) \in Seq(Sayable)
<1>1. /\ p.type \in Sayable /\ p.charset \in Sayable /\ (p.encoding = "none" \/ p.encoding \in Sayable)
      /\ {" ", "CR", "LF"} \subseteq Sayable /\ " " \in Sayable /\ ";" \in Sayable
      /\ "CR" \in Sayable /\ "LF" \in Sayable
  BY SayableTokens DEF PartIs, Framing
<1>2. TypeValue(p) \in Seq(Sayable)
  <2> DEFINE a == <<p.type, ";">>
             g == IF p.folded THEN Eol ELSE <<>>
             c == <<" ", p.charset>>
             v == a \o g
  <2>1. a \in Seq(Sayable) /\ g \in Seq(Sayable) /\ c \in Seq(Sayable)
    <3>1. a \in Seq(Sayable) /\ c \in Seq(Sayable) /\ Eol \in Seq(Sayable)
      BY <1>1, Short DEF Eol
    <3>2. <<>> \in Seq(Sayable)
      BY EmptySeq
    <3> QED BY <3>1, <3>2
  <2>2. TypeValue(p) = v \o c
    BY DEF TypeValue
  <2> HIDE DEF a, g, c
  <2>3. v \in Seq(Sayable)
    BY <2>1, Shifted
  <2> HIDE DEF v
  <2> QED BY <2>1, <2>2, <2>3, Shifted
<1>3. ASSUME NEW n \in Sayable PROVE ContentType(p, n) \in Seq(Sayable)
  <2>1. ContentType(p, n) = Field(n, TypeValue(p))
    BY DEF ContentType, TypeValue
  <2> QED BY <1>1, <1>2, <2>1, FieldTokens
<1>4. ASSUME NEW n \in Sayable PROVE Encoding(p, n) \in Seq(Sayable)
  <2>1. CASE p.encoding = "none"
    BY <2>1, EmptySeq DEF Encoding
  <2>2. CASE p.encoding # "none"
    <3>1. <<p.encoding>> \in Seq(Sayable)
      BY <1>1, <2>2, Short
    <3>2. Encoding(p, n) = Field(n, <<p.encoding>>)
      BY <2>2 DEF Encoding
    <3> QED BY <1>1, <3>1, <3>2, FieldTokens
  <2> QED BY <2>1, <2>2
<1>5. \A x \in Seq(Sayable), y \in Seq(Sayable) : x \o y \in Seq(Sayable)
  BY Shifted
<1>6. {"Content-Type:", "content-type:", "Content-Transfer-Encoding:", "content-transfer-encoding:"} \subseteq Sayable
  BY SayableTokens
<1>7. PartFields(p) \in Seq(Sayable)
  <2>1. /\ ContentType(p, "content-type:") \in Seq(Sayable) /\ ContentType(p, "Content-Type:") \in Seq(Sayable)
        /\ Encoding(p, "content-transfer-encoding:") \in Seq(Sayable)
        /\ Encoding(p, "Content-Transfer-Encoding:") \in Seq(Sayable)
    BY <1>3, <1>4, <1>6
  <2> QED BY <1>5, <2>1, Zenon DEF PartFields
<1> QED BY <1>2, <1>7

\* A part, and what follows it.
LEMMA PartShape ==
  ASSUME NEW p, PartIs(p), NEW y \in Seq(Sayable)
  PROVE  /\ PartText(p) \in Seq(Sayable)
         /\ PartText(p) \o y = <<"--", "b">> \o (Eol \o (PartFields(p) \o (Eol \o (p.body \o (Eol \o y)))))
         /\ p.body \o (Eol \o y) \in Seq(Sayable)
<1> DEFINE d == <<"--", "b">>
           e == Eol
           f == PartFields(p)
           b == p.body
           x1 == Cat(d, e)
           x2 == Cat(x1, f)
           x3 == Cat(x2, e)
           x4 == Cat(x3, b)
           x5 == Cat(x4, e)
           z == Cat(e, y)
<1>1. d \in Seq(Sayable) /\ e \in Seq(Sayable)
  <2>1. "--" \in Sayable /\ "b" \in Sayable /\ "CR" \in Sayable /\ "LF" \in Sayable
    BY SayableTokens DEF Framing
  <2> QED BY <2>1, Short DEF Eol
<1>2. f \in Seq(Sayable) /\ b \in Seq(Sayable)
  BY PartFieldsTokens, SayableTokens DEF PartIs
<1>3. PartText(p) = x5 /\ Cat(x5, y) = PartText(p) \o y /\ Cat(b, z) = p.body \o (Eol \o y)
      /\ Cat(d, Cat(e, Cat(f, Cat(e, Cat(b, z)))))
           = <<"--", "b">> \o (Eol \o (PartFields(p) \o (Eol \o (p.body \o (Eol \o y)))))
  BY Zenon DEF PartText, Cat
<1> HIDE DEF d, e, f, b
<1>4. x1 \in Seq(Sayable)
  BY <1>1, Moved
<1>5. x2 \in Seq(Sayable)
  <2> HIDE DEF x1
  <2> QED BY <1>2, <1>4, Moved
<1>6. x3 \in Seq(Sayable)
  <2> HIDE DEF x2
  <2> QED BY <1>1, <1>5, Moved
<1>7. x4 \in Seq(Sayable)
  <2> HIDE DEF x3
  <2> QED BY <1>2, <1>6, Moved
<1>8. x5 \in Seq(Sayable) /\ Cat(x5, y) = Cat(x4, z) /\ z \in Seq(Sayable)
  <2> HIDE DEF x4
  <2> QED BY <1>1, <1>7, Moved
<1>9. Cat(x4, z) = Cat(d, Cat(e, Cat(f, Cat(e, Cat(b, z))))) /\ Cat(b, z) \in Seq(Sayable)
  <2> HIDE DEF z
  <2>1. Cat(x4, z) = Cat(d, Cat(e, Cat(f, Cat(e, Cat(b, z)))))
    BY <1>1, <1>2, <1>8, Nested6
  <2>2. Cat(b, z) \in Seq(Sayable)
    BY <1>2, <1>8, Moved
  <2> QED BY <2>1, <2>2
<1> QED BY <1>3, <1>8, <1>9, Zenon

-----------------------------------------------------------------------------
(* Where the boundary is named.                                            *)

\* What is before the value of the parameter, without its name; the value; and what is
\* between its line and the first delimiter.
Mixed   == <<"multipart/mixed", ";", " ">>
Opening == <<"Content-Type:", " ">>
Naming  == <<"boundary=">>
Lead    == (<<"* FETCH">> \o Eol) \o (Version \o (<<"Content-Type:", " ">> \o Mixed))
Value(m) == IF m.quoted THEN <<"quote", "b", "quote">> ELSE <<"b">>
Gap(m)  == Eol \o (Eol \o m.preamble)

MixedTokens == {"CR", "LF", "Content-Type:", " ", "multipart/mixed", ";"}
LeadTokens  == {"* FETCH", "CR", "LF", "MIME-Version: 1.0", "Content-Type:", " ", "multipart/mixed", ";"}

\* A text of four tokens.
LEMMA Four ==
  ASSUME NEW S, NEW a \in S, NEW b \in S, NEW c \in S, NEW d \in S
  PROVE  <<a, b, c, d>> \in Seq(S)
  OBVIOUS

\* What comes before the boundary's name has the version at its fourth place.
LEMMA LeadIs ==
  /\ <<"* FETCH">> \o Eol \in Seq(LeadTokens) /\ Version \in Seq(LeadTokens)
  /\ <<"Content-Type:", " ">> \in Seq(MixedTokens) /\ Mixed \in Seq(MixedTokens) /\ Lead \in Seq(LeadTokens)
  /\ <<"Content-Type:", " ">> \o Mixed \in Seq(LeadTokens)
  /\ Len(Lead) \in Nat /\ 4 <= Len(Lead) /\ Lead[4] = "MIME-Version: 1.0"
<1> DEFINE S == LeadTokens
           h == <<"* FETCH">>
           v == <<"MIME-Version: 1.0">>
           c == <<"Content-Type:", " ">>
           f == h \o Eol
           w == v \o Eol
           g == c \o Mixed
           r == w \o g
           t == f \o r
<1>1. "* FETCH" \in S /\ "MIME-Version: 1.0" \in S /\ "Content-Type:" \in S /\ " " \in S
      /\ "multipart/mixed" \in S /\ ";" \in S /\ "CR" \in S /\ "LF" \in S
  BY DEF LeadTokens
<1> HIDE DEF S
<1>2. h \in Seq(S) /\ v \in Seq(S) /\ c \in Seq(S) /\ Eol \in Seq(S) /\ Mixed \in Seq(S)
  BY <1>1, Short, Longer DEF Eol, Mixed
<1>3. Len(h) = 1 /\ Len(v) = 1 /\ Len(Eol) = 2
  BY DEF Eol
<1>4. v[1] = "MIME-Version: 1.0"
  OBVIOUS
<1>5. Lead = t /\ Version = w /\ f = <<"* FETCH">> \o Eol /\ c = <<"Content-Type:", " ">>
      /\ g = <<"Content-Type:", " ">> \o Mixed
  BY DEF Lead, Version
<1> HIDE DEF h, v, c
<1>6. f \in Seq(S) /\ Len(f) = Len(h) + Len(Eol)
  BY <1>2, Joined
<1>7. /\ w \in Seq(S) /\ Len(w) = Len(v) + Len(Eol)
      /\ \A i \in 1 .. Len(v) : w[i] = v[i]
  BY <1>2, Joined
<1>8. g \in Seq(S)
  BY <1>2, Shifted
<1> HIDE DEF f, w, g
<1>9. /\ r \in Seq(S) /\ Len(g) \in Nat /\ Len(r) = Len(w) + Len(g)
      /\ \A i \in 1 .. Len(w) : r[i] = w[i]
  BY <1>7, <1>8, Joined
<1> HIDE DEF r
<1>10. /\ t \in Seq(S) /\ Len(t) = Len(f) + Len(r)
       /\ \A i \in 1 .. Len(r) : t[Len(f) + i] = r[i]
  <2>1. f \in Seq(S) /\ r \in Seq(S)
    BY <1>6, <1>9
  <2> QED BY <2>1, Joined
<1> HIDE DEF t
<1>11. Len(f) = 3 /\ Len(w) = 3
  BY <1>3, <1>6, <1>7
<1>12. Len(t) \in Nat /\ 4 <= Len(t) /\ 1 \in 1 .. Len(v) /\ 1 \in 1 .. Len(w) /\ 1 \in 1 .. Len(r)
  BY <1>3, <1>9, <1>10, <1>11
<1>13. t[Len(f) + 1] = r[1] /\ r[1] = w[1] /\ w[1] = v[1]
  BY <1>7, <1>9, <1>10, <1>12
<1>14. Len(f) + 1 = 4
  BY <1>11
<1>15. t[4] = "MIME-Version: 1.0"
  BY <1>4, <1>13, <1>14
<1>16. <<"Content-Type:", " ">> \in Seq(MixedTokens) /\ Mixed \in Seq(MixedTokens)
  <2> DEFINE R == MixedTokens
  <2>1. "Content-Type:" \in R /\ " " \in R /\ "multipart/mixed" \in R /\ ";" \in R
    BY DEF MixedTokens
  <2> HIDE DEF R
  <2>2. <<"Content-Type:", " ">> \in Seq(R) /\ Mixed \in Seq(R)
    BY <2>1, Short, Longer DEF Mixed
  <2> QED BY <2>2 DEF R
<1> QED BY <1>5, <1>6, <1>7, <1>8, <1>10, <1>12, <1>15, <1>16 DEF S

\* The boundary, in quotes or not, over its two tokens.
LEMMA ValueIs ==
  ASSUME NEW m
  PROVE  Value(m) \in Seq({"quote", "b"})
<1>1. "quote" \in {"quote", "b"} /\ "b" \in {"quote", "b"}
  OBVIOUS
<1>2. <<"quote", "b", "quote">> \in Seq({"quote", "b"}) /\ <<"b">> \in Seq({"quote", "b"})
  BY <1>1, Short, Longer
<1> QED BY <1>2 DEF Value

\* The field that names the boundary, and what follows it.
LEMMA BoundaryShape ==
  ASSUME NEW S, MixedTokens \cup {"boundary=", "quote", "b"} \subseteq S, NEW m, NEW y \in Seq(S)
  PROVE  /\ BoundaryField(m) \in Seq(S)
         /\ Cat(BoundaryField(m), y)
              = Cat(Cat(Opening, Mixed), Cat(Naming, Cat(Value(m), Cat(Eol, y))))
         /\ Cat(Value(m), Cat(Eol, y)) \in Seq(S)
<1> DEFINE e == Eol
           c == <<"Content-Type:", " ">>
           d == Mixed
           b == <<"boundary=">>
           v == Value(m)
           db == Cat(d, b)
           dbv == Cat(db, v)
           f == Cat(c, dbv)
           ey == Cat(e, y)
           vey == Cat(v, ey)
           bvey == Cat(b, vey)
<1>1. c \in Seq(S) /\ d \in Seq(S) /\ v \in Seq(S)
  <2>1. MixedTokens \subseteq S /\ {"quote", "b"} \subseteq S
    OBVIOUS
  <2> QED BY <2>1, LeadIs, ValueIs, Within
<1>2. b \in Seq(S) /\ e \in Seq(S)
  <2>1. "boundary=" \in S /\ "CR" \in S /\ "LF" \in S
    BY DEF MixedTokens
  <2> QED BY <2>1, Short DEF Eol
<1>3. <<"multipart/mixed", ";", " ", "boundary=">> = db
  <2> DEFINE x == <<"multipart/mixed", ";", " ", "boundary=">>
  <2>1. "multipart/mixed" \in S /\ ";" \in S /\ " " \in S /\ "boundary=" \in S
    BY DEF MixedTokens
  <2>2. x \in Seq(S)
    BY <2>1, Four
  <2>3. Len(x) = 4 /\ Len(d) = 3 /\ Len(b) = 1
    BY DEF Mixed
  <2>4. /\ x[1] = "multipart/mixed" /\ x[2] = ";" /\ x[3] = " " /\ x[4] = "boundary="
        /\ d[1] = "multipart/mixed" /\ d[2] = ";" /\ d[3] = " " /\ b[1] = "boundary="
    BY DEF Mixed
  <2> HIDE DEF x, d, b
  <2>5. \A i \in 1 .. Len(d) : x[i] = d[i]
    <3>1. \A i \in 1 .. 3 : i = 1 \/ i = 2 \/ i = 3
      OBVIOUS
    <3>2. \A i \in 1 .. 3 : x[i] = d[i]
      BY <2>4, <3>1
    <3> QED BY <2>3, <3>2
  <2>6. \A j \in 1 .. Len(b) : x[Len(d) + j] = b[j]
    <3>1. \A j \in 1 .. 1 : j = 1
      OBVIOUS
    <3>2. \A j \in 1 .. 1 : 3 + j = 4
      OBVIOUS
    <3>3. \A j \in 1 .. 1 : x[3 + j] = b[j]
      BY <2>4, <3>1, <3>2
    <3> QED BY <2>3, <3>3
  <2>7. Len(x) = Len(d) + Len(b)
    BY <2>3
  <2>8. x = d \o b
    BY <1>1, <1>2, <2>2, <2>5, <2>6, <2>7, JoinedIs
  <2> QED BY <2>8 DEF x, Cat
<1>4. BoundaryField(m) = Cat(f, e)
  <2>1. BoundaryField(m) = (c \o (<<"multipart/mixed", ";", " ", "boundary=">> \o v)) \o e
    BY Zenon DEF BoundaryField, Field, Value
  <2>2. BoundaryField(m) = (c \o (db \o v)) \o e
    BY <1>3, <2>1
  <2> QED BY <2>2, Zenon DEF Cat
<1> HIDE DEF e, c, d, b, v
<1>5. db \in Seq(S)
  BY <1>1, <1>2, Moved
<1>6. dbv \in Seq(S)
  <2> HIDE DEF db
  <2> QED BY <1>1, <1>5, Moved
<1>7. f \in Seq(S)
  <2> HIDE DEF dbv
  <2> QED BY <1>1, <1>6, Moved
<1>8. Cat(f, e) \in Seq(S) /\ Cat(Cat(f, e), y) = Cat(f, ey) /\ ey \in Seq(S)
  <2> HIDE DEF f
  <2> QED BY <1>2, <1>7, Moved
<1>9. Cat(f, ey) = Cat(c, Cat(dbv, ey))
  <2> HIDE DEF ey, dbv
  <2> QED BY <1>1, <1>6, <1>8, Moved
<1>10. Cat(dbv, ey) = Cat(db, vey) /\ vey \in Seq(S)
  <2> HIDE DEF ey, db
  <2> QED BY <1>1, <1>5, <1>8, Moved
<1>11. Cat(db, vey) = Cat(d, bvey) /\ bvey \in Seq(S)
  <2> HIDE DEF vey
  <2> QED BY <1>1, <1>2, <1>10, Moved
<1>12. Cat(c, Cat(d, bvey)) = Cat(Cat(c, d), bvey)
  <2> HIDE DEF bvey
  <2> QED BY <1>1, <1>11, Moved
<1>13. Cat(BoundaryField(m), y) = Cat(Cat(c, d), bvey)
  BY <1>4, <1>8, <1>9, <1>10, <1>11, <1>12, Zenon
<1> QED BY <1>4, <1>8, <1>10, <1>13, Zenon DEF c, d, b, v, e, Opening, Naming

-----------------------------------------------------------------------------
(* The text of a multipart message.                                        *)

\* What follows the body of the first part and its line end, and the first part from its
\* fields on.
Later(m) == FlattenSeq(SubSeq(PartTexts(m), 2, Len(PartTexts(m)))) \o Ending

Rest(m) ==
  PartFields(m.parts[1]) \o (Eol \o (m.parts[1].body \o (Eol \o Later(m))))

\* The tokens of the frame of a message.
LEMMA FrameSayable ==
  /\ Framing \subseteq Sayable /\ Framing \cup {"--", "b"} \subseteq Sayable
  /\ MixedTokens \cup {"boundary=", "quote", "b"} \subseteq Spoken /\ LeadTokens \subseteq Sayable
  /\ {"quote", "b"} \subseteq Sayable
  /\ Eol \in Seq(Sayable) /\ <<"--", "b">> \in Seq(Sayable) /\ <<"boundary=">> \in Seq(Spoken)
  /\ Closing \in Seq(Sayable) /\ Ending \in Seq(Sayable)
<1>1. /\ Framing \subseteq Sayable
      /\ {"--", "b", "w", "quote", ";", " ", "MIME-Version: 1.0", "multipart/mixed",
          "Content-Type:", "content-type:", "Content-Transfer-Encoding:", "content-transfer-encoding:"} \subseteq Sayable
  BY SayableTokens
<1>2. LeadTokens \subseteq Sayable
  BY <1>1 DEF LeadTokens, Framing
<1>3. "--" \in Sayable /\ "b" \in Sayable /\ "boundary=" \in Spoken /\ "quote" \in Sayable
      /\ MixedTokens \subseteq Spoken /\ "b" \in Spoken /\ "quote" \in Spoken
  <2>1. "boundary=" \in Spoken /\ Sayable \subseteq Spoken
    BY SayableTokens
  <2> QED BY <1>1, <2>1 DEF MixedTokens, Framing
<1>4. <<"--", "b">> \in Seq(Sayable) /\ <<"boundary=">> \in Seq(Spoken) /\ <<"--", "b", "--">> \in Seq(Sayable)
  BY <1>3, Short, Longer
<1>5. <<>> \in Seq(Sayable)
  BY EmptySeq
<1>6. Closing \in Seq(Sayable) /\ Eol \in Seq(Sayable)
  BY <1>1, <1>5, ReplyShape
<1>7. Ending \in Seq(Sayable)
  <2> DEFINE x == Eol \o Closing
  <2>1. x \in Seq(Sayable)
    BY <1>6, Shifted
  <2>2. Ending = <<"--", "b", "--">> \o x
    BY DEF Ending
  <2> HIDE DEF x
  <2> QED BY <1>4, <2>1, <2>2, Shifted
<1> QED BY <1>1, <1>2, <1>3, <1>4, <1>6, <1>7

\* The parts of a message are its first delimiter line and the rest.
LEMMA PartsIs ==
  ASSUME NEW m \in Multiparts
  PROVE  /\ FlattenSeq(PartTexts(m)) \in Seq(Sayable) /\ Later(m) \in Seq(Sayable)
         /\ m.parts # <<>> =>
              /\ PartIs(m.parts[1])
              /\ FlattenSeq(PartTexts(m)) \o Ending
                   = <<"--", "b">> \o (Eol \o Rest(m))
              /\ Rest(m) \in Seq(Sayable)
<1> DEFINE s == PartTexts(m)
           n == Len(m.parts)
<1>1. n \in Nat /\ DOMAIN m.parts = 1 .. n /\ \A i \in 1 .. n : PartIs(m.parts[i])
  BY MultipartIs
<1>2. Ending \in Seq(Sayable) /\ Eol \in Seq(Sayable)
  BY FrameSayable
<1>3. \A i \in 1 .. n : PartText(m.parts[i]) \in Seq(Sayable)
  BY <1>1, <1>2, PartShape
<1>4. s \in Seq(Seq(Sayable)) /\ Len(s) = n /\ \A i \in 1 .. n : s[i] = PartText(m.parts[i])
  <2>1. s = [i \in 1 .. n |-> PartText(m.parts[i])]
    BY <1>1 DEF PartTexts
  <2> HIDE DEF s, n
  <2> QED BY <1>1, <1>3, <2>1
<1> DEFINE l == SubSeq(s, 2, Len(s))
<1>5. Len(s) \in Int /\ Len(s) <= Len(s)
  BY <1>1, <1>4
<1>6. l \in Seq(Seq(Sayable))
  <2> HIDE DEF s
  <2> QED BY <1>4, <1>5, Piece
<1> HIDE DEF s
<1>7. FlattenSeq(s) \in Seq(Sayable) /\ FlattenSeq(l) \in Seq(Sayable)
  <2> HIDE DEF l
  <2> QED BY <1>4, <1>6, FlattenTyped
<1>8. Later(m) = FlattenSeq(l) \o Ending /\ Later(m) \in Seq(Sayable)
  <2>1. Later(m) = FlattenSeq(l) \o Ending
    BY DEF Later, s
  <2> HIDE DEF l
  <2> QED BY <1>2, <1>7, <2>1, Shifted
<1>9. ASSUME m.parts # <<>>
      PROVE  /\ PartIs(m.parts[1])
             /\ FlattenSeq(s) \o Ending = <<"--", "b">> \o (Eol \o Rest(m))
             /\ Rest(m) \in Seq(Sayable)
  <2> DEFINE p == m.parts[1]
             f == FlattenSeq(l)
  <2>1. 1 <= n
    BY <1>1, <1>9, MultipartIs
  <2>2. PartIs(p) /\ s[1] = PartText(p) /\ PartText(p) \in Seq(Sayable)
    BY <1>1, <1>3, <1>4, <2>1
  <2>3. FlattenSeq(s) = PartText(p) \o f
    <3>1. 1 \in 0 .. Len(s) /\ 1 + 1 = 2 /\ 1 \in 1 .. Len(s)
      BY <1>1, <1>4, <2>1
    <3>2. FlattenSeq(s) = FlattenSeq(SubSeq(s, 1, 1)) \o FlattenSeq(SubSeq(s, 1 + 1, Len(s)))
      BY <1>4, <3>1, FlattenSplit
    <3>3. SubSeq(s, 1, 1) = <<s[1]>>
      <4> DEFINE u == SubSeq(s, 1, 1)
                 v == <<s[1]>>
      <4>1. 1 \in Nat /\ 1 <= 1 /\ 1 \in Int /\ 1 <= Len(s)
        BY <1>1, <1>4, <2>1
      <4>2. u \in Seq(Seq(Sayable)) /\ Len(u) = IF 1 <= 1 THEN 1 - 1 + 1 ELSE 0
        BY <1>4, <4>1, Piece
      <4>3. \A i \in 1 .. 1 - 1 + 1 : u[i] = s[1 + i - 1]
        BY <1>4, <4>1, PieceAt
      <4>4. Len(u) = 1
        BY <4>2
      <4>5. u[1] = s[1]
        BY <4>3
      <4>6. v \in Seq(Seq(Sayable)) /\ Len(v) = 1 /\ v[1] = s[1]
        BY <2>2, Short
      <4> HIDE DEF u, v
      <4>7. \A i \in 1 .. 1 : u[i] = v[i]
        BY <4>5, <4>6
      <4>8. u = v
        BY <4>2, <4>4, <4>6, <4>7, SeqEqual
      <4> QED BY <4>8 DEF u, v
    <3>4. FlattenSeq(<<s[1]>>) = s[1]
      BY <2>2, FlattenOne
    <3> QED BY <2>2, <3>1, <3>2, <3>3, <3>4
  <2> HIDE DEF f, l
  <2>4. f \in Seq(Sayable) /\ Later(m) = f \o Ending
    BY <1>7, <1>8 DEF f
  <2>5. (PartText(p) \o f) \o Ending = PartText(p) \o (f \o Ending)
    BY <1>2, <2>2, <2>4, Shifted
  <2>6. /\ PartText(p) \o Later(m)
             = <<"--", "b">> \o (Eol \o (PartFields(p) \o (Eol \o (p.body \o (Eol \o Later(m))))))
        /\ p.body \o (Eol \o Later(m)) \in Seq(Sayable)
    BY <1>8, <2>2, PartShape
  <2>7. Rest(m) = PartFields(p) \o (Eol \o (p.body \o (Eol \o Later(m))))
    BY DEF Rest
  <2>8. Rest(m) \in Seq(Sayable)
    <3> DEFINE x == p.body \o (Eol \o Later(m))
               y == Eol \o x
               g == PartFields(p)
    <3>1. x \in Seq(Sayable) /\ g \in Seq(Sayable) /\ Rest(m) = g \o y
      BY <2>2, <2>6, <2>7, PartFieldsTokens
    <3> HIDE DEF x, g
    <3>2. y \in Seq(Sayable)
      BY <1>2, <3>1, Shifted
    <3> HIDE DEF y
    <3> QED BY <3>1, <3>2, Shifted
  <2> QED BY <2>2, <2>3, <2>4, <2>5, <2>6, <2>7, <2>8
<1> QED BY <1>7, <1>8, <1>9 DEF s

\* The fields of a message name the boundary, and nothing else does.
LEMMA FieldsSayable ==
  ASSUME NEW m \in Multiparts
  PROVE  /\ TheFields(m) \in Seq(Spoken) /\ m.preamble \in Seq(Sayable)
         /\ BoundaryField(m) \in Seq(Spoken) /\ Version \in Seq(Sayable)
<1>1. Version \in Seq(Sayable) /\ Version \in Seq(Spoken)
  BY FrameSayable, LeadIs, Within, SayableTokens
<1>2. BoundaryField(m) \in Seq(Spoken)
  <2>1. <<>> \in Seq(Spoken)
    BY EmptySeq
  <2> QED BY <2>1, FrameSayable, BoundaryShape
<1>3. m.preamble \in Seq(Sayable)
  BY MultipartIs, SayableTokens
<1>4. Version \o BoundaryField(m) \in Seq(Spoken) /\ BoundaryField(m) \o Version \in Seq(Spoken)
  BY <1>1, <1>2, Shifted
<1> QED BY <1>1, <1>2, <1>3, <1>4, Zenon DEF TheFields

\* The text of any message, and of one without parts.
LEMMA MimeTextIs ==
  ASSUME NEW m \in Multiparts
  PROVE  /\ MimeText(m) \in Seq(Spoken)
         /\ m.parts # <<>> =>
              MimeText(m) = (<<"* FETCH">> \o Eol)
                              \o (TheFields(m) \o (Eol \o (m.preamble \o (<<"--", "b">> \o (Eol \o Rest(m))))))
         /\ m.parts = <<>> => MimeText(m) \in Seq(Framing \cup {"w"})
<1>1. CASE m.parts = <<>>
  <2> DEFINE S == Framing \cup {"w"}
             l == <<"w">> \o Eol
  <2>1. Framing \subseteq S /\ S \subseteq Spoken /\ "w" \in S /\ "CR" \in S /\ "LF" \in S
    BY SayableTokens DEF Framing
  <2> HIDE DEF S
  <2>2. l \in Seq(S)
    <3>1. <<"w">> \in Seq(S) /\ Eol \in Seq(S)
      BY <2>1, Short DEF Eol
    <3> QED BY <3>1, Shifted
  <2>3. MimeText(m) = FetchReply(l, "A03 OK")
    BY <1>1 DEF MimeText
  <2> HIDE DEF l
  <2> DEFINE f == <<"* FETCH">> \o Eol
  <2>4. /\ Closing \in Seq(S) /\ f \in Seq(S)
        /\ FetchReply(l, "A03 OK") = f \o (l \o Closing)
    BY <2>1, <2>2, ReplyShape
  <2> HIDE DEF f
  <2>5. l \o Closing \in Seq(S)
    BY <2>2, <2>4, Shifted
  <2> DEFINE x == l \o Closing
  <2> HIDE DEF x
  <2>6. f \o x \in Seq(S)
    BY <2>4, <2>5, Shifted DEF x
  <2>7. MimeText(m) \in Seq(S)
    BY <2>3, <2>4, <2>6 DEF x
  <2>8. MimeText(m) \in Seq(Spoken)
    BY <2>1, <2>7, Within
  <2> QED BY <1>1, <2>7, <2>8 DEF S
<1>2. CASE m.parts # <<>>
  <2> DEFINE S == Spoken
             l == MimeLiteral(m)
             f == <<"* FETCH">> \o Eol
             a == TheFields(m)
             q == FlattenSeq(PartTexts(m))
             y == <<"--", "b">> \o (Eol \o Rest(m))
             z == m.preamble \o y
             x == Eol \o z
  <2>1. MimeText(m) = FetchReply(l, "A03 OK")
    BY <1>2 DEF MimeText
  <2>2. q \in Seq(Sayable) /\ Ending \in Seq(Sayable) /\ q \o Ending = y
    BY <1>2, PartsIs, FrameSayable
  <2>3. a \in Seq(S) /\ m.preamble \in Seq(Sayable)
    BY FieldsSayable
  <2>4. /\ Framing \subseteq Sayable /\ Framing \cup {"--", "b"} \subseteq Sayable /\ Sayable \subseteq S
        /\ Eol \in Seq(Sayable)
    BY FrameSayable, SayableTokens
  <2>5. Framing \subseteq S /\ Framing \cup {"--", "b"} \subseteq S
    BY <2>4
  <2> HIDE DEF S
  <2>6. q \in Seq(S) /\ Ending \in Seq(S) /\ m.preamble \in Seq(S) /\ Eol \in Seq(S)
    BY <2>2, <2>3, <2>4, Within
  <2>7. l \in Seq(S) /\ l \o Closing = a \o (Eol \o (m.preamble \o (q \o Ending)))
    <3>1. a \in Seq(S) /\ m.preamble \in Seq(S) /\ q \in Seq(S)
      BY <2>3, <2>6
    <3> QED BY <2>5, <3>1, LiteralShape
  <2>8. l \o Closing = a \o x
    BY <2>2, <2>7
  <2>9. f \in Seq(S) /\ FetchReply(l, "A03 OK") = f \o (l \o Closing)
    <3>1. l \in Seq(S)
      BY <2>7
    <3> HIDE DEF l
    <3> QED BY <2>5, <3>1, ReplyShape
  <2> HIDE DEF q
  <2>10. y \in Seq(S)
    BY <2>2, <2>6, BothTyped
  <2> HIDE DEF l, f, a, y
  <2>11. z \in Seq(S)
    BY <2>6, <2>10, Shifted
  <2> HIDE DEF z
  <2>12. x \in Seq(S)
    BY <2>6, <2>11, Shifted
  <2> HIDE DEF x
  <2>13. a \o x \in Seq(S)
    BY <2>3, <2>12, Shifted
  <2> DEFINE ax == a \o x
  <2> HIDE DEF ax
  <2>14. f \o ax \in Seq(S)
    BY <2>9, <2>13, Shifted DEF ax
  <2>15. MimeText(m) = f \o (a \o x) /\ f \o (a \o x) \in Seq(S)
    BY <2>1, <2>8, <2>9, <2>14 DEF ax
  <2> QED BY <1>2, <2>15 DEF f, a, x, z, y, S
<1> QED BY <1>1, <1>2

\* What is between the delimiters and the parameters is neither.
Silent == Tokens \ {"--", "boundary=", "(null)"}

\* No delimiter is in what stands between the boundary's name and the first part.
LEMMA GapIs ==
  ASSUME NEW m \in Multiparts
  PROVE  /\ Gap(m) \in Seq(Silent) /\ Value(m) \in Seq(Silent) /\ Lead \in Seq(Silent)
         /\ Silent \subseteq Sayable /\ Eol \in Seq(Silent)
<1>1. {"CR", "LF", "quote", "b"} \cup LeadTokens \subseteq Silent
  <2>1. {"CR", "LF", "quote", "b"} \cup LeadTokens \subseteq Tokens
    BY SayableTokens, FrameSayable DEF Framing
  <2> QED BY <2>1 DEF Silent, LeadTokens
<1>2. Silent \subseteq Sayable
  BY DEF Silent, Sayable
<1>3. Eol \in Seq(Silent)
  BY <1>1, Short DEF Eol
<1>4. m.preamble \in Seq(Silent)
  BY MultipartIs DEF Unmarked, Silent
<1>5. Value(m) \in Seq(Silent) /\ Lead \in Seq(Silent)
  <2>1. {"quote", "b"} \subseteq Silent /\ LeadTokens \subseteq Silent
    BY <1>1
  <2> QED BY <2>1, ValueIs, LeadIs, Within
<1> DEFINE g == Eol \o m.preamble
<1>6. g \in Seq(Silent)
  BY <1>3, <1>4, Shifted
<1>7. Gap(m) = Eol \o g
  BY DEF Gap
<1> HIDE DEF g
<1>8. Gap(m) \in Seq(Silent)
  BY <1>3, <1>6, <1>7, Shifted
<1> QED BY <1>2, <1>3, <1>5, <1>8

\* A message from its first delimiter on.
First(m) == <<"--", "b">> \o (Eol \o Rest(m))

\* The first part and what follows name no boundary.
LEMMA FirstIs ==
  ASSUME NEW m \in Multiparts, m.parts # <<>>
  PROVE  First(m) \in Seq(Sayable) /\ Rest(m) \in Seq(Sayable) /\ Eol \o Rest(m) \in Seq(Sayable)
<1> DEFINE r == Eol \o Rest(m)
<1>1. Rest(m) \in Seq(Sayable)
  BY PartsIs
<1>2. r \in Seq(Sayable)
  BY <1>1, FrameSayable, Shifted
<1>3. First(m) = <<"--", "b">> \o r
  BY DEF First
<1> HIDE DEF r
<1>4. First(m) \in Seq(Sayable)
  BY <1>2, <1>3, FrameSayable, Shifted
<1> QED BY <1>1, <1>2, <1>4 DEF r

\* The message the code is written for.
LEMMA VersionFirst ==
  ASSUME NEW m \in Multiparts, m.parts # <<>>, m.versionFirst
  PROVE  /\ MimeText(m) = Lead \o (<<"boundary=">> \o (Value(m) \o (Gap(m) \o First(m))))
         /\ Gap(m) \o First(m) \in Seq(Sayable) /\ Value(m) \o (Gap(m) \o First(m)) \in Seq(Sayable)
<1> DEFINE S == Spoken
           e == Eol
           f == <<"* FETCH">> \o Eol
           w == Version
           c == <<"Content-Type:", " ">> \o Mixed
           b == <<"boundary=">>
           v == Value(m)
           p == m.preamble
           x == First(m)
           bf == BoundaryField(m)
           px == Cat(p, x)
           y == Cat(e, px)
           wb == Cat(w, bf)
           by == Cat(bf, y)
           ep == Cat(e, p)
           g == Cat(e, ep)
           gx == Cat(g, x)
           vgx == Cat(v, gx)
           z == Cat(b, vgx)
           wc == Cat(w, c)
           wcz == Cat(wc, z)
<1>1. /\ e \in Seq(Sayable) /\ p \in Seq(Sayable) /\ x \in Seq(Sayable) /\ v \in Seq(Sayable)
      /\ Sayable \subseteq S
  <2>1. Silent \subseteq Sayable /\ v \in Seq(Silent)
    BY GapIs
  <2>2. v \in Seq(Sayable)
    BY <2>1, Within
  <2> QED BY <2>2, FrameSayable, FieldsSayable, FirstIs, SayableTokens
<1>2. b \in Seq(S) /\ bf \in Seq(S)
  BY FrameSayable, FieldsSayable
<1>3. f \in Seq(S) /\ w \in Seq(S) /\ c \in Seq(S)
  <2>1. LeadTokens \subseteq S
    BY <1>1, FrameSayable
  <2> QED BY <2>1, LeadIs, Within
<1>4. e \in Seq(S) /\ p \in Seq(S) /\ x \in Seq(S) /\ v \in Seq(S)
  BY <1>1, Within
<1>5. ASSUME NEW u \in Seq(Spoken) PROVE Cat(bf, u) = Cat(c, Cat(b, Cat(v, Cat(e, u))))
  <2>1. MixedTokens \cup {"boundary=", "quote", "b"} \subseteq Spoken
    BY FrameSayable
  <2>2. Cat(BoundaryField(m), u) = Cat(Cat(Opening, Mixed), Cat(Naming, Cat(Value(m), Cat(Eol, u))))
    BY <2>1, BoundaryShape
  <2>3. Cat(Opening, Mixed) = c /\ Naming = b
    BY Zenon DEF Cat, Opening, Naming
  <2> QED BY <2>2, <2>3, Zenon
<1>6. MimeText(m) = Cat(f, Cat(wb, y))
  <2>1. MimeText(m) = f \o (TheFields(m) \o (e \o (p \o x)))
    BY MimeTextIs DEF First
  <2>2. TheFields(m) = w \o bf
    BY DEF TheFields
  <2> QED BY <2>1, <2>2, Zenon DEF Cat
<1>7. /\ Lead = Cat(f, wc) /\ Gap(m) = g
      /\ Cat(Lead, z) = Lead \o (<<"boundary=">> \o (Value(m) \o (gx)))
      /\ gx = g \o First(m) /\ vgx = Value(m) \o gx
  BY Zenon DEF Lead, Gap, Cat
<1>8. y \in Seq(S) => by = Cat(c, Cat(b, Cat(v, Cat(e, y))))
  BY <1>5
<1> HIDE DEF S, e, f, w, c, b, v, p, x, bf
<1>9. px \in Seq(S) /\ ep \in Seq(S) /\ px \in Seq(Sayable) /\ ep \in Seq(Sayable)
  <2>1. px \in Seq(S) /\ ep \in Seq(S)
    BY <1>4, Moved
  <2>2. px \in Seq(Sayable) /\ ep \in Seq(Sayable)
    BY <1>1, Moved
  <2> QED BY <2>1, <2>2
<1>10. y \in Seq(S) /\ g \in Seq(S) /\ g \in Seq(Sayable)
  <2> HIDE DEF px, ep
  <2>1. y \in Seq(S) /\ g \in Seq(S)
    BY <1>4, <1>9, Moved
  <2>2. g \in Seq(Sayable)
    BY <1>1, <1>9, Moved
  <2> QED BY <2>1, <2>2
<1>11. Cat(e, y) = gx
  <2>1. Cat(ep, x) = y
    BY <1>4, Moved
  <2>2. Cat(Cat(e, ep), x) = Cat(e, Cat(ep, x))
    <3> HIDE DEF ep
    <3> QED BY <1>4, <1>9, Moved
  <2> QED BY <2>1, <2>2
<1>12. gx \in Seq(Sayable) /\ gx \in Seq(S)
  <2> HIDE DEF g
  <2>1. gx \in Seq(Sayable)
    BY <1>1, <1>10, Moved
  <2>2. gx \in Seq(S)
    BY <1>4, <1>10, Moved
  <2> QED BY <2>1, <2>2
<1>13. vgx \in Seq(Sayable) /\ vgx \in Seq(S)
  <2> HIDE DEF gx
  <2>1. vgx \in Seq(Sayable)
    BY <1>1, <1>12, Moved
  <2>2. vgx \in Seq(S)
    BY <1>4, <1>12, Moved
  <2> QED BY <2>1, <2>2
<1>14. z \in Seq(S)
  <2> HIDE DEF vgx
  <2> QED BY <1>2, <1>13, Moved
<1>15. Cat(wb, y) = Cat(w, by)
  <2> HIDE DEF y
  <2> QED BY <1>2, <1>3, <1>10, Moved
<1>16. by = Cat(c, z)
  BY <1>8, <1>10, <1>11, Zenon
<1>17. Cat(w, Cat(c, z)) = wcz
  <2> HIDE DEF z
  <2> QED BY <1>3, <1>14, Moved
<1>18. Cat(f, wcz) = Cat(Cat(f, wc), z)
  <2>1. wc \in Seq(S)
    BY <1>3, Moved
  <2> HIDE DEF wc, z
  <2> QED BY <1>3, <1>14, <2>1, Moved
<1>19. MimeText(m) = Cat(Lead, z)
  BY <1>6, <1>7, <1>15, <1>16, <1>17, <1>18, Zenon
<1> QED BY <1>7, <1>12, <1>13, <1>19, Zenon

\* And one that names its version behind its boundary.
LEMMA VersionLate ==
  ASSUME NEW m \in Multiparts, m.parts # <<>>, ~m.versionFirst
  PROVE  \E x \in Seq(Spoken \ {"MIME-Version: 1.0"}), y \in Seq(Sayable) : MimeText(m) = x \o y
<1> DEFINE S == Spoken
           e == Eol
           f == <<"* FETCH">> \o Eol
           w == Version
           bf == BoundaryField(m)
           u == e \o (m.preamble \o First(m))
           R == Spoken \ {"MIME-Version: 1.0"}
<1>1. MimeText(m) = f \o ((bf \o w) \o u)
  <2>1. MimeText(m) = f \o (TheFields(m) \o u)
    BY MimeTextIs DEF First
  <2>2. TheFields(m) = bf \o w
    BY DEF TheFields
  <2> QED BY <2>1, <2>2
<1>2. u \in Seq(Sayable) /\ w \in Seq(Sayable) /\ Sayable \subseteq S
  <2> DEFINE z == m.preamble \o First(m)
  <2>1. z \in Seq(Sayable)
    BY FieldsSayable, FirstIs, Shifted
  <2> HIDE DEF z
  <2>2. e \o z \in Seq(Sayable)
    BY <2>1, FrameSayable, Shifted
  <2> QED BY <2>2, FieldsSayable, SayableTokens DEF z
<1>3. w \o u \in Seq(Sayable)
  <2> HIDE DEF u
  <2> QED BY <1>2, Shifted
<1>4. bf \in Seq(R)
  <2>1. MixedTokens \cup {"boundary=", "quote", "b"} \subseteq R
    BY FrameSayable DEF MixedTokens
  <2>2. <<>> \in Seq(R)
    BY EmptySeq
  <2> HIDE DEF R
  <2> QED BY <2>1, <2>2, BoundaryShape
<1>5. f \in Seq(R)
  <2>1. "* FETCH" \in R /\ "CR" \in R /\ "LF" \in R
    BY <1>2, FrameSayable DEF Framing
  <2> HIDE DEF R
  <2>2. <<"* FETCH">> \in Seq(R) /\ e \in Seq(R)
    BY <2>1, Short DEF Eol
  <2> QED BY <2>2, Shifted
<1>6. R \subseteq S
  OBVIOUS
<1> HIDE DEF R, S, f, w, bf, u
<1>7. f \o bf \in Seq(R)
  BY <1>4, <1>5, Shifted
<1>8. f \in Seq(S) /\ bf \in Seq(S) /\ w \in Seq(S) /\ u \in Seq(S)
  BY <1>2, <1>4, <1>5, <1>6, Within
<1> DEFINE wu == w \o u
<1>9. (bf \o w) \o u = bf \o wu /\ wu \in Seq(S)
  BY <1>8, Shifted
<1> HIDE DEF wu
<1>10. f \o (bf \o wu) = (f \o bf) \o wu
  BY <1>8, <1>9, Shifted, SMTT(20)
<1>11. MimeText(m) = (f \o bf) \o wu
  BY <1>1, <1>9, <1>10
<1> QED BY <1>3, <1>7, <1>11 DEF R, wu

-----------------------------------------------------------------------------
(* Finding the boundary and the first delimiter.                           *)

\* The code has come to place p of text t, from where r is left.
Left(t, p, r) ==
  /\ t \in Seq(Tokens) /\ r \in Seq(Tokens) /\ p \in Nat /\ 1 <= p /\ Len(t) = p - 1 + Len(r)
  /\ \A i \in 1 .. Len(r) : t[p + i - 1] = r[i]

\* What is cut off at a place is left there,
LEMMA LeftFrom ==
  ASSUME NEW t \in Seq(Tokens), NEW p \in 1 .. Len(t) + 1, NEW r, r = From(t, p)
  PROVE  Left(t, p, r)
BY DEF Left, From

\* and what is left is what is cut off.
LEMMA FromLeft ==
  ASSUME NEW t, NEW p, NEW r, Left(t, p, r)
  PROVE  From(t, p) = r
BY DEF Left, From

\* Behind the first part of what is left.
Beyond(t, p, a, b) ==
  /\ Left(t, p + Len(a), b)
  /\ Len(a) \in Nat /\ \A i \in 1 .. Len(a) : t[p + i - 1] = a[i]

\* Behind the first of two texts that are left, the second is left.
LEMMA Passed ==
  ASSUME NEW t, NEW p, NEW a \in Seq(Tokens), NEW b \in Seq(Tokens), Left(t, p, Cat(a, b))
  PROVE  Beyond(t, p, a, b)
<1> DEFINE n == Len(a)
           k == Len(b)
           r == Cat(a, b)
<1>1. /\ r \in Seq(Tokens) /\ n \in Nat /\ k \in Nat /\ Len(r) = n + k
      /\ \A i \in 1 .. n : r[i] = a[i]
      /\ \A i \in 1 .. k : r[n + i] = b[i]
  BY DEF Cat
<1> HIDE DEF r
<1>2. /\ t \in Seq(Tokens) /\ p \in Nat /\ 1 <= p /\ Len(t) = p - 1 + Len(r)
      /\ \A i \in 1 .. Len(r) : t[p + i - 1] = r[i]
  BY DEF Left, r
<1> HIDE DEF n
<1>3. p + n \in Nat /\ 1 <= p + n
  BY <1>1, <1>2
<1>4. Len(t) = p + n - 1 + k
  BY <1>1, <1>2
<1>5. ASSUME NEW i \in 1 .. k PROVE t[p + n + i - 1] = b[i]
  <2>1. n + i \in 1 .. Len(r) /\ p + (n + i) - 1 = p + n + i - 1
    BY <1>1, <1>2
  <2> QED BY <1>1, <1>2, <2>1
<1>6. ASSUME NEW i \in 1 .. n PROVE t[p + i - 1] = a[i]
  <2>1. i \in 1 .. Len(r)
    BY <1>1, <1>2
  <2> QED BY <1>1, <1>2, <2>1
<1> DEFINE q == p + n
<1>7. q \in Nat /\ 1 <= q /\ q = p + n
  BY <1>3
<1> HIDE DEF q
<1>9. ASSUME NEW i \in 1 .. Len(b) PROVE t[q + i - 1] = b[i]
  BY <1>5, <1>7
<1>10. Len(t) = q - 1 + Len(b)
  BY <1>1, <1>2, <1>4, <1>7
<1>8. Left(t, q, b)
  BY <1>2, <1>7, <1>9, <1>10 DEF Left
<1> QED BY <1>1, <1>6, <1>7, <1>8 DEF n, Beyond
VersionName == "MIME-Version: 1.0"
Versioning  == <<"MIME-Version: 1.0">>

\* The first place of a token, if it is anywhere.
LEMMA FoundIs ==
  ASSUME NEW S, NEW t \in Seq(S), NEW x, NEW d, d = <<x>>, NEW k \in Nat, 1 <= k, NEW f, f = Find(d, t, k)
  PROVE  \/ f = 0 /\ \A i \in k .. Len(t) : t[i] # x
         \/ f \in k .. Len(t) /\ t[f] = x /\ \A i \in k .. f - 1 : t[i] # x
  BY FindToken

\* A token is found no later than at a place where it is.
LEMMA NotBehind ==
  ASSUME NEW S, NEW t \in Seq(S), NEW x, NEW d, d = <<x>>, NEW k \in Nat, 1 <= k,
         NEW n \in k .. Len(t), t[n] = x, NEW f, f = Find(d, t, k)
  PROVE  f \in k .. n
  BY FindBefore

\* The names that find_mime_boundary() looks for, as texts of one token.
LEMMA NamesOne ==
  /\ Versioning = <<VersionName>> /\ Naming = <<"boundary=">>
  /\ Naming \in Seq(Spoken) /\ Naming # <<>> /\ Len(Naming) = 1 /\ Naming[1] = "boundary="
  BY FrameSayable DEF Versioning, Naming, VersionName

\* What is left behind a text that is found.
LEMMA FindLeft ==
  ASSUME NEW S, S \subseteq Tokens, NEW a \in Seq(S), NEW b \in Seq(S), NEW d \in Seq(S), d # <<>>,
         NEW k \in Nat, 1 <= k, k <= Len(a) + 1, \A i \in k .. Len(a) : a[i] # d[1],
         NEW t, t = Cat(a, Cat(d, b)), NEW f, f = Find(d, t, k)
  PROVE  f # 0 /\ Left(t, f + Len(d), b)
<1> DEFINE n == Len(a)
           c == d \o b
<1>1. t = a \o c /\ c \in Seq(S) /\ Len(d) \in Nat /\ Len(b) \in Nat /\ Len(c) = Len(d) + Len(b)
      /\ SubSeq(c, 1, Len(d)) = d
  <2>1. t = a \o c
    BY Zenon DEF Cat
  <2> QED BY <2>1, JoinedPieces
<1>2. n \in Nat /\ Len(a) = n
  OBVIOUS
<1>3. Find(d, c, 1) = 1
  <2>1. BeginsAt(d, c, 1)
    <3>1. 1 + Len(d) - 1 = Len(d) /\ Len(d) <= Len(c)
      BY <1>1
    <3> HIDE DEF c
    <3> QED BY <1>1, <3>1 DEF BeginsAt
  <2>2. 1 <= Len(d)
    BY NotEmpty
  <2>3. 1 \in 1 .. Len(c) /\ \A i \in 1 .. 1 - 1 : ~BeginsAt(d, c, i)
    BY <1>1, <2>2
  <2> HIDE DEF c
  <2> QED BY <1>1, <2>1, <2>3, FindFirst
<1> DEFINE g == Find(d, c, 1)
<1>4. g = 1
  BY <1>3
<1> HIDE DEF c, g
<1>5. f = n + 1
  <2>1. c \in Seq(S) /\ g = Find(d, c, 1)
    BY <1>1 DEF g
  <2> HIDE DEF n
  <2>2. k <= n + 1 /\ (\A i \in k .. n : a[i] # d[1]) /\ n = Len(a)
    BY <1>2
  <2>4. f = Find(d, a \o c, k)
    BY <1>1
  <2>3. Find(d, a \o c, k) = IF g = 0 THEN 0 ELSE n + g
    BY <2>1, <2>2, FindNext
  <2> QED BY <1>4, <2>3, <2>4
<1> DEFINE e == a \o d
           u == e \o b
<1>6. t = u
  <2>1. t = a \o (d \o b)
    BY Zenon DEF Cat
  <2> QED BY <2>1, Shifted
<1>7. e \in Seq(S) /\ Len(e) = n + Len(d)
  BY Joined
<1> HIDE DEF e
<1>8. u \in Seq(S) /\ Len(u) = Len(e) + Len(b)
  BY <1>7, Joined
<1>9. From(u, Len(e) + 1) = b
  BY <1>7, FromJoined DEF From
<1> HIDE DEF n, u
<1>10. f + Len(d) = Len(e) + 1 /\ f # 0
  BY <1>1, <1>2, <1>5, <1>7
<1>11. From(t, f + Len(d)) = b
  BY <1>6, <1>9, <1>10
<1>12. t \in Seq(Tokens)
  BY <1>6, <1>8, Within
<1>13. f + Len(d) \in 1 .. Len(t) + 1
  BY <1>1, <1>2, <1>6, <1>7, <1>8, <1>10
<1>14. Left(t, f + Len(d), b)
  BY <1>11, <1>12, <1>13, LeftFrom
<1> QED BY <1>10, <1>14

\* "boundary=" is found behind the version, whichever the version is.
LEMMA ParameterFound ==
  ASSUME NEW m \in Multiparts, m.parts # <<>>, m.versionFirst, NEW t, t = MimeText(m),
         NEW v, v = Find(Versioning, t, 1)
  PROVE  /\ v # 0 /\ Find(Naming, t, v) # 0
         /\ Left(t, Find(Naming, t, v) + 1, Value(m) \o (Gap(m) \o First(m)))
<1> DEFINE S == Spoken
           d == Naming
           b == Value(m) \o (Gap(m) \o First(m))
           a == Lead
           n == Len(Lead)
<1>1. t = a \o (d \o b) /\ b \in Seq(Sayable)
  BY VersionFirst, Zenon DEF Naming
<1>2. Sayable \subseteq S /\ S \subseteq Tokens /\ LeadTokens \subseteq Sayable /\ d \in Seq(S)
  BY SayableTokens, FrameSayable, NamesOne
<1>3. a \in Seq(Sayable) /\ a \in Seq(S)
  BY <1>2, LeadIs, Within
<1>18. n \in Nat /\ 4 <= n
  BY LeadIs
<1>19. a[4] = VersionName
  BY LeadIs, Zenon DEF VersionName
<1>4. \A i \in 1 .. n : a[i] # "boundary="
  <2>1. \A i \in 1 .. Len(a) : a[i] \in Sayable
    BY <1>3, ElementOfSeq
  <2> QED BY <2>1 DEF Sayable
<1> HIDE DEF S, a, b
<1>5. b \in Seq(S)
  BY <1>1, <1>2, Within
<1> DEFINE c == d \o b
<1>6. c \in Seq(S)
  BY <1>2, <1>5, Joined
<1>7. t = a \o c
  BY <1>1
<1> HIDE DEF c
<1>20. n = Len(a)
  BY DEF a
<1>8. t \in Seq(S) /\ \A i \in 1 .. Len(a) : t[i] = a[i]
  BY <1>3, <1>6, <1>7, Joined
<1>9. n = Len(a) /\ Len(c) \in Nat /\ Len(t) = Len(a) + Len(c)
  BY <1>3, <1>6, <1>7, <1>20, Joined
<1>10. v \in 1 .. 4
  <2> HIDE DEF n
  <2>2. 4 \in 1 .. Len(t) /\ 4 \in 1 .. Len(a)
    BY <1>18, <1>9
  <2>1. 4 \in 1 .. Len(t) /\ t[4] = VersionName
    BY <1>8, <1>19, <2>2
  <2>3. Versioning = <<VersionName>> /\ 1 \in Nat /\ 1 <= 1
    BY NamesOne
  <2> DEFINE w == Versioning
             x == VersionName
  <2> HIDE DEF w, x
  <2>4. t \in Seq(S) /\ 4 \in 1 .. Len(t) /\ t[4] = x /\ w = <<x>> /\ v = Find(w, t, 1)
    BY <1>8, <2>1, <2>3 DEF w, x
  <2> QED BY <2>3, <2>4, NotBehind
<1> HIDE DEF n
<1>11. v \in Nat /\ 1 <= v /\ v <= n + 1
  BY <1>18, <1>10
<1>21. d # <<>> /\ Len(d) = 1
  BY NamesOne
<1>12. d[1] = "boundary="
  BY NamesOne
<1>13. \A i \in v .. n : a[i] # d[1]
  <2>1. \A i \in v .. n : i \in 1 .. n
    BY <1>18, <1>11
  <2> QED BY <1>4, <1>12, <2>1
<1> HIDE DEF d
<1>15. t = Cat(a, Cat(d, b)) /\ d # <<>> /\ v \in Nat /\ 1 <= v /\ v <= Len(a) + 1
       /\ \A i \in v .. Len(a) : a[i] # d[1]
  <2>1. t = Cat(a, Cat(d, b))
    BY <1>1, Zenon DEF Cat
  <2> QED BY <1>9, <1>11, <1>13, <1>21, <2>1
<1> DEFINE f == Find(d, t, v)
<1>16. f # 0 /\ Left(t, f + Len(d), b)
  <2>1. f = Find(d, t, v)
    OBVIOUS
  <2> HIDE DEF f
  <2> QED BY <1>2, <1>3, <1>5, <1>15, <2>1, FindLeft
<1>17. v # 0
  BY <1>10
<1>22. f # 0 /\ Left(t, f + 1, b)
  <2> HIDE DEF f
  <2> QED BY <1>16, <1>21
<1> QED BY <1>17, <1>22 DEF d, b

\* Elsewhere there is none, nor the delimiter that the code then looks for.
LEMMA ParameterMissed ==
  ASSUME NEW m \in Multiparts, m.parts = <<>> \/ ~m.versionFirst, NEW t, t = MimeText(m),
         NEW v, v = Find(Versioning, t, 1)
  PROVE  /\ t \in Seq(Spoken)
         /\ v = 0 \/ Find(Naming, t, v) = 0
<1>1. t \in Seq(Spoken)
  BY MimeTextIs
<1>2. CASE m.parts = <<>>
  <2> DEFINE F == Framing \cup {"w"}
  <2>1. t \in Seq(F)
    BY <1>2, MimeTextIs
  <2>4. VersionName \notin F
    BY Zenon DEF VersionName, Framing
  <2> HIDE DEF F
  <2>2. \A i \in 1 .. Len(t) : t[i] # VersionName
    <3>1. \A i \in 1 .. Len(t) : t[i] \in F
      BY <2>1, ElementOfSeq
    <3> QED BY <2>4, <3>1
  <2>3. v = 0
    <3>2. Versioning = <<VersionName>> /\ 1 \in Nat /\ 1 <= 1
      BY NamesOne
    <3>1. v = 0 \/ (v \in 1 .. Len(t) /\ t[v] = VersionName)
      BY <1>1, <3>2, FoundIs
    <3> QED BY <2>2, <3>1
  <2> QED BY <1>1, <2>3
<1>3. CASE m.parts # <<>>
  <2>1. PICK x \in Seq(Spoken \ {VersionName}), y \in Seq(Sayable) : t = x \o y
    BY <1>3, VersionLate, Zenon DEF VersionName
  <2> DEFINE R == Spoken \ {VersionName}
  <2>2. R \subseteq Spoken /\ Sayable \subseteq Spoken
    BY SayableTokens
  <2>3. x \in Seq(Spoken) /\ y \in Seq(Spoken) /\ x \in Seq(R)
    BY <2>2, Within
  <2>4. /\ Len(x) \in Nat /\ Len(y) \in Nat /\ Len(t) = Len(x) + Len(y)
        /\ \A i \in 1 .. Len(x) : t[i] = x[i]
        /\ \A i \in 1 .. Len(y) : t[Len(x) + i] = y[i]
    <3> DEFINE u == x \o y
    <3>1. /\ Len(x) \in Nat /\ Len(y) \in Nat /\ Len(u) = Len(x) + Len(y)
          /\ \A i \in 1 .. Len(x) : u[i] = x[i]
          /\ \A i \in 1 .. Len(y) : u[Len(x) + i] = y[i]
      BY <2>3, Joined
    <3>2. t = u
      BY <2>1
    <3> HIDE DEF u
    <3> QED BY <3>1, <3>2
  <2>5. \A i \in 1 .. Len(x) : x[i] # VersionName
    <3>1. \A i \in 1 .. Len(x) : x[i] \in R
      BY <2>3, ElementOfSeq
    <3> QED BY <3>1
  <2>6. \A i \in 1 .. Len(y) : y[i] # "boundary="
    <3>1. \A i \in 1 .. Len(y) : y[i] \in Sayable
      BY <2>1, ElementOfSeq
    <3> QED BY <3>1 DEF Sayable
  <2>7. v = 0 \/ (v \in 1 .. Len(t) /\ t[v] = VersionName)
    BY <1>1, FoundIs, NamesOne
  <2>8. ASSUME v # 0 PROVE Find(Naming, t, v) = 0
    <3>1. v \in Nat /\ Len(x) < v /\ 1 <= v
      BY <2>4, <2>5, <2>7, <2>8
    <3> DEFINE f == Find(Naming, t, v)
    <3>2. f = 0 \/ (f \in v .. Len(t) /\ t[f] = "boundary=")
      BY <1>1, <3>1, FoundIs, NamesOne
    <3> HIDE DEF f
    <3>3. ASSUME f \in v .. Len(t), t[f] = "boundary=" PROVE FALSE
      <4>1. f - Len(x) \in 1 .. Len(y) /\ Len(x) + (f - Len(x)) = f
        BY <2>4, <3>1, <3>3
      <4> QED BY <2>4, <2>6, <3>3, <4>1
    <3> QED BY <3>2, <3>3 DEF f
  <2> QED BY <1>1, <2>8
<1> QED BY <1>2, <1>3

\* strchr() and strpbrk() find the first place.
LEMMA OneOfIs ==
  ASSUME NEW S, NEW t \in Seq(S), NEW P, NEW k \in Nat, 1 <= k, NEW n \in k .. Len(t), t[n] \in P,
         \A i \in k .. n - 1 : t[i] \notin P, NEW f, f = FindOneOf(P, t, k)
  PROVE  f = n
<1> DEFINE T == {i \in k .. Len(t) : t[i] \in P}
<1>1. Len(t) \in Nat /\ T \subseteq Nat \ {0} /\ n \in T
  OBVIOUS
<1>2. f = FirstOf[T]
  BY DEF FindOneOf
<1>3. \A j \in T : j \in k .. Len(t) /\ t[j] \in P
  OBVIOUS
<1> HIDE DEF T
<1>4. f \in T /\ \A j \in T : f <= j
  BY <1>1, <1>2, FirstOfIs
<1>5. f <= n /\ f \in k .. Len(t)
  BY <1>1, <1>3, <1>4
<1>6. ~(f < n)
  <2>1. ASSUME f < n PROVE FALSE
    <3>1. f \in k .. n - 1
      BY <1>1, <1>5, <2>1
    <3> QED BY <1>3, <1>4, <3>1
  <2> QED BY <2>1
<1> QED BY <1>1, <1>5, <1>6

\* The boundary that the code finds, and what is then left of the line it is on.
Mark(m)  == IF m.quoted THEN <<"b">> ELSE <<"b", "CR">>
LineRest(m) == IF m.quoted THEN Eol ELSE <<"LF">>

\* A text is made of two.
Made(r, a, b) ==
  /\ r \in Seq(Tokens) /\ a \in Seq(Tokens) /\ b \in Seq(Tokens)
  /\ Len(a) \in Nat /\ Len(b) \in Nat /\ Len(r) = Len(a) + Len(b)
  /\ \A i \in 1 .. Len(a) : r[i] = a[i]
  /\ \A i \in 1 .. Len(b) : r[Len(a) + i] = b[i]

\* A joined text is made of its two parts,
LEMMA MadeOf ==
  ASSUME NEW a \in Seq(Tokens), NEW b \in Seq(Tokens), NEW r, r = a \o b
  PROVE  Made(r, a, b)
BY Joined DEF Made

\* and begins with the first.
LEMMA MadeBegins ==
  ASSUME NEW r, NEW a, NEW b, Made(r, a, b)
  PROVE  /\ r \in Seq(Tokens) /\ Len(a) <= Len(r) /\ \A n \in 1 .. Len(a) : r[n] = a[n]
BY DEF Made

\* A piece of one token,
LEMMA OneOf ==
  ASSUME NEW r \in Seq(Tokens), NEW i \in 1 .. Len(r)
  PROVE  SubSeq(r, i, i) = <<r[i]>>
<1> DEFINE q == SubSeq(r, i, i)
<1>1. q \in Seq(Tokens) /\ Len(q) = 1 /\ q[1] = r[i]
  OBVIOUS
<1> HIDE DEF q
<1>2. q = <<r[i]>>
  BY <1>1
<1> QED BY <1>2 DEF q

\* and one of two.
LEMMA TwoOf ==
  ASSUME NEW r \in Seq(Tokens), 2 <= Len(r)
  PROVE  SubSeq(r, 1, 2) = <<r[1], r[2]>>
<1> DEFINE q == SubSeq(r, 1, 2)
<1>1. q \in Seq(Tokens) /\ Len(q) = 2 /\ q[1] = r[1] /\ q[2] = r[2]
  OBVIOUS
<1> HIDE DEF q
<1>2. q = <<r[1], r[2]>>
  BY <1>1
<1> QED BY <1>2 DEF q

\* The value and what is behind it begin with the value and a line end.
ValueHead(m, r) ==
  /\ r \in Seq(Tokens) /\ 3 <= Len(r)
  /\ \/ m.quoted /\ r[1] = "quote" /\ r[2] = "b" /\ r[3] = "quote"
     \/ ~m.quoted /\ r[1] = "b" /\ r[2] = "CR" /\ r[3] = "LF"

\* How a text made of a boundary, a line end and more begins.
LEMMA ValueMade ==
  ASSUME NEW m, NEW r, NEW v, NEW x, NEW g, NEW y, NEW l, NEW h, Made(g, l, h), Made(x, g, y), Made(r, v, x),
         v = Value(m), Len(l) = 2 /\ l[1] = "CR" /\ l[2] = "LF"
  PROVE  ValueHead(m, r)
<1>1. g[1] = l[1] /\ g[2] = l[2]
  BY DEF Made
<1>2. 2 <= Len(g)
  BY DEF Made
<1>3. x[1] = g[1] /\ x[2] = g[2]
  BY <1>2 DEF Made
<1>4. 2 <= Len(x)
  BY <1>2 DEF Made
<1>5. CASE m.quoted
  <2>1. Len(v) = 3 /\ v[1] = "quote" /\ v[2] = "b" /\ v[3] = "quote"
    BY <1>5 DEF Value
  <2>2. r \in Seq(Tokens) /\ r[1] = v[1] /\ r[2] = v[2] /\ r[3] = v[3]
    BY <2>1 DEF Made
  <2>3. 3 <= Len(r)
    BY <2>1 DEF Made
  <2> QED BY <1>5, <2>1, <2>2, <2>3 DEF ValueHead
<1>6. CASE ~m.quoted
  <2>1. Len(v) = 1 /\ v[1] = "b"
    BY <1>6 DEF Value
  <2>2. r \in Seq(Tokens) /\ r[1] = v[1] /\ r[1 + 1] = x[1] /\ r[1 + 2] = x[2]
    BY <1>4, <2>1 DEF Made
  <2>3. 3 <= Len(r)
    BY <1>4, <2>1 DEF Made
  <2> QED BY <1>1, <1>3, <1>6, <2>1, <2>2, <2>3 DEF ValueHead
<1> QED BY <1>5, <1>6

\* What is left at the boundary begins with it, and its line ends behind it.
LEMMA ValueStarts ==
  ASSUME NEW m \in Multiparts, m.parts # <<>>, NEW r, r = Value(m) \o (Gap(m) \o First(m))
  PROVE  ValueHead(m, r)
<1> DEFINE v == Value(m)
           g == Gap(m)
           h == Eol \o m.preamble
           y == First(m)
           x == g \o y
<1>1. v \in Seq(Tokens) /\ Eol \in Seq(Tokens) /\ m.preamble \in Seq(Tokens) /\ y \in Seq(Tokens)
  <2>1. Sayable \subseteq Tokens /\ Silent \subseteq Tokens
    BY DEF Sayable, Silent
  <2>2. v \in Seq(Silent) /\ Eol \in Seq(Sayable) /\ m.preamble \in Seq(Sayable) /\ y \in Seq(Sayable)
    BY GapIs, FieldsSayable, FrameSayable, FirstIs
  <2> HIDE DEF v, y
  <2> QED BY <2>1, <2>2, Within
<1>2. Len(Eol) = 2 /\ Eol[1] = "CR" /\ Eol[2] = "LF"
  BY EolIs
<1>3. r = v \o x /\ x = g \o y /\ g = Eol \o h
  BY DEF Gap
<1>4. h \in Seq(Tokens)
  BY <1>1
<1> HIDE DEF h, g, y, x, v
<1>5. Made(g, Eol, h)
  BY <1>1, <1>3, <1>4, MadeOf
<1>6. Made(x, g, y)
  BY <1>1, <1>3, <1>5, MadeOf DEF Made
<1>7. Made(r, v, x)
  BY <1>1, <1>3, <1>6, MadeOf DEF Made
<1>8. v = Value(m)
  BY DEF v
<1> QED BY <1>2, <1>5, <1>6, <1>7, <1>8, ValueMade

\* find_mime_boundary() takes the boundary, and the CR after one without quotes.
LEMMA BoundaryTaken ==
  ASSUME NEW m, NEW t, NEW p, NEW r, Left(t, p, r), ValueHead(m, r)
  PROVE  (IF BeginsAt(<<"quote">>, t, p) THEN Quoted(From(t, p)) ELSE Unquoted(From(t, p))) = Mark(m)
<1>1. ValueHead(m, r)
  OBVIOUS
<1>2. From(t, p) = r
  BY FromLeft
<1>3. BeginsAt(<<"quote">>, t, p) <=> r[1] = "quote"
  <2>1. t \in Seq(Tokens) /\ p \in 1 .. Len(t) /\ t[p] = r[1]
    <3>1. t \in Seq(Tokens) /\ p \in Nat /\ 1 <= p /\ Len(t) = p - 1 + Len(r) /\ t[p + 1 - 1] = r[1]
          /\ Len(r) \in Nat /\ 1 <= Len(r)
      <4>1. 1 <= Len(r) /\ Len(r) \in Nat
        BY <1>1 DEF ValueHead
      <4> QED BY <4>1 DEF Left
    <3> QED BY <3>1
  <2>2. BeginsAt(<<"quote">>, t, p) <=> t[p] = "quote"
    BY <2>1, OneToken
  <2> QED BY <2>1, <2>2
<1>4. CASE m.quoted
  <2>0. r \in Seq(Tokens) /\ 3 <= Len(r) /\ r[1] = "quote" /\ r[2] = "b" /\ r[3] = "quote"
    BY <1>1, <1>4 DEF ValueHead
  <2> DEFINE f == FindOneOf({"quote"}, r, 2)
  <2>1. f = 3
    <3>1. 3 \in 2 .. Len(r) /\ r[3] \in {"quote"} /\ \A i \in 2 .. 3 - 1 : r[i] \notin {"quote"}
      BY <2>0
    <3>2. f = FindOneOf({"quote"}, r, 2)
      OBVIOUS
    <3> HIDE DEF f
    <3>3. 3 \in 2 .. Len(r) /\ 2 \in Nat /\ 1 <= 2
      BY <3>1
    <3> QED BY <2>0, <3>1, <3>2, <3>3, OneOfIs
  <2>2. Quoted(r) = IF f = 0 THEN Null ELSE SubSeq(r, 2, f - 1)
    BY DEF Quoted
  <2> HIDE DEF f
  <2>3. SubSeq(r, 2, 2) = <<"b">>
    BY <2>0, OneOf
  <2>4. Quoted(r) = <<"b">>
    BY <2>1, <2>2, <2>3
  <2> QED BY <1>2, <1>3, <1>4, <2>0, <2>4 DEF Mark
<1>5. CASE ~m.quoted
  <2>0. r \in Seq(Tokens) /\ 3 <= Len(r) /\ r[1] = "b" /\ r[2] = "CR" /\ r[3] = "LF"
    BY <1>1, <1>5 DEF ValueHead
  <2> DEFINE E == {";", "LF"}
             f == FindOneOf(E, r, 1)
  <2>1. "b" \notin E /\ "CR" \notin E /\ "LF" \in E
    BY Zenon
  <2>2. Unquoted(r) = IF f = 0 THEN r ELSE SubSeq(r, 1, f - 1)
    BY Zenon DEF Unquoted
  <2> HIDE DEF E
  <2>3. f = 3
    <3>1. 3 \in 1 .. Len(r) /\ r[3] \in E /\ \A i \in 1 .. 3 - 1 : r[i] \notin E
      BY <2>0, <2>1
    <3>2. f = FindOneOf(E, r, 1)
      OBVIOUS
    <3> HIDE DEF f
    <3>3. 3 \in 1 .. Len(r) /\ 1 \in Nat /\ 1 <= 1
      BY <3>1
    <3> QED BY <2>0, <3>1, <3>2, <3>3, OneOfIs
  <2> HIDE DEF f
  <2>4. SubSeq(r, 1, 2) = <<"b", "CR">>
    BY <2>0, TwoOf
  <2>5. Unquoted(r) = <<"b", "CR">>
    BY <2>2, <2>3, <2>4
  <2> QED BY <1>2, <1>3, <1>5, <2>0, <2>5 DEF Mark
<1> QED BY <1>4, <1>5

\* Two or three tokens as a text.
LEMMA PairOf ==
  ASSUME NEW x \in Tokens, NEW y \in Tokens
  PROVE  <<x>> \o <<y>> = <<x, y>>
<1> DEFINE p == <<x>>
           q == <<y>>
           r == p \o q
<1>1. p \in Seq(Tokens) /\ q \in Seq(Tokens) /\ Len(p) = 1 /\ Len(q) = 1 /\ p[1] = x /\ q[1] = y
  OBVIOUS
<1> HIDE DEF p, q
<1>2. Made(r, p, q)
  BY <1>1, MadeOf
<1> HIDE DEF r
<1>3. r \in Seq(Tokens) /\ r[1] = x /\ r[1 + 1] = y
  BY <1>1, <1>2 DEF Made
<1>4. Len(r) = 2
  BY <1>1, <1>2 DEF Made
<1>5. r = <<x, y>>
  BY <1>3, <1>4
<1> QED BY <1>5 DEF r, p, q

\* One token and two are three.
LEMMA TripleOf ==
  ASSUME NEW x \in Tokens, NEW y \in Tokens, NEW z \in Tokens
  PROVE  <<x>> \o <<y, z>> = <<x, y, z>>
<1> DEFINE p == <<x>>
           q == <<y, z>>
           r == p \o q
<1>1. p \in Seq(Tokens) /\ q \in Seq(Tokens) /\ Len(p) = 1 /\ Len(q) = 2 /\ p[1] = x /\ q[1] = y
      /\ q[2] = z
  OBVIOUS
<1> HIDE DEF p, q
<1>2. Made(r, p, q)
  BY <1>1, MadeOf
<1> HIDE DEF r
<1>3. r \in Seq(Tokens) /\ r[1] = x /\ r[1 + 1] = y /\ r[1 + 2] = z
  BY <1>1, <1>2 DEF Made
<1>4. Len(r) = 3
  BY <1>1, <1>2 DEF Made
<1>5. r = <<x, y, z>>
  BY <1>3, <1>4
<1> QED BY <1>5 DEF r, p, q

\* The delimiter that the code looks for, and the rest of its line.
Delimiter(m) == <<"--">> \o Mark(m)

\* The delimiter that mime() makes is the delimiter line, or that without its line feed.
LEMMA DelimiterIs ==
  ASSUME NEW m
  PROVE  /\ Delimiter(m) \in Seq(Sayable) /\ LineRest(m) \in Seq(Sayable)
         /\ Delimiter(m) # <<>> /\ Delimiter(m)[1] = "--"
         /\ Cat(Delimiter(m), LineRest(m)) = Cat(<<"--", "b">>, Eol)
<1> DEFINE d == Delimiter(m)
           l == LineRest(m)
<1>1. {"--", "b", "CR", "LF"} \subseteq Sayable
  BY FrameSayable, Zenon DEF Framing
<1>0. "--" \in Tokens /\ "b" \in Tokens /\ "CR" \in Tokens
  BY <1>1 DEF Sayable
<1>2. CASE m.quoted
  <2>1. d = <<"--", "b">> /\ l = Eol
    <3>1. <<"--">> \o <<"b">> = <<"--", "b">>
      BY <1>0, PairOf
    <3> QED BY <1>2, <3>1 DEF Delimiter, Mark, LineRest
  <2>2. d # <<>> /\ d[1] = "--"
    BY <2>1
  <2> QED BY <2>1, <2>2, FrameSayable
<1>3. CASE ~m.quoted
  <2>1. d = <<"--", "b", "CR">> /\ l = <<"LF">>
    <3>1. <<"--">> \o <<"b", "CR">> = <<"--", "b", "CR">>
      BY <1>0, TripleOf
    <3> QED BY <1>3, <3>1 DEF Delimiter, Mark, LineRest
  <2>2. d # <<>> /\ d[1] = "--"
    BY <2>1
  <2>3. <<"--", "b", "CR">> \in Seq(Sayable) /\ <<"LF">> \in Seq(Sayable)
    BY <1>1
  <2>4. <<"--", "b", "CR">> \o <<"LF">> = <<"--", "b">> \o <<"CR", "LF">>
    OBVIOUS
  <2> QED BY <2>1, <2>2, <2>3, <2>4 DEF Cat, Eol
<1> QED BY <1>2, <1>3

\* It is first found before the first part.
LEMMA DelimiterFound ==
  ASSUME NEW m \in Multiparts, m.parts # <<>>, m.versionFirst, NEW t, t = MimeText(m),
         NEW f, f = Find(Delimiter(m), t, 1)
  PROVE  f # 0 /\ Left(t, f + Len(Delimiter(m)), Cat(LineRest(m), Rest(m)))
<1> DEFINE S == Spoken
           d == Delimiter(m)
           l == LineRest(m)
           b == Cat(l, Rest(m))
           a == Cat(Cat(Cat(Lead, Naming), Value(m)), Gap(m))
           N == Spoken \ {"--"}
<1>1. N \subseteq S /\ S \subseteq Tokens /\ Sayable \subseteq S /\ Silent \subseteq N /\ "boundary=" \in N
  BY SayableTokens DEF Silent, Sayable, Spoken
<1>2. Lead \in Seq(N) /\ Naming \in Seq(N) /\ Value(m) \in Seq(N) /\ Gap(m) \in Seq(N)
  <2>1. Lead \in Seq(N) /\ Value(m) \in Seq(N) /\ Gap(m) \in Seq(N)
    BY <1>1, GapIs, Within
  <2>2. Naming \in Seq(N)
    BY <1>1 DEF Naming
  <2> QED BY <2>1, <2>2
<1>3. Rest(m) \in Seq(S) /\ l \in Seq(S) /\ d \in Seq(S) /\ <<"--", "b">> \in Seq(S) /\ Eol \in Seq(S)
      /\ First(m) \in Seq(S)
  BY <1>1, FirstIs, DelimiterIs, FrameSayable, Within
<1> HIDE DEF N, S, d, l
<1>4. a \in Seq(N) /\ a \in Seq(S)
  <2>1. a \in Seq(N)
    BY <1>2, Moved
  <2> HIDE DEF a
  <2> QED BY <1>1, <2>1, Within
<1>5. b \in Seq(S)
  BY <1>3, Moved
<1>6. First(m) = Cat(d, b)
  <2>1. First(m) = Cat(<<"--", "b">>, Cat(Eol, Rest(m)))
    BY Zenon DEF First, Cat
  <2>2. First(m) = Cat(Cat(<<"--", "b">>, Eol), Rest(m))
    <3> DEFINE x == <<"--", "b">>
    <3>2. x \in Seq(S)
      BY <1>3
    <3> HIDE DEF x
    <3>1. Cat(Cat(x, Eol), Rest(m)) = Cat(x, Cat(Eol, Rest(m)))
      BY <1>3, <3>2, Moved
    <3> QED BY <2>1, <3>1, Zenon DEF x
  <2>3. First(m) = Cat(Cat(d, l), Rest(m))
    BY <2>2, DelimiterIs DEF d, l
  <2> QED BY <1>3, <2>3, Moved
<1>7. t = Cat(a, First(m))
  <2>1. t = Cat(Lead, Cat(Naming, Cat(Value(m), Cat(Gap(m), First(m)))))
    BY VersionFirst, Zenon DEF Naming, Cat
  <2>2. Lead \in Seq(S) /\ Naming \in Seq(S) /\ Value(m) \in Seq(S) /\ Gap(m) \in Seq(S)
    BY <1>1, <1>2, Within
  <2> QED BY <1>3, <2>1, <2>2, Nested5
<1>8. \A i \in 1 .. Len(a) : a[i] # d[1]
  <2>1. d[1] = "--"
    BY DelimiterIs DEF d
  <2>2. "--" \notin N
    BY DEF N
  <2> HIDE DEF a
  <2>3. \A i \in 1 .. Len(a) : a[i] \in N
    BY <1>4, ElementOfSeq
  <2> QED BY <2>1, <2>2, <2>3
<1>9. d # <<>> /\ 1 \in Nat /\ 1 <= 1
  BY DelimiterIs DEF d
<1>10. t = Cat(a, Cat(d, b))
  BY <1>6, <1>7, Zenon
<1>11. f = Find(d, t, 1)
  BY DEF d
<1> HIDE DEF a, b
<1>12. 1 <= Len(a) + 1 /\ \A i \in 1 .. Len(a) : a[i] # d[1]
  BY <1>4, <1>8
<1>13. f # 0 /\ Left(t, f + Len(d), b)
  BY <1>1, <1>3, <1>4, <1>5, <1>9, <1>10, <1>11, <1>12, FindLeft
<1> QED BY <1>13 DEF d, b, l

-----------------------------------------------------------------------------
(* The header lines of a part.                                             *)

\* Any text is made of two, wherever it is cut.
LEMMA CutInTwo ==
  ASSUME NEW t \in Seq(Tokens), NEW k \in Nat, k <= Len(t)
  PROVE  \E a, b \in Seq(Tokens) : Len(a) = k /\ t = Cat(a, b) /\ Made(t, a, b)
<1> DEFINE a == SubSeq(t, 1, k)
           b == SubSeq(t, k + 1, Len(t))
           L == Len(t)
<1>1. a \in Seq(Tokens) /\ b \in Seq(Tokens) /\ L \in Nat
  OBVIOUS
<1>2. Len(a) = k
  OBVIOUS
<1>3. Len(b) = L - k
  OBVIOUS
<1>4. \A i \in 1 .. k : a[i] = t[i]
  OBVIOUS
<1>5. \A i \in 1 .. L - k : b[i] = t[k + i]
  OBVIOUS
<1> DEFINE u == a \o b
<1> HIDE DEF a, b
<1>6. Made(u, a, b)
  BY <1>1, MadeOf
<1>7. Len(u) = L /\ u \in Seq(Tokens)
  BY <1>1, <1>2, <1>3, <1>6 DEF Made
<1> HIDE DEF u
<1>8. ASSUME NEW i \in 1 .. L PROVE u[i] = t[i]
  <2>1. CASE i <= k
    <3>1. i \in 1 .. k
      BY <1>1, <2>1
    <3> QED BY <1>2, <1>4, <1>6, <3>1 DEF Made
  <2>2. CASE k < i
    <3>1. i - k \in 1 .. L - k /\ k + (i - k) = i
      BY <1>1, <2>2
    <3>2. u[k + (i - k)] = b[i - k]
      BY <1>2, <1>3, <1>6, <3>1 DEF Made
    <3>3. b[i - k] = t[k + (i - k)]
      BY <1>5, <3>1
    <3> QED BY <3>1, <3>2, <3>3
  <2> QED BY <1>1, <2>1, <2>2
<1> HIDE DEF L
<1>9. t = u
  <2>1. Len(t) = L
    BY DEF L
  <2>2. Len(u) = Len(t) /\ \A i \in 1 .. Len(t) : u[i] = t[i]
    BY <1>7, <1>8, <2>1
  <2> QED BY <1>7, <2>2, SeqEqual
<1> QED BY <1>1, <1>2, <1>6, <1>9 DEF u, Cat

\* What a header line is made of besides its name and its words.
Semicolon == ";"
Space     == " "
Glue      == {Space, Semicolon, "CR", "LF"}

\* A header line: its name, and words between blanks, ";" and whole line ends.
HeaderLine(f, n, V) ==
  /\ f \in Seq(Tokens) /\ Len(f) \in Nat /\ 4 <= Len(f)
  /\ f[1] = n
  /\ \A i \in 2 .. Len(f) : f[i] \in V \cup Glue
  /\ \A x \in V : \E i \in 2 .. Len(f) - 2 : f[i] = x
  /\ f[Len(f) - 1] = "CR" /\ f[Len(f)] = "LF"
  /\ \A i \in 1 .. Len(f) - 2 : f[i] = "CR" => f[i + 1] = "LF" /\ f[i + 2] # "CR"

\* The tokens of a field, one after the other.
CodeTokens(f, n, s, v) ==
  /\ f \in Seq(Tokens) /\ Len(f) = 5
  /\ f[1] = n /\ f[2] = s /\ f[3] = v /\ f[4] = "CR" /\ f[5] = "LF"

\* The tokens of an encoding field,
LEMMA CodeText ==
  ASSUME NEW n \in Tokens, NEW s \in Tokens, NEW v \in Tokens
  PROVE  CodeTokens(Cat(Cat(<<n, s>>, <<v>>), Eol), n, s, v)
<1> DEFINE a == <<n, s>>
           b == <<v>>
           c == Cat(a, b)
           f == Cat(c, Eol)
<1>1. /\ a \in Seq(Tokens) /\ Len(a) = 2 /\ a[1] = n /\ a[2] = s
      /\ b \in Seq(Tokens) /\ Len(b) = 1 /\ b[1] = v
  OBVIOUS
<1> HIDE DEF a, b
<1>2. Eol \in Seq(Tokens) /\ Len(Eol) = 2 /\ Eol[1] = "CR" /\ Eol[2] = "LF"
  BY EolIs
<1>3. Made(c, a, b)
  BY <1>1, MadeOf DEF Cat
<1> HIDE DEF c
<1>4. c \in Seq(Tokens) /\ c[1] = n /\ c[2] = s /\ c[2 + 1] = v
  BY <1>1, <1>3 DEF Made
<1>5. Len(c) = 3
  BY <1>1, <1>3 DEF Made
<1>6. Made(f, c, Eol)
  BY <1>2, <1>4, MadeOf DEF Cat
<1> HIDE DEF f
<1>7. f \in Seq(Tokens) /\ f[1] = c[1] /\ f[2] = c[2] /\ f[3] = c[3]
  BY <1>5, <1>6 DEF Made
<1>8. f[3 + 1] = "CR" /\ f[3 + 2] = "LF"
  BY <1>2, <1>5, <1>6 DEF Made
<1>9. Len(f) = 5
  BY <1>2, <1>5, <1>6 DEF Made
<1>10. CodeTokens(f, n, s, v)
  BY <1>4, <1>7, <1>8, <1>9 DEF CodeTokens
<1> QED BY <1>10 DEF f, c, a, b

TypeTokens(f, n, s, t, q, v) ==
  /\ f \in Seq(Tokens) /\ Len(f) = 8
  /\ f[1] = n /\ f[2] = s /\ f[3] = t /\ f[4] = q /\ f[5] = s /\ f[6] = v
  /\ f[7] = "CR" /\ f[8] = "LF"

FoldedTokens(f, n, s, t, q, v) ==
  /\ f \in Seq(Tokens) /\ Len(f) = 10
  /\ f[1] = n /\ f[2] = s /\ f[3] = t /\ f[4] = q /\ f[5] = "CR" /\ f[6] = "LF" /\ f[7] = s /\ f[8] = v
  /\ f[9] = "CR" /\ f[10] = "LF"

\* and of a type field, on one line or folded.
LEMMA TypeText ==
  ASSUME NEW n \in Tokens, NEW s \in Tokens, NEW t \in Tokens, NEW q \in Tokens, NEW v \in Tokens
  PROVE  /\ TypeTokens(Cat(Cat(<<n, s>>, Cat(Cat(<<t, q>>, <<>>), <<s, v>>)), Eol), n, s, t, q, v)
         /\ FoldedTokens(Cat(Cat(<<n, s>>, Cat(Cat(<<t, q>>, Eol), <<s, v>>)), Eol), n, s, t, q, v)
<1> DEFINE a == <<n, s>>
           b == <<t, q>>
           c == <<s, v>>
           z == <<>>
<1>1. /\ a \in Seq(Tokens) /\ Len(a) = 2 /\ a[1] = n /\ a[2] = s
      /\ b \in Seq(Tokens) /\ Len(b) = 2 /\ b[1] = t /\ b[2] = q
      /\ c \in Seq(Tokens) /\ Len(c) = 2 /\ c[1] = s /\ c[2] = v
      /\ z \in Seq(Tokens) /\ Len(z) = 0
  OBVIOUS
<1> HIDE DEF a, b, c, z
<1>2. Eol \in Seq(Tokens) /\ Len(Eol) = 2 /\ Eol[1] = "CR" /\ Eol[2] = "LF"
  BY EolIs
<1>3. TypeTokens(Cat(Cat(a, Cat(Cat(b, z), c)), Eol), n, s, t, q, v)
  <2> DEFINE x == Cat(b, z)
             y == Cat(x, c)
             w == Cat(a, y)
             f == Cat(w, Eol)
  <2>1. Made(x, b, z)
    BY <1>1, MadeOf DEF Cat
  <2> HIDE DEF x
  <2>2. x \in Seq(Tokens) /\ x[1] = t /\ x[2] = q
    BY <1>1, <2>1 DEF Made
  <2>3. Len(x) = 2
    BY <1>1, <2>1 DEF Made
  <2>4. Made(y, x, c)
    BY <1>1, <2>2, MadeOf DEF Cat
  <2> HIDE DEF y
  <2>5. y \in Seq(Tokens) /\ y[1] = t /\ y[2] = q /\ y[2 + 1] = s /\ y[2 + 2] = v
    BY <1>1, <2>2, <2>3, <2>4 DEF Made
  <2>6. Len(y) = 4
    BY <1>1, <2>3, <2>4 DEF Made
  <2>7. Made(w, a, y)
    BY <1>1, <2>5, MadeOf DEF Cat
  <2> HIDE DEF w
  <2>8. w \in Seq(Tokens) /\ w[1] = n /\ w[2] = s /\ w[2 + 1] = y[1] /\ w[2 + 2] = y[2]
        /\ w[2 + 3] = y[3] /\ w[2 + 4] = y[4]
    BY <1>1, <2>6, <2>7 DEF Made
  <2>9. Len(w) = 6
    BY <1>1, <2>6, <2>7 DEF Made
  <2>10. Made(f, w, Eol)
    BY <1>2, <2>8, MadeOf DEF Cat
  <2> HIDE DEF f
  <2>11. f \in Seq(Tokens) /\ f[1] = w[1] /\ f[2] = w[2] /\ f[3] = w[3] /\ f[4] = w[4] /\ f[5] = w[5]
         /\ f[6] = w[6]
    BY <2>9, <2>10 DEF Made
  <2>12. f[6 + 1] = "CR" /\ f[6 + 2] = "LF"
    BY <1>2, <2>9, <2>10 DEF Made
  <2>13. Len(f) = 8
    BY <1>2, <2>9, <2>10 DEF Made
  <2>14. TypeTokens(f, n, s, t, q, v)
    BY <2>5, <2>8, <2>11, <2>12, <2>13 DEF TypeTokens
  <2> QED BY <2>14 DEF f, w, y, x
<1>4. FoldedTokens(Cat(Cat(a, Cat(Cat(b, Eol), c)), Eol), n, s, t, q, v)
  <2> DEFINE x == Cat(b, Eol)
             y == Cat(x, c)
             w == Cat(a, y)
             f == Cat(w, Eol)
  <2>1. Made(x, b, Eol)
    BY <1>1, <1>2, MadeOf DEF Cat
  <2> HIDE DEF x
  <2>2. x \in Seq(Tokens) /\ x[1] = t /\ x[2] = q /\ x[2 + 1] = "CR" /\ x[2 + 2] = "LF"
    BY <1>1, <1>2, <2>1 DEF Made
  <2>3. Len(x) = 4
    BY <1>1, <1>2, <2>1 DEF Made
  <2>4. Made(y, x, c)
    BY <1>1, <2>2, MadeOf DEF Cat
  <2> HIDE DEF y
  <2>5. y \in Seq(Tokens) /\ y[1] = x[1] /\ y[2] = x[2] /\ y[3] = x[3] /\ y[4] = x[4]
        /\ y[4 + 1] = s /\ y[4 + 2] = v
    BY <1>1, <2>3, <2>4 DEF Made
  <2>6. Len(y) = 6
    BY <1>1, <2>3, <2>4 DEF Made
  <2>7. Made(w, a, y)
    BY <1>1, <2>5, MadeOf DEF Cat
  <2> HIDE DEF w
  <2>8. w \in Seq(Tokens) /\ w[1] = n /\ w[2] = s /\ w[2 + 1] = y[1] /\ w[2 + 2] = y[2]
        /\ w[2 + 3] = y[3] /\ w[2 + 4] = y[4] /\ w[2 + 5] = y[5] /\ w[2 + 6] = y[6]
    BY <1>1, <2>6, <2>7 DEF Made
  <2>9. Len(w) = 8
    BY <1>1, <2>6, <2>7 DEF Made
  <2>10. Made(f, w, Eol)
    BY <1>2, <2>8, MadeOf DEF Cat
  <2> HIDE DEF f
  <2>11. f \in Seq(Tokens) /\ f[1] = w[1] /\ f[2] = w[2] /\ f[3] = w[3] /\ f[4] = w[4] /\ f[5] = w[5]
         /\ f[6] = w[6] /\ f[7] = w[7] /\ f[8] = w[8]
    BY <2>9, <2>10 DEF Made
  <2>12. f[8 + 1] = "CR" /\ f[8 + 2] = "LF"
    BY <1>2, <2>9, <2>10 DEF Made
  <2>13. Len(f) = 10
    BY <1>2, <2>9, <2>10 DEF Made
  <2>15. y[1] = t /\ y[2] = q /\ y[3] = "CR" /\ y[4] = "LF" /\ y[5] = s /\ y[6] = v
    BY <2>2, <2>5
  <2>16. /\ w[1] = n /\ w[2] = s /\ w[3] = t /\ w[4] = q /\ w[5] = "CR" /\ w[6] = "LF" /\ w[7] = s
         /\ w[8] = v
    BY <2>8, <2>15
  <2>14. FoldedTokens(f, n, s, t, q, v)
    BY <2>11, <2>12, <2>13, <2>16 DEF FoldedTokens
  <2> QED BY <2>14 DEF f, w, y, x
<1> QED BY <1>3, <1>4 DEF a, b, c, z

\* The tokens between the words of a header.
LEMMA GlueIs ==
  /\ Space \in Blanks /\ Space # "CR" /\ Space # "LF" /\ Semicolon # "CR" /\ Semicolon # "LF"
  /\ Space \in Glue /\ Semicolon \in Glue /\ "CR" \in Glue /\ "LF" \in Glue
  /\ "CR" \notin Blanks /\ "LF" \notin Blanks
  /\ Blanks \subseteq Tokens => Space \in Tokens
<1>1. Space # "CR" /\ Space # "LF" /\ Space \in Blanks
  BY Zenon DEF Space, Blanks
<1>2. Semicolon # "CR" /\ Semicolon # "LF"
  BY Zenon DEF Semicolon
<1>3. "CR" \notin Blanks /\ "LF" \notin Blanks
  BY Zenon DEF Blanks
<1>4. Space \in Glue /\ Semicolon \in Glue /\ "CR" \in Glue /\ "LF" \in Glue
  BY DEF Glue
<1> QED BY <1>1, <1>2, <1>3, <1>4

\* An encoding field has no fold: unfolding keeps it.
LEMMA CodeLine ==
  ASSUME NEW f, NEW n, NEW v, CodeTokens(f, n, Space, v), n # "CR", v # "CR", NEW e \in Int
  PROVE  Till(e, f) = f /\ HeaderLine(f, n, {v})
<1> DEFINE s == Space
           V == {v}
<1>1. /\ f \in Seq(Tokens) /\ Len(f) = 5
      /\ f[1] = n /\ f[2] = s /\ f[3] = v /\ f[4] = "CR" /\ f[5] = "LF"
  BY DEF CodeTokens
<1>2. s # "CR" /\ s \in V \cup Glue /\ v \in V \cup Glue /\ "CR" \in V \cup Glue /\ "LF" \in V \cup Glue
  BY GlueIs
<1>3. \A i \in 1 .. 3 : f[i] # "CR"
  <2>1. \A i \in 1 .. 3 : i = 1 \/ i = 2 \/ i = 3
    OBVIOUS
  <2> HIDE DEF s
  <2> QED BY <1>1, <1>2, <2>1
<1>4. Till(e, f) = f
  <2>1. \A i \in 1 .. Len(f) - 2 : f[i] = "CR" /\ f[i + 1] = "LF" => f[i + 2] \notin Blanks
    BY <1>1, <1>3
  <2> QED BY <1>1, <2>1, TillKept
<1> HIDE DEF s
<1>5. \A i \in 2 .. Len(f) : f[i] \in V \cup Glue
  <2>1. \A i \in 2 .. Len(f) : i = 2 \/ i = 3 \/ i = 4 \/ i = 5
    BY <1>1
  <2> HIDE DEF V
  <2> QED BY <1>1, <1>2, <2>1
<1>6. \A x \in V : \E i \in 2 .. Len(f) - 2 : f[i] = x
  BY <1>1
<1> HIDE DEF V
<1>7. \A i \in 1 .. Len(f) - 2 : f[i] = "CR" => f[i + 1] = "LF" /\ f[i + 2] # "CR"
  BY <1>1, <1>3
<1>8. 4 <= Len(f) /\ f[Len(f) - 1] = "CR" /\ f[Len(f)] = "LF" /\ Len(f) \in Nat
  BY <1>1
<1>9. HeaderLine(f, n, V)
  BY <1>1, <1>5, <1>6, <1>7, <1>8 DEF HeaderLine
<1> QED BY <1>4, <1>9 DEF V

\* Nor has a type field on one line.
LEMMA TypeLine ==
  ASSUME NEW f, NEW n, NEW t, NEW v, TypeTokens(f, n, Space, t, Semicolon, v),
         n # "CR", t # "CR", v # "CR", NEW e \in Int
  PROVE  Till(e, f) = f /\ HeaderLine(f, n, {t, v})
<1> DEFINE s == Space
           q == Semicolon
           V == {t, v}
<1>1. /\ f \in Seq(Tokens) /\ Len(f) = 8
      /\ f[1] = n /\ f[2] = s /\ f[3] = t /\ f[4] = q /\ f[5] = s /\ f[6] = v
      /\ f[7] = "CR" /\ f[8] = "LF"
  BY DEF TypeTokens
<1>2. /\ s # "CR" /\ q # "CR" /\ s \in V \cup Glue /\ q \in V \cup Glue /\ t \in V \cup Glue
      /\ v \in V \cup Glue /\ "CR" \in V \cup Glue /\ "LF" \in V \cup Glue
  BY GlueIs
<1> HIDE DEF s, q
<1>3. \A i \in 1 .. 6 : f[i] # "CR"
  <2>1. \A i \in 1 .. 6 : i = 1 \/ i = 2 \/ i = 3 \/ i = 4 \/ i = 5 \/ i = 6
    OBVIOUS
  <2> QED BY <1>1, <1>2, <2>1
<1>4. Till(e, f) = f
  <2>1. \A i \in 1 .. Len(f) - 2 : f[i] = "CR" /\ f[i + 1] = "LF" => f[i + 2] \notin Blanks
    BY <1>1, <1>3
  <2> QED BY <1>1, <2>1, TillKept
<1>5. \A i \in 2 .. Len(f) : f[i] \in V \cup Glue
  <2>1. \A i \in 2 .. Len(f) : i = 2 \/ i = 3 \/ i = 4 \/ i = 5 \/ i = 6 \/ i = 7 \/ i = 8
    BY <1>1
  <2> HIDE DEF V
  <2> QED BY <1>1, <1>2, <2>1
<1>6. \A x \in V : \E i \in 2 .. Len(f) - 2 : f[i] = x
  <2>1. 3 \in 2 .. Len(f) - 2 /\ 6 \in 2 .. Len(f) - 2
    BY <1>1
  <2> QED BY <1>1, <2>1
<1> HIDE DEF V
<1>7. \A i \in 1 .. Len(f) - 2 : f[i] = "CR" => f[i + 1] = "LF" /\ f[i + 2] # "CR"
  BY <1>1, <1>3
<1>8. 4 <= Len(f) /\ f[Len(f) - 1] = "CR" /\ f[Len(f)] = "LF" /\ Len(f) \in Nat
  BY <1>1
<1>9. HeaderLine(f, n, V)
  BY <1>1, <1>5, <1>6, <1>7, <1>8 DEF HeaderLine
<1> QED BY <1>4, <1>9 DEF V

\* A fold between the two words, unfolded or not.
LEMMA FoldedWhole ==
  ASSUME NEW f, NEW n, NEW t, NEW v, FoldedTokens(f, n, Space, t, Semicolon, v),
         n # "CR", t # "CR", v # "CR"
  PROVE  HeaderLine(f, n, {t, v})
<1> DEFINE s == Space
           q == Semicolon
           V == {t, v}
<1>1. /\ f \in Seq(Tokens) /\ Len(f) = 10
      /\ f[1] = n /\ f[2] = s /\ f[3] = t /\ f[4] = q /\ f[5] = "CR" /\ f[6] = "LF" /\ f[7] = s
      /\ f[8] = v /\ f[9] = "CR" /\ f[10] = "LF"
  BY DEF FoldedTokens
<1>2. /\ s # "CR" /\ q # "CR" /\ s \in V \cup Glue /\ q \in V \cup Glue /\ t \in V \cup Glue
      /\ v \in V \cup Glue /\ "CR" \in V \cup Glue /\ "LF" \in V \cup Glue
  BY GlueIs
<1> HIDE DEF s, q
<1>3. \A i \in 1 .. 8 : f[i] = "CR" => i = 5
  <2>1. \A i \in 1 .. 8 : i = 1 \/ i = 2 \/ i = 3 \/ i = 4 \/ i = 5 \/ i = 6 \/ i = 7 \/ i = 8
    OBVIOUS
  <2> QED BY <1>1, <1>2, <2>1
<1>5. \A i \in 2 .. Len(f) : f[i] \in V \cup Glue
  <2>1. \A i \in 2 .. Len(f) : i = 2 \/ i = 3 \/ i = 4 \/ i = 5 \/ i = 6 \/ i = 7 \/ i = 8 \/ i = 9 \/ i = 10
    BY <1>1
  <2> HIDE DEF V
  <2> QED BY <1>1, <1>2, <2>1
<1>6. \A x \in V : \E i \in 2 .. Len(f) - 2 : f[i] = x
  <2>1. 3 \in 2 .. Len(f) - 2 /\ 8 \in 2 .. Len(f) - 2
    BY <1>1
  <2> QED BY <1>1, <2>1
<1> HIDE DEF V
<1>7. \A i \in 1 .. Len(f) - 2 : f[i] = "CR" => f[i + 1] = "LF" /\ f[i + 2] # "CR"
  BY <1>1, <1>2, <1>3
<1>8. 4 <= Len(f) /\ f[Len(f) - 1] = "CR" /\ f[Len(f)] = "LF" /\ Len(f) \in Nat
  BY <1>1
<1>9. HeaderLine(f, n, V)
  BY <1>1, <1>5, <1>6, <1>7, <1>8 DEF HeaderLine
<1> QED BY <1>9 DEF V

\* A folded one becomes a line when the unfolding goes behind the fold.
LEMMA FoldedCut ==
  ASSUME NEW f, NEW n, NEW t, NEW v, FoldedTokens(f, n, Space, t, Semicolon, v),
         n # "CR", t # "CR", v # "CR", v \notin Blanks, v # "LF", NEW e \in Int, 5 < e
  PROVE  HeaderLine(Till(e, f), n, {t, v})
<1> DEFINE s == Space
           q == Semicolon
           V == {t, v}
<1>1. /\ f \in Seq(Tokens) /\ Len(f) = 10
      /\ f[1] = n /\ f[2] = s /\ f[3] = t /\ f[4] = q /\ f[5] = "CR" /\ f[6] = "LF" /\ f[7] = s
      /\ f[8] = v /\ f[9] = "CR" /\ f[10] = "LF"
  BY DEF FoldedTokens
<1>2. /\ s # "CR" /\ q # "CR" /\ s \in V \cup Glue /\ q \in V \cup Glue /\ t \in V \cup Glue
      /\ v \in V \cup Glue /\ "CR" \in V \cup Glue /\ "LF" \in V \cup Glue
      /\ s \in Blanks /\ "CR" \notin Blanks
  BY GlueIs
<1> HIDE DEF s, q
<1>3. PICK a \in Seq(Tokens), r \in Seq(Tokens) : Len(a) = 4 /\ f = Cat(a, r) /\ Made(f, a, r)
  <2>1. f \in Seq(Tokens) /\ 4 \in Nat /\ 4 <= Len(f)
    BY <1>1
  <2>2. \E a, r \in Seq(Tokens) : Len(a) = 4 /\ f = Cat(a, r) /\ Made(f, a, r)
    BY <2>1, CutInTwo, Zenon
  <2> QED BY <2>2, Zenon
<1>4. Len(r) = 6
  <2>1. Len(f) = Len(a) + Len(r) /\ Len(r) \in Nat
    BY <1>3 DEF Made
  <2>2. Len(f) = 10
    BY <1>1
  <2>3. Len(a) = 4
    BY <1>3
  <2> DEFINE x == Len(r)
  <2>4. x \in Nat /\ 10 = 4 + x
    BY <2>1, <2>2, <2>3
  <2> HIDE DEF x
  <2>5. x = 6
    BY <2>4
  <2> QED BY <2>5 DEF x
<1>5. PICK b \in Seq(Tokens), c \in Seq(Tokens) : Len(b) = 3 /\ r = Cat(b, c) /\ Made(r, b, c)
  <2>1. 3 \in Nat /\ 3 <= Len(r)
    BY <1>4
  <2>2. \E b, c \in Seq(Tokens) : Len(b) = 3 /\ r = Cat(b, c) /\ Made(r, b, c)
    BY <2>1, CutInTwo, Zenon
  <2> QED BY <2>2, Zenon
<1>6. Len(c) = 3
  <2>1. Len(r) = Len(b) + Len(c) /\ Len(c) \in Nat
    BY <1>5 DEF Made
  <2>2. Len(b) = 3
    BY <1>5
  <2> DEFINE x == Len(c)
  <2>4. x \in Nat /\ 6 = 3 + x
    BY <1>4, <2>1, <2>2
  <2> HIDE DEF x
  <2>5. x = 3
    BY <2>4
  <2> QED BY <2>5 DEF x
<1>7. a[1] = n /\ a[2] = s /\ a[3] = t /\ a[4] = q
  BY <1>1, <1>3 DEF Made
<1>8. /\ r[1] = f[4 + 1] /\ r[2] = f[4 + 2] /\ r[3] = f[4 + 3] /\ r[4] = f[4 + 4] /\ r[5] = f[4 + 5]
      /\ r[6] = f[4 + 6]
  BY <1>3, <1>4 DEF Made
<1>9. r[1] = "CR" /\ r[2] = "LF" /\ r[3] = s /\ r[4] = v /\ r[5] = "CR" /\ r[6] = "LF"
  BY <1>1, <1>8
<1>10. b[1] = r[1] /\ b[2] = r[2] /\ b[3] = r[3] /\ c[1] = r[3 + 1] /\ c[2] = r[3 + 2] /\ c[3] = r[3 + 3]
  BY <1>5, <1>6 DEF Made
<1>11. b[1] = "CR" /\ b[2] = "LF" /\ b[3] = s /\ c[1] = v /\ c[2] = "CR" /\ c[3] = "LF"
  BY <1>9, <1>10
<1>12. Till(e, a) = a
  <2>1. \A i \in 1 .. Len(a) - 2 : a[i] # "CR"
    <3>1. \A i \in 1 .. Len(a) - 2 : i = 1 \/ i = 2
      BY <1>3
    <3> QED BY <1>2, <1>7, <3>1
  <2> QED BY <2>1, TillKept
<1> DEFINE d == e - 4
           k == d - 3
<1>13. d \in Int /\ 1 < d /\ k \in Int
  OBVIOUS
<1>14. Till(e, f) = Cat(a, Till(d, r))
  <2>1. Apart(e, a, r)
    BY <1>2, <1>9 DEF Apart
  <2>2. e - Len(a) = d
    BY <1>3
  <2>3. Till(e, a \o r) = Till(e, a) \o Till(e - Len(a), r)
    BY <2>1, TillJoined
  <2> QED BY <1>3, <1>12, <2>2, <2>3 DEF Cat
<1>15. Till(d, r) = Cat(Till(d, b), Till(k, c))
  <2> HIDE DEF d, k
  <2>1. Apart(d, b, c)
    BY <1>11 DEF Apart
  <2>2. d - Len(b) = k
    BY <1>5 DEF k
  <2>3. Till(d, b \o c) = Till(d, b) \o Till(d - Len(b), c)
    BY <1>13, <2>1, TillJoined
  <2> QED BY <1>5, <2>2, <2>3 DEF Cat
<1> HIDE DEF d, k
<1>16. Till(k, c) = c
  <2>1. \A i \in 1 .. Len(c) - 2 : c[i] # "CR"
    <3>1. \A i \in 1 .. Len(c) - 2 : i = 1
      BY <1>6
    <3> QED BY <1>11, <3>1
  <2> QED BY <1>13, <2>1, TillKept
<1>17. Till(d, b) = <<>>
  <2> DEFINE P == TillPieces(d, b)
             F == FoldsBefore(d, b)
  <2>1. P \in Seq(Seq(Tokens)) /\ Len(P) = Len(b)
        /\ \A i \in 1 .. Len(b) : P[i] = IF FoldedAway(F, b, i) THEN <<>> ELSE <<b[i]>>
    BY <1>13, WrittenTokens, TillTyped
  <2>2. 1 \in F
    <3>1. b \in Seq(Tokens) /\ d \in Int
      BY <1>2, <1>13
    <3>2. 1 \in FoldsBefore(d, b) <=>
            1 <= 1 /\ 1 + 2 <= Len(b) /\ 1 < d /\ b[1] = "CR" /\ b[1 + 1] = "LF" /\ b[1 + 2] \in Blanks
      BY <3>1, FoldsTill
    <3>3. 1 + 2 = 3 /\ 1 + 1 = 2 /\ 1 + 2 <= Len(b)
      BY <1>5 DEF Made
    <3>4. s \in Blanks
      BY <1>2
    <3> QED BY <1>11, <1>13, <3>2, <3>3, <3>4
  <2>3. ASSUME NEW i \in 1 .. Len(b) PROVE FoldedAway(F, b, i)
    <3>1. 1 <= i /\ \A j \in 1 + 2 .. i : b[j] \in Blanks
      <4>1. \A j \in 1 + 2 .. i : j = 3
        BY <1>5
      <4> QED BY <1>2, <1>11, <4>1
    <3> HIDE DEF F
    <3> QED BY <2>2, <3>1 DEF FoldedAway
  <2>4. \A i \in 1 .. Len(P) : P[i] = <<>>
    BY <2>1, <2>3
  <2> HIDE DEF P
  <2> QED BY <2>1, <2>4, FlattenEmpties DEF Till, P
<1>18. Till(e, f) = Cat(a, c)
  <2>1. Cat(<<>>, c) = c
    BY DEF Cat
  <2> QED BY <1>14, <1>15, <1>16, <1>17, <2>1
<1> DEFINE u == Cat(a, c)
<1>19. Made(u, a, c)
  BY MadeOf DEF Cat
<1> HIDE DEF u
<1>20. /\ u[1] = a[1] /\ u[2] = a[2] /\ u[3] = a[3] /\ u[4] = a[4]
       /\ u[4 + 1] = c[1] /\ u[4 + 2] = c[2] /\ u[4 + 3] = c[3]
  BY <1>3, <1>6, <1>19 DEF Made
<1>21. u \in Seq(Tokens) /\ Len(u) = 7
  BY <1>3, <1>6, <1>19 DEF Made
<1>22. u[1] = n /\ u[2] = s /\ u[3] = t /\ u[4] = q /\ u[5] = v /\ u[6] = "CR" /\ u[7] = "LF"
  BY <1>7, <1>11, <1>20
<1>23. \A i \in 1 .. 5 : u[i] # "CR"
  <2>1. \A i \in 1 .. 5 : i = 1 \/ i = 2 \/ i = 3 \/ i = 4 \/ i = 5
    OBVIOUS
  <2> QED BY <1>2, <1>22, <2>1
<1>24. \A i \in 2 .. Len(u) : u[i] \in V \cup Glue
  <2>1. \A i \in 2 .. Len(u) : i = 2 \/ i = 3 \/ i = 4 \/ i = 5 \/ i = 6 \/ i = 7
    BY <1>21
  <2> HIDE DEF V
  <2> QED BY <1>2, <1>22, <2>1
<1>25. \A x \in V : \E i \in 2 .. Len(u) - 2 : u[i] = x
  <2>1. 3 \in 2 .. Len(u) - 2 /\ 5 \in 2 .. Len(u) - 2
    BY <1>21
  <2> QED BY <1>22, <2>1
<1> HIDE DEF V
<1>26. \A i \in 1 .. Len(u) - 2 : u[i] = "CR" => u[i + 1] = "LF" /\ u[i + 2] # "CR"
  BY <1>21, <1>23
<1>27. 4 <= Len(u) /\ u[Len(u) - 1] = "CR" /\ u[Len(u)] = "LF" /\ Len(u) \in Nat
  BY <1>21, <1>22
<1>28. HeaderLine(u, n, V)
  BY <1>21, <1>22, <1>24, <1>25, <1>26, <1>27 DEF HeaderLine
<1> QED BY <1>18, <1>28 DEF V, u

\* No word of a header is a blank, a line end or a name.
LEMMA WordIs ==
  ASSUME NEW w \in Words
  PROVE  /\ w \in Tokens /\ w # "CR" /\ w # "LF" /\ w \notin Blanks /\ w # Semicolon
         /\ w \notin TypeNames /\ w \notin EncodingNames
<1>1. /\ w \in Tokens /\ w \notin LineEnds /\ w \notin Blanks /\ w # Semicolon
      /\ w \notin TypeNames /\ w \notin EncodingNames
  BY Zenon DEF Words, Semicolon
<1>2. w # "CR" /\ w # "LF"
  BY <1>1 DEF LineEnds
<1> QED BY <1>1, <1>2

\* The names that a part has its fields by.
TitleType == "Content-Type:"
TitleCode == "Content-Transfer-Encoding:"
LowerType == "content-type:"
LowerCode == "content-transfer-encoding:"

TypeName(p) == IF p.lower THEN LowerType ELSE TitleType
CodeName(p) == IF p.lower THEN LowerCode ELSE TitleCode

TypeField(p) == ContentType(p, TypeName(p))
CodeField(p) == Encoding(p, CodeName(p))

\* The names of the two fields are told from each other and from the glue.
LEMMA NamesAre ==
  ASSUME NEW p
  PROVE  /\ TypeName(p) \in Tokens /\ CodeName(p) \in Tokens /\ Space \in Tokens /\ Semicolon \in Tokens
         /\ TypeName(p) # "CR" /\ CodeName(p) # "CR" /\ TypeName(p) # "LF" /\ CodeName(p) # "LF"
         /\ TypeName(p) \notin Blanks /\ CodeName(p) \notin Blanks
         /\ TypeName(p) \in TypeNames /\ CodeName(p) \in EncodingNames
         /\ TypeName(p) \notin EncodingNames /\ CodeName(p) \notin TypeNames
<1>1. Space \in Sayable /\ Semicolon \in Sayable
  BY SayableTokens, Zenon DEF Space, Semicolon
<1>2. TitleType \in TypeNames /\ LowerType \in TypeNames /\ TitleCode \in EncodingNames /\ LowerCode \in EncodingNames
  BY Zenon DEF TitleType, LowerType, TitleCode, LowerCode, TypeNames, EncodingNames
<1>3. TypeNames \subseteq Tokens /\ EncodingNames \subseteq Tokens
  BY TextsAssumption DEF TextsAssumption
<1>4. \A x \in TypeNames : x # "CR" /\ x # "LF" /\ x \notin Blanks /\ x \notin EncodingNames
  BY Zenon DEF TypeNames, EncodingNames, Blanks
<1>5. \A x \in EncodingNames : x # "CR" /\ x # "LF" /\ x \notin Blanks /\ x \notin TypeNames
  BY Zenon DEF TypeNames, EncodingNames, Blanks
<1>6. TypeName(p) \in TypeNames /\ CodeName(p) \in EncodingNames
  BY <1>2 DEF TypeName, CodeName
<1> QED BY <1>1, <1>3, <1>4, <1>5, <1>6 DEF Sayable

\* The type field is one header line to parse_headers(), unfolded or not.
LEMMA TypeFieldTill ==
  ASSUME NEW p, PartIs(p), NEW e \in Int
  PROVE  /\ HeaderLine(TypeField(p), TypeName(p), {p.type, p.charset})
         /\ HeaderLine(Till(e, TypeField(p)), TypeName(p), {p.type, p.charset})
<1> DEFINE t == p.type
           v == p.charset
           n == TypeName(p)
           s == Space
           q == Semicolon
           f == TypeField(p)
<1>1. t \in Words /\ v \in Words /\ p.folded \in BOOLEAN
  BY DEF PartIs
<1>2. f = Cat(Cat(<<n, s>>, Cat(Cat(<<t, q>>, IF p.folded THEN Eol ELSE <<>>), <<s, v>>)), Eol)
  BY Zenon DEF TypeField, ContentType, Field, Cat, Space, Semicolon
<1> HIDE DEF t, v, n, s, q, f
<1>3. n \in Tokens /\ s \in Tokens /\ q \in Tokens /\ t \in Tokens /\ v \in Tokens
  BY <1>1, NamesAre, WordIs DEF n, s, q
<1>4. n # "CR" /\ t # "CR" /\ v # "CR" /\ v \notin Blanks /\ v # "LF"
  BY <1>1, NamesAre, WordIs DEF n
<1>5. CASE ~p.folded
  <2>1. f = Cat(Cat(<<n, s>>, Cat(Cat(<<t, q>>, <<>>), <<s, v>>)), Eol)
    BY <1>2, <1>5
  <2>2. TypeTokens(Cat(Cat(<<n, s>>, Cat(Cat(<<t, q>>, <<>>), <<s, v>>)), Eol), n, s, t, q, v)
    BY <1>3, TypeText, Zenon
  <2>3. TypeTokens(f, n, Space, t, Semicolon, v)
    BY <2>1, <2>2, Zenon DEF s, q
  <2>4. Till(e, f) = f /\ HeaderLine(f, n, {t, v})
    BY <1>4, <2>3, TypeLine
  <2> QED BY <2>4 DEF f, n, t, v
<1>6. CASE p.folded
  <2>1. f = Cat(Cat(<<n, s>>, Cat(Cat(<<t, q>>, Eol), <<s, v>>)), Eol)
    BY <1>2, <1>6
  <2>2. FoldedTokens(Cat(Cat(<<n, s>>, Cat(Cat(<<t, q>>, Eol), <<s, v>>)), Eol), n, s, t, q, v)
    BY <1>3, TypeText, Zenon
  <2>3. FoldedTokens(f, n, Space, t, Semicolon, v)
    BY <2>1, <2>2, Zenon DEF s, q
  <2>4. HeaderLine(f, n, {t, v})
    BY <1>4, <2>3, FoldedWhole
  <2>5. CASE e <= 5
    <3>1. /\ f \in Seq(Tokens) /\ Len(f) = 10 /\ f[1] = n /\ f[2] = Space /\ f[3] = t /\ f[4] = Semicolon
      BY <2>3 DEF FoldedTokens
    <3>2. \A i \in 1 .. 4 : f[i] # "CR"
      <4>1. \A i \in 1 .. 4 : i = 1 \/ i = 2 \/ i = 3 \/ i = 4
        OBVIOUS
      <4> QED BY <1>4, <3>1, <4>1, GlueIs
    <3>3. FoldsBefore(e, f) = {}
      <4>1. /\ FoldsBefore(e, f) \in SUBSET Nat
            /\ \A i \in Nat : i \in FoldsBefore(e, f) => 1 <= i /\ i < e /\ f[i] = "CR"
        BY <3>1, FoldsTill
      <4>2. SUFFICES ASSUME NEW i \in FoldsBefore(e, f) PROVE FALSE
        OBVIOUS
      <4>3. i \in Nat /\ 1 <= i /\ i < e /\ f[i] = "CR"
        BY <4>1, <4>2
      <4>4. i \in 1 .. 4
        BY <2>5, <4>3
      <4> QED BY <3>2, <4>3, <4>4
    <3>4. Till(e, f) = f
      BY <3>1, <3>3, TillNone
    <3> QED BY <2>4, <3>4 DEF f, n, t, v
  <2>6. CASE 5 < e
    <3>1. HeaderLine(Till(e, f), n, {t, v})
      BY <1>4, <2>3, <2>6, FoldedCut
    <3> QED BY <2>4, <3>1 DEF f, n, t, v
  <2> QED BY <2>5, <2>6
<1> QED BY <1>1, <1>5, <1>6

\* So is the encoding field.
LEMMA CodeFieldTill ==
  ASSUME NEW p, PartIs(p), p.encoding # "none", NEW e \in Int
  PROVE  Till(e, CodeField(p)) = CodeField(p) /\ HeaderLine(CodeField(p), CodeName(p), {p.encoding})
<1> DEFINE v == p.encoding
           n == CodeName(p)
           s == Space
           f == CodeField(p)
<1>1. v \in Words
  BY DEF PartIs
<1>2. f = Cat(Cat(<<n, s>>, <<v>>), Eol)
  BY Zenon DEF CodeField, Encoding, Field, Cat, Space
<1> HIDE DEF v, n, s, f
<1>3. n \in Tokens /\ s \in Tokens /\ v \in Tokens /\ n # "CR" /\ v # "CR"
  BY <1>1, NamesAre, WordIs DEF n, s
<1>4. CodeTokens(Cat(Cat(<<n, s>>, <<v>>), Eol), n, s, v)
  BY <1>3, CodeText, Zenon
<1>5. CodeTokens(f, n, Space, v)
  BY <1>2, <1>4, Zenon DEF s
<1>6. Till(e, f) = f /\ HeaderLine(f, n, {v})
  BY <1>3, <1>5, CodeLine
<1> QED BY <1>6 DEF f, n, v

-----------------------------------------------------------------------------
(* The header of a part.                                                   *)

\* Whole lines, none of them blank.
Lines(h) ==
  /\ h \in Seq(Tokens) /\ Len(h) \in Nat /\ 4 <= Len(h)
  /\ h[1] \notin Blanks /\ h[1] # "LF" /\ h[1] # "CR"
  /\ h[Len(h) - 1] = "CR" /\ h[Len(h)] = "LF"
  /\ \A i \in 1 .. Len(h) - 2 : h[i] = "CR" => h[i + 1] = "LF" /\ h[i + 2] # "CR"

\* One of the names N begins a line of h, and nothing else of h; the words X are behind it.
NamedBy(h, N, X) ==
  \E n \in 1 .. Len(h) - 2 :
    /\ h[n] \in N
    /\ n = 1 \/ (2 < n /\ h[n - 2] = "CR" /\ h[n - 1] = "LF")
    /\ \A i \in 1 .. Len(h) : h[i] \in N => i = n
    /\ \A x \in X : \E i \in n + 1 .. Len(h) - 2 : h[i] = x

Unnamed(h, N) == \A i \in 1 .. Len(h) : h[i] \notin N

\* A header line names one field and no other.
LEMMA LineIs ==
  ASSUME NEW f, NEW n, NEW V, HeaderLine(f, n, V), n \notin Blanks, n # "LF", n # "CR",
         NEW N, \A x \in V \cup Glue : x \notin N
  PROVE  /\ Lines(f)
         /\ n \in N => NamedBy(f, N, V)
         /\ n \notin N => Unnamed(f, N)
<1>1. /\ f \in Seq(Tokens) /\ Len(f) \in Nat /\ 4 <= Len(f) /\ f[1] = n
      /\ f[Len(f) - 1] = "CR" /\ f[Len(f)] = "LF"
      /\ \A i \in 1 .. Len(f) - 2 : f[i] = "CR" => f[i + 1] = "LF" /\ f[i + 2] # "CR"
  BY DEF HeaderLine
<1>2. \A i \in 2 .. Len(f) : f[i] \notin N
  BY DEF HeaderLine
<1>3. \A x \in V : \E i \in 1 + 1 .. Len(f) - 2 : f[i] = x
  BY DEF HeaderLine
<1>4. Lines(f)
  BY <1>1 DEF Lines
<1>5. ASSUME n \in N PROVE NamedBy(f, N, V)
  <2>1. 1 \in 1 .. Len(f) - 2 /\ f[1] \in N
    BY <1>1, <1>5
  <2>2. \A i \in 1 .. Len(f) : f[i] \in N => i = 1
    <3>1. \A i \in 1 .. Len(f) : i = 1 \/ i \in 2 .. Len(f)
      BY <1>1
    <3> QED BY <1>2, <3>1
  <2> QED BY <1>3, <2>1, <2>2 DEF NamedBy
<1>6. ASSUME n \notin N PROVE Unnamed(f, N)
  <2>1. \A i \in 1 .. Len(f) : i = 1 \/ i \in 2 .. Len(f)
    BY <1>1
  <2> QED BY <1>1, <1>2, <1>6, <2>1 DEF Unnamed
<1> QED BY <1>4, <1>5, <1>6

\* Lines behind lines are lines.
LEMMA LinesJoined ==
  ASSUME NEW r, NEW a, NEW b, Made(r, a, b), Lines(a), Lines(b)
  PROVE  Lines(r)
<1> DEFINE n == Len(a)
           k == Len(b)
<1>1. /\ r \in Seq(Tokens) /\ n \in Nat /\ k \in Nat /\ Len(r) = n + k
      /\ \A i \in 1 .. n : r[i] = a[i]
      /\ \A i \in 1 .. k : r[n + i] = b[i]
  BY DEF Made
<1>2. /\ 4 <= n /\ a[1] \notin Blanks /\ a[1] # "LF" /\ a[1] # "CR" /\ a[n - 1] = "CR" /\ a[n] = "LF"
      /\ \A i \in 1 .. n - 2 : a[i] = "CR" => a[i + 1] = "LF" /\ a[i + 2] # "CR"
  BY DEF Lines
<1>3. /\ 4 <= k /\ b[1] # "CR" /\ b[k - 1] = "CR" /\ b[k] = "LF"
      /\ \A i \in 1 .. k - 2 : b[i] = "CR" => b[i + 1] = "LF" /\ b[i + 2] # "CR"
  BY DEF Lines
<1> HIDE DEF n, k
<1>4. r[1] \notin Blanks /\ r[1] # "LF" /\ r[1] # "CR"
  <2>1. 1 \in 1 .. n
    BY <1>1, <1>2
  <2> QED BY <1>1, <1>2, <2>1
<1>5. r[Len(r) - 1] = "CR" /\ r[Len(r)] = "LF"
  <2>1. k - 1 \in 1 .. k /\ k \in 1 .. k /\ Len(r) - 1 = n + (k - 1) /\ Len(r) = n + k
    BY <1>1, <1>3
  <2> QED BY <1>1, <1>3, <2>1
<1>6. ASSUME NEW i \in 1 .. Len(r) - 2, r[i] = "CR" PROVE r[i + 1] = "LF" /\ r[i + 2] # "CR"
  <2>1. CASE i <= n - 2
    <3>1. i \in 1 .. n /\ i + 1 \in 1 .. n /\ i + 2 \in 1 .. n /\ i \in 1 .. n - 2
      BY <1>1, <2>1
    <3>2. r[i] = a[i] /\ r[i + 1] = a[i + 1] /\ r[i + 2] = a[i + 2]
      BY <1>1, <3>1
    <3> QED BY <1>2, <1>6, <3>1, <3>2
  <2>2. CASE i = n - 1
    <3>1. i + 1 = n /\ n \in 1 .. n /\ i + 2 = n + 1 /\ 1 \in 1 .. k
      BY <1>1, <1>2, <1>3, <2>2
    <3>2. r[n] = a[n] /\ r[n + 1] = b[1]
      BY <1>1, <3>1
    <3> QED BY <1>2, <1>3, <3>1, <3>2
  <2>3. CASE i = n
    <3>1. n \in 1 .. n
      BY <1>1, <1>2
    <3>2. r[n] = a[n]
      BY <1>1, <3>1
    <3> QED BY <1>2, <1>6, <2>3, <3>2
  <2>4. CASE n < i
    <3> DEFINE j == i - n
    <3>1. j \in 1 .. k - 2 /\ j \in 1 .. k /\ j + 1 \in 1 .. k /\ j + 2 \in 1 .. k
          /\ n + j = i /\ n + (j + 1) = i + 1 /\ n + (j + 2) = i + 2
      BY <1>1, <2>4
    <3> HIDE DEF j
    <3>2. r[n + j] = b[j] /\ r[n + (j + 1)] = b[j + 1] /\ r[n + (j + 2)] = b[j + 2]
      BY <1>1, <3>1
    <3>3. r[i] = b[j] /\ r[i + 1] = b[j + 1] /\ r[i + 2] = b[j + 2]
      BY <3>1, <3>2
    <3> QED BY <1>3, <1>6, <3>1, <3>3
  <2> QED BY <1>1, <2>1, <2>2, <2>3, <2>4
<1>7. Len(r) \in Nat /\ 4 <= Len(r)
  BY <1>1, <1>2
<1> QED BY <1>1, <1>4, <1>5, <1>6, <1>7 DEF Lines

\* A field named in one of them is named in both, once.
LEMMA NamedJoined ==
  ASSUME NEW r, NEW a, NEW b, Made(r, a, b), Lines(a), Lines(b), NEW N, NEW X
  PROVE  /\ NamedBy(a, N, X) /\ Unnamed(b, N) => NamedBy(r, N, X)
         /\ Unnamed(a, N) /\ NamedBy(b, N, X) => NamedBy(r, N, X)
         /\ Unnamed(a, N) /\ Unnamed(b, N) => Unnamed(r, N)
<1> DEFINE n == Len(a)
           k == Len(b)
<1>1. /\ r \in Seq(Tokens) /\ n \in Nat /\ k \in Nat /\ Len(r) = n + k /\ 4 <= n /\ 4 <= k
      /\ \A i \in 1 .. n : r[i] = a[i]
      /\ \A i \in 1 .. k : r[n + i] = b[i]
      /\ a[n - 1] = "CR" /\ a[n] = "LF"
  BY DEF Made, Lines
<1> HIDE DEF n, k
<1>2. ASSUME NEW i \in 1 .. Len(r), n < i PROVE i - n \in 1 .. k /\ r[i] = b[i - n]
  <2>1. i - n \in 1 .. k /\ n + (i - n) = i
    BY <1>1, <1>2
  <2>2. r[n + (i - n)] = b[i - n]
    BY <1>1, <2>1
  <2> QED BY <2>1, <2>2
<1>3. ASSUME NEW i \in 1 .. Len(r), ~(n < i) PROVE i \in 1 .. n /\ r[i] = a[i]
  <2>1. i \in 1 .. n
    BY <1>1, <1>3
  <2> QED BY <1>1, <2>1
<1>4. ASSUME NamedBy(a, N, X), Unnamed(b, N) PROVE NamedBy(r, N, X)
  <2>1. PICK q \in 1 .. n - 2 :
          /\ a[q] \in N /\ (q = 1 \/ (2 < q /\ a[q - 2] = "CR" /\ a[q - 1] = "LF"))
          /\ \A i \in 1 .. n : a[i] \in N => i = q
          /\ \A x \in X : \E i \in q + 1 .. n - 2 : a[i] = x
    BY <1>4 DEF NamedBy, n
  <2>2. q \in 1 .. Len(r) - 2 /\ q \in 1 .. n
    BY <1>1
  <2>3. r[q] \in N
    BY <1>1, <2>1, <2>2
  <2>4. q = 1 \/ (2 < q /\ r[q - 2] = "CR" /\ r[q - 1] = "LF")
    <3>1. ASSUME 2 < q PROVE r[q - 2] = a[q - 2] /\ r[q - 1] = a[q - 1]
      <4>1. q - 2 \in 1 .. n /\ q - 1 \in 1 .. n
        BY <1>1, <3>1
      <4> QED BY <1>1, <4>1
    <3> QED BY <2>1, <3>1
  <2>5. \A i \in 1 .. Len(r) : r[i] \in N => i = q
    <3>1. \A i \in 1 .. k : b[i] \notin N
      BY <1>4 DEF Unnamed, k
    <3> QED BY <1>2, <1>3, <2>1, <3>1
  <2>6. ASSUME NEW x \in X PROVE \E i \in q + 1 .. Len(r) - 2 : r[i] = x
    <3>1. PICK i \in q + 1 .. n - 2 : a[i] = x
      BY <2>1
    <3>2. i \in q + 1 .. Len(r) - 2 /\ i \in 1 .. n
      BY <1>1
    <3> QED BY <1>1, <3>1, <3>2
  <2> QED BY <2>2, <2>3, <2>4, <2>5, <2>6 DEF NamedBy
<1>5. ASSUME Unnamed(a, N), NamedBy(b, N, X) PROVE NamedBy(r, N, X)
  <2>1. PICK q \in 1 .. k - 2 :
          /\ b[q] \in N /\ (q = 1 \/ (2 < q /\ b[q - 2] = "CR" /\ b[q - 1] = "LF"))
          /\ \A i \in 1 .. k : b[i] \in N => i = q
          /\ \A x \in X : \E i \in q + 1 .. k - 2 : b[i] = x
    BY <1>5 DEF NamedBy, k
  <2> DEFINE s == n + q
  <2>2. s \in 1 .. Len(r) - 2 /\ q \in 1 .. k /\ 2 < s
    BY <1>1
  <2>3. r[s] \in N
    BY <1>1, <2>1, <2>2
  <2>4. r[s - 2] = "CR" /\ r[s - 1] = "LF"
    <3>1. CASE q = 1
      <4>1. s - 2 = n - 1 /\ s - 1 = n /\ n - 1 \in 1 .. n /\ n \in 1 .. n
        BY <1>1, <3>1
      <4>2. r[n - 1] = a[n - 1] /\ r[n] = a[n]
        BY <1>1, <4>1
      <4> QED BY <1>1, <4>1, <4>2
    <3>2. CASE q # 1
      <4>1. 2 < q /\ b[q - 2] = "CR" /\ b[q - 1] = "LF"
        BY <2>1, <3>2
      <4>2. q - 2 \in 1 .. k /\ q - 1 \in 1 .. k /\ n + (q - 2) = s - 2 /\ n + (q - 1) = s - 1
        BY <1>1, <4>1
      <4>3. r[n + (q - 2)] = b[q - 2] /\ r[n + (q - 1)] = b[q - 1]
        BY <1>1, <4>2
      <4> HIDE DEF s
      <4> QED BY <4>1, <4>2, <4>3
    <3> QED BY <3>1, <3>2
  <2>5. \A i \in 1 .. Len(r) : r[i] \in N => i = s
    <3>1. \A i \in 1 .. n : a[i] \notin N
      BY <1>5 DEF Unnamed, n
    <3>2. ASSUME NEW i \in 1 .. Len(r), r[i] \in N PROVE i = s
      <4>1. n < i
        BY <1>3, <3>1, <3>2
      <4>2. i - n \in 1 .. k /\ b[i - n] \in N
        BY <1>2, <3>2, <4>1
      <4>3. i - n = q
        BY <2>1, <4>2
      <4> QED BY <1>1, <4>3
    <3> QED BY <3>2
  <2>6. ASSUME NEW x \in X PROVE \E i \in s + 1 .. Len(r) - 2 : r[i] = x
    <3>1. PICK i \in q + 1 .. k - 2 : b[i] = x
      BY <2>1
    <3>2. n + i \in s + 1 .. Len(r) - 2 /\ i \in 1 .. k
      BY <1>1
    <3>3. r[n + i] = x
      BY <1>1, <3>1, <3>2
    <3> HIDE DEF s
    <3> QED BY <3>2, <3>3
  <2> HIDE DEF s
  <2> QED BY <2>2, <2>3, <2>4, <2>5, <2>6 DEF NamedBy
<1>6. ASSUME Unnamed(a, N), Unnamed(b, N) PROVE Unnamed(r, N)
  <2>1. (\A i \in 1 .. n : a[i] \notin N) /\ \A i \in 1 .. k : b[i] \notin N
    BY <1>6 DEF Unnamed, n, k
  <2> QED BY <1>2, <1>3, <2>1 DEF Unnamed
<1> QED BY <1>4, <1>5, <1>6

HeadTokens(p) == {p.type, p.charset, p.encoding} \cup Glue \cup {TypeName(p), CodeName(p)}

\* The header of a part, whichever of its fields is first and whether it is folded.
HeadIs(h, p) ==
  /\ Lines(h)
  /\ NamedBy(h, TypeNames, {p.type, p.charset})
  /\ IF p.encoding = "none" THEN Unnamed(h, EncodingNames) ELSE NamedBy(h, EncodingNames, {p.encoding})
  /\ \A i \in 1 .. Len(h) : h[i] \in HeadTokens(p)

\* The glue names no field.
LEMMA GlueNames == \A x \in Glue : x \notin TypeNames /\ x \notin EncodingNames
<1>1. /\ Space \notin TypeNames /\ Space \notin EncodingNames
      /\ Semicolon \notin TypeNames /\ Semicolon \notin EncodingNames
  BY Zenon DEF Space, Semicolon, TypeNames, EncodingNames
<1>2. /\ "CR" \notin TypeNames /\ "CR" \notin EncodingNames
      /\ "LF" \notin TypeNames /\ "LF" \notin EncodingNames
  BY Zenon DEF TypeNames, EncodingNames
<1> QED BY <1>1, <1>2 DEF Glue

\* The tokens of a header line.
LEMMA LineTokens ==
  ASSUME NEW f, NEW n, NEW V, HeaderLine(f, n, V)
  PROVE  \A i \in 1 .. Len(f) : f[i] \in V \cup Glue \cup {n}
<1>1. Len(f) \in Nat /\ f[1] = n /\ \A i \in 2 .. Len(f) : f[i] \in V \cup Glue
  BY DEF HeaderLine
<1>2. \A i \in 1 .. Len(f) : i = 1 \/ i \in 2 .. Len(f)
  BY <1>1
<1> QED BY <1>1, <1>2

\* The line of the type field, as header lines,
LEMMA TypeLineIs ==
  ASSUME NEW p, PartIs(p), NEW f, HeaderLine(f, TypeName(p), {p.type, p.charset})
  PROVE  /\ Lines(f) /\ NamedBy(f, TypeNames, {p.type, p.charset}) /\ Unnamed(f, EncodingNames)
         /\ \A i \in 1 .. Len(f) : f[i] \in HeadTokens(p)
<1> DEFINE V == {p.type, p.charset}
<1>1. p.type \in Words /\ p.charset \in Words
  BY DEF PartIs
<1>2. \A x \in V : x \notin TypeNames /\ x \notin EncodingNames
  BY <1>1, WordIs
<1>3. \A i \in 1 .. Len(f) : f[i] \in HeadTokens(p)
  <2>1. \A i \in 1 .. Len(f) : f[i] \in V \cup Glue \cup {TypeName(p)}
    BY LineTokens
  <2>2. V \cup Glue \cup {TypeName(p)} \subseteq HeadTokens(p)
    BY DEF HeadTokens
  <2> HIDE DEF V
  <2> QED BY <2>1, <2>2
<1>6. HeaderLine(f, TypeName(p), V)
  OBVIOUS
<1> HIDE DEF V
<1>4. Lines(f) /\ NamedBy(f, TypeNames, V)
  <2>1. \A x \in V \cup Glue : x \notin TypeNames
    BY <1>2, GlueNames
  <2> QED BY <1>6, <2>1, NamesAre, LineIs
<1>5. Unnamed(f, EncodingNames)
  <2>1. \A x \in V \cup Glue : x \notin EncodingNames
    BY <1>2, GlueNames
  <2> QED BY <1>6, <2>1, NamesAre, LineIs
<1> QED BY <1>3, <1>4, <1>5 DEF V

\* and that of the encoding field.
LEMMA CodeLineIs ==
  ASSUME NEW p, PartIs(p), p.encoding # "none", NEW f, HeaderLine(f, CodeName(p), {p.encoding})
  PROVE  /\ Lines(f) /\ NamedBy(f, EncodingNames, {p.encoding}) /\ Unnamed(f, TypeNames)
         /\ \A i \in 1 .. Len(f) : f[i] \in HeadTokens(p)
<1> DEFINE V == {p.encoding}
<1>1. p.encoding \in Words
  BY DEF PartIs
<1>2. \A x \in V : x \notin TypeNames /\ x \notin EncodingNames
  BY <1>1, WordIs
<1>3. \A i \in 1 .. Len(f) : f[i] \in HeadTokens(p)
  <2>1. \A i \in 1 .. Len(f) : f[i] \in V \cup Glue \cup {CodeName(p)}
    BY LineTokens
  <2>2. V \cup Glue \cup {CodeName(p)} \subseteq HeadTokens(p)
    BY DEF HeadTokens
  <2> HIDE DEF V
  <2> QED BY <2>1, <2>2
<1>6. HeaderLine(f, CodeName(p), V)
  OBVIOUS
<1> HIDE DEF V
<1>4. Lines(f) /\ NamedBy(f, EncodingNames, V)
  <2>1. \A x \in V \cup Glue : x \notin EncodingNames
    BY <1>2, GlueNames
  <2> QED BY <1>6, <2>1, NamesAre, LineIs
<1>5. Unnamed(f, TypeNames)
  <2>1. \A x \in V \cup Glue : x \notin TypeNames
    BY <1>2, GlueNames
  <2> QED BY <1>6, <2>1, NamesAre, LineIs
<1> QED BY <1>3, <1>4, <1>5 DEF V

\* The tokens of a joined text are those of its parts.
LEMMA TokensJoined ==
  ASSUME NEW r, NEW a, NEW b, Made(r, a, b), NEW H, \A i \in 1 .. Len(a) : a[i] \in H,
         \A i \in 1 .. Len(b) : b[i] \in H
  PROVE  \A i \in 1 .. Len(r) : r[i] \in H
<1> DEFINE n == Len(a)
           k == Len(b)
<1>1. /\ n \in Nat /\ k \in Nat /\ Len(r) = n + k
      /\ \A i \in 1 .. n : r[i] = a[i]
      /\ \A i \in 1 .. k : r[n + i] = b[i]
  BY DEF Made
<1>3. (\A i \in 1 .. n : a[i] \in H) /\ \A i \in 1 .. k : b[i] \in H
  OBVIOUS
<1> HIDE DEF n, k
<1>2. ASSUME NEW i \in 1 .. Len(r) PROVE r[i] \in H
  <2>1. CASE i <= n
    <3>1. i \in 1 .. n
      BY <1>1, <2>1
    <3> QED BY <1>1, <1>3, <3>1
  <2>2. CASE n < i
    <3>1. i - n \in 1 .. k /\ n + (i - n) = i
      BY <1>1, <2>2
    <3>2. r[n + (i - n)] = b[i - n]
      BY <1>1, <3>1
    <3> QED BY <1>3, <3>1, <3>2
  <2> QED BY <1>1, <2>1, <2>2
<1> QED BY <1>2

\* Two header lines, in either order, are the header of a part.
LEMMA HeadOfTwo ==
  ASSUME NEW p, PartIs(p), p.encoding # "none", NEW f, NEW g, HeaderLine(f, TypeName(p), {p.type, p.charset}),
         HeaderLine(g, CodeName(p), {p.encoding}), NEW r, Made(r, f, g) \/ Made(r, g, f)
  PROVE  HeadIs(r, p)
<1> DEFINE V == {p.type, p.charset}
           W == {p.encoding}
           H == HeadTokens(p)
<1>1. Lines(f) /\ NamedBy(f, TypeNames, V) /\ Unnamed(f, EncodingNames) /\ \A i \in 1 .. Len(f) : f[i] \in H
  BY TypeLineIs
<1>2. Lines(g) /\ NamedBy(g, EncodingNames, W) /\ Unnamed(g, TypeNames) /\ \A i \in 1 .. Len(g) : g[i] \in H
  BY CodeLineIs
<1> HIDE DEF V, W, H
<1>3. Lines(r)
  BY <1>1, <1>2, LinesJoined
<1>4. NamedBy(r, TypeNames, V) /\ NamedBy(r, EncodingNames, W)
  BY <1>1, <1>2, NamedJoined
<1>5. \A i \in 1 .. Len(r) : r[i] \in H
  BY <1>1, <1>2, TokensJoined
<1> QED BY <1>3, <1>4, <1>5 DEF HeadIs, V, W, H

\* The fields of a part as they are sent, and unfolded up to any place.
LEMMA HeadTill ==
  ASSUME NEW p, PartIs(p), NEW e \in Int
  PROVE  HeadIs(PartFields(p), p) /\ HeadIs(Till(e, PartFields(p)), p)
<1> DEFINE f == TypeField(p)
           g == CodeField(p)
           h == PartFields(p)
           V == {p.type, p.charset}
           W == {p.encoding}
<1>1. h = IF ~p.lower /\ p.typeLast THEN Cat(g, f) ELSE Cat(f, g)
  <2>1. CASE p.lower
    BY <2>1, Zenon DEF PartFields, TypeField, CodeField, TypeName, CodeName, LowerType, LowerCode, Cat
  <2>2. CASE ~p.lower
    BY <2>2, Zenon DEF PartFields, TypeField, CodeField, TypeName, CodeName, TitleType, TitleCode, Cat
  <2> QED BY <2>1, <2>2
<1>2. HeaderLine(f, TypeName(p), V) /\ \A d \in Int : HeaderLine(Till(d, f), TypeName(p), V)
  BY TypeFieldTill
<1>3. f \in Seq(Tokens) /\ f[1] = TypeName(p) /\ \A d \in Int : Till(d, f) \in Seq(Tokens)
  <2> HIDE DEF f, V
  <2> QED BY <1>2 DEF HeaderLine
<1>4. CASE p.encoding = "none"
  <2>1. g = <<>>
    BY <1>4 DEF CodeField, Encoding
  <2>2. h = f
    <3> HIDE DEF f, g, h
    <3>1. Cat(<<>>, f) = f /\ Cat(f, <<>>) = f
      BY <1>3 DEF Cat
    <3> QED BY <1>1, <2>1, <3>1
  <2>3. ASSUME NEW r, HeaderLine(r, TypeName(p), V) PROVE HeadIs(r, p)
    BY <1>4, <2>3, TypeLineIs DEF HeadIs
  <2> HIDE DEF f, V, h
  <2>4. HeadIs(f, p) /\ HeadIs(Till(e, f), p)
    BY <1>2, <2>3
  <2>5. HeadIs(h, p) /\ HeadIs(Till(e, h), p)
    BY <2>2, <2>4
  <2> QED BY <2>5 DEF h
<1>5. CASE p.encoding # "none"
  <2>1. HeaderLine(g, CodeName(p), W) /\ \A d \in Int : Till(d, g) = g
    BY <1>5, CodeFieldTill
  <2>2. g \in Seq(Tokens) /\ g[1] = CodeName(p)
    <3> HIDE DEF g, W
    <3> QED BY <2>1 DEF HeaderLine
  <2>3. ASSUME NEW x, HeaderLine(x, TypeName(p), V), NEW r, Made(r, x, g) \/ Made(r, g, x) PROVE HeadIs(r, p)
    BY <1>5, <2>1, <2>3, HeadOfTwo
  <2> HIDE DEF f, g, V, W, h
  <2>4. CASE ~p.lower /\ p.typeLast
    <3>1. h = g \o f
      BY <1>1, <2>4 DEF Cat
    <3>2. Made(g \o f, g, f)
      BY <1>3, <2>2, MadeOf
    <3>3. HeadIs(h, p)
      BY <1>2, <2>3, <3>1, <3>2
    <3>4. Apart(e, g, f)
      BY <1>3, NamesAre DEF Apart
    <3>5. e - Len(g) \in Int /\ Till(e, g \o f) = Till(e, g) \o Till(e - Len(g), f)
      BY <1>3, <2>2, <3>4, TillJoined
    <3> DEFINE x == Till(e - Len(g), f)
    <3>6. x \in Seq(Tokens) /\ HeaderLine(x, TypeName(p), V)
      BY <1>2, <1>3, <3>5
    <3>7. Till(e, h) = g \o x
      BY <2>1, <3>1, <3>5
    <3> HIDE DEF x
    <3>8. Made(g \o x, g, x)
      BY <2>2, <3>6, MadeOf
    <3>9. HeadIs(Till(e, h), p)
      BY <2>3, <3>6, <3>7, <3>8
    <3> QED BY <3>3, <3>9 DEF h
  <2>5. CASE ~(~p.lower /\ p.typeLast)
    <3>1. h = f \o g
      BY <1>1, <2>5 DEF Cat
    <3>2. Made(f \o g, f, g)
      BY <1>3, <2>2, MadeOf
    <3>3. HeadIs(h, p)
      BY <1>2, <2>3, <3>1, <3>2
    <3>4. Apart(e, f, g)
      BY <2>2, NamesAre DEF Apart
    <3>5. e - Len(f) \in Int /\ Till(e, f \o g) = Till(e, f) \o Till(e - Len(f), g)
      BY <1>3, <2>2, <3>4, TillJoined
    <3> DEFINE x == Till(e, f)
    <3>6. x \in Seq(Tokens) /\ HeaderLine(x, TypeName(p), V)
      BY <1>2, <1>3
    <3>7. Till(e, h) = x \o g
      BY <2>1, <3>1, <3>5
    <3> HIDE DEF x
    <3>8. Made(x \o g, x, g)
      BY <2>2, <3>6, MadeOf
    <3>9. HeadIs(Till(e, h), p)
      BY <2>3, <3>6, <3>7, <3>8
    <3> QED BY <3>3, <3>9 DEF h
  <2> QED BY <2>4, <2>5
<1> QED BY <1>4, <1>5

-----------------------------------------------------------------------------
(* Entering a part.                                                        *)

\* Both names are there, and no other name of a field.
LEMMA NamesThere ==
  ASSUME NEW p, PartIs(p), NEW h, HeadIs(h, p)
  PROVE  /\ \E n \in 1 .. Len(h) : h[n] = TypeName(p)
         /\ p.encoding # "none" => \E n \in 1 .. Len(h) : h[n] = CodeName(p)
<1>1. /\ p.type \in Words /\ p.charset \in Words
      /\ p.encoding \in TypeNames \cup EncodingNames => p.encoding = "none"
  <2>1. p.encoding = "none" \/ p.encoding \in Words
    BY DEF PartIs
  <2> QED BY <2>1, WordIs DEF PartIs
<1>2. "none" \notin TypeNames /\ "none" \notin EncodingNames
  BY Zenon DEF TypeNames, EncodingNames
<1>3. /\ \A x \in HeadTokens(p) : x \in TypeNames => x = TypeName(p)
      /\ \A x \in HeadTokens(p) : x \in EncodingNames => x = CodeName(p)
  BY <1>1, <1>2, WordIs, GlueNames, NamesAre DEF HeadTokens
<1>4. \E n \in 1 .. Len(h) : h[n] = TypeName(p)
  <2>1. PICK n \in 1 .. Len(h) - 2 : h[n] \in TypeNames
    BY DEF HeadIs, NamedBy
  <2>2. Len(h) \in Nat /\ \A i \in 1 .. Len(h) : h[i] \in HeadTokens(p)
    BY DEF HeadIs, Lines
  <2>3. n \in 1 .. Len(h)
    BY <2>2
  <2> QED BY <1>3, <2>1, <2>2, <2>3
<1>5. ASSUME p.encoding # "none" PROVE \E n \in 1 .. Len(h) : h[n] = CodeName(p)
  <2>1. PICK n \in 1 .. Len(h) - 2 : h[n] \in EncodingNames
    BY <1>5 DEF HeadIs, NamedBy
  <2>2. Len(h) \in Nat /\ \A i \in 1 .. Len(h) : h[i] \in HeadTokens(p)
    BY DEF HeadIs, Lines
  <2>3. n \in 1 .. Len(h)
    BY <2>2
  <2> QED BY <1>3, <2>1, <2>2, <2>3
<1> QED BY <1>4, <1>5

\* The later of two places is no later than a place that neither is behind.
LEMMA LaterOf ==
  ASSUME NEW x \in Nat, NEW y \in Nat, NEW e, e = LastOf[{x, y}], NEW k \in Nat, x <= k, y <= k
  PROVE  e \in Nat /\ e <= k
<1> DEFINE T == {x, y}
<1>1. T \subseteq 0 .. k /\ \A j \in T : j \in Nat /\ j <= k
  OBVIOUS
<1>2. e = LastOf[T]
  OBVIOUS
<1>4. T # {}
  OBVIOUS
<1> HIDE DEF T
<1>3. \/ T = {} /\ LastOf[T] = 0
      \/ LastOf[T] \in T /\ \A j \in T : j <= LastOf[T]
  BY <1>1, LastOfIs
<1>5. e \in T
  BY <1>2, <1>3, <1>4
<1> QED BY <1>1, <1>5

\* Where unfold_headers_mime() stops when the part has both fields.
LEMMA EndOfFields ==
  ASSUME NEW p, PartIs(p), ~p.lower, p.encoding # "none", NEW h, HeadIs(h, p),
         NEW r, NEW l, NEW x, Made(r, l, x), NEW y, Made(x, h, y)
  PROVE  UnfoldEnd(r) \in Nat /\ UnfoldEnd(r) <= Len(l) + Len(h)
<1> DEFINE n == Len(l)
           k == Len(h)
           u == Find(<<TitleType>>, r, 1)
           w == Find(<<TitleCode>>, r, 1)
<1>1. /\ r \in Seq(Tokens) /\ n \in Nat /\ k \in Nat /\ Len(x) \in Nat /\ Len(y) \in Nat
      /\ Len(r) = n + Len(x) /\ Len(x) = k + Len(y)
      /\ \A i \in 1 .. Len(x) : r[n + i] = x[i]
      /\ \A i \in 1 .. k : x[i] = h[i]
  BY DEF Made
<1>2. PICK i \in 1 .. k : h[i] = TitleType
  BY NamesThere DEF TypeName
<1>3. PICK j \in 1 .. k : h[j] = TitleCode
  BY NamesThere DEF CodeName
<1> HIDE DEF n, k
<1>4. /\ n + i \in 1 .. Len(r) /\ r[n + i] = TitleType /\ n + i <= n + k
      /\ n + j \in 1 .. Len(r) /\ r[n + j] = TitleCode /\ n + j <= n + k
  <2>1. i \in 1 .. Len(x) /\ j \in 1 .. Len(x)
    BY <1>1
  <2>2. n + i \in 1 .. Len(r) /\ n + i <= n + k /\ n + j \in 1 .. Len(r) /\ n + j <= n + k
    BY <1>1
  <2> QED BY <1>1, <1>2, <1>3, <2>1, <2>2
<1>5. u \in 1 .. n + i
  <2>1. 1 \in Nat /\ 1 <= 1
    OBVIOUS
  <2> QED BY <1>1, <1>4, <2>1, FindBefore
<1>6. w \in 1 .. n + j
  <2>1. 1 \in Nat /\ 1 <= 1
    OBVIOUS
  <2> QED BY <1>1, <1>4, <2>1, FindBefore
<1>7. u \in Nat /\ w \in Nat /\ u # 0 /\ u <= n + k /\ w <= n + k /\ n + k \in Nat
  <2> HIDE DEF u, w
  <2> QED BY <1>1, <1>4, <1>5, <1>6
<1>8. UnfoldEnd(r) = IF {u, w} = {0} THEN Len(r) + 1 ELSE LastOf[{u, w}]
  <2>1. {Find(<<z>>, r, 1) : z \in {TitleType, TitleCode}} = {u, w}
    OBVIOUS
  <2> QED BY <2>1, Zenon DEF UnfoldEnd, TitleType, TitleCode
<1> HIDE DEF u, w
<1>9. UnfoldEnd(r) = LastOf[{u, w}]
  BY <1>7, <1>8
<1>10. UnfoldEnd(r) \in Nat /\ UnfoldEnd(r) <= n + k
  BY <1>7, <1>9, LaterOf
<1> QED BY <1>10 DEF n, k

\* What follows the blank line of the first part.
FromBody(m) == Cat(m.parts[1].body, Cat(Eol, Later(m)))

\* What follows the delimiter line of the first part: its fields, a blank line, its body.
LEMMA TailIs ==
  ASSUME NEW m \in Multiparts, m.parts # <<>>
  PROVE  /\ PartIs(m.parts[1]) /\ PartFields(m.parts[1]) \in Seq(Tokens)
         /\ m.parts[1].body \in Seq(Tokens) /\ Later(m) \in Seq(Tokens) /\ Eol \in Seq(Tokens)
         /\ FromBody(m) \in Seq(Tokens) /\ FromBody(m) # <<>>
         /\ Rest(m) = Cat(PartFields(m.parts[1]), Cat(Eol, FromBody(m)))
         /\ IF m.parts[1].body = <<>> THEN FromBody(m)[1] = "CR" ELSE FromBody(m)[1] = m.parts[1].body[1]
<1> DEFINE p == m.parts[1]
           F == PartFields(p)
           b == p.body
           y == Later(m)
           x == Cat(Eol, y)
           t == Cat(b, x)
<1>1. PartIs(p) /\ y \in Seq(Sayable)
  BY PartsIs
<1>2. F \in Seq(Sayable) /\ b \in Seq(Sayable) /\ Sayable \subseteq Tokens
  BY <1>1, PartFieldsTokens, SayableTokens DEF PartIs, Sayable
<1>3. Rest(m) = Cat(F, Cat(Eol, t)) /\ FromBody(m) = t
  BY Zenon DEF Rest, FromBody, Cat
<1> HIDE DEF p, F, b, y, t
<1>4. F \in Seq(Tokens) /\ b \in Seq(Tokens) /\ y \in Seq(Tokens)
  BY <1>1, <1>2, Within
<1>5. Eol \in Seq(Tokens) /\ Len(Eol) = 2 /\ Eol[1] = "CR"
  BY EolIs
<1>6. Made(x, Eol, y)
  BY <1>4, <1>5, MadeOf DEF Cat
<1> HIDE DEF x
<1>7. x \in Seq(Tokens) /\ x[1] = "CR" /\ 1 \in 1 .. Len(x) /\ x # <<>>
  <2>1. x \in Seq(Tokens) /\ x[1] = "CR"
    BY <1>5, <1>6 DEF Made
  <2>2. 2 <= Len(x)
    BY <1>5, <1>6 DEF Made
  <2> QED BY <2>1, <2>2
<1>8. Made(t, b, x)
  BY <1>4, <1>7, MadeOf DEF Cat, t
<1>9. CASE b = <<>>
  <2>1. t = x
    BY <1>7, <1>9 DEF t, Cat
  <2> QED BY <1>1, <1>3, <1>4, <1>5, <1>7, <1>9, <2>1 DEF p, F, b, y
<1>10. CASE b # <<>>
  <2>1. 1 \in 1 .. Len(b) /\ Len(b) \in Nat
    BY <1>4, <1>10, NotEmpty
  <2>2. t \in Seq(Tokens) /\ t[1] = b[1]
    BY <1>8, <2>1 DEF Made
  <2>3. t # <<>>
    <3>1. 1 <= Len(t)
      BY <1>8, <2>1 DEF Made
    <3> QED BY <2>2, <3>1
  <2> QED BY <1>1, <1>3, <1>4, <1>5, <1>10, <2>2, <2>3 DEF p, F, b, y
<1> QED BY <1>9, <1>10

LineRestIs(l) == l \in Seq(Tokens) /\ Len(l) \in 1 .. 2 /\ l[Len(l)] = "LF" /\ l[1] # "--"
                 /\ (Len(l) = 2 => l[1] = "CR")

\* The line that the delimiter ends in is over at the first line feed.
LEMMA LineRestTyped ==
  ASSUME NEW m
  PROVE  LineRestIs(LineRest(m))
<1>1. CASE m.quoted
  <2>1. LineRest(m) = Eol
    BY <1>1 DEF LineRest
  <2>2. Eol \in Seq(Tokens) /\ Len(Eol) = 2 /\ Eol[1] = "CR" /\ Eol[2] = "LF"
    BY EolIs
  <2> QED BY <2>1, <2>2 DEF LineRestIs
<1>2. CASE ~m.quoted
  <2> DEFINE l == <<"LF">>
  <2>1. LineRest(m) = l
    BY <1>2 DEF LineRest
  <2>2. "LF" \in Tokens
    BY FrameTokens
  <2>3. l \in Seq(Tokens) /\ Len(l) = 1 /\ l[1] = "LF"
    BY <2>2
  <2> HIDE DEF l
  <2> QED BY <2>1, <2>3 DEF LineRestIs
<1> QED BY <1>1, <1>2

\* The body stays folded when the header has both fields, in title case.
WholeFrom(m, d) == ~m.parts[1].lower /\ m.parts[1].encoding # "none" => d <= 1

\* The first part with its header unfolded.
LEMMA PartTill ==
  ASSUME NEW m \in Multiparts, m.parts # <<>>, ~FoldsIntoBody(m.parts[1]),
         NEW r, r = Cat(LineRest(m), Rest(m)), NEW e, e = UnfoldEnd(r)
  PROVE  \E h \in Seq(Tokens) : \E d \in Int :
           /\ Till(e, r) = Cat(LineRest(m), Cat(h, Cat(Eol, Till(d, FromBody(m)))))
           /\ r \in Seq(Tokens) /\ e \in Int
           /\ HeadIs(h, m.parts[1])
           /\ WholeFrom(m, d)
<1> DEFINE p == m.parts[1]
           l == LineRest(m)
           F == PartFields(p)
           t == FromBody(m)
           s == Cat(Eol, t)
           x == Cat(F, s)
<1>1. /\ PartIs(p) /\ F \in Seq(Tokens) /\ Eol \in Seq(Tokens) /\ t \in Seq(Tokens) /\ t # <<>>
      /\ r = Cat(l, x) /\ ~FoldsIntoBody(p)
      /\ IF p.body = <<>> THEN t[1] = "CR" ELSE t[1] = p.body[1]
  BY TailIs, Zenon
<1>2. l \in Seq(Tokens) /\ Len(l) \in 1 .. 2 /\ l[Len(l)] = "LF"
  BY LineRestTyped DEF LineRestIs
<1>3. Len(Eol) = 2 /\ Eol[1] = "CR" /\ Eol[2] = "LF"
  BY EolIs
<1> HIDE DEF p, l, F, t
<1>4. Made(s, Eol, t)
  BY <1>1, MadeOf DEF Cat
<1>5. s \in Seq(Tokens) /\ s[1] = "CR"
  <2> HIDE DEF s
  <2> QED BY <1>3, <1>4 DEF Made
<1>6. Made(x, F, s)
  <2> HIDE DEF s
  <2> QED BY <1>1, <1>5, MadeOf DEF Cat
<1> HIDE DEF s
<1>7. HeadIs(F, p) /\ \A d \in Int : HeadIs(Till(d, F), p)
  BY <1>1, HeadTill DEF F
<1>8. /\ F[1] \notin Blanks /\ F[1] # "LF" /\ F[1] # "CR" /\ 4 <= Len(F) /\ Len(F) \in Nat
      /\ F[Len(F)] = "LF"
  BY <1>7 DEF HeadIs, Lines
<1>9. x \in Seq(Tokens) /\ x[1] = F[1]
  <2>1. 1 \in 1 .. Len(F)
    BY <1>8
  <2> HIDE DEF x
  <2> QED BY <1>6, <2>1 DEF Made
<1>10. Made(r, l, x)
  <2> HIDE DEF x
  <2> QED BY <1>1, <1>2, <1>9, MadeOf DEF Cat
<1>11. r \in Seq(Tokens) /\ e \in Int
  <2> HIDE DEF x
  <2> QED BY <1>10, UnfoldEndTyped DEF Made
<1> DEFINE e1 == e - Len(l)
           e2 == e1 - Len(F)
           e3 == e2 - 2
<1>12. e1 \in Int /\ e2 \in Int /\ e3 \in Int
  BY <1>2, <1>8, <1>11
<1>13. ~p.lower /\ p.encoding # "none" => e2 < 2
  <2>1. ASSUME ~p.lower, p.encoding # "none" PROVE e <= Len(l) + Len(F)
    <3> HIDE DEF x
    <3> QED BY <1>1, <1>6, <1>7, <1>10, <2>1, EndOfFields
  <2>2. Len(l) \in Nat
    BY <1>2
  <2> QED BY <1>8, <1>11, <2>1, <2>2
<1>14. Till(e, r) = Cat(l, Till(e1, x))
  <2> HIDE DEF x, e1
  <2>1. Apart(e, l, x)
    BY <1>8, <1>9 DEF Apart
  <2>2. e - Len(l) = e1 /\ r = l \o x
    BY <1>1 DEF e1, Cat
  <2>3. Till(e, l \o x) = Till(e, l) \o Till(e - Len(l), x)
    BY <1>2, <1>9, <1>11, <2>1, TillJoined
  <2>4. Till(e, l) = l
    <3>1. \A i \in 1 .. Len(l) - 2 : FALSE
      BY <1>2
    <3> QED BY <1>2, <1>11, <3>1, TillKept
  <2> QED BY <2>2, <2>3, <2>4 DEF Cat
<1>15. Till(e1, x) = Cat(Till(e1, F), Till(e2, s))
  <2> HIDE DEF e1, e2
  <2>1. Apart(e1, F, s)
    BY <1>5, GlueIs DEF Apart
  <2>2. e1 - Len(F) = e2 /\ x = F \o s
    BY DEF e2, Cat
  <2> HIDE DEF x
  <2>3. Till(e1, F \o s) = Till(e1, F) \o Till(e1 - Len(F), s)
    BY <1>1, <1>5, <1>12, <2>1, TillJoined
  <2> QED BY <2>2, <2>3 DEF Cat
<1>16. Till(e2, s) = Cat(Eol, Till(e3, t))
  <2> HIDE DEF x, e1, e2, e3
  <2>1. Apart(e2, Eol, t)
    <3>1. t[1] \notin Blanks \/ e2 < 2
      <4>1. CASE p.body = <<>>
        BY <1>1, <4>1, GlueIs
      <4>2. CASE p.body # <<>>
        BY <1>1, <1>13, <4>2 DEF FoldsIntoBody
      <4> QED BY <4>1, <4>2
    <3> DEFINE a == Eol
    <3>2. a # <<>>
      <4>1. Len(a) = 2
        BY <1>3
      <4> HIDE DEF a
      <4> QED BY <4>1
    <3>3. Len(a) = 2 /\ a[2] = "LF"
      BY <1>3
    <3> HIDE DEF a
    <3>4. Apart(e2, a, t)
      BY <3>1, <3>2, <3>3 DEF Apart
    <3> QED BY <3>4 DEF a
  <2>2. e2 - Len(Eol) = e3 /\ s = Eol \o t
    BY <1>3 DEF e3, s, Cat
  <2>3. Till(e2, Eol \o t) = Till(e2, Eol) \o Till(e2 - Len(Eol), t)
    BY <1>1, <1>12, <2>1, TillJoined
  <2>4. Till(e2, Eol) = Eol
    <3>1. \A i \in 1 .. Len(Eol) - 2 : FALSE
      BY <1>3
    <3> QED BY <1>1, <1>12, <3>1, TillKept
  <2> QED BY <2>2, <2>3, <2>4 DEF Cat
<1> DEFINE h == Till(e1, F)
           z == Till(e3, t)
<1>17. h \in Seq(Tokens) /\ z \in Seq(Tokens) /\ HeadIs(h, p)
  <2> HIDE DEF x, e1, e2, e3
  <2> QED BY <1>1, <1>7, <1>12, TillTyped, WrittenTokens
<1>18. WholeFrom(m, e3)
  <2>1. ASSUME ~p.lower, p.encoding # "none" PROVE e3 <= 1
    BY <1>12, <1>13, <2>1
  <2> QED BY <2>1 DEF WholeFrom, p
<1>19. Till(e, r) = Cat(l, Cat(h, Cat(Eol, z)))
  BY <1>14, <1>15, <1>16
<1> HIDE DEF h, x, e1, e2, e3
<1> QED BY <1>11, <1>12, <1>17, <1>18, <1>19 DEF p, l, t, z

-----------------------------------------------------------------------------
(* Reading the header of a part.                                           *)

BlankLine4 == Eol \o Eol

\* A blank line, token by token.
LEMMA BlankLineAt ==
  ASSUME NEW t \in Seq(Tokens), NEW i \in Nat, 1 <= i
  PROVE  BeginsAt(BlankLine4, t, i) <=>
           /\ i + 3 <= Len(t)
           /\ t[i] = "CR" /\ t[i + 1] = "LF" /\ t[i + 2] = "CR" /\ t[i + 3] = "LF"
<1> DEFINE d == BlankLine4
<1>1. Eol \in Seq(Tokens) /\ Len(Eol) = 2 /\ Eol[1] = "CR" /\ Eol[2] = "LF"
  BY EolIs
<1>2. Made(d, Eol, Eol)
  BY <1>1, MadeOf DEF BlankLine4
<1> HIDE DEF d
<1>3. d \in Seq(Tokens) /\ d[1] = "CR" /\ d[2] = "LF" /\ d[2 + 1] = "CR" /\ d[2 + 2] = "LF"
  BY <1>1, <1>2 DEF Made
<1>4. Len(d) = 4
  BY <1>1, <1>2 DEF Made
<1>5. BeginsAt(d, t, i) <=> i + Len(d) - 1 <= Len(t) /\ \A q \in 1 .. Len(d) : t[i + q - 1] = d[q]
  BY <1>3, BeginsIs
<1>6. (\A q \in 1 .. Len(d) : t[i + q - 1] = d[q]) <=>
        t[i] = "CR" /\ t[i + 1] = "LF" /\ t[i + 2] = "CR" /\ t[i + 3] = "LF"
  <2>1. \A q \in 1 .. Len(d) : q = 1 \/ q = 2 \/ q = 3 \/ q = 4
    BY <1>4
  <2>2. i + 1 - 1 = i /\ i + 2 - 1 = i + 1 /\ i + 3 - 1 = i + 2 /\ i + 4 - 1 = i + 3
    OBVIOUS
  <2>3. 1 \in 1 .. Len(d) /\ 2 \in 1 .. Len(d) /\ 3 \in 1 .. Len(d) /\ 4 \in 1 .. Len(d)
    BY <1>4
  <2>4. ASSUME \A q \in 1 .. Len(d) : t[i + q - 1] = d[q]
        PROVE  t[i] = "CR" /\ t[i + 1] = "LF" /\ t[i + 2] = "CR" /\ t[i + 3] = "LF"
    <3>1. t[i + 1 - 1] = d[1] /\ t[i + 2 - 1] = d[2] /\ t[i + 3 - 1] = d[3] /\ t[i + 4 - 1] = d[4]
      BY <2>3, <2>4
    <3> QED BY <1>3, <2>2, <3>1
  <2>5. ASSUME t[i] = "CR" /\ t[i + 1] = "LF" /\ t[i + 2] = "CR" /\ t[i + 3] = "LF", NEW q \in 1 .. Len(d)
        PROVE  t[i + q - 1] = d[q]
    <3>1. CASE q = 1
      BY <1>3, <2>2, <2>5, <3>1
    <3>2. CASE q = 2
      BY <1>3, <2>2, <2>5, <3>2
    <3>3. CASE q = 3
      BY <1>3, <2>2, <2>5, <3>3
    <3>4. CASE q = 4
      BY <1>3, <2>2, <2>5, <3>4
    <3> QED BY <2>1, <3>1, <3>2, <3>3, <3>4
  <2> QED BY <2>4, <2>5
<1>7. i + Len(d) - 1 <= Len(t) <=> i + 3 <= Len(t)
  BY <1>4
<1> QED BY <1>5, <1>6, <1>7 DEF d

\* The end of the delimiter's line.
LEMMA LineEndFound ==
  ASSUME NEW t, NEW p, NEW l, NEW y, NEW r, r = Cat(l, y), Left(t, p, r), LineRestIs(l), y \in Seq(Tokens),
         NEW k, k = Find(<<"LF">>, t, p)
  PROVE  /\ k \in Nat /\ k # 0 /\ k + 1 = p + Len(l)
         /\ Left(t, k + 1, y)
<1> DEFINE n == Len(l)
           d == <<"LF">>
<1>1. l \in Seq(Tokens) /\ n \in 1 .. 2 /\ l[n] = "LF" /\ (n = 2 => l[1] = "CR")
  BY DEF LineRestIs
<1>2. Left(t, p + n, y) /\ n \in Nat /\ \A i \in 1 .. n : t[p + i - 1] = l[i]
  <2>1. Beyond(t, p, l, y)
    BY <1>1, Passed
  <2> QED BY <2>1 DEF Beyond
<1>3. t \in Seq(Tokens) /\ p \in Nat /\ 1 <= p /\ p + n \in Nat /\ Len(t) = p + n - 1 + Len(y) /\ Len(y) \in Nat
  <2>1. t \in Seq(Tokens) /\ p \in Nat /\ 1 <= p
    BY DEF Left
  <2>2. p + n \in Nat /\ Len(t) = p + n - 1 + Len(y)
    BY <1>2 DEF Left
  <2> QED BY <2>1, <2>2
<1> HIDE DEF n
<1> DEFINE e == p + n - 1
<1>4. e \in p .. Len(t) /\ t[e] = "LF" /\ e \in Nat /\ e + 1 = p + n
  <2>1. n \in 1 .. n
    BY <1>1
  <2>2. t[p + n - 1] = l[n]
    BY <1>2, <2>1
  <2> QED BY <1>1, <1>3, <2>2
<1>5. \A i \in p .. e - 1 : t[i] # "LF"
  <2>1. ASSUME NEW i \in p .. e - 1 PROVE t[i] # "LF"
    <3>1. n = 2 /\ i = p /\ 1 \in 1 .. n /\ p + 1 - 1 = p
      BY <1>1, <1>3
    <3>2. t[p + 1 - 1] = l[1]
      BY <1>2, <3>1
    <3> QED BY <1>1, <3>1, <3>2
  <2> QED BY <2>1
<1> HIDE DEF e
<1>6. d = <<"LF">>
  OBVIOUS
<1>7. k = Find(d, t, p)
  OBVIOUS
<1> HIDE DEF d
<1>8. k \in p .. e
  BY <1>3, <1>4, <1>6, <1>7, NotBehind
<1>9. k \in p .. Len(t) /\ t[k] = "LF"
  <2>1. k = 0 \/ (k \in p .. Len(t) /\ t[k] = "LF")
    BY <1>3, <1>6, <1>7, FoundIs
  <2> QED BY <1>3, <1>8, <2>1
<1>10. k = e
  <2>1. k \in Nat /\ k <= e /\ p <= k
    BY <1>3, <1>4, <1>8
  <2>2. ~(k < e)
    <3>1. ASSUME k < e PROVE FALSE
      <4>1. k \in p .. e - 1
        BY <1>3, <1>4, <2>1, <3>1
      <4> QED BY <1>5, <1>9, <4>1
    <3> QED BY <3>1
  <2> QED BY <1>4, <2>1, <2>2
<1>11. k \in Nat /\ k # 0 /\ k + 1 = p + n
  BY <1>3, <1>4, <1>10
<1> QED BY <1>2, <1>11 DEF n

\* What is read as the header of the part: its lines, without the end of the last.
HeadOf(h) == SubSeq(h, 1, Len(h) - 2)

\* parse_mime_parts() cuts the header out at the first blank line, and the body follows.
LEMMA HeadRead ==
  ASSUME NEW t, NEW q, NEW h, NEW z \in Seq(Tokens), NEW r, r = Cat(h, Cat(Eol, z)), Left(t, q, r), Lines(h),
         NEW n, n = Find(BlankLine4, t, q)
  PROVE  n \in Nat /\ n # 0 /\ Left(t, n + 4, z) /\ SubSeq(t, q, n - 1) = HeadOf(h)
<1> DEFINE k == Len(h)
           y == Cat(Eol, z)
           d == BlankLine4
           e == q + k - 2
<1>1. /\ h \in Seq(Tokens) /\ k \in Nat /\ 4 <= k /\ h[k - 1] = "CR" /\ h[k] = "LF"
      /\ \A i \in 1 .. k - 2 : h[i] = "CR" => h[i + 2] # "CR"
  BY DEF Lines
<1>2. Eol \in Seq(Tokens) /\ Len(Eol) = 2 /\ Eol[1] = "CR" /\ Eol[2] = "LF"
  BY EolIs
<1>3. y \in Seq(Tokens)
  BY <1>2 DEF Cat
<1>4. Beyond(t, q, h, y)
  BY <1>1, <1>3, Passed
<1>5. Left(t, q + k, y) /\ \A i \in 1 .. k : t[q + i - 1] = h[i]
  BY <1>4 DEF Beyond
<1>6. Beyond(t, q + k, Eol, z)
  BY <1>2, <1>5, Passed
<1>7. Left(t, q + k + 2, z) /\ t[q + k + 1 - 1] = "CR" /\ t[q + k + 2 - 1] = "LF"
  <2>1. Left(t, q + k + Len(Eol), z) /\ \A i \in 1 .. Len(Eol) : t[q + k + i - 1] = Eol[i]
    BY <1>6 DEF Beyond
  <2> QED BY <1>2, <2>1
<1>8. t \in Seq(Tokens) /\ q \in Nat /\ 1 <= q /\ q + k + 2 \in Nat /\ Len(t) = q + k + 2 - 1 + Len(z)
      /\ Len(z) \in Nat
  <2>1. t \in Seq(Tokens) /\ q \in Nat /\ 1 <= q
    BY DEF Left
  <2> DEFINE x == q + k + 2
  <2>2. Left(t, x, z)
    BY <1>7
  <2> HIDE DEF x
  <2>3. x \in Nat /\ Len(t) = x - 1 + Len(z) /\ Len(z) \in Nat
    BY <2>2 DEF Left
  <2> QED BY <2>1, <2>3 DEF x
<1>15. SubSeq(t, q, q + k - 3) = HeadOf(h)
  <2> DEFINE a == SubSeq(t, q, q + k - 3)
             b == SubSeq(h, 1, k - 2)
  <2>0. q + k - 3 <= Len(t) /\ q + k - 3 \in Int /\ q + k - 3 - q + 1 = k - 2
    BY <1>1, <1>8
  <2>1. a \in Seq(Tokens) /\ Len(a) = k - 2 /\ \A i \in 1 .. k - 2 : a[i] = t[q + i - 1]
    BY <1>1, <1>8, <2>0
  <2>2. b \in Seq(Tokens) /\ Len(b) = k - 2 /\ \A i \in 1 .. k - 2 : b[i] = h[i]
    BY <1>1
  <2>3. \A i \in 1 .. k - 2 : i \in 1 .. k
    BY <1>1
  <2> HIDE DEF a, b
  <2>4. \A i \in 1 .. Len(a) : a[i] = b[i]
    BY <1>5, <2>1, <2>2, <2>3
  <2>5. a = b
    BY <2>1, <2>2, <2>4, SeqEqual
  <2> QED BY <2>5 DEF a, b, HeadOf
<1> HIDE DEF k, y, d
<1>9. e \in Nat /\ q <= e /\ e + 3 <= Len(t) /\ e \in q .. Len(t) /\ e + 4 = q + k + 2 /\ e - 1 = q + k - 3
      /\ e # 0 /\ 1 <= e
  BY <1>1, <1>8
<1>10. t[e] = "CR" /\ t[e + 1] = "LF" /\ t[e + 2] = "CR" /\ t[e + 3] = "LF"
  <2>1. k - 1 \in 1 .. k /\ k \in 1 .. k
    BY <1>1
  <2>2. t[q + (k - 1) - 1] = "CR" /\ t[q + k - 1] = "LF"
    BY <1>1, <1>5, <2>1
  <2>3. q + (k - 1) - 1 = e /\ q + k - 1 = e + 1 /\ q + k + 1 - 1 = e + 2 /\ q + k + 2 - 1 = e + 3
    BY <1>1, <1>8
  <2> QED BY <1>7, <2>2, <2>3
<1>11. ASSUME NEW i \in q .. e - 1 PROVE ~(t[i] = "CR" /\ t[i + 2] = "CR") /\ i \in Nat /\ 1 <= i
  <2>1. i - q + 1 \in 1 .. k - 2 /\ q + (i - q + 1) - 1 = i /\ i \in Nat /\ 1 <= i
        /\ i - q + 1 \in 1 .. k /\ i - q + 1 + 2 \in 1 .. k /\ q + (i - q + 1 + 2) - 1 = i + 2
    BY <1>1, <1>8
  <2>2. t[i] = h[i - q + 1] /\ t[i + 2] = h[i - q + 1 + 2]
    BY <1>5, <2>1
  <2> QED BY <1>1, <2>1, <2>2
<1> HIDE DEF e
<1>12. BeginsAt(d, t, e)
  BY <1>8, <1>9, <1>10, BlankLineAt DEF d
<1>13. \A i \in q .. e - 1 : ~BeginsAt(d, t, i)
  BY <1>8, <1>11, BlankLineAt DEF d
<1>14. n = e
  <2>1. d \in Seq(Tokens)
    BY <1>2 DEF d, BlankLine4
  <2> QED BY <1>8, <1>9, <1>12, <1>13, <2>1, FindFirst DEF d
<1> QED BY <1>7, <1>9, <1>14, <1>15

\* The header as it is read: the beginning of its lines.
LEMMA HeadOfIs ==
  ASSUME NEW h, Lines(h)
  PROVE  /\ HeadOf(h) \in Seq(Tokens) /\ Len(h) - 2 \in Nat /\ Len(HeadOf(h)) = Len(h) - 2
         /\ DOMAIN HeadOf(h) = 1 .. Len(h) - 2
         /\ \A i \in 1 .. Len(h) - 2 : i \in 1 .. Len(h) /\ HeadOf(h)[i] = h[i]
<1>1. h \in Seq(Tokens) /\ Len(h) \in Nat /\ 4 <= Len(h)
  BY DEF Lines
<1> QED BY <1>1 DEF HeadOf

\* A line end, token by token.
LEMMA EolAt ==
  ASSUME NEW t \in Seq(Tokens), NEW i \in Nat, 1 <= i
  PROVE  BeginsAt(Eol, t, i) <=> i + 1 <= Len(t) /\ t[i] = "CR" /\ t[i + 1] = "LF"
<1> DEFINE d == Eol
<1>1. d \in Seq(Tokens) /\ Len(d) = 2 /\ d[1] = "CR" /\ d[2] = "LF"
  BY EolIs
<1> HIDE DEF d
<1>2. BeginsAt(d, t, i) <=> i + Len(d) - 1 <= Len(t) /\ \A q \in 1 .. Len(d) : t[i + q - 1] = d[q]
  <2>1. d \in Seq(Tokens) /\ i \in Nat /\ 1 <= i /\ t \in Seq(Tokens)
    BY <1>1
  <2> QED BY <2>1, BeginsIs
<1>3. i + 1 - 1 = i /\ i + 2 - 1 = i + 1
  OBVIOUS
<1>4. (\A q \in 1 .. Len(d) : t[i + q - 1] = d[q]) <=> t[i] = "CR" /\ t[i + 1] = "LF"
  <2>1. ASSUME \A q \in 1 .. Len(d) : t[i + q - 1] = d[q] PROVE t[i] = "CR" /\ t[i + 1] = "LF"
    <3>1. t[i + 1 - 1] = d[1] /\ t[i + 2 - 1] = d[2]
      BY <1>1, <2>1
    <3> QED BY <1>1, <1>3, <3>1
  <2>2. ASSUME t[i] = "CR" /\ t[i + 1] = "LF", NEW q \in 1 .. Len(d) PROVE t[i + q - 1] = d[q]
    <3>1. q = 1 \/ q = 2
      BY <1>1
    <3> QED BY <1>1, <1>3, <2>2, <3>1
  <2> QED BY <2>1, <2>2
<1>5. i + Len(d) - 1 <= Len(t) <=> i + 1 <= Len(t)
  BY <1>1
<1> QED BY <1>2, <1>4, <1>5 DEF d

\* A token is in a text.
In(x, t) == \E i \in 1 .. Len(t) : t[i] = x

\* strcasestr() finds a word in a value if it is there.
LEMMA HasIn ==
  ASSUME NEW v \in Seq(Tokens), NEW x
  PROVE  Has(v, x) <=> In(x, v)
<1> DEFINE d == <<x>>
           f == Find(d, v, 1)
<1>1. \/ f = 0 /\ \A i \in 1 .. Len(v) : v[i] # x
      \/ f \in 1 .. Len(v) /\ v[f] = x
  BY FindToken
<1>2. Has(v, x) <=> f # 0
  BY DEF Has
<1> HIDE DEF f
<1> QED BY <1>1, <1>2 DEF In

\* What is not a blank is still in the text without the blanks that it begins with.
LEMMA LeadingIn ==
  ASSUME NEW t \in Seq(Tokens), NEW v, v = WithoutLeading(Blanks, t)
  PROVE  /\ v \in Seq(Tokens)
         /\ \A x : In(x, v) => In(x, t)
         /\ \A x : x \notin Blanks /\ In(x, t) => In(x, v)
<1> DEFINE L == Len(t)
<1>1. PICK n \in 0 .. L : /\ \A i \in 1 .. n : t[i] \in Blanks
                          /\ WithoutLeading(Blanks, t) = SubSeq(t, n + 1, L)
  BY LeadingIs
<1>2. L \in Nat /\ n \in Nat /\ n <= L
  OBVIOUS
<1>3. v \in Seq(Tokens) /\ Len(v) = L - n /\ \A i \in 1 .. L - n : v[i] = t[n + i]
  <2> DEFINE u == SubSeq(t, n + 1, L)
  <2>1. u \in Seq(Tokens) /\ Len(u) = L - n /\ \A i \in 1 .. L - n : u[i] = t[n + i]
    BY <1>2
  <2>2. u = v
    BY <1>1
  <2> QED BY <2>1, <2>2
<1> HIDE DEF L
<1>4. ASSUME NEW x, In(x, v) PROVE In(x, t)
  <2>1. PICK i \in 1 .. L - n : v[i] = x
    BY <1>3, <1>4 DEF In
  <2>2. n + i \in 1 .. Len(t) /\ t[n + i] = x
    BY <1>2, <1>3, <2>1 DEF L
  <2> QED BY <2>2 DEF In
<1>5. ASSUME NEW x, x \notin Blanks, In(x, t) PROVE In(x, v)
  <2>1. PICK i \in 1 .. L : t[i] = x
    BY <1>5 DEF In, L
  <2>2. n < i
    BY <1>1, <1>2, <1>5, <2>1
  <2>3. i - n \in 1 .. L - n /\ n + (i - n) = i
    BY <1>2, <2>2
  <2>4. v[i - n] = x
    BY <1>3, <2>1, <2>3
  <2> QED BY <1>3, <2>3, <2>4 DEF In
<1> QED BY <1>3, <1>4, <1>5

\* parse_headers() finds the line of a field that is there,
LEMMA ValueNamed ==
  ASSUME NEW h, Lines(h), headers = HeadOf(h), NEW N, NEW X, NamedBy(h, N, X), NEW x
  PROVE  /\ x \in X /\ x \notin Blanks => Has(ValueOf(N), x)
         /\ Has(ValueOf(N), x) => In(x, h)
<1> DEFINE K == headers
           L == Len(h) - 2
<1>1. K \in Seq(Tokens) /\ L \in Nat /\ Len(K) = L /\ DOMAIN K = 1 .. L
      /\ \A i \in 1 .. L : i \in 1 .. Len(h) /\ K[i] = h[i]
  BY HeadOfIs
<1>2. PICK n \in 1 .. L :
        /\ h[n] \in N
        /\ n = 1 \/ (2 < n /\ h[n - 2] = "CR" /\ h[n - 1] = "LF")
        /\ \A i \in 1 .. Len(h) : h[i] \in N => i = n
        /\ \A y \in X : \E i \in n + 1 .. L : h[i] = y
  BY DEF NamedBy
<1> DEFINE T == {i \in DOMAIN K : /\ K[i] \in N
                                  /\ i = 1 \/ (i > 2 /\ BeginsAt(Eol, K, i - 2))}
           v == WithoutLeading(Blanks, From(K, n + 1))
<1>3. T \subseteq 0 .. L
  BY <1>1
<1>4. n \in T
  <2>1. K[n] \in N /\ n \in DOMAIN K
    BY <1>1, <1>2
  <2>2. ASSUME n # 1 PROVE n > 2 /\ BeginsAt(Eol, K, n - 2)
    <3>1. 2 < n /\ h[n - 2] = "CR" /\ h[n - 1] = "LF"
      BY <1>2, <2>2
    <3>2. n - 2 \in Nat /\ 1 <= n - 2 /\ n - 2 + 1 = n - 1 /\ n - 2 + 1 <= Len(K)
          /\ n - 2 \in 1 .. L /\ n - 1 \in 1 .. L
      BY <1>1, <3>1
    <3>3. K[n - 2] = "CR" /\ K[n - 2 + 1] = "LF"
      BY <1>1, <3>1, <3>2
    <3> QED BY <1>1, <3>1, <3>2, <3>3, EolAt
  <2> QED BY <2>1, <2>2
<1>5. \A i \in T : i = n
  BY <1>1, <1>2
<1>6. LastOf[T] = n
  <2> HIDE DEF T, L
  <2> QED BY <1>1, <1>3, <1>4, <1>5, LastOfIs
<1>7. ValueOf(N) = IF LastOf[T] = 0 THEN <<>> ELSE WithoutLeading(Blanks, From(K, LastOf[T] + 1))
  BY DEF ValueOf
<1>8. ValueOf(N) = v
  <2> HIDE DEF T, v, L
  <2>1. n # 0
    BY <1>1
  <2> QED BY <1>6, <1>7, <2>1 DEF v
<1> HIDE DEF T
<1> DEFINE u == From(K, n + 1)
<1>9. u \in Seq(Tokens) /\ Len(u) = L - n /\ \A i \in 1 .. L - n : u[i] = K[n + i]
  BY <1>1 DEF From
<1> HIDE DEF u, L, v
<1>10. v = WithoutLeading(Blanks, u)
  BY DEF u, v
<1>11. v \in Seq(Tokens) /\ (In(x, v) => In(x, u)) /\ (x \notin Blanks /\ In(x, u) => In(x, v))
  BY <1>9, <1>10, LeadingIn
<1>12. ASSUME x \in X PROVE In(x, u)
  <2>1. PICK i \in n + 1 .. L : h[i] = x
    BY <1>2, <1>12
  <2>2. i - n \in 1 .. L - n /\ n + (i - n) = i /\ i \in 1 .. L
    BY <1>1
  <2>3. u[i - n] = x
    BY <1>1, <1>9, <2>1, <2>2
  <2> QED BY <1>9, <2>2, <2>3 DEF In
<1>13. ASSUME In(x, u) PROVE In(x, h)
  <2>1. PICK i \in 1 .. L - n : u[i] = x
    BY <1>9, <1>13 DEF In
  <2>2. n + i \in 1 .. L
    BY <1>1
  <2>3. n + i \in 1 .. Len(h) /\ h[n + i] = x
    BY <1>1, <1>9, <2>1, <2>2
  <2> QED BY <2>3 DEF In
<1>14. Has(v, x) <=> In(x, v)
  BY <1>11, HasIn
<1> QED BY <1>8, <1>11, <1>12, <1>13, <1>14

\* and nothing for one that is not.
LEMMA ValueMissing ==
  ASSUME NEW h, Lines(h), headers = HeadOf(h), NEW N, Unnamed(h, N), NEW x
  PROVE  ~Has(ValueOf(N), x)
<1> DEFINE K == headers
           L == Len(h) - 2
           T == {i \in DOMAIN K : /\ K[i] \in N
                                  /\ i = 1 \/ (i > 2 /\ BeginsAt(Eol, K, i - 2))}
<1>1. L \in Nat /\ DOMAIN K = 1 .. L /\ \A i \in 1 .. L : i \in 1 .. Len(h) /\ K[i] = h[i]
  BY HeadOfIs
<1>2. T = {}
  BY <1>1 DEF Unnamed
<1>3. LastOf[{}] = 0
  BY LastOfIs
<1>4. ValueOf(N) = IF LastOf[T] = 0 THEN <<>> ELSE WithoutLeading(Blanks, From(K, LastOf[T] + 1))
  BY DEF ValueOf
<1> HIDE DEF T
<1>5. ValueOf(N) = <<>>
  BY <1>2, <1>3, <1>4
<1> DEFINE v == <<>>
<1>6. v \in Seq(Tokens) /\ Len(v) = 0
  OBVIOUS
<1>7. ValueOf(N) = v
  BY <1>5
<1> HIDE DEF v
<1>8. ~In(x, v)
  BY <1>6 DEF In
<1> QED BY <1>6, <1>7, <1>8, HasIn

\* The words that the code looks for in a header.
PlainText == "text/plain"
Utf8      == "charset=UTF-8"

\* They are no blanks, no glue and no names.
LEMMA SoughtIs ==
  /\ PlainText \notin Blanks \cup Glue \cup TypeNames \cup EncodingNames /\ PlainText # "none"
  /\ Utf8 \notin Blanks \cup Glue \cup TypeNames \cup EncodingNames /\ Utf8 # "none" /\ PlainText # Utf8
  /\ \A e \in Readable : e \notin Blanks \cup Glue \cup TypeNames \cup EncodingNames /\ e # "none"
<1>1. PlainText \notin Blanks \cup Glue \cup TypeNames \cup EncodingNames /\ PlainText # "none"
  BY Zenon DEF PlainText, Blanks, Glue, Space, Semicolon, TypeNames, EncodingNames
<1>2. Utf8 \notin Blanks \cup Glue \cup TypeNames \cup EncodingNames /\ Utf8 # "none" /\ PlainText # Utf8
  BY Zenon DEF Utf8, PlainText, Blanks, Glue, Space, Semicolon, TypeNames, EncodingNames
<1>3. \A e \in Readable : e \notin Blanks \cup Glue \cup TypeNames \cup EncodingNames /\ e # "none"
  <2>1. "quoted-printable" \notin Blanks \cup Glue \cup TypeNames \cup EncodingNames /\ "quoted-printable" # "none"
    BY Zenon DEF Blanks, Glue, Space, Semicolon, TypeNames, EncodingNames
  <2>2. "7bit" \notin Blanks \cup Glue \cup TypeNames \cup EncodingNames /\ "7bit" # "none"
    BY Zenon DEF Blanks, Glue, Space, Semicolon, TypeNames, EncodingNames
  <2>3. "8bit" \notin Blanks \cup Glue \cup TypeNames \cup EncodingNames /\ "8bit" # "none"
    BY Zenon DEF Blanks, Glue, Space, Semicolon, TypeNames, EncodingNames
  <2> QED BY <2>1, <2>2, <2>3 DEF Readable
<1> QED BY <1>1, <1>2, <1>3

\* parse_mime_parts() prints a part if and only if it may.
LEMMA CheckIs ==
  ASSUME NEW p, PartIs(p), NEW h, HeadIs(h, p), headers = HeadOf(h)
  PROVE  IsText /\ IsReadable <=> Printable(p)
<1> DEFINE X == {p.type, p.charset}
           B == Blanks
           G == Glue \cup {TypeName(p), CodeName(p)}
<1>1. Lines(h) /\ NamedBy(h, TypeNames, X) /\ \A i \in 1 .. Len(h) : h[i] \in {p.type, p.charset, p.encoding} \cup G
  BY DEF HeadIs, HeadTokens
<1>2. IF p.encoding = "none" THEN Unnamed(h, EncodingNames) ELSE NamedBy(h, EncodingNames, {p.encoding})
  BY DEF HeadIs
<1>3. \A x : In(x, h) => x \in {p.type, p.charset, p.encoding} \cup G
  BY <1>1 DEF In
<1>4. /\ p.charset # PlainText /\ p.encoding # PlainText /\ p.type # Utf8 /\ p.encoding # Utf8
      /\ p.type \notin Readable /\ p.charset \notin Readable
  <2>1. p.type # "charset=UTF-8" /\ p.type \notin Readable /\ p.charset # "text/plain" /\ p.charset \notin Readable
    BY Zenon DEF PartIs
  <2>2. p.encoding = "none" \/ (p.encoding # "text/plain" /\ p.encoding # "charset=UTF-8")
    BY Zenon DEF PartIs
  <2>3. "none" # "text/plain" /\ "none" # "charset=UTF-8"
    BY Zenon
  <2> QED BY <2>1, <2>2, <2>3 DEF PlainText, Utf8
<1>5. /\ PlainText \notin B /\ PlainText \notin G /\ Utf8 \notin B /\ Utf8 \notin G
      /\ \A e \in Readable : e \notin B /\ e \notin G /\ e # "none"
  BY SoughtIs, NamesAre
<1> DEFINE T == ValueOf(TypeNames)
           E == ValueOf(EncodingNames)
<1>6. IsText <=> Has(T, PlainText) /\ Has(T, Utf8)
  BY Zenon DEF IsText, PlainText, Utf8
<1>7. IsReadable <=> \E e \in Readable : Has(E, e)
  BY DEF IsReadable
<1>8. Printable(p) <=> p.type = PlainText /\ p.charset = Utf8 /\ p.encoding \in Readable
  BY Zenon DEF Printable, PlainText, Utf8
<1>9. \A x : (x \in X /\ x \notin B => Has(T, x)) /\ (Has(T, x) => In(x, h))
  BY <1>1, ValueNamed
<1>10. p.encoding # "none" =>
         \A x : (x = p.encoding /\ x \notin B => Has(E, x)) /\ (Has(E, x) => In(x, h))
  <2> SUFFICES ASSUME p.encoding # "none", NEW x
               PROVE  (x = p.encoding /\ x \notin B => Has(E, x)) /\ (Has(E, x) => In(x, h))
    OBVIOUS
  <2> DEFINE Y == {p.encoding}
  <2>1. NamedBy(h, EncodingNames, Y)
    BY <1>2
  <2>2. x = p.encoding => x \in Y
    OBVIOUS
  <2> HIDE DEF Y
  <2> QED BY <1>1, <2>1, <2>2, ValueNamed
<1>11. p.encoding = "none" => \A x : ~Has(E, x)
  BY <1>1, <1>2, ValueMissing
<1> HIDE DEF G, B, T, E
<1>12. ASSUME IsText, IsReadable PROVE p.type = PlainText /\ p.charset = Utf8 /\ p.encoding \in Readable
  <2>1. In(PlainText, h) /\ In(Utf8, h)
    BY <1>6, <1>9, <1>12
  <2>2. p.type = PlainText /\ p.charset = Utf8
    BY <1>3, <1>4, <1>5, <2>1
  <2>3. PICK e \in Readable : Has(E, e)
    BY <1>7, <1>12
  <2>4. In(e, h)
    BY <1>10, <1>11, <2>3
  <2>5. e = p.encoding
    BY <1>3, <1>4, <1>5, <2>4
  <2> QED BY <2>2, <2>5
<1>13. ASSUME p.type = PlainText, p.charset = Utf8, p.encoding \in Readable PROVE IsText /\ IsReadable
  <2>1. Has(T, PlainText) /\ Has(T, Utf8)
    BY <1>5, <1>9, <1>13
  <2>2. p.encoding # "none" /\ p.encoding \notin B
    BY <1>5, <1>13
  <2>3. Has(E, p.encoding)
    BY <1>10, <2>2
  <2> QED BY <1>6, <1>7, <1>13, <2>1, <2>3
<1> QED BY <1>8, <1>12, <1>13

-----------------------------------------------------------------------------
(* The body of the part.                                                   *)

\* A text begins with the delimiter.
Delimits(m, y) ==
  /\ y \in Seq(Tokens) /\ Len(y) \in Nat /\ 3 <= Len(y) /\ y[1] = "--" /\ y[2] = "b"
  /\ ~m.quoted => y[3] = "CR"

\* Where a part begins, and where the parts end.
PartHead(g) ==
  /\ g \in Seq(Tokens) /\ Len(g) \in Nat /\ 5 <= Len(g)
  /\ g[1] = "--" /\ g[2] = "b" /\ g[3] = "CR" /\ g[4] = "LF" /\ g[5] \notin Blanks /\ g[5] # "LF"

EndHead(g) ==
  /\ g \in Seq(Tokens) /\ Len(g) \in Nat /\ 4 <= Len(g)
  /\ g[1] = "--" /\ g[2] = "b" /\ g[3] = "--" /\ g[4] = "CR"

\* A part begins with its delimiter line, and no fold.
LEMMA PartStarts ==
  ASSUME NEW p, PartIs(p)
  PROVE  PartHead(PartText(p))
<1> DEFINE y == <<>>
           d == <<"--", "b">>
           w == Eol \o (p.body \o (Eol \o y))
           h == PartFields(p)
           z == h \o w
           x == Eol \o z
           t == PartText(p)
<1>1. y \in Seq(Sayable) /\ Sayable \subseteq Tokens
  BY EmptySeq DEF Sayable
<1>2. t \in Seq(Sayable) /\ t \o y = d \o x /\ p.body \o (Eol \o y) \in Seq(Sayable)
  <2> HIDE DEF y
  <2> QED BY <1>1, PartShape
<1>3. Eol \in Seq(Sayable) /\ d \in Seq(Sayable) /\ PartFields(p) \in Seq(Sayable)
  BY FrameSayable, PartFieldsTokens
<1>4. t \in Seq(Tokens) /\ t \o y = t
  <2>1. t \in Seq(Tokens)
    BY <1>1, <1>2, Within
  <2> HIDE DEF t
  <2> QED BY <2>1
<1>5. z \in Seq(Sayable) /\ w \in Seq(Sayable)
  <2> DEFINE u == p.body \o (Eol \o y)
             v == Eol \o u
  <2>1. u \in Seq(Sayable)
    BY <1>2
  <2> HIDE DEF u
  <2>2. v \in Seq(Sayable)
    BY <1>3, <2>1, Shifted
  <2> HIDE DEF v
  <2>3. w = v
    BY DEF u, v
  <2> HIDE DEF w
  <2>4. w \in Seq(Sayable)
    BY <2>2, <2>3
  <2>5. h \o w \in Seq(Sayable)
    BY <1>3, <2>4, Shifted
  <2> QED BY <2>4, <2>5
<1>6. Eol \in Seq(Tokens) /\ d \in Seq(Tokens) /\ z \in Seq(Tokens) /\ w \in Seq(Tokens) /\ h \in Seq(Tokens)
  <2> HIDE DEF z, d, w, h, y
  <2>1. \A u \in Seq(Sayable) : u \in Seq(Tokens)
    BY <1>1, Within
  <2>2. h \in Seq(Sayable)
    BY <1>3 DEF h
  <2> QED BY <1>3, <1>5, <2>1, <2>2
<1>7. d[1] = "--" /\ d[2] = "b" /\ Len(d) = 2
  OBVIOUS
<1>8. Len(Eol) = 2 /\ Eol[1] = "CR" /\ Eol[2] = "LF"
  BY EolIs
<1>9. t = d \o x
  BY <1>2, <1>4
<1>17. h[1] \notin Blanks /\ h[1] # "LF" /\ 4 <= Len(h)
  <2>1. 0 \in Int
    OBVIOUS
  <2>2. HeadIs(PartFields(p), p)
    BY <2>1, HeadTill
  <2> QED BY <2>2 DEF HeadIs, Lines
<1> HIDE DEF w, h
<1>18. Made(z, h, w)
  <2>1. h \in Seq(Tokens) /\ w \in Seq(Tokens)
    BY <1>6
  <2> QED BY <2>1, MadeOf
<1> HIDE DEF z, d, y, t
<1>19. z[1] = h[1] /\ 1 <= Len(z)
  <2>1. Len(h) \in Nat /\ 1 \in 1 .. Len(h)
    BY <1>17, <1>18 DEF Made
  <2> QED BY <1>18, <2>1 DEF Made
<1>10. Made(x, Eol, z)
  BY <1>6, MadeOf
<1> HIDE DEF x
<1>11. x \in Seq(Tokens) /\ x[1] = "CR" /\ x[2] = "LF" /\ x[2 + 1] = z[1]
  BY <1>8, <1>10, <1>19 DEF Made
<1>12. 3 <= Len(x)
  BY <1>8, <1>10, <1>19 DEF Made
<1>13. Made(t, d, x)
  BY <1>6, <1>9, <1>11, MadeOf
<1>14. t \in Seq(Tokens) /\ t[1] = d[1] /\ t[2] = d[2]
  BY <1>7, <1>13 DEF Made
<1>15. t[2 + 1] = x[1] /\ t[2 + 2] = x[2] /\ t[2 + 3] = x[3]
  BY <1>7, <1>12, <1>13 DEF Made
<1>16. 5 <= Len(t) /\ Len(t) \in Nat
  BY <1>7, <1>12, <1>13 DEF Made
<1>20. t[1] = "--" /\ t[2] = "b" /\ t[3] = "CR" /\ t[4] = "LF" /\ t[5] = h[1]
  BY <1>7, <1>11, <1>14, <1>15, <1>19
<1>21. PartHead(t)
  BY <1>14, <1>16, <1>17, <1>20 DEF PartHead
<1> QED BY <1>21 DEF t

\* A second part follows the first, or the end of the parts.
LEMMA LaterHead ==
  ASSUME NEW m \in Multiparts, m.parts # <<>>
  PROVE  IF Len(m.parts) = 1 THEN EndHead(Later(m)) ELSE PartHead(Later(m))
<1> DEFINE s == PartTexts(m)
           n == Len(m.parts)
           l == SubSeq(s, 2, Len(s))
           f == FlattenSeq(l)
           E == Ending
           y == Later(m)
<1>1. n \in Nat /\ 1 <= n /\ DOMAIN m.parts = 1 .. n /\ \A i \in 1 .. n : PartIs(m.parts[i])
  BY MultipartIs
<1>2. \A i \in 1 .. n : PartText(m.parts[i]) \in Seq(Tokens)
  BY <1>1, PartStarts DEF PartHead
<1>3. s \in Seq(Seq(Tokens)) /\ Len(s) = n /\ \A i \in 1 .. n : s[i] = PartText(m.parts[i])
  <2>1. s = [i \in 1 .. n |-> PartText(m.parts[i])]
    BY <1>1 DEF PartTexts
  <2> HIDE DEF s, n
  <2> QED BY <1>1, <1>2, <2>1
<1>4. E \in Seq(Tokens)
  BY FrameSayable, Within DEF Sayable
<1>5. y = f \o E
  BY DEF Later
<1> HIDE DEF s
<1>6. l \in Seq(Seq(Tokens)) /\ Len(l) = n - 1 /\ (2 <= n => l[1] = s[2])
  <2>1. Len(s) \in Int /\ Len(s) <= Len(s) /\ 2 \in Nat /\ 1 <= 2
    BY <1>1, <1>3
  <2>2. l \in Seq(Seq(Tokens)) /\ Len(l) = IF 2 <= Len(s) THEN Len(s) - 2 + 1 ELSE 0
    BY <1>3, <2>1, Piece
  <2>3. \A i \in 1 .. Len(s) - 2 + 1 : l[i] = s[2 + i - 1]
    BY <1>3, <2>1, PieceAt
  <2> HIDE DEF l, n
  <2>4. ASSUME 2 <= n PROVE l[1] = s[2]
    <3>1. 1 \in 1 .. Len(s) - 2 + 1 /\ 2 + 1 - 1 = 2
      BY <1>1, <1>3, <2>4
    <3>2. l[1] = s[2 + 1 - 1]
      BY <2>3, <3>1
    <3> QED BY <3>1, <3>2
  <2>5. Len(l) = n - 1
    BY <1>1, <1>3, <2>2
  <2> QED BY <2>2, <2>4, <2>5
<1> HIDE DEF l, n
<1>7. f \in Seq(Tokens)
  BY <1>6, FlattenTyped
<1>8. Made(y, f, E)
  <2> HIDE DEF f, E, y
  <2> QED BY <1>4, <1>5, <1>7, MadeOf
<1>9. CASE n = 1
  <2>1. l = <<>>
    <3>1. Len(l) = 0
      BY <1>6, <1>9
    <3> QED BY <1>6, <3>1, EmptySeq
  <2>2. Len(f) = 0
    <3>1. f = <<>>
      BY <2>1, FlattenNone
    <3> QED BY <3>1
  <2> DEFINE d == <<"--", "b", "--">>
             x == Eol \o Closing
  <2>3. d \in Seq(Tokens) /\ x \in Seq(Tokens)
    <3>1. "--" \in Tokens /\ "b" \in Tokens
      BY FrameSayable DEF Sayable
    <3>2. d \in Seq(Tokens)
      BY <3>1
    <3>3. Eol \in Seq(Sayable) /\ Closing \in Seq(Sayable) /\ Sayable \subseteq Tokens
      BY FrameSayable DEF Sayable
    <3>4. Eol \in Seq(Tokens) /\ Closing \in Seq(Tokens)
      BY <3>3, Within
    <3>5. x \in Seq(Tokens)
      BY <3>4, Shifted
    <3> QED BY <3>2, <3>5
  <2>4. Len(d) = 3 /\ d[1] = "--" /\ d[2] = "b" /\ d[3] = "--"
    OBVIOUS
  <2>5. E = d \o x
    BY DEF Ending
  <2> HIDE DEF d, x, E
  <2>6. Made(E, d, x)
    BY <2>3, <2>5, MadeOf
  <2>13. x[1] = "CR" /\ 1 <= Len(x)
    <3>1. Eol \in Seq(Tokens) /\ Len(Eol) = 2 /\ Eol[1] = "CR"
      BY EolIs
    <3>2. Closing \in Seq(Tokens)
      <4>1. Closing \in Seq(Sayable) /\ Sayable \subseteq Tokens
        BY FrameSayable DEF Sayable
      <4> QED BY <4>1, Within
    <3>3. Made(x, Eol, Closing)
      BY <3>1, <3>2, MadeOf DEF x
    <3>4. x[1] = "CR"
      BY <3>1, <3>3 DEF Made
    <3>5. 2 <= Len(x)
      BY <3>1, <3>3 DEF Made
    <3> QED BY <3>4, <3>5
  <2>7. E[1] = "--" /\ E[2] = "b" /\ E[3] = "--" /\ E[3 + 1] = "CR" /\ E \in Seq(Tokens)
    <3>1. E[1] = d[1] /\ E[2] = d[2] /\ E[3] = d[3] /\ E \in Seq(Tokens)
      BY <2>4, <2>6 DEF Made
    <3>2. E[3 + 1] = x[1]
      BY <2>4, <2>6, <2>13 DEF Made
    <3> QED BY <2>4, <2>13, <3>1, <3>2
  <2>8. 4 <= Len(E) /\ Len(E) \in Nat
    BY <2>4, <2>6, <2>13 DEF Made
  <2>9. y \in Seq(Tokens) /\ Len(y) = Len(E) /\ \A i \in 1 .. Len(E) : y[i] = E[i]
    <3> HIDE DEF f, y
    <3>1. y \in Seq(Tokens) /\ Len(y) = 0 + Len(E) /\ \A i \in 1 .. Len(E) : y[0 + i] = E[i]
      BY <1>8, <2>2 DEF Made
    <3> QED BY <2>8, <3>1
  <2>10. y[1] = "--" /\ y[2] = "b" /\ y[3] = "--" /\ y[4] = "CR"
    <3>1. 1 \in 1 .. Len(E) /\ 2 \in 1 .. Len(E) /\ 3 \in 1 .. Len(E) /\ 4 \in 1 .. Len(E)
      BY <2>8
    <3> HIDE DEF y
    <3> QED BY <2>7, <2>9, <3>1
  <2> HIDE DEF y
  <2>12. EndHead(y)
    BY <2>8, <2>9, <2>10 DEF EndHead
  <2> QED BY <1>9, <2>12 DEF y, n
<1>10. CASE n # 1
  <2>1. 2 \in 1 .. n /\ 2 <= n /\ 1 \in 1 .. Len(l) /\ 1 - 1 = 0
    BY <1>1, <1>6, <1>10
  <2> DEFINE g == l[1]
  <2>2. PartHead(g)
    <3>1. g = PartText(m.parts[2])
      BY <1>3, <1>6, <2>1
    <3>2. PartIs(m.parts[2])
      BY <1>1, <2>1
    <3> HIDE DEF g
    <3> QED BY <3>1, <3>2, PartStarts
  <2>11. g \in Seq(Tokens) /\ 5 <= Len(g)
    BY <2>2 DEF PartHead
  <2>3. Upto(l, 0) = 0
    BY <1>6, UptoEnds
  <2>4. Upto(l, 1) \in Nat /\ Upto(l, 1) = Len(g) /\ Len(g) \in Nat
    <3>1. Upto(l, 1) \in Nat /\ Len(l[1]) \in Nat /\ Upto(l, 1) = Upto(l, 1 - 1) + Len(l[1])
      BY <1>6, <2>1, UptoNext
    <3> QED BY <2>1, <2>3, <3>1
  <2>5. Upto(l, 1) <= Len(f) /\ Len(f) \in Nat /\ \A i \in 1 .. Len(g) : f[Upto(l, 1 - 1) + i] = g[i]
    BY <1>6, <2>1, FlattenAt
  <2> HIDE DEF g, f
  <2>6. \A i \in 1 .. 5 : f[i] = g[i] /\ i \in 1 .. Len(f)
    BY <2>1, <2>3, <2>4, <2>5, <2>11
  <2> HIDE DEF y, E
  <2>7. y \in Seq(Tokens) /\ Len(y) = Len(f) + Len(E) /\ Len(E) \in Nat /\ \A i \in 1 .. Len(f) : y[i] = f[i]
    BY <1>8 DEF Made
  <2>8. \A i \in 1 .. 5 : y[i] = g[i]
    BY <2>6, <2>7
  <2>9. Len(y) \in Nat /\ 5 <= Len(y)
    BY <2>4, <2>5, <2>7, <2>11
  <2>12. y[1] = g[1] /\ y[2] = g[2] /\ y[3] = g[3] /\ y[4] = g[4] /\ y[5] = g[5]
    BY <2>8
  <2>10. PartHead(y)
    BY <2>2, <2>7, <2>9, <2>12 DEF PartHead
  <2> QED BY <1>10, <2>10 DEF y, n
<1> QED BY <1>9, <1>10

\* Unfolding leaves the beginning of a text that has no line end in it but perhaps at its end.
LEMMA TillStays ==
  ASSUME NEW t \in Seq(Tokens), NEW k \in Nat, k < Len(t), t[k + 1] \notin Blanks, t[k + 1] # "LF",
         \A i \in 1 .. k - 2 : t[i] # "CR", NEW e \in Int
  PROVE  /\ Till(e, t) \in Seq(Tokens) /\ k <= Len(Till(e, t))
         /\ \A i \in 1 .. k : Till(e, t)[i] = t[i]
<1>1. PICK a \in Seq(Tokens), b \in Seq(Tokens) : Len(a) = k /\ t = Cat(a, b) /\ Made(t, a, b)
  <2>1. k <= Len(t)
    OBVIOUS
  <2>2. \E a, b \in Seq(Tokens) : Len(a) = k /\ t = Cat(a, b) /\ Made(t, a, b)
    BY <2>1, CutInTwo, Zenon
  <2> QED BY <2>2, Zenon
<1>2. /\ Len(t) = k + Len(b) /\ Len(b) \in Nat
      /\ \A i \in 1 .. k : t[i] = a[i]
      /\ \A i \in 1 .. Len(b) : t[k + i] = b[i]
  BY <1>1 DEF Made
<1>3. b[1] = t[k + 1]
  <2>1. 1 \in 1 .. Len(b)
    BY <1>2
  <2> QED BY <1>2, <2>1
<1>4. Till(e, a) = a
  <2>1. \A i \in 1 .. Len(a) - 2 : i \in 1 .. k - 2 /\ i \in 1 .. k
    BY <1>1
  <2>2. \A i \in 1 .. Len(a) - 2 : a[i] # "CR"
    BY <1>2, <2>1
  <2> QED BY <2>2, TillKept
<1> DEFINE c == Till(e - Len(a), b)
           u == Till(e, t)
<1>5. u = a \o c /\ e - Len(a) \in Int
  <2>1. Apart(e, a, b)
    BY <1>3 DEF Apart
  <2>2. e - Len(a) \in Int /\ Till(e, a \o b) = Till(e, a) \o Till(e - Len(a), b)
    BY <2>1, TillJoined
  <2> QED BY <1>1, <1>4, <2>2 DEF Cat
<1>6. c \in Seq(Tokens)
  BY <1>5, TillTyped, WrittenTokens
<1> HIDE DEF c, u
<1>7. Made(u, a, c)
  BY <1>5, <1>6, MadeOf
<1>8. u \in Seq(Tokens) /\ Len(a) <= Len(u) /\ \A i \in 1 .. Len(a) : u[i] = a[i]
  BY <1>7, MadeBegins
<1>9. u \in Seq(Tokens) /\ k <= Len(u) /\ \A i \in 1 .. k : u[i] = t[i]
  BY <1>1, <1>2, <1>8
<1> QED BY <1>9 DEF u

\* What follows the first body begins with the delimiter, however much of it is unfolded.
LEMMA LaterDelimits ==
  ASSUME NEW m \in Multiparts, m.parts # <<>>, m.quoted \/ Len(m.parts) > 1, NEW e \in Int
  PROVE  Delimits(m, Till(e, Later(m)))
<1> DEFINE y == Later(m)
           u == Till(e, y)
<1>1. IF Len(m.parts) = 1 THEN EndHead(y) ELSE PartHead(y)
  BY LaterHead
<1> HIDE DEF y
<1>2. CASE Len(m.parts) = 1
  <2>1. /\ y \in Seq(Tokens) /\ Len(y) \in Nat /\ 4 <= Len(y)
        /\ y[1] = "--" /\ y[2] = "b" /\ y[3] = "--" /\ y[4] = "CR"
    BY <1>1, <1>2 DEF EndHead
  <2>2. 3 \in Nat /\ 3 < Len(y) /\ y[3 + 1] \notin Blanks /\ y[3 + 1] # "LF" /\ \A i \in 1 .. 3 - 2 : y[i] # "CR"
    <3>1. \A i \in 1 .. 3 - 2 : i = 1
      OBVIOUS
    <3> QED BY <2>1, <3>1, GlueIs
  <2>3. u \in Seq(Tokens) /\ 3 <= Len(u) /\ \A i \in 1 .. 3 : u[i] = y[i]
    BY <2>1, <2>2, TillStays
  <2>4. m.quoted
    BY <1>2
  <2> HIDE DEF u
  <2>5. Delimits(m, u)
    BY <2>1, <2>3, <2>4 DEF Delimits
  <2> QED BY <2>5 DEF u, y
<1>3. CASE Len(m.parts) # 1
  <2>1. /\ y \in Seq(Tokens) /\ Len(y) \in Nat /\ 5 <= Len(y)
        /\ y[1] = "--" /\ y[2] = "b" /\ y[3] = "CR" /\ y[5] \notin Blanks /\ y[5] # "LF"
    BY <1>1, <1>3 DEF PartHead
  <2>2. 4 \in Nat /\ 4 < Len(y) /\ y[4 + 1] \notin Blanks /\ y[4 + 1] # "LF" /\ \A i \in 1 .. 4 - 2 : y[i] # "CR"
    <3>1. \A i \in 1 .. 4 - 2 : i = 1 \/ i = 2
      OBVIOUS
    <3> QED BY <2>1, <3>1
  <2>3. u \in Seq(Tokens) /\ 4 <= Len(u) /\ \A i \in 1 .. 4 : u[i] = y[i]
    BY <2>1, <2>2, TillStays
  <2> HIDE DEF u
  <2>5. Delimits(m, u)
    BY <2>1, <2>3 DEF Delimits
  <2> QED BY <2>5 DEF u, y
<1> QED BY <1>2, <1>3

\* The delimiter behind the body is the first.
LEMMA DelimiterBehind ==
  ASSUME NEW m, NEW b \in Seq(Tokens), NEW x, NEW y, NEW t, Delimits(m, y), Made(x, Eol, y), Made(t, b, x),
         \A i \in 1 .. Len(b) : b[i] # "--", NEW k, k = Find(Delimiter(m), t, 1)
  PROVE  k = Len(b) + 3
<1> DEFINE d == Delimiter(m)
           L == Len(b)
<1>1. Delimits(m, y)
  OBVIOUS
<1>2. d \in Seq(Tokens) /\ d # <<>> /\ d[1] = "--"
  <2>1. Sayable \subseteq Tokens
    BY DEF Sayable
  <2>2. d \in Seq(Sayable) /\ d # <<>> /\ d[1] = "--"
    BY DelimiterIs
  <2> HIDE DEF d
  <2> QED BY <2>1, <2>2, Within
<1>3. IF m.quoted THEN Len(d) = 2 /\ d[2] = "b" ELSE Len(d) = 3 /\ d[2] = "b" /\ d[3] = "CR"
  <2>1. "--" \in Tokens /\ "b" \in Tokens /\ "CR" \in Tokens
    BY FrameSayable, FrameTokens DEF Sayable
  <2>2. CASE m.quoted
    <3>1. d = <<"--", "b">>
      BY <2>1, <2>2, PairOf DEF Delimiter, Mark
    <3> QED BY <2>2, <3>1
  <2>3. CASE ~m.quoted
    <3>1. d = <<"--", "b", "CR">>
      BY <2>1, <2>3, TripleOf DEF Delimiter, Mark
    <3> QED BY <2>3, <3>1
  <2> QED BY <2>2, <2>3
<1> HIDE DEF d
<1>4. y \in Seq(Tokens) /\ Len(y) \in Nat /\ 3 <= Len(y) /\ y[1] = "--" /\ y[2] = "b" /\ (~m.quoted => y[3] = "CR")
  BY <1>1 DEF Delimits
<1>5. Len(Eol) = 2 /\ Eol[1] = "CR" /\ Eol[2] = "LF"
  BY EolIs
<1>6. x \in Seq(Tokens) /\ Len(x) = 2 + Len(y) /\ x[1] = "CR" /\ x[2] = "LF" /\ \A i \in 1 .. Len(y) : x[2 + i] = y[i]
  BY <1>5 DEF Made
<1>7. t \in Seq(Tokens) /\ Len(t) = L + Len(x) /\ L \in Nat
      /\ (\A i \in 1 .. L : t[i] = b[i]) /\ \A i \in 1 .. Len(x) : t[L + i] = x[i]
  BY DEF Made
<1>8. t[L + 1] = "CR" /\ t[L + 2] = "LF" /\ \A i \in 1 .. Len(y) : t[L + 2 + i] = y[i]
  <2>1. 1 \in 1 .. Len(x) /\ 2 \in 1 .. Len(x)
    BY <1>4, <1>6
  <2>2. ASSUME NEW i \in 1 .. Len(y) PROVE t[L + 2 + i] = y[i]
    <3>1. 2 + i \in 1 .. Len(x) /\ L + (2 + i) = L + 2 + i
      BY <1>4, <1>6, <1>7
    <3>2. t[L + (2 + i)] = x[2 + i]
      BY <1>7, <3>1
    <3> QED BY <1>6, <3>1, <3>2
  <2> QED BY <1>6, <1>7, <2>1, <2>2
<1> HIDE DEF L
<1> DEFINE e == L + 3
<1>9. e \in 1 .. Len(t) /\ e \in Nat /\ 1 <= e
  BY <1>4, <1>6, <1>7
<1>10. BeginsAt(d, t, e)
  <2>1. BeginsAt(d, t, e) <=> e + Len(d) - 1 <= Len(t) /\ \A q \in 1 .. Len(d) : t[e + q - 1] = d[q]
    <3>1. d \in Seq(Tokens) /\ t \in Seq(Tokens) /\ e \in Nat /\ 1 <= e
      BY <1>2, <1>7, <1>9
    <3> HIDE DEF e
    <3> QED BY <3>1, BeginsIs
  <2>2. \A q \in 1 .. 3 : e + q - 1 = L + 2 + q /\ q \in 1 .. Len(y)
    BY <1>4, <1>7
  <2>6. /\ Len(d) = 2 \/ Len(d) = 3
        /\ d[2] = "b"
        /\ Len(d) = 3 => d[3] = "CR" /\ y[3] = "CR"
    <3>1. CASE m.quoted
      BY <1>3, <3>1
    <3>2. CASE ~m.quoted
      BY <1>3, <1>4, <3>2
    <3> QED BY <3>1, <3>2
  <2>3. e + Len(d) - 1 <= Len(t)
    <3>1. e + 2 - 1 <= Len(t) /\ e + 3 - 1 <= Len(t)
      BY <1>4, <1>6, <1>7
    <3> QED BY <2>6, <3>1
  <2>4. \A q \in 1 .. 3 : t[e + q - 1] = y[q]
    BY <1>8, <2>2
  <2>5. ASSUME NEW q \in 1 .. Len(d) PROVE t[e + q - 1] = d[q]
    <3>1. q = 1 \/ q = 2 \/ (q = 3 /\ Len(d) = 3)
      <4> DEFINE l == Len(d)
      <4>1. q \in 1 .. l /\ (l = 2 \/ l = 3)
        BY <2>6
      <4> HIDE DEF l
      <4>2. q = 1 \/ q = 2 \/ (q = 3 /\ l = 3)
        BY <4>1
      <4> QED BY <4>2 DEF l
    <3>2. q \in 1 .. 3 /\ y[q] = d[q]
      BY <1>2, <1>4, <2>6, <3>1
    <3> QED BY <2>4, <3>2
  <2> QED BY <2>1, <2>3, <2>5
<1>11. ASSUME NEW i \in 1 .. e - 1 PROVE ~BeginsAt(d, t, i)
  <2>1. i \in 1 .. Len(t) /\ (i \in 1 .. L \/ i = L + 1 \/ i = L + 2)
    BY <1>7, <1>9
  <2>2. t[i] # "--"
    <3>1. CASE i \in 1 .. L
      BY <1>7, <3>1 DEF L
    <3>2. CASE i = L + 1 \/ i = L + 2
      BY <1>8, <3>2
    <3> QED BY <2>1, <3>1, <3>2
  <2> HIDE DEF e
  <2> QED BY <1>2, <1>7, <2>1, <2>2, BeginsWith
<1> HIDE DEF e
<1>12. Find(d, t, 1) = e
  BY <1>2, <1>7, <1>9, <1>10, <1>11, FindFirst
<1>13. k = e
  BY <1>12 DEF d
<1> QED BY <1>13 DEF e, L

\* Nothing in the body is taken for a delimiter, unfolded or not.
LEMMA BodyTill ==
  ASSUME NEW p, PartIs(p), NEW e \in Int
  PROVE  Till(e, p.body) \in Seq(Tokens) /\ \A i \in 1 .. Len(Till(e, p.body)) : Till(e, p.body)[i] # "--"
<1> DEFINE S == Tokens \ {"--", "boundary=", "(null)"}
           b == p.body
           w == Till(e, b)
<1>1. b \in Seq(S)
  BY DEF PartIs, Unmarked
<1>2. S \subseteq Tokens /\ Tokens \subseteq STRING /\ "--" \notin S
  BY WrittenTokens
<1> HIDE DEF S, b
<1>3. w \in Seq(S)
  BY <1>1, <1>2, TillTyped
<1> HIDE DEF w
<1>4. w \in Seq(Tokens)
  BY <1>2, <1>3, Within
<1>5. \A i \in 1 .. Len(w) : w[i] # "--"
  <2>1. \A i \in 1 .. Len(w) : w[i] \in S
    BY <1>3, ElementOfSeq
  <2> QED BY <1>2, <2>1
<1> QED BY <1>4, <1>5 DEF w, b

\* get_body_up_to_boundary() keeps what is before the delimiter's line.
LEMMA BodyKept ==
  ASSUME NEW b \in Seq(Tokens), NEW y \in Seq(Tokens), NEW t, t = Cat(b, Cat(Eol, y)),
         NEW d \in Seq(Tokens), d # <<>>, d[1] = "--", \A i \in 1 .. Len(b) : b[i] # "--"
  PROVE  /\ IsPrefix(b, BodyUpTo(d, t))
         /\ Find(d, t, 1) = Len(b) + 3 => BodyUpTo(d, t) = b
<1> DEFINE x == Cat(Eol, y)
           L == Len(b)
           k == Find(d, t, 1)
           T == {i \in 1 .. k - 1 : t[i] = "LF"}
           n == LastOf[T]
<1>1. Eol \in Seq(Tokens) /\ Len(Eol) = 2 /\ Eol[1] = "CR" /\ Eol[2] = "LF"
  BY EolIs
<1>2. Made(x, Eol, y)
  BY <1>1, MadeOf DEF Cat
<1>3. t = Cat(b, x)
  OBVIOUS
<1> HIDE DEF x
<1>4. Made(t, b, x)
  <2>1. x \in Seq(Tokens)
    BY <1>2 DEF Made
  <2> QED BY <1>3, <2>1, MadeOf DEF Cat
<1>5. x[1] = "CR" /\ x[2] = "LF" /\ 2 <= Len(x) /\ Len(x) \in Nat
  <2>1. x[1] = "CR" /\ x[2] = "LF"
    BY <1>1, <1>2 DEF Made
  <2>2. 2 <= Len(x) /\ Len(x) \in Nat
    BY <1>1, <1>2 DEF Made
  <2> QED BY <2>1, <2>2
<1>8. L \in Nat /\ t \in Seq(Tokens) /\ (\A i \in 1 .. L : t[i] = b[i]) /\ Len(t) = L + Len(x)
      /\ \A i \in 1 .. Len(x) : t[L + i] = x[i]
  BY <1>4 DEF Made
<1>9. t[L + 1] = "CR" /\ t[L + 2] = "LF" /\ L + 2 <= Len(t)
  <2>1. 1 \in 1 .. Len(x) /\ 2 \in 1 .. Len(x)
    BY <1>5
  <2> QED BY <1>5, <1>8, <2>1
<1>6. \/ k = 0
      \/ k \in 1 .. Len(t) /\ t[k] = "--"
  <2>1. 1 \in Nat /\ 1 <= 1 /\ k = Find(d, t, 1)
    OBVIOUS
  <2> HIDE DEF k
  <2>2. k = 0 \/ (k \in 1 .. Len(t) /\ BeginsAt(d, t, k))
    BY <1>8, <2>1, FindIsFirst
  <2> QED BY <1>8, <2>2, BeginsWith
<1>7. BodyUpTo(d, t) =
        IF k = 0 THEN t ELSE SubSeq(t, 1, IF n > 1 /\ t[n - 1] = "CR" THEN n - 2 ELSE n - 1)
  BY DEF BodyUpTo
<1>10. ASSUME NEW q \in L .. Len(t) PROVE IsPrefix(b, SubSeq(t, 1, q)) /\ (q = L => SubSeq(t, 1, q) = b)
  <2> DEFINE u == SubSeq(t, 1, q)
             v == SubSeq(u, 1, L)
             z == SubSeq(b, 1, L)
  <2>1. u \in Seq(Tokens) /\ Len(u) = q /\ \A i \in 1 .. q : u[i] = t[i]
    BY <1>8
  <2> HIDE DEF u
  <2>2. v \in Seq(Tokens) /\ Len(v) = L /\ \A i \in 1 .. L : v[i] = u[i]
    BY <1>8, <2>1
  <2>3. z = b
    OBVIOUS
  <2> HIDE DEF v, z
  <2>4. \A i \in 1 .. L : i \in 1 .. q
    BY <1>8
  <2>5. \A i \in 1 .. Len(v) : v[i] = b[i]
    BY <1>8, <2>1, <2>2, <2>4
  <2>6. Len(v) = Len(b)
    BY <2>2
  <2>7. v = b
    BY <2>2, <2>5, <2>6, SeqEqual
  <2>8. Len(b) <= Len(u)
    BY <1>8, <2>1
  <2>9. IsPrefix(b, u)
    BY <2>3, <2>7, <2>8 DEF IsPrefix, v, z
  <2>10. ASSUME q = L PROVE u = b
    <3>1. \A i \in 1 .. Len(u) : u[i] = b[i]
      BY <1>8, <2>1, <2>10
    <3> QED BY <2>1, <2>10, <3>1, SeqEqual
  <2> QED BY <2>9, <2>10 DEF u
<1> HIDE DEF k, L
<1>11. CASE k = 0
  <2>1. BodyUpTo(d, t) = t
    BY <1>7, <1>11
  <2>2. IsPrefix(b, t)
    <3>1. Len(t) \in L .. Len(t) /\ SubSeq(t, 1, Len(t)) = t
      BY <1>8, <1>9
    <3>2. IsPrefix(b, SubSeq(t, 1, Len(t)))
      BY <1>10, <3>1
    <3> QED BY <3>1, <3>2
  <2>3. k # L + 3
    BY <1>8, <1>11
  <2> QED BY <2>1, <2>2, <2>3 DEF k, L
<1>12. CASE k # 0
  <2>1. k \in Nat /\ L + 2 < k /\ k <= Len(t)
    <3>1. k \in 1 .. Len(t) /\ t[k] = "--"
      BY <1>6, <1>12
    <3>2. k \notin 1 .. L
      BY <1>8, <3>1 DEF L
    <3>3. k # L + 1 /\ k # L + 2
      BY <1>9, <3>1
    <3> QED BY <1>8, <3>1, <3>2, <3>3
  <2> DEFINE j == L + 2
  <2>2. T \subseteq 0 .. k - 1 /\ k - 1 \in Nat /\ j \in T /\ j \in Nat
    BY <1>8, <1>9, <2>1
  <2> HIDE DEF T
  <2>3. n \in T /\ j <= n /\ n \in Nat
    <3> HIDE DEF j, n
    <3>1. n \in T /\ \A i \in T : i <= n
      BY <2>2, LastOfIs DEF n
    <3> QED BY <2>2, <3>1
  <2>4. n < k
    BY <2>1, <2>2, <2>3
  <2> HIDE DEF n
  <2> DEFINE q == IF n > 1 /\ t[n - 1] = "CR" THEN n - 2 ELSE n - 1
  <2>5. q \in L .. Len(t) /\ (n = L + 2 => q = L)
    <3>1. n = L + 2 => n - 1 = L + 1 /\ n > 1 /\ n - 2 = L
      BY <1>8
    <3> QED BY <1>8, <1>9, <2>1, <2>3, <2>4, <3>1
  <2> HIDE DEF q
  <2>6. BodyUpTo(d, t) = SubSeq(t, 1, q)
    BY <1>7, <1>12 DEF q
  <2>7. IsPrefix(b, SubSeq(t, 1, q)) /\ (q = L => SubSeq(t, 1, q) = b)
    BY <1>10, <2>5
  <2>8. k = L + 3 => n = L + 2
    BY <1>8, <2>1, <2>3, <2>4
  <2>9. IsPrefix(b, BodyUpTo(d, t)) /\ (k = L + 3 => BodyUpTo(d, t) = b)
    BY <2>5, <2>6, <2>7, <2>8
  <2> QED BY <2>9 DEF k, L
<1> QED BY <1>11, <1>12

\* What is printed of a part whose body was unfolded up to some place.
Prints(m, w, o) == IF m.quoted \/ Len(m.parts) > 1 THEN o = w ELSE IsPrefix(w, o)

\* get_body_up_to_boundary() gives the body, unfolded as far as the text is.
LEMMA BodyFound ==
  ASSUME NEW m \in Multiparts, m.parts # <<>>, NEW e \in Int
  PROVE  Prints(m, Till(e, m.parts[1].body), BodyUpTo(Delimiter(m), Till(e, FromBody(m))))
<1> DEFINE b == m.parts[1].body
           y == Later(m)
           x == Cat(Eol, y)
           t == Cat(b, x)
           e1 == e - Len(b)
           e2 == e1 - Len(Eol)
           w == Till(e, b)
           z == Till(e2, y)
           d == Delimiter(m)
           u == Till(e, t)
<1>1. b \in Seq(Tokens) /\ y \in Seq(Tokens) /\ Eol \in Seq(Tokens) /\ FromBody(m) = t /\ PartIs(m.parts[1])
  BY TailIs DEF FromBody
<1>2. w \in Seq(Tokens) /\ \A i \in 1 .. Len(w) : w[i] # "--"
  BY <1>1, BodyTill
<1>3. Len(Eol) = 2 /\ Eol[1] = "CR" /\ Eol[2] = "LF"
  BY EolIs
<1>4. y[1] \notin Blanks /\ y[1] # "LF"
  <2>1. y[1] = "--"
    BY LaterHead DEF EndHead, PartHead
  <2>2. "--" \notin Blanks
    BY Zenon DEF Blanks
  <2> QED BY <2>1, <2>2
<1>5. d \in Seq(Tokens) /\ d # <<>> /\ d[1] = "--"
  <2>1. Sayable \subseteq Tokens
    BY DEF Sayable
  <2>2. d \in Seq(Sayable) /\ d # <<>> /\ d[1] = "--"
    BY DelimiterIs
  <2> HIDE DEF d
  <2> QED BY <2>1, <2>2, Within
<1>6. m.quoted \/ Len(m.parts) > 1 => \A k \in Int : Delimits(m, Till(k, y))
  BY LaterDelimits
<1> HIDE DEF b, y, w, d
<1>7. Made(x, Eol, y)
  BY <1>1, MadeOf DEF Cat
<1>8. x \in Seq(Tokens) /\ x[1] = "CR"
  <2> HIDE DEF x
  <2> QED BY <1>3, <1>7 DEF Made
<1>9. u = w \o Till(e1, x) /\ e1 \in Int
  <2> HIDE DEF x
  <2>1. Apart(e, b, x)
    BY <1>8, GlueIs DEF Apart
  <2>2. e - Len(b) \in Int /\ Till(e, b \o x) = Till(e, b) \o Till(e - Len(b), x)
    BY <1>1, <1>8, <2>1, TillJoined
  <2> QED BY <2>2 DEF w, Cat
<1>10. Till(e1, x) = Cat(Eol, z) /\ e2 \in Int
  <2> DEFINE a == Eol
  <2>1. a \in Seq(Tokens) /\ Len(a) = 2 /\ x = a \o y /\ e2 = e1 - Len(a)
    BY <1>1, <1>3 DEF Cat
  <2> HIDE DEF a, x, e1, e2
  <2>2. Apart(e1, a, y)
    BY <1>4 DEF Apart
  <2>3. e1 - Len(a) \in Int /\ Till(e1, a \o y) = Till(e1, a) \o Till(e1 - Len(a), y)
    BY <1>1, <1>9, <2>1, <2>2, TillJoined
  <2>4. Till(e1, a) = a
    <3>1. \A i \in 1 .. Len(a) - 2 : FALSE
      BY <2>1
    <3> QED BY <1>9, <2>1, <3>1, TillKept
  <2>5. Till(e1, x) = a \o z /\ e2 \in Int
    BY <2>1, <2>3, <2>4
  <2> QED BY <2>5 DEF Cat, a
<1>11. z \in Seq(Tokens)
  <2> HIDE DEF e2
  <2> QED BY <1>1, <1>10, TillTyped, WrittenTokens
<1>12. u = Cat(w, Cat(Eol, z))
  BY <1>9, <1>10 DEF Cat
<1>14. m.quoted \/ Len(m.parts) > 1 => Delimits(m, z)
  <2> HIDE DEF e2
  <2> QED BY <1>6, <1>10
<1> HIDE DEF z, u, t, x, e1, e2
<1>13. IsPrefix(w, BodyUpTo(d, u)) /\ (Find(d, u, 1) = Len(w) + 3 => BodyUpTo(d, u) = w)
  BY <1>2, <1>5, <1>11, <1>12, BodyKept
<1>15. ASSUME m.quoted \/ Len(m.parts) > 1 PROVE Find(d, u, 1) = Len(w) + 3
  <2> DEFINE v == Cat(Eol, z)
             k == Find(Delimiter(m), u, 1)
  <2>1. Delimits(m, z)
    BY <1>14, <1>15
  <2>2. Made(v, Eol, z)
    BY <1>1, <1>11, MadeOf DEF Cat
  <2>5. u = Cat(w, v)
    BY <1>12
  <2> HIDE DEF v
  <2>3. Made(u, w, v)
    <3>1. v \in Seq(Tokens)
      BY <2>2 DEF Made
    <3> QED BY <1>2, <2>5, <3>1, MadeOf DEF Cat
  <2>4. k = Find(Delimiter(m), u, 1)
    OBVIOUS
  <2> HIDE DEF k
  <2>6. k = Len(w) + 3
    BY <1>2, <2>1, <2>2, <2>3, <2>4, DelimiterBehind
  <2> QED BY <2>6 DEF k, d
<1>16. Prints(m, w, BodyUpTo(d, u))
  BY <1>13, <1>15 DEF Prints
<1> QED BY <1>1, <1>16 DEF w, d, u, b

-----------------------------------------------------------------------------
(* The steps of mime().                                                    *)

\* What replaces what is left is left there.
LEMMA LeftReplaced ==
  ASSUME NEW t, NEW p, NEW r, Left(t, p, r), NEW w \in Seq(Tokens), NEW u, u = SubSeq(t, 1, p - 1) \o w
  PROVE  Left(u, p, w)
<1> DEFINE a == SubSeq(t, 1, p - 1)
<1>1. t \in Seq(Tokens) /\ r \in Seq(Tokens) /\ p \in Nat /\ 1 <= p /\ Len(t) = p - 1 + Len(r)
  BY DEF Left
<1>2. a \in Seq(Tokens) /\ Len(a) = p - 1
  <2>1. p - 1 <= Len(t) /\ p - 1 \in Nat
    BY <1>1
  <2> QED BY <1>1, <2>1
<1> HIDE DEF a
<1>3. Made(u, a, w)
  BY <1>2, MadeOf DEF a
<1>4. u \in Seq(Tokens) /\ Len(u) = p - 1 + Len(w) /\ \A i \in 1 .. Len(w) : u[p - 1 + i] = w[i]
  BY <1>2, <1>3 DEF Made
<1>5. ASSUME NEW i \in 1 .. Len(w) PROVE u[p + i - 1] = w[i]
  <2>1. p + i - 1 = p - 1 + i
    BY <1>1
  <2> QED BY <1>4, <2>1
<1> QED BY <1>1, <1>4, <1>5 DEF Left

\* The messages whose boundary is found, and of them those whose first body is told from
\* the headers before it.
BoundaryNamed(m) == m.parts # <<>> /\ m.versionFirst
Told(m)          == BoundaryNamed(m) /\ ~FoldsIntoBody(m.parts[1])

\* What mime() has come to in such a message, step by step: the body is unfolded up to some
\* place, which is its beginning when the header has both fields, in title case.
AtPart(m) == boundary = Mark(m) /\ Left(text, part, Cat(LineRest(m), Rest(m)))

AtHeaders(m) ==
  /\ boundary = Mark(m)
  /\ \E h \in Seq(Tokens) : \E d \in Int :
       /\ Left(text, part, Cat(LineRest(m), Cat(h, Cat(Eol, Till(d, FromBody(m))))))
       /\ HeadIs(h, m.parts[1]) /\ WholeFrom(m, d)

AtCheck(m) ==
  /\ boundary = Mark(m)
  /\ \E h \in Seq(Tokens) : \E d \in Int :
       /\ headers = HeadOf(h) /\ HeadIs(h, m.parts[1]) /\ Left(text, part, Till(d, FromBody(m)))
       /\ WholeFrom(m, d)

AtBody(m) ==
  /\ boundary = Mark(m) /\ Printable(m.parts[1])
  /\ \E d \in Int : Left(text, part, Till(d, FromBody(m))) /\ WholeFrom(m, d)

AtEnd(m) ==
  IF Printable(m.parts[1])
  THEN status = 0 /\ \E d \in Int : Prints(m, Till(d, m.parts[1].body), output) /\ WholeFrom(m, d)
  ELSE status = 4

Extracting(m) ==
  /\ pc \in {"boundary", "value", "delimiter", "part", "headers", "check", "body", "done"}
  /\ pc \in {"boundary", "value", "delimiter"} => text = MimeText(m)
  /\ pc = "value" => Left(text, part, Value(m) \o (Gap(m) \o First(m)))
  /\ pc = "delimiter" => boundary = Mark(m)
  /\ pc = "part" => AtPart(m)
  /\ pc = "headers" => AtHeaders(m)
  /\ pc = "check" => AtCheck(m)
  /\ pc = "body" => AtBody(m)
  /\ pc = "done" => AtEnd(m)

\* In the other messages no boundary is found, nor the delimiter made of none.
NotFound == <<"Error: Boundary delimiter not found", "LF">>

Missing(m) ==
  /\ pc \in {"boundary", "delimiter", "done"}
  /\ pc \in {"boundary", "delimiter"} => text = MimeText(m)
  /\ pc = "delimiter" => boundary = Null
  /\ pc = "done" => output = NotFound

\* The inductive invariant: it tells, step by step, what mime() has made of the message.
MimeInv ==
  command = "mime" =>
    /\ message \in Multiparts
    /\ Told(message) => Extracting(message)
    /\ ~BoundaryNamed(message) => Missing(message)

\* The invariant holds when mime() is called,
LEMMA MimeStarts == Init => MimeInv
<1> SUFFICES ASSUME Init, command = "mime"
             PROVE  message \in Multiparts /\ Extracting(message) /\ Missing(message)
  BY DEF MimeInv
<1>1. message \in Multiparts /\ Start(MimeText(message), "boundary")
  BY DEF Init, MimeInit
<1>2. text = MimeText(message) /\ pc = "boundary"
  BY <1>1 DEF Start
<1> QED BY <1>1, <1>2 DEF Extracting, Missing

\* and each of its steps keeps what the message has come to: find_mime_boundary() finds the
\* boundary,
LEMMA ParameterKeeps ==
  ASSUME NEW m, m = message, m \in Multiparts, Told(m), Extracting(m), FindParameter
  PROVE  Extracting(m)'
<1> DEFINE v == Find(Versioning, text, 1)
           f == IF v = 0 THEN 0 ELSE Find(Naming, text, v)
<1>1. /\ pc = "boundary" /\ text' = text
      /\ IF f = 0 THEN boundary' = Null /\ UNCHANGED part /\ Step("delimiter")
         ELSE part' = f + 1 /\ UNCHANGED boundary /\ Step("value")
  BY Zenon DEF FindParameter, Versioning, Naming
<1>2. text = MimeText(m) /\ m.parts # <<>> /\ m.versionFirst
  BY <1>1 DEF Extracting, Told, BoundaryNamed
<1> DEFINE r == Value(m) \o (Gap(m) \o First(m))
<1>3. v # 0 /\ Find(Naming, text, v) # 0 /\ Left(text, Find(Naming, text, v) + 1, r)
  <2> HIDE DEF r
  <2>1. v = Find(Versioning, text, 1)
    OBVIOUS
  <2> HIDE DEF v
  <2> QED BY <1>2, <2>1, ParameterFound DEF r
<1> HIDE DEF r, v
<1>4. f # 0 /\ Left(text, f + 1, r)
  BY <1>3
<1> HIDE DEF f
<1>5. pc' = "value" /\ part' = f + 1 /\ text' = text /\ message' = message
  BY <1>1, <1>4 DEF Step
<1>6. Left(text', part', r)
  BY <1>4, <1>5
<1> QED BY <1>2, <1>5, <1>6 DEF Extracting, r

\* takes it, with the CR of its line if it is not in quotes,
LEMMA BoundaryKeeps ==
  ASSUME NEW m, m = message, m \in Multiparts, Told(m), Extracting(m), TakeBoundary
  PROVE  Extracting(m)'
<1> DEFINE r == Value(m) \o (Gap(m) \o First(m))
<1>1. /\ pc = "value" /\ text' = text /\ pc' = "delimiter"
      /\ boundary' = IF BeginsAt(<<"quote">>, text, part) THEN Quoted(From(text, part))
                     ELSE Unquoted(From(text, part))
  BY DEF TakeBoundary, Step
<1>2. text = MimeText(m) /\ Left(text, part, r) /\ m.parts # <<>>
  BY <1>1 DEF Extracting, Told, BoundaryNamed
<1>3. ValueHead(m, r)
  BY <1>2, ValueStarts
<1> HIDE DEF r
<1>4. boundary' = Mark(m)
  BY <1>1, <1>2, <1>3, BoundaryTaken
<1> QED BY <1>1, <1>2, <1>4 DEF Extracting

\* mime() finds the first delimiter line,
LEMMA DelimiterKeeps ==
  ASSUME NEW m, m = message, m \in Multiparts, Told(m), Extracting(m), FindDelimiter
  PROVE  Extracting(m)'
<1> DEFINE d == Delimiter(m)
           f == Find(d, text, 1)
           r == Cat(LineRest(m), Rest(m))
<1>1. /\ pc = "delimiter" /\ boundary' = boundary
      /\ IF Find(delimiter, text, 1) = 0 THEN Finish(NotFound, 0) /\ UNCHANGED part
         ELSE part' = Find(delimiter, text, 1) + Len(delimiter) /\ UNCHANGED text /\ Step("part")
  BY Zenon DEF FindDelimiter, NotFound
<1>2. text = MimeText(m) /\ boundary = Mark(m) /\ m.parts # <<>> /\ m.versionFirst
  BY <1>1 DEF Extracting, Told, BoundaryNamed
<1>3. delimiter = d
  BY <1>2 DEF delimiter, Delimiter
<1>4. f # 0 /\ Left(text, f + Len(d), r)
  <2>1. f = Find(Delimiter(m), text, 1)
    OBVIOUS
  <2> HIDE DEF f
  <2> QED BY <1>2, <2>1, DelimiterFound
<1> HIDE DEF d, r
<1>5. f = Find(delimiter, text, 1)
  BY <1>3
<1> HIDE DEF f
<1>6. part' = f + Len(d) /\ text' = text /\ pc' = "part"
  BY <1>1, <1>3, <1>4, <1>5 DEF Step
<1>7. AtPart(m)'
  BY <1>1, <1>2, <1>4, <1>6 DEF AtPart, r
<1> QED BY <1>6, <1>7 DEF Extracting

\* unfold_headers_mime() unfolds the header, and of the body what follows,
LEMMA EnterKeeps ==
  ASSUME NEW m, m = message, m \in Multiparts, Told(m), Extracting(m), EnterPart
  PROVE  Extracting(m)'
<1> DEFINE r == Cat(LineRest(m), Rest(m))
           e == UnfoldEnd(r)
           p == m.parts[1]
<1>1. /\ pc = "part" /\ UNCHANGED mimeVars
      /\ IF BeginsAt(<<"--">>, From(text, part), 1) THEN Finish(<<>>, 0)
         ELSE /\ text' = SubSeq(text, 1, part - 1)
                           \o Unfold(<<>>)[FoldsBefore(UnfoldEnd(From(text, part)), From(text, part))][From(text, part)]
              /\ Step("headers")
  BY DEF EnterPart
<1>2. boundary = Mark(m) /\ Left(text, part, r)
  BY <1>1 DEF Extracting, AtPart
<1>3. From(text, part) = r
  BY <1>2, FromLeft
<1>4. PICK h \in Seq(Tokens), d \in Int :
        /\ Till(e, r) = Cat(LineRest(m), Cat(h, Cat(Eol, Till(d, FromBody(m)))))
        /\ r \in Seq(Tokens) /\ e \in Int /\ HeadIs(h, p) /\ WholeFrom(m, d)
  <2>1. m.parts # <<>> /\ ~FoldsIntoBody(m.parts[1])
    BY DEF Told, BoundaryNamed
  <2>2. r = Cat(LineRest(m), Rest(m)) /\ e = UnfoldEnd(r) /\ p = m.parts[1]
    OBVIOUS
  <2> HIDE DEF r, e, p
  <2>3. \E h \in Seq(Tokens) : \E d \in Int :
          /\ Till(e, r) = Cat(LineRest(m), Cat(h, Cat(Eol, Till(d, FromBody(m)))))
          /\ r \in Seq(Tokens) /\ e \in Int
          /\ HeadIs(h, m.parts[1])
          /\ WholeFrom(m, d)
    BY <2>1, <2>2, PartTill
  <2> QED BY <2>2, <2>3, Zenon
<1>5. ~BeginsAt(<<"--">>, r, 1)
  <2> DEFINE l == LineRest(m)
             y == Rest(m)
  <2>1. LineRestIs(l)
    BY LineRestTyped
  <2>2. y \in Seq(Tokens)
    <3>1. y \in Seq(Sayable) /\ Sayable \subseteq Tokens
      BY FirstIs DEF Sayable, Told, BoundaryNamed
    <3> HIDE DEF y
    <3> QED BY <3>1, Within
  <2> HIDE DEF l, y
  <2>3. l \in Seq(Tokens) /\ 1 <= Len(l) /\ l[1] # "--"
    BY <2>1 DEF LineRestIs
  <2>4. Made(r, l, y)
    BY <2>2, <2>3, MadeOf DEF Cat, l, y
  <2> HIDE DEF r
  <2>5. r \in Seq(Tokens) /\ Len(l) <= Len(r) /\ \A i \in 1 .. Len(l) : r[i] = l[i]
    BY <2>4, MadeBegins
  <2>6. 1 \in 1 .. Len(r) /\ r[1] # "--"
    <3>1. 1 \in 1 .. Len(l) /\ Len(l) \in Nat /\ Len(r) \in Nat
      BY <2>3, <2>5
    <3> QED BY <2>3, <2>5, <3>1
  <2> QED BY <2>5, <2>6, OneToken
<1> DEFINE w == Till(e, r)
<1>6. w \in Seq(Tokens) /\ Unfold(<<>>)[FoldsBefore(e, r)][r] = w
  <2>1. Tokens \subseteq STRING
    BY WrittenTokens
  <2> HIDE DEF r, e
  <2> QED BY <1>4, <2>1, TillTyped
<1>7. text' = SubSeq(text, 1, part - 1) \o w /\ pc' = "headers"
  BY <1>1, <1>3, <1>5, <1>6 DEF Step
<1> HIDE DEF r, e, w
<1>8. Left(text', part, w)
  BY <1>2, <1>6, <1>7, LeftReplaced
<1>9. part' = part /\ boundary' = boundary
  BY <1>1 DEF mimeVars
<1>10. w = Cat(LineRest(m), Cat(h, Cat(Eol, Till(d, FromBody(m)))))
  BY <1>4 DEF w
<1>11. Left(text', part', Cat(LineRest(m), Cat(h, Cat(Eol, Till(d, FromBody(m))))))
  BY <1>8, <1>9, <1>10
<1>12. AtHeaders(m)'
  BY <1>2, <1>4, <1>9, <1>11 DEF AtHeaders, p
<1> QED BY <1>7, <1>12 DEF Extracting

\* parse_mime_parts() cuts the header out,
LEMMA HeadersKeep ==
  ASSUME NEW m, m = message, m \in Multiparts, Told(m), Extracting(m), ReadHeaders
  PROVE  Extracting(m)'
<1> DEFINE f == <<"LF">>
           k == Find(f, text, part)
           n == Find(BlankLine4, text, k + 1)
<1>1. /\ pc = "headers" /\ boundary' = boundary
      /\ IF n = 0 THEN Finish(<<>>, 0) /\ UNCHANGED <<part, headers>>
         ELSE /\ headers' = SubSeq(text, k + 1, n - 1)
              /\ part' = n + 4
              /\ UNCHANGED text
              /\ Step("check")
  BY Zenon DEF ReadHeaders, BlankLine4
<1>2. PICK h \in Seq(Tokens), d \in Int :
        /\ Left(text, part, Cat(LineRest(m), Cat(h, Cat(Eol, Till(d, FromBody(m))))))
        /\ HeadIs(h, m.parts[1]) /\ WholeFrom(m, d)
  BY <1>1, Zenon DEF Extracting, AtHeaders
<1> DEFINE z == Till(d, FromBody(m))
           x == Cat(Eol, z)
           y == Cat(h, x)
           l == LineRest(m)
           r == Cat(l, y)
<1>3. boundary = Mark(m) /\ Left(text, part, r)
  BY <1>1, <1>2 DEF Extracting, AtHeaders
<1>13. z \in Seq(Tokens)
  <2>1. FromBody(m) \in Seq(Tokens) /\ Tokens \subseteq STRING
    BY TailIs, WrittenTokens DEF Told, BoundaryNamed
  <2> QED BY <2>1, TillTyped
<1>14. z = Till(d, FromBody(m))
  OBVIOUS
<1> HIDE DEF z
<1>4. y \in Seq(Tokens)
  <2>1. Eol \in Seq(Tokens)
    BY EolIs
  <2>2. x \in Seq(Tokens)
    BY <1>13, <2>1, Moved
  <2> HIDE DEF x
  <2> QED BY <2>2, Moved
<1>5. LineRestIs(l)
  BY LineRestTyped
<1>6. k = Find(<<"LF">>, text, part) /\ n = Find(BlankLine4, text, k + 1) /\ r = Cat(l, y) /\ y = Cat(h, Cat(Eol, z))
  OBVIOUS
<1> HIDE DEF f, k, n, r, x, y, l
<1>7. Left(text, k + 1, y)
  BY <1>3, <1>4, <1>5, <1>6, LineEndFound
<1>8. Lines(h)
  BY <1>2 DEF HeadIs
<1>9. n \in Nat /\ n # 0 /\ Left(text, n + 4, z) /\ SubSeq(text, k + 1, n - 1) = HeadOf(h)
  BY <1>6, <1>7, <1>8, <1>13, HeadRead
<1>10. headers' = HeadOf(h) /\ part' = n + 4 /\ text' = text /\ pc' = "check"
  BY <1>1, <1>9 DEF Step
<1>11. Left(text', part', Till(d, FromBody(m)))
  BY <1>9, <1>10, <1>14
<1>12. AtCheck(m)'
  BY <1>1, <1>2, <1>3, <1>10, <1>11 DEF AtCheck
<1> QED BY <1>10, <1>12 DEF Extracting

\* refuses the part or takes it,
LEMMA CheckKeeps ==
  ASSUME NEW m, m = message, m \in Multiparts, Told(m), Extracting(m), CheckHeaders
  PROVE  Extracting(m)'
<1> DEFINE p == m.parts[1]
<1>1. /\ pc = "check" /\ UNCHANGED mimeVars
      /\ \/ ~(IsText /\ IsReadable) /\ pc' = "done" /\ status' = 4
         \/ (IsText /\ IsReadable) /\ pc' = "body" /\ text' = text
  BY DEF CheckHeaders, Finish, Step
<1>2. PICK h \in Seq(Tokens), d \in Int :
        /\ headers = HeadOf(h) /\ HeadIs(h, p) /\ Left(text, part, Till(d, FromBody(m)))
        /\ WholeFrom(m, d)
  BY <1>1, Zenon DEF Extracting, AtCheck
<1>3. boundary = Mark(m) /\ PartIs(p)
  BY <1>1, TailIs DEF Extracting, AtCheck, Told, BoundaryNamed
<1>4. IsText /\ IsReadable <=> Printable(p)
  BY <1>2, <1>3, CheckIs
<1>5. boundary' = boundary /\ part' = part
  BY <1>1 DEF mimeVars
<1>6. CASE ~(IsText /\ IsReadable) /\ pc' = "done" /\ status' = 4
  <2>1. AtEnd(m)'
    BY <1>4, <1>6 DEF AtEnd, Printable
  <2> QED BY <1>6, <2>1 DEF Extracting
<1>7. CASE (IsText /\ IsReadable) /\ pc' = "body" /\ text' = text
  <2>1. Printable(p)
    BY <1>4, <1>7
  <2>3. Left(text', part', Till(d, FromBody(m)))
    BY <1>2, <1>5, <1>7
  <2>4. AtBody(m)'
    BY <1>2, <1>3, <1>5, <2>1, <2>3 DEF AtBody, Printable
  <2> QED BY <1>7, <2>4 DEF Extracting
<1> QED BY <1>1, <1>6, <1>7

\* and prints its body.
LEMMA BodyKeeps ==
  ASSUME NEW m, m = message, m \in Multiparts, Told(m), Extracting(m), PrintBody
  PROVE  Extracting(m)'
<1>1. pc = "body" /\ pc' = "done" /\ status' = 0 /\ output' = BodyUpTo(delimiter, From(text, part))
  BY DEF PrintBody, Finish
<1>2. boundary = Mark(m) /\ Printable(m.parts[1])
  BY <1>1 DEF Extracting, AtBody
<1>3. PICK d \in Int : Left(text, part, Till(d, FromBody(m))) /\ WholeFrom(m, d)
  BY <1>1, Zenon DEF Extracting, AtBody
<1>4. delimiter = Delimiter(m)
  BY <1>2 DEF delimiter, Delimiter
<1>5. From(text, part) = Till(d, FromBody(m))
  BY <1>3, FromLeft
<1>6. Prints(m, Till(d, m.parts[1].body), BodyUpTo(Delimiter(m), Till(d, FromBody(m))))
  BY BodyFound DEF Told, BoundaryNamed
<1>7. Prints(m, Till(d, m.parts[1].body), output')
  BY <1>1, <1>4, <1>5, <1>6
<1>8. AtEnd(m)'
  BY <1>1, <1>2, <1>3, <1>7 DEF AtEnd, Printable, WholeFrom, Prints
<1> QED BY <1>1, <1>8 DEF Extracting

\* So does any step.
LEMMA MimeStepKeeps ==
  ASSUME NEW m, m = message, m \in Multiparts, Told(m), Extracting(m), Mime
  PROVE  Extracting(m)'
<1>1. MimeStep
  BY DEF Mime
<1> QED BY <1>1, ParameterKeeps, BoundaryKeeps, DelimiterKeeps, EnterKeeps, HeadersKeep, CheckKeeps, BodyKeeps
        DEF MimeStep

\* A message without a version before its boundary: no boundary is found,
LEMMA ParameterMisses ==
  ASSUME NEW m, m = message, m \in Multiparts, ~BoundaryNamed(m), Missing(m), FindParameter
  PROVE  Missing(m)'
<1> DEFINE v == Find(Versioning, text, 1)
           f == IF v = 0 THEN 0 ELSE Find(Naming, text, v)
<1>1. /\ pc = "boundary" /\ text' = text
      /\ IF f = 0 THEN boundary' = Null /\ UNCHANGED part /\ Step("delimiter")
         ELSE part' = f + 1 /\ UNCHANGED boundary /\ Step("value")
  BY Zenon DEF FindParameter, Versioning, Naming
<1>2. text = MimeText(m) /\ (m.parts = <<>> \/ ~m.versionFirst)
  BY <1>1 DEF Missing, BoundaryNamed
<1>3. v = 0 \/ Find(Naming, text, v) = 0
  <2>1. v = Find(Versioning, text, 1)
    OBVIOUS
  <2> HIDE DEF v
  <2> QED BY <1>2, <2>1, ParameterMissed
<1> HIDE DEF v
<1>4. f = 0
  BY <1>3
<1> HIDE DEF f
<1> QED BY <1>1, <1>2, <1>4 DEF Missing, Step

\* nor the delimiter of none.
LEMMA DelimiterMisses ==
  ASSUME NEW m, m = message, m \in Multiparts, ~BoundaryNamed(m), Missing(m), FindDelimiter
  PROVE  Missing(m)'
<1> DEFINE f == Find(delimiter, text, 1)
           d == delimiter
<1>1. /\ pc = "delimiter"
      /\ IF f = 0 THEN Finish(NotFound, 0) /\ UNCHANGED part
         ELSE part' = f + Len(delimiter) /\ UNCHANGED text /\ Step("part")
  BY Zenon DEF FindDelimiter, NotFound
<1>2. text = MimeText(m) /\ (m.parts = <<>> \/ ~m.versionFirst) /\ boundary = Null
  BY <1>1 DEF Missing, BoundaryNamed
<1>3. text \in Seq(Spoken)
  <2> DEFINE v == Find(Versioning, text, 1)
  <2>1. v = Find(Versioning, text, 1)
    OBVIOUS
  <2> HIDE DEF v
  <2> QED BY <1>2, <2>1, ParameterMissed
<1>4. d \in Seq(Tokens) /\ Len(d) = 2 /\ d[2] = "(null)"
  <2>1. "--" \in Tokens /\ "(null)" \in Tokens
    BY WrittenTokens
  <2> DEFINE a == <<"--">>
             b == <<"(null)">>
  <2>2. d = a \o b
    BY <1>2 DEF delimiter, Null
  <2>3. a \in Seq(Tokens) /\ b \in Seq(Tokens) /\ Len(a) = 1 /\ Len(b) = 1 /\ b[1] = "(null)"
    BY <2>1
  <2> HIDE DEF a, b, d
  <2>4. Made(d, a, b)
    BY <2>2, <2>3, MadeOf
  <2>5. 1 \in 1 .. Len(b) /\ Len(a) + 1 = 2
    BY <2>3
  <2> QED BY <2>3, <2>4, <2>5 DEF Made
<1>5. text \in Seq(Tokens) /\ \A i \in 1 .. Len(text) : text[i] # "(null)"
  <2>1. Spoken \subseteq Tokens /\ "(null)" \notin Spoken
    BY DEF Spoken
  <2>2. text \in Seq(Tokens)
    BY <1>3, <2>1, Within
  <2>3. \A i \in 1 .. Len(text) : text[i] \in Spoken
    BY <1>3
  <2> QED BY <2>1, <2>2, <2>3
<1>6. f = 0
  <2> HIDE DEF d
  <2>1. ASSUME NEW i \in 1 .. Len(text) PROVE ~BeginsAt(d, text, i)
    <3>1. i \in Nat /\ 1 <= i /\ Len(text) \in Nat
      BY <1>5
    <3>2. BeginsAt(d, text, i) => i + Len(d) - 1 <= Len(text) /\ \A q \in 1 .. Len(d) : text[i + q - 1] = d[q]
      <4>1. text \in Seq(Tokens) /\ d \in Seq(Tokens) /\ i \in Nat /\ 1 <= i
        BY <1>4, <1>5, <3>1
      <4> QED BY <4>1, BeginsIs
    <3>3. ASSUME BeginsAt(d, text, i) PROVE FALSE
      <4>1. i + 1 \in 1 .. Len(text) /\ i + 2 - 1 = i + 1 /\ 2 \in 1 .. Len(d)
        BY <1>4, <3>1, <3>2, <3>3
      <4>2. text[i + 2 - 1] = d[2]
        BY <3>2, <3>3, <4>1
      <4> QED BY <1>4, <1>5, <4>1, <4>2
    <3> QED BY <3>3
  <2>2. Find(d, text, 1) = 0
    BY <1>5, <2>1, FindNone
  <2> QED BY <2>2 DEF d
<1> HIDE DEF f
<1> QED BY <1>1, <1>6 DEF Missing, Finish

\* So mime() ends with its message that no boundary was found.
LEMMA MimeStepMisses ==
  ASSUME NEW m, m = message, m \in Multiparts, ~BoundaryNamed(m), Missing(m), Mime
  PROVE  Missing(m)'
<1>1. MimeStep /\ pc \in {"boundary", "delimiter", "done"}
  BY DEF Mime, Missing
<1>2. FindParameter \/ FindDelimiter
  BY <1>1 DEF MimeStep, TakeBoundary, EnterPart, ReadHeaders, CheckHeaders, PrintBody
<1> QED BY <1>2, ParameterMisses, DelimiterMisses

\* No step changes the message, and no other command what the invariant speaks of.
LEMMA MessageKept == ASSUME Mime PROVE message' = message
BY DEF Mime, MimeStep, FindParameter, TakeBoundary, FindDelimiter, EnterPart, ReadHeaders, CheckHeaders,
       PrintBody, Step, Finish

\* The invariant is kept by every step.
LEMMA MimeInvKept == ASSUME MimeInv, [Next]_vars PROVE MimeInv'
<1>1. SUFFICES ASSUME command' = "mime"
               PROVE  /\ message' \in Multiparts
                      /\ Told(message') => Extracting(message)'
                      /\ ~BoundaryNamed(message') => Missing(message)'
  BY DEF MimeInv, Told, BoundaryNamed, FoldsIntoBody
<1>2. CASE Mime
  <2>1. command = "mime" /\ message' = message
    BY <1>2, MessageKept DEF Mime
  <2>2. /\ message \in Multiparts
        /\ Told(message) => Extracting(message)
        /\ ~BoundaryNamed(message) => Missing(message)
    BY <2>1 DEF MimeInv
  <2>3. PICK m : m = message
    OBVIOUS
  <2>4. m = message'
    BY <2>1, <2>3
  <2>5. ASSUME Told(message) PROVE Extracting(message)'
    <3>1. Extracting(m)'
      BY <1>2, <2>2, <2>3, <2>5, MimeStepKeeps
    <3> QED BY <2>4, <3>1
  <2>6. ASSUME ~BoundaryNamed(message) PROVE Missing(message)'
    <3>1. Missing(m)'
      BY <1>2, <2>2, <2>3, <2>6, MimeStepMisses
    <3> QED BY <2>4, <3>1
  <2> QED BY <2>1, <2>2, <2>5, <2>6
<1>3. CASE Retrieve \/ Parse
  <2>1. command' # "mime"
    BY <1>3 DEF Retrieve, Parse
  <2> QED BY <1>1, <2>1
<1>4. CASE UNCHANGED vars
  <2>1. /\ message' = message /\ text' = text /\ pc' = pc /\ output' = output /\ status' = status
        /\ boundary' = boundary /\ part' = part /\ headers' = headers /\ command' = command
    BY <1>4 DEF vars, textVars, mimeVars
  <2>2. /\ message \in Multiparts
        /\ Told(message) => Extracting(message)
        /\ ~BoundaryNamed(message) => Missing(message)
    BY <1>1, <2>1 DEF MimeInv
  <2>3. Extracting(message) => Extracting(message)'
    BY <2>1 DEF Extracting, AtPart, AtHeaders, AtCheck, AtBody, AtEnd
  <2>4. Missing(message) => Missing(message)'
    BY <2>1 DEF Missing
  <2> QED BY <2>1, <2>2, <2>3, <2>4
<1> QED BY <1>2, <1>3, <1>4 DEF Next

-----------------------------------------------------------------------------
(* What is printed.                                                        *)

\* Wherever the unfolding ends, it leaves the body partly unfolded.
LEMMA TillPartly ==
  ASSUME NEW t \in Seq(Tokens), NEW e \in Int
  PROVE  Till(e, t) \in PartlyUnfolded(t)
<1> DEFINE n == Len(t) + 1
           c == IF e < 1 THEN 1 ELSE IF e > n THEN n ELSE e
<1>1. n \in Nat /\ c \in 1 .. n /\ c \in Int
  OBVIOUS
<1>2. ASSUME NEW i \in 1 .. Len(t) - 2 PROVE i < c <=> i < e
  OBVIOUS
<1> HIDE DEF c
<1>3. FoldsBefore(c, t) = FoldsBefore(e, t)
  BY <1>2 DEF FoldsBefore
<1>4. Unfold(<<>>)[FoldsBefore(e, t)][t] = Till(e, t)
  BY WrittenTokens, TillTyped
<1>5. Unfold(<<>>)[FoldsBefore(c, t)][t] = Till(e, t)
  BY <1>3, <1>4
<1> QED BY <1>1, <1>5 DEF PartlyUnfolded

\* `mime` prints exactly the body of the first part of a message that it is written for when
\* that is text it may print, whatever the fields' order and folding and the other parts, and
\* refuses with status 4 a message of which no part is: mime(), find_mime_boundary(), parse_mime_parts(),
\* unfold_headers_mime(), parse_headers() and get_body_up_to_boundary() (imap_client.c:296-595).
THEOREM PrintsFirstPart == Spec => []MimePrintsFirstPart
<1>1. Init => MimeInv
  BY MimeStarts
<1>2. MimeInv /\ [Next]_vars => MimeInv'
  BY MimeInvKept
<1>3. ASSUME MimeInv PROVE MimePrintsFirstPart
  <2> DEFINE p == message.parts[1]
  <2>1. SUFFICES ASSUME command = "mime", pc = "done", RegularMime(message)
                 PROVE  /\ Printable(p) => status = 0 /\ output = p.body
                        /\ (\A i \in DOMAIN message.parts : ~Printable(message.parts[i])) => status = 4
    BY DEF MimePrintsFirstPart, MimeFirstPart
  <2>2. /\ message \in Multiparts /\ message.parts # <<>> /\ ~p.lower
        /\ message.quoted \/ Len(message.parts) > 1
    BY <1>3, <2>1 DEF MimeInv, RegularMime
  <2>3. AtEnd(message)
    BY <1>3, <2>1 DEF MimeInv, Extracting, RegularMime, Told, BoundaryNamed
  <2>4. ASSUME Printable(p) PROVE status = 0 /\ output = p.body
    <3>1. PICK d \in Int : Prints(message, Till(d, p.body), output) /\ WholeFrom(message, d)
      BY <2>3, <2>4 DEF AtEnd
    <3>2. output = Till(d, p.body)
      BY <2>2, <3>1 DEF Prints
    <3>3. p.encoding # "none"
      BY <2>4, SoughtIs DEF Printable
    <3>4. d <= 1
      BY <2>2, <3>1, <3>3 DEF WholeFrom
    <3>5. p.body \in Seq(Tokens)
      BY <2>2, TailIs
    <3>6. Till(d, p.body) = p.body
      BY <3>4, <3>5, TillKept
    <3> QED BY <2>3, <2>4, <3>2, <3>6 DEF AtEnd
  <2>5. ASSUME ~Printable(p) PROVE status = 4
    BY <2>3, <2>5 DEF AtEnd
  <2>6. 1 \in DOMAIN message.parts
    BY <2>2, MultipartIs
  <2> QED BY <2>4, <2>5, <2>6
<1> QED BY <1>1, <1>2, <1>3, PTL DEF Spec

\* Unless its unfolding runs into the first body, `mime` prints of any message nothing but the
\* body of the first part that may be printed, some of its folds gone; of the only part
\* behind a boundary without quotes the rest of the reply as well: the same functions
\* (imap_client.c:296-595).
THEOREM PrintsNoOtherPart == Spec => []MimePrintsNoOther
<1>1. Init => MimeInv
  BY MimeStarts
<1>2. MimeInv /\ [Next]_vars => MimeInv'
  BY MimeInvKept
<1>3. ASSUME MimeInv PROVE MimePrintsNoOther
  <2> DEFINE p == message.parts[1]
  <2>1. SUFFICES ASSUME command = "mime", Result, output # NotFound,
                        message.parts # <<>> => ~FoldsIntoBody(p)
                 PROVE  \E i \in DOMAIN message.parts :
                          /\ FirstText(i)
                          /\ \E b \in PartlyUnfolded(message.parts[i].body) : Prints(message, b, output)
    BY Zenon DEF MimePrintsNoOther, OnlyFirstText, Prints, NotFound
  <2>2. pc = "done" /\ status = 0
    BY <2>1 DEF Result
  <2>3. BoundaryNamed(message)
    BY <1>3, <2>1, <2>2 DEF MimeInv, Missing
  <2>4. message \in Multiparts /\ message.parts # <<>> /\ Told(message)
    BY <1>3, <2>1, <2>3 DEF MimeInv, BoundaryNamed, Told
  <2>5. AtEnd(message)
    BY <1>3, <2>1, <2>2, <2>4 DEF MimeInv, Extracting
  <2>6. Printable(p)
    BY <2>2, <2>5 DEF AtEnd
  <2>7. PICK d \in Int : Prints(message, Till(d, p.body), output)
    BY <2>5, <2>6 DEF AtEnd
  <2>8. p.body \in Seq(Tokens)
    BY <2>4, TailIs
  <2>9. Till(d, p.body) \in PartlyUnfolded(p.body)
    BY <2>8, TillPartly
  <2>10. 1 \in DOMAIN message.parts
    BY <2>4, MultipartIs
  <2>11. FirstText(1)
    BY <2>6 DEF FirstText
  <2> QED BY <2>7, <2>9, <2>10, <2>11
<1> QED BY <1>1, <1>2, <1>3, PTL DEF Spec
=============================================================================
