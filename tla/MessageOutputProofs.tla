-------------------------- MODULE MessageOutputProofs --------------------------
(***************************************************************************)
(* What `retrieve` prints, for every message and whatever was unread       *)
(* before it: the walk back from the end of the text stops at the end of   *)
(* the message.  And the types of all three commands: where `mime` stands  *)
(* in the text, and that rewriting the headers keeps a text a text.        *)
(***************************************************************************)
EXTENDS MessageOutput, SequenceTheorems, WellFoundedInduction, TLAPS

\* Every non-empty set of naturals has a least element.
LEMMA LeastNat ==
  ASSUME NEW T, T \subseteq Nat, T # {}
  PROVE  \E x \in T : \A y \in T : x <= y
<1>1. PICK x \in T : \A y \in T : ~(<<y, x>> \in OpToRel(<, Nat))
  BY NatLessThanWellFounded, WFMin, Zenon
<1>2. ASSUME NEW y \in T PROVE x <= y
  <2>1. x \in Nat /\ y \in Nat
    OBVIOUS
  <2>2. ~(y < x)
    BY <1>1, <2>1 DEF OpToRel
  <2> QED BY <2>1, <2>2
<1> QED BY <1>2

\* What is so of 0 and of each next place is so of all of them.
LEMMA UpTo ==
  ASSUME NEW m \in Nat, NEW T, 0 \in T, \A n \in 0 .. m - 1 : n \in T => n + 1 \in T
  PROVE  \A n \in 0 .. m : n \in T
<1> DEFINE Bad == {n \in 0 .. m : n \notin T}
<1> SUFFICES ASSUME Bad # {} PROVE FALSE
  OBVIOUS
<1>1. PICK x \in Bad : \A y \in Bad : x <= y
  <2>1. Bad \subseteq Nat
    OBVIOUS
  <2> HIDE DEF Bad
  <2> QED BY <2>1, LeastNat
<1>2. x \in 0 .. m /\ x \notin T /\ x # 0
  BY <1>1
<1>3. x - 1 \in 0 .. m - 1 /\ x - 1 \in 0 .. m /\ (x - 1) + 1 = x /\ ~(x <= x - 1)
  BY <1>2
<1>4. x - 1 \in T
  BY <1>1, <1>3
<1> QED BY <1>2, <1>3, <1>4

-----------------------------------------------------------------------------
(* Places in a text.                                                       *)

\* FirstOf is a least element, or NULL when there is none.
LEMMA FirstOfIs ==
  ASSUME NEW T, T \subseteq Nat \ {0}
  PROVE  \/ T = {} /\ FirstOf[T] = 0
         \/ FirstOf[T] \in T /\ \A j \in T : FirstOf[T] <= j
<1>1. T \in SUBSET Nat
  OBVIOUS
<1>2. FirstOf[T] = IF T = {} THEN 0 ELSE CHOOSE i \in T : \A j \in T : i <= j
  BY <1>1 DEF FirstOf
<1>3. CASE T = {}
  BY <1>2, <1>3
<1>4. CASE T # {}
  <2>1. \E i \in T : \A j \in T : i <= j
    BY <1>1, <1>4, LeastNat
  <2> QED BY <1>2, <1>4, <2>1
<1> QED BY <1>3, <1>4

\* One or two tokens are a text.
LEMMA Short ==
  ASSUME NEW S, NEW x \in S, NEW y \in S
  PROVE  <<x>> \in Seq(S) /\ <<x, y>> \in Seq(S)
  OBVIOUS

LEMMA Longer ==
  ASSUME NEW S, NEW x \in S, NEW y \in S, NEW z \in S, NEW u \in S, NEW w \in S
  PROVE  <<x, y, z>> \in Seq(S) /\ <<x, y, z, u, w>> \in Seq(S)
<1>1. <<x, y, z>> \in Seq(S)
  OBVIOUS
<1>2. <<x, y, z, u, w>> \in Seq(S)
  OBVIOUS
<1> QED BY <1>1, <1>2

\* A piece of a text.
LEMMA Piece ==
  ASSUME NEW S, NEW t \in Seq(S), NEW a \in Nat, 1 <= a, NEW b \in Int, b <= Len(t)
  PROVE  /\ SubSeq(t, a, b) \in Seq(S)
         /\ Len(SubSeq(t, a, b)) = IF a <= b THEN b - a + 1 ELSE 0
<1>1. \A i \in a .. b : t[i] \in S
  OBVIOUS
<1> QED BY <1>1, SubSeqProperties

\* The last of some places is one of them.
LEMMA LastOfIs ==
  ASSUME NEW n \in Nat, NEW T, T \subseteq 0 .. n
  PROVE  \/ T = {} /\ LastOf[T] = 0
         \/ LastOf[T] \in T /\ \A j \in T : j <= LastOf[T]
<1>1. T \in SUBSET Nat
  OBVIOUS
<1>2. LastOf[T] = IF T = {} THEN 0 ELSE CHOOSE i \in T : \A j \in T : j <= i
  BY <1>1 DEF LastOf
<1>3. CASE T = {}
  BY <1>2, <1>3
<1>4. CASE T # {}
  <2> DEFINE D == {n - i : i \in T}
  <2>1. D \subseteq Nat /\ D # {}
    <3>1. ASSUME NEW i \in T PROVE n - i \in Nat
      <4>1. i \in 0 .. n
        OBVIOUS
      <4> QED BY <4>1
    <3> QED BY <1>4, <3>1
  <2>2. PICK d \in D : \A e \in D : d <= e
    <3> HIDE DEF D
    <3> QED BY <2>1, LeastNat
  <2>3. PICK x \in T : d = n - x
    BY <2>2
  <2>4. ASSUME NEW j \in T PROVE j <= x
    <3>1. n - j \in D
      OBVIOUS
    <3>2. d <= n - j
      BY <2>2, <3>1
    <3>3. x \in Nat /\ j \in Nat
      OBVIOUS
    <3> QED BY <2>3, <3>2, <3>3
  <2>5. \E i \in T : \A j \in T : j <= i
    BY <2>4
  <2> QED BY <1>2, <1>4, <2>5
<1> QED BY <1>3, <1>4

\* Where a text is found there is room for it.
LEMMA FindPlace ==
  ASSUME NEW S, NEW t \in Seq(S), NEW p, NEW k \in Nat, 1 <= k
  PROVE  \/ Find(p, t, k) = 0
         \/ Find(p, t, k) \in k .. Len(t) /\ Find(p, t, k) + Len(p) - 1 <= Len(t)
<1> DEFINE T == {i \in k .. Len(t) : BeginsAt(p, t, i)}
<1>1. T \subseteq Nat \ {0}
  OBVIOUS
<1>2. Find(p, t, k) = FirstOf[T]
  BY DEF Find
<1>3. \A i \in T : i \in k .. Len(t) /\ i + Len(p) - 1 <= Len(t)
  BY DEF BeginsAt
<1> HIDE DEF T
<1> QED BY <1>1, <1>2, <1>3, FirstOfIs

LEMMA FindOneOfPlace ==
  ASSUME NEW S, NEW t \in Seq(S), NEW P, NEW k \in Nat, 1 <= k
  PROVE  FindOneOf(P, t, k) = 0 \/ FindOneOf(P, t, k) \in k .. Len(t)
<1> DEFINE T == {i \in k .. Len(t) : t[i] \in P}
<1>1. T \subseteq Nat \ {0}
  OBVIOUS
<1>2. FindOneOf(P, t, k) = FirstOf[T]
  BY DEF FindOneOf
<1> QED BY <1>1, <1>2, FirstOfIs

\* What is left of a text when its ends are trimmed.
LEMMA TrimTyped ==
  ASSUME NEW S, NEW t \in Seq(S), NEW P
  PROVE  WithoutLeading(P, t) \in Seq(S) /\ WithoutTrailing(P, t) \in Seq(S)
<1> DEFINE n == Len(t)
           A == {m \in 1 .. n : \A i \in 1 .. m : t[i] \in P}
           B == {m \in 1 .. n : t[m] \notin P}
           a == LastOf[A]
           b == LastOf[B]
<1>1. n \in Nat /\ A \subseteq 0 .. n /\ B \subseteq 0 .. n
  OBVIOUS
<1>2. WithoutLeading(P, t) = SubSeq(t, 1 + a, n) /\ WithoutTrailing(P, t) = SubSeq(t, 1, b)
  BY DEF WithoutLeading, WithoutTrailing
<1> HIDE DEF n, A, B
<1>3. a \in 0 .. n /\ b \in 0 .. n
  <2>1. 0 \in 0 .. n
    BY <1>1
  <2>2. a \in A \/ a = 0
    BY <1>1, LastOfIs
  <2>3. b \in B \/ b = 0
    BY <1>1, LastOfIs
  <2> QED BY <1>1, <2>1, <2>2, <2>3
<1> HIDE DEF a, b
<1>4. SubSeq(t, 1 + a, n) \in Seq(S)
  BY <1>1, <1>3, Piece DEF n
<1>5. SubSeq(t, 1, b) \in Seq(S)
  BY <1>1, <1>3, Piece DEF n
<1> QED BY <1>2, <1>4, <1>5

\* A text of one token begins where that token is.
LEMMA OneToken ==
  ASSUME NEW S, NEW t \in Seq(S), NEW x, NEW i \in 1 .. Len(t)
  PROVE  BeginsAt(<<x>>, t, i) <=> t[i] = x
<1>1. Len(<<x>>) = 1 /\ i + 1 - 1 = i /\ i <= Len(t) /\ i \in Nat /\ Len(t) \in Nat
  OBVIOUS
<1>2. SubSeq(t, i, i) = <<t[i]>>
  <2> DEFINE a == SubSeq(t, i, i)
             b == <<t[i]>>
  <2>1. a \in Seq(S) /\ Len(a) = 1 /\ a[1] = t[i]
    BY <1>1
  <2>2. b \in Seq(S) /\ Len(b) = 1 /\ b[1] = t[i]
    BY <1>1
  <2> HIDE DEF a, b
  <2>3. a = b
    BY <2>1, <2>2, SeqEqual
  <2> QED BY <2>3 DEF a, b
<1>3. BeginsAt(<<x>>, t, i) <=> SubSeq(t, i, i) = <<x>>
  BY <1>1 DEF BeginsAt
<1>4. (<<t[i]>> = <<x>>) <=> t[i] = x
  <2>1. <<t[i]>>[1] = t[i] /\ <<x>>[1] = x
    OBVIOUS
  <2> QED BY <2>1
<1> QED BY <1>2, <1>3, <1>4

\* strstr() for one token: its first place from k on.
LEMMA FindToken ==
  ASSUME NEW S, NEW t \in Seq(S), NEW x, NEW k \in Nat, 1 <= k
  PROVE  \/ Find(<<x>>, t, k) = 0 /\ \A i \in k .. Len(t) : t[i] # x
         \/ /\ Find(<<x>>, t, k) \in k .. Len(t) /\ t[Find(<<x>>, t, k)] = x
            /\ \A i \in k .. Find(<<x>>, t, k) - 1 : t[i] # x
<1> DEFINE T == {i \in k .. Len(t) : BeginsAt(<<x>>, t, i)}
           f == Find(<<x>>, t, k)
<1>1. Len(t) \in Nat
  OBVIOUS
<1>2. ASSUME NEW i \in k .. Len(t) PROVE i \in T <=> t[i] = x
  <2>1. i \in 1 .. Len(t)
    BY <1>1
  <2> QED BY <2>1, OneToken
<1>3. f = FirstOf[T]
  BY DEF Find
<1>4. T \subseteq Nat \ {0} /\ T \subseteq k .. Len(t)
  BY <1>1
<1> HIDE DEF T, f
<1>5. \/ T = {} /\ f = 0
      \/ f \in T /\ \A j \in T : f <= j
  BY <1>3, <1>4, FirstOfIs
<1>6. CASE T = {} /\ f = 0
  BY <1>2, <1>6 DEF f
<1>7. CASE f \in T /\ \A j \in T : f <= j
  <2>1. f \in k .. Len(t) /\ t[f] = x
    BY <1>2, <1>4, <1>7
  <2>2. ASSUME NEW i \in k .. f - 1, t[i] = x PROVE FALSE
    <3>1. i \in k .. Len(t) /\ ~(f <= i)
      BY <1>1, <2>1
    <3> QED BY <1>2, <1>7, <2>2, <3>1
  <2> QED BY <2>1, <2>2 DEF f
<1> QED BY <1>5, <1>6, <1>7

\* The place is the one that has the token with none before it.
LEMMA FindIs ==
  ASSUME NEW S, NEW t \in Seq(S), NEW x, NEW k \in Nat, 1 <= k,
         NEW n \in k .. Len(t), t[n] = x, \A i \in k .. n - 1 : t[i] # x
  PROVE  Find(<<x>>, t, k) = n
<1> DEFINE f == Find(<<x>>, t, k)
<1>1. \/ f = 0 /\ \A i \in k .. Len(t) : t[i] # x
      \/ f \in k .. Len(t) /\ t[f] = x /\ \A i \in k .. f - 1 : t[i] # x
  BY FindToken
<1>2. Len(t) \in Nat
  OBVIOUS
<1> HIDE DEF f
<1>3. f \in k .. Len(t) /\ t[f] = x /\ \A i \in k .. f - 1 : t[i] # x
  BY <1>1
<1>4. ~(f < n) /\ ~(n < f)
  <2>1. f < n => f \in k .. n - 1
    BY <1>2, <1>3
  <2>2. n < f => n \in k .. f - 1
    BY <1>2, <1>3
  <2> QED BY <1>3, <2>1, <2>2
<1>5. f = n
  BY <1>2, <1>3, <1>4
<1> QED BY <1>5 DEF f

-----------------------------------------------------------------------------
(* Texts in one.                                                           *)

\* What is so of 1 and of each next place is so of all of them.
LEMMA FromOne ==
  ASSUME NEW m \in Nat, NEW T, 1 \in T, \A n \in 1 .. m - 1 : n \in T => n + 1 \in T
  PROVE  \A n \in 1 .. m : n \in T
<1> DEFINE U == T \cup {0}
<1>1. 0 \in U /\ \A n \in 0 .. m - 1 : n \in U => n + 1 \in U
  OBVIOUS
<1>2. \A n \in 0 .. m : n \in U
  <2> HIDE DEF U
  <2> QED BY <1>1, UpTo
<1> QED BY <1>2

LEMMA NotEmpty ==
  ASSUME NEW S, NEW t \in Seq(S), t # <<>>
  PROVE  Len(t) \in Nat /\ 1 <= Len(t) /\ 1 \in 1 .. Len(t) /\ Len(t) \in 1 .. Len(t)
<1> DEFINE L == Len(t)
<1>1. L \in Nat /\ L # 0
  BY EmptySeq
<1> HIDE DEF L
<1>2. 1 <= L /\ 1 \in 1 .. L /\ L \in 1 .. L
  BY <1>1
<1> QED BY <1>1, <1>2 DEF L

\* The recursion of FlattenSeq: f[n] is the first n texts of s in one.
Flattening(f, s) == f = [i \in 1 .. Len(s) |-> IF i = 1 THEN s[i] ELSE f[i - 1] \o s[i]]

InOne(s) == CHOOSE f : Flattening(f, s)

\* The values of a function that follows the recursion up to m.
Flattens(f, s, m) == f[1] = s[1] /\ \A n \in 2 .. m : f[n] = f[n - 1] \o s[n]

\* There is such a function, for every number of texts.
LEMMA FlattenExists ==
  ASSUME NEW S, NEW s \in Seq(S), s # <<>>
  PROVE  \E f : Flattening(f, s)
<1> DEFINE L == Len(s)
           Good(m, f) == f = [n \in 1 .. m |-> f[n]] /\ Flattens(f, s, m)
           T == {m \in Nat : \E f : Good(m, f)}
<1>1. L \in Nat /\ 1 <= L /\ L \in 1 .. L
  BY NotEmpty
<1> HIDE DEF L
<1>2. 1 \in T
  <2> DEFINE g == [n \in 1 .. 1 |-> s[1]]
  <2>1. g[1] = s[1] /\ g = [n \in 1 .. 1 |-> g[n]]
    OBVIOUS
  <2>2. Flattens(g, s, 1)
    BY <2>1 DEF Flattens
  <2> QED BY <2>1, <2>2
<1>3. ASSUME NEW m \in 1 .. L - 1, m \in T PROVE m + 1 \in T
  <2>1. PICK f : Good(m, f)
    BY <1>3
  <2> DEFINE v == f[m] \o s[m + 1]
             g == [n \in 1 .. m + 1 |-> IF n = m + 1 THEN v ELSE f[n]]
  <2>2. m \in Nat /\ 1 <= m
    BY <1>1
  <2> HIDE DEF v
  <2>3. g = [n \in 1 .. m + 1 |-> g[n]] /\ g[m + 1] = v /\ \A n \in 1 .. m : g[n] = f[n]
    BY <2>2
  <2>4. f[1] = s[1] /\ \A n \in 2 .. m : f[n] = f[n - 1] \o s[n]
    BY <2>1 DEF Flattens
  <2>5. g[m + 1] = g[m] \o s[m + 1]
    <3>1. m \in 1 .. m
      BY <2>2
    <3> QED BY <2>3, <3>1 DEF v
  <2> HIDE DEF g
  <2>6. ASSUME NEW n \in 2 .. m + 1 PROVE g[n] = g[n - 1] \o s[n]
    <3>1. CASE n = m + 1
      <4>1. n - 1 = m
        BY <2>2, <3>1
      <4> QED BY <2>5, <3>1, <4>1
    <3>2. CASE n # m + 1
      <4>1. n \in 2 .. m /\ n \in 1 .. m /\ n - 1 \in 1 .. m
        BY <2>2, <3>2
      <4> QED BY <2>3, <2>4, <4>1
    <3> QED BY <3>1, <3>2
  <2>7. g[1] = s[1]
    <3>1. 1 \in 1 .. m
      BY <2>2
    <3> QED BY <2>3, <2>4, <3>1
  <2>8. Flattens(g, s, m + 1)
    BY <2>6, <2>7 DEF Flattens
  <2>9. Good(m + 1, g) /\ m + 1 \in Nat
    BY <2>2, <2>3, <2>8
  <2> QED BY <2>9
<1> HIDE DEF T
<1>4. L \in T
  BY <1>1, <1>2, <1>3, FromOne
<1>5. PICK f : Good(L, f)
  BY <1>4 DEF T
<1> DEFINE h == [i \in 1 .. L |-> IF i = 1 THEN s[i] ELSE f[i - 1] \o s[i]]
<1>6. ASSUME NEW i \in 1 .. L PROVE f[i] = h[i]
  <2>1. i = 1 \/ i \in 2 .. L
    BY <1>1
  <2> QED BY <1>5, <2>1 DEF Flattens
<1>7. f = h
  BY <1>5, <1>6
<1>8. Flattening(f, s)
  BY <1>7, Zenon DEF L, Flattening
<1> QED BY <1>8

\* FlattenSeq unrolled.
LEMMA FlattenIs ==
  ASSUME NEW S, NEW s \in Seq(S), s # <<>>
  PROVE  Flattens(InOne(s), s, Len(s)) /\ FlattenSeq(s) = InOne(s)[Len(s)]
<1> DEFINE f == InOne(s)
           L == Len(s)
           body(i) == IF i = 1 THEN s[i] ELSE f[i - 1] \o s[i]
<1>1. f = [i \in 1 .. Len(s) |-> IF i = 1 THEN s[i] ELSE f[i - 1] \o s[i]]
  <2>1. Flattening(f, s)
    BY FlattenExists, Zenon DEF InOne
  <2> HIDE DEF f
  <2> QED BY <2>1, Zenon DEF Flattening
<1>2. L \in Nat /\ 1 <= L
  BY NotEmpty
<1>3. FlattenSeq(s) = f[Len(s)]
  BY <1>2 DEF FlattenSeq, InOne, Flattening
<1> HIDE DEF f
<1>4. f = [i \in 1 .. L |-> body(i)]
  BY <1>1
<1> HIDE DEF L
<1>5. \A i \in 1 .. L : f[i] = body(i)
  <2> HIDE DEF body
  <2> QED BY <1>4
<1>6. f[1] = s[1]
  <2>1. 1 \in 1 .. L
    BY <1>2
  <2> QED BY <1>5, <2>1
<1>7. ASSUME NEW n \in 2 .. L PROVE f[n] = f[n - 1] \o s[n]
  <2>1. n \in 1 .. L /\ n # 1
    BY <1>2
  <2> QED BY <1>5, <2>1
<1>8. Flattens(f, s, L)
  BY <1>6, <1>7 DEF Flattens
<1> QED BY <1>3, <1>8 DEF f, L

LEMMA Associative ==
  ASSUME NEW S
  PROVE  \A a, b, c \in Seq(S) : (a \o b) \o c = a \o (b \o c)
BY ConcatAssociative

\* No texts in one are the empty text.
LEMMA FlattenNone == FlattenSeq(<<>>) = <<>>
BY DEF FlattenSeq

\* One more text in one with the others.
LEMMA FlattenMore ==
  ASSUME NEW S, NEW s \in Seq(Seq(S)), NEW e \in Seq(S)
  PROVE  /\ Append(s, e) \in Seq(Seq(S))
         /\ FlattenSeq(Append(s, e)) = FlattenSeq(s) \o e
<1> DEFINE u == Append(s, e)
           L == Len(s)
           f == InOne(s)
           g == InOne(u)
<1>1. /\ u \in Seq(Seq(S)) /\ u # <<>> /\ Len(u) = L + 1 /\ L \in Nat /\ u[L + 1] = e
      /\ \A i \in 1 .. L : u[i] = s[i]
  BY AppendProperties
<1> HIDE DEF u
<1>2. Flattens(g, u, L + 1) /\ FlattenSeq(u) = g[L + 1]
  BY <1>1, FlattenIs
<1> HIDE DEF g
<1>3. CASE s = <<>>
  <2>1. L = 0 /\ FlattenSeq(s) = <<>> /\ <<>> \o e = e
    BY <1>3, FlattenNone, ConcatEmptySeq
  <2>2. g[1] = u[1]
    BY <1>2 DEF Flattens
  <2> QED BY <1>1, <1>2, <2>1, <2>2 DEF u
<1>4. CASE s # <<>>
  <2>1. Flattens(f, s, L) /\ FlattenSeq(s) = f[L] /\ 1 <= L /\ 1 \in 1 .. L /\ L \in 1 .. L
    BY <1>4, FlattenIs, NotEmpty
  <2> DEFINE T == {n \in Nat : g[n] = f[n]}
  <2> HIDE DEF f, L
  <2>2. 1 \in T
    BY <1>1, <1>2, <2>1 DEF Flattens
  <2>3. ASSUME NEW n \in 1 .. L - 1, n \in T PROVE n + 1 \in T
    <3>1. n + 1 \in 2 .. L /\ n + 1 \in 2 .. L + 1 /\ n + 1 \in 1 .. L /\ (n + 1) - 1 = n
      BY <1>1
    <3>2. g[n + 1] = g[n] \o u[n + 1] /\ f[n + 1] = f[n] \o s[n + 1]
      BY <1>2, <2>1, <3>1 DEF Flattens
    <3>3. g[n] = f[n] /\ u[n + 1] = s[n + 1] /\ n + 1 \in Nat
      BY <1>1, <2>3, <3>1
    <3> QED BY <3>2, <3>3
  <2> HIDE DEF T
  <2>4. L \in T
    BY <1>1, <2>1, <2>2, <2>3, FromOne
  <2>5. L + 1 \in 2 .. L + 1 /\ (L + 1) - 1 = L
    BY <1>1, <2>1
  <2>6. g[L + 1] = g[L] \o u[L + 1]
    BY <1>2, <2>5 DEF Flattens
  <2>7. g[L] = f[L]
    BY <2>4 DEF T
  <2> QED BY <1>1, <1>2, <2>1, <2>6, <2>7 DEF u
<1> QED BY <1>3, <1>4

\* Texts in one are a text.
LEMMA FlattenTyped ==
  ASSUME NEW S, NEW s \in Seq(Seq(S))
  PROVE  FlattenSeq(s) \in Seq(S)
<1> DEFINE L == Len(s)
           f == InOne(s)
<1>1. CASE s = <<>>
  BY <1>1, FlattenNone, EmptySeq
<1>2. CASE s # <<>>
  <2>1. Flattens(f, s, L) /\ FlattenSeq(s) = f[L] /\ L \in Nat /\ 1 \in 1 .. L /\ L \in 1 .. L
    BY <1>2, FlattenIs, NotEmpty
  <2>2. \A i \in 1 .. L : s[i] \in Seq(S)
    OBVIOUS
  <2> DEFINE T == {n \in Nat : f[n] \in Seq(S)}
  <2> HIDE DEF f, L
  <2>3. 1 \in T
    BY <2>1, <2>2 DEF Flattens
  <2>4. ASSUME NEW n \in 1 .. L - 1, n \in T PROVE n + 1 \in T
    <3>1. n + 1 \in 2 .. L /\ n + 1 \in 1 .. L /\ (n + 1) - 1 = n /\ n + 1 \in Nat
      BY <2>1
    <3>2. f[n + 1] = f[n] \o s[n + 1]
      BY <2>1, <3>1 DEF Flattens
    <3>3. f[n] \in Seq(S) /\ s[n + 1] \in Seq(S)
      BY <2>2, <2>4, <3>1
    <3>4. f[n] \o s[n + 1] \in Seq(S)
      BY <3>3, ConcatProperties
    <3> QED BY <3>1, <3>2, <3>4
  <2> HIDE DEF T
  <2>5. L \in T
    BY <2>1, <2>3, <2>4, FromOne
  <2> QED BY <2>1, <2>5 DEF T
<1> QED BY <1>1, <1>2

LEMMA AppendToBoth ==
  ASSUME NEW S, NEW s \in Seq(S), NEW r \in Seq(S), NEW e \in S
  PROVE  s \o Append(r, e) = Append(s \o r, e) /\ s \o r \in Seq(S)
<1> DEFINE x == <<e>>
<1>1. x \in Seq(S) /\ Append(r, e) = r \o x
  BY AppendIsConcat
<1>2. s \o r \in Seq(S) /\ Append(s \o r, e) = (s \o r) \o x
  <2>1. s \o r \in Seq(S)
    BY ConcatProperties
  <2> QED BY <2>1, AppendIsConcat
<1> HIDE DEF x
<1>3. (s \o r) \o x = s \o (r \o x)
  BY <1>1, Associative
<1> QED BY <1>1, <1>2, <1>3

\* Two sequences of texts in one.
LEMMA FlattenBoth ==
  ASSUME NEW S, NEW s \in Seq(Seq(S)), NEW r \in Seq(Seq(S))
  PROVE  /\ s \o r \in Seq(Seq(S))
         /\ FlattenSeq(s \o r) = FlattenSeq(s) \o FlattenSeq(r)
<1> DEFINE L == Len(r)
           p(n) == SubSeq(r, 1, n)
           a == FlattenSeq(s)
           T == {n \in Nat : FlattenSeq(s \o p(n)) = a \o FlattenSeq(p(n))}
<1>0. s \o r \in Seq(Seq(S)) /\ L \in Nat /\ a \in Seq(S)
  BY ConcatProperties, LenProperties, FlattenTyped
<1>1. 0 \in T
  <2>1. p(0) = <<>> /\ s \o <<>> = s /\ a \o <<>> = a
    BY <1>0, SubSeqEmpty, ConcatEmptySeq
  <2> HIDE DEF a, p
  <2> QED BY <2>1, FlattenNone DEF a
<1>2. ASSUME NEW n \in 0 .. L - 1, n \in T PROVE n + 1 \in T
  <2>1. n \in Nat /\ n + 1 \in Nat /\ n <= L /\ n + 1 <= L /\ n + 1 \in 1 .. L /\ (n + 1) - 1 = n
        /\ 1 \in 1 .. L
    BY <1>0
  <2> DEFINE e == r[n + 1]
             b == FlattenSeq(p(n))
  <2>2. e \in Seq(S) /\ p(n) \in Seq(Seq(S))
    <3>1. e \in Seq(S)
      BY <2>1, ElementOfSeq
    <3> QED BY <2>1, <3>1, Piece
  <2>3. p(n + 1) = Append(p(n), e)
    <3>1. p(n + 1) = p(n) \o <<e>>
      BY <2>1, SubSeqRecursiveSecond
    <3> HIDE DEF p, e
    <3> QED BY <2>2, <3>1, AppendIsConcat
  <2> HIDE DEF p, e, a
  <2>4. s \o Append(p(n), e) = Append(s \o p(n), e) /\ s \o p(n) \in Seq(Seq(S))
    BY <2>2, AppendToBoth, Zenon
  <2>5. FlattenSeq(s \o p(n + 1)) = FlattenSeq(s \o p(n)) \o e
        /\ FlattenSeq(p(n + 1)) = FlattenSeq(p(n)) \o e
    BY <2>2, <2>3, <2>4, FlattenMore
  <2>6. FlattenSeq(s \o p(n)) = a \o FlattenSeq(p(n)) /\ FlattenSeq(p(n)) \in Seq(S)
    BY <1>2, <2>2, FlattenTyped
  <2>7. (a \o FlattenSeq(p(n))) \o e = a \o (FlattenSeq(p(n)) \o e)
    <3>1. a \in Seq(S) /\ FlattenSeq(p(n)) \in Seq(S) /\ e \in Seq(S)
      BY <1>0, <2>2, <2>6
    <3> QED BY <3>1, Associative, SMTT(30)
  <2>8. FlattenSeq(s \o p(n + 1)) = a \o FlattenSeq(p(n + 1))
    BY <2>5, <2>6, <2>7, Zenon
  <2> QED BY <2>1, <2>8
<1>3. L \in T
  <2> HIDE DEF T
  <2>1. L \in 0 .. L
    BY <1>0
  <2> QED BY <1>0, <1>1, <1>2, <2>1, UpTo
<1>4. p(L) = r
  BY SubSeqFull
<1> QED BY <1>0, <1>3, <1>4

-----------------------------------------------------------------------------
(* Unfolding.                                                              *)

\* What place i of t becomes when it is unfolded.
Unfolded(folds, filler, t, i) ==
  IF i \in folds THEN filler ELSE IF FoldedAway(folds, t, i) THEN <<>> ELSE <<t[i]>>

UnfoldedPlaces(folds, filler, t) == [i \in 1 .. Len(t) |-> Unfolded(folds, filler, t, i)]

\* Unfold unrolled; it makes no tokens but those of the filler.
LEMMA UnfoldTyped ==
  ASSUME NEW S, S \subseteq STRING, NEW folds \in SUBSET Nat, NEW filler \in Seq(S), NEW t \in Seq(S)
  PROVE  /\ UnfoldedPlaces(folds, filler, t) \in Seq(Seq(S))
         /\ Unfold(filler)[folds][t] = FlattenSeq(UnfoldedPlaces(folds, filler, t))
         /\ Unfold(filler)[folds][t] \in Seq(S)
<1> DEFINE L == Len(t)
           u == UnfoldedPlaces(folds, filler, t)
<1>1. t \in Seq(STRING) /\ L \in Nat
  <2>1. t \in Seq(STRING)
    BY SeqMonotonic, Zenon
  <2>2. L \in Nat
    BY LenProperties
  <2> QED BY <2>1, <2>2
<1>2. Unfold(filler)[folds][t] = FlattenSeq(u)
  BY <1>1 DEF Unfold, Unfolded, UnfoldedPlaces
<1>3. ASSUME NEW i \in 1 .. L PROVE Unfolded(folds, filler, t, i) \in Seq(S)
  <2>1. t[i] \in S
    BY ElementOfSeq
  <2> QED BY <2>1 DEF Unfolded
<1>4. u \in Seq(Seq(S))
  <2> DEFINE w(i) == Unfolded(folds, filler, t, i)
  <2> HIDE DEF w, L
  <2>1. [i \in 1 .. L |-> w(i)] \in Seq(Seq(S))
    <3>1. \A i \in 1 .. L : w(i) \in Seq(S)
      BY <1>3 DEF w
    <3> QED BY <1>1, <3>1, IsASeq
  <2> QED BY <2>1 DEF w, L, UnfoldedPlaces
<1>5. FlattenSeq(u) \in Seq(S)
  BY <1>4, FlattenTyped
<1> QED BY <1>2, <1>4, <1>5

-----------------------------------------------------------------------------
(* The reply to A03 as `retrieve` has it.                                  *)

\* Two texts in one: where the tokens of each are.
LEMMA Joined ==
  ASSUME NEW S, NEW a \in Seq(S), NEW b \in Seq(S)
  PROVE  /\ a \o b \in Seq(S) /\ Len(a) \in Nat /\ Len(b) \in Nat
         /\ Len(a \o b) = Len(a) + Len(b)
         /\ \A i \in 1 .. Len(a) : (a \o b)[i] = a[i]
         /\ \A i \in 1 .. Len(b) : (a \o b)[Len(a) + i] = b[i]
<1>1. Len(a) \in Nat /\ Len(b) \in Nat
  OBVIOUS
<1>2. \A i \in 1 .. Len(b) : Len(a) + i \in 1 .. Len(a) + Len(b) /\ Len(a) + i > Len(a)
                             /\ (Len(a) + i) - Len(a) = i
  BY <1>1
<1>3. \A i \in 1 .. Len(a) : i \in 1 .. Len(a) + Len(b) /\ i <= Len(a)
  BY <1>1
<1> QED BY <1>1, <1>2, <1>3, ConcatProperties

\* A text with one more token, and with two more.
LEMMA JoinedOne ==
  ASSUME NEW S, NEW a \in Seq(S), NEW x \in S
  PROVE  /\ a \o <<x>> \in Seq(S) /\ Len(a) \in Nat /\ Len(a \o <<x>>) = Len(a) + 1
         /\ \A i \in 1 .. Len(a) : (a \o <<x>>)[i] = a[i]
         /\ (a \o <<x>>)[Len(a) + 1] = x
<1> DEFINE b == <<x>>
<1>1. b \in Seq(S)
  OBVIOUS
<1>2. Len(b) = 1 /\ b[1] = x /\ 1 \in 1 .. Len(b)
  OBVIOUS
<1> HIDE DEF b
<1>3. /\ a \o b \in Seq(S) /\ Len(a) \in Nat /\ Len(b) \in Nat
      /\ Len(a \o b) = Len(a) + Len(b)
      /\ \A i \in 1 .. Len(a) : (a \o b)[i] = a[i]
      /\ \A i \in 1 .. Len(b) : (a \o b)[Len(a) + i] = b[i]
  BY <1>1, Joined
<1>4. /\ a \o b \in Seq(S) /\ Len(a) \in Nat /\ Len(a \o b) = Len(a) + 1
      /\ \A i \in 1 .. Len(a) : (a \o b)[i] = a[i]
      /\ (a \o b)[Len(a) + 1] = x
  BY <1>2, <1>3
<1> QED BY <1>4 DEF b

LEMMA JoinedTwo ==
  ASSUME NEW S, NEW a \in Seq(S), NEW x \in S, NEW y \in S
  PROVE  /\ a \o <<x, y>> \in Seq(S) /\ Len(a) \in Nat /\ Len(a \o <<x, y>>) = Len(a) + 2
         /\ \A i \in 1 .. Len(a) : (a \o <<x, y>>)[i] = a[i]
         /\ (a \o <<x, y>>)[Len(a) + 1] = x /\ (a \o <<x, y>>)[Len(a) + 2] = y
<1> DEFINE b == <<x, y>>
<1>1. b \in Seq(S)
  OBVIOUS
<1>2. Len(b) = 2 /\ b[1] = x /\ b[2] = y /\ 1 \in 1 .. Len(b) /\ 2 \in 1 .. Len(b)
  OBVIOUS
<1> HIDE DEF b
<1>3. /\ a \o b \in Seq(S) /\ Len(a) \in Nat /\ Len(b) \in Nat
      /\ Len(a \o b) = Len(a) + Len(b)
      /\ \A i \in 1 .. Len(a) : (a \o b)[i] = a[i]
      /\ \A i \in 1 .. Len(b) : (a \o b)[Len(a) + i] = b[i]
  BY <1>1, Joined
<1>4. /\ a \o b \in Seq(S) /\ Len(a) \in Nat /\ Len(a \o b) = Len(a) + 2
      /\ \A i \in 1 .. Len(a) : (a \o b)[i] = a[i]
      /\ (a \o b)[Len(a) + 1] = x /\ (a \o b)[Len(a) + 2] = y
  BY <1>2, <1>3
<1> QED BY <1>4 DEF b

\* The layout of a response of the server between its lines: f announces the literal,
\* p ends it, g is the tagged line.
Response(f, c, n, l, p, g) == <<f>> \o <<c, n>> \o l \o <<p>> \o <<c, n>> \o <<g>> \o <<c, n>>

Laid(t, f, c, n, l, p, g) ==
  /\ Len(l) \in Nat /\ Len(t) = Len(l) + 9
  /\ t[1] = f /\ t[2] = c /\ t[3] = n
  /\ \A i \in 1 .. Len(l) : t[i + 3] = l[i]
  /\ t[Len(l) + 4] = p /\ t[Len(l) + 5] = c /\ t[Len(l) + 6] = n
  /\ t[Len(l) + 7] = g /\ t[Len(l) + 8] = c /\ t[Len(l) + 9] = n

LEMMA ResponseLayout ==
  ASSUME NEW S, NEW l \in Seq(S), NEW f \in S, NEW c \in S, NEW n \in S, NEW p \in S, NEW g \in S,
         NEW t, t = Response(f, c, n, l, p, g)
  PROVE  t \in Seq(S) /\ Laid(t, f, c, n, l, p, g)
<1> DEFINE h == <<f>> \o <<c, n>>
           x == h \o l
           y == x \o <<p>>
           z == y \o <<c, n>>
           w == z \o <<g>>
           k == Len(l)
<1>1. h \in Seq(S) /\ Len(h) = 3 /\ h[1] = f /\ h[2] = c /\ h[3] = n
  <2>2. <<f>> \in Seq(S) /\ Len(<<f>>) = 1 /\ <<f>>[1] = f /\ 1 \in 1 .. 1
    OBVIOUS
  <2> QED BY <2>2, JoinedTwo
<1>2. t = w \o <<c, n>>
  BY DEF Response
<1> HIDE DEF h, w
<1>3. /\ x \in Seq(S) /\ k \in Nat /\ Len(x) = k + 3
      /\ x[1] = f /\ x[2] = c /\ x[3] = n
      /\ \A i \in 1 .. k : x[i + 3] = l[i]
  <2>1. h \in Seq(S)
    BY <1>1
  <2>2. /\ x \in Seq(S) /\ Len(l) \in Nat /\ Len(x) = Len(h) + Len(l)
        /\ \A i \in 1 .. Len(h) : x[i] = h[i]
        /\ \A i \in 1 .. Len(l) : x[Len(h) + i] = l[i]
    BY <2>1, Joined
  <2> HIDE DEF x
  <2>3. \A i \in 1 .. Len(l) : 3 + i = i + 3
    BY <2>2
  <2> QED BY <1>1, <2>2, <2>3
<1> HIDE DEF x
<1>4. /\ y \in Seq(S) /\ Len(y) = k + 4 /\ y[k + 4] = p /\ \A i \in 1 .. k + 3 : y[i] = x[i]
  <2>1. x \in Seq(S)
    BY <1>3
  <2>2. /\ y \in Seq(S) /\ Len(y) = Len(x) + 1
        /\ \A i \in 1 .. Len(x) : y[i] = x[i]
        /\ y[Len(x) + 1] = p
    BY <2>1, JoinedOne
  <2> HIDE DEF y, k
  <2>3. Len(x) + 1 = k + 4
    BY <1>3
  <2> QED BY <1>3, <2>2, <2>3
<1> HIDE DEF y
<1>5. /\ z \in Seq(S) /\ Len(z) = k + 6 /\ z[k + 5] = c /\ z[k + 6] = n
      /\ \A i \in 1 .. k + 4 : z[i] = y[i]
  <2>1. y \in Seq(S)
    BY <1>4
  <2>2. /\ z \in Seq(S) /\ Len(z) = Len(y) + 2
        /\ \A i \in 1 .. Len(y) : z[i] = y[i]
        /\ z[Len(y) + 1] = c /\ z[Len(y) + 2] = n
    BY <2>1, JoinedTwo
  <2> HIDE DEF z, k
  <2>3. Len(y) + 1 = k + 5 /\ Len(y) + 2 = k + 6
    BY <1>3, <1>4
  <2> QED BY <1>4, <2>2, <2>3
<1> HIDE DEF z
<1>6. /\ w \in Seq(S) /\ Len(w) = k + 7 /\ w[k + 7] = g /\ \A i \in 1 .. k + 6 : w[i] = z[i]
  <2>1. z \in Seq(S)
    BY <1>5
  <2>2. /\ w \in Seq(S) /\ Len(w) = Len(z) + 1
        /\ \A i \in 1 .. Len(z) : w[i] = z[i]
        /\ w[Len(z) + 1] = g
    BY <2>1, JoinedOne DEF w
  <2> HIDE DEF k
  <2>3. Len(z) + 1 = k + 7
    BY <1>3, <1>5
  <2> QED BY <1>5, <2>2, <2>3
<1>7. /\ t \in Seq(S) /\ Len(t) = k + 9 /\ t[k + 8] = c /\ t[k + 9] = n
      /\ \A i \in 1 .. k + 7 : t[i] = w[i]
  <2>1. w \in Seq(S)
    BY <1>6
  <2>2. /\ t \in Seq(S) /\ Len(t) = Len(w) + 2
        /\ \A i \in 1 .. Len(w) : t[i] = w[i]
        /\ t[Len(w) + 1] = c /\ t[Len(w) + 2] = n
    <3> DEFINE q == w \o <<c, n>>
    <3>1. /\ q \in Seq(S) /\ Len(q) = Len(w) + 2
          /\ \A i \in 1 .. Len(w) : q[i] = w[i]
          /\ q[Len(w) + 1] = c /\ q[Len(w) + 2] = n
      BY <2>1, JoinedTwo
    <3> QED BY <1>2, <3>1
  <2> HIDE DEF k
  <2>3. Len(w) + 1 = k + 8 /\ Len(w) + 2 = k + 9
    BY <1>3, <1>6
  <2> QED BY <1>6, <2>2, <2>3
<1> HIDE DEF k
<1>8. ASSUME NEW i \in 1 .. k + 3 PROVE t[i] = x[i]
  <2>1. i \in 1 .. k + 4 /\ i \in 1 .. k + 6 /\ i \in 1 .. k + 7
    BY <1>3
  <2>2. t[i] = w[i] /\ w[i] = z[i] /\ z[i] = y[i] /\ y[i] = x[i]
    BY <1>4, <1>5, <1>6, <1>7, <2>1
  <2> QED BY <2>2
<1>9. 1 \in 1 .. k + 3 /\ 2 \in 1 .. k + 3 /\ 3 \in 1 .. k + 3 /\ \A i \in 1 .. k : i + 3 \in 1 .. k + 3
  BY <1>3
<1>10. /\ k + 4 \in 1 .. k + 4 /\ k + 4 \in 1 .. k + 6 /\ k + 4 \in 1 .. k + 7
       /\ k + 5 \in 1 .. k + 6 /\ k + 5 \in 1 .. k + 7 /\ k + 6 \in 1 .. k + 6 /\ k + 6 \in 1 .. k + 7
       /\ k + 7 \in 1 .. k + 7
  BY <1>3
<1>11. /\ t[k + 4] = p /\ t[k + 5] = c /\ t[k + 6] = n /\ t[k + 7] = g
  <2>1. t[k + 4] = w[k + 4] /\ w[k + 4] = z[k + 4] /\ z[k + 4] = y[k + 4]
    BY <1>5, <1>6, <1>7, <1>10
  <2>2. t[k + 5] = w[k + 5] /\ w[k + 5] = z[k + 5] /\ t[k + 6] = w[k + 6] /\ w[k + 6] = z[k + 6]
    BY <1>6, <1>7, <1>10
  <2>3. t[k + 7] = w[k + 7]
    BY <1>7, <1>10
  <2> QED BY <1>4, <1>5, <1>6, <2>1, <2>2, <2>3
<1>12. /\ t[1] = f /\ t[2] = c /\ t[3] = n /\ \A i \in 1 .. k : t[i + 3] = l[i]
  BY <1>3, <1>8, <1>9
<1> QED BY <1>3, <1>7, <1>11, <1>12 DEF k, Laid

\* The tokens of the frame that hold more than letters, by names of their own.
Announced == "* FETCH"
Tagged    == "A03 OK"
Paren     == ")"

LEMMA FrameTokens ==
  /\ {Announced, Tagged, Paren, "CR", "LF"} \subseteq Tokens
  /\ Announced # Tagged /\ Paren # Tagged /\ "CR" # Tagged /\ "LF" # Tagged
  /\ Announced # "LF" /\ Announced \notin LineEnds \cup {Paren} /\ Paren \notin LineEnds
  BY Zenon, MailsAssumption DEF MailsAssumption, Announced, Tagged, Paren, LineEnds

\* What the assumption says of a message.
LEMMA MailTyped ==
  ASSUME NEW m \in Mails
  PROVE  /\ m.sent \in BOOLEAN /\ m.ahead \in Seq(Tokens) /\ m.literal \in Seq(Tokens)
         /\ m.ahead # <<>> => (\E i \in 1 .. Len(m.ahead) : m.ahead[i] = "LF") /\ ~Quotes(m.ahead)
<1>1. /\ m.sent \in BOOLEAN /\ m.ahead \in Seq(Tokens) /\ m.literal \in Seq(Tokens)
      /\ m.ahead # <<>> => (\E i \in DOMAIN m.ahead : m.ahead[i] = "LF") /\ ~Quotes(m.ahead)
  BY MailsAssumption, Zenon DEF MailsAssumption
<1>2. DOMAIN m.ahead = 1 .. Len(m.ahead)
  BY <1>1
<1> QED BY <1>1, <1>2

LEMMA QuotesIs ==
  ASSUME NEW S, NEW t \in Seq(S)
  PROVE  Quotes(t) <=> \E i \in 1 .. Len(t) : t[i] = Tagged
<1> DEFINE k == Find(<<Tagged>>, t, 1)
<1>1. \/ k = 0 /\ \A i \in 1 .. Len(t) : t[i] # Tagged
      \/ k \in 1 .. Len(t) /\ t[k] = Tagged
  BY FindToken
<1>2. Quotes(t) <=> k # 0
  BY DEF Quotes, Tagged
<1> HIDE DEF k
<1> QED BY <1>1, <1>2

\* The place of the last token of what is to be printed.
EndOf(m) == Len(m.ahead) + 3 + Len(m.literal)

\* Where the tokens of the reply r are: what was unread, the announced literal, its end.
Framed(m, r) ==
  /\ r \in Seq(Tokens) /\ Len(m.ahead) \in Nat /\ Len(m.literal) \in Nat
  /\ EndOf(m) = Len(m.ahead) + 3 + Len(m.literal) /\ Len(r) = EndOf(m) + 6
  /\ \A i \in 1 .. Len(m.ahead) : r[i] = m.ahead[i]
  /\ r[Len(m.ahead) + 1] = Announced
  /\ r[Len(m.ahead) + 2] = "CR" /\ r[Len(m.ahead) + 3] = "LF"
  /\ \A i \in 1 .. Len(m.literal) : r[Len(m.ahead) + 3 + i] = m.literal[i]
  /\ r[EndOf(m) + 1] = Paren /\ r[EndOf(m) + 2] = "CR" /\ r[EndOf(m) + 3] = "LF"
  /\ r[EndOf(m) + 4] = Tagged

LEMMA ReplyFramed ==
  ASSUME NEW m \in Mails, m.sent
  PROVE  Framed(m, MailReply(m))
<1> DEFINE l == m.literal
           b == m.ahead
           f == Announced
           p == Paren
           g == Tagged
           c == "CR"
           n == "LF"
           t == Response(f, c, n, l, p, g)
           r == b \o t
<1>1. l \in Seq(Tokens) /\ b \in Seq(Tokens)
  BY MailTyped
<1>2. f \in Tokens /\ p \in Tokens /\ g \in Tokens /\ c \in Tokens /\ n \in Tokens
  BY FrameTokens
<1>3. r = MailReply(m)
  BY DEF MailReply, FetchReply, Response, Eol, Announced, Paren, Tagged
<1>4. t = Response(f, c, n, l, p, g)
  OBVIOUS
<1> HIDE DEF f, p, g, c, n, l, b, t
<1>5. t \in Seq(Tokens) /\ Laid(t, f, c, n, l, p, g)
  BY <1>1, <1>2, <1>4, ResponseLayout
<1>4a. /\ Len(l) \in Nat /\ Len(t) = Len(l) + 9
       /\ t[1] = f /\ t[2] = c /\ t[3] = n
       /\ \A i \in 1 .. Len(l) : t[i + 3] = l[i]
       /\ t[Len(l) + 4] = p /\ t[Len(l) + 5] = c /\ t[Len(l) + 6] = n /\ t[Len(l) + 7] = g
  BY <1>5 DEF Laid
<1>6. /\ r \in Seq(Tokens) /\ Len(b) \in Nat /\ Len(r) = Len(b) + Len(t)
      /\ \A i \in 1 .. Len(b) : r[i] = b[i]
      /\ \A i \in 1 .. Len(t) : r[Len(b) + i] = t[i]
  BY <1>1, <1>5, Joined
<1> HIDE DEF r
<1> DEFINE a == Len(b)
           k == Len(l)
           e == a + 3 + k
<1>7. a \in Nat /\ k \in Nat /\ Len(t) = k + 9 /\ Len(r) = a + Len(t)
  BY <1>4a, <1>6
<1>8. \A i \in 1 .. k + 9 : r[a + i] = t[i]
  BY <1>6, <1>7
<1>9. \A i \in 1 .. k : t[i + 3] = l[i]
  BY <1>4a
<1> HIDE DEF a, k
<1>10. Len(r) = e + 6
  BY <1>7
<1>11. /\ 1 \in 1 .. k + 9 /\ 2 \in 1 .. k + 9 /\ 3 \in 1 .. k + 9
       /\ k + 4 \in 1 .. k + 9 /\ k + 5 \in 1 .. k + 9 /\ k + 6 \in 1 .. k + 9 /\ k + 7 \in 1 .. k + 9
       /\ a + (k + 4) = e + 1 /\ a + (k + 5) = e + 2 /\ a + (k + 6) = e + 3 /\ a + (k + 7) = e + 4
  BY <1>7
<1>12. r[a + 1] = t[1] /\ r[a + 2] = t[2] /\ r[a + 3] = t[3]
  BY <1>8, <1>11
<1>13. r[e + 1] = t[k + 4] /\ r[e + 2] = t[k + 5] /\ r[e + 3] = t[k + 6] /\ r[e + 4] = t[k + 7]
  BY <1>8, <1>11
<1>14. \A i \in 1 .. k : r[a + 3 + i] = l[i]
  <2>1. ASSUME NEW i \in 1 .. k PROVE r[a + 3 + i] = l[i]
    <3>1. i + 3 \in 1 .. k + 9 /\ a + (i + 3) = a + 3 + i
      BY <1>7
    <3> QED BY <1>8, <1>9, <3>1
  <2> QED BY <2>1
<1>15. /\ t[1] = f /\ t[2] = c /\ t[3] = n
       /\ t[k + 4] = p /\ t[k + 5] = c /\ t[k + 6] = n /\ t[k + 7] = g
  BY <1>4a DEF k
<1>16. \A i \in 1 .. a : r[i] = b[i]
  BY <1>6 DEF a
<1>17. Framed(m, r)
  BY <1>6, <1>7, <1>10, <1>12, <1>13, <1>14, <1>15, <1>16 DEF Framed, EndOf, a, k, b, l, f, p, g, c, n
<1> QED BY <1>3, <1>17

\* Where the first line of the reply ends, which is not printed.
Skipped(m) == IF m.ahead = <<>> THEN 3 ELSE Find(<<"LF">>, m.ahead, 1)

\* It ends behind what announces the message, or in what was unread before it.
LEMMA SkippedIs ==
  ASSUME NEW m \in Mails, m.sent, NEW r, Framed(m, r)
  PROVE  /\ Skipped(m) \in Nat /\ 1 <= Skipped(m) /\ Skipped(m) <= Len(m.ahead) + 3
         /\ m.ahead # <<>> => Skipped(m) <= Len(m.ahead)
         /\ m.ahead = <<>> => Skipped(m) = 3 /\ Len(m.ahead) = 0
         /\ Find(<<"LF">>, r, 1) = Skipped(m)
<1> DEFINE s == Skipped(m)
           a == Len(m.ahead)
<1>1. /\ r \in Seq(Tokens) /\ a \in Nat /\ Len(r) \in Nat /\ a + 9 <= Len(r)
      /\ \A i \in 1 .. a : r[i] = m.ahead[i]
      /\ r[a + 1] = Announced /\ r[a + 2] = "CR" /\ r[a + 3] = "LF"
  <2> DEFINE l == Len(m.literal)
  <2>1. /\ r \in Seq(Tokens) /\ a \in Nat /\ l \in Nat /\ Len(r) = a + 3 + l + 6
        /\ \A i \in 1 .. a : r[i] = m.ahead[i]
        /\ r[a + 1] = Announced /\ r[a + 2] = "CR" /\ r[a + 3] = "LF"
    BY DEF Framed
  <2> HIDE DEF l, a
  <2>2. Len(r) \in Nat /\ a + 9 <= Len(r)
    BY <2>1
  <2> QED BY <2>1, <2>2
<1>2. CASE m.ahead = <<>>
  <2>1. a = 0 /\ s = 3
    BY <1>2 DEF Skipped
  <2>2. r[1] # "LF" /\ r[2] # "LF" /\ r[3] = "LF" /\ 3 \in 1 .. Len(r)
    BY <1>1, <2>1, FrameTokens
  <2>3. \A i \in 1 .. 3 - 1 : r[i] # "LF"
    <3>1. \A i \in 1 .. 3 - 1 : i = 1 \/ i = 2
      OBVIOUS
    <3> QED BY <2>2, <3>1
  <2>4. r \in Seq(Tokens)
    BY <1>1
  <2>5. Find(<<"LF">>, r, 1) = 3
    BY <2>2, <2>3, <2>4, FindIs
  <2> QED BY <1>2, <2>1, <2>5
<1>3. CASE m.ahead # <<>>
  <2>1. m.ahead \in Seq(Tokens) /\ \E i \in 1 .. a : m.ahead[i] = "LF"
    BY <1>3, MailTyped
  <2>2. s = Find(<<"LF">>, m.ahead, 1)
    BY <1>3 DEF Skipped
  <2>3. s \in 1 .. a /\ m.ahead[s] = "LF" /\ \A i \in 1 .. s - 1 : m.ahead[i] # "LF"
    BY <2>1, <2>2, FindToken
  <2> HIDE DEF s, a
  <2>4. s \in 1 .. Len(r) /\ r[s] = "LF"
    BY <1>1, <2>3
  <2>5. \A i \in 1 .. s - 1 : r[i] # "LF"
    <3>1. \A i \in 1 .. s - 1 : i \in 1 .. a
      BY <1>1, <2>3
    <3> QED BY <1>1, <2>3, <3>1
  <2>6. r \in Seq(Tokens)
    BY <1>1
  <2>7. Find(<<"LF">>, r, 1) = s
    BY <2>4, <2>5, <2>6, FindIs
  <2> QED BY <1>1, <1>3, <2>3, <2>7 DEF s, a
<1> QED BY <1>2, <1>3

\* The tagged line that the text is cut at is the last, unless the message quotes it.
LEMMA MarkerIs ==
  ASSUME NEW m \in Mails, m.sent, NEW r, Framed(m, r), NEW k,
         k = Find(<<Tagged>>, r, Skipped(m) + 1)
  PROVE  /\ k \in Skipped(m) + 1 .. EndOf(m) + 4
         /\ m.ahead # <<>> => k > Len(m.ahead) + 1
         /\ ~Quotes(m.literal) => k > EndOf(m) + 1
<1> DEFINE s == Skipped(m)
           a == Len(m.ahead)
           l == Len(m.literal)
           e == EndOf(m)
<1>1. /\ r \in Seq(Tokens) /\ a \in Nat /\ l \in Nat /\ e = a + 3 + l /\ Len(r) = e + 6
      /\ \A i \in 1 .. a : r[i] = m.ahead[i]
      /\ \A i \in 1 .. l : r[a + 3 + i] = m.literal[i]
      /\ r[a + 1] = Announced /\ r[a + 2] = "CR" /\ r[a + 3] = "LF"
      /\ r[e + 1] = Paren /\ r[e + 4] = Tagged
  BY DEF Framed
<1>2. s \in Nat /\ 1 <= s /\ s <= a + 3
  BY SkippedIs
<1>3. m.ahead \in Seq(Tokens) /\ m.literal \in Seq(Tokens)
      /\ (m.ahead # <<>> => ~Quotes(m.ahead))
  BY MailTyped
<1>4. /\ (m.ahead # <<>> => \A i \in 1 .. a : m.ahead[i] # Tagged)
      /\ (~Quotes(m.literal) => \A i \in 1 .. l : m.literal[i] # Tagged)
  BY <1>3, QuotesIs
<1> HIDE DEF s, e, a, l
<1>5. r \in Seq(Tokens) /\ s + 1 \in Nat /\ 1 <= s + 1
  BY <1>1, <1>2
<1>6. \/ k = 0 /\ \A i \in s + 1 .. Len(r) : r[i] # Tagged
      \/ k \in s + 1 .. Len(r) /\ r[k] = Tagged /\ \A i \in s + 1 .. k - 1 : r[i] # Tagged
  BY <1>5, FindToken DEF s
<1>7. e + 4 \in s + 1 .. Len(r) /\ e + 4 \in Nat
  BY <1>1, <1>2
<1>8. k \in s + 1 .. Len(r) /\ r[k] = Tagged /\ \A i \in s + 1 .. k - 1 : r[i] # Tagged
  BY <1>1, <1>6, <1>7
<1>9. k \in s + 1 .. e + 4 /\ k \in Nat
  <2>1. e + 4 < k => e + 4 \in s + 1 .. k - 1
    BY <1>7, <1>8
  <2>2. ~(e + 4 < k)
    BY <1>1, <1>8, <2>1
  <2> QED BY <1>1, <1>2, <1>8, <2>2
<1>10. k # a + 1 /\ k # a + 2 /\ k # a + 3 /\ k # e + 1
  BY <1>1, <1>8, FrameTokens
<1>11. ASSUME m.ahead # <<>> PROVE k > a + 1
  <2>1. k \in 1 .. a => r[k] # Tagged
    BY <1>1, <1>4, <1>11
  <2>2. k \notin 1 .. a
    BY <1>8, <2>1
  <2> QED BY <1>1, <1>2, <1>9, <1>10, <2>2
<1>12. ASSUME ~Quotes(m.literal) PROVE k > e + 1
  <2>0. a \in Nat /\ e \in Nat /\ k \in Nat /\ k # e + 1
    BY <1>1, <1>9, <1>10
  <2>1. ASSUME k \in a + 4 .. e PROVE FALSE
    <3>1. k - (a + 3) \in 1 .. l /\ a + 3 + (k - (a + 3)) = k
      BY <1>1, <1>9, <2>1
    <3>2. r[k] = m.literal[k - (a + 3)]
      BY <1>1, <3>1
    <3> QED BY <1>4, <1>8, <1>12, <3>1, <3>2
  <2>2. CASE m.ahead = <<>>
    <3>1. s = a + 3
      BY <2>2, SkippedIs DEF s, a
    <3>2. k >= a + 4
      BY <1>1, <1>9, <3>1
    <3> QED BY <2>0, <2>1, <3>2
  <2>3. CASE m.ahead # <<>>
    <3>1. k > a + 1
      BY <1>11, <2>3
    <3>2. k >= a + 4
      BY <1>1, <1>9, <1>10, <3>1
    <3> QED BY <2>0, <2>1, <3>2
  <2> QED BY <2>2, <2>3
<1> QED BY <1>9, <1>11, <1>12 DEF s, e, a

-----------------------------------------------------------------------------
(* The walk back from the end of the text.                                 *)

\* The reply from behind its first line to place n.
Cut(n) == SubSeq(MailReply(message), Skipped(message) + 1, n)

\* What is left to be printed ends at the end of the message, or before its last line end.
Kept == IF EndOf(message) > Skipped(message) /\ MailReply(message)[EndOf(message)] \in LineEnds
        THEN EndOf(message) - 1 ELSE EndOf(message)

\* The walk has come to place n: never into what was unread before the message, and no
\* further than the end of a message that does not quote the tagged line.
Reached(n) ==
  /\ text = Cut(n) /\ Skipped(message) <= n /\ n <= EndOf(message) + 3
  /\ message.ahead # <<>> => n > Len(message.ahead)

Walk ==
  /\ message.sent
  /\ pc = "trim" => \E n \in Nat : Reached(n) /\ (~Quotes(message.literal) => n > EndOf(message))
  /\ pc = "last" => \E n \in Nat : /\ Reached(n) /\ MailReply(message)[n + 1] = Paren
                                   /\ ~Quotes(message.literal) => n = EndOf(message)
  /\ pc = "print" /\ ~Quotes(message.literal) => text = Cut(Kept)

Retrieving ==
  /\ message \in Mails
  /\ pc \in {"locate", "trim", "last", "print", "done"}
  /\ pc = "locate" => text = MailReply(message)
  /\ pc \in {"trim", "last", "print"} => Walk
  /\ pc = "done" /\ message.sent /\ ~Quotes(message.literal) => output = Line(Cut(Kept))

MailInv == command = "retrieve" => Retrieving

\* The last token of what has been reached.
LEMMA CutIs ==
  ASSUME message \in Mails, message.sent, NEW n \in Nat,
         Skipped(message) <= n, n <= EndOf(message) + 3
  PROVE  /\ Cut(n) \in Seq(Tokens) /\ Len(Cut(n)) = n - Skipped(message)
         /\ \A i \in 1 .. n - Skipped(message) : Cut(n)[i] = MailReply(message)[Skipped(message) + i]
         /\ n = Skipped(message) => Cut(n) = <<>>
         /\ n > Skipped(message) => /\ Cut(n) # <<>> /\ Last(Cut(n)) = MailReply(message)[n]
                                    /\ Front(Cut(n)) = Cut(n - 1)
<1> DEFINE r == MailReply(message)
           s == Skipped(message)
           c == SubSeq(r, s + 1, n)
<1>1. Framed(message, r)
  BY ReplyFramed
<1>2. r \in Seq(Tokens) /\ Len(r) \in Nat /\ n <= Len(r)
  <2> DEFINE e == EndOf(message)
             a == Len(message.ahead)
             l == Len(message.literal)
  <2>1. r \in Seq(Tokens) /\ Len(r) = e + 6 /\ a \in Nat /\ l \in Nat /\ e = a + 3 + l
    BY <1>1 DEF Framed
  <2> HIDE DEF e, a, l
  <2>2. n <= e + 3
    BY DEF e
  <2> QED BY <2>1, <2>2
<1>3. s \in Nat /\ 1 <= s /\ s <= n
  BY <1>1, SkippedIs
<1>4. c = Cut(n)
  BY DEF Cut
<1> HIDE DEF r, s
<1>5. c \in Seq(Tokens) /\ Len(c) = n - s /\ \A i \in 1 .. n - s : c[i] = r[s + i]
  BY <1>2, <1>3
<1>6. ASSUME n = s PROVE c = <<>>
  BY <1>2, <1>3, <1>6
<1>7. ASSUME n > s
      PROVE  c # <<>> /\ Last(c) = r[n] /\ Front(c) = SubSeq(r, s + 1, n - 1)
  <2>1. n - s \in 1 .. n - s /\ s + (n - s) = n /\ n - s # 0
    BY <1>3, <1>7
  <2>2. c # <<>> /\ Last(c) = r[n]
    BY <1>5, <2>1 DEF Last
  <2>3. Front(c) = SubSeq(c, 1, (n - s) - 1)
    BY <1>5 DEF Front
  <2> DEFINE u == SubSeq(c, 1, (n - s) - 1)
             v == SubSeq(r, s + 1, n - 1)
  <2>4. u \in Seq(Tokens) /\ Len(u) = (n - s) - 1 /\ \A i \in 1 .. (n - s) - 1 : u[i] = c[i]
    <3> HIDE DEF c
    <3> QED BY <1>3, <1>5, <1>7
  <2>5. v \in Seq(Tokens) /\ Len(v) = (n - s) - 1 /\ \A i \in 1 .. (n - s) - 1 : v[i] = r[s + i]
    BY <1>2, <1>3, <1>7
  <2> HIDE DEF u, v, c
  <2>6. \A i \in 1 .. (n - s) - 1 : i \in 1 .. n - s
    BY <1>3
  <2>7. u = v
    BY <1>5, <2>4, <2>5, <2>6, SeqEqual
  <2> QED BY <2>2, <2>3, <2>7 DEF u, v
<1>8. ASSUME n > s PROVE Front(c) = Cut(n - 1)
  BY <1>7, <1>8 DEF Cut, r, s
<1> HIDE DEF c
<1> QED BY <1>3, <1>4, <1>5, <1>6, <1>7, <1>8 DEF r, s

\* The tokens at the end of the message and behind it.
LEMMA BehindMessage ==
  ASSUME message \in Mails, message.sent
  PROVE  /\ EndOf(message) \in Nat /\ Skipped(message) \in Nat /\ Skipped(message) <= EndOf(message)
         /\ MailReply(message)[Len(message.ahead) + 1] = Announced
         /\ MailReply(message)[EndOf(message) + 1] = Paren
         /\ MailReply(message)[EndOf(message) + 2] \in LineEnds
         /\ MailReply(message)[EndOf(message) + 3] \in LineEnds
         /\ Len(message.ahead) \in Nat /\ Len(message.ahead) + 3 <= EndOf(message)
<1> DEFINE r == MailReply(message)
           s == Skipped(message)
           e == EndOf(message)
           a == Len(message.ahead)
           l == Len(message.literal)
<1>1. Framed(message, r)
  BY ReplyFramed
<1>2. s \in Nat /\ s <= a + 3
  BY <1>1, SkippedIs
<1>3. /\ a \in Nat /\ l \in Nat /\ e = a + 3 + l /\ r[a + 1] = Announced
      /\ r[e + 1] = Paren /\ r[e + 2] = "CR" /\ r[e + 3] = "LF"
  BY <1>1 DEF Framed
<1> HIDE DEF r, s, e, a, l
<1>4. e \in Nat /\ s <= e /\ a + 3 <= e
  BY <1>2, <1>3
<1>5. r[e + 2] \in LineEnds /\ r[e + 3] \in LineEnds
  BY <1>3 DEF LineEnds
<1> QED BY <1>2, <1>3, <1>4, <1>5 DEF r, s, e, a

\* A refusal does not hold the tagged line of an OK, and nothing is left of it to trim.
LEMMA RefusalUnmarked ==
  ASSUME NEW m \in Mails, ~m.sent, NEW k \in Nat, 1 <= k
  PROVE  Find(<<Tagged>>, MailReply(m), k) = 0
<1> DEFINE x == "A03 NO"
           b == m.ahead
           u == b \o <<x>>
           t == u \o Eol
<1>1. b \in Seq(Tokens) /\ (b # <<>> => ~Quotes(b))
  BY MailTyped
<1>2. x \in Tokens /\ x # Tagged /\ "CR" \in Tokens /\ "LF" \in Tokens
      /\ "CR" # Tagged /\ "LF" # Tagged
  BY Zenon, MailsAssumption DEF MailsAssumption, Tagged
<1>3. MailReply(m) = t
  BY DEF MailReply
<1> HIDE DEF x, b
<1>4. \A i \in 1 .. Len(b) : b[i] # Tagged
  BY <1>1, QuotesIs
<1>5. /\ u \in Seq(Tokens) /\ Len(b) \in Nat /\ Len(u) = Len(b) + 1
      /\ \A i \in 1 .. Len(b) : u[i] = b[i]
      /\ u[Len(b) + 1] = x
  BY <1>1, <1>2, JoinedOne
<1> HIDE DEF u
<1>6. u \in Seq(Tokens)
  BY <1>5
<1>7. /\ t \in Seq(Tokens) /\ Len(u) \in Nat /\ Len(t) = Len(u) + 2
      /\ \A i \in 1 .. Len(u) : t[i] = u[i]
      /\ t[Len(u) + 1] = "CR" /\ t[Len(u) + 2] = "LF"
  BY <1>2, <1>6, JoinedTwo DEF Eol
<1> HIDE DEF t
<1>8. ASSUME NEW i \in 1 .. Len(t) PROVE t[i] # Tagged
  <2>1. \/ i \in 1 .. Len(b) /\ i \in 1 .. Len(u)
        \/ i = Len(b) + 1 /\ i \in 1 .. Len(u)
        \/ i = Len(u) + 1 \/ i = Len(u) + 2
    BY <1>5, <1>7
  <2> QED BY <1>2, <1>4, <1>5, <1>7, <2>1
<1>9. t \in Seq(Tokens)
  BY <1>7
<1>10. \/ Find(<<Tagged>>, t, k) = 0
       \/ Find(<<Tagged>>, t, k) \in k .. Len(t) /\ t[Find(<<Tagged>>, t, k)] = Tagged
  BY <1>9, FindToken
<1>11. \A i \in k .. Len(t) : i \in 1 .. Len(t)
  BY <1>7
<1> QED BY <1>3, <1>8, <1>10, <1>11

LEMMA LocateKeeps ==
  ASSUME Retrieving, Locate
  PROVE  Retrieving'
<1> DEFINE r == MailReply(message)
           start == Find(<<"LF">>, text, 1) + 1
           marker == Find(<<Tagged>>, text, start)
<1>1. /\ message \in Mails /\ message' = message /\ text = r
  BY DEF Retrieving, Locate, Step, Finish
<1>2. CASE ~message.sent
  <2>1. start = 1 \/ (start \in Nat /\ 1 <= start)
    <3>1. r \in Seq(Tokens)
      <4> DEFINE b == message.ahead
                 x == "A03 NO"
                 u == b \o <<x>>
      <4>1. b \in Seq(Tokens)
        BY <1>1, MailTyped
      <4>2. x \in Tokens /\ "CR" \in Tokens /\ "LF" \in Tokens
        BY Zenon, MailsAssumption DEF MailsAssumption
      <4>3. r = u \o Eol
        BY <1>2 DEF MailReply
      <4> HIDE DEF b, x
      <4>4. u \in Seq(Tokens)
        BY <4>1, <4>2, JoinedOne
      <4> HIDE DEF u, r
      <4>5. u \o Eol \in Seq(Tokens)
        BY <4>2, <4>4, JoinedTwo DEF Eol
      <4> QED BY <4>3, <4>5
    <3> HIDE DEF r
    <3>2. text \in Seq(Tokens)
      BY <1>1, <3>1
    <3>3. Find(<<"LF">>, text, 1) = 0 \/ Find(<<"LF">>, text, 1) \in 1 .. Len(text)
      BY <3>2, FindToken
    <3> QED BY <3>2, <3>3
  <2>2. start = 1 \/ marker = 0
    BY <1>1, <1>2, <2>1, RefusalUnmarked
  <2>3. pc' = "done"
    BY <2>2 DEF Locate, Finish, Tagged
  <2> QED BY <1>1, <1>2, <2>3 DEF Retrieving
<1>3. CASE message.sent
  <2>1. Framed(message, r)
    BY <1>1, <1>3, ReplyFramed
  <2>2. /\ Skipped(message) \in Nat /\ 1 <= Skipped(message)
        /\ start = Skipped(message) + 1
    BY <1>1, <1>3, <2>1, SkippedIs
  <2>3. /\ marker \in Skipped(message) + 1 .. EndOf(message) + 4
        /\ message.ahead # <<>> => marker > Len(message.ahead) + 1
        /\ ~Quotes(message.literal) => marker > EndOf(message) + 1
    BY <1>1, <1>3, <2>1, <2>2, MarkerIs
  <2>4. EndOf(message) \in Nat /\ Len(message.ahead) \in Nat
    BY <1>1, <1>3, BehindMessage
  <2>5. start # 1 /\ marker # 0
    BY <2>2, <2>3
  <2>6. text' = SubSeq(text, start, marker - 1) /\ pc' = "trim"
    BY <2>5 DEF Locate, Step, Tagged
  <2> HIDE DEF marker
  <2>7. PICK n \in Nat : n = marker - 1
    BY <2>2, <2>3, <2>4
  <2>8. /\ Skipped(message) <= n /\ n <= EndOf(message) + 3
        /\ message.ahead # <<>> => n > Len(message.ahead)
        /\ ~Quotes(message.literal) => n > EndOf(message)
    BY <2>2, <2>3, <2>4, <2>7
  <2>9. text' = Cut(n)'
    BY <1>1, <2>2, <2>6, <2>7 DEF Cut
  <2>10. Reached(n)'
    BY <1>1, <2>8, <2>9 DEF Reached
  <2>11. Walk'
    BY <1>1, <1>3, <2>6, <2>8, <2>10 DEF Walk
  <2> QED BY <1>1, <2>6, <2>11 DEF Retrieving
<1> QED BY <1>2, <1>3

\* Where the walk stands before a step of it.
LEMMA WalkAt ==
  ASSUME Retrieving, pc \in {"trim", "last", "print"}
  PROVE  message \in Mails /\ message.sent /\ Walk
  BY DEF Retrieving, Walk

LEMMA TrimEolKeeps ==
  ASSUME Retrieving, TrimEol
  PROVE  Retrieving'
<1>1. /\ pc = "trim" /\ text # <<>> /\ Last(text) \in LineEnds /\ text' = Front(text)
      /\ UNCHANGED <<message, pc, output, status>>
  BY DEF TrimEol
<1>2. message \in Mails /\ message.sent /\ Walk
  BY <1>1, WalkAt
<1>3. PICK n \in Nat : Reached(n) /\ (~Quotes(message.literal) => n > EndOf(message))
  BY <1>1, <1>2 DEF Walk
<1>4. /\ text = Cut(n) /\ Skipped(message) <= n /\ n <= EndOf(message) + 3
      /\ message.ahead # <<>> => n > Len(message.ahead)
  BY <1>3 DEF Reached
<1>5. n > Skipped(message) /\ Last(text) = MailReply(message)[n] /\ Front(text) = Cut(n - 1)
  <2>1. n = Skipped(message) => text = <<>>
    BY <1>2, <1>4, CutIs
  <2>2. n > Skipped(message)
    BY <1>1, <1>2, <1>4, <2>1, BehindMessage
  <2> QED BY <1>2, <1>4, <2>2, CutIs
<1>6. /\ EndOf(message) \in Nat /\ Skipped(message) \in Nat /\ Len(message.ahead) \in Nat
      /\ MailReply(message)[Len(message.ahead) + 1] = Announced
      /\ MailReply(message)[EndOf(message) + 1] = Paren
  BY <1>2, BehindMessage
<1>7. n # Len(message.ahead) + 1 /\ n # EndOf(message) + 1
  BY <1>1, <1>5, <1>6, FrameTokens
<1>8. PICK k \in Nat : k = n - 1
  BY <1>5, <1>6
<1>9. /\ Skipped(message) <= k /\ k <= EndOf(message) + 3
      /\ message.ahead # <<>> => k > Len(message.ahead)
      /\ ~Quotes(message.literal) => k > EndOf(message)
  BY <1>3, <1>4, <1>5, <1>6, <1>7, <1>8
<1>10. text' = Cut(k)'
  BY <1>1, <1>5, <1>8 DEF Cut
<1>11. Reached(k)'
  BY <1>1, <1>9, <1>10 DEF Reached
<1>12. Walk'
  BY <1>1, <1>2, <1>9, <1>11 DEF Walk
<1> QED BY <1>1, <1>2, <1>12 DEF Retrieving

LEMMA TrimParenKeeps ==
  ASSUME Retrieving, TrimParen
  PROVE  Retrieving'
<1>1. /\ pc = "trim" /\ text # <<>> /\ Last(text) = Paren /\ text' = Front(text)
      /\ pc' = "last" /\ UNCHANGED <<message, output, status>>
  BY DEF TrimParen, Step, Paren
<1>2. message \in Mails /\ message.sent /\ Walk
  BY <1>1, WalkAt
<1>3. PICK n \in Nat : Reached(n) /\ (~Quotes(message.literal) => n > EndOf(message))
  BY <1>1, <1>2 DEF Walk
<1>4. /\ text = Cut(n) /\ Skipped(message) <= n /\ n <= EndOf(message) + 3
      /\ message.ahead # <<>> => n > Len(message.ahead)
  BY <1>3 DEF Reached
<1>5. n > Skipped(message) /\ MailReply(message)[n] = Paren /\ Front(text) = Cut(n - 1)
  <2>1. n = Skipped(message) => text = <<>>
    BY <1>2, <1>4, CutIs
  <2>2. n > Skipped(message)
    BY <1>1, <1>2, <1>4, <2>1, BehindMessage
  <2> QED BY <1>1, <1>2, <1>4, <2>2, CutIs
<1>6. /\ EndOf(message) \in Nat /\ Skipped(message) \in Nat /\ Len(message.ahead) \in Nat
      /\ MailReply(message)[Len(message.ahead) + 1] = Announced
      /\ MailReply(message)[EndOf(message) + 2] \in LineEnds
      /\ MailReply(message)[EndOf(message) + 3] \in LineEnds
  BY <1>2, BehindMessage
<1>7. n # Len(message.ahead) + 1 /\ n # EndOf(message) + 2 /\ n # EndOf(message) + 3
  BY <1>5, <1>6, FrameTokens
<1>8. PICK k \in Nat : k = n - 1
  BY <1>5, <1>6
<1>9. /\ Skipped(message) <= k /\ k <= EndOf(message) + 3 /\ k + 1 = n
      /\ message.ahead # <<>> => k > Len(message.ahead)
      /\ ~Quotes(message.literal) => k = EndOf(message)
  BY <1>3, <1>4, <1>5, <1>6, <1>7, <1>8
<1>10. text' = Cut(k)'
  BY <1>1, <1>5, <1>8 DEF Cut
<1>11. Reached(k)'
  BY <1>1, <1>9, <1>10 DEF Reached
<1>12. Walk'
  <2>1. MailReply(message')[k + 1] = Paren
    BY <1>1, <1>5, <1>9
  <2> QED BY <1>1, <1>2, <1>9, <1>11, <2>1 DEF Walk
<1> QED BY <1>1, <1>2, <1>12 DEF Retrieving

\* The loop cannot end elsewhere, unless the message quotes the tagged line.
LEMMA TrimStopKeeps ==
  ASSUME Retrieving, TrimStop
  PROVE  Retrieving'
<1>1. pc = "trim" /\ text' = text /\ pc' = "print" /\ UNCHANGED <<message, output, status>>
  BY DEF TrimStop, Step
<1>2. message \in Mails /\ message.sent /\ Walk
  BY <1>1, WalkAt
<1>3. PICK n \in Nat : Reached(n) /\ (~Quotes(message.literal) => n > EndOf(message))
  BY <1>1, <1>2 DEF Walk
<1>4. text = Cut(n) /\ Skipped(message) <= n /\ n <= EndOf(message) + 3
  BY <1>3 DEF Reached
<1>5. /\ EndOf(message) \in Nat /\ Skipped(message) \in Nat /\ Skipped(message) <= EndOf(message)
      /\ MailReply(message)[EndOf(message) + 1] = Paren
      /\ MailReply(message)[EndOf(message) + 2] \in LineEnds
      /\ MailReply(message)[EndOf(message) + 3] \in LineEnds
  BY <1>2, BehindMessage
<1>6. ASSUME ~Quotes(message.literal) PROVE FALSE
  <2>1. n > EndOf(message)
    BY <1>3, <1>6
  <2>2. n > Skipped(message)
    BY <1>5, <2>1
  <2>3. text # <<>> /\ Last(text) = MailReply(message)[n]
    BY <1>2, <1>4, <2>2, CutIs
  <2>4. n \in {EndOf(message) + 1, EndOf(message) + 2, EndOf(message) + 3}
    BY <1>4, <1>5, <2>1
  <2>5. Last(text) \in LineEnds \cup {Paren}
    BY <1>5, <2>3, <2>4
  <2> QED BY <2>3, <2>5 DEF TrimStop, Paren
<1>7. Walk'
  BY <1>1, <1>2, <1>6 DEF Walk
<1> QED BY <1>1, <1>2, <1>7 DEF Retrieving

LEMMA TrimLastKeeps ==
  ASSUME Retrieving, TrimLast
  PROVE  Retrieving'
<1>1. /\ pc = "last" /\ pc' = "print" /\ UNCHANGED <<message, output, status>>
      /\ text' = IF text # <<>> /\ Last(text) \in LineEnds THEN Front(text) ELSE text
  BY DEF TrimLast, Step
<1>2. message \in Mails /\ message.sent /\ Walk
  BY <1>1, WalkAt
<1>3. ASSUME ~Quotes(message.literal) PROVE text' = Cut(Kept)
  <2> DEFINE n == EndOf(message)
             s == Skipped(message)
  <2>1. text = Cut(n)
    BY <1>1, <1>2, <1>3 DEF Walk, Reached
  <2>2. n \in Nat /\ s \in Nat /\ s <= n
    BY <1>2, BehindMessage
  <2>3. n <= n + 3
    BY <2>2
  <2>4. /\ n = s => Cut(n) = <<>>
        /\ n > s => /\ Cut(n) # <<>> /\ Last(Cut(n)) = MailReply(message)[n]
                    /\ Front(Cut(n)) = Cut(n - 1)
    BY <1>2, <2>2, <2>3, CutIs
  <2>5. CASE n > s
    BY <1>1, <2>1, <2>4, <2>5 DEF Kept
  <2>6. CASE n = s
    <3>1. text' = text /\ ~(n > s)
      BY <1>1, <2>1, <2>2, <2>4, <2>6
    <3> QED BY <2>1, <3>1 DEF Kept
  <2> QED BY <2>2, <2>5, <2>6
<1>4. Cut(Kept)' = Cut(Kept)
  BY <1>1 DEF Cut, Kept
<1>5. Walk'
  BY <1>1, <1>2, <1>3, <1>4 DEF Walk
<1> QED BY <1>1, <1>2, <1>5 DEF Retrieving

LEMMA PrintMailKeeps ==
  ASSUME Retrieving, PrintMail
  PROVE  Retrieving'
<1>1. pc = "print" /\ pc' = "done" /\ output' = Line(text) /\ UNCHANGED <<message, text>>
  BY DEF PrintMail, Finish
<1>2. message \in Mails /\ message.sent /\ Walk
  BY <1>1, WalkAt
<1>3. Cut(Kept)' = Cut(Kept)
  BY <1>1 DEF Cut, Kept
<1>4. ~Quotes(message.literal) => output' = Line(Cut(Kept))
  BY <1>1, <1>2 DEF Walk
<1>5. (~Quotes(message.literal) => output = Line(Cut(Kept)))'
  BY <1>1, <1>3, <1>4 DEF Line
<1> QED BY <1>1, <1>2, <1>5 DEF Retrieving

LEMMA MailInvariance == Spec => []MailInv
<1>1. Init => MailInv
  BY DEF Init, MailInit, Start, MailInv, Retrieving
<1>2. ASSUME MailInv, [Next]_vars PROVE MailInv'
  <2>1. CASE Retrieve
    <3>1. Retrieving /\ command' = command
      BY <1>2, <2>1 DEF MailInv, Retrieve
    <3>2. Locate \/ TrimEol \/ TrimParen \/ TrimStop \/ TrimLast \/ PrintMail
      BY <2>1 DEF Retrieve, MailStep
    <3>3. Retrieving'
      BY <3>1, <3>2, LocateKeeps, TrimEolKeeps, TrimParenKeeps, TrimStopKeeps, TrimLastKeeps,
         PrintMailKeeps
    <3> QED BY <3>3 DEF MailInv
  <2>2. CASE Mime \/ Parse
    BY <2>2 DEF Mime, Parse, MailInv
  <2>3. CASE UNCHANGED vars
    <3>1. command' = command /\ message' = message /\ text' = text /\ pc' = pc /\ output' = output
      BY <2>3 DEF vars, textVars
    <3> QED BY <1>2, <3>1 DEF MailInv, Retrieving, Walk, Reached, Cut, Kept, Line
  <2> QED BY <1>2, <2>1, <2>2, <2>3 DEF Next
<1> QED BY <1>1, <1>2, PTL DEF Spec

-----------------------------------------------------------------------------
(* What the walk leaves is the message.                                    *)

\* From behind its first line to the end of the message the reply is what is shown.
LEMMA ShownIsCut ==
  ASSUME message \in Mails, message.sent
  PROVE  Cut(EndOf(message)) = Shown(message)
<1> DEFINE r == MailReply(message)
           b == message.ahead
           k == message.literal
           s == Skipped(message)
           e == EndOf(message)
           a == Len(b)
           l == Len(k)
           c == Cut(e)
<1>1. Framed(message, r)
  BY ReplyFramed
<1>2. /\ a \in Nat /\ l \in Nat /\ e = a + 3 + l /\ \A i \in 1 .. a : r[i] = b[i]
      /\ r[a + 1] = Announced /\ r[a + 2] = "CR" /\ r[a + 3] = "LF"
      /\ \A i \in 1 .. l : r[a + 3 + i] = k[i]
  BY <1>1 DEF Framed
<1>3. b \in Seq(Tokens) /\ k \in Seq(Tokens)
  BY MailTyped
<1>4. /\ s \in Nat /\ 1 <= s /\ s <= a + 3
      /\ b # <<>> => s <= a
      /\ b = <<>> => s = 3 /\ a = 0
  BY <1>1, SkippedIs
<1>5. c \in Seq(Tokens) /\ Len(c) = e - s /\ \A i \in 1 .. e - s : c[i] = r[s + i]
  <2>1. e \in Nat /\ s <= e
    BY BehindMessage
  <2>2. e <= e + 3
    BY <2>1
  <2> QED BY <2>1, <2>2, CutIs
<1> HIDE DEF r, s, e, c
<1>6. CASE b = <<>>
  <2>1. Len(c) = l /\ \A i \in 1 .. l : c[i] = k[i]
    <3> HIDE DEF a, l, b, k
    <3>1. e - s = l /\ a + 3 = s
      BY <1>2, <1>4, <1>6
    <3>2. ASSUME NEW i \in 1 .. l PROVE c[i] = k[i]
      <4>1. c[i] = r[s + i] /\ r[a + 3 + i] = k[i]
        BY <1>2, <1>5, <3>1
      <4> QED BY <3>1, <4>1
    <3> QED BY <1>5, <3>1, <3>2
  <2>2. c = k
    BY <1>3, <1>5, <2>1, SeqEqual
  <2> QED BY <1>6, <2>2 DEF Shown, c, e
<1>7. CASE b # <<>>
  <2> DEFINE u == SubSeq(b, s + 1, a)
             v == u \o <<Announced>>
             w == v \o <<"CR", "LF">>
             x == w \o k
             d == a - s
  <2>1. u \in Seq(Tokens) /\ Len(u) = d /\ d \in Nat /\ \A i \in 1 .. d : u[i] = b[s + i]
    BY <1>2, <1>3, <1>4, <1>7
  <2>2. Shown(message) = x
    <3>1. Find(<<"LF">>, b, 1) = s
      BY <1>7 DEF Skipped, s
    <3> QED BY <1>7, <3>1 DEF Shown, From, Eol, Announced
  <2> HIDE DEF u
  <2>3. Announced \in Tokens /\ "CR" \in Tokens /\ "LF" \in Tokens /\ u \in Seq(Tokens)
    BY <2>1, FrameTokens
  <2>4. /\ v \in Seq(Tokens) /\ Len(v) = Len(u) + 1
        /\ \A i \in 1 .. Len(u) : v[i] = u[i]
        /\ v[Len(u) + 1] = Announced
    BY <2>3, JoinedOne
  <2> HIDE DEF v
  <2>5. v \in Seq(Tokens)
    BY <2>4
  <2>6. /\ w \in Seq(Tokens) /\ Len(w) = Len(v) + 2
        /\ \A i \in 1 .. Len(v) : w[i] = v[i]
        /\ w[Len(v) + 1] = "CR" /\ w[Len(v) + 2] = "LF"
    BY <2>3, <2>5, JoinedTwo
  <2> HIDE DEF w
  <2>7. w \in Seq(Tokens)
    BY <2>6
  <2>8. /\ x \in Seq(Tokens) /\ Len(x) = Len(w) + Len(k)
        /\ \A i \in 1 .. Len(w) : x[i] = w[i]
        /\ \A i \in 1 .. Len(k) : x[Len(w) + i] = k[i]
    BY <1>3, <2>7, Joined
  <2> HIDE DEF x, d, a, l
  <2>9. Len(u) = d /\ Len(v) = d + 1 /\ Len(w) = d + 3 /\ Len(x) = d + 3 + l
    BY <2>1, <2>4, <2>6, <2>8 DEF l
  <2>10. d \in Nat /\ s + d = a /\ e - s = d + 3 + l
    BY <1>2, <1>4, <2>1 DEF d
  <2>11. ASSUME NEW i \in 1 .. e - s PROVE c[i] = x[i]
    <3>1. c[i] = r[s + i]
      BY <1>5
    <3>2. CASE i \in 1 .. d
      <4>1. i \in 1 .. d + 1 /\ i \in 1 .. d + 3 /\ s + i \in 1 .. a
        BY <1>2, <1>4, <2>10, <3>2
      <4>2. x[i] = w[i] /\ w[i] = v[i] /\ v[i] = u[i] /\ u[i] = b[s + i]
        BY <2>1, <2>4, <2>6, <2>8, <2>9, <3>2, <4>1
      <4> QED BY <1>2, <3>1, <4>1, <4>2
    <3>3. CASE i = d + 1
      <4>1. i \in 1 .. d + 1 /\ i \in 1 .. d + 3 /\ s + i = a + 1
        BY <1>2, <1>4, <2>10, <3>3
      <4>2. x[i] = w[i] /\ w[i] = v[i] /\ v[i] = Announced
        BY <2>4, <2>6, <2>8, <2>9, <3>3, <4>1
      <4> QED BY <1>2, <3>1, <4>1, <4>2
    <3>4. CASE i \in {d + 2, d + 3}
      <4>0. s \in Int /\ a \in Int /\ d \in Nat /\ s + d = a
        BY <1>2, <1>4, <2>10
      <4>1. /\ i \in 1 .. d + 3
            /\ i = d + 2 => s + i = a + 2 /\ (d + 1) + 1 = i
            /\ i = d + 3 => s + i = a + 3 /\ (d + 1) + 2 = i
        BY <3>4, <4>0
      <4>2. x[i] = w[i]
        BY <2>8, <2>9, <4>1
      <4>3. (i = d + 2 => w[i] = "CR") /\ (i = d + 3 => w[i] = "LF")
        BY <2>6, <2>9, <4>1
      <4> QED BY <1>2, <3>1, <3>4, <4>1, <4>2, <4>3
    <3>5. CASE i > d + 3
      <4>1. PICK j \in 1 .. l : i = (d + 3) + j
        <5>1. i - (d + 3) \in 1 .. l /\ i = (d + 3) + (i - (d + 3))
          BY <1>2, <2>10, <3>5
        <5> QED BY <5>1
      <4>2. s + i = a + 3 + j
        BY <1>2, <1>4, <2>10, <4>1
      <4>3. x[i] = k[j]
        BY <2>8, <2>9, <4>1 DEF l
      <4> QED BY <1>2, <3>1, <4>1, <4>2, <4>3
    <3>6. i \in 1 .. d \/ i = d + 1 \/ i \in {d + 2, d + 3} \/ i > d + 3
      BY <2>10
    <3> QED BY <3>2, <3>3, <3>4, <3>5, <3>6
  <2>12. Len(c) = Len(x)
    BY <1>5, <2>9, <2>10
  <2>13. c = x
    BY <1>5, <2>8, <2>11, <2>12, SeqEqual
  <2> QED BY <2>2, <2>13 DEF c, e
<1> QED BY <1>6, <1>7

\* A text that ends in x is what it begins with and x.
LEMMA FrontAndLast ==
  ASSUME NEW S, NEW t \in Seq(S), t # <<>>
  PROVE  Append(Front(t), Last(t)) = t
<1> DEFINE n == Len(t)
           u == SubSeq(t, 1, n - 1)
           x == t[n]
           v == Append(u, x)
<1>1. n \in Nat /\ n # 0
  OBVIOUS
<1>2. x \in S /\ n \in 1 .. n
  BY <1>1
<1>3. u \in Seq(S) /\ Len(u) = n - 1 /\ \A i \in 1 .. n - 1 : u[i] = t[i]
  <2>1. n - 1 \in 0 .. Len(t) /\ 1 + (n - 1) - 1 = n - 1 /\ (n - 1) - 1 + 1 = n - 1
    BY <1>1
  <2>2. \A i \in 1 .. n - 1 : i \in 1 .. Len(t) /\ 1 + i - 1 = i
    BY <1>1
  <2> QED BY <1>1, <2>1, <2>2
<1> HIDE DEF u, x
<1>4. /\ v \in Seq(S) /\ Len(v) = Len(u) + 1
      /\ \A i \in 1 .. Len(u) : v[i] = u[i]
      /\ v[Len(u) + 1] = x
  BY <1>2, <1>3, AppendProperties
<1> HIDE DEF v, n
<1>5. ASSUME NEW i \in 1 .. n PROVE v[i] = t[i]
  <2>1. (i \in 1 .. n - 1 /\ i \in 1 .. Len(u)) \/ (i = n /\ i = Len(u) + 1)
    BY <1>1, <1>3
  <2> QED BY <1>3, <1>4, <2>1 DEF x
<1>6. Len(v) = Len(t)
  BY <1>1, <1>3, <1>4 DEF n
<1>7. v = t
  BY <1>4, <1>5, <1>6, SeqEqual DEF n
<1> QED BY <1>7 DEF v, u, x, n, Front, Last

\* `retrieve` prints the message character by character and one LF behind it: of the
\* line ends that the trimming meets it takes exactly those of the response.
THEOREM RetrievesMail == Spec => []RetrievePrintsMail
<1>1. ASSUME Retrieving, pc = "done", message.sent, ~Quotes(message.literal),
             ~EndsIn(message.literal, "CR")
      PROVE  output = AsLines(Shown(message))
  <2> DEFINE r == MailReply(message)
             s == Skipped(message)
             e == EndOf(message)
             a == Len(message.ahead)
             l == Len(message.literal)
             c == Shown(message)
  <2>1. message \in Mails /\ output = Line(Cut(Kept))
    BY <1>1 DEF Retrieving
  <2>2. e \in Nat /\ s \in Nat /\ s <= e
    BY <1>1, <2>1, BehindMessage
  <2>3. c = Cut(e)
    BY <1>1, <2>1, ShownIsCut
  <2>4. e <= e + 3
    BY <2>2
  <2>5. /\ Cut(e) \in Seq(Tokens)
        /\ e = s => Cut(e) = <<>>
        /\ e > s => Cut(e) # <<>> /\ Last(Cut(e)) = r[e] /\ Front(Cut(e)) = Cut(e - 1)
    BY <1>1, <2>1, <2>2, <2>4, CutIs
  <2>6. ASSUME e > s, r[e] \in LineEnds PROVE r[e] = "LF"
    <3>1. /\ a \in Nat /\ l \in Nat /\ e = a + 3 + l /\ r[a + 3] = "LF"
          /\ \A i \in 1 .. l : r[a + 3 + i] = message.literal[i]
      BY <1>1, <2>1, ReplyFramed DEF Framed
    <3>2. message.literal \in Seq(Tokens)
      BY <2>1, MailTyped
    <3>3. CASE l = 0
      BY <3>1, <3>3
    <3>4. CASE l # 0
      <4>1. message.literal # <<>> /\ message.literal[l] # "CR"
        BY <1>1, <3>2, <3>4 DEF EndsIn, Last
      <4> HIDE DEF r, e, a, l
      <4>2. l \in 1 .. l
        BY <3>1, <3>4
      <4>3. r[e] = message.literal[l]
        BY <3>1, <4>2
      <4> QED BY <2>6, <4>1, <4>3 DEF LineEnds
    <3> QED BY <3>3, <3>4
  <2> HIDE DEF r, s, e, c
  <2>7. CASE e > s /\ r[e] \in LineEnds
    <3>1. Kept = e - 1
      BY <2>7 DEF Kept, e, s, r
    <3>2. c \in Seq(Tokens) /\ c # <<>> /\ Last(c) = "LF" /\ Front(c) = Cut(e - 1)
      BY <2>3, <2>5, <2>6, <2>7
    <3>3. Append(Front(c), "LF") = c
      BY <3>2, FrontAndLast
    <3>4. AsLines(c) = c
      BY <3>2 DEF AsLines, EndsIn
    <3>5. output = Append(Cut(e - 1), "LF")
      BY <2>1, <3>1 DEF Line
    <3> QED BY <3>2, <3>3, <3>4, <3>5 DEF c
  <2>8. CASE ~(e > s /\ r[e] \in LineEnds)
    <3>1. Kept = e
      BY <2>8 DEF Kept, e, s, r
    <3>2. ~EndsIn(c, "LF")
      <4>1. CASE e = s
        BY <2>3, <2>5, <4>1 DEF EndsIn
      <4>2. CASE e > s
        <5>1. Last(c) \notin LineEnds
          BY <2>3, <2>5, <2>8, <4>2
        <5> QED BY <5>1 DEF EndsIn, LineEnds
      <4> QED BY <2>2, <4>1, <4>2
    <3>3. AsLines(c) = Line(c)
      BY <3>2 DEF AsLines
    <3> QED BY <2>1, <2>3, <3>1, <3>3 DEF c
  <2> QED BY <2>7, <2>8
<1>2. MailInv => RetrievePrintsMail
  BY <1>1 DEF MailInv, RetrievePrintsMail, MailPrinted
<1> QED BY <1>2, MailInvariance, PTL

\* The walk back from the end leaves the text only before a message that is empty, or
\* a ")" in front of the tagged line that it quotes.
THEOREM RetrievesInContent == Spec => []RetrieveInContent
<1>1. ASSUME Retrieving, pc = "last", text = <<>>
      PROVE  /\ message.sent /\ message.ahead = <<>>
             /\ message.literal = <<>> \/ (Quotes(message.literal) /\ message.literal[1] = Paren)
  <2> DEFINE r == MailReply(message)
             s == Skipped(message)
             e == EndOf(message)
             a == Len(message.ahead)
             l == Len(message.literal)
  <2>1. message \in Mails /\ message.sent /\ Walk
    BY <1>1, WalkAt
  <2>2. PICK n \in Nat : Reached(n) /\ r[n + 1] = Paren /\ (~Quotes(message.literal) => n = e)
    BY <1>1, <2>1 DEF Walk
  <2>3. /\ text = Cut(n) /\ s <= n /\ n <= e + 3
        /\ message.ahead # <<>> => n > a
    BY <2>2 DEF Reached
  <2>4. e \in Nat /\ s \in Nat /\ s <= e
    BY <2>1, BehindMessage
  <2>5. n = s
    <3>1. n > s => Cut(n) # <<>>
      BY <2>1, <2>3, CutIs
    <3> HIDE DEF s
    <3> QED BY <1>1, <2>3, <2>4, <3>1
  <2>6. Framed(message, r)
    BY <2>1, ReplyFramed
  <2>7. /\ message.ahead # <<>> => s <= a
        /\ message.ahead = <<>> => s = 3 /\ a = 0
    BY <2>1, <2>6, SkippedIs
  <2>8. /\ a \in Nat /\ l \in Nat /\ e = a + 3 + l
        /\ \A i \in 1 .. l : r[a + 3 + i] = message.literal[i]
    BY <2>6 DEF Framed
  <2>9. message.literal \in Seq(Tokens)
    BY <2>1, MailTyped
  <2> HIDE DEF r, s, e, a
  <2>10. message.ahead = <<>>
    BY <2>3, <2>4, <2>5, <2>7, <2>8
  <2>11. CASE message.literal # <<>>
    <3>1. l \in Nat /\ l # 0
      BY <2>9, <2>11
    <3> HIDE DEF l
    <3>2. n = 3 /\ a = 0 /\ e = 3 + l /\ 1 \in 1 .. l
      BY <2>5, <2>7, <2>8, <2>10, <3>1
    <3>3. Quotes(message.literal)
      BY <2>2, <3>1, <3>2
    <3>4. r[a + 3 + 1] = message.literal[1] /\ a + 3 + 1 = n + 1
      BY <2>8, <3>2
    <3> QED BY <2>1, <2>2, <2>10, <3>3, <3>4
  <2> QED BY <2>1, <2>10, <2>11
<1>2. MailInv => RetrieveInContent
  BY <1>1 DEF MailInv, RetrieveInContent, InContent, Paren
<1> QED BY <1>2, MailInvariance, PTL

-----------------------------------------------------------------------------
(* The types.                                                              *)

\* What is written is text.
LEMMA WrittenTokens ==
  /\ Tokens \subseteq STRING
  /\ {"LF", " ", ":", "--", "(null)", "<No subject>", "Error: Boundary delimiter not found",
      "Error: Invalid Content-Type or charset", "Error: Invalid Content-Transfer-Encoding",
      "From", "To", "Date", "Subject"} \subseteq Tokens
<1>1. Tokens \subseteq STRING /\ Written \subseteq Tokens
  BY TextsAssumption, Zenon DEF TextsAssumption
<1>2. \A i \in 1 .. 4 : desired_order[i] \in Written
  BY DEF Written
<1>3. desired_order[1] \in Written /\ desired_order[2] \in Written /\ desired_order[3] \in Written
      /\ desired_order[4] \in Written
  BY <1>2
<1>4. {"From", "To", "Date", "Subject"} \subseteq Written
  BY <1>3 DEF desired_order
<1>5. {"LF", " ", ":", "--", "(null)", "<No subject>", "Error: Boundary delimiter not found",
      "Error: Invalid Content-Type or charset", "Error: Invalid Content-Transfer-Encoding"} \subseteq Written
  BY Zenon DEF Written
<1> QED BY <1>1, <1>4, <1>5

\* A mime that has found a place is at one of the text, or behind its end.
Placed ==
  /\ command # "mime" => part = 0
  /\ pc \in {"value", "part", "headers", "check", "body"} => part \in 1 .. Len(text) + 1

TypeInv == TypeOK /\ Placed

\* A step that goes on.
LEMMA StepTyped ==
  ASSUME TypeInv, NEW p, Step(p), p # "done", pc # "done", command' = command,
         text' \in Seq(Tokens), boundary' \in Seq(Tokens), headers' \in Seq(Tokens),
         part' \in 0 .. Len(text') + 1, line' \in Seq(Tokens),
         header_list' \in Seq([type : Seq(Tokens), packet : Seq(Tokens)])
  PROVE  TypeOK'
<1>1. pc' = p /\ message' = message /\ output' = output /\ status' = status
  BY DEF Step
<1>2. status = -1
  BY DEF TypeInv, TypeOK
<1>3. (pc' = "done") = (status' # -1)
  BY <1>1, <1>2
<1> QED BY <1>1, <1>3 DEF TypeInv, TypeOK

\* The end of a command.
LEMMA FinishTyped ==
  ASSUME TypeInv, NEW out \in Seq(Tokens), NEW s \in {0, 4}, Finish(out, s), command' = command,
         UNCHANGED <<mimeVars, headerVars>>
  PROVE  TypeInv'
<1>1. pc' = "done" /\ message' = message /\ output' = out /\ status' = s /\ text' = text
  BY DEF Finish
<1>2. UNCHANGED <<boundary, part, headers, line, header_list>>
  BY DEF mimeVars, headerVars
<1>3. (pc' = "done") = (status' # -1)
  BY <1>1
<1>4. TypeOK'
  BY <1>1, <1>2, <1>3 DEF TypeInv, TypeOK
<1>5. Placed'
  BY <1>1, <1>2 DEF TypeInv, Placed
<1> QED BY <1>4, <1>5 DEF TypeInv

\* The reply to A03 is text.
LEMMA MailReplyTyped ==
  ASSUME NEW m \in Mails
  PROVE  MailReply(m) \in Seq(Tokens)
<1>1. CASE m.sent
  BY <1>1, ReplyFramed DEF Framed
<1>2. CASE ~m.sent
  <2>1. m.ahead \in Seq(Tokens)
    BY MailTyped
  <2>2. "CR" \in Tokens /\ "LF" \in Tokens /\ "A03 NO" \in Tokens
    BY Zenon, MailsAssumption DEF MailsAssumption
  <2>3. m.ahead \o <<"A03 NO">> \in Seq(Tokens)
    BY <2>1, <2>2, JoinedOne
  <2>4. (m.ahead \o <<"A03 NO">>) \o <<"CR", "LF">> \in Seq(Tokens)
    BY <2>2, <2>3, JoinedTwo
  <2> QED BY <1>2, <2>4 DEF MailReply, Eol
<1> QED BY <1>1, <1>2, MailTyped

-----------------------------------------------------------------------------
(* The reply to A04.                                                       *)

\* \o, for rewriting alone, and what it is used on.
Cat(a, b) == a \o b
Texts == Seq(Tokens)

LEMMA Associates == \A a, b, c \in Texts : Cat(a, Cat(b, c)) = Cat(Cat(a, b), c)
BY ConcatAssociative DEF Texts, Cat

LEMMA TextsJoined == \A a, b \in Texts : Cat(a, b) \in Texts
BY ConcatProperties DEF Texts, Cat

\* What follows is added to both sides.
LEMMA AddBehind ==
  \A a, u, h, v, w \in Texts : Cat(a, u) = Cat(h, v) => Cat(a, Cat(u, w)) = Cat(h, Cat(v, w))
BY Associates

\* The parts of the reply in another grouping.
LEMMA Regrouped ==
  ASSUME NEW a \in Texts, NEW f \in Texts, NEW e \in Texts, NEW l \in Texts,
         NEW p \in Texts, NEW t \in Texts
  PROVE  Cat(a, Cat(Cat(Cat(Cat(Cat(Cat(f, e), Cat(l, e)), p), e), t), e))
           = Cat(Cat(Cat(Cat(a, f), e), l), Cat(Cat(Cat(Cat(e, p), e), t), e))
<1> DEFINE g == Cat(Cat(f, e), Cat(l, e))
           h == Cat(Cat(Cat(a, f), e), l)
<1>1. Cat(a, g) = Cat(h, e)
  <2> DEFINE fe == Cat(f, e)
             le == Cat(l, e)
             afe == Cat(Cat(a, f), e)
  <2>1. Cat(a, fe) = afe /\ fe \in Texts /\ le \in Texts /\ afe \in Texts
    BY Associates, TextsJoined
  <2>2. Cat(afe, le) = Cat(Cat(afe, l), e)
    <3> HIDE DEF fe, afe
    <3> QED BY <2>1, Associates
  <2> HIDE DEF fe, le, afe
  <2>3. Cat(a, Cat(fe, le)) = Cat(Cat(a, fe), le)
    BY <2>1, Associates
  <2> QED BY <2>1, <2>2, <2>3 DEF fe, le, afe
<1>2. g \in Texts /\ h \in Texts
  BY TextsJoined
<1> HIDE DEF g, h
<1> DEFINE g1 == Cat(g, p)
           e1 == Cat(e, p)
           g2 == Cat(g1, e)
           e2 == Cat(e1, e)
           g3 == Cat(g2, t)
           e3 == Cat(e2, t)
<1>3. Cat(a, g1) = Cat(h, e1) /\ g1 \in Texts /\ e1 \in Texts
  BY <1>1, <1>2, AddBehind, TextsJoined
<1> HIDE DEF g1, e1
<1>4. Cat(a, g2) = Cat(h, e2) /\ g2 \in Texts /\ e2 \in Texts
  BY <1>2, <1>3, AddBehind, TextsJoined
<1> HIDE DEF g2, e2
<1>5. Cat(a, g3) = Cat(h, e3) /\ g3 \in Texts /\ e3 \in Texts
  BY <1>2, <1>4, AddBehind, TextsJoined
<1> HIDE DEF g3, e3
<1>6. Cat(a, Cat(g3, e)) = Cat(h, Cat(e3, e))
  BY <1>2, <1>5, AddBehind
<1> QED BY <1>6, Zenon DEF g3, g2, g1, g, e3, e2, e1, h

\* What is before the first field, the texts of the fields, and what is behind the last.
Preamble(m) == (m.ahead \o <<"* FETCH">>) \o Eol
FieldTexts(m) == [i \in 1 .. Len(m.fields) |-> FieldText(m.fields[i])]
HeaderText(m) == Preamble(m) \o FlattenSeq(FieldTexts(m))
BehindHeader == (((Eol \o <<")">>) \o Eol) \o <<"A04 OK">>) \o Eol

\* The lines of a field behind the first, each with the line end before it.
FoldedLines(f) == [i \in 1 .. Len(f.lines) - 1 |-> Eol \o f.lines[i + 1]]

LEMMA BlockIs ==
  ASSUME NEW m \in HeaderBlocks
  PROVE  /\ m.ahead \in Seq(Tokens) /\ m.lost \in BOOLEAN /\ m.fields \in HeaderFields
         /\ Len(m.fields) \in Nat /\ DOMAIN m.fields = 1 .. Len(m.fields)
         /\ RestOfLine(m.ahead) /\ \A i \in 1 .. Len(m.fields) : Folded(m.fields[i])
<1>1. m \in [fields : HeaderFields, ahead : Seq(Tokens), lost : BOOLEAN]
  BY TextsAssumption, Zenon DEF TextsAssumption
<1>2. RestOfLine(m.ahead) /\ \A i \in 1 .. Len(m.fields) : Folded(m.fields[i])
  BY TextsAssumption, Zenon DEF TextsAssumption
<1>3. m.ahead \in Seq(Tokens) /\ m.lost \in BOOLEAN /\ m.fields \in HeaderFields
  BY <1>1
<1>4. Len(m.fields) \in Nat /\ DOMAIN m.fields = 1 .. Len(m.fields)
  BY <1>3, LenProperties DEF HeaderFields
<1> QED BY <1>2, <1>3, <1>4

LEMMA FieldIs ==
  ASSUME NEW m \in HeaderBlocks, NEW j \in 1 .. Len(m.fields), NEW f, f = m.fields[j]
  PROVE  /\ f.name \in Tokens /\ f.name \notin LineEnds /\ f.name \notin Blanks /\ f.name # ":"
         /\ f.lines \in Seq(Seq(Tokens \ LineEnds)) /\ Len(f.lines) \in Nat /\ 1 <= Len(f.lines)
         /\ \A i \in 1 .. Len(f.lines) : f.lines[i] \in Seq(Tokens \ LineEnds) /\ f.lines[i] \in Seq(Tokens)
         /\ Folded(f)
<1> DEFINE N == Tokens \ (LineEnds \cup Blanks \cup {":"})
           L == Seq(Seq(Tokens \ LineEnds)) \ {<<>>}
<1>1. f \in [name : N, lines : L] /\ Folded(f)
  <2>1. m.fields \in Seq([name : N, lines : L]) /\ Folded(m.fields[j])
    BY BlockIs, Zenon DEF HeaderFields
  <2> HIDE DEF N, L
  <2> QED BY <2>1, ElementOfSeq
<1>2. f.name \in N /\ f.lines \in L
  <2> HIDE DEF N, L
  <2> QED BY <1>1
<1>3. f.lines \in Seq(Seq(Tokens \ LineEnds)) /\ f.lines # <<>>
  BY <1>2
<1>4. Len(f.lines) \in Nat /\ 1 <= Len(f.lines)
  BY <1>3, NotEmpty
<1>5. ASSUME NEW i \in 1 .. Len(f.lines)
      PROVE  f.lines[i] \in Seq(Tokens \ LineEnds) /\ f.lines[i] \in Seq(Tokens)
  <2>1. f.lines[i] \in Seq(Tokens \ LineEnds)
    BY <1>3, ElementOfSeq
  <2>2. Tokens \ LineEnds \subseteq Tokens
    OBVIOUS
  <2> QED BY <2>1, <2>2, SeqMonotonic
<1> QED BY <1>1, <1>2, <1>3, <1>4, <1>5

LEMMA FieldTyped ==
  ASSUME NEW m \in HeaderBlocks, NEW j \in 1 .. Len(m.fields), NEW f, f = m.fields[j]
  PROVE  /\ Eol \in Seq(Tokens) /\ <<f.name, ":">> \in Seq(Tokens)
         /\ FoldedLines(f) \in Seq(Seq(Tokens)) /\ Len(FoldedLines(f)) = Len(f.lines) - 1
         /\ FieldText(f) = ((<<f.name, ":">> \o f.lines[1]) \o FlattenSeq(FoldedLines(f))) \o Eol
         /\ FieldText(f) \in Seq(Tokens)
<1>1. /\ f.name \in Tokens /\ Len(f.lines) \in Nat /\ 1 <= Len(f.lines)
      /\ \A i \in 1 .. Len(f.lines) : f.lines[i] \in Seq(Tokens)
  BY FieldIs
<1>2. {"CR", "LF", ":"} \subseteq Tokens
  BY WrittenTokens, FrameTokens
<1>3. Eol \in Seq(Tokens) /\ <<f.name, ":">> \in Seq(Tokens)
  BY <1>1, <1>2, Short DEF Eol
<1> DEFINE n == Len(f.lines) - 1
           w(i) == Eol \o f.lines[i + 1]
<1>4. n \in Nat /\ \A i \in 1 .. n : w(i) \in Seq(Tokens)
  <2>1. \A i \in 1 .. n : i + 1 \in 1 .. Len(f.lines)
    BY <1>1
  <2>2. \A i \in 1 .. n : f.lines[i + 1] \in Seq(Tokens)
    BY <1>1, <2>1
  <2>3. ASSUME NEW i \in 1 .. n PROVE w(i) \in Seq(Tokens)
    <3>1. f.lines[i + 1] \in Seq(Tokens)
      BY <2>2
    <3> QED BY <1>3, <3>1, Joined
  <2> QED BY <1>1, <2>3
<1>5. FoldedLines(f) = [i \in 1 .. n |-> w(i)]
  BY DEF FoldedLines
<1> HIDE DEF n, w
<1>6. [i \in 1 .. n |-> w(i)] \in Seq(Seq(Tokens)) /\ Len([i \in 1 .. n |-> w(i)]) = n
  BY <1>4
<1> DEFINE x == FlattenSeq(FoldedLines(f))
           h == <<f.name, ":">>
           l == f.lines[1]
<1>7. x \in Seq(Tokens) /\ l \in Seq(Tokens)
  BY <1>1, <1>5, <1>6, FlattenTyped
<1>8. ((h \o l) \o x) \o Eol \in Seq(Tokens)
  <2>1. h \in Seq(Tokens)
    BY <1>3
  <2> HIDE DEF h, l, x
  <2>2. h \o l \in Seq(Tokens)
    BY <1>7, <2>1, Joined
  <2>3. (h \o l) \o x \in Seq(Tokens)
    BY <1>7, <2>2, Joined
  <2> QED BY <1>3, <2>3, Joined
<1>9. FieldText(f) = ((h \o l) \o x) \o Eol
  BY Zenon DEF FieldText, FoldedLines
<1> QED BY <1>3, <1>5, <1>6, <1>8, <1>9 DEF n

LEMMA FieldTextsTyped ==
  ASSUME NEW m \in HeaderBlocks
  PROVE  FieldTexts(m) \in Seq(Seq(Tokens)) /\ Len(FieldTexts(m)) = Len(m.fields)
<1> DEFINE n == Len(m.fields)
           w(i) == FieldText(m.fields[i])
<1>1. n \in Nat /\ \A i \in 1 .. n : w(i) \in Seq(Tokens)
  BY BlockIs, FieldTyped
<1>2. FieldTexts(m) = [i \in 1 .. n |-> w(i)]
  BY DEF FieldTexts
<1> HIDE DEF n, w
<1>3. [i \in 1 .. n |-> w(i)] \in Seq(Seq(Tokens)) /\ Len([i \in 1 .. n |-> w(i)]) = n
  BY <1>1
<1> QED BY <1>2, <1>3 DEF n

\* The reply is the header and what is behind it.
LEMMA HeaderReplyIs ==
  ASSUME NEW m \in HeaderBlocks
  PROVE  /\ Preamble(m) \in Seq(Tokens) /\ FlattenSeq(FieldTexts(m)) \in Seq(Tokens)
         /\ HeaderText(m) \in Seq(Tokens) /\ BehindHeader \in Seq(Tokens)
         /\ HeaderReply(m) = HeaderText(m) \o BehindHeader
         /\ HeaderReply(m) \in Seq(Tokens)
<1> DEFINE a == m.ahead
           f == <<"* FETCH">>
           l == FlattenSeq(FieldTexts(m))
           p == <<")">>
           t == <<"A04 OK">>
<1>1. a \in Texts /\ f \in Texts /\ l \in Texts /\ p \in Texts /\ t \in Texts /\ Eol \in Texts
  <2>1. {"* FETCH", ")", "A04 OK", "CR", "LF"} \subseteq Tokens
    BY FrameTokens, TextsAssumption, Zenon DEF TextsAssumption, Announced, Paren
  <2>2. f \in Seq(Tokens) /\ p \in Seq(Tokens) /\ t \in Seq(Tokens) /\ Eol \in Seq(Tokens)
    BY <2>1, Short DEF Eol
  <2>3. a \in Seq(Tokens) /\ l \in Seq(Tokens)
    BY BlockIs, FieldTextsTyped, FlattenTyped
  <2> QED BY <2>2, <2>3 DEF Texts
<1>2. HeaderReply(m) = a \o ((((((f \o Eol) \o (l \o Eol)) \o p) \o Eol) \o t) \o Eol)
  BY BlockIs, Zenon DEF HeaderReply, FetchReply, FieldTexts
<1>3. HeaderText(m) = ((a \o f) \o Eol) \o l /\ BehindHeader = (((Eol \o p) \o Eol) \o t) \o Eol
      /\ Preamble(m) = (a \o f) \o Eol
  BY Zenon DEF HeaderText, BehindHeader, Preamble
<1> HIDE DEF a, f, l, p, t
<1>4. HeaderReply(m) = HeaderText(m) \o BehindHeader
  <2>1. Cat(a, Cat(Cat(Cat(Cat(Cat(Cat(f, Eol), Cat(l, Eol)), p), Eol), t), Eol))
          = Cat(Cat(Cat(Cat(a, f), Eol), l), Cat(Cat(Cat(Cat(Eol, p), Eol), t), Eol))
    BY <1>1, Regrouped
  <2> QED BY <1>2, <1>3, <2>1, Zenon DEF Cat
<1>5. (a \o f) \o Eol \in Texts
  BY <1>1, TextsJoined DEF Cat
<1>6. HeaderText(m) \in Texts
  BY <1>1, <1>3, <1>5, TextsJoined DEF Cat
<1>7. BehindHeader \in Texts
  <2>1. (Eol \o p) \o Eol \in Texts
    BY <1>1, TextsJoined DEF Cat
  <2>2. ((Eol \o p) \o Eol) \o t \in Texts
    BY <1>1, <2>1, TextsJoined DEF Cat
  <2> QED BY <1>1, <1>3, <2>2, TextsJoined DEF Cat
<1>8. HeaderReply(m) \in Texts
  BY <1>4, <1>6, <1>7, TextsJoined DEF Cat
<1> QED BY <1>1, <1>3, <1>4, <1>5, <1>6, <1>7, <1>8 DEF Texts, l

\* What parse() has read is a beginning of the reply.
LEMMA CollectedTyped ==
  ASSUME NEW m \in HeaderBlocks, NEW t \in Collected(m)
  PROVE  t \in Seq(Tokens)
<1> DEFINE r == HeaderReply(m)
           p == Eol \o Eol
           k == Find(p, r, 1)
<1>1. r \in Seq(Tokens) /\ Len(r) \in Nat /\ 2 <= Len(r)
  <2>1. BehindHeader \in Seq(Tokens) /\ HeaderText(m) \in Seq(Tokens) /\ r \in Seq(Tokens)
        /\ r = HeaderText(m) \o BehindHeader
    BY HeaderReplyIs
  <2>2. Len(BehindHeader) = 8
    BY DEF BehindHeader, Eol
  <2> QED BY <2>1, <2>2, Joined
<1>2. PICK n \in IF m.lost THEN 0 .. k + 2 ELSE k + 3 .. Len(r) : t = SubSeq(r, 1, n)
  BY Zenon DEF Collected
<1>3. Len(p) = 4 /\ m.lost \in BOOLEAN
  BY BlockIs DEF Eol
<1> HIDE DEF r, p
<1>4. k = 0 \/ (k \in 1 .. Len(r) /\ k + Len(p) - 1 <= Len(r))
  BY <1>1, FindPlace
<1> HIDE DEF k
<1>5. n \in Nat /\ n <= Len(r)
  BY <1>1, <1>2, <1>3, <1>4
<1> QED BY <1>1, <1>2, <1>5, Piece

LEMMA InitTyped == Init => TypeInv
<1> SUFFICES ASSUME Init PROVE TypeInv
  OBVIOUS
<1>1. <<>> \in Seq(Tokens) /\ <<>> \in Seq([type : Seq(Tokens), packet : Seq(Tokens)])
  BY EmptySeq
<1>2. /\ boundary = <<>> /\ part = 0 /\ headers = <<>> /\ line = <<>> /\ header_list = <<>>
      /\ command \in {"retrieve", "mime", "parse"}
  BY DEF Init, NoMime
<1>3. PICK r, p : /\ message \in Mails \cup Multiparts \cup HeaderBlocks
                  /\ r \in Seq(Tokens) /\ Start(r, p) /\ p \in {"locate", "boundary", "unfold"}
  <2>1. CASE command = "retrieve" /\ MailInit(Mails)
    <3>1. message \in Mails /\ Start(MailReply(message), "locate")
      BY <2>1 DEF MailInit
    <3>2. MailReply(message) \in Seq(Tokens)
      BY <3>1, MailReplyTyped
    <3> QED BY <3>1, <3>2
  <2>2. CASE command = "mime" /\ MimeInit(Multiparts)
    <3>1. message \in Multiparts /\ Start(MimeText(message), "boundary")
      BY <2>2 DEF MimeInit
    <3>2. MimeText(message) \in Seq(Tokens)
      BY <3>1, TextsAssumption, Zenon DEF TextsAssumption
    <3> QED BY <3>1, <3>2
  <2>3. CASE command = "parse" /\ HeaderInit(HeaderBlocks)
    <3>1. message \in HeaderBlocks /\ \E t \in Collected(message) : Start(t, "unfold")
      BY <2>3 DEF HeaderInit
    <3>2. PICK t \in Collected(message) : Start(t, "unfold")
      BY <3>1
    <3>3. t \in Seq(Tokens)
      BY <3>1, CollectedTyped
    <3> QED BY <3>1, <3>2, <3>3
  <2> QED BY <2>1, <2>2, <2>3 DEF Init
<1>4. text = r /\ pc = p /\ output = <<>> /\ status = -1
  BY <1>3 DEF Start
<1>5. part \in 0 .. Len(text) + 1
  <2>1. Len(text) \in Nat
    BY <1>3, <1>4, LenProperties
  <2> QED BY <1>2, <2>1
<1>6. (pc = "done") = (status # -1)
  BY <1>3, <1>4
<1>7. TypeOK
  BY <1>1, <1>2, <1>3, <1>4, <1>5, <1>6 DEF TypeOK
<1>8. Placed
  BY <1>2, <1>3, <1>4 DEF Placed
<1> QED BY <1>7, <1>8 DEF TypeInv

\* The steps of print_list_retrieve() keep the types.
LEMMA RetrieveTyped == ASSUME TypeInv, Retrieve PROVE TypeInv'
<1>1. /\ text \in Seq(Tokens) /\ part = 0
      /\ UNCHANGED <<mimeVars, headerVars>> /\ command' = command /\ command = "retrieve"
  BY DEF TypeInv, TypeOK, Placed, Retrieve
<1>2. /\ boundary' = boundary /\ part' = part /\ headers' = headers
      /\ line' = line /\ header_list' = header_list
  BY <1>1 DEF mimeVars, headerVars
<1>3. "LF" \in Tokens
  BY WrittenTokens
<1>4. ASSUME NEW t \in Seq(Tokens) PROVE Line(t) \in Seq(Tokens)
  BY <1>3, <1>4 DEF Line
<1>5. ASSUME NEW p \in {"trim", "last", "print"}, Step(p), text' \in Seq(Tokens), pc # "done"
      PROVE  TypeInv'
  <2>1. part' \in 0 .. Len(text') + 1
    <3>1. Len(text') \in Nat
      BY <1>5, LenProperties
    <3> QED BY <1>1, <1>2, <3>1
  <2>2. TypeOK'
    BY <1>1, <1>2, <1>5, <2>1, StepTyped DEF TypeInv, TypeOK
  <2>3. Placed'
    BY <1>1, <1>2, <1>5 DEF Placed, Step
  <2> QED BY <2>2, <2>3 DEF TypeInv
<1>6. CASE Locate
  <2> DEFINE start == Find(<<"LF">>, text, 1) + 1
             marker == Find(<<"A03 OK">>, text, start)
  <2>1. start \in Nat /\ 1 <= start
    BY <1>1, FindPlace
  <2>2. marker \in Nat /\ marker - 1 \in Int /\ marker - 1 <= Len(text)
    <3> HIDE DEF start
    <3>1. marker = 0 \/ marker \in start .. Len(text)
      BY <1>1, <2>1, FindPlace
    <3>2. Len(text) \in Nat
      BY <1>1, LenProperties
    <3> HIDE DEF marker
    <3> QED BY <2>1, <3>1, <3>2
  <2>3. \/ Finish(<<>>, 0)
        \/ Finish(Line(From(text, start)), 0)
        \/ text' = SubSeq(text, start, marker - 1) /\ Step("trim")
    BY <1>6 DEF Locate
  <2> HIDE DEF start, marker
  <2>4. From(text, start) \in Seq(Tokens) /\ SubSeq(text, start, marker - 1) \in Seq(Tokens)
    <3>1. Len(text) \in Nat
      BY <1>1, LenProperties
    <3> QED BY <1>1, <2>1, <2>2, <3>1, Piece DEF From
  <2>5. <<>> \in Seq(Tokens)
    BY EmptySeq
  <2>6. pc # "done"
    BY <1>6 DEF Locate
  <2> QED BY <1>1, <1>4, <1>5, <2>3, <2>4, <2>5, <2>6, FinishTyped
<1>7. ASSUME text # <<>> PROVE Front(text) \in Seq(Tokens)
  <2>1. Len(text) \in Nat
    BY <1>1, LenProperties
  <2>2. SubSeq(text, 1, Len(text) - 1) \in Seq(Tokens)
    BY <1>1, <2>1, Piece
  <2> QED BY <2>2 DEF Front
<1>8. CASE TrimEol
  <2>1. pc = "trim" /\ text' \in Seq(Tokens) /\ Step("trim")
    BY <1>7, <1>8 DEF TrimEol, Step
  <2> QED BY <1>5, <2>1
<1>9. CASE TrimParen
  <2>1. pc = "trim" /\ text' \in Seq(Tokens) /\ Step("last")
    BY <1>7, <1>9 DEF TrimParen
  <2> QED BY <1>5, <2>1
<1>10. CASE TrimStop
  <2>1. pc = "trim" /\ text' \in Seq(Tokens) /\ Step("print")
    BY <1>1, <1>10 DEF TrimStop
  <2> QED BY <1>5, <2>1
<1>11. CASE TrimLast
  <2>1. pc = "last" /\ text' \in Seq(Tokens) /\ Step("print")
    BY <1>1, <1>7, <1>11 DEF TrimLast
  <2> QED BY <1>5, <2>1
<1>12. CASE PrintMail
  <2>1. Finish(Line(text), 0) /\ Line(text) \in Seq(Tokens)
    BY <1>1, <1>4, <1>12 DEF PrintMail
  <2> QED BY <1>1, <2>1, FinishTyped
<1> QED BY <1>6, <1>8, <1>9, <1>10, <1>11, <1>12 DEF Retrieve, MailStep

\* What mime() takes a text apart with is text.
LEMMA DelimiterTyped ==
  ASSUME boundary \in Seq(Tokens)
  PROVE  delimiter \in Seq(Tokens) /\ Len(delimiter) \in Nat
<1>1. "--" \in Tokens
  BY WrittenTokens
<1>2. <<"--">> \in Seq(Tokens)
  BY <1>1
<1>3. delimiter \in Seq(Tokens)
  BY <1>2, ConcatProperties DEF delimiter
<1> QED BY <1>3, LenProperties

LEMMA ValueTyped ==
  ASSUME NEW t \in Seq(Tokens)
  PROVE  Quoted(t) \in Seq(Tokens) /\ Unquoted(t) \in Seq(Tokens)
<1> DEFINE Q == {"quote"}
           E == {";", "LF"}
           q == FindOneOf(Q, t, 2)
           u == FindOneOf(E, t, 1)
<1>1. Len(t) \in Nat
  BY LenProperties
<1>2. (q = 0 \/ q \in 2 .. Len(t)) /\ (u = 0 \/ u \in 1 .. Len(t))
  <2> HIDE DEF Q, E
  <2> QED BY FindOneOfPlace
<1>3. <<"(null)">> \in Seq(Tokens)
  <2>1. "(null)" \in Tokens
    BY WrittenTokens
  <2> QED BY <2>1
<1>4. Quoted(t) = IF q = 0 THEN <<"(null)">> ELSE SubSeq(t, 2, q - 1)
  BY DEF Quoted, Null
<1>5. Unquoted(t) = IF u = 0 THEN t ELSE SubSeq(t, 1, u - 1)
  BY DEF Unquoted
<1> HIDE DEF q, u
<1>6. q # 0 => SubSeq(t, 2, q - 1) \in Seq(Tokens)
  BY <1>1, <1>2, Piece
<1>7. u # 0 => SubSeq(t, 1, u - 1) \in Seq(Tokens)
  BY <1>1, <1>2, Piece
<1> QED BY <1>3, <1>4, <1>5, <1>6, <1>7

LEMMA BodyTyped ==
  ASSUME NEW d, NEW b \in Seq(Tokens)
  PROVE  BodyUpTo(d, b) \in Seq(Tokens)
<1> DEFINE k == Find(d, b, 1)
           T == {i \in 1 .. k - 1 : b[i] = "LF"}
           l == LastOf[T]
           e == IF l > 1 /\ b[l - 1] = "CR" THEN l - 2 ELSE l - 1
<1>1. Len(b) \in Nat
  BY LenProperties
<1>2. k = 0 \/ k \in 1 .. Len(b)
  BY FindPlace
<1>3. BodyUpTo(d, b) = IF k = 0 THEN b ELSE SubSeq(b, 1, e)
  BY DEF BodyUpTo
<1> HIDE DEF k
<1>4. CASE k # 0
  <2>1. T \subseteq 0 .. Len(b)
    BY <1>1, <1>2, <1>4
  <2> HIDE DEF T
  <2>2. l \in 0 .. Len(b)
    <3>1. l \in T \/ l = 0
      BY <1>1, <2>1, LastOfIs
    <3>2. 0 \in 0 .. Len(b)
      BY <1>1
    <3> QED BY <2>1, <3>1, <3>2
  <2> HIDE DEF l
  <2>3. e \in Int /\ e <= Len(b)
    BY <1>1, <2>2
  <2> HIDE DEF e
  <2> QED BY <1>3, <1>4, <2>3, Piece
<1> QED BY <1>3, <1>4

\* The places of folds, wherever the unfolding is to end.
LEMMA FoldPlaces ==
  ASSUME NEW t \in Seq(Tokens), NEW end \in Int
  PROVE  FoldsBefore(end, t) \in SUBSET Nat
<1>1. Len(t) \in Nat
  BY LenProperties
<1>2. ASSUME NEW i \in FoldsBefore(end, t) PROVE i \in Nat
  <2> DEFINE z == IF end < Len(t) - 2 THEN end - 1 ELSE Len(t) - 2
  <2>1. z \in Int
    BY <1>1
  <2>2. i \in 1 .. z
    BY DEF FoldsBefore
  <2> HIDE DEF z
  <2> QED BY <2>1, <2>2
<1> QED BY <1>2

LEMMA UnfoldEndTyped ==
  ASSUME NEW t \in Seq(Tokens)
  PROVE  UnfoldEnd(t) \in Int
<1> DEFINE Names == {"Content-Type:", "Content-Transfer-Encoding:"}
           fields == {Find(<<n>>, t, 1) : n \in Names}
<1>1. Len(t) \in Nat
  BY LenProperties
<1>2. fields \subseteq 0 .. Len(t)
  <2>1. ASSUME NEW n \in Names PROVE Find(<<n>>, t, 1) \in 0 .. Len(t)
    <3>1. Find(<<n>>, t, 1) = 0 \/ Find(<<n>>, t, 1) \in 1 .. Len(t)
      BY FindPlace
    <3> QED BY <1>1, <3>1
  <2> QED BY <2>1
<1>3. UnfoldEnd(t) = IF fields = {0} THEN Len(t) + 1 ELSE LastOf[fields]
  BY DEF UnfoldEnd
<1> HIDE DEF fields
<1>4. LastOf[fields] \in Int
  <2>1. LastOf[fields] \in fields \/ LastOf[fields] = 0
    BY <1>1, <1>2, LastOfIs
  <2>2. \A i \in fields : i \in Int
    BY <1>1, <1>2
  <2>3. 0 \in Int
    OBVIOUS
  <2> QED BY <2>1, <2>2, <2>3, Zenon
<1> QED BY <1>1, <1>3, <1>4

\* The steps of mime() keep the types, and the place it has come to.
LEMMA MimeTyped == ASSUME TypeInv, Mime PROVE TypeInv'
<1>1. /\ text \in Seq(Tokens) /\ boundary \in Seq(Tokens) /\ headers \in Seq(Tokens)
      /\ part \in 0 .. Len(text) + 1 /\ Len(text) \in Nat
      /\ UNCHANGED headerVars /\ command' = command /\ command = "mime"
  BY LenProperties DEF TypeInv, TypeOK, Mime
<1>2. line' = line /\ header_list' = header_list
  BY <1>1 DEF headerVars
<1>3. ASSUME NEW p \in {"delimiter", "value", "part", "headers", "check", "body"}, Step(p), pc # "done",
             text' \in Seq(Tokens), boundary' \in Seq(Tokens), headers' \in Seq(Tokens),
             part' \in 0 .. Len(text') + 1, p = "delimiter" \/ part' \in 1 .. Len(text') + 1
      PROVE  TypeInv'
  <2>1. TypeOK'
    BY <1>1, <1>2, <1>3, StepTyped DEF TypeInv, TypeOK
  <2>2. Placed'
    BY <1>1, <1>3 DEF Placed, Step
  <2> QED BY <2>1, <2>2 DEF TypeInv
<1>4. ASSUME pc \in {"value", "part", "headers", "check", "body"}
      PROVE  /\ part \in Nat /\ 1 <= part /\ part <= Len(text) + 1
             /\ From(text, part) \in Seq(Tokens)
  <2>1. part \in Nat /\ 1 <= part /\ part <= Len(text) + 1
    BY <1>1, <1>4 DEF TypeInv, Placed
  <2> QED BY <1>1, <2>1, Piece DEF From
<1>5. CASE FindParameter
  <2> DEFINE m       == <<"MIME-Version: 1.0">>
             b       == <<"boundary=">>
             version == Find(m, text, 1)
             param   == IF version = 0 THEN 0 ELSE Find(b, text, version)
  <2>1. param = 0 \/ param \in 1 .. Len(text)
    <3> HIDE DEF m, b
    <3>1. version = 0 \/ version \in 1 .. Len(text)
      BY <1>1, FindPlace
    <3> HIDE DEF version
    <3>2. version # 0 => Find(b, text, version) = 0 \/ Find(b, text, version) \in version .. Len(text)
      BY <1>1, <3>1, FindPlace
    <3> QED BY <1>1, <3>1, <3>2
  <2>2. /\ pc = "boundary" /\ text' = text /\ headers' = headers
        /\ \/ param = 0 /\ boundary' = Null /\ part' = part /\ Step("delimiter")
           \/ param # 0 /\ part' = param + 1 /\ boundary' = boundary /\ Step("value")
    BY <1>5 DEF FindParameter
  <2> HIDE DEF param
  <2>3. CASE param = 0 /\ boundary' = Null /\ part' = part /\ Step("delimiter")
    <3>1. Null \in Seq(Tokens)
      <4>1. "(null)" \in Tokens
        BY WrittenTokens
      <4> QED BY <4>1 DEF Null
    <3> QED BY <1>1, <1>3, <2>2, <2>3, <3>1
  <2>4. CASE param # 0 /\ part' = param + 1 /\ boundary' = boundary /\ Step("value")
    <3>1. part' \in 1 .. Len(text') + 1 /\ part' \in 0 .. Len(text') + 1
      BY <1>1, <2>1, <2>2, <2>4
    <3> QED BY <1>1, <1>3, <2>2, <2>4, <3>1
  <2> QED BY <2>2, <2>3, <2>4
<1>6. CASE TakeBoundary
  <2>1. /\ pc = "value" /\ text' = text /\ part' = part /\ headers' = headers /\ Step("delimiter")
        /\ boundary' = Quoted(From(text, part)) \/ boundary' = Unquoted(From(text, part))
    BY <1>6 DEF TakeBoundary
  <2>2. boundary' \in Seq(Tokens)
    BY <1>4, <2>1, ValueTyped
  <2> QED BY <1>1, <1>3, <2>1, <2>2
<1>7. CASE FindDelimiter
  <2> DEFINE first == Find(delimiter, text, 1)
             err == <<"Error: Boundary delimiter not found", "LF">>
  <2>1. first = 0 \/ (first \in 1 .. Len(text) /\ first + Len(delimiter) - 1 <= Len(text))
    BY <1>1, FindPlace
  <2>2. /\ pc = "delimiter" /\ boundary' = boundary /\ headers' = headers
        /\ \/ first = 0 /\ Finish(err, 0) /\ part' = part
           \/ first # 0 /\ part' = first + Len(delimiter) /\ text' = text /\ Step("part")
    BY <1>7 DEF FindDelimiter
  <2>3. Len(delimiter) \in Nat
    BY <1>1, DelimiterTyped
  <2> HIDE DEF first
  <2>4. CASE first = 0 /\ Finish(err, 0) /\ part' = part
    <3>1. err \in Seq(Tokens)
      <4>1. "Error: Boundary delimiter not found" \in Tokens /\ "LF" \in Tokens
        BY WrittenTokens
      <4> QED BY <4>1, Short, Zenon
    <3> HIDE DEF err
    <3>2. UNCHANGED <<mimeVars, headerVars>>
      BY <1>1, <2>2, <2>4 DEF mimeVars
    <3> QED BY <1>1, <2>4, <3>1, <3>2, FinishTyped
  <2>5. CASE first # 0 /\ part' = first + Len(delimiter) /\ text' = text /\ Step("part")
    <3>1. part' \in 1 .. Len(text') + 1 /\ part' \in 0 .. Len(text') + 1
      BY <1>1, <2>1, <2>3, <2>5
    <3> QED BY <1>1, <1>3, <2>2, <2>5, <3>1
  <2> QED BY <2>2, <2>4, <2>5
<1>8. CASE EnterPart
  <2> DEFINE rest == From(text, part)
             before == SubSeq(text, 1, part - 1)
             unfolded == Unfold(<<>>)[FoldsBefore(UnfoldEnd(rest), rest)][rest]
  <2>1. /\ pc = "part" /\ UNCHANGED mimeVars
        /\ \/ Finish(<<>>, 0)
           \/ text' = before \o unfolded /\ Step("headers")
    BY <1>8 DEF EnterPart
  <2>2. <<>> \in Seq(Tokens)
    BY EmptySeq
  <2>3. rest \in Seq(Tokens)
    BY <1>4, <2>1
  <2>4. unfolded \in Seq(Tokens)
    <3> HIDE DEF rest
    <3>1. FoldsBefore(UnfoldEnd(rest), rest) \in SUBSET Nat
      BY <2>3, FoldPlaces, UnfoldEndTyped
    <3>2. Tokens \subseteq STRING
      BY TextsAssumption, Zenon DEF TextsAssumption
    <3> DEFINE folds == FoldsBefore(UnfoldEnd(rest), rest)
    <3> HIDE DEF folds
    <3>3. Unfold(<<>>)[folds][rest] \in Seq(Tokens)
      BY <2>2, <2>3, <3>1, <3>2, UnfoldTyped, Zenon DEF folds
    <3> QED BY <3>3 DEF folds
  <2> HIDE DEF unfolded, rest
  <2>5. before \in Seq(Tokens) /\ Len(before) = part - 1
    BY <1>1, <1>4, <2>1, Piece
  <2> HIDE DEF before
  <2>6. before \o unfolded \in Seq(Tokens) /\ Len(before \o unfolded) = part - 1 + Len(unfolded)
        /\ Len(unfolded) \in Nat
    BY <2>4, <2>5, ConcatProperties, LenProperties
  <2>7. CASE Finish(<<>>, 0)
    BY <1>1, <2>1, <2>2, <2>7, FinishTyped
  <2>8. CASE text' = before \o unfolded /\ Step("headers")
    <3>1. part' = part /\ boundary' = boundary /\ headers' = headers
      BY <2>1 DEF mimeVars
    <3>2. text' \in Seq(Tokens) /\ part' \in 1 .. Len(text') + 1 /\ part' \in 0 .. Len(text') + 1
      BY <1>4, <2>1, <2>6, <2>8, <3>1
    <3> QED BY <1>1, <1>3, <2>1, <2>8, <3>1, <3>2
  <2> QED BY <2>1, <2>7, <2>8
<1>9. CASE ReadHeaders
  <2> DEFINE l == Find(<<"LF">>, text, part)
             e == Eol \o Eol
             blank == Find(e, text, l + 1)
  <2>1. /\ pc = "headers" /\ l # 0 /\ boundary' = boundary
        /\ \/ blank = 0 /\ Finish(<<>>, 0) /\ part' = part /\ headers' = headers
           \/ /\ blank # 0 /\ text' = text /\ Step("check")
              /\ headers' = SubSeq(text, l + 1, blank - 1) /\ part' = blank + 4
    BY <1>9 DEF ReadHeaders
  <2>2. <<>> \in Seq(Tokens)
    BY EmptySeq
  <2>3. Len(e) = 4
    BY DEF Eol
  <2> HIDE DEF e
  <2>4. l \in Nat /\ 1 <= l
    <3>1. l = 0 \/ l \in part .. Len(text)
      BY <1>1, <1>4, <2>1, FindPlace
    <3> HIDE DEF l
    <3> QED BY <1>4, <2>1, <3>1
  <2> HIDE DEF l
  <2>5. blank = 0 \/ (blank \in l + 1 .. Len(text) /\ blank + Len(e) - 1 <= Len(text))
    BY <1>1, <2>4, FindPlace
  <2> HIDE DEF blank
  <2>6. CASE blank = 0 /\ Finish(<<>>, 0) /\ part' = part /\ headers' = headers
    <3>1. UNCHANGED <<mimeVars, headerVars>>
      BY <1>1, <2>1, <2>6 DEF mimeVars
    <3> QED BY <1>1, <2>2, <2>6, <3>1, FinishTyped
  <2>7. CASE /\ blank # 0 /\ text' = text /\ Step("check")
             /\ headers' = SubSeq(text, l + 1, blank - 1) /\ part' = blank + 4
    <3>1. blank \in Nat /\ blank + 3 <= Len(text) /\ 1 <= blank
      BY <1>1, <2>3, <2>4, <2>5, <2>7
    <3>2. part' \in 1 .. Len(text') + 1 /\ part' \in 0 .. Len(text') + 1
      BY <1>1, <2>7, <3>1
    <3>3. headers' \in Seq(Tokens)
      BY <1>1, <2>4, <2>7, <3>1, Piece
    <3> QED BY <1>1, <1>3, <2>1, <2>7, <3>2, <3>3
  <2> QED BY <2>1, <2>6, <2>7
<1>10. CASE CheckHeaders
  <2> DEFINE a == <<"Error: Invalid Content-Type or charset", "LF">>
             b == <<"Error: Invalid Content-Transfer-Encoding", "LF">>
  <2>1. /\ pc = "check" /\ UNCHANGED mimeVars
        /\ Finish(a, 4) \/ Finish(b, 4) \/ (text' = text /\ Step("body"))
    BY <1>10 DEF CheckHeaders
  <2>2. a \in Seq(Tokens) /\ b \in Seq(Tokens)
    <3>1. /\ "Error: Invalid Content-Type or charset" \in Tokens
          /\ "Error: Invalid Content-Transfer-Encoding" \in Tokens /\ "LF" \in Tokens
      BY WrittenTokens
    <3> QED BY <3>1, Short, Zenon
  <2> HIDE DEF a, b
  <2>3. CASE Finish(a, 4)
    BY <1>1, <2>1, <2>2, <2>3, FinishTyped
  <2>4. CASE Finish(b, 4)
    BY <1>1, <2>1, <2>2, <2>4, FinishTyped
  <2>5. CASE text' = text /\ Step("body")
    <3>1. part' = part /\ boundary' = boundary /\ headers' = headers
      BY <2>1 DEF mimeVars
    <3>2. part' \in 1 .. Len(text') + 1
      BY <1>1, <1>4, <2>1, <2>5, <3>1
    <3> QED BY <1>1, <1>3, <2>1, <2>5, <3>1, <3>2
  <2> QED BY <2>1, <2>3, <2>4, <2>5
<1>11. CASE PrintBody
  <2> DEFINE body == BodyUpTo(delimiter, From(text, part))
  <2>1. pc = "body" /\ Finish(body, 0) /\ UNCHANGED mimeVars
    BY <1>11 DEF PrintBody
  <2>2. body \in Seq(Tokens)
    BY <1>4, <2>1, BodyTyped
  <2> HIDE DEF body
  <2> QED BY <1>1, <2>1, <2>2, FinishTyped
<1> QED BY <1>5, <1>6, <1>7, <1>8, <1>9, <1>10, <1>11 DEF Mime, MimeStep

\* trim_spaces() and strtok() make texts of texts.
LEMMA ListedTyped ==
  ASSUME header_list \in Seq([type : Seq(Tokens), packet : Seq(Tokens)]),
         NEW f, f \in {"From", "To", "Date", "Subject"}
  PROVE  Display(f, Listed(f)) \in Seq(Tokens)
<1> DEFINE T == {i \in DOMAIN header_list : \E s \in Spellings[f] : header_list[i].type = <<s>>}
           n == FirstOf[T]
           v == Listed(f)
           R == [type : Seq(Tokens), packet : Seq(Tokens)]
<1>1. DOMAIN header_list = 1 .. Len(header_list)
  BY LenProperties
<1>2. T \subseteq Nat \ {0}
  BY <1>1
<1>3. v = IF n = 0 THEN None ELSE header_list[n].packet
  BY DEF Listed
<1>4. n = 0 \/ n \in DOMAIN header_list
  <2>1. \A i \in T : i \in DOMAIN header_list
    OBVIOUS
  <2> HIDE DEF T
  <2> QED BY <1>2, <2>1, FirstOfIs
<1> HIDE DEF n, T
<1>5. v # None => v \in Seq(Tokens)
  <2>1. ASSUME n \in DOMAIN header_list PROVE header_list[n] \in R
    BY <1>1, <2>1, ElementOfSeq
  <2>2. \A r \in R : r.packet \in Seq(Tokens)
    OBVIOUS
  <2> HIDE DEF R
  <2> QED BY <1>3, <1>4, <2>1, <2>2
<1>6. /\ f \in Tokens /\ "LF" \in Tokens /\ ":" \in Tokens /\ " " \in Tokens
      /\ "<No subject>" \in Tokens
  BY WrittenTokens
<1> HIDE DEF v
<1> DEFINE a == <<f, ":", " ">>
           z == <<"LF">>
           missing == <<f, ":", " ", "<No subject>", "LF">>
           bare == <<f, ":", "LF">>
<1>7. a \in Seq(Tokens) /\ z \in Seq(Tokens) /\ missing \in Seq(Tokens) /\ bare \in Seq(Tokens)
  <2> DEFINE colon == ":"
             blank == " "
             lf == "LF"
             none == "<No subject>"
  <2>1. colon \in Tokens /\ blank \in Tokens /\ lf \in Tokens /\ none \in Tokens
    BY <1>6
  <2> HIDE DEF colon, blank, lf, none
  <2>2. /\ <<f, colon, blank>> \in Seq(Tokens)
        /\ <<f, colon, blank, none, lf>> \in Seq(Tokens)
    BY <1>6, <2>1, Longer, Zenon
  <2>3. <<f, colon, lf>> \in Seq(Tokens)
    BY <1>6, <2>1, Longer, Zenon
  <2>4. <<lf>> \in Seq(Tokens)
    BY <2>1, Short, Zenon
  <2> QED BY <2>2, <2>3, <2>4, Zenon DEF colon, blank, lf, none
<1>8. Display(f, v) = IF v # None THEN a \o v \o z ELSE IF f = "Subject" THEN missing ELSE bare
  BY Zenon DEF Display
<1> HIDE DEF a, z, missing, bare
<1>9. v # None => a \o v \o z \in Seq(Tokens)
  <2>1. v \in Seq(Tokens) => a \o v \in Seq(Tokens)
    BY <1>7, ConcatProperties
  <2>2. v \in Seq(Tokens) => (a \o v) \o z \in Seq(Tokens)
    BY <1>7, <2>1, ConcatProperties
  <2> QED BY <1>5, <2>2
<1>10. Display(f, v) \in Seq(Tokens)
  BY <1>7, <1>8, <1>9
<1> QED BY <1>10 DEF v

\* The steps of parse() keep the types.
LEMMA ParseTyped == ASSUME TypeInv, Parse PROVE TypeInv'
<1> DEFINE R == [type : Seq(Tokens), packet : Seq(Tokens)]
<1>1. /\ text \in Seq(Tokens) /\ line \in Seq(Tokens) /\ header_list \in Seq(R)
      /\ part = 0 /\ Len(text) \in Nat /\ Len(line) \in Nat /\ DOMAIN text = 1 .. Len(text)
      /\ UNCHANGED mimeVars /\ command' = command /\ command = "parse"
  BY LenProperties DEF TypeInv, TypeOK, Placed, Parse
<1>2. boundary' = boundary /\ part' = part /\ headers' = headers
  BY <1>1 DEF mimeVars
<1>3. ASSUME NEW p \in {"lines", "line"}, Step(p), pc # "done",
             text' \in Seq(Tokens), line' \in Seq(Tokens), header_list' \in Seq(R)
      PROVE  TypeInv'
  <2>1. part' \in 0 .. Len(text') + 1
    <3>1. Len(text') \in Nat
      BY <1>3, LenProperties
    <3> QED BY <1>1, <1>2, <3>1
  <2>2. TypeOK'
    BY <1>1, <1>2, <1>3, <2>1, StepTyped DEF TypeInv, TypeOK
  <2>3. Placed'
    BY <1>1, <1>2, <1>3 DEF Placed, Step
  <2> QED BY <2>2, <2>3 DEF TypeInv
<1>4. CASE UnfoldHeaders
  <2> DEFINE folds == FoldsBefore(Len(text) + 1, text)
             filler == <<" ">>
  <2>1. /\ pc = "unfold" /\ text' = Unfold(filler)[folds][text]
        /\ line' = line /\ header_list' = header_list /\ Step("lines")
    BY <1>4 DEF UnfoldHeaders, headerVars
  <2>2. filler \in Seq(Tokens)
    <3>1. " " \in Tokens
      BY WrittenTokens
    <3> QED BY <3>1, Short, Zenon
  <2>3. folds \in SUBSET Nat
    BY <1>1, FoldPlaces
  <2>4. Tokens \subseteq STRING
    BY TextsAssumption, Zenon DEF TextsAssumption
  <2> HIDE DEF folds, filler
  <2>5. text' \in Seq(Tokens)
    BY <1>1, <2>1, <2>2, <2>3, <2>4, UnfoldTyped, Zenon
  <2> QED BY <1>1, <1>3, <2>1, <2>5
<1>5. CASE NextLine
  <2> DEFINE T == {i \in DOMAIN text : text[i] \notin LineEnds}
             start == FirstOf[T]
             end == FindOneOf(LineEnds, text, start)
             last == IF end = 0 THEN Len(text) ELSE end - 1
  <2>1. /\ pc = "lines" /\ start # 0 /\ line' = SubSeq(text, start, last)
        /\ text' = IF end = 0 THEN <<>> ELSE From(text, end + 1)
        /\ header_list' = header_list /\ Step("line")
    BY <1>5 DEF NextLine
  <2>2. start \in 1 .. Len(text)
    <3>1. T \subseteq Nat \ {0} /\ \A i \in T : i \in 1 .. Len(text)
      BY <1>1
    <3> HIDE DEF T
    <3> QED BY <2>1, <3>1, FirstOfIs
  <2> HIDE DEF start
  <2>3. end = 0 \/ end \in start .. Len(text)
    BY <1>1, <2>2, FindOneOfPlace
  <2> HIDE DEF end
  <2>4. last \in Int /\ last <= Len(text) /\ start \in Nat /\ 1 <= start /\ Len(text) <= Len(text)
    BY <1>1, <2>2, <2>3
  <2> HIDE DEF last
  <2>5. line' \in Seq(Tokens)
    BY <1>1, <2>1, <2>4, Piece
  <2>6. end # 0 => From(text, end + 1) \in Seq(Tokens)
    <3>1. end # 0 => end + 1 \in Nat /\ 1 <= end + 1
      BY <2>2, <2>3
    <3> QED BY <1>1, <2>4, <3>1, Piece DEF From
  <2>7. text' \in Seq(Tokens)
    <3>1. <<>> \in Seq(Tokens)
      BY EmptySeq
    <3> QED BY <2>1, <2>6, <3>1
  <2> QED BY <1>1, <1>3, <2>1, <2>5, <2>7
<1>6. CASE ListLine
  <2> DEFINE c == Colon
             name == SubSeq(line, 1, c - 1)
             value == TrimSpaces(From(line, c + 1))
             node == [type |-> name, packet |-> value]
  <2>1. /\ pc = "line" /\ text' = text /\ line' = line /\ Step("lines")
        /\ header_list' = IF c = 0 THEN header_list ELSE Append(header_list, node)
    BY <1>6 DEF ListLine
  <2>2. c = 0 \/ c \in 1 .. Len(line)
    <3> DEFINE colon == <<":">>
    <3>1. c = Find(colon, line, 1)
      BY DEF Colon
    <3> HIDE DEF colon, c
    <3> QED BY <1>1, <3>1, FindPlace
  <2> HIDE DEF c
  <2>3. ASSUME c # 0 PROVE node \in R
    <3>1. c - 1 \in Int /\ c - 1 <= Len(line) /\ c + 1 \in Nat /\ 1 <= c + 1 /\ Len(line) <= Len(line)
      BY <1>1, <2>2, <2>3
    <3>2. name \in Seq(Tokens)
      BY <1>1, <3>1, Piece
    <3>3. From(line, c + 1) \in Seq(Tokens)
      BY <1>1, <3>1, Piece DEF From
    <3> DEFINE t == From(line, c + 1)
    <3> HIDE DEF t
    <3>4. TrimSpaces(t) \in Seq(Tokens)
      BY <3>3, TrimTyped, Zenon DEF TrimSpaces, t
    <3>5. value \in Seq(Tokens)
      BY <3>4 DEF t
    <3> HIDE DEF name, value
    <3> QED BY <3>2, <3>5
  <2> HIDE DEF node, R
  <2>4. header_list' \in Seq(R)
    BY <1>1, <2>1, <2>3, AppendProperties
  <2> QED BY <1>1, <1>3, <2>1, <2>4 DEF R
<1>7. CASE PrintHeaders
  <2> DEFINE values == [f \in DOMAIN Spellings |-> Listed(f)]
             d(f) == Display(f, Listed(f))
             out == InOrder(values)
  <2>1. Finish(out, 0) /\ UNCHANGED headerVars
    BY <1>7 DEF PrintHeaders
  <2>2. out = d("From") \o d("To") \o d("Date") \o d("Subject")
    <3>1. \A f \in {"From", "To", "Date", "Subject"} : values[f] = Listed(f)
      <4>1. DOMAIN Spellings = {"From", "To", "Date", "Subject"}
        BY DEF Spellings
      <4> QED BY <4>1
    <3> HIDE DEF values
    <3>2. /\ desired_order[1] = "From" /\ desired_order[2] = "To"
          /\ desired_order[3] = "Date" /\ desired_order[4] = "Subject"
      BY DEF desired_order
    <3> QED BY <3>1, <3>2 DEF InOrder
  <2>3. /\ d("From") \in Seq(Tokens) /\ d("To") \in Seq(Tokens)
        /\ d("Date") \in Seq(Tokens) /\ d("Subject") \in Seq(Tokens)
    BY <1>1, ListedTyped
  <2> HIDE DEF d, out
  <2>4. d("From") \o d("To") \in Seq(Tokens)
    BY <2>3, ConcatProperties
  <2>5. (d("From") \o d("To")) \o d("Date") \in Seq(Tokens)
    BY <2>3, <2>4, ConcatProperties
  <2>6. ((d("From") \o d("To")) \o d("Date")) \o d("Subject") \in Seq(Tokens)
    BY <2>3, <2>5, ConcatProperties
  <2> QED BY <1>1, <2>1, <2>2, <2>6, FinishTyped
<1> QED BY <1>4, <1>5, <1>6, <1>7 DEF Parse, HeaderStep

LEMMA TypeInvKept == ASSUME TypeInv, [Next]_vars PROVE TypeInv'
<1>1. CASE UNCHANGED vars
  <2>1. UNCHANGED <<message, text, pc, output, status, boundary, part, headers, line, header_list,
                    command>>
    BY <1>1 DEF vars, textVars, mimeVars, headerVars
  <2>2. TypeOK'
    BY <2>1 DEF TypeInv, TypeOK
  <2>3. Placed'
    BY <2>1 DEF TypeInv, Placed
  <2> QED BY <2>2, <2>3 DEF TypeInv
<1> QED BY <1>1, RetrieveTyped, MimeTyped, ParseTyped DEF Next

\* Every variable keeps its type, and a place in the text stays one, for every message,
\* whatever the code that takes it apart finds or misses (server_response.c:206-277,
\* imap_client.c:244-740).
THEOREM TypeCorrect == Spec => []TypeOK
<1>1. TypeInv /\ [Next]_vars => TypeInv'
  BY TypeInvKept
<1>2. TypeInv => TypeOK
  BY DEF TypeInv
<1> QED BY InitTyped, <1>1, <1>2, PTL DEF Spec
=============================================================================
