------------------------- MODULE ListCommandProofs -------------------------
(***************************************************************************)
(* sort_subject_list() sorts, is stable, loses nothing and stays on the    *)
(* list, for lists of every length and every set of numbers;               *)
(* populate_subject_list() keeps its types and its buffer, and lists the   *)
(* mailbox; and list() implements the sort: what is proved of SubjectSort  *)
(* holds of the whole command, for every mailbox and every size of         *)
(* subject[].                                                              *)
(***************************************************************************)
EXTENDS ListCommand, SequenceTheorems, FiniteSetTheorems, WellFoundedInduction, TLAPS

-----------------------------------------------------------------------------
(* The sort.                                                               *)

\* The node a pass has come to holds the largest number so far.
LargestSoFar == phase = "pass" => \A i \in Nodes : i < ptr1 => list[i].type <= list[ptr1].type

\* From lptr on the list is final.
SortedEnd ==
  \A i, j \in Nodes : i < j /\ lptr <= j => list[i].type <= list[j].type

\* A pass that has exchanged nothing has found everything in order.
OrderedSoFar ==
  phase = "pass" /\ ~swapped =>
    \A i, j \in Nodes : i < j /\ j <= ptr1 => list[i].type <= list[j].type

\* Nodes with one number are in the order of the reply.
Stable ==
  \A i, j \in Nodes : i < j /\ list[i].type = list[j].type => list[i].packet < list[j].packet

Bounds == phase = "pass" => ptr1 < lptr /\ (swapped => ptr1 > 1)

Finished ==
  phase = "done" => \A i, j \in Nodes : i < j => list[i].type <= list[j].type

Inv ==
  /\ SortTypeOK
  /\ EachOnce
  /\ LargestSoFar
  /\ SortedEnd
  /\ OrderedSoFar
  /\ Stable
  /\ Bounds
  /\ Finished

\* What the type invariant says of a node.
LEMMA NodeTyped ==
  ASSUME SortTypeOK, NEW i \in Nodes
  PROVE  list[i].type \in Int /\ list[i].packet \in Nodes /\ i \in Nat /\ 1 <= i
<1>1. list[i] \in [type : Numbers, packet : Nodes]
  BY DEF SortTypeOK
<1>2. list[i].type \in Int /\ list[i].packet \in Nodes
  BY <1>1, SortAssumption DEF SortAssumption
<1>3. length \in Nat
  BY SortAssumption DEF SortAssumption, SortTypeOK
<1>4. i \in Nat /\ 1 <= i
  BY <1>3 DEF Nodes
<1> QED BY <1>2, <1>4

\* Before the call there are no nodes.
LEMMA InitInv == SortInit => Inv
<1> SUFFICES ASSUME SortInit PROVE Inv
  OBVIOUS
<1>1. length = 0 /\ NULL = 1 /\ Nodes = {} /\ 0 \in 0 .. MaxNodes
  BY SortAssumption DEF SortInit, SortAssumption, Nodes, NULL
<1>2. SortTypeOK
  <2>1. given \in [Nodes -> Numbers]
    BY <1>1 DEF SortInit
  <2>2. list \in [Nodes -> [type : Numbers, packet : Nodes]]
    BY <1>1 DEF SortInit
  <2>3. length \in 0 .. MaxNodes /\ ptr1 \in 1 .. NULL /\ lptr \in 1 .. NULL
    BY <1>1 DEF SortInit
  <2> QED BY <2>1, <2>2, <2>3 DEF SortInit, SortTypeOK
<1>3. EachOnce /\ Stable /\ SortedEnd
  BY <1>1 DEF EachOnce, Stable, SortedEnd
<1>4. LargestSoFar /\ OrderedSoFar /\ Bounds /\ Finished
  BY DEF SortInit, LargestSoFar, OrderedSoFar, Bounds, Finished
<1> QED BY <1>2, <1>3, <1>4 DEF Inv

\* The list that is handed over is in the order of the reply.
LEMMA CallInv ==
  ASSUME NEW n \in 0 .. MaxNodes, NEW numbers \in [1 .. n -> Numbers], SortCall(n, numbers)
  PROVE  Inv'
<1>1. n \in Nat /\ Nodes' = 1 .. n /\ NULL' = n + 1
  BY SortAssumption DEF SortAssumption, SortCall, Nodes, NULL
<1>2. \A i \in 1 .. n :
        /\ list'[i].type = numbers[i] /\ list'[i].packet = i
        /\ [type |-> numbers[i], packet |-> i] \in [type : Numbers, packet : 1 .. n]
        /\ i \in Nat /\ 1 <= i /\ i <= n
  BY <1>1 DEF SortCall
<1>3. SortTypeOK'
  <2>1. list' \in [1 .. n -> [type : Numbers, packet : 1 .. n]]
    BY <1>2 DEF SortCall
  <2>2. 1 \in 1 .. n + 1 /\ n + 1 \in 1 .. n + 1
    BY <1>1
  <2> QED BY <1>1, <2>1, <2>2 DEF SortCall, SortTypeOK
<1>4. EachOnce'
  BY <1>1, <1>2 DEF SortCall, EachOnce
<1>5. Stable'
  BY <1>1, <1>2 DEF Stable
<1>6. SortedEnd'
  BY <1>1, <1>2 DEF SortCall, SortedEnd
<1>7. LargestSoFar' /\ OrderedSoFar'
  BY <1>1, <1>2 DEF SortCall, LargestSoFar, OrderedSoFar
<1>8. Bounds' /\ Finished'
  BY <1>1 DEF SortCall, Bounds, Finished
<1> QED BY <1>3, <1>4, <1>5, <1>6, <1>7, <1>8 DEF Inv

\* What an exchange of neighbours leaves in each node.
LEMMA ExchangeValue ==
  ASSUME SortTypeOK, NEW p \in Nodes, p + 1 \in Nodes, list' = Exchange(p)
  PROVE  /\ list' \in [Nodes -> [type : Numbers, packet : Nodes]]
         /\ list'[p] = list[p + 1] /\ list'[p + 1] = list[p]
         /\ \A i \in Nodes : i # p /\ i # p + 1 => list'[i] = list[i]
BY DEF SortTypeOK, Exchange, Nodes

LEMMA CompareInv == ASSUME Inv, Compare PROVE Inv'
<1> USE SortAssumption DEF SortAssumption
<1> DEFINE p == ptr1
<1>1. /\ phase = "pass" /\ phase' = "pass" /\ ptr1' = p + 1
      /\ UNCHANGED <<length, given, lptr>> /\ Nodes' = Nodes /\ NULL' = NULL
  BY DEF Compare, Nodes, NULL
<1>2. /\ p \in Nodes /\ p + 1 \in Nodes /\ p + 1 < lptr /\ lptr \in 1 .. NULL
      /\ length \in Nat /\ NULL = length + 1 /\ p \in Nat /\ lptr \in Nat
  BY <1>1 DEF Inv, SortTypeOK, Bounds, Compare, More, Nodes, NULL
<1>3. \A i \in Nodes :
        list[i].type \in Int /\ list[i].packet \in Nodes /\ i \in Nat /\ 1 <= i
  BY NodeTyped DEF Inv
<1>4. CASE list[p].type > list[p + 1].type /\ list' = Exchange(p) /\ swapped' = TRUE
  <2>1. /\ list' \in [Nodes -> [type : Numbers, packet : Nodes]]
        /\ list'[p] = list[p + 1] /\ list'[p + 1] = list[p]
        /\ \A i \in Nodes : i # p /\ i # p + 1 => list'[i] = list[i]
    BY <1>2, <1>4, ExchangeValue DEF Inv
  <2>2. SortTypeOK'
    <3>1. ptr1' \in 1 .. NULL
      BY <1>1, <1>2, <1>3
    <3>2. lptr' \in 1 .. NULL /\ swapped' \in BOOLEAN /\ phase' \in {"idle", "pass", "done", "exit"}
      BY <1>1, <1>2, <1>4
    <3>3. length' \in 0 .. MaxNodes /\ given' \in [Nodes -> Numbers]
      BY <1>1 DEF Inv, SortTypeOK
    <3> QED BY <1>1, <2>1, <3>1, <3>2, <3>3 DEF SortTypeOK
  <2> DEFINE was(k) == IF k = p THEN p + 1 ELSE IF k = p + 1 THEN p ELSE k
  <2>8. \A k \in Nodes : was(k) \in Nodes /\ list'[k] = list[was(k)]
    BY <1>2, <2>1
  <2>9. \A i, j \in Nodes : was(i) = was(j) => i = j
    BY <1>2
  <2>3. EachOnce'
    <3> HIDE DEF was
    <3>1. \A i \in Nodes : list'[i].type = given[list'[i].packet]
      BY <2>8 DEF Inv, EachOnce
    <3>2. \A i, j \in Nodes : list'[i].packet = list'[j].packet => i = j
      BY <2>8, <2>9 DEF Inv, EachOnce
    <3> QED BY <1>1, <3>1, <3>2 DEF EachOnce
  <2>4. LargestSoFar'
    <3>1. ASSUME NEW i \in Nodes, i < p + 1 PROVE list'[i].type <= list'[p + 1].type
      <4>1. CASE i = p
        BY <1>2, <1>3, <1>4, <2>1, <4>1
      <4>2. CASE i # p
        <5>1. i < p /\ i # p + 1
          BY <1>2, <1>3, <3>1, <4>2
        <5> QED BY <1>1, <1>2, <2>1, <5>1 DEF Inv, LargestSoFar
      <4> QED BY <4>1, <4>2
    <3> QED BY <1>1, <3>1 DEF LargestSoFar
  <2>5. SortedEnd'
    <3>1. ASSUME NEW i \in Nodes, NEW j \in Nodes, i < j, lptr <= j
          PROVE  list'[i].type <= list'[j].type
      <4>0. j # p /\ j # p + 1
        <5>1. j \in Nat /\ p \in Nat /\ lptr \in Nat
          BY <1>2, <1>3
        <5> QED BY <1>2, <3>1, <5>1
      <4>1. list'[j] = list[j]
        BY <2>1, <4>0
      <4>2. \A k \in Nodes : k < j => list[k].type <= list[j].type
        BY <3>1 DEF Inv, SortedEnd
      <4>3. p < j /\ p + 1 < j
        BY <1>2, <1>3, <3>1
      <4> QED BY <1>2, <2>1, <3>1, <4>1, <4>2, <4>3
    <3> QED BY <1>1, <3>1 DEF SortedEnd
  <2>6. Stable'
    <3>1. ASSUME NEW i \in Nodes, NEW j \in Nodes, i < j, list'[i].type = list'[j].type
          PROVE  list'[i].packet < list'[j].packet
      <4>2. ~(i = p /\ j = p + 1)
        BY <1>3, <1>4, <2>1, <3>1
      <4>3. was(i) < was(j)
        BY <1>2, <1>3, <3>1, <4>2
      <4>4. list[was(i)].type = list[was(j)].type
        BY <2>8, <3>1
      <4> HIDE DEF was
      <4>5. list[was(i)].packet < list[was(j)].packet
        BY <2>8, <4>3, <4>4 DEF Inv, Stable
      <4> QED BY <2>8, <4>5
    <3> QED BY <1>1, <3>1 DEF Stable
  <2>7. OrderedSoFar' /\ Bounds' /\ Finished'
    BY <1>1, <1>2, <1>3, <1>4 DEF OrderedSoFar, Bounds, Finished
  <2> QED BY <2>2, <2>3, <2>4, <2>5, <2>6, <2>7 DEF Inv
<1>5. CASE ~(list[p].type > list[p + 1].type) /\ UNCHANGED <<list, swapped>>
  <2>1. list[p].type <= list[p + 1].type
    BY <1>2, <1>3, <1>5
  <2>2. SortTypeOK' /\ EachOnce'
    <3>1. ptr1' \in 1 .. NULL
      BY <1>1, <1>2, <1>3
    <3> QED BY <1>1, <1>5, <3>1 DEF Inv, SortTypeOK, EachOnce
  <2>3. SortedEnd' /\ Stable'
    BY <1>1, <1>5 DEF Inv, SortedEnd, Stable
  <2>4. \A i \in Nodes : i < p + 1 => list[i].type <= list[p + 1].type
    <3>1. ASSUME NEW i \in Nodes, i < p + 1 PROVE list[i].type <= list[p + 1].type
      <4>1. i = p \/ i < p
        <5>1. i \in Nat /\ p \in Nat
          BY <1>2, <1>3
        <5> QED BY <3>1, <5>1
      <4>2. list[i].type <= list[p].type
        BY <1>1, <1>2, <1>3, <4>1 DEF Inv, LargestSoFar
      <4> QED BY <1>2, <1>3, <2>1, <4>2
    <3> QED BY <3>1
  <2>5. LargestSoFar'
    BY <1>1, <1>5, <2>4 DEF LargestSoFar
  <2>6. OrderedSoFar'
    <3>1. ASSUME ~swapped, NEW i \in Nodes, NEW j \in Nodes, i < j, j <= p + 1
          PROVE  list[i].type <= list[j].type
      <4>1. CASE j = p + 1
        BY <2>4, <3>1, <4>1
      <4>2. CASE j # p + 1
        <5>1. j <= p
          BY <1>2, <1>3, <3>1, <4>2
        <5> QED BY <1>1, <3>1, <5>1 DEF Inv, OrderedSoFar
      <4> QED BY <4>1, <4>2
    <3> QED BY <1>1, <1>5, <3>1 DEF OrderedSoFar
  <2>7. Bounds' /\ Finished'
    BY <1>1, <1>2, <1>3, <1>5 DEF Bounds, Finished
  <2> QED BY <2>2, <2>3, <2>5, <2>6, <2>7 DEF Inv
<1> QED BY <1>4, <1>5 DEF Compare, OutOfOrder

\* The end of a pass: the node it came to joins the sorted end.
LEMMA PassEndInv == ASSUME Inv, NextPass \/ Stop PROVE Inv'
<1> USE SortAssumption DEF SortAssumption
<1>1. /\ phase = "pass" /\ ~More /\ lptr' = ptr1
      /\ UNCHANGED <<length, given, list>> /\ Nodes' = Nodes /\ NULL' = NULL
  BY DEF NextPass, Stop, Nodes, NULL
<1>2. /\ lptr = ptr1 + 1 /\ ptr1 \in Nodes /\ length \in Nat
      /\ NULL = length + 1 /\ ptr1 \in Nat
  BY <1>1 DEF Inv, SortTypeOK, More, Bounds, Nodes, NULL
<1>3. \A i \in Nodes :
        list[i].type \in Int /\ list[i].packet \in Nodes /\ i \in Nat /\ 1 <= i
  BY NodeTyped DEF Inv
<1>4. EachOnce' /\ Stable'
  BY <1>1 DEF Inv, EachOnce, Stable
<1>5. SortedEnd'
  <2>1. ASSUME NEW i \in Nodes, NEW j \in Nodes, i < j, ptr1 <= j
        PROVE  list[i].type <= list[j].type
    <3>1. CASE j = ptr1
      BY <1>1, <2>1, <3>1 DEF Inv, LargestSoFar
    <3>2. CASE j # ptr1
      <4>1. lptr <= j
        BY <1>2, <1>3, <2>1, <3>2
      <4> QED BY <2>1, <4>1 DEF Inv, SortedEnd
    <3> QED BY <3>1, <3>2
  <2> QED BY <1>1, <2>1 DEF SortedEnd
<1>6. CASE NextPass
  <2>1. ptr1' = 1 /\ swapped /\ swapped' = FALSE /\ phase' = "pass" /\ ptr1 > 1
    BY <1>1, <1>6 DEF NextPass, Inv, Bounds
  <2>2. SortTypeOK'
    <3>1. ptr1' \in 1 .. NULL
      BY <1>2, <2>1
    <3> QED BY <1>1, <2>1, <3>1 DEF Inv, SortTypeOK
  <2>3. Bounds' /\ Finished'
    BY <1>1, <2>1 DEF Bounds, Finished
  <2>4. LargestSoFar' /\ OrderedSoFar'
    BY <1>1, <1>3, <2>1 DEF LargestSoFar, OrderedSoFar
  <2> QED BY <1>4, <1>5, <2>2, <2>3, <2>4 DEF Inv
<1>7. CASE Stop
  <2>1. ~swapped /\ phase' = "done" /\ UNCHANGED <<ptr1, swapped>>
    BY <1>7 DEF Stop
  <2>2. SortTypeOK'
    BY <1>1, <2>1 DEF Inv, SortTypeOK
  <2>3. ASSUME NEW i \in Nodes, NEW j \in Nodes, i < j PROVE list[i].type <= list[j].type
    <3>1. CASE j <= ptr1
      BY <1>1, <2>1, <2>3, <3>1 DEF Inv, OrderedSoFar
    <3>2. CASE ~(j <= ptr1)
      <4>1. lptr <= j
        BY <1>2, <1>3, <3>2
      <4> QED BY <2>3, <4>1 DEF Inv, SortedEnd
    <3> QED BY <3>1, <3>2
  <2>4. LargestSoFar' /\ OrderedSoFar' /\ Bounds' /\ Finished'
    BY <1>1, <2>1, <2>3 DEF LargestSoFar, OrderedSoFar, Bounds, Finished
  <2> QED BY <1>4, <1>5, <2>2, <2>4 DEF Inv
<1> QED BY <1>6, <1>7

LEMMA NextInv == ASSUME Inv, [SortNext]_sortVars PROVE Inv'
<1>1. CASE UNCHANGED sortVars
  BY <1>1 DEF sortVars, Inv, SortTypeOK, EachOnce, LargestSoFar, SortedEnd, OrderedSoFar,
              Stable, Bounds, Finished, Nodes, NULL
<1> QED BY <1>1, CallInv, CompareInv, PassEndInv DEF SortNext, SortStep

LEMMA Invariance == SortSpec => []Inv
<1> QED BY InitInv, NextInv, PTL DEF SortSpec

\* The nodes and the numbers of the sort keep their types: an exchange puts no packet
\* where there is none, and ptr1 and lptr never leave the list.
THEOREM SortTypeCorrect == SortSpec => []SortTypeOK
<1>1. Inv => SortTypeOK
  BY DEF Inv
<1> QED BY <1>1, Invariance, PTL

\* When the sort is done the subjects are in the order of their numbers, and
\* those of one number in the order of the reply.
THEOREM SortsStably == SortSpec => []Sorted
<1>1. ASSUME Inv PROVE Sorted
  <2>1. ASSUME phase = "done", NEW i \in Nodes, NEW j \in Nodes, i < j
        PROVE  \/ list[i].type < list[j].type
               \/ list[i].type = list[j].type /\ list[i].packet < list[j].packet
    <3>1. list[i].type \in Int /\ list[j].type \in Int
      BY <1>1, SortAssumption DEF Inv, SortTypeOK, SortAssumption
    <3>2. list[i].type <= list[j].type
      BY <1>1, <2>1 DEF Inv, Finished
    <3>3. list[i].type = list[j].type => list[i].packet < list[j].packet
      BY <1>1, <2>1 DEF Inv, Stable
    <3> QED BY <3>1, <3>2, <3>3
  <2> QED BY <2>1 DEF Sorted
<1> QED BY <1>1, Invariance, PTL

\* At every moment of the sort each subject is in the list once, with its own
\* number.
THEOREM LosesNothing == SortSpec => []EachOnce
<1>1. Inv => EachOnce
  BY DEF Inv
<1> QED BY <1>1, Invariance, PTL

\* The sort reads no node past the last one.
THEOREM StaysOnTheList == SortSpec => []OnTheList
<1>1. ASSUME Inv PROVE OnTheList
  BY <1>1 DEF Inv, SortTypeOK, Bounds, OnTheList, More, Nodes, NULL
<1> QED BY <1>1, Invariance, PTL

-----------------------------------------------------------------------------
(* The command.                                                            *)

\* Every set of naturals with an upper bound has a greatest element.
LEMMA GreatestNat ==
  ASSUME NEW N \in Nat, NEW T, T \subseteq 0 .. N, T # {}
  PROVE  \E x \in T : \A y \in T : y <= x
<1> DEFINE U == {u \in 0 .. N : N - u \in T}
<1>1. U # {}
  <2>1. PICK x \in T : TRUE
    OBVIOUS
  <2>2. N - x \in 0 .. N /\ N - (N - x) = x
    BY <2>1
  <2>3. N - x \in U
    BY <2>1, <2>2
  <2> QED BY <2>3
<1>2. U \subseteq Nat
  OBVIOUS
<1>3. PICK u \in U : \A y \in U : ~(<<y, u>> \in OpToRel(<, Nat))
  BY <1>1, <1>2, NatLessThanWellFounded, WFMin, Zenon
<1>4. N - u \in T /\ u \in Nat
  OBVIOUS
<1>5. ASSUME NEW y \in T PROVE y <= N - u
  <2>1. y \in Nat /\ N - y \in 0 .. N /\ N - (N - y) = y
    OBVIOUS
  <2>2. N - y \in U
    BY <2>1
  <2> HIDE DEF U
  <2>3. ~(<<N - y, u>> \in OpToRel(<, Nat))
    BY <1>3, <2>2
  <2>4. N - y \in Nat /\ u \in Nat
    BY <1>4, <2>1
  <2>5. ~(N - y < u)
    BY <2>3, <2>4 DEF OpToRel
  <2> QED BY <2>1, <2>4, <2>5
<1> QED BY <1>4, <1>5

\* The last of some places, or the first place if there is none.
LEMMA LastPlace ==
  ASSUME NEW L \in Nat, L # 0, NEW B \in SUBSET (1 .. L)
  PROVE  \E n \in 1 .. L : (n = 1 \/ n \in B) /\ \A j \in n + 1 .. L : j \notin B
<1>1. B \cup {1} \subseteq 0 .. L /\ B \cup {1} # {}
  OBVIOUS
<1>2. PICK n \in B \cup {1} : \A y \in B \cup {1} : y <= n
  BY <1>1, GreatestNat
<1>3. n \in 1 .. L
  OBVIOUS
<1>4. ASSUME NEW j \in n + 1 .. L PROVE j \notin B
  <2>1. ~(j <= n)
    BY <1>3
  <2> QED BY <1>2, <2>1
<1> QED BY <1>2, <1>3, <1>4

\* trim_subject() returns a prefix of what it is given.
LEMMA TrimmedType ==
  ASSUME NEW S, NEW t \in Seq(S)
  PROVE  /\ Trimmed(t) \in Seq(S)
         /\ Len(Trimmed(t)) <= Len(t)
<1> DEFINE L == Len(t)
           B == {n \in 1 .. L : t[n] # " "}
           Good(n) == /\ n <= 1 \/ t[n] # " "
                      /\ \A j \in n + 1 .. L : t[j] = " "
                      /\ n = 0 => t = <<>>
           k == CHOOSE n \in 0 .. L : Good(n)
<1>1. L \in Nat /\ (L = 0 => t = <<>>)
  OBVIOUS
<1>2. Trimmed(t) = SubSeq(t, 1, k)
  BY DEF Trimmed
<1> HIDE DEF L
<1>3. \E n \in 0 .. L : Good(n)
  <2>1. CASE L = 0
    BY <1>1, <2>1
  <2>2. CASE L # 0
    <3>1. B \in SUBSET (1 .. L)
      OBVIOUS
    <3> HIDE DEF B
    <3>2. PICK n \in 1 .. L : (n = 1 \/ n \in B) /\ \A j \in n + 1 .. L : j \notin B
      BY <1>1, <2>2, <3>1, LastPlace
    <3>3. n <= 1 \/ t[n] # " "
      <4>1. CASE n = 1
        BY <4>1
      <4>2. CASE n \in B
        BY <4>2 DEF B
      <4> QED BY <3>2, <4>1, <4>2
    <3>4. Good(n)
      <4>1. ASSUME NEW j \in n + 1 .. L PROVE t[j] = " "
        <5>1. j \in 1 .. L /\ j \notin B
          BY <1>1, <3>2
        <5> QED BY <5>1 DEF B
      <4>2. n # 0
        BY <3>2
      <4> QED BY <3>3, <4>1, <4>2
    <3>5. n \in 0 .. L
      BY <1>1, <3>2
    <3> QED BY <3>4, <3>5
  <2> QED BY <2>1, <2>2
<1>4. k \in 0 .. L
  BY <1>3
<1> HIDE DEF k
<1>5. SubSeq(t, 1, k) \in Seq(S) /\ Len(SubSeq(t, 1, k)) = k
  BY <1>1, <1>4 DEF L
<1> QED BY <1>1, <1>2, <1>4, <1>5 DEF L

\* A text of one token.
LEMMA OneToken ==
  ASSUME NEW S, NEW e \in S
  PROVE  <<e>> \in Seq(S)
OBVIOUS

\* What is true of 1, and of n + 1 when it is of n, is true up to m.
LEMMA Steps ==
  ASSUME NEW m \in Nat, NEW T, 1 \in T, \A n \in 1 .. m - 1 : n \in T => n + 1 \in T
  PROVE  \A n \in 1 .. m : n \in T
<1> DEFINE Good == {x \in 0 .. m : \A n \in 1 .. x : n \in T}
<1>1. 0 \in Good
  OBVIOUS
<1>2. PICK x \in Good : \A y \in Good : y <= x
  <2>1. Good \subseteq 0 .. m /\ Good # {}
    BY <1>1
  <2> HIDE DEF Good
  <2> QED BY <2>1, GreatestNat
<1>3. x = m
  <2>1. SUFFICES ASSUME x # m PROVE FALSE
    OBVIOUS
  <2>2. x \in Nat /\ x + 1 \in 0 .. m /\ \A n \in 1 .. x : n \in T
    BY <1>2, <2>1
  <2>3. x + 1 \in T
    <3>1. CASE x = 0
      BY <3>1
    <3>2. CASE x # 0
      <4>1. x \in 1 .. m - 1 /\ x \in 1 .. x
        BY <2>2, <3>2
      <4> QED BY <2>2, <4>1
    <3> QED BY <3>1, <3>2
  <2>4. \A n \in 1 .. x + 1 : n \in T
    <3> SUFFICES ASSUME NEW n \in 1 .. x + 1 PROVE n \in T
      OBVIOUS
    <3>1. n = x + 1 \/ n \in 1 .. x
      BY <2>2
    <3> QED BY <2>2, <2>3, <3>1
  <2>5. x + 1 \in Good
    BY <2>2, <2>4
  <2> QED BY <1>2, <2>2, <2>5
<1> QED BY <1>2, <1>3

-----------------------------------------------------------------------------
(* Texts: what trim_subject() leaves, and what the lines of a body make.   *)

\* The blank, as a constant the provers need not look into.
Blank == " "

\* n is the last token of t that is no blank.
EndsAt(t, n) == n \in 1 .. Len(t) /\ t[n] # Blank /\ \A j \in n + 1 .. Len(t) : t[j] = Blank

LEMMA EndIs ==
  ASSUME NEW S, NEW t \in Seq(S), NEW n \in Nat, EndsAt(t, n)
  PROVE  /\ Len(t) \in Nat /\ n \in Nat /\ 1 <= n /\ n <= Len(t) /\ t[n] # Blank
         /\ \A j \in n + 1 .. Len(t) : t[j] = Blank
<1>1. Len(t) \in Nat
  OBVIOUS
<1> DEFINE L == Len(t)
<1>2. n \in 1 .. L /\ t[n] # Blank /\ \A j \in n + 1 .. L : t[j] = Blank
  BY Zenon DEF EndsAt
<1>3. L \in Nat
  BY <1>1
<1> HIDE DEF L
<1>4. n \in Nat /\ 1 <= n /\ n <= L
  BY <1>2, <1>3
<1> QED BY <1>2, <1>3, <1>4 DEF L

LEMMA NotEmpty ==
  ASSUME NEW S, NEW t \in Seq(S), t # <<>>
  PROVE  Len(t) \in Nat /\ 1 <= Len(t) /\ 1 \in 1 .. Len(t) /\ Len(t) \in 1 .. Len(t)
<1>1. Len(t) \in Nat /\ Len(t) # 0
  BY EmptySeq
<1> DEFINE L == Len(t)
<1>2. L \in Nat /\ L # 0
  BY <1>1
<1> HIDE DEF L
<1>3. 1 <= L /\ 1 \in 1 .. L /\ L \in 1 .. L
  BY <1>2
<1> QED BY <1>2, <1>3 DEF L

\* trim_subject() cuts after the last token that is no blank.
LEMMA TrimmedIs ==
  ASSUME NEW S, NEW t \in Seq(S), NEW n \in Nat, EndsAt(t, n)
  PROVE  Trimmed(t) = SubSeq(t, 1, n)
<1> DEFINE L == Len(t)
           Good(k) == /\ k <= 1 \/ t[k] # Blank
                      /\ \A j \in k + 1 .. L : t[j] = Blank
                      /\ k = 0 => t = <<>>
           c == CHOOSE k \in 0 .. L : Good(k)
<1>1. Trimmed(t) = SubSeq(t, 1, c)
  BY Zenon DEF Trimmed, Blank
<1>2. /\ L \in Nat /\ n \in Nat /\ 1 <= n /\ n <= L /\ t[n] # Blank
      /\ \A j \in n + 1 .. L : t[j] = Blank
  BY EndIs
<1> HIDE DEF L
<1>3. Good(n) /\ n \in 0 .. L
  BY <1>2
<1>4. c \in 0 .. L /\ Good(c)
  BY <1>3
<1> HIDE DEF c
<1>5. c \in 0 .. L /\ (c <= 1 \/ t[c] # Blank) /\ \A j \in c + 1 .. L : t[j] = Blank
  BY <1>4
<1>6. ~(c < n)
  <2>1. c < n => n \in c + 1 .. L
    BY <1>2, <1>5
  <2> QED BY <1>2, <1>5, <2>1
<1>7. ~(n < c)
  <2>1. n < c => c \in n + 1 .. L /\ ~(c <= 1)
    BY <1>2, <1>5
  <2> QED BY <1>2, <1>5, <2>1
<1>8. c = n
  <2>1. c \in Nat
    BY <1>2, <1>5
  <2> QED BY <1>2, <1>6, <1>7, <2>1
<1> QED BY <1>1, <1>8

\* A text that ends in no blank stays as it is.
LEMMA TrimmedSame ==
  ASSUME NEW S, NEW t \in Seq(S), t # <<>>, t[Len(t)] # Blank
  PROVE  Trimmed(t) = t
<1>1. Len(t) \in Nat /\ Len(t) \in 1 .. Len(t)
  BY NotEmpty
<1> DEFINE L == Len(t)
<1>2. L \in Nat /\ L \in 1 .. L /\ t[L] # Blank
  BY <1>1
<1> HIDE DEF L
<1>3. \A j \in L + 1 .. L : t[j] = Blank
  BY <1>2
<1>4. EndsAt(t, Len(t))
  BY <1>2, <1>3 DEF EndsAt, L
<1>5. Trimmed(t) = SubSeq(t, 1, Len(t))
  BY <1>4, TrimmedIs
<1>6. SubSeq(t, 1, Len(t)) = t
  OBVIOUS
<1> QED BY <1>5, <1>6

\* A text that is not blank has a last token that is no blank.
LEMMA EndExists ==
  ASSUME NEW S, NEW t \in Seq(S), t # <<>>, t[1] # Blank
  PROVE  \E n : EndsAt(t, n)
<1> DEFINE L == Len(t)
           B == {n \in 1 .. L : t[n] # Blank}
<1>1. L \in Nat /\ 1 <= L /\ 1 \in 1 .. L
  BY NotEmpty
<1> HIDE DEF L
<1>2. B \in SUBSET (1 .. L) /\ 1 \in B
  BY <1>1
<1> HIDE DEF B
<1>3. L # 0
  BY <1>1
<1>4. PICK n \in 1 .. L : (n = 1 \/ n \in B) /\ \A j \in n + 1 .. L : j \notin B
  BY <1>1, <1>2, <1>3, LastPlace
<1>5. n \in B
  BY <1>2, <1>4
<1>6. \A j \in n + 1 .. L : j \in 1 .. L
  BY <1>1, <1>4
<1>7. n \in 1 .. L /\ t[n] # Blank /\ \A j \in n + 1 .. L : t[j] = Blank
  BY <1>4, <1>5, <1>6 DEF B
<1>8. EndsAt(t, n)
  BY <1>7 DEF EndsAt, L
<1> QED BY <1>8

\* The body of a subject that does not begin with a blank ends where it is trimmed.
LEMMA BodyIs ==
  ASSUME NEW m, NEW S, Unfolded(m) \in Seq(S), NEW n \in Nat, EndsAt(Unfolded(m), n), Unfolded(m)[1] # Blank
  PROVE  Body(m) = SubSeq(Unfolded(m), 1, n)
<1> DEFINE t == Unfolded(m)
           L == Len(t)
           inner == {i \in 1 .. L : t[i] # Blank}
           a == CHOOSE i \in inner : \A j \in inner : i <= j
           z == CHOOSE i \in inner : \A j \in inner : j <= i
<1>1. /\ L \in Nat /\ n \in Nat /\ 1 <= n /\ n <= L /\ t[n] # Blank
      /\ \A j \in n + 1 .. L : t[j] = Blank
  BY EndIs
<1>2. t[1] # Blank
  OBVIOUS
<1>3. Body(m) = IF inner = {} THEN <<>> ELSE SubSeq(t, a, z)
  BY Zenon DEF Body, Blank
<1> HIDE DEF t, L
<1>4. n \in inner /\ 1 \in inner /\ inner \subseteq 1 .. L
  BY <1>1, <1>2
<1>5. \A j \in inner : 1 <= j /\ j <= n
  <2> SUFFICES ASSUME NEW j \in inner, ~(j <= n) PROVE FALSE
    BY <1>1
  <2>1. j \in n + 1 .. L
    BY <1>1
  <2> QED BY <1>1, <2>1
<1> HIDE DEF inner
<1>6. a \in inner /\ \A j \in inner : a <= j
  BY <1>4, <1>5
<1>7. z \in inner /\ \A j \in inner : j <= z
  BY <1>4, <1>5
<1> HIDE DEF a, z
<1>8. a = 1 /\ z = n
  <2>1. a \in Nat /\ z \in Nat /\ n \in Nat
    BY <1>1, <1>4, <1>6, <1>7
  <2>2. a <= 1 /\ 1 <= a /\ z <= n /\ n <= z
    BY <1>4, <1>5, <1>6, <1>7
  <2> QED BY <2>1, <2>2
<1> QED BY <1>3, <1>4, <1>8 DEF t

\* The recursion of FlattenSeq: f[n] is the first n texts of s in one.
Flat(s) == CHOOSE f : f = [i \in 1 .. Len(s) |-> IF i = 1 THEN s[i] ELSE f[i - 1] \o s[i]]

\* The values of a function that follows the recursion up to m.
Flattens(f, s, m) == f[1] = s[1] /\ \A n \in 2 .. m : f[n] = f[n - 1] \o s[n]

\* There is such a function, for every number of texts.
LEMMA FlatExists ==
  ASSUME NEW S, NEW s \in Seq(S), s # <<>>
  PROVE  \E f : f = [i \in 1 .. Len(s) |-> IF i = 1 THEN s[i] ELSE f[i - 1] \o s[i]]
<1> DEFINE L == Len(s)
           Good(m, f) == f = [n \in 1 .. m |-> f[n]] /\ Flattens(f, s, m)
           T == {m \in Nat : \E f : Good(m, f)}
<1>1. L \in Nat /\ 1 <= L /\ L \in 1 .. L
  BY NotEmpty
<1> HIDE DEF L
<1>2. 1 \in T
  <2> DEFINE g == [n \in 1 .. 1 |-> s[1]]
  <2>1. g[1] = s[1] /\ g = [n \in 1 .. 1 |-> g[n]]
    OBVIOUS
  <2>2. Flattens(g, s, 1)
    BY <2>1 DEF Flattens
  <2> QED BY <2>1, <2>2
<1>3. ASSUME NEW m \in 1 .. L - 1, m \in T PROVE m + 1 \in T
  <2>1. PICK f : Good(m, f)
    BY <1>3
  <2> DEFINE v == f[m] \o s[m + 1]
             g == [n \in 1 .. m + 1 |-> IF n = m + 1 THEN v ELSE f[n]]
  <2>2. m \in Nat /\ 1 <= m
    BY <1>1
  <2> HIDE DEF v
  <2>3. g = [n \in 1 .. m + 1 |-> g[n]] /\ g[m + 1] = v /\ \A n \in 1 .. m : g[n] = f[n]
    BY <2>2
  <2>4. f[1] = s[1] /\ \A n \in 2 .. m : f[n] = f[n - 1] \o s[n]
    BY <2>1 DEF Flattens
  <2>5. g[m + 1] = g[m] \o s[m + 1]
    <3>1. m \in 1 .. m
      BY <2>2
    <3> QED BY <2>3, <3>1 DEF v
  <2> HIDE DEF g
  <2>6. ASSUME NEW n \in 2 .. m + 1 PROVE g[n] = g[n - 1] \o s[n]
    <3>1. CASE n = m + 1
      <4>1. n - 1 = m
        BY <2>2, <3>1
      <4> QED BY <2>5, <3>1, <4>1
    <3>2. CASE n # m + 1
      <4>1. n \in 2 .. m /\ n \in 1 .. m /\ n - 1 \in 1 .. m
        BY <2>2, <3>2
      <4> QED BY <2>3, <2>4, <4>1
    <3> QED BY <3>1, <3>2
  <2>7. g[1] = s[1]
    <3>1. 1 \in 1 .. m
      BY <2>2
    <3> QED BY <2>3, <2>4, <3>1
  <2>8. Flattens(g, s, m + 1)
    BY <2>6, <2>7 DEF Flattens
  <2>9. Good(m + 1, g) /\ m + 1 \in Nat
    BY <2>2, <2>3, <2>8
  <2> QED BY <2>9
<1> HIDE DEF T
<1>4. L \in T
  BY <1>1, <1>2, <1>3, Steps
<1>5. PICK f : Good(L, f)
  BY <1>4 DEF T
<1> DEFINE h == [i \in 1 .. L |-> IF i = 1 THEN s[i] ELSE f[i - 1] \o s[i]]
<1>6. ASSUME NEW i \in 1 .. L PROVE f[i] = h[i]
  <2>1. i = 1 \/ i \in 2 .. L
    BY <1>1
  <2> QED BY <1>5, <2>1 DEF Flattens
<1>7. f = h
  BY <1>5, <1>6
<1> QED BY <1>7 DEF L

\* FlattenSeq unrolled.
LEMMA FlatProperties ==
  ASSUME NEW S, NEW s \in Seq(S), s # <<>>
  PROVE  Flattens(Flat(s), s, Len(s)) /\ FlattenSeq(s) = Flat(s)[Len(s)]
<1> DEFINE f == Flat(s)
           L == Len(s)
           body(i) == IF i = 1 THEN s[i] ELSE f[i - 1] \o s[i]
<1>1. f = [i \in 1 .. Len(s) |-> IF i = 1 THEN s[i] ELSE f[i - 1] \o s[i]]
  BY FlatExists DEF Flat
<1>2. L \in Nat /\ 1 <= L
  BY NotEmpty
<1>3. FlattenSeq(s) = f[Len(s)]
  BY <1>2 DEF FlattenSeq, Flat
<1> HIDE DEF f
<1>4. f = [i \in 1 .. L |-> body(i)]
  BY <1>1
<1> HIDE DEF L
<1>5. \A i \in 1 .. L : f[i] = body(i)
  <2> HIDE DEF body
  <2> QED BY <1>4
<1>6. f[1] = s[1]
  <2>1. 1 \in 1 .. L
    BY <1>2
  <2> QED BY <1>5, <2>1
<1>7. ASSUME NEW n \in 2 .. L PROVE f[n] = f[n - 1] \o s[n]
  <2>1. n \in 1 .. L /\ n # 1
    BY <1>2
  <2> QED BY <1>5, <2>1
<1>8. Flattens(f, s, L)
  BY <1>6, <1>7 DEF Flattens
<1> QED BY <1>3, <1>8 DEF f, L

\* Two texts in one: where it begins and ends.
LEMMA CatEnds ==
  ASSUME NEW S, NEW a \in Seq(S), NEW b \in Seq(S), a # <<>>
  PROVE  /\ a \o b \in Seq(S) /\ a \o b # <<>> /\ Len(a \o b) = Len(a) + Len(b)
         /\ (a \o b)[1] = a[1]
         /\ b # <<>> => (a \o b)[Len(a \o b)] = b[Len(b)]
<1> DEFINE l == Len(a)
           n == Len(b)
           c == a \o b
<1>1. l \in Nat /\ 1 <= l /\ n \in Nat
  BY NotEmpty, LenProperties
<1>2. c \in Seq(S) /\ Len(c) = l + n /\ \A i \in 1 .. l + n : c[i] = IF i <= l THEN a[i] ELSE b[i - l]
  BY ConcatProperties
<1>3. b # <<>> => 1 <= n
  BY NotEmpty
<1> HIDE DEF l, n, c
<1>4. 1 \in 1 .. l + n /\ 1 <= l
  BY <1>1
<1>5. c[1] = a[1]
  BY <1>2, <1>4
<1>6. 1 <= n => l + n \in 1 .. l + n /\ ~(l + n <= l) /\ (l + n) - l = n
  BY <1>1
<1>7. b # <<>> => c[Len(c)] = b[n]
  BY <1>2, <1>3, <1>6
<1>8. c # <<>>
  <2>1. Len(c) # 0
    BY <1>1, <1>2
  <2> QED BY <2>1, EmptySeq
<1> QED BY <1>2, <1>5, <1>7, <1>8 DEF c, l, n

\* The first k lines of a body in one.
LEMMA FlatLines ==
  ASSUME NEW s \in Seq(Seq(Tokens)), s # <<>>, s[1] # <<>>
  PROVE  /\ \A k \in 1 .. Len(s) :
              /\ Flat(s)[k] \in Seq(Tokens) /\ Flat(s)[k] # <<>> /\ Flat(s)[k][1] = s[1][1]
              /\ Len(Flat(s)[k]) <= Len(FlattenSeq(s))
         /\ FlattenSeq(s) = Flat(s)[Len(s)]
         /\ Flat(s)[1] = s[1]
         /\ \A k \in 2 .. Len(s) : Flat(s)[k] = Flat(s)[k - 1] \o s[k]
         /\ Len(s) > 1 /\ s[Len(s)] # <<>> =>
              FlattenSeq(s)[Len(FlattenSeq(s))] = s[Len(s)][Len(s[Len(s)])]
<1> DEFINE f == Flat(s)
           L == Len(s)
           Fine(t) == t \in Seq(Tokens) /\ t # <<>> /\ t[1] = s[1][1]
           T == {k \in Nat : k <= L /\ Fine(f[k])}
<1>1. L \in Nat /\ 1 <= L
  BY NotEmpty
<1>2. FlattenSeq(s) = f[L] /\ f[1] = s[1] /\ \A n \in 2 .. L : f[n] = f[n - 1] \o s[n]
  BY FlatProperties DEF Flattens
<1>3. \A k \in 1 .. L : s[k] \in Seq(Tokens)
  BY ElementOfSeq
<1> HIDE DEF f, L
<1>4. ASSUME NEW k \in 1 .. L - 1, Fine(f[k])
      PROVE  /\ Fine(f[k + 1]) /\ Len(f[k]) <= Len(f[k + 1]) /\ Len(f[k]) \in Nat /\ Len(f[k + 1]) \in Nat
             /\ s[k + 1] # <<>> => f[k + 1][Len(f[k + 1])] = s[k + 1][Len(s[k + 1])]
  <2>1. k + 1 \in 2 .. L /\ k + 1 \in 1 .. L /\ (k + 1) - 1 = k
    BY <1>1
  <2> DEFINE a == f[k]
             b == s[k + 1]
  <2>2. f[k + 1] = a \o b /\ a \in Seq(Tokens) /\ a # <<>> /\ a[1] = s[1][1] /\ b \in Seq(Tokens)
    BY <1>2, <1>3, <1>4, <2>1
  <2> HIDE DEF a, b
  <2>3. /\ a \o b \in Seq(Tokens) /\ a \o b # <<>> /\ Len(a \o b) = Len(a) + Len(b)
        /\ (a \o b)[1] = a[1]
        /\ b # <<>> => (a \o b)[Len(a \o b)] = b[Len(b)]
    BY <2>2, CatEnds
  <2>4. Len(a) \in Nat /\ Len(b) \in Nat
    BY <2>2, LenProperties
  <2>5. Len(a) <= Len(a \o b) /\ Len(a \o b) \in Nat
    BY <2>3, <2>4
  <2> QED BY <2>2, <2>3, <2>4, <2>5 DEF a, b
<1>5. ASSUME NEW k \in 1 .. L PROVE Fine(f[k])
  <2>1. 1 \in T
    <3>1. 1 \in 1 .. L
      BY <1>1
    <3> QED BY <1>1, <1>2, <1>3, <3>1
  <2>2. ASSUME NEW n \in 1 .. L - 1, n \in T PROVE n + 1 \in T
    <3>1. n + 1 \in Nat /\ n + 1 <= L
      BY <1>1
    <3>2. Fine(f[n])
      BY <2>2
    <3>3. Fine(f[n + 1])
      BY <1>4, <3>2
    <3> QED BY <3>1, <3>3
  <2> HIDE DEF T
  <2>3. k \in T
    BY <1>1, <2>1, <2>2, Steps
  <2> QED BY <2>3 DEF T
<1> DEFINE U == {k \in Nat : k <= L => Len(f[L - k + 1]) <= Len(f[L])}
<1>6. ASSUME NEW k \in 1 .. L PROVE Len(f[k]) <= Len(f[L])
  <2>1. L \in 1 .. L /\ L - 1 + 1 = L
    BY <1>1
  <2>2. Len(f[L]) \in Nat
    BY <1>5, <2>1, LenProperties
  <2>3. 1 \in U
    BY <2>1, <2>2
  <2>4. ASSUME NEW n \in 1 .. L - 1, n \in U PROVE n + 1 \in U
    <3> DEFINE m == L - n
    <3>1. m \in 1 .. L - 1 /\ m \in 1 .. L /\ L - n + 1 = m + 1 /\ L - (n + 1) + 1 = m /\ n <= L /\ n + 1 \in Nat
      BY <1>1
    <3> HIDE DEF m
    <3>2. Len(f[m + 1]) <= Len(f[L])
      BY <2>4, <3>1
    <3>3. Len(f[m]) <= Len(f[m + 1]) /\ Len(f[m]) \in Nat /\ Len(f[m + 1]) \in Nat
      BY <1>4, <1>5, <3>1
    <3>4. Len(f[m]) <= Len(f[L])
      BY <2>2, <3>2, <3>3
    <3> QED BY <3>1, <3>4
  <2> HIDE DEF U
  <2>5. \A n \in 1 .. L : n \in U
    BY <1>1, <2>3, <2>4, Steps
  <2> DEFINE x == L - k + 1
  <2>6. x \in 1 .. L /\ x <= L /\ L - x + 1 = k
    BY <1>1
  <2> HIDE DEF x
  <2>7. x \in U
    BY <2>5, <2>6
  <2> QED BY <2>6, <2>7 DEF U
<1>7. L > 1 /\ s[L] # <<>> => f[L][Len(f[L])] = s[L][Len(s[L])]
  <2> SUFFICES ASSUME L > 1, s[L] # <<>> PROVE f[L][Len(f[L])] = s[L][Len(s[L])]
    OBVIOUS
  <2>1. L - 1 \in 1 .. L - 1 /\ L - 1 \in 1 .. L /\ (L - 1) + 1 = L
    BY <1>1
  <2>2. Fine(f[L - 1])
    BY <1>5, <2>1
  <2>3. s[(L - 1) + 1] # <<>> => f[(L - 1) + 1][Len(f[(L - 1) + 1])] = s[(L - 1) + 1][Len(s[(L - 1) + 1])]
    BY <1>4, <2>1, <2>2
  <2> QED BY <2>1, <2>3
<1> QED BY <1>2, <1>5, <1>6, <1>7 DEF f, L

-----------------------------------------------------------------------------
\* The messages whose response the scan has begun.
Started == IF msg > Len(mailbox) THEN Len(mailbox)
           ELSE IF row = 1 THEN msg - 1 ELSE msg

\* A message is inserted when the next one begins, so that the list is one behind
\* the scan; seq_num is the number of the message it has not inserted yet.
Pending ==
  /\ first => subject_list = <<>> /\ Started = 0
  /\ ~first => Started >= 1 /\ seq_num = mailbox[Started].n
  /\ pc = "scan" /\ ~first => Len(subject_list) = Started - 1

ScanInv == TypeOK /\ EveryMessageListed /\ Pending

-----------------------------------------------------------------------------
\* The response for a message: its "* " line, and then no other.
LEMMA RowsShape ==
  ASSUME NEW m \in Messages
  PROVE  /\ Len(Rows(m)) = Len(m.lines) + 2 /\ Len(m.lines) \in Nat
         /\ Rows(m)[1] = Line("star", m.n, <<>>)
         /\ \A r \in 2 .. Len(Rows(m)) :
              Rows(m)[r].kind \in {"subject", "text"} /\ Rows(m)[r].text \in Seq(Tokens)
         /\ \A r \in 2 .. Len(m.lines) + 1 :
              Rows(m)[r] = Line(IF r = 2 /\ m.exact THEN "subject" ELSE "text", 0, m.lines[r - 1])
         /\ Rows(m)[Len(m.lines) + 2] = Line("text", 0, Append(m.more, ")"))
<1> DEFINE L == Len(m.lines)
           k(i) == IF i = 1 /\ m.exact THEN "subject" ELSE "text"
           f == [i \in 1 .. L |-> Line(k(i), 0, m.lines[i])]
           a == <<Line("star", m.n, <<>>)>>
           z == <<Line("text", 0, Append(m.more, ")"))>>
           All == [kind : {"star", "subject", "text"}, n : Int, text : Seq(Tokens)]
<1>1. /\ m.lines \in Seq(Seq(Tokens)) /\ L \in Nat /\ m.more \in Seq(Tokens) /\ m.n \in Int
      /\ \A i \in 1 .. L : m.lines[i] \in Seq(Tokens)
  BY DEF Messages
<1>2. Append(m.more, ")") \in Seq(Tokens) /\ <<>> \in Seq(Tokens)
  <2>1. ")" \in Tokens
    BY ListAssumption DEF ListAssumption
  <2>2. Append(m.more, ")") \in Seq(Tokens)
    BY <1>1, <2>1, AppendProperties
  <2> QED BY <2>2
<1>3. /\ Line("star", m.n, <<>>) \in All
      /\ Line("text", 0, Append(m.more, ")")) \in All
  BY <1>1, <1>2 DEF Line
<1>4. \A i \in 1 .. L : Line(k(i), 0, m.lines[i]) \in All /\ k(i) \in {"subject", "text"}
  BY <1>1 DEF Line
<1> HIDE DEF All, k, L
<1>5. /\ f \in Seq(All) /\ Len(f) = L
      /\ \A i \in 1 .. L : f[i] = Line(k(i), 0, m.lines[i])
  BY <1>1, <1>4
<1>6. /\ a \in Seq(All) /\ Len(a) = 1 /\ a[1] = Line("star", m.n, <<>>)
      /\ z \in Seq(All) /\ Len(z) = 1 /\ z[1] = Line("text", 0, Append(m.more, ")"))
  BY <1>3
<1>7. Rows(m) = (a \o f) \o z
  BY DEF Rows, k, L
<1> HIDE DEF a, f, z
<1> DEFINE b == a \o f
<1>8. /\ b \in Seq(All) /\ Len(b) = L + 1 /\ b[1] = a[1]
      /\ \A r \in 2 .. L + 1 : b[r] = f[r - 1]
  <2>1. /\ b \in Seq(All) /\ Len(b) = Len(a) + Len(f)
        /\ \A r \in 1 .. Len(a) + Len(f) : b[r] = IF r <= Len(a) THEN a[r] ELSE f[r - Len(a)]
    BY <1>5, <1>6, ConcatProperties
  <2> HIDE DEF b
  <2>2. Len(b) = L + 1 /\ b[1] = a[1]
    BY <1>1, <1>5, <1>6, <2>1
  <2>3. ASSUME NEW r \in 2 .. L + 1 PROVE b[r] = f[r - 1]
    <3>1. r \in 1 .. 1 + L /\ ~(r <= 1)
      BY <1>1
    <3> QED BY <1>5, <1>6, <2>1, <3>1
  <2> QED BY <2>1, <2>2, <2>3
<1> HIDE DEF b
<1>9. /\ Len(b \o z) = L + 2 /\ (b \o z)[1] = b[1]
      /\ \A r \in 2 .. L + 1 : (b \o z)[r] = b[r]
      /\ (b \o z)[L + 2] = z[1]
  <2>1. /\ Len(b \o z) = Len(b) + Len(z)
        /\ \A r \in 1 .. Len(b) + Len(z) :
             (b \o z)[r] = IF r <= Len(b) THEN b[r] ELSE z[r - Len(b)]
    BY <1>6, <1>8, ConcatProperties
  <2>2. Len(b \o z) = L + 2 /\ (b \o z)[1] = b[1]
    BY <1>1, <1>6, <1>8, <2>1
  <2>3. ASSUME NEW r \in 2 .. L + 1 PROVE (b \o z)[r] = b[r]
    <3>1. r \in 1 .. L + 2 /\ r <= L + 1
      BY <1>1
    <3> QED BY <1>1, <1>6, <1>8, <2>1, <3>1
  <2>4. (b \o z)[L + 2] = z[1]
    <3>1. L + 2 \in 1 .. L + 2 /\ ~(L + 2 <= L + 1) /\ L + 2 - (L + 1) = 1
      BY <1>1
    <3> QED BY <1>1, <1>6, <1>8, <2>1, <3>1
  <2> QED BY <2>2, <2>3, <2>4
<1>10. Rows(m) = b \o z
  BY <1>7 DEF b
<1>11. ASSUME NEW r \in 2 .. L + 2
       PROVE  Rows(m)[r].kind \in {"subject", "text"} /\ Rows(m)[r].text \in Seq(Tokens)
  <2>1. CASE r = L + 2
    <3>1. Rows(m)[r] = Line("text", 0, Append(m.more, ")"))
      BY <1>6, <1>9, <1>10, <2>1
    <3> QED BY <1>2, <3>1 DEF Line
  <2>2. CASE r # L + 2
    <3>1. r \in 2 .. L + 1 /\ r - 1 \in 1 .. L
      BY <1>1, <2>2
    <3>2. Rows(m)[r] = Line(k(r - 1), 0, m.lines[r - 1])
      BY <1>5, <1>8, <1>9, <1>10, <3>1
    <3> QED BY <1>1, <1>4, <3>1, <3>2 DEF Line
  <2> QED BY <2>1, <2>2
<1>12. Rows(m)[L + 2] = Line("text", 0, Append(m.more, ")"))
  BY <1>6, <1>9, <1>10
<1>13. ASSUME NEW r \in 2 .. L + 1
       PROVE  Rows(m)[r] = Line(IF r = 2 /\ m.exact THEN "subject" ELSE "text", 0, m.lines[r - 1])
  <2>1. r - 1 \in 1 .. L /\ (r - 1 = 1 <=> r = 2)
    BY <1>1
  <2>2. k(r - 1) = IF r = 2 /\ m.exact THEN "subject" ELSE "text"
    BY <2>1 DEF k
  <2> QED BY <1>5, <1>8, <1>9, <1>10, <2>1, <2>2
<1> QED BY <1>1, <1>6, <1>8, <1>9, <1>10, <1>11, <1>12, <1>13 DEF L

\* The lines the scan goes through, and where each leads it.
LEMMA Advancing ==
  ASSUME TypeOK, pc = "scan", ~AtEnd
  PROVE  /\ NextMsg \in 1 .. Len(mailbox) + 1
         /\ NextRow \in 1 .. IF NextMsg <= Len(mailbox) THEN Len(Rows(mailbox[NextMsg])) ELSE 2
         /\ Here.text \in Seq(Tokens)
         /\ Here.kind = "star" =>
               msg <= Len(mailbox) /\ Started = msg - 1 /\ Here.n = mailbox[msg].n
         /\ Here.kind \in {"completed", "refused"} => msg = Len(mailbox) + 1
         /\ Advance =>
               Started' = IF Here.kind = "star" THEN msg ELSE Started
<1>1. /\ mailbox \in Seq(Messages) /\ Len(mailbox) \in Nat /\ msg \in 1 .. Len(mailbox) + 1
      /\ row \in Nat /\ row >= 1 /\ completion \in {"completed", "text", "refused"}
      /\ \A i \in 1 .. Len(mailbox) : mailbox[i] \in Messages
  <2>1. mailbox \in Seq(Messages) /\ completion \in {"completed", "text", "refused"}
    BY ListAssumption DEF TypeOK, ListAssumption
  <2>2. row \in Nat /\ row >= 1
    <3>1. CASE msg <= Len(mailbox)
      <4>1. mailbox[msg] \in Messages
        BY <2>1, <3>1 DEF TypeOK
      <4>2. Len(Rows(mailbox[msg])) \in Nat
        BY <4>1, RowsShape
      <4> QED BY <3>1, <4>2 DEF TypeOK
    <3>2. CASE ~(msg <= Len(mailbox))
      BY <3>2 DEF TypeOK
    <3> QED BY <3>1, <3>2
  <2> QED BY <2>1, <2>2 DEF TypeOK
<1>2. CASE msg <= Len(mailbox)
  <2> DEFINE m == mailbox[msg]
             R == Len(Rows(m))
  <2>1. m \in Messages /\ msg \in 1 .. Len(mailbox)
    BY <1>1, <1>2
  <2>2. R \in Nat /\ R >= 2 /\ row <= R
    <3>1. R \in Nat /\ R >= 2
      BY <2>1, RowsShape
    <3> QED BY <1>1, <1>2, <3>1 DEF TypeOK
  <2>3. Here = Rows(m)[row]
    BY <1>2 DEF Here, LineAt
  <2>4. row = 1 => Here = Line("star", m.n, <<>>)
    BY <2>1, <2>3, RowsShape
  <2>5. row # 1 => Here.kind \in {"subject", "text"} /\ Here.text \in Seq(Tokens)
    <3>1. \A r \in 2 .. R : Rows(m)[r].kind \in {"subject", "text"} /\ Rows(m)[r].text \in Seq(Tokens)
      BY <2>1, RowsShape
    <3>2. row # 1 => row \in 2 .. R
      BY <1>1, <2>2
    <3> QED BY <2>3, <3>1, <3>2
  <2>6. Here.text \in Seq(Tokens) /\ (Here.kind = "star" <=> row = 1)
        /\ Here.kind \notin {"completed", "refused"} /\ (row = 1 => Here.n = m.n)
    <3>1. CASE row = 1
      <4>1. Here.kind = "star" /\ Here.n = m.n /\ Here.text = <<>>
        BY <2>4, <3>1 DEF Line
      <4>2. <<>> \in Seq(Tokens)
        OBVIOUS
      <4> QED BY <3>1, <4>1, <4>2
    <3>2. CASE row # 1
      BY <2>5, <3>2
    <3> QED BY <3>1, <3>2
  <2>7. /\ NextMsg = IF row = R THEN msg + 1 ELSE msg
        /\ NextRow = IF row = R THEN 1 ELSE row + 1
    BY <1>1, <1>2 DEF NextMsg, NextRow
  <2>8. Started = IF row = 1 THEN msg - 1 ELSE msg
    BY <1>1, <1>2 DEF Started
  <2>9. Advance => Started' = msg
    <3>1. Advance => mailbox' = mailbox /\ msg' = NextMsg /\ row' = NextRow
      BY DEF Advance
    <3> QED BY <1>1, <1>2, <2>2, <2>7, <3>1 DEF Started
  <2>10. /\ NextMsg \in 1 .. Len(mailbox) + 1
         /\ NextRow \in 1 .. IF NextMsg <= Len(mailbox) THEN Len(Rows(mailbox[NextMsg])) ELSE 2
    <3>1. CASE row # R
      BY <1>1, <1>2, <2>2, <2>7, <3>1
    <3>2. CASE row = R
      <4>1. NextMsg = msg + 1 /\ NextRow = 1
        BY <2>7, <3>2
      <4>2. NextMsg <= Len(mailbox) => Len(Rows(mailbox[NextMsg])) \in Nat /\ Len(Rows(mailbox[NextMsg])) >= 2
        <5> SUFFICES ASSUME msg + 1 <= Len(mailbox)
                     PROVE  /\ Len(Rows(mailbox[msg + 1])) \in Nat
                            /\ Len(Rows(mailbox[msg + 1])) >= 2
          BY <4>1
        <5>1. msg + 1 \in 1 .. Len(mailbox)
          BY <1>1
        <5>2. mailbox[msg + 1] \in Messages
          BY <1>1, <5>1
        <5>3. /\ Len(Rows(mailbox[msg + 1])) = Len(mailbox[msg + 1].lines) + 2
              /\ Len(mailbox[msg + 1].lines) \in Nat
          BY <5>2, RowsShape
        <5> QED BY <5>3
      <4> QED BY <1>1, <1>2, <4>1, <4>2
    <3> QED BY <3>1, <3>2
  <2> QED BY <1>2, <2>6, <2>8, <2>9, <2>10
<1>3. CASE ~(msg <= Len(mailbox))
  <2>1. msg = Len(mailbox) + 1 /\ row = 1
    BY <1>1, <1>3 DEF AtEnd
  <2>2. Here = TaggedLine
    BY <1>3 DEF Here, LineAt
  <2>3. Here.kind \in {"completed", "text", "refused"} /\ Here.text \in Seq(Tokens)
    <3>1. "A06 OK" \in Tokens
      BY ListAssumption DEF ListAssumption
    <3>2. <<"A06 OK">> \in Seq(Tokens)
      BY <3>1, OneToken, Zenon
    <3>3. Here.kind = completion /\ Here.text = <<"A06 OK">>
      BY <2>2 DEF TaggedLine, Line
    <3> QED BY <1>1, <3>2, <3>3
  <2>4. NextMsg = msg /\ NextRow = 2
    BY <1>1, <1>3, <2>1 DEF NextMsg, NextRow
  <2>5. Started = Len(mailbox) /\ (Advance => Started' = Len(mailbox))
    BY <1>1, <1>3, <2>4 DEF Started, Advance
  <2> QED BY <1>1, <2>1, <2>3, <2>4, <2>5
<1> QED BY <1>2, <1>3

\* Text is cut to what subject[] holds.
LEMMA CutType ==
  ASSUME NEW t \in Seq(Tokens)
  PROVE  Cut(t) \in Seq(Tokens) /\ Len(Cut(t)) <= MaxSubject
<1> DEFINE n == IF Len(t) < MaxSubject THEN Len(t) ELSE MaxSubject
<1>1. Len(t) \in Nat /\ MaxSubject \in Nat
  <2>1. Len(t) \in Nat
    OBVIOUS
  <2>2. MaxSubject \in Nat
    BY ListAssumption DEF ListAssumption
  <2> QED BY <2>1, <2>2
<1>2. n \in Nat /\ n <= Len(t) /\ n <= MaxSubject
  BY <1>1
<1> HIDE DEF n
<1>3. SubSeq(t, 1, n) \in Seq(Tokens) /\ Len(SubSeq(t, 1, n)) = n
  BY <1>1, <1>2
<1> QED BY <1>2, <1>3 DEF Cut, n

LEMMA NoSubjectType == NoSubject \in Seq(Tokens)
<1>1. "No subject" \in Tokens
  BY ListAssumption DEF ListAssumption
<1> QED BY <1>1, OneToken, Zenon DEF NoSubject

\* What is inserted has the number of the last "* " line.
LEMMA EntryType ==
  ASSUME TypeOK
  PROVE  Entry \in [type : Int, packet : Seq(Tokens)] /\ Entry.type = seq_num
<1> DEFINE t == Trimmed(subject)
<1>1. t \in Seq(Tokens) /\ NoSubject \in Seq(Tokens)
  BY NoSubjectType, TrimmedType DEF TypeOK
<1> HIDE DEF t
<1>2. t # <<>> => SubSeq(t, 1, Len(t) - 1) \in Seq(Tokens)
  BY <1>1
<1>3. seq_num \in Int
  BY DEF TypeOK
<1>4. /\ Entry.type = seq_num
      /\ Entry = [type |-> seq_num,
                  packet |-> IF ~found THEN NoSubject
                             ELSE IF t # <<>> /\ t[Len(t)] = ")" THEN SubSeq(t, 1, Len(t) - 1)
                             ELSE t]
  BY DEF Entry, t
<1> QED BY <1>1, <1>2, <1>3, <1>4

-----------------------------------------------------------------------------
\* What each action does to the place of the scan and to the list keeps both.
LEMMA AfterAdvance ==
  ASSUME TypeOK, pc = "scan", ~AtEnd, Advance
  PROVE  /\ mailbox' \in Mailboxes /\ completion' \in Completions /\ pc' = "scan"
         /\ mailbox' = mailbox
         /\ msg' \in 1 .. Len(mailbox') + 1
         /\ row' \in 1 .. IF msg' <= Len(mailbox') THEN Len(Rows(mailbox'[msg'])) ELSE 2
BY Advancing DEF Advance, TypeOK

\* Inserting the message the scan was at brings the list up to it.
LEMMA Inserting ==
  ASSUME ScanInv, pc = "scan",
         subject_list' = IF first THEN subject_list ELSE Append(subject_list, Entry)
  PROVE  /\ subject_list' \in Seq([type : Int, packet : Seq(Tokens)])
         /\ Started \in 0 .. Len(mailbox)
         /\ Len(subject_list') = Started
         /\ \A i \in 1 .. Len(subject_list') : subject_list'[i].type = mailbox[i].n
<1> DEFINE E == [type : Int, packet : Seq(Tokens)]
           l == subject_list
<1>1. Started \in 0 .. Len(mailbox) /\ Len(mailbox) \in Nat
  <2>1. mailbox \in Seq(Messages) /\ msg \in 1 .. Len(mailbox) + 1
    BY ListAssumption DEF ScanInv, TypeOK, ListAssumption
  <2>2. Len(mailbox) \in Nat
    BY <2>1
  <2> QED BY <2>1, <2>2 DEF Started
<1>2. /\ l \in Seq(E) /\ Len(l) \in Nat
      /\ \A i \in 1 .. Len(l) : l[i].type = mailbox[i].n
  BY DEF ScanInv, TypeOK, EveryMessageListed
<1>3. CASE first
  BY <1>1, <1>2, <1>3 DEF ScanInv, Pending
<1>4. CASE ~first
  <2>1. Entry \in E /\ Entry.type = mailbox[Started].n /\ Len(l) = Started - 1
    BY <1>4, EntryType DEF ScanInv, Pending
  <2>2. l' = Append(l, Entry)
    BY <1>4
  <2> HIDE DEF E, l
  <2>3. /\ l' \in Seq(E) /\ Len(l') = Len(l) + 1
        /\ \A i \in 1 .. Len(l) : l'[i] = l[i]
        /\ l'[Len(l) + 1] = Entry
    BY <1>2, <2>1, <2>2, AppendProperties
  <2>4. Len(l') = Started
    BY <1>1, <1>2, <2>1, <2>3
  <2>5. ASSUME NEW i \in 1 .. Len(l') PROVE l'[i].type = mailbox[i].n
    <3>1. CASE i = Started
      BY <1>1, <1>2, <2>1, <2>3, <3>1
    <3>2. CASE i # Started
      <4>1. i \in 1 .. Len(l)
        BY <1>1, <1>2, <2>1, <2>3, <3>2
      <4> QED BY <1>2, <2>3, <4>1
    <3> QED BY <3>1, <3>2
  <2> QED BY <1>1, <2>3, <2>4, <2>5 DEF E, l
<1> QED BY <1>3, <1>4

LEMMA StarLineKeeps ==
  ASSUME ScanInv, StarLine
  PROVE  ScanInv'
<1>1. /\ TypeOK /\ pc = "scan" /\ ~AtEnd /\ Advance /\ Here.kind = "star"
      /\ subject_list' = IF first THEN subject_list ELSE Append(subject_list, Entry)
      /\ seq_num' = Here.n /\ subject' = NoSubject /\ found' = FALSE /\ first' = FALSE
  BY DEF ScanInv, StarLine
<1>2. /\ msg <= Len(mailbox) /\ Started = msg - 1 /\ Here.n = mailbox[msg].n
      /\ Started' = msg
  BY <1>1, Advancing
<1>3. /\ subject_list' \in Seq([type : Int, packet : Seq(Tokens)])
      /\ Started \in 0 .. Len(mailbox)
      /\ Len(subject_list') = Started
      /\ \A i \in 1 .. Len(subject_list') : subject_list'[i].type = mailbox[i].n
  BY <1>1, Inserting
<1>4. /\ mailbox' = mailbox /\ pc' = "scan" /\ Len(mailbox) \in Nat /\ msg \in 1 .. Len(mailbox)
      /\ mailbox[msg].n \in Int
  <2>1. mailbox' = mailbox /\ pc' = "scan"
    BY <1>1, AfterAdvance
  <2>2. mailbox \in Seq(Messages) /\ msg \in 1 .. Len(mailbox) + 1
    BY <1>1, ListAssumption DEF TypeOK, ListAssumption
  <2>3. Len(mailbox) \in Nat
    BY <2>2
  <2>4. msg \in 1 .. Len(mailbox)
    BY <1>2, <2>2, <2>3
  <2>5. mailbox[msg] \in Messages
    BY <2>2, <2>4
  <2> QED BY <2>1, <2>3, <2>4, <2>5 DEF Messages
<1>5. TypeOK'
  <2>1. subject' \in Seq(Tokens)
    BY <1>1, NoSubjectType
  <2> QED BY <1>1, <1>2, <1>3, <1>4, <2>1, AfterAdvance DEF TypeOK
<1>6. EveryMessageListed'
  BY <1>3, <1>4 DEF EveryMessageListed
<1>7. Pending'
  BY <1>1, <1>2, <1>3, <1>4 DEF Pending
<1> QED BY <1>5, <1>6, <1>7 DEF ScanInv

LEMMA OtherLineKeeps ==
  ASSUME ScanInv, pc = "scan", ~AtEnd, Advance, Here.kind # "star",
         subject' \in Seq(Tokens), found' \in BOOLEAN, found' => Len(subject') <= MaxSubject,
         UNCHANGED <<seq_num, first, subject_list>>
  PROVE  ScanInv'
<1>1. TypeOK /\ mailbox' = mailbox /\ pc' = "scan" /\ Started' = Started
  BY Advancing, AfterAdvance DEF ScanInv
<1>2. TypeOK'
  BY <1>1, AfterAdvance DEF TypeOK
<1>3. EveryMessageListed' /\ Pending'
  BY <1>1 DEF ScanInv, EveryMessageListed, Pending
<1> QED BY <1>2, <1>3 DEF ScanInv

LEMMA SubjectLineKeeps ==
  ASSUME ScanInv, SubjectLine
  PROVE  ScanInv'
<1>1. Here.text \in Seq(Tokens)
  BY Advancing DEF ScanInv, SubjectLine
<1>2. Cut(Here.text) \in Seq(Tokens) /\ Len(Cut(Here.text)) <= MaxSubject
  BY <1>1, CutType
<1>3. subject' \in Seq(Tokens) /\ Len(subject') <= Len(Cut(Here.text))
  BY <1>2, TrimmedType DEF SubjectLine
<1>4. Len(subject') <= MaxSubject
  <2>1. Len(Cut(Here.text)) \in Nat
    BY <1>2
  <2>2. Len(subject') \in Nat
    BY <1>3
  <2>3. MaxSubject \in Nat
    BY ListAssumption DEF ListAssumption
  <2> QED BY <1>2, <1>3, <2>1, <2>2, <2>3
<1> QED BY <1>3, <1>4, OtherLineKeeps DEF SubjectLine

LEMMA TextLineKeeps ==
  ASSUME ScanInv, TextLine
  PROVE  ScanInv'
<1> DEFINE t == IF found THEN Cut(subject \o Here.text) ELSE subject
<1>1. Here.text \in Seq(Tokens) /\ subject \in Seq(Tokens) /\ found \in BOOLEAN
  BY Advancing DEF ScanInv, TextLine, TypeOK
<1>2. t \in Seq(Tokens) /\ (found => Len(t) <= MaxSubject)
  <2>1. subject \o Here.text \in Seq(Tokens)
    BY <1>1, ConcatProperties
  <2>2. Cut(subject \o Here.text) \in Seq(Tokens) /\ Len(Cut(subject \o Here.text)) <= MaxSubject
    BY <2>1, CutType
  <2> QED BY <1>1, <2>2
<1>3. subject' = IF BeforeBoundary THEN Trimmed(t) ELSE t
  BY DEF TextLine
<1> HIDE DEF t
<1>4. Trimmed(t) \in Seq(Tokens) /\ Len(Trimmed(t)) <= Len(t)
  BY <1>2, TrimmedType
<1>5. subject' \in Seq(Tokens) /\ Len(subject') <= Len(t)
  <2>1. Len(t) \in Nat
    BY <1>2
  <2> QED BY <1>2, <1>3, <1>4, <2>1
<1>6. found => Len(subject') <= MaxSubject
  <2>1. Len(t) \in Nat /\ Len(subject') \in Nat
    BY <1>2, <1>5
  <2>2. MaxSubject \in Nat
    BY ListAssumption DEF ListAssumption
  <2> QED BY <1>2, <1>5, <2>1, <2>2
<1> QED BY <1>1, <1>5, <1>6, OtherLineKeeps DEF TextLine

LEMMA FinishKeeps ==
  ASSUME ScanInv, Finish
  PROVE  ScanInv'
<1>1. /\ TypeOK /\ pc = "scan" /\ pc' = "done" /\ (AtEnd \/ Here.kind \in {"completed", "refused"})
      /\ subject_list' = IF first THEN subject_list ELSE Append(subject_list, Entry)
      /\ UNCHANGED <<mailbox, completion, msg, row, seq_num, subject, found, first>>
  BY DEF ScanInv, Finish
<1>2. /\ subject_list' \in Seq([type : Int, packet : Seq(Tokens)])
      /\ Started \in 0 .. Len(mailbox)
      /\ Len(subject_list') = Started
      /\ \A i \in 1 .. Len(subject_list') : subject_list'[i].type = mailbox[i].n
  BY <1>1, Inserting
<1>3. Started = Len(mailbox) /\ Len(mailbox) \in Nat
  <2>1. mailbox \in Seq(Messages) /\ msg \in 1 .. Len(mailbox) + 1
    BY <1>1, ListAssumption DEF TypeOK, ListAssumption
  <2>2. Len(mailbox) \in Nat
    BY <2>1
  <2>3. msg > Len(mailbox)
    BY <1>1, <2>1, <2>2, Advancing DEF AtEnd
  <2> QED BY <2>2, <2>3 DEF Started
<1>4. TypeOK'
  BY <1>1, <1>2 DEF TypeOK
<1>5. EveryMessageListed'
  BY <1>1, <1>2, <1>3 DEF EveryMessageListed
<1>6. Pending'
  <2>1. Started' = Started
    BY <1>1 DEF Started
  <2>2. first => subject_list' = <<>>
    BY <1>1 DEF ScanInv, Pending
  <2> QED BY <1>1, <2>1, <2>2 DEF ScanInv, Pending
<1> QED BY <1>4, <1>5, <1>6 DEF ScanInv

-----------------------------------------------------------------------------
(* The subjects as they were sent: what subject[] holds after each line of  *)
(* a message whose subject the code promises to show.                      *)

Paren == ")"

\* Such a subject that fits.
Promised(m) == Regular(m) /\ Fits(m)

\* The subject put together from the first r lines behind the "* " line.
Part(m, r) ==
  IF r = Len(m.lines) + 1 THEN Append(Body(m), ")")
  ELSE IF Len(m.lines) = 1 THEN Body(m)
  ELSE Flat(m.lines)[r]

\* The lines behind the "* " line that the scan has gone through.
Behind == IF msg = Started THEN row - 2 ELSE Len(mailbox[Started].lines) + 1

Gathered ==
  pc = "scan" /\ completion # "text" =>
    /\ msg > Len(mailbox) => row = 1
    /\ ~first /\ Promised(mailbox[Started]) =>
         /\ found <=> mailbox[Started].lines # <<>> /\ Behind > 0
         /\ found => subject = Part(mailbox[Started], Behind)

SubjectInv == ScanInv /\ Gathered /\ SubjectsAsSent

\* A text that fits is not cut.
LEMMA CutSame ==
  ASSUME NEW t \in Seq(Tokens), Len(t) <= MaxSubject
  PROVE  Cut(t) = t
<1>1. Len(t) \in Nat /\ MaxSubject \in Nat
  BY LenProperties, ListAssumption DEF ListAssumption
<1> DEFINE l == Len(t)
<1>2. (IF l < MaxSubject THEN l ELSE MaxSubject) = l
  <2>1. l \in Nat /\ MaxSubject \in Nat /\ l <= MaxSubject
    BY <1>1
  <2> HIDE DEF l
  <2> QED BY <2>1
<1>3. Cut(t) = SubSeq(t, 1, Len(t))
  BY <1>2 DEF Cut
<1>4. SubSeq(t, 1, Len(t)) = t
  OBVIOUS
<1> QED BY <1>3, <1>4

\* A text with ")" after it.
LEMMA Parenthesised ==
  ASSUME NEW t \in Seq(Tokens)
  PROVE  /\ Append(t, ")") \in Seq(Tokens) /\ t \o <<")">> = Append(t, ")")
         /\ Len(Append(t, ")")) = Len(t) + 1 /\ Append(t, ")") # <<>>
         /\ Append(t, ")")[Len(Append(t, ")"))] = ")"
         /\ Trimmed(Append(t, ")")) = Append(t, ")")
         /\ SubSeq(Append(t, ")"), 1, Len(Append(t, ")")) - 1) = t
<1> DEFINE p == Paren
           c == Append(t, p)
<1>1. p \in Tokens /\ p # Blank
  BY Zenon, ListAssumption DEF ListAssumption, Paren, Blank
<1> HIDE DEF p
<1>2. c \in Seq(Tokens) /\ Len(c) = Len(t) + 1 /\ c[Len(c)] = p /\ t \o <<p>> = c
  BY <1>1
<1>3. c # <<>>
  BY <1>2, EmptySeq
<1>4. SubSeq(c, 1, Len(c) - 1) = t
  BY <1>1
<1> HIDE DEF c
<1>5. Trimmed(c) = c
  BY <1>1, <1>2, <1>3, TrimmedSame
<1>6. c = Append(t, ")") /\ p = ")"
  BY DEF c, p, Paren
<1> QED BY <1>2, <1>3, <1>4, <1>5, <1>6

\* What the lines of a subject to be shown as sent make of subject[].
LEMMA BodyText ==
  ASSUME NEW m \in Messages, Regular(m), m.lines # <<>>
  PROVE  /\ Body(m) \in Seq(Tokens) /\ Len(Body(m)) <= Len(Unfolded(m))
         /\ Len(Unfolded(m)) \in Nat
         /\ Trimmed(m.lines[1]) = Part(m, 1)
         /\ m.lines[1] \in Seq(Tokens) /\ Len(m.lines[1]) <= Len(Unfolded(m))
         /\ Part(m, Len(m.lines)) = Body(m)
         /\ \A k \in 2 .. Len(m.lines) :
              /\ Part(m, k - 1) \o m.lines[k] = Part(m, k)
              /\ Part(m, k) \in Seq(Tokens) /\ Len(Part(m, k)) <= Len(Unfolded(m))
<1> DEFINE s == m.lines
           L == Len(s)
           f == Flat(s)
           t == Unfolded(m)
<1>1. s \in Seq(Seq(Tokens)) /\ s # <<>>
  BY DEF Messages
<1>2. /\ s[1] # <<>> /\ s[1][1] # Blank
      /\ L > 1 => s[1][Len(s[1])] # Blank /\ s[L] # <<>> /\ s[L][Len(s[L])] # Blank
  BY Zenon DEF Regular, Blank
<1>3. L \in Nat /\ 1 <= L
  BY <1>1, NotEmpty
<1>4. t = FlattenSeq(s)
  BY DEF Unfolded
<1>5. /\ \A k \in 1 .. L :
            f[k] \in Seq(Tokens) /\ f[k] # <<>> /\ f[k][1] = s[1][1] /\ Len(f[k]) <= Len(t)
      /\ t = f[L] /\ f[1] = s[1] /\ \A k \in 2 .. L : f[k] = f[k - 1] \o s[k]
      /\ L > 1 /\ s[L] # <<>> => t[Len(t)] = s[L][Len(s[L])]
  BY <1>1, <1>2, <1>4, FlatLines
<1>6. \A k \in 1 .. L : Part(m, k) = IF L = 1 THEN Body(m) ELSE f[k]
  <2> SUFFICES ASSUME NEW k \in 1 .. L PROVE Part(m, k) = IF L = 1 THEN Body(m) ELSE f[k]
    OBVIOUS
  <2>1. k # L + 1
    BY <1>3
  <2> QED BY <2>1 DEF Part
<1>7. L \in 1 .. L /\ 1 \in 1 .. L
  BY <1>3
<1> HIDE DEF s, L, f, t
<1>8. t \in Seq(Tokens) /\ t # <<>> /\ t[1] # Blank /\ s[1] \in Seq(Tokens) /\ Len(s[1]) <= Len(t)
  BY <1>2, <1>5, <1>7
<1>9. PICK n : EndsAt(t, n)
  BY <1>8, EndExists
<1>10. n \in Nat /\ 1 <= n /\ n <= Len(t) /\ Len(t) \in Nat
  BY <1>8, <1>9, EndIs DEF EndsAt
<1>11. Body(m) = SubSeq(t, 1, n) /\ Trimmed(t) = SubSeq(t, 1, n)
  <2>1. Trimmed(t) = SubSeq(t, 1, n)
    BY <1>8, <1>9, <1>10, TrimmedIs
  <2>2. Body(m) = SubSeq(t, 1, n)
    BY <1>8, <1>9, <1>10, BodyIs DEF t
  <2> QED BY <2>1, <2>2
<1>12. Body(m) \in Seq(Tokens) /\ Len(Body(m)) <= Len(t)
  BY <1>8, <1>11, TrimmedType
<1>13. CASE L = 1
  <2>1. t = s[1]
    BY <1>5, <1>13
  <2>2. Part(m, 1) = Body(m) /\ Part(m, L) = Body(m)
    BY <1>6, <1>7, <1>13
  <2>3. Trimmed(s[1]) = Part(m, 1)
    BY <1>11, <2>1, <2>2
  <2>4. 2 .. L = {}
    BY <1>13
  <2> QED BY <1>8, <1>10, <1>12, <2>2, <2>3, <2>4 DEF s, L, t
<1>14. CASE L # 1
  <2>1. L > 1
    BY <1>3, <1>14
  <2>2. \A k \in 1 .. L : Part(m, k) = f[k]
    BY <1>6, <1>14
  <2>3. Trimmed(t) = t /\ Trimmed(s[1]) = s[1]
    BY <1>2, <1>5, <1>8, <2>1, TrimmedSame
  <2>4. Part(m, L) = Body(m)
    BY <1>5, <1>7, <1>11, <2>2, <2>3
  <2>5. Trimmed(s[1]) = Part(m, 1)
    BY <1>5, <1>7, <2>2, <2>3
  <2>6. ASSUME NEW k \in 2 .. L
        PROVE  /\ Part(m, k - 1) \o s[k] = Part(m, k)
               /\ Part(m, k) \in Seq(Tokens) /\ Len(Part(m, k)) <= Len(t)
    <3>1. k \in 1 .. L /\ k - 1 \in 1 .. L
      BY <1>3
    <3> QED BY <1>5, <2>2, <3>1
  <2> QED BY <1>8, <1>10, <1>12, <2>4, <2>5, <2>6 DEF s, L, t
<1> QED BY <1>13, <1>14

\* The line the scan is at, in the response of a message to be shown as sent.
LEMMA RowAt ==
  ASSUME TypeOK, msg <= Len(mailbox), NEW m, m = mailbox[msg], Regular(m)
  PROVE  /\ m \in Messages /\ Len(m.lines) \in Nat /\ row \in 1 .. Len(m.lines) + 2
         /\ msg \in 1 .. Len(mailbox) /\ Len(mailbox) \in Nat
         /\ Started = IF row = 1 THEN msg - 1 ELSE msg
         /\ row = 1 => Here.kind = "star"
         /\ row \in 2 .. Len(m.lines) + 1 =>
              Here.kind = (IF row = 2 THEN "subject" ELSE "text") /\ Here.text = m.lines[row - 1]
         /\ row = Len(m.lines) + 2 => Here.kind = "text" /\ Here.text = <<")">>
         /\ NextMsg = IF row = Len(m.lines) + 2 THEN msg + 1 ELSE msg
         /\ NextRow = IF row = Len(m.lines) + 2 THEN 1 ELSE row + 1
         /\ row \in 2 .. Len(m.lines) + 1 => ~BeforeBoundary
<1>1. mailbox \in Seq(Messages) /\ msg \in 1 .. Len(mailbox) + 1
  BY ListAssumption DEF TypeOK, ListAssumption
<1>2. Len(mailbox) \in Nat
  BY <1>1
<1>3. msg \in 1 .. Len(mailbox)
  BY <1>1, <1>2
<1>4. m \in Messages
  BY <1>1, <1>3
<1> DEFINE L == Len(m.lines)
           R == Rows(m)
<1>5. /\ Len(R) = L + 2 /\ L \in Nat
      /\ R[1] = Line("star", m.n, <<>>)
      /\ \A r \in 2 .. L + 1 :
           R[r] = Line(IF r = 2 /\ m.exact THEN "subject" ELSE "text", 0, m.lines[r - 1])
      /\ R[L + 2] = Line("text", 0, Append(m.more, Paren))
  BY <1>4, RowsShape DEF Paren
<1>6. row \in 1 .. L + 2
  BY <1>5 DEF TypeOK
<1>7. m.exact /\ Append(m.more, Paren) = <<Paren>>
  <2>1. m.exact /\ m.more = <<>>
    BY DEF Regular
  <2>2. Append(<<>>, Paren) = <<Paren>>
    OBVIOUS
  <2> QED BY <2>1, <2>2
<1>8. \A r \in 2 .. L + 1 : R[r] = Line(IF r = 2 THEN "subject" ELSE "text", 0, m.lines[r - 1])
  BY <1>5, <1>7
<1>9. Here = R[row]
  BY DEF Here, LineAt
<1>10. /\ NextMsg = IF row = Len(R) THEN msg + 1 ELSE msg
      /\ NextRow = IF row = Len(R) THEN 1 ELSE row + 1
  BY <1>3 DEF NextMsg, NextRow
<1>11. Started = IF row = 1 THEN msg - 1 ELSE msg
  BY <1>2, <1>3 DEF Started
<1>12. row \in 2 .. L + 1 => ~BeforeBoundary
  <2> SUFFICES ASSUME row \in 2 .. L + 1 PROVE ~BeforeBoundary
    OBVIOUS
  <2>1. NextMsg = msg /\ NextRow = row + 1
    BY <1>5, <1>10
  <2>2. LineAt(msg, row + 1) = R[row + 1]
    BY DEF LineAt
  <2>3. row + 1 \in 2 .. L + 2 /\ row + 1 # 2
    BY <1>5
  <2>4. R[row + 1].kind = "text"
    <3>1. CASE row + 1 = L + 2
      BY <1>5, <3>1 DEF Line
    <3>2. CASE row + 1 # L + 2
      <4>1. row + 1 \in 2 .. L + 1
        BY <1>5, <2>3, <3>2
      <4>2. R[row + 1] = Line("text", 0, m.lines[(row + 1) - 1])
        BY <1>8, <2>3, <4>1
      <4> QED BY <4>2 DEF Line
    <3> QED BY <3>1, <3>2
  <2> QED BY <2>1, <2>2, <2>4 DEF BeforeBoundary
<1>13. row = 1 => Here.kind = "star"
  BY <1>5, <1>9 DEF Line
<1>14. row \in 2 .. L + 1 =>
         Here.kind = (IF row = 2 THEN "subject" ELSE "text") /\ Here.text = m.lines[row - 1]
  <2> SUFFICES ASSUME row \in 2 .. L + 1
               PROVE  /\ Here.kind = (IF row = 2 THEN "subject" ELSE "text")
                      /\ Here.text = m.lines[row - 1]
    OBVIOUS
  <2>1. Here = Line(IF row = 2 THEN "subject" ELSE "text", 0, m.lines[row - 1])
    BY <1>9, <1>8
  <2> QED BY <2>1 DEF Line
<1>15. row = L + 2 => Here.kind = "text" /\ Here.text = <<Paren>>
  BY <1>5, <1>7, <1>9 DEF Line
<1> QED BY <1>2, <1>3, <1>4, <1>5, <1>6, <1>10, <1>11, <1>12, <1>13, <1>14, <1>15 DEF Paren

\* Behind the last message there is one line, and it ends the scan.
LEMMA BehindLast ==
  ASSUME TypeOK, msg > Len(mailbox), completion # "text"
  PROVE  Here.kind \in {"completed", "refused"}
<1>1. completion \in {"completed", "text", "refused"} /\ mailbox \in Seq(Messages)
      /\ msg \in 1 .. Len(mailbox) + 1
  BY ListAssumption DEF TypeOK, ListAssumption
<1>2. Len(mailbox) \in Nat
  BY <1>1
<1>3. ~(msg <= Len(mailbox))
  BY <1>1, <1>2
<1> QED BY <1>1, <1>3 DEF Here, LineAt, TaggedLine, Line

\* The entry of a message that has been gone through is as it was sent.
LEMMA EntryAsSent ==
  ASSUME TypeOK, NEW m \in Messages, Promised(m), seq_num = m.n,
         found <=> m.lines # <<>>,
         found => subject = Part(m, Len(m.lines) + 1)
  PROVE  Entry = Listed(m)
<1> DEFINE t == Trimmed(subject)
           p == Paren
<1>1. Entry = [type |-> seq_num,
               packet |-> IF ~found THEN NoSubject
                          ELSE IF t # <<>> /\ t[Len(t)] = p THEN SubSeq(t, 1, Len(t) - 1) ELSE t]
  BY Zenon DEF Entry, Paren
<1>2. CASE ~found
  BY <1>1, <1>2 DEF Listed
<1>3. CASE found
  <2>1. Regular(m) /\ m.lines # <<>>
    BY <1>3 DEF Promised
  <2>2. Body(m) \in Seq(Tokens)
    BY <2>1, BodyText
  <2>3. subject = Append(Body(m), ")")
    BY <1>3 DEF Part
  <2>4. t = Append(Body(m), ")") /\ t # <<>> /\ t[Len(t)] = p /\ SubSeq(t, 1, Len(t) - 1) = Body(m)
    BY <2>2, <2>3, Parenthesised DEF Paren
  <2> HIDE DEF t, p
  <2>5. Entry = [type |-> m.n, packet |-> Body(m)]
    BY <1>1, <1>3, <2>4
  <2> QED BY <2>1, <2>5 DEF Listed
<1> QED BY <1>2, <1>3

\* What is inserted when the next message begins, or at the end, is as it was sent.
LEMMA InsertingAsSent ==
  ASSUME SubjectInv, pc = "scan", completion # "text",
         Here.kind \in {"star", "completed", "refused"},
         subject_list' = IF first THEN subject_list ELSE Append(subject_list, Entry),
         NEW k \in 1 .. Len(subject_list'), Promised(mailbox[k])
  PROVE  subject_list'[k] = Listed(mailbox[k])
<1> DEFINE l == subject_list
           c == Started
<1>1. ScanInv /\ Gathered /\ SubjectsAsSent /\ TypeOK /\ Pending
  BY DEF SubjectInv, ScanInv
<1>2. l \in Seq([type : Int, packet : Seq(Tokens)]) /\ Len(l) \in Nat
  BY <1>1, LenProperties DEF TypeOK
<1>3. CASE k \in 1 .. Len(l)
  <2>1. l'[k] = l[k]
    <3>1. CASE first
      BY <3>1
    <3>2. CASE ~first
      <4>1. Entry \in [type : Int, packet : Seq(Tokens)] /\ l' = Append(l, Entry)
        BY <1>1, <3>2, EntryType
      <4> HIDE DEF l
      <4> QED BY <1>2, <1>3, <4>1, AppendProperties
    <3> QED BY <3>1, <3>2
  <2> QED BY <1>1, <1>3, <2>1 DEF SubjectsAsSent, Promised
<1>4. CASE k \notin 1 .. Len(l)
  <2>1. ~first
    BY <1>4
  <2>2. Entry \in [type : Int, packet : Seq(Tokens)] /\ l' = Append(l, Entry)
    BY <1>1, <2>1, EntryType
  <2>3. Len(l) = c - 1 /\ seq_num = mailbox[c].n /\ c >= 1
    BY <1>1, <2>1 DEF Pending
  <2>4. Len(l') = Len(l) + 1 /\ l'[Len(l) + 1] = Entry
    BY <1>2, <2>2, AppendProperties
  <2>5. /\ mailbox \in Seq(Messages) /\ Len(mailbox) \in Nat /\ msg \in 1 .. Len(mailbox) + 1
    BY <1>1, ListAssumption, LenProperties DEF TypeOK, ListAssumption
  <2>6. c \in 0 .. Len(mailbox)
    BY <2>5 DEF Started
  <2>7. k = c /\ k = Len(l) + 1
    <3>1. k \in 1 .. Len(l) + 1
      BY <2>4
    <3> HIDE DEF l, c
    <3> QED BY <1>2, <1>4, <2>3, <2>6, <3>1
  <2>8. mailbox[c] \in Messages /\ c \in 1 .. Len(mailbox)
    <3> HIDE DEF c
    <3>1. c \in 1 .. Len(mailbox)
      BY <2>3, <2>5, <2>6
    <3> QED BY <2>5, <3>1
  <2>9. msg # c /\ Behind = Len(mailbox[c].lines) + 1 /\ Len(mailbox[c].lines) \in Nat
    <3>1. msg # c
      <4>1. CASE msg > Len(mailbox)
        BY <2>5, <2>6, <4>1
      <4>2. CASE ~(msg > Len(mailbox))
        <5>1. msg <= Len(mailbox) /\ Here.kind = "star"
          <6>1. ~(msg = Len(mailbox) + 1)
            BY <2>5, <4>2
          <6>2. ~AtEnd
            BY <4>2 DEF AtEnd
          <6>3. Here.kind \notin {"completed", "refused"}
            BY <1>1, <6>1, <6>2, Advancing
          <6> QED BY <2>5, <4>2, <6>3
        <5>2. Started = msg - 1
          <6>1. ~AtEnd
            BY <4>2 DEF AtEnd
          <6> QED BY <1>1, <5>1, <6>1, Advancing
        <5> QED BY <2>5, <5>2
      <4> QED BY <4>1, <4>2
    <3>2. Len(mailbox[c].lines) \in Nat
      BY <2>8, RowsShape
    <3> QED BY <3>1, <3>2 DEF Behind
  <2>10. Promised(mailbox[c])
    BY <2>7
  <2>11. /\ found <=> mailbox[c].lines # <<>>
         /\ found => subject = Part(mailbox[c], Len(mailbox[c].lines) + 1)
    <3>1. Behind > 0
      BY <2>9
    <3> QED BY <1>1, <2>1, <2>9, <2>10, <3>1 DEF Gathered
  <2>12. Entry = Listed(mailbox[c])
    BY <1>1, <2>3, <2>8, <2>10, <2>11, EntryAsSent
  <2> QED BY <2>4, <2>7, <2>12
<1> QED BY <1>3, <1>4

-----------------------------------------------------------------------------
\* Each step of the command keeps the invariant: the sort leaves the list alone.
LEMMA ScanStep ==
  ASSUME ScanInv, [CommandNext]_commandVars
  PROVE  ScanInv'
<1>1. CASE Populate
  BY <1>1, StarLineKeeps, SubjectLineKeeps, TextLineKeeps, FinishKeeps DEF Populate, Next
<1>2. CASE UNCHANGED vars
  BY <1>2 DEF ScanInv, TypeOK, EveryMessageListed, Pending, Started, vars
<1> QED BY <1>1, <1>2 DEF CommandNext, Sort, SortFurther, commandVars

\* The reply is read from its first line.
LEMMA ScanInvariance == CommandSpec => []ScanInv
<1>1. CommandInit => ScanInv
  <2> SUFFICES ASSUME CommandInit PROVE ScanInv
    OBVIOUS
  <2>1. Init /\ mailbox \in Seq(Messages)
    BY ListAssumption DEF CommandInit, Init, ListAssumption
  <2>2. Len(mailbox) \in Nat /\ msg \in 1 .. Len(mailbox) + 1
    BY <2>1 DEF Init
  <2>3. row \in 1 .. IF msg <= Len(mailbox) THEN Len(Rows(mailbox[msg])) ELSE 2
    <3>1. CASE msg <= Len(mailbox)
      <4>1. mailbox[msg] \in Messages
        BY <2>1, <2>2, <3>1
      <4>2. Len(Rows(mailbox[msg])) \in Nat /\ Len(Rows(mailbox[msg])) >= 2
        BY <4>1, RowsShape
      <4> QED BY <2>1, <3>1, <4>2 DEF Init
    <3>2. CASE ~(msg <= Len(mailbox))
      BY <2>1, <3>2 DEF Init
    <3> QED BY <3>1, <3>2
  <2>4. TypeOK
    <3>1. <<>> \in Seq([type : Int, packet : Seq(Tokens)]) /\ 0 \in Int
      OBVIOUS
    <3>2. subject \in Seq(Tokens) /\ ~found
      BY <2>1, NoSubjectType DEF Init
    <3> QED BY <2>1, <2>2, <2>3, <3>1, <3>2 DEF Init, TypeOK
  <2>5. EveryMessageListed /\ Pending
    BY <2>1, <2>2 DEF Init, EveryMessageListed, Pending, Started
  <2> QED BY <2>4, <2>5 DEF ScanInv
<1> QED BY <1>1, ScanStep, PTL DEF CommandSpec

\* Whatever the mailbox holds and however long its subjects are, the scan keeps to
\* the lines of the reply, and subject[] to what it holds.
THEOREM ListTypeCorrect == CommandSpec => []TypeOK
BY ScanInvariance, PTL DEF ScanInv

\* populate_subject_list() lists each message once, in its place, under its number.
THEOREM ListsEveryMessage == CommandSpec => []EveryMessageListed
BY ScanInvariance, PTL DEF ScanInv

\* A line that opens no message: the scan stays with the message it is in.
LEMMA GatheredLine ==
  ASSUME SubjectInv, SubjectLine \/ TextLine
  PROVE  Gathered'
<1>1. /\ ScanInv /\ Gathered /\ TypeOK /\ Pending /\ pc = "scan" /\ ~AtEnd /\ Advance
      /\ Here.kind \in {"subject", "text"}
      /\ UNCHANGED <<first, mailbox, completion>>
  BY DEF SubjectInv, ScanInv, SubjectLine, TextLine, Advance
<1>2. Started' = Started /\ NextMsg \in 1 .. Len(mailbox) + 1
  BY <1>1, Advancing
<1>3. SUFFICES ASSUME completion # "text"
               PROVE  /\ msg' > Len(mailbox) => row' = 1
                      /\ ~first /\ Promised(mailbox[Started]) =>
                           /\ found' <=> mailbox[Started].lines # <<>> /\ Behind' > 0
                           /\ found' => subject' = Part(mailbox[Started], Behind')
  BY <1>1, <1>2 DEF Gathered
<1>4. /\ mailbox \in Seq(Messages) /\ Len(mailbox) \in Nat /\ msg \in 1 .. Len(mailbox) + 1
      /\ msg' = NextMsg /\ row' = NextRow
  BY <1>1, ListAssumption, LenProperties DEF TypeOK, ListAssumption, Advance
<1>5. msg <= Len(mailbox)
  BY <1>1, <1>3, <1>4, BehindLast
<1>6. msg' > Len(mailbox) => row' = 1
  BY <1>4, <1>5 DEF NextMsg, NextRow
<1> SUFFICES ASSUME ~first, Promised(mailbox[Started])
             PROVE  /\ found' <=> mailbox[Started].lines # <<>> /\ Behind' > 0
                    /\ found' => subject' = Part(mailbox[Started], Behind')
  BY <1>6
<1> DEFINE m == mailbox[msg]
           L == Len(m.lines)
<1>7. row # 1
  <2>1. mailbox[msg] \in Messages
    BY <1>4, <1>5
  <2>2. Rows(mailbox[msg])[1] = Line("star", mailbox[msg].n, <<>>)
    BY <2>1, RowsShape
  <2>3. Here = Rows(mailbox[msg])[row]
    BY <1>5 DEF Here, LineAt
  <2> QED BY <1>1, <2>2, <2>3 DEF Line
<1>8. Started = msg
  BY <1>4, <1>5, <1>7 DEF Started
<1>9. Regular(m) /\ Fits(m) /\ Promised(m)
  BY <1>8 DEF Promised
<1>10. /\ m \in Messages /\ L \in Nat /\ row \in 1 .. L + 2
       /\ row \in 2 .. L + 1 =>
            Here.kind = (IF row = 2 THEN "subject" ELSE "text") /\ Here.text = m.lines[row - 1]
       /\ row = L + 2 => Here.kind = "text" /\ Here.text = <<")">>
       /\ NextMsg = IF row = L + 2 THEN msg + 1 ELSE msg
       /\ NextRow = IF row = L + 2 THEN 1 ELSE row + 1
       /\ row \in 2 .. L + 1 => ~BeforeBoundary
  BY <1>1, <1>5, <1>9, RowAt
<1>11. Behind = row - 2 /\ Behind' = row - 1
  <2>1. Behind = row - 2
    BY <1>8 DEF Behind
  <2>2. Behind' = IF msg' = msg THEN row' - 2 ELSE L + 1
    BY <1>1, <1>2, <1>8 DEF Behind
  <2>3. Behind' = row - 1
    <3>1. CASE row = L + 2
      <4>1. Behind' = L + 1
        BY <1>4, <1>10, <2>2, <3>1
      <4> QED BY <1>10, <3>1, <4>1
    <3>2. CASE row # L + 2
      <4>1. Behind' = row + 1 - 2
        BY <1>4, <1>10, <2>2, <3>2
      <4> QED BY <1>10, <4>1
    <3> QED BY <3>1, <3>2
  <2> QED BY <2>1, <2>3
<1>12. /\ found <=> m.lines # <<>> /\ row - 2 > 0
       /\ found => subject = Part(m, row - 2)
  BY <1>1, <1>3, <1>8, <1>9, <1>11 DEF Gathered
<1>13. row - 1 > 0
  BY <1>7, <1>10
<1>14. m.lines = <<>> <=> L = 0
  BY <1>10, EmptySeq DEF Messages
<1>15. Len(Unfolded(m)) < MaxSubject /\ MaxSubject \in Nat
  BY <1>9, ListAssumption DEF Fits, ListAssumption
<1> SUFFICES (found' <=> m.lines # <<>>) /\ (found' => subject' = Part(m, row - 1))
  BY <1>8, <1>11, <1>13
<1>16. CASE L = 0
  <2>1. row = L + 2
    BY <1>7, <1>10, <1>16
  <2>2. TextLine
    BY <1>10, <2>1 DEF SubjectLine
  <2>3. ~found /\ found' = found
    BY <1>12, <1>14, <1>16, <2>2 DEF TextLine
  <2> QED BY <1>14, <1>16, <2>3
<1>17. CASE L # 0
  <2>0. m.lines # <<>>
    BY <1>14, <1>17
  <2>1. /\ Body(m) \in Seq(Tokens) /\ Len(Body(m)) <= Len(Unfolded(m))
        /\ Len(Unfolded(m)) \in Nat
        /\ Trimmed(m.lines[1]) = Part(m, 1)
        /\ m.lines[1] \in Seq(Tokens) /\ Len(m.lines[1]) <= Len(Unfolded(m))
        /\ Part(m, L) = Body(m)
        /\ \A k \in 2 .. L :
             /\ Part(m, k - 1) \o m.lines[k] = Part(m, k)
             /\ Part(m, k) \in Seq(Tokens) /\ Len(Part(m, k)) <= Len(Unfolded(m))
    BY <1>9, <1>10, <2>0, BodyText
  <2>2. ASSUME NEW t \in Seq(Tokens), Len(t) <= Len(Unfolded(m)) + 1 PROVE Cut(t) = t
    <3>1. Len(t) \in Nat
      BY LenProperties
    <3>2. Len(t) <= MaxSubject
      BY <1>15, <2>1, <2>2, <3>1
    <3> QED BY <3>2, CutSame
  <2>3. CASE row = 2
    <3>1. row \in 2 .. L + 1
      BY <1>10, <1>17, <2>3
    <3>2. Here.kind = "subject" /\ Here.text = m.lines[1]
      BY <1>10, <2>3, <3>1
    <3>3. subject' = Trimmed(Cut(m.lines[1])) /\ found' = TRUE
      BY <3>2 DEF SubjectLine, TextLine
    <3>4. Len(m.lines[1]) <= Len(Unfolded(m)) + 1
      <4>1. Len(m.lines[1]) \in Nat
        BY <2>1, LenProperties
      <4> QED BY <2>1, <4>1
    <3>5. Cut(m.lines[1]) = m.lines[1]
      BY <2>1, <2>2, <3>4
    <3>6. row - 1 = 1
      BY <2>3
    <3> QED BY <2>0, <2>1, <3>3, <3>5, <3>6
  <2>4. CASE row \in 3 .. L + 1
    <3>1. row \in 2 .. L + 1 /\ row # 2 /\ row - 1 \in 2 .. L /\ (row - 1) - 1 = row - 2 /\ row - 2 > 0
      BY <1>10, <2>4
    <3>2. Here.kind = "text" /\ Here.text = m.lines[row - 1] /\ ~BeforeBoundary
      BY <1>10, <3>1
    <3>3. found /\ found' = found /\ subject = Part(m, row - 2)
          /\ subject' = Cut(subject \o Here.text)
      BY <1>12, <2>0, <3>1, <3>2 DEF TextLine, SubjectLine
    <3>4. subject \o Here.text = Part(m, row - 1)
          /\ Part(m, row - 1) \in Seq(Tokens) /\ Len(Part(m, row - 1)) <= Len(Unfolded(m))
      BY <2>1, <3>1, <3>2, <3>3
    <3>5. Len(Part(m, row - 1)) <= Len(Unfolded(m)) + 1
      <4>1. Len(Part(m, row - 1)) \in Nat
        BY <3>4, LenProperties
      <4> QED BY <2>1, <3>4, <4>1
    <3>6. Cut(Part(m, row - 1)) = Part(m, row - 1)
      BY <2>2, <3>4, <3>5
    <3> QED BY <2>0, <3>3, <3>4, <3>6
  <2>5. CASE row = L + 2
    <3>1. row - 2 = L /\ row - 1 = L + 1 /\ row - 2 > 0
      BY <1>10, <1>17, <2>5
    <3>2. Here.kind = "text" /\ Here.text = <<")">>
      BY <1>10, <2>5
    <3>3. found /\ found' = found /\ subject = Body(m)
      BY <1>12, <2>0, <2>1, <3>1, <3>2 DEF TextLine, SubjectLine
    <3> DEFINE b == Append(Body(m), ")")
               t == Cut(Body(m) \o <<")">>)
    <3>4. subject' = IF BeforeBoundary THEN Trimmed(t) ELSE t
      BY <3>2, <3>3 DEF TextLine, SubjectLine
    <3>5. /\ b \in Seq(Tokens) /\ Len(b) = Len(Body(m)) + 1 /\ Trimmed(b) = b
          /\ Body(m) \o <<")">> = b
      BY <2>1, Parenthesised
    <3> HIDE DEF b
    <3>6. Len(b) <= Len(Unfolded(m)) + 1
      <4>1. Len(Body(m)) \in Nat
        BY <2>1, LenProperties
      <4> QED BY <2>1, <3>5, <4>1
    <3>7. t = b
      BY <2>2, <3>5, <3>6
    <3> HIDE DEF t
    <3>8. subject' = b
      BY <3>4, <3>5, <3>7
    <3>9. Part(m, row - 1) = b
      BY <3>1 DEF Part, b
    <3> QED BY <2>0, <3>3, <3>8, <3>9
  <2>6. row = 2 \/ row \in 3 .. L + 1 \/ row = L + 2
    BY <1>7, <1>10
  <2> QED BY <2>3, <2>4, <2>5, <2>6
<1> QED BY <1>16, <1>17

\* A message begins: nothing has been gathered of it.
LEMMA GatheredStar ==
  ASSUME SubjectInv, StarLine
  PROVE  Gathered'
<1>1. /\ TypeOK /\ pc = "scan" /\ ~AtEnd /\ Advance /\ Here.kind = "star" /\ found' = FALSE
      /\ UNCHANGED <<mailbox, completion>>
  BY DEF SubjectInv, ScanInv, StarLine, Advance
<1>2. /\ msg <= Len(mailbox) /\ Started = msg - 1 /\ Started' = msg
      /\ mailbox \in Seq(Messages) /\ Len(mailbox) \in Nat /\ msg \in 1 .. Len(mailbox) + 1
  BY <1>1, Advancing, ListAssumption, LenProperties DEF TypeOK, ListAssumption
<1>3. mailbox[msg] \in Messages
  BY <1>2
<1>4. row = 1 /\ Len(Rows(mailbox[msg])) \in Nat /\ Len(Rows(mailbox[msg])) >= 2
  <2>1. /\ Len(Rows(mailbox[msg])) = Len(mailbox[msg].lines) + 2 /\ Len(mailbox[msg].lines) \in Nat
    BY <1>3, RowsShape
  <2>2. row = 1
    BY <1>2 DEF Started
  <2> QED BY <2>1, <2>2
<1>5. msg' = msg /\ row' = 2
  <2> DEFINE n == Len(Rows(mailbox[msg]))
  <2>1. row # n
    <3>1. row = 1 /\ n \in Nat /\ n >= 2
      BY <1>4
    <3> HIDE DEF n
    <3> QED BY <3>1
  <2>2. NextMsg = msg
    BY <2>1 DEF NextMsg
  <2>3. NextRow = row + 1
    BY <2>2 DEF NextRow
  <2> QED BY <1>1, <1>4, <2>2, <2>3 DEF Advance
<1>6. Behind' = 0
  BY <1>2, <1>5 DEF Behind
<1> QED BY <1>1, <1>2, <1>5, <1>6 DEF Gathered

\* What is listed stays as it was sent.
LEMMA StillAsSent ==
  ASSUME SubjectInv, UNCHANGED <<mailbox, completion>>,
         \/ subject_list' = subject_list
         \/ /\ pc = "scan"
            /\ Here.kind \in {"star", "completed", "refused"} \/ completion = "text"
            /\ subject_list' = IF first THEN subject_list ELSE Append(subject_list, Entry)
  PROVE  SubjectsAsSent'
<1> SUFFICES ASSUME completion # "text", NEW k \in 1 .. Len(subject_list'), Promised(mailbox[k])
             PROVE  subject_list'[k] = Listed(mailbox[k])
  BY DEF SubjectsAsSent, Promised
<1>1. CASE subject_list' = subject_list
  BY <1>1 DEF SubjectInv, SubjectsAsSent, Promised
<1>2. CASE subject_list' # subject_list
  BY <1>2, InsertingAsSent
<1> QED BY <1>1, <1>2

LEMMA SubjectStep ==
  ASSUME SubjectInv, [CommandNext]_commandVars
  PROVE  SubjectInv'
<1>1. ScanInv'
  BY ScanStep DEF SubjectInv
<1>2. CASE SubjectLine \/ TextLine
  <2>1. UNCHANGED <<mailbox, completion, subject_list>>
    BY <1>2 DEF SubjectLine, TextLine, Advance
  <2> QED BY <1>1, <1>2, <2>1, GatheredLine, StillAsSent DEF SubjectInv
<1>3. CASE StarLine
  <2>1. /\ UNCHANGED <<mailbox, completion>> /\ pc = "scan" /\ Here.kind = "star"
        /\ subject_list' = IF first THEN subject_list ELSE Append(subject_list, Entry)
    BY <1>3 DEF StarLine, Advance
  <2>2. SubjectsAsSent'
    BY <2>1, StillAsSent
  <2> QED BY <1>1, <1>3, <2>2, GatheredStar DEF SubjectInv
<1>4. CASE Finish
  <2>1. /\ UNCHANGED <<mailbox, completion>> /\ pc = "scan" /\ pc' = "done"
        /\ AtEnd \/ Here.kind \in {"completed", "refused"}
        /\ subject_list' = IF first THEN subject_list ELSE Append(subject_list, Entry)
    BY <1>4 DEF Finish
  <2>2. AtEnd => completion = "text"
    BY <2>1 DEF AtEnd, SubjectInv, Gathered
  <2>3. SubjectsAsSent'
    BY <2>1, <2>2, StillAsSent
  <2>4. Gathered'
    BY <2>1 DEF Gathered
  <2> QED BY <1>1, <2>3, <2>4 DEF SubjectInv
<1>5. CASE UNCHANGED vars
  <2>1. Gathered'
    BY <1>5 DEF SubjectInv, Gathered, Started, Behind, vars
  <2>2. SubjectsAsSent'
    BY <1>5 DEF SubjectInv, SubjectsAsSent, vars
  <2> QED BY <1>1, <2>1, <2>2 DEF SubjectInv
<1> QED BY <1>2, <1>3, <1>4, <1>5
    DEF CommandNext, Populate, Next, Sort, SortFurther, commandVars

\* A subject whose field is named as the code expects is listed as it was sent, however
\* it was folded and whether it ends with ")" itself, for every mailbox and every size
\* of subject[] that it fits (populate_subject_list(), trim_subject()).
THEOREM ListsAsSent == CommandSpec => []SubjectsAsSent
<1>1. CommandInit => Gathered /\ SubjectsAsSent
  BY DEF CommandInit, Init, Gathered, SubjectsAsSent
<1>2. ScanInv /\ Gathered /\ SubjectsAsSent /\ [CommandNext]_commandVars => Gathered' /\ SubjectsAsSent'
  BY SubjectStep DEF SubjectInv
<1> QED BY <1>1, <1>2, ScanInvariance, PTL DEF CommandSpec

\* list() hands populate_subject_list()'s list to a sort of as many nodes under these
\* numbers: seen from the nodes alone, the command is the sort.
THEOREM CommandImplementsSort == CommandSpec => SortSpec
<1>1. CommandInit => SortInit
  BY DEF CommandInit
<1>2. ScanInv /\ [CommandNext]_commandVars => [SortNext]_sortVars
  <2> SUFFICES ASSUME ScanInv, CommandNext PROVE [SortNext]_sortVars
    BY DEF commandVars
  <2>1. CASE Populate
    BY <2>1 DEF Populate
  <2>2. CASE Sort
    <3> DEFINE n == Len(subject_list)
               numbers == [i \in 1 .. n |-> subject_list[i].type]
    <3>1. /\ mailbox \in Mailboxes /\ Len(mailbox) \in Nat /\ n \in Nat
          /\ n <= Len(mailbox)
          /\ \A i \in 1 .. n : subject_list[i].type = mailbox[i].n
      <4>1. mailbox \in Seq(Messages) /\ mailbox \in Mailboxes
        BY ListAssumption DEF ScanInv, TypeOK, ListAssumption
      <4>2. subject_list \in Seq([type : Int, packet : Seq(Tokens)])
        BY DEF ScanInv, TypeOK
      <4>3. Len(mailbox) \in Nat /\ n \in Nat
        BY <4>1, <4>2
      <4> QED BY <4>1, <4>3 DEF ScanInv, EveryMessageListed
    <3>2. Len(mailbox) <= MaxNodes /\ \A i \in 1 .. Len(mailbox) : mailbox[i].n \in Numbers
      BY <3>1, CommandAssumption DEF CommandAssumption
    <3>3. n \in 0 .. MaxNodes
      BY <3>1, <3>2, SortAssumption DEF SortAssumption
    <3>4. SortCall(n, numbers)
      BY <2>2 DEF Sort
    <3> HIDE DEF n
    <3>5. numbers \in [1 .. n -> Numbers]
      BY <3>1, <3>2
    <3> HIDE DEF numbers
    <3> QED BY <3>3, <3>4, <3>5 DEF SortNext
  <2>3. CASE SortFurther
    BY <2>3 DEF SortFurther, SortNext
  <2> QED BY <2>1, <2>2, <2>3 DEF CommandNext
<1> QED BY <1>1, <1>2, ScanInvariance, PTL DEF CommandSpec, SortSpec

\* What `list` prints is in the order of the numbers, and messages of one number in
\* that of the reply.
THEOREM ListIsSorted == CommandSpec => []Sorted
BY CommandImplementsSort, SortsStably, PTL

\* No subject that was listed is lost, doubled or renumbered before it is printed.
THEOREM ListIsWhole == CommandSpec => []EachOnce
BY CommandImplementsSort, LosesNothing, PTL

-----------------------------------------------------------------------------
(* What the user sees.                                                      *)

\* s has the n values of t in the order of p.
Rearranged(s, t, p, n) ==
  /\ n \in Nat /\ DOMAIN s = 1 .. n /\ DOMAIN t = 1 .. n
  /\ p \in [1 .. n -> 1 .. n]
  /\ \A i, j \in 1 .. n : p[i] = p[j] => i = j
  /\ \A i \in 1 .. n : s[i] = t[p[i]]

\* A rearrangement of some values holds each of them as often.
LEMMA SameTimes ==
  ASSUME NEW s, NEW t, NEW p, NEW n, Rearranged(s, t, p, n), NEW e
  PROVE  Times(s, e) = Times(t, e)
<1>0. /\ n \in Nat /\ DOMAIN s = 1 .. n /\ DOMAIN t = 1 .. n
      /\ p \in [1 .. n -> 1 .. n]
      /\ \A i, j \in 1 .. n : p[i] = p[j] => i = j
      /\ \A i \in 1 .. n : s[i] = t[p[i]]
  BY DEF Rearranged
<1> DEFINE A == {i \in 1 .. n : s[i] = e}
           B == {i \in 1 .. n : t[i] = e}
           f == [i \in A |-> p[i]]
<1>1. IsFiniteSet(1 .. n)
  <2>1. 1 \in Int /\ n \in Int
    BY <1>0
  <2> QED BY <2>1, FS_Interval
<1>2. p \in Surjection(1 .. n, 1 .. n)
  <2>1. p \in Injection(1 .. n, 1 .. n)
    BY <1>0 DEF Injection, IsInjective
  <2> QED BY <1>1, <2>1, FS_Injection
<1>3. \A j \in 1 .. n : \E i \in 1 .. n : p[i] = j
  BY <1>2 DEF Surjection
<1>4. f \in [A -> B] /\ \A i \in A : f[i] = p[i]
  BY <1>0
<1>5. \A i, j \in A : f[i] = f[j] => i = j
  BY <1>0, <1>4
<1>6. \A j \in B : \E i \in A : f[i] = j
  <2> SUFFICES ASSUME NEW j \in B PROVE \E i \in A : f[i] = j
    OBVIOUS
  <2>1. PICK i \in 1 .. n : p[i] = j
    BY <1>3
  <2>2. i \in A
    BY <1>0, <2>1
  <2> QED BY <1>4, <2>1, <2>2
<1>7. IsFiniteSet(A)
  BY <1>1, FS_Subset
<1> HIDE DEF f
<1>8. f \in Bijection(A, B)
  BY <1>4, <1>5, <1>6 DEF Bijection, Injection, IsInjective, Surjection
<1>9. Cardinality(B) = Cardinality(A)
  BY <1>7, <1>8, FS_Bijection DEF ExistsBijection
<1> QED BY <1>0, <1>9 DEF Times

\* The sort is called when the scan is over, for the list it left, which is that of
\* the whole mailbox.
Handed ==
  phase # "idle" =>
    /\ pc = "done"
    /\ length = Len(subject_list)
    /\ given = [i \in 1 .. Len(subject_list) |-> subject_list[i].type]

LEMMA HandedStep ==
  ASSUME Handed, SortTypeOK, [CommandNext]_commandVars
  PROVE  Handed'
<1>1. CASE Populate
  <2>1. pc = "scan" /\ UNCHANGED sortVars
    BY <1>1 DEF Populate, Next, StarLine, SubjectLine, TextLine, Finish
  <2> QED BY <2>1 DEF Handed, sortVars
<1>2. CASE Sort
  <2>1. /\ pc = "done" /\ UNCHANGED vars
        /\ length' = Len(subject_list)
        /\ given' = [i \in 1 .. Len(subject_list) |-> subject_list[i].type]
    BY <1>2 DEF Sort, SortCall
  <2> QED BY <2>1 DEF Handed, vars
<1>3. CASE SortFurther
  <2>1. UNCHANGED <<length, given>> /\ UNCHANGED vars /\ phase = "pass"
    BY <1>3 DEF SortFurther, SortStep, Compare, NextPass, Stop
  <2> QED BY <2>1 DEF Handed, vars
<1>4. CASE UNCHANGED commandVars
  BY <1>4 DEF Handed, commandVars, vars, sortVars
<1> QED BY <1>1, <1>2, <1>3, <1>4 DEF CommandNext

\* Seen from the list of subjects, what is printed is a rearrangement.
LEMMA PrintedIs ==
  ASSUME ScanInv, Handed, SortTypeOK, EachOnce, phase = "done", NEW i \in Nodes
  PROVE  /\ Nodes = 1 .. Len(mailbox) /\ Len(subject_list) = Len(mailbox) /\ Len(mailbox) \in Nat
         /\ list[i].packet \in Nodes
         /\ Printed[i].type = list[i].type
         /\ Printed[i] = subject_list[list[i].packet]
<1> DEFINE p == list[i].packet
           l == subject_list
<1>1. /\ pc = "done" /\ length = Len(l) /\ given = [k \in 1 .. Len(l) |-> l[k].type]
      /\ Len(l) = Len(mailbox) /\ Nodes = 1 .. Len(l)
  BY DEF Handed, ScanInv, EveryMessageListed, Nodes
<1>2. Len(l) \in Nat /\ l \in Seq([type : Int, packet : Seq(Tokens)])
  BY LenProperties DEF ScanInv, TypeOK
<1>3. p \in Nodes
  BY DEF SortTypeOK
<1>4. list[i].type = given[p] /\ given[p] = l[p].type
  BY <1>1, <1>3 DEF EachOnce
<1>5. l[p] \in [type : Int, packet : Seq(Tokens)]
  BY <1>1, <1>2, <1>3, ElementOfSeq
<1>6. Printed[i] = [type |-> list[i].type, packet |-> l[p].packet]
  BY DEF Printed
<1> HIDE DEF p, l
<1>7. Printed[i] = l[p]
  BY <1>4, <1>5, <1>6
<1>8. Printed[i].type = list[i].type
  BY <1>6
<1> QED BY <1>1, <1>2, <1>3, <1>7, <1>8 DEF p, l

\* `list` prints the messages in the order of their numbers, each as often as the mailbox
\* has it, under its number and with its whole subject, for every mailbox, every size of
\* subject[] and every order of the reply (populate_subject_list(), sort_subject_list(),
\* print_subject_list()).
THEOREM ListShowsAll == CommandSpec => []ListShowsMailbox
<1>1. CommandInit => Handed
  BY DEF CommandInit, SortInit, Handed
<1>2. Handed /\ SortTypeOK /\ [CommandNext]_commandVars => Handed'
  BY HandedStep
<1>3. CommandSpec => []SortTypeOK
  BY CommandImplementsSort, SortTypeCorrect, PTL
<1>4. ASSUME ScanInv, Handed, SortTypeOK, EachOnce, Sorted, SubjectsAsSent PROVE ListShowsMailbox
  <2> SUFFICES ASSUME phase = "done"
               PROVE  /\ \A i, j \in Nodes : i < j => Printed[i].type <= Printed[j].type
                      /\ (\A m \in Range(mailbox) : Regular(m) /\ Fits(m)) /\ completion # "text" =>
                           LET sent == [i \in DOMAIN mailbox |-> Listed(mailbox[i])] IN
                           \A e \in Range(sent) : Times(Printed, e) = Times(sent, e)
    BY DEF ListShowsMailbox
  <2>1. ASSUME NEW i \in Nodes, NEW j \in Nodes, i < j PROVE Printed[i].type <= Printed[j].type
    <3>1. Printed[i].type = list[i].type /\ Printed[j].type = list[j].type
      BY <1>4, PrintedIs
    <3>2. list[i].type \in Int /\ list[j].type \in Int
      BY <1>4, NodeTyped
    <3>3. list[i].type < list[j].type \/ list[i].type = list[j].type
      BY <1>4, <2>1 DEF Sorted
    <3> QED BY <3>1, <3>2, <3>3
  <2>2. ASSUME \A m \in Range(mailbox) : Regular(m) /\ Fits(m), completion # "text", NEW e
        PROVE  Times(Printed, e) = Times([i \in DOMAIN mailbox |-> Listed(mailbox[i])], e)
    <3> DEFINE n == Len(mailbox)
               sent == [i \in DOMAIN mailbox |-> Listed(mailbox[i])]
               p == [i \in 1 .. n |-> list[i].packet]
    <3>1. /\ mailbox \in Seq(Messages) /\ n \in Nat /\ DOMAIN mailbox = 1 .. n
          /\ Len(subject_list) = n /\ Nodes = 1 .. n
      <4>1. mailbox \in Seq(Messages)
        BY <1>4, ListAssumption DEF ScanInv, TypeOK, ListAssumption
      <4>2. n \in Nat /\ DOMAIN mailbox = 1 .. n
        BY <4>1
      <4>3. Len(subject_list) = n /\ Nodes = 1 .. n
        BY <1>4 DEF Handed, ScanInv, EveryMessageListed, Nodes
      <4> QED BY <4>1, <4>2, <4>3
    <3>2. \A i \in 1 .. n : Regular(mailbox[i]) /\ Fits(mailbox[i])
      BY <2>2, <3>1 DEF Range
    <3>3. \A i \in 1 .. n : subject_list[i] = Listed(mailbox[i])
      BY <1>4, <2>2, <3>1, <3>2 DEF SubjectsAsSent
    <3>4. DOMAIN sent = 1 .. n /\ \A i \in 1 .. n : sent[i] = subject_list[i]
      BY <3>1, <3>3
    <3>5. \A i \in 1 .. n : list[i].packet \in 1 .. n /\ Printed[i] = subject_list[list[i].packet]
      BY <1>4, <3>1, PrintedIs
    <3>6. p \in [1 .. n -> 1 .. n] /\ \A i \in 1 .. n : p[i] = list[i].packet
      BY <3>5
    <3>7. \A i, j \in 1 .. n : p[i] = p[j] => i = j
      BY <1>4, <3>1, <3>6 DEF EachOnce
    <3> DEFINE q == Printed
    <3>8. DOMAIN q = 1 .. n
      BY <3>1 DEF Printed
    <3> HIDE DEF p, q, sent
    <3>9. \A i \in 1 .. n : q[i] = sent[p[i]]
      BY <3>4, <3>5, <3>6 DEF q
    <3> HIDE DEF n
    <3>10. Rearranged(q, sent, p, n)
      BY <3>1, <3>4, <3>6, <3>7, <3>8, <3>9 DEF Rearranged
    <3>11. Times(q, e) = Times(sent, e)
      BY <3>10, SameTimes
    <3> QED BY <3>11 DEF q, sent
  <2> QED BY <2>1, <2>2
<1> QED BY <1>1, <1>2, <1>3, <1>4, ScanInvariance, ListIsWhole, ListIsSorted, ListsAsSent, PTL DEF CommandSpec
=============================================================================
