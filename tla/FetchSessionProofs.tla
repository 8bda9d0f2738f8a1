--------------------------- MODULE FetchSessionProofs ---------------------------
(***************************************************************************)
(* FetchSession keeps its types, and what the client reads is the replies  *)
(* the server decided on, in order, for every number of addresses, size of *)
(* reads and way of cutting the stream, and for every set of literals.     *)
(* With literals that do not quote a tag of the client, it implements      *)
(* ImapExchange.                                                           *)
(*                                                                         *)
(* The facts it rests on come first: about the operators of ImapWire, for  *)
(* every sequence of atoms, and about the stream a server writes, which is *)
(* the greeting and then one reply to each command it has decided, in the  *)
(* order the client sends them.                                            *)
(*                                                                         *)
(* Then what the client makes of the stream: when each reply comes in one  *)
(* piece it keeps in step with the server, reports each refusal, and       *)
(* prints the message and nothing else; and when the stream is cut         *)
(* anywhere it still hands on whole messages, header blocks and lists.     *)
(***************************************************************************)
EXTENDS FetchSession, SequenceTheorems, WellFoundedInduction, TLAPS

\* Every non-empty set of naturals has a least element.
LEMMA LeastNat ==
  ASSUME NEW T, T \subseteq Nat, T # {}
  PROVE  \E x \in T : \A y \in T : x <= y
<1>1. PICK x \in T : \A y \in T : ~(<<y, x>> \in OpToRel(<, Nat))
  BY NatLessThanWellFounded, WFMin, Zenon
<1>2. ASSUME NEW y \in T PROVE x <= y
  <2>1. x \in Nat /\ y \in Nat
    OBVIOUS
  <2>2. ~(y < x)
    BY <1>1, <2>1 DEF OpToRel
  <2> QED BY <2>1, <2>2
<1> QED BY <1>2

\* StrLen is a length of the buffer, no NUL is before it, and it is the length
\* of the buffer or a NUL is at it: what strlen() returns.
LEMMA StrLenProperties ==
  ASSUME NEW S, NEW b \in Seq(S)
  PROVE  /\ StrLen(b) \in 0 .. Len(b)
         /\ \A j \in 1 .. StrLen(b) : b[j] # "nul"
         /\ StrLen(b) = Len(b) \/ b[StrLen(b) + 1] = "nul"
<1> DEFINE T == {n \in 0 .. Len(b) : n = Len(b) \/ b[n + 1] = "nul"}
<1>1. Len(b) \in T /\ T \subseteq Nat
  OBVIOUS
<1>2. PICK x \in T : \A y \in T : x <= y
  BY <1>1, LeastNat
<1>3. ASSUME NEW j \in 1 .. x, b[j] = "nul" PROVE FALSE
  <2>1. j - 1 \in T
    BY <1>3
  <2>2. x \in Nat /\ j \in Int /\ j <= x
    BY <1>1
  <2>3. x <= j - 1
    BY <2>1, <1>2
  <2> QED BY <2>2, <2>3
<1>4. \E n \in 0 .. Len(b) : /\ \A j \in 1 .. n : b[j] # "nul"
                             /\ n = Len(b) \/ b[n + 1] = "nul"
  BY <1>3
<1> QED BY <1>4 DEF StrLen

\* What strcpy() copies of a buffer is a buffer of the same atoms, a prefix of
\* it, without a NUL.
LEMMA CStringType ==
  ASSUME NEW S, NEW b \in Seq(S)
  PROVE  /\ CString(b) \in Seq(S)
         /\ Len(CString(b)) <= Len(b)
         /\ \A i \in 1 .. Len(CString(b)) : CString(b)[i] = b[i] /\ b[i] # "nul"
<1>1. StrLen(b) \in 0 .. Len(b) /\ \A j \in 1 .. StrLen(b) : b[j] # "nul"
  BY StrLenProperties
<1> QED BY <1>1 DEF CString

-----------------------------------------------------------------------------
\* The part of a buffer that a C program sees through strlen(), strcpy() and
\* strstr() is the same: a marker is shown by a buffer exactly when the C string
\* in it shows it.  A marker behind a NUL byte is invisible.
THEOREM ShowsIsOfCString ==
  ASSUME NEW S, NEW b \in Seq(S), NEW t, NEW s, s # "nul"
  PROVE  Shows(b, t, s) <=> Shows(CString(b), t, s)
<1> DEFINE n == StrLen(b)
           c == CString(b)
<1>1. /\ n \in 0 .. Len(b)
      /\ \A j \in 1 .. n : b[j] # "nul"
      /\ n = Len(b) \/ b[n + 1] = "nul"
  BY StrLenProperties
<1>2. Len(c) = n /\ \A i \in 1 .. n : c[i] = b[i]
  BY <1>1 DEF CString
<1>3. ASSUME Shows(b, t, s) PROVE Shows(c, t, s)
  <2>1. PICK i \in 1 .. Len(b) - 1 : b[i] = t /\ b[i + 1] = s /\ \A j \in 1 .. i : b[j] # "nul"
    BY <1>3 DEF Shows
  <2>2. n >= i + 1
    BY <1>1, <2>1
  <2>3. i \in 1 .. Len(c) - 1 /\ i + 1 \in 1 .. n /\ i \in 1 .. n
    BY <1>1, <1>2, <2>2
  <2>4. c[i] = t /\ c[i + 1] = s /\ \A j \in 1 .. i : c[j] # "nul"
    BY <1>1, <1>2, <2>1, <2>3
  <2> QED BY <2>3, <2>4 DEF Shows
<1>4. ASSUME Shows(c, t, s) PROVE Shows(b, t, s)
  <2>1. PICK i \in 1 .. Len(c) - 1 : c[i] = t /\ c[i + 1] = s
    BY <1>4 DEF Shows
  <2>2. i \in 1 .. Len(b) - 1 /\ b[i] = t /\ b[i + 1] = s /\ \A j \in 1 .. i : b[j] # "nul"
    BY <1>1, <1>2, <2>1
  <2> QED BY <2>2 DEF Shows
<1> QED BY <1>3, <1>4

-----------------------------------------------------------------------------
\* Where the atoms of a concatenation come from.
LEMMA Cat ==
  ASSUME NEW S, NEW a \in Seq(S), NEW b \in Seq(S), NEW r, r = a \o b
  PROVE  /\ r \in Seq(S) /\ Len(a) \in Nat /\ Len(b) \in Nat
         /\ Len(r) = Len(a) + Len(b)
         /\ \A i \in 1 .. Len(a) : r[i] = a[i]
         /\ \A i \in 1 .. Len(b) : r[Len(a) + i] = b[i]
<1>1. /\ r \in Seq(S) /\ Len(a) \in Nat /\ Len(b) \in Nat
      /\ Len(r) = Len(a) + Len(b)
      /\ \A i \in 1 .. Len(a) + Len(b) : r[i] = IF i <= Len(a) THEN a[i] ELSE b[i - Len(a)]
  BY ConcatProperties
<1>2. ASSUME NEW i \in 1 .. Len(b) PROVE r[Len(a) + i] = b[i]
  <2>1. Len(a) + i \in 1 .. Len(a) + Len(b) /\ ~(Len(a) + i <= Len(a)) /\ (Len(a) + i) - Len(a) = i
    BY <1>1
  <2> QED BY <1>1, <2>1
<1> QED BY <1>1, <1>2

-----------------------------------------------------------------------------
\* What the server has written about command c.
ReplyTo(c) == IF verdict[c] = "none" THEN <<>> ELSE Reply(c, verdict[c], served[c])

\* All the server has written; commands are served in the order of their ranks.
Stream ==
  Greeting \o ReplyTo("LOGIN") \o ReplyTo("SELECT") \o ReplyTo("FETCH")
    \o ReplyTo("PARSE") \o ReplyTo("LIST")

\* How much of the stream comes before the reply to c.
Before(c) ==
  LET n(d) == Len(ReplyTo(d)) IN
  CASE c = "LOGIN"  -> 2
    [] c = "SELECT" -> 2 + n("LOGIN")
    [] c = "FETCH"  -> 2 + n("LOGIN") + n("SELECT")
    [] c = "PARSE"  -> 2 + n("LOGIN") + n("SELECT") + n("FETCH")
    [] c = "LIST"   -> 2 + n("LOGIN") + n("SELECT") + n("FETCH") + n("PARSE")

\* What can be read is what was written, but for the end a lost connection takes.
Streamed ==
  /\ Len(wire) <= Len(Stream)
  /\ \A i \in 1 .. Len(wire) : wire[i] = Stream[i]
  /\ conn = "open" => Len(wire) = Len(Stream)

\* The literals sent belong to the answers given.
Answered ==
  \A c \in Commands :
    served[c] \in IF verdict[c] = "none" THEN {<<>>} ELSE Literals(c, verdict[c])

\* The server's half of the types.
Decisions == verdict \in [Commands -> Statuses \cup {"none"}] /\ Answered

LEMMA LiteralType ==
  ASSUME NEW c \in Commands, NEW s \in Statuses, NEW data \in Literals(c, s)
  PROVE  data \in Seq(Atoms) /\ (c \notin {"FETCH", "PARSE", "LIST"} \/ s # "OK" => data = <<>>)
<1>1. CASE c \in DOMAIN Payloads /\ s = "OK"
  <2>1. Payloads[c] \subseteq Seq(Atoms)
    BY <1>1, ServerAssumption DEF ServerAssumption, Atoms
  <2> QED BY <1>1, <2>1, ServerAssumption DEF Literals, ServerAssumption
<1>2. CASE ~(c \in DOMAIN Payloads /\ s = "OK")
  <2>1. data = <<>>
    BY <1>2 DEF Literals
  <2> QED BY <2>1
<1> QED BY <1>1, <1>2

\* A reply is untagged lines, if the command was completed, and one tagged line.
LEMMA ReplyLayout ==
  ASSUME NEW c \in Commands, NEW s \in Statuses, NEW data \in Seq(Atoms)
  PROVE  LET r == Reply(c, s, data)
             n == Len(r)
         IN  /\ r \in Seq(Atoms) /\ n \in Nat /\ n >= 3
             /\ r[n - 2] = Tag[c] /\ r[n - 1] = s /\ r[n] = "eol"
             /\ s # "OK" \/ c = "LOGIN" => n = 3
             /\ s = "OK" /\ c = "SELECT" => n = 5 /\ r[1] = "untagged" /\ r[2] = "eol"
             /\ s = "OK" /\ c \notin {"LOGIN", "SELECT"} =>
                  /\ n = Len(data) + 7 /\ r[1] = "untagged" /\ r[2] = "eol"
                  /\ \A i \in 1 .. Len(data) : r[2 + i] = data[i]
                  /\ r[n - 4] = ")" /\ r[n - 3] = "eol"
<1> DEFINE t == <<Tag[c], s, "eol">>
           g == <<"untagged", "eol">>
           h == <<")", "eol">>
<1>1. t \in Seq(Atoms) /\ Len(t) = 3 /\ t[1] = Tag[c] /\ t[2] = s /\ t[3] = "eol"
  BY DEF Atoms, Data, Tags
<1>2. g \in Seq(Atoms) /\ Len(g) = 2 /\ g[1] = "untagged" /\ g[2] = "eol"
  BY DEF Atoms, Data
<1>3. h \in Seq(Atoms) /\ Len(h) = 2 /\ h[1] = ")" /\ h[2] = "eol"
  BY DEF Atoms, Data
<1>0. g \in Seq(Atoms) /\ h \in Seq(Atoms) /\ t \in Seq(Atoms)
  BY <1>1, <1>2, <1>3
<1>4. CASE s # "OK" \/ c = "LOGIN"
  <2>1. Reply(c, s, data) = <<>> \o t
    BY <1>4 DEF Reply, Untagged
  <2>2. Reply(c, s, data) = t
    BY <1>1, <2>1, ConcatEmptySeq
  <2> QED BY <1>1, <1>4, <2>2
<1>5. CASE s = "OK" /\ c = "SELECT"
  <2> DEFINE r == Reply(c, s, data)
  <2>1. r = g \o t
    BY <1>5 DEF Reply, Untagged
  <2> HIDE DEF r, g, t
  <2>2. /\ r \in Seq(Atoms) /\ Len(r) = Len(g) + Len(t)
        /\ \A i \in 1 .. Len(g) : r[i] = g[i]
        /\ \A i \in 1 .. Len(t) : r[Len(g) + i] = t[i]
    BY <1>0, <2>1, Cat
  <2>3. r[1] = g[1] /\ r[2] = g[2] /\ r[3] = t[1] /\ r[4] = t[2] /\ r[5] = t[3] /\ Len(r) = 5
    BY <1>1, <1>2, <2>2
  <2>4. Len(r) = 5 /\ r[Len(r) - 2] = Tag[c] /\ r[Len(r) - 1] = s /\ r[Len(r)] = "eol"
    BY <1>1, <2>3
  <2> QED BY <1>2, <1>5, <2>2, <2>3, <2>4 DEF r
<1>6. CASE s = "OK" /\ c \notin {"LOGIN", "SELECT"}
  <2> DEFINE r == Reply(c, s, data)
             u == g \o data
             v == u \o h
             m == Len(data)
  <2>1. r = v \o t /\ v = u \o h /\ u = g \o data
    BY <1>6 DEF Reply, Untagged
  <2> HIDE DEF g, h, t, r, u, v
  <2>2. /\ m \in Nat /\ u \in Seq(Atoms) /\ Len(u) = Len(g) + m
        /\ \A i \in 1 .. Len(g) : u[i] = g[i]
        /\ \A i \in 1 .. m : u[Len(g) + i] = data[i]
    BY <1>0, <2>1, Cat
  <2>3. /\ v \in Seq(Atoms) /\ Len(v) = Len(u) + Len(h)
        /\ \A i \in 1 .. Len(u) : v[i] = u[i]
        /\ \A i \in 1 .. Len(h) : v[Len(u) + i] = h[i]
    BY <1>0, <2>1, <2>2, Cat
  <2>4. /\ r \in Seq(Atoms) /\ Len(r) = Len(v) + Len(t)
        /\ \A i \in 1 .. Len(v) : r[i] = v[i]
        /\ \A i \in 1 .. Len(t) : r[Len(v) + i] = t[i]
    BY <1>0, <2>1, <2>3, Cat
  <2> HIDE DEF m
  <2>5. Len(u) = 2 + m /\ Len(v) = 4 + m /\ Len(r) = 7 + m
    BY <1>1, <1>2, <1>3, <2>2, <2>3, <2>4
  <2>6. r[1] = g[1] /\ r[2] = g[2]
    BY <1>2, <2>2, <2>3, <2>4, <2>5
  <2>7. \A i \in 1 .. m : r[2 + i] = data[i]
    BY <1>2, <2>2, <2>3, <2>4, <2>5
  <2>8. r[m + 3] = h[1] /\ r[m + 4] = h[2]
    BY <1>3, <2>2, <2>3, <2>4, <2>5
  <2>9. r[m + 5] = t[1] /\ r[m + 6] = t[2] /\ r[m + 7] = t[3]
    BY <1>1, <2>2, <2>4, <2>5
  <2>10. /\ r[Len(r) - 2] = Tag[c] /\ r[Len(r) - 1] = s /\ r[Len(r)] = "eol"
         /\ r[Len(r) - 4] = ")" /\ r[Len(r) - 3] = "eol"
    BY <1>1, <1>3, <2>2, <2>5, <2>8, <2>9
  <2>11. Len(r) \in Nat /\ Len(r) >= 3 /\ Len(r) = Len(data) + 7
    BY <2>2, <2>5 DEF m
  <2> QED BY <1>2, <1>6, <2>4, <2>6, <2>7, <2>10, <2>11 DEF r, m
<1> QED BY <1>4, <1>5, <1>6

LEMMA ReplyToType ==
  ASSUME Decisions, NEW c \in Commands
  PROVE  /\ ReplyTo(c) \in Seq(Atoms) /\ Len(ReplyTo(c)) \in Nat
         /\ served[c] \in Seq(Atoms)
         /\ verdict[c] = "none" => ReplyTo(c) = <<>> /\ Len(ReplyTo(c)) = 0
         /\ verdict[c] # "none" => verdict[c] \in Statuses /\ ReplyTo(c) = Reply(c, verdict[c], served[c])
         /\ verdict[c] # "OK" \/ c \in {"LOGIN", "SELECT"} => served[c] = <<>>
<1>1. CASE verdict[c] = "none"
  <2>1. served[c] = <<>> /\ ReplyTo(c) = <<>>
    BY <1>1 DEF Decisions, Answered, ReplyTo
  <2> QED BY <1>1, <2>1
<1>2. CASE verdict[c] # "none"
  <2>1. verdict[c] \in Statuses /\ served[c] \in Literals(c, verdict[c])
    BY <1>2 DEF Decisions, Answered
  <2>2. ReplyTo(c) = Reply(c, verdict[c], served[c])
    BY <1>2 DEF ReplyTo
  <2>3. /\ served[c] \in Seq(Atoms)
        /\ c \notin {"FETCH", "PARSE", "LIST"} \/ verdict[c] # "OK" => served[c] = <<>>
    BY <2>1, LiteralType
  <2>4. Reply(c, verdict[c], served[c]) \in Seq(Atoms)
    BY <2>1, <2>3, ReplyLayout
  <2> QED BY <1>2, <2>1, <2>2, <2>3, <2>4
<1> QED BY <1>1, <1>2

LEMMA ReplyToLayout ==
  ASSUME Decisions, NEW c \in Commands, verdict[c] # "none"
  PROVE  LET r == ReplyTo(c)
             n == Len(r)
         IN  /\ n \in Nat /\ n >= 3
             /\ r[n - 2] = Tag[c] /\ r[n - 1] = verdict[c] /\ r[n] = "eol"
             /\ verdict[c] # "OK" \/ c = "LOGIN" => n = 3
             /\ verdict[c] = "OK" /\ c = "SELECT" => n = 5 /\ r[1] = "untagged" /\ r[2] = "eol"
             /\ verdict[c] = "OK" /\ c \notin {"LOGIN", "SELECT"} =>
                  /\ n = Len(served[c]) + 7 /\ r[1] = "untagged" /\ r[2] = "eol"
                  /\ \A i \in 1 .. Len(served[c]) : r[2 + i] = served[c][i]
                  /\ r[n - 4] = ")" /\ r[n - 3] = "eol"
<1>1. verdict[c] \in Statuses /\ served[c] \in Seq(Atoms)
  BY ReplyToType
<1>2. ReplyTo(c) = Reply(c, verdict[c], served[c])
  BY ReplyToType
<1> DEFINE s == verdict[c]
           data == served[c]
           q == Reply(c, s, data)
           m == Len(q)
<1>3. s \in Statuses /\ data \in Seq(Atoms) /\ ReplyTo(c) = q
  BY <1>1, <1>2
<1> HIDE DEF s, data
<1>4. /\ m \in Nat /\ m >= 3
      /\ q[m - 2] = Tag[c] /\ q[m - 1] = s /\ q[m] = "eol"
      /\ s # "OK" \/ c = "LOGIN" => m = 3
      /\ s = "OK" /\ c = "SELECT" => m = 5 /\ q[1] = "untagged" /\ q[2] = "eol"
      /\ s = "OK" /\ c \notin {"LOGIN", "SELECT"} =>
           /\ m = Len(data) + 7 /\ q[1] = "untagged" /\ q[2] = "eol"
           /\ \A i \in 1 .. Len(data) : q[2 + i] = data[i]
           /\ q[m - 4] = ")" /\ q[m - 3] = "eol"
  BY <1>3, ReplyLayout
<1> HIDE DEF q
<1> QED BY <1>3, <1>4 DEF s, data

\* The parts of the stream are where Before says they are, and nothing else is in it.
LEMMA StreamParts ==
  ASSUME Decisions
  PROVE  /\ Stream \in Seq(Atoms)
         /\ Len(Stream) = Before("LIST") + Len(ReplyTo("LIST"))
         /\ Stream[1] = "untagged" /\ Stream[2] = "eol"
         /\ \A c \in Commands :
              /\ Before(c) \in Nat
              /\ \A j \in 1 .. Len(ReplyTo(c)) : Stream[Before(c) + j] = ReplyTo(c)[j]
         /\ \A i \in 1 .. Len(Stream) :
              i \in 1 .. 2 \/ \E c \in Commands : i - Before(c) \in 1 .. Len(ReplyTo(c))
<1> DEFINE r1 == ReplyTo("LOGIN")   s1 == Greeting \o r1
           r2 == ReplyTo("SELECT")  s2 == s1 \o r2
           r3 == ReplyTo("FETCH")   s3 == s2 \o r3
           r4 == ReplyTo("PARSE")   s4 == s3 \o r4
           r5 == ReplyTo("LIST")    s5 == s4 \o r5
<1>1. /\ r1 \in Seq(Atoms) /\ r2 \in Seq(Atoms) /\ r3 \in Seq(Atoms)
      /\ r4 \in Seq(Atoms) /\ r5 \in Seq(Atoms)
  BY ReplyToType DEF Commands
<1>2. /\ Greeting \in Seq(Atoms) /\ Len(Greeting) = 2
      /\ Greeting[1] = "untagged" /\ Greeting[2] = "eol"
  BY DEF Greeting, Atoms, Data
<1>31. s1 = Greeting \o r1
  OBVIOUS
<1>32. s2 = s1 \o r2
  OBVIOUS
<1>33. s3 = s2 \o r3
  OBVIOUS
<1>34. s4 = s3 \o r4
  OBVIOUS
<1>35. s5 = s4 \o r5
  OBVIOUS
<1>3. Stream = s5
  BY DEF Stream
<1>4. /\ Before("LOGIN") = 2
      /\ Before("SELECT") = 2 + Len(r1)
      /\ Before("FETCH") = 2 + Len(r1) + Len(r2)
      /\ Before("PARSE") = 2 + Len(r1) + Len(r2) + Len(r3)
      /\ Before("LIST") = 2 + Len(r1) + Len(r2) + Len(r3) + Len(r4)
  BY DEF Before
<1>0. Greeting \in Seq(Atoms)
  BY <1>2
<1> HIDE DEF s1, s2, s3, s4, s5, r1, r2, r3, r4, r5
<1>5. /\ s1 \in Seq(Atoms) /\ Len(r1) \in Nat /\ Len(s1) = Len(Greeting) + Len(r1)
      /\ \A i \in 1 .. Len(Greeting) : s1[i] = Greeting[i]
      /\ \A i \in 1 .. Len(r1) : s1[Len(Greeting) + i] = r1[i]
  BY <1>0, <1>1, <1>31, Cat
<1>5a. s1 \in Seq(Atoms)
  BY <1>5
<1>6. /\ s2 \in Seq(Atoms) /\ Len(r2) \in Nat /\ Len(s2) = Len(s1) + Len(r2)
      /\ \A i \in 1 .. Len(s1) : s2[i] = s1[i]
      /\ \A i \in 1 .. Len(r2) : s2[Len(s1) + i] = r2[i]
  BY <1>1, <1>32, <1>5a, Cat
<1>6a. s2 \in Seq(Atoms)
  BY <1>6
<1>7. /\ s3 \in Seq(Atoms) /\ Len(r3) \in Nat /\ Len(s3) = Len(s2) + Len(r3)
      /\ \A i \in 1 .. Len(s2) : s3[i] = s2[i]
      /\ \A i \in 1 .. Len(r3) : s3[Len(s2) + i] = r3[i]
  BY <1>1, <1>33, <1>6a, Cat
<1>7a. s3 \in Seq(Atoms)
  BY <1>7
<1>8. /\ s4 \in Seq(Atoms) /\ Len(r4) \in Nat /\ Len(s4) = Len(s3) + Len(r4)
      /\ \A i \in 1 .. Len(s3) : s4[i] = s3[i]
      /\ \A i \in 1 .. Len(r4) : s4[Len(s3) + i] = r4[i]
  BY <1>1, <1>34, <1>7a, Cat
<1>8a. s4 \in Seq(Atoms)
  BY <1>8
<1>9. /\ s5 \in Seq(Atoms) /\ Len(r5) \in Nat /\ Len(s5) = Len(s4) + Len(r5)
      /\ \A i \in 1 .. Len(s4) : s5[i] = s4[i]
      /\ \A i \in 1 .. Len(r5) : s5[Len(s4) + i] = r5[i]
  BY <1>1, <1>35, <1>8a, Cat
<1>10. /\ Len(s1) = Before("SELECT") /\ Len(s2) = Before("FETCH") /\ Len(s3) = Before("PARSE")
       /\ Len(s4) = Before("LIST") /\ Len(Greeting) = Before("LOGIN")
       /\ Len(s1) \in Nat /\ Len(s2) \in Nat /\ Len(s3) \in Nat /\ Len(s4) \in Nat
       /\ Len(Greeting) <= Len(s1) /\ Len(s1) <= Len(s2) /\ Len(s2) <= Len(s3) /\ Len(s3) <= Len(s4)
  BY <1>2, <1>4, <1>5, <1>6, <1>7, <1>8
<1>13. \A i \in 1 .. Len(s3) : s5[i] = s3[i]
  BY <1>8, <1>9, <1>10
<1>12. \A i \in 1 .. Len(s2) : s5[i] = s2[i]
  BY <1>7, <1>10, <1>13
<1>11. \A i \in 1 .. Len(s1) : s5[i] = s1[i]
  BY <1>6, <1>10, <1>12
<1>14. s5[1] = "untagged" /\ s5[2] = "eol"
  BY <1>2, <1>5, <1>10, <1>11
<1>15. ASSUME NEW c \in Commands
       PROVE  Before(c) \in Nat /\ \A j \in 1 .. Len(ReplyTo(c)) : s5[Before(c) + j] = ReplyTo(c)[j]
  <2>1. CASE c = "LOGIN"
    <3>1. \A j \in 1 .. Len(r1) : s5[Len(Greeting) + j] = r1[j]
      BY <1>2, <1>5, <1>11
    <3> QED BY <1>4, <1>10, <2>1, <3>1 DEF r1
  <2>2. CASE c = "SELECT"
    <3>1. \A j \in 1 .. Len(r2) : s5[Len(s1) + j] = r2[j]
      <4>1. Len(s1) \in Nat /\ Len(r2) \in Nat /\ Len(s2) = Len(s1) + Len(r2)
        BY <1>6, <1>10
      <4>2. \A j \in 1 .. Len(r2) : Len(s1) + j \in 1 .. Len(s2)
        BY <4>1
      <4> QED BY <1>6, <1>12, <4>2
    <3> QED BY <1>10, <2>2, <3>1 DEF r2
  <2>3. CASE c = "FETCH"
    <3>1. \A j \in 1 .. Len(r3) : s5[Len(s2) + j] = r3[j]
      BY <1>7, <1>13, <1>10
    <3> QED BY <1>10, <2>3, <3>1 DEF r3
  <2>4. CASE c = "PARSE"
    <3>1. \A j \in 1 .. Len(r4) : s5[Len(s3) + j] = r4[j]
      BY <1>8, <1>9, <1>10
    <3> QED BY <1>10, <2>4, <3>1 DEF r4
  <2>5. CASE c = "LIST"
    BY <1>9, <1>10, <2>5 DEF r5
  <2> QED BY <2>1, <2>2, <2>3, <2>4, <2>5 DEF Commands
<1>16. ASSUME NEW i \in 1 .. Len(s5)
       PROVE  i \in 1 .. 2 \/ \E c \in Commands : i - Before(c) \in 1 .. Len(ReplyTo(c))
  <2>1. \/ i \in 1 .. 2
        \/ i - Len(Greeting) \in 1 .. Len(r1) \/ i - Len(s1) \in 1 .. Len(r2)
        \/ i - Len(s2) \in 1 .. Len(r3) \/ i - Len(s3) \in 1 .. Len(r4)
        \/ i - Len(s4) \in 1 .. Len(r5)
    <3>1. /\ Len(Greeting) = 2 /\ Len(s1) = Len(Greeting) + Len(r1) /\ Len(s2) = Len(s1) + Len(r2)
          /\ Len(s3) = Len(s2) + Len(r3) /\ Len(s4) = Len(s3) + Len(r4) /\ Len(s5) = Len(s4) + Len(r5)
          /\ Len(r1) \in Nat /\ Len(r2) \in Nat /\ Len(r3) \in Nat /\ Len(r4) \in Nat /\ Len(r5) \in Nat
      BY <1>2, <1>5, <1>6, <1>7, <1>8, <1>9
    <3> QED BY <3>1
  <2> QED BY <1>10, <2>1 DEF Commands, r1, r2, r3, r4, r5
<1>17. Len(s5) = Before("LIST") + Len(r5)
  BY <1>9, <1>10
<1> QED BY <1>3, <1>9, <1>14, <1>15, <1>16, <1>17 DEF r5

\* Serving a command adds its reply to the end of the stream.
LEMMA StreamGrows ==
  ASSUME Decisions, NEW c \in Commands, NEW s \in Statuses, NEW data \in Literals(c, s),
         \A d \in Commands : Rank[d] >= Rank[c] => verdict[d] = "none",
         verdict' = [verdict EXCEPT ![c] = s], served' = [served EXCEPT ![c] = data],
         served \in [Commands -> Seq(Atoms)]
  PROVE  /\ Decisions'
         /\ Stream' = Stream \o Reply(c, s, data)
         /\ ReplyTo(c)' = Reply(c, s, data)
         /\ \A d \in Commands : /\ d # c => ReplyTo(d)' = ReplyTo(d)
                                /\ Before(d) <= Before(d)' /\ Before(d)' \in Nat
                                /\ Rank[d] <= Rank[c] => Before(d)' = Before(d)
<1>1. \A d \in Commands \ {c} : verdict'[d] = verdict[d] /\ served'[d] = served[d]
  BY DEF Decisions
<1>2. verdict'[c] = s /\ served'[c] = data /\ s # "none"
  BY DEF Decisions, Statuses
<1>3. Decisions'
  <2>1. verdict' \in [Commands -> Statuses \cup {"none"}]
    BY DEF Decisions
  <2>2. Answered'
    BY <1>1, <1>2 DEF Decisions, Answered, Literals
  <2> QED BY <2>1, <2>2 DEF Decisions
<1>4. \A d \in Commands \ {c} : ReplyTo(d)' = ReplyTo(d)
  BY <1>1 DEF ReplyTo
<1>5. ReplyTo(c)' = Reply(c, s, data) /\ ReplyTo(c) = <<>>
  <2>1. verdict[c] = "none"
    BY DEF Rank, Commands
  <2> QED BY <1>2, <2>1 DEF ReplyTo, Reply, Untagged
<1>6. \A d \in Commands : Rank[d] >= Rank[c] => ReplyTo(d) = <<>>
  BY DEF ReplyTo
<1>7. data \in Seq(Atoms)
  BY LiteralType
<1>8. \A d \in Commands : /\ ReplyTo(d) \in Seq(Atoms) /\ Len(ReplyTo(d)) \in Nat
  BY ReplyToType
<1> DEFINE q == Reply(c, s, data)
<1>9. q \in Seq(Atoms) /\ Len(q) \in Nat
  BY <1>7, ReplyLayout
<1> HIDE DEF q
<1>10. Greeting \in Seq(Atoms)
  BY DEF Greeting, Atoms, Data
<1>11. ReplyTo(c)' = q /\ ReplyTo(c) = <<>> /\ Len(ReplyTo(c)) = 0
  BY <1>5 DEF q
<1> DEFINE s1 == Greeting \o ReplyTo("LOGIN")
           s2 == s1 \o ReplyTo("SELECT")
           s3 == s2 \o ReplyTo("FETCH")
           s4 == s3 \o ReplyTo("PARSE")
<1>12. /\ s1 \in Seq(Atoms) /\ s2 \in Seq(Atoms) /\ s3 \in Seq(Atoms) /\ s4 \in Seq(Atoms)
  <2>0. /\ ReplyTo("LOGIN") \in Seq(Atoms) /\ ReplyTo("SELECT") \in Seq(Atoms)
        /\ ReplyTo("FETCH") \in Seq(Atoms) /\ ReplyTo("PARSE") \in Seq(Atoms)
    BY <1>8 DEF Commands
  <2>1. s1 \in Seq(Atoms)
    BY <1>10, <2>0
  <2> HIDE DEF s1
  <2>2. s2 \in Seq(Atoms)
    BY <2>0, <2>1
  <2> HIDE DEF s2
  <2>3. s3 \in Seq(Atoms)
    BY <2>0, <2>2
  <2> HIDE DEF s3
  <2>4. s4 \in Seq(Atoms)
    BY <2>0, <2>3
  <2> QED BY <2>1, <2>2, <2>3, <2>4
<1>13. Greeting' = Greeting
  BY DEF Greeting
<1>14. Stream' = Stream \o q
  <2>1. CASE c = "LOGIN"
    <3>1. /\ ReplyTo("SELECT") = <<>> /\ ReplyTo("FETCH") = <<>> /\ ReplyTo("PARSE") = <<>>
          /\ ReplyTo("LIST") = <<>> /\ ReplyTo("LOGIN") = <<>>
      BY <1>6, <2>1 DEF Rank, Commands
    <3>2. /\ ReplyTo("SELECT")' = <<>> /\ ReplyTo("FETCH")' = <<>> /\ ReplyTo("PARSE")' = <<>>
          /\ ReplyTo("LIST")' = <<>> /\ ReplyTo("LOGIN")' = q
      BY <1>4, <1>11, <2>1, <3>1 DEF Commands
    <3>3. Stream = Greeting
      BY <1>10, <3>1, ConcatEmptySeq DEF Stream
    <3>4. Greeting \o q \in Seq(Atoms)
      BY <1>9, <1>10
    <3>5. Stream' = Greeting \o q
      BY <1>13, <3>2, <3>4, ConcatEmptySeq DEF Stream
    <3> QED BY <3>3, <3>5
  <2>2. CASE c = "SELECT"
    <3>1. /\ ReplyTo("SELECT") = <<>> /\ ReplyTo("FETCH") = <<>> /\ ReplyTo("PARSE") = <<>>
          /\ ReplyTo("LIST") = <<>>
      BY <1>6, <2>2 DEF Rank, Commands
    <3>2. /\ ReplyTo("SELECT")' = q /\ ReplyTo("FETCH")' = <<>> /\ ReplyTo("PARSE")' = <<>>
          /\ ReplyTo("LIST")' = <<>> /\ ReplyTo("LOGIN")' = ReplyTo("LOGIN")
      BY <1>4, <1>11, <2>2, <3>1 DEF Commands
    <3>3. Stream = s1
      BY <1>12, <3>1, ConcatEmptySeq DEF Stream
    <3>4. s1 \o q \in Seq(Atoms)
      <4> HIDE DEF s1
      <4> QED BY <1>9, <1>12
    <3>5. Stream' = s1 \o q
      BY <1>13, <3>2, <3>4, ConcatEmptySeq DEF Stream
    <3> QED BY <3>3, <3>5
  <2>3. CASE c = "FETCH"
    <3>1. ReplyTo("FETCH") = <<>> /\ ReplyTo("PARSE") = <<>> /\ ReplyTo("LIST") = <<>>
      BY <1>6, <2>3 DEF Rank, Commands
    <3>2. /\ ReplyTo("SELECT")' = ReplyTo("SELECT") /\ ReplyTo("FETCH")' = q
          /\ ReplyTo("PARSE")' = <<>> /\ ReplyTo("LIST")' = <<>>
          /\ ReplyTo("LOGIN")' = ReplyTo("LOGIN")
      BY <1>4, <1>11, <2>3, <3>1 DEF Commands
    <3>3. Stream = s2
      BY <1>12, <3>1, ConcatEmptySeq DEF Stream
    <3>4. s2 \o q \in Seq(Atoms)
      <4> HIDE DEF s2
      <4> QED BY <1>9, <1>12
    <3>5. Stream' = s2 \o q
      BY <1>13, <3>2, <3>4, ConcatEmptySeq DEF Stream
    <3> QED BY <3>3, <3>5
  <2>4. CASE c = "PARSE"
    <3>1. ReplyTo("PARSE") = <<>> /\ ReplyTo("LIST") = <<>>
      BY <1>6, <2>4 DEF Rank, Commands
    <3>2. /\ ReplyTo("SELECT")' = ReplyTo("SELECT") /\ ReplyTo("FETCH")' = ReplyTo("FETCH")
          /\ ReplyTo("PARSE")' = q /\ ReplyTo("LIST")' = <<>>
          /\ ReplyTo("LOGIN")' = ReplyTo("LOGIN")
      BY <1>4, <1>11, <2>4, <3>1 DEF Commands
    <3>3. Stream = s3
      BY <1>12, <3>1, ConcatEmptySeq DEF Stream
    <3>4. s3 \o q \in Seq(Atoms)
      <4> HIDE DEF s3
      <4> QED BY <1>9, <1>12
    <3>5. Stream' = s3 \o q
      BY <1>13, <3>2, <3>4, ConcatEmptySeq DEF Stream
    <3> QED BY <3>3, <3>5
  <2>5. CASE c = "LIST"
    <3>1. ReplyTo("LIST") = <<>>
      BY <1>6, <2>5 DEF Rank, Commands
    <3>2. /\ ReplyTo("SELECT")' = ReplyTo("SELECT") /\ ReplyTo("FETCH")' = ReplyTo("FETCH")
          /\ ReplyTo("PARSE")' = ReplyTo("PARSE") /\ ReplyTo("LIST")' = q
          /\ ReplyTo("LOGIN")' = ReplyTo("LOGIN")
      BY <1>4, <1>11, <2>5 DEF Commands
    <3>3. Stream = s4
      BY <1>12, <3>1, ConcatEmptySeq DEF Stream
    <3>5. Stream' = s4 \o q
      BY <1>13, <3>2 DEF Stream
    <3> QED BY <3>3, <3>5
  <2> QED BY <2>1, <2>2, <2>3, <2>4, <2>5 DEF Commands
<1>15. ASSUME NEW d \in Commands
       PROVE  Before(d) <= Before(d)' /\ Before(d)' \in Nat /\ (Rank[d] <= Rank[c] => Before(d)' = Before(d))
  <2> DEFINE n(e) == Len(ReplyTo(e))
             m(e) == Len(ReplyTo(e)')
  <2>1. \A e \in Commands : n(e) \in Nat /\ m(e) \in Nat /\ n(e) <= m(e) /\ (e # c => m(e) = n(e))
    BY <1>4, <1>8, <1>9, <1>11
  <2>2. /\ Before(d) = CASE d = "LOGIN"  -> 2
                         [] d = "SELECT" -> 2 + n("LOGIN")
                         [] d = "FETCH"  -> 2 + n("LOGIN") + n("SELECT")
                         [] d = "PARSE"  -> 2 + n("LOGIN") + n("SELECT") + n("FETCH")
                         [] d = "LIST"   -> 2 + n("LOGIN") + n("SELECT") + n("FETCH") + n("PARSE")
        /\ Before(d)' = CASE d = "LOGIN"  -> 2
                         [] d = "SELECT" -> 2 + m("LOGIN")
                         [] d = "FETCH"  -> 2 + m("LOGIN") + m("SELECT")
                         [] d = "PARSE"  -> 2 + m("LOGIN") + m("SELECT") + m("FETCH")
                         [] d = "LIST"   -> 2 + m("LOGIN") + m("SELECT") + m("FETCH") + m("PARSE")
    BY DEF Before
  <2>3. \A e \in {"LOGIN", "SELECT", "FETCH", "PARSE"} : e \in Commands
    BY DEF Commands
  <2> HIDE DEF n, m
  <2>4. CASE d = "LOGIN"
    BY <2>2, <2>4
  <2>0. /\ \A e \in {"LOGIN", "SELECT", "FETCH", "PARSE"} :
              n(e) \in Nat /\ m(e) \in Nat /\ n(e) <= m(e) /\ (e # c => m(e) = n(e))
    BY <2>1, <2>3
  <2>5. CASE d = "SELECT"
    <3>1. Before(d) = 2 + n("LOGIN") /\ Before(d)' = 2 + m("LOGIN")
      BY <2>2, <2>5
    <3>2. Rank[d] <= Rank[c] => c \notin {"LOGIN"}
      BY <2>5 DEF Rank, Commands
    <3> QED BY <2>0, <3>1, <3>2
  <2>6. CASE d = "FETCH"
    <3>1. Before(d) = 2 + n("LOGIN") + n("SELECT") /\ Before(d)' = 2 + m("LOGIN") + m("SELECT")
      BY <2>2, <2>6
    <3>2. Rank[d] <= Rank[c] => c \notin {"LOGIN", "SELECT"}
      BY <2>6 DEF Rank, Commands
    <3> QED BY <2>0, <3>1, <3>2
  <2>7. CASE d = "PARSE"
    <3>1. Before(d) = 2 + n("LOGIN") + n("SELECT") + n("FETCH") /\ Before(d)' = 2 + m("LOGIN") + m("SELECT") + m("FETCH")
      BY <2>2, <2>7
    <3>2. Rank[d] <= Rank[c] => c \notin {"LOGIN", "SELECT", "FETCH"}
      BY <2>7 DEF Rank, Commands
    <3>3. /\ n("LOGIN") \in Nat /\ m("LOGIN") \in Nat /\ n("LOGIN") <= m("LOGIN")
          /\ n("SELECT") \in Nat /\ m("SELECT") \in Nat /\ n("SELECT") <= m("SELECT")
          /\ n("FETCH") \in Nat /\ m("FETCH") \in Nat /\ n("FETCH") <= m("FETCH")
      BY <2>0
    <3>4. Rank[d] <= Rank[c] => m("LOGIN") = n("LOGIN") /\ m("SELECT") = n("SELECT") /\ m("FETCH") = n("FETCH")
      BY <2>0, <3>2
    <3> QED BY <3>1, <3>3, <3>4
  <2>8. CASE d = "LIST"
    <3>1. Before(d) = 2 + n("LOGIN") + n("SELECT") + n("FETCH") + n("PARSE") /\ Before(d)' = 2 + m("LOGIN") + m("SELECT") + m("FETCH") + m("PARSE")
      BY <2>2, <2>8
    <3>2. Rank[d] <= Rank[c] => c \notin {"LOGIN", "SELECT", "FETCH", "PARSE"}
      BY <2>8 DEF Rank, Commands
    <3>3. /\ n("LOGIN") \in Nat /\ m("LOGIN") \in Nat /\ n("LOGIN") <= m("LOGIN")
          /\ n("SELECT") \in Nat /\ m("SELECT") \in Nat /\ n("SELECT") <= m("SELECT")
          /\ n("FETCH") \in Nat /\ m("FETCH") \in Nat /\ n("FETCH") <= m("FETCH")
          /\ n("PARSE") \in Nat /\ m("PARSE") \in Nat /\ n("PARSE") <= m("PARSE")
      BY <2>0
    <3>4. Rank[d] <= Rank[c] => m("LOGIN") = n("LOGIN") /\ m("SELECT") = n("SELECT") /\ m("FETCH") = n("FETCH") /\ m("PARSE") = n("PARSE")
      BY <2>0, <3>2
    <3> QED BY <3>1, <3>3, <3>4, SMTT(30)
  <2> QED BY <2>4, <2>5, <2>6, <2>7, <2>8 DEF Commands
<1> QED BY <1>3, <1>4, <1>11, <1>14, <1>15 DEF q
-----------------------------------------------------------------------------
\* No literal of the server holds a tag of the client.  Without this the client
\* takes what a message quotes for an answer of the server: a message with the
\* text "A03 NO" in it is reported missing.
HonestPayloads ==
  \A c \in DOMAIN Payloads : \A data \in Payloads[c] :
     \A i \in 1 .. Len(data) : data[i] \notin Tags

\* No literal that was sent holds a tag of the client.
Honest == \A c \in Commands : \A i \in 1 .. Len(served[c]) : served[c][i] \notin Tags

LEMMA HonestServed == ASSUME Decisions, HonestPayloads PROVE Honest
<1>1. ASSUME NEW c \in Commands, NEW i \in 1 .. Len(served[c]) PROVE served[c][i] \notin Tags
  <2>1. CASE c \in DOMAIN Payloads /\ verdict[c] = "OK"
    <3>1. served[c] \in Payloads[c]
      BY <2>1 DEF Decisions, Answered, Literals
    <3> QED BY <1>1, <2>1, <3>1 DEF HonestPayloads
  <2>2. CASE ~(c \in DOMAIN Payloads /\ verdict[c] = "OK")
    <3>1. served[c] = <<>>
      BY <2>2 DEF Decisions, Answered, Literals
    <3>2. Len(served[c]) = 0
      BY <3>1
    <3> QED BY <1>1, <3>2
  <2> QED BY <2>1, <2>2
<1> QED BY <1>1 DEF Honest

\* An atom of a reply is of its last line, of the literal, or of what goes around it.
LEMMA ReplyAtoms ==
  ASSUME Decisions, NEW c \in Commands, NEW j \in 1 .. Len(ReplyTo(c))
  PROVE  \/ j = Len(ReplyTo(c)) - 2 /\ ReplyTo(c)[j] = Tag[c] /\ verdict[c] # "none"
         \/ j = Len(ReplyTo(c)) - 1 /\ ReplyTo(c)[j] = verdict[c] /\ verdict[c] \in Statuses
         \/ ReplyTo(c)[j] \in {"untagged", "eol", ")"}
         \/ j - 2 \in 1 .. Len(served[c]) /\ ReplyTo(c)[j] = served[c][j - 2]
<1> DEFINE r == ReplyTo(c)
           n == Len(r)
<1>1. verdict[c] \in Statuses /\ verdict[c] # "none" /\ served[c] \in Seq(Atoms)
  BY ReplyToType
<1>2. /\ n \in Nat /\ n >= 3
      /\ r[n - 2] = Tag[c] /\ r[n - 1] = verdict[c] /\ r[n] = "eol"
      /\ verdict[c] # "OK" \/ c = "LOGIN" => n = 3
      /\ verdict[c] = "OK" /\ c = "SELECT" => n = 5 /\ r[1] = "untagged" /\ r[2] = "eol"
      /\ verdict[c] = "OK" /\ c \notin {"LOGIN", "SELECT"} =>
           /\ n = Len(served[c]) + 7 /\ r[1] = "untagged" /\ r[2] = "eol"
           /\ \A i \in 1 .. Len(served[c]) : r[2 + i] = served[c][i]
           /\ r[n - 4] = ")" /\ r[n - 3] = "eol"
  BY <1>1, ReplyToLayout
<1>3. j \in 1 .. n
  OBVIOUS
<1> HIDE DEF r, n
<1>4. CASE j \in {n - 2, n - 1, n}
  BY <1>1, <1>2, <1>4 DEF r, n
<1>5. CASE j \notin {n - 2, n - 1, n}
  <2>1. CASE n = 3
    BY <1>3, <1>5, <2>1
  <2>2. CASE verdict[c] = "OK" /\ c = "SELECT"
    <3>1. j \in {1, 2}
      BY <1>2, <1>3, <1>5, <2>2
    <3> QED BY <1>2, <2>2, <3>1 DEF r, n
  <2>3. CASE verdict[c] = "OK" /\ c \notin {"LOGIN", "SELECT"}
    <3>1. Len(served[c]) \in Nat
      BY <1>1
    <3>2. n \in Nat /\ n = Len(served[c]) + 7
      BY <1>2, <2>3
    <3> DEFINE l == Len(served[c])
    <3> HIDE DEF l
    <3>3. j \in {1, 2, n - 4, n - 3} \/ (j - 2 \in 1 .. l /\ 2 + (j - 2) = j)
      <4>1. l \in Nat /\ n \in Nat /\ n = l + 7
        BY <3>1, <3>2 DEF l
      <4> QED BY <1>3, <1>5, <4>1
    <3>4. CASE j \in {1, 2, n - 4, n - 3}
      BY <1>2, <2>3, <3>4 DEF r, n
    <3>5. CASE j - 2 \in 1 .. Len(served[c]) /\ 2 + (j - 2) = j
      BY <1>2, <2>3, <3>5 DEF r, n
    <3> QED BY <3>3, <3>4, <3>5 DEF l
  <2> QED BY <1>2, <2>1, <2>2, <2>3
<1> QED BY <1>4, <1>5

\* The stream holds nothing but the lines of the protocol and the literals.
LEMMA StreamWithout ==
  ASSUME Decisions, NEW x, x \notin {"untagged", "eol", ")"}, x \notin Tags, x \notin Statuses,
         \A c \in Commands : \A i \in 1 .. Len(served[c]) : served[c][i] # x
  PROVE  \A i \in 1 .. Len(Stream) : Stream[i] # x
<1> SUFFICES ASSUME NEW i \in 1 .. Len(Stream), Stream[i] = x PROVE FALSE
  OBVIOUS
<1>1. /\ Stream[1] = "untagged" /\ Stream[2] = "eol"
      /\ i \in 1 .. 2 \/ \E d \in Commands : i - Before(d) \in 1 .. Len(ReplyTo(d))
  BY StreamParts
<1>2. PICK d \in Commands : i - Before(d) \in 1 .. Len(ReplyTo(d))
  BY <1>1
<1>3. Before(d) \in Nat /\ \A j \in 1 .. Len(ReplyTo(d)) : Stream[Before(d) + j] = ReplyTo(d)[j]
  BY StreamParts
<1>4. i = Before(d) + (i - Before(d))
  BY <1>3
<1>5. ReplyTo(d)[i - Before(d)] = x
  BY <1>2, <1>3, <1>4
<1>6. Tag[d] \in Tags
  BY DEF Tags
<1> QED BY <1>2, <1>5, <1>6, ReplyAtoms

\* A tag in the stream belongs to the last line of the reply to its command.
LEMMA TagInStream ==
  ASSUME Decisions, Honest, NEW i \in 1 .. Len(Stream), NEW c \in Commands,
         Stream[i] = Tag[c]
  PROVE  verdict[c] # "none" /\ i = Before(c) + Len(ReplyTo(c)) - 2
<1>1. /\ Stream[1] = "untagged" /\ Stream[2] = "eol"
      /\ i \in 1 .. 2 \/ \E d \in Commands : i - Before(d) \in 1 .. Len(ReplyTo(d))
  BY StreamParts
<1>2. Tag[c] \notin {"untagged", "eol", ")"} /\ Tag[c] \in Tags /\ Tag[c] \notin Statuses
  BY DEF Tag, Tags, Commands, Statuses
<1>3. PICK d \in Commands : i - Before(d) \in 1 .. Len(ReplyTo(d))
  BY <1>1, <1>2
<1>4. Before(d) \in Nat /\ \A j \in 1 .. Len(ReplyTo(d)) : Stream[Before(d) + j] = ReplyTo(d)[j]
  BY StreamParts
<1>5. Len(ReplyTo(d)) \in Nat
  BY ReplyToType
<1>6. i = Before(d) + (i - Before(d))
  BY <1>4
<1> DEFINE j == i - Before(d)
<1>7. ReplyTo(d)[j] = Tag[c]
  BY <1>3, <1>4, <1>6
<1>8. j = Len(ReplyTo(d)) - 2 /\ Tag[c] = Tag[d] /\ verdict[d] # "none"
  BY <1>2, <1>3, <1>7, ReplyAtoms DEF Honest
<1>9. c = d
  BY <1>8 DEF Tag, Commands
<1> QED BY <1>4, <1>5, <1>8, <1>9

\* A tag that can be read is that of the answer to its command, which follows it
\* unless the connection was lost in between.
LEMMA TagInWire ==
  ASSUME wire \in Seq(Atoms), Decisions, Streamed, Honest, NEW c \in Commands,
         NEW i \in 1 .. Len(wire), wire[i] = Tag[c]
  PROVE  /\ verdict[c] # "none" /\ i = Before(c) + Len(ReplyTo(c)) - 2
         /\ i + 1 <= Len(wire) => wire[i + 1] = verdict[c]
<1>1. /\ Len(wire) \in Nat /\ Len(wire) <= Len(Stream) /\ Len(Stream) \in Nat
      /\ \A k \in 1 .. Len(wire) : wire[k] = Stream[k]
  BY StreamParts DEF Streamed
<1>2. i \in 1 .. Len(Stream) /\ Stream[i] = Tag[c]
  BY <1>1
<1>3. verdict[c] # "none" /\ i = Before(c) + Len(ReplyTo(c)) - 2
  BY <1>2, TagInStream
<1>4. ASSUME i + 1 <= Len(wire) PROVE wire[i + 1] = verdict[c]
  <2>1. /\ Len(ReplyTo(c)) \in Nat /\ Len(ReplyTo(c)) >= 3
        /\ ReplyTo(c)[Len(ReplyTo(c)) - 1] = verdict[c]
    BY <1>3, ReplyToLayout
  <2>2. Before(c) \in Nat /\ \A j \in 1 .. Len(ReplyTo(c)) : Stream[Before(c) + j] = ReplyTo(c)[j]
    BY StreamParts
  <2>3. Before(c) \in Nat
    BY <2>2
  <2>4. i + 1 = Before(c) + (Len(ReplyTo(c)) - 1) /\ Len(ReplyTo(c)) - 1 \in 1 .. Len(ReplyTo(c))
    <3>1. Len(ReplyTo(c)) \in Nat /\ Len(ReplyTo(c)) >= 3 /\ i = Before(c) + Len(ReplyTo(c)) - 2
      BY <1>3, <2>1
    <3>2. \A b, l \in Nat : l >= 3 /\ i = b + l - 2 => i + 1 = b + (l - 1) /\ l - 1 \in 1 .. l
      OBVIOUS
    <3> QED BY <2>3, <3>1, <3>2
  <2>5. i + 1 \in 1 .. Len(wire)
    BY <1>1, <1>4
  <2> QED BY <1>1, <2>1, <2>2, <2>4, <2>5
<1> QED BY <1>3, <1>4

-----------------------------------------------------------------------------
CmdRank == IF cmd = "GREET" THEN 0 ELSE Rank[cmd]

\* Command c has been written to the connection, whole.
Sent(c) == Rank[c] < CmdRank \/ (cmd = c /\ pc # "send")

\* What waits for the server was sent, is undecided, and is in order.
Queue ==
  /\ \A i \in 1 .. Len(c2s) : Sent(c2s[i]) /\ verdict[c2s[i]] = "none"
  /\ \A i, j \in 1 .. Len(c2s) : i < j => Rank[c2s[i]] < Rank[c2s[j]]

DecidedSent == \A c \in Commands : verdict[c] # "none" => Sent(c)

\* The server has decided nothing that comes after a command it has yet to serve.
Ordered ==
  \A d \in Commands : verdict[d] # "none" =>
     \A i \in 1 .. Len(c2s) : Rank[d] < Rank[c2s[i]]

\* Where the process can be in each phase.
Control ==
  /\ pc \in {"resolve", "connect"} =>
        conn = "none" /\ cmd = "GREET" /\ pos = 0 /\ wire = <<>> /\ c2s = <<>>
  /\ conn = "none" => wire = <<>>
  /\ pc = "send" => cmd \in Commands
  /\ pc = "dispatch" => cmd = "FETCH"
  /\ pc = "exit" <=> outcome # "none"

\* What the commands and the replies keep to on any connection.
Flow ==
  /\ TypeOK
  /\ Streamed
  /\ Answered
  /\ Queue
  /\ DecidedSent
  /\ Ordered

Inv == Flow /\ Control

\* The message has been fetched before anything is done with it.
FetchedFirst == pc = "dispatch" \/ cmd \in {"PARSE", "LIST"} => verdict["FETCH"] = "OK"

-----------------------------------------------------------------------------
USE SessionAssumption, ServerAssumption

\* A marker found in what read() returned is the decision of the server.
LEMMA AnswerIsVerdict ==
  ASSUME TypeOK, Streamed, Answered, HonestPayloads,
         NEW n \in ReadSizes, NEW c \in Commands, NEW s \in Statuses,
         Shows(Chunk(n), Tag[c], s)
  PROVE  verdict[c] = s
<1>1. wire \in Seq(Atoms) /\ pos \in Nat /\ n \in Nat /\ pos + n <= Len(wire) /\ Decisions
  BY DEF TypeOK, ServerTypeOK, ReadSizes, Decisions
<1>2. Honest
  BY <1>1, HonestServed
<1>3. PICK i \in 1 .. Len(wire) - 1 : wire[i] = Tag[c] /\ wire[i + 1] = s
  <2>1. Len(Chunk(n)) = n /\ \A j \in 1 .. n : Chunk(n)[j] = wire[pos + j]
    BY <1>1 DEF Chunk
  <2>2. PICK j \in 1 .. Len(Chunk(n)) - 1 : Chunk(n)[j] = Tag[c] /\ Chunk(n)[j + 1] = s
    BY DEF Shows
  <2>3. /\ j \in 1 .. n /\ j + 1 \in 1 .. n
        /\ pos + j \in 1 .. Len(wire) - 1 /\ pos + (j + 1) = (pos + j) + 1
    BY <1>1, <2>1, <2>2
  <2> QED BY <2>1, <2>2, <2>3
<1>4. i \in 1 .. Len(wire) /\ i + 1 \in 1 .. Len(wire)
  BY <1>1, <1>3
<1>5. verdict[c] # "none" /\ (i + 1 <= Len(wire) => wire[i + 1] = verdict[c])
  BY <1>1, <1>2, <1>3, <1>4, TagInWire
<1> QED BY <1>3, <1>4, <1>5

\* read() returns atoms of the stream and moves the client along it.
LEMMA ChunkType ==
  ASSUME TypeOK, NEW n \in ReadSizes
  PROVE  /\ Chunk(n) \in Seq(Atoms)
         /\ Len(Chunk(n)) = n /\ n \in Nat \ {0}
         /\ pos + n \in 0 .. Len(wire)
         /\ Stored(Chunk(n)) \in Seq(Atoms)
<1>1. /\ wire \in Seq(Atoms) /\ pos \in Nat /\ n \in Nat \ {0}
      /\ pos + n <= Len(wire)
  BY DEF TypeOK, ServerTypeOK, ReadSizes
<1>2. Chunk(n) \in Seq(Atoms) /\ Len(Chunk(n)) = n
  BY <1>1 DEF Chunk
<1>3. Tail(Chunk(n)) \in Seq(Atoms)
  BY <1>1, <1>2
<1>4. Stored(Chunk(n)) \in Seq(Atoms)
  <2> DEFINE b == IF Chunk(n)[1] = "+" THEN Tail(Chunk(n)) ELSE Chunk(n)
  <2>1. b \in Seq(Atoms)
    BY <1>2, <1>3
  <2>2. CString(b) \in Seq(Atoms)
    BY <2>1, CStringType
  <2> QED BY <2>2 DEF Stored
<1> QED BY <1>1, <1>2, <1>4

\* What a step that leaves the stream and the server alone preserves, when it
\* does not take back a command.
LEMMA Frame ==
  ASSUME Flow, UNCHANGED <<conn, c2s, wire, verdict, served>>,
         \A c \in Commands : Sent(c) => Sent(c)'
  PROVE  Streamed' /\ Answered' /\ Queue' /\ DecidedSent' /\ Ordered'
<1>1. Streamed'
  BY DEF Flow, Streamed, Stream, ReplyTo
<1>2. Answered'
  BY DEF Flow, Answered
<1>3. \A i \in 1 .. Len(c2s) : c2s[i] \in Commands
  BY DEF Flow, TypeOK, ServerTypeOK
<1>4. Queue'
  BY <1>3 DEF Flow, Queue
<1>5. DecidedSent' /\ Ordered'
  BY DEF Flow, DecidedSent, Ordered
<1> QED BY <1>1, <1>2, <1>4, <1>5

\* The ends of the process are the results ImapExchange knows.
LEMMA SameOutcomes == DOMAIN ExitCode = Promise!Outcomes
BY DEF ExitCode, Promise!Outcomes

-----------------------------------------------------------------------------
LEMMA InitInv == Init => Inv
<1> SUFFICES ASSUME Init PROVE Inv
  OBVIOUS
<1>1. TypeOK
  <2>1. c2s \in Seq(Commands) /\ wire \in Seq(Atoms) /\ packets \in Seq(Atoms) /\ buf \in Seq(Atoms)
    BY DEF Init, ServerInit
  <2>2. verdict \in [Commands -> Statuses \cup {"none"}] /\ served \in [Commands -> Seq(Atoms)]
    BY DEF Init, ServerInit
  <2>3. ServerTypeOK
    BY <2>1, <2>2, wire = <<>> => Len(wire) = 0 DEF Init, ServerInit, ServerTypeOK
  <2>4. left \in 0 .. CmdLen /\ addrs \in 0 .. MaxAddrs
    BY DEF Init, SessionAssumption
  <2> QED BY <2>1, <2>3, <2>4 DEF Init, TypeOK, CommandLine, Phases
<1>2. Streamed /\ Answered
  <2>1. Answered
    BY DEF Init, ServerInit, Answered
  <2>2. wire = <<>> /\ Len(wire) = 0 /\ conn = "none"
    BY DEF Init, ServerInit
  <2>3. Decisions
    BY <1>1, <2>1 DEF TypeOK, ServerTypeOK, Decisions
  <2>4. Len(Stream) \in Nat
    BY <2>3, StreamParts
  <2> QED BY <2>1, <2>2, <2>4 DEF Streamed
<1>3. Queue /\ DecidedSent /\ Ordered
  BY DEF Init, ServerInit, Queue, DecidedSent, Ordered
<1>4. Control
  BY DEF Init, ServerInit, Control
<1> QED BY <1>1, <1>2, <1>3, <1>4 DEF Inv, Flow

\* The steps before there is a connection.
LEMMA ConnectInv ==
  ASSUME Inv, Resolve \/ TryAddress \/ OutOfAddresses
  PROVE  Inv'
<1>1. CASE Resolve
  <2>1. TypeOK'
    BY <1>1 DEF Inv, Flow, Resolve, Exit, TypeOK, ServerTypeOK, serverVars, ExitCode, Phases
  <2>2. \A c \in Commands : Sent(c) => Sent(c)'
    BY <1>1 DEF Resolve, Exit, Sent, CmdRank
  <2>3. UNCHANGED <<conn, c2s, wire, verdict, served>>
    BY <1>1 DEF Resolve, serverVars
  <2>4. Control'
    BY <1>1 DEF Inv, Flow, Resolve, Exit, Control, serverVars
  <2> QED BY <2>1, <2>2, <2>3, <2>4, Frame DEF Inv, Flow
<1>2. CASE OutOfAddresses
  <2>1. TypeOK'
    BY <1>2 DEF Inv, Flow, OutOfAddresses, TypeOK, ServerTypeOK, serverVars, Phases
  <2>2. \A c \in Commands : Sent(c) => Sent(c)'
    BY <1>2 DEF OutOfAddresses, Sent, CmdRank
  <2>3. UNCHANGED <<conn, c2s, wire, verdict, served>>
    BY <1>2 DEF OutOfAddresses, serverVars
  <2>4. Control'
    BY <1>2 DEF Inv, Flow, OutOfAddresses, Control, serverVars
  <2> QED BY <2>1, <2>2, <2>3, <2>4, Frame DEF Inv, Flow
<1>3. CASE TryAddress
  <2>1. /\ conn = "none" /\ cmd = "GREET" /\ pos = 0 /\ wire = <<>> /\ c2s = <<>>
        /\ UNCHANGED <<c2s, pos, verdict, served, folder, command, cmd, left, packets, buf, outcome>>
    BY <1>3 DEF Inv, Flow, Control, TryAddress
  <2>2. CASE UNCHANGED <<conn, wire, pc>> /\ addrs' = addrs - 1 /\ fd' \in {"none", "closed"}
    <3>1. TypeOK'
      <4>1. ServerTypeOK'
        BY <2>1, <2>2 DEF Inv, Flow, TypeOK, ServerTypeOK
      <4>2. addrs' \in 0 .. MaxAddrs
        BY <1>3, <2>2 DEF Inv, Flow, TypeOK, TryAddress, SessionAssumption
      <4> QED BY <2>1, <2>2, <4>1, <4>2 DEF Inv, Flow, TypeOK
    <3>2. \A c \in Commands : Sent(c) => Sent(c)'
      BY <2>1, <2>2 DEF Sent, CmdRank
    <3>3. Control'
      BY <2>1, <2>2 DEF Inv, Flow, Control
    <3> QED BY <2>1, <2>2, <3>1, <3>2, <3>3, Frame DEF Inv, Flow
  <2>3. CASE fd' = "open" /\ conn' = "open" /\ wire' = Greeting /\ pc' = "recv" /\ UNCHANGED addrs
    <3>1. Greeting \in Seq(Atoms) /\ Len(Greeting) = 2 /\ Greeting[1] = "untagged" /\ Greeting[2] = "eol"
      BY DEF Greeting, Atoms, Data
    <3>2. TypeOK'
      BY <2>1, <2>3, <3>1 DEF Inv, Flow, TypeOK, ServerTypeOK, Phases
    <3>3. \A c \in Commands : verdict[c] = "none"
      BY <2>1 DEF Inv, Flow, DecidedSent, Sent, CmdRank, Rank, Commands
    <3>4. Streamed' /\ Answered'
      <4>1. \A c \in Commands : ReplyTo(c)' = <<>>
        BY <2>1, <3>3 DEF ReplyTo
      <4>2. Stream' = Greeting
        BY <3>1, <4>1, ConcatEmptySeq DEF Stream, Greeting, Commands
      <4>3. Streamed'
        BY <2>3, <3>1, <4>2 DEF Streamed
      <4> QED BY <2>1, <4>3 DEF Inv, Flow, Answered
    <3>5. Queue' /\ DecidedSent' /\ Ordered'
      BY <2>1, <2>3, <3>3 DEF Inv, Flow, Queue, DecidedSent, Ordered
    <3>6. Control'
      BY <1>3, <2>1, <2>3 DEF Inv, Flow, Control, TryAddress
    <3> QED BY <3>2, <3>4, <3>5, <3>6 DEF Inv, Flow
  <2> QED BY <1>3, <2>2, <2>3 DEF TryAddress
<1> QED BY <1>1, <1>2, <1>3

\* What is written to the server goes behind all that was sent before it.
LEMMA SendFlow ==
  ASSUME Flow, TypeOK', pc = "send", cmd \in Commands, UNCHANGED <<cmd, wire, verdict, served>>,
         conn' = "open" => conn = "open",
         UNCHANGED c2s \/ (pc' # "send" /\ c2s' = Append(c2s, cmd))
  PROVE  Flow'
<1>1. c2s \in Seq(Commands)
  BY DEF Flow, TypeOK, ServerTypeOK
<1>2. \A c \in Commands : Sent(c) => Rank[c] < Rank[cmd]
  BY DEF Sent, CmdRank, Commands
<1>3. \A c \in Commands : Sent(c) => Sent(c)'
  BY <1>2 DEF Sent, CmdRank, Commands
<1>4. verdict[cmd] = "none"
  BY <1>2 DEF Flow, DecidedSent, Rank, Commands
<1>5. Streamed' /\ Answered'
  BY DEF Flow, Streamed, Stream, ReplyTo, Answered
<1>6. Queue'
  <2>1. CASE c2s' = c2s
    BY <1>1, <1>3, <2>1 DEF Flow, Queue
  <2>2. CASE pc' # "send" /\ c2s' = Append(c2s, cmd)
    <3>1. /\ Len(c2s') = Len(c2s) + 1 /\ c2s'[Len(c2s) + 1] = cmd
          /\ \A i \in 1 .. Len(c2s) : c2s'[i] = c2s[i] /\ c2s[i] \in Commands
      BY <1>1, <2>2
    <3>2. Sent(cmd)'
      BY <2>2 DEF Sent
    <3>3. \A i \in 1 .. Len(c2s) : Rank[c2s[i]] < Rank[cmd]
      BY <1>2, <3>1 DEF Flow, Queue
    <3>4. ASSUME NEW i \in 1 .. Len(c2s') PROVE Sent(c2s[i])' /\ verdict'[c2s'[i]] = "none"
      <4>1. CASE i = Len(c2s) + 1
        BY <1>4, <3>1, <3>2, <4>1 DEF Sent
      <4>2. CASE i # Len(c2s) + 1
        <5>1. i \in 1 .. Len(c2s) /\ c2s'[i] = c2s[i] /\ c2s[i] \in Commands
          BY <1>1, <3>1, <4>2
        <5>2. Sent(c2s[i]) /\ verdict[c2s[i]] = "none"
          BY <5>1 DEF Flow, Queue
        <5>3. Rank[c2s[i]] < CmdRank'
          BY <3>3, <5>1 DEF CmdRank, Commands
        <5> QED BY <5>1, <5>2, <5>3 DEF Sent
      <4> QED BY <4>1, <4>2
    <3>5. \A i, j \in 1 .. Len(c2s') : i < j => Rank[c2s'[i]] < Rank[c2s'[j]]
      BY <1>1, <3>1, <3>3 DEF Flow, Queue
    <3> QED BY <3>4, <3>5 DEF Queue
  <2> QED BY <2>1, <2>2
<1>7. DecidedSent'
  BY <1>3 DEF Flow, DecidedSent
<1>8. Ordered'
  <2>1. ASSUME NEW d \in Commands, verdict[d] # "none", NEW i \in 1 .. Len(c2s')
        PROVE  Rank[d] < Rank[c2s'[i]]
    <3>1. CASE i \in 1 .. Len(c2s) /\ c2s'[i] = c2s[i]
      BY <2>1, <3>1 DEF Flow, Ordered
    <3>2. CASE c2s'[i] = cmd
      BY <1>2, <2>1, <3>2 DEF Flow, DecidedSent
    <3> QED BY <1>1, <3>1, <3>2
  <2> QED BY <2>1 DEF Ordered
<1> QED BY <1>5, <1>6, <1>7, <1>8 DEF Flow

\* One write(): the last one sends the command.
LEMMA SendInv == ASSUME Inv, SendCommand PROVE Inv'
<1>1. /\ pc = "send" /\ cmd \in Commands /\ c2s \in Seq(Commands)
      /\ UNCHANGED <<cmd, wire, pos, verdict, served, folder, command, addrs, fd, packets, buf>>
  BY DEF Inv, Flow, Control, TypeOK, ServerTypeOK, SendCommand, Exit
<1>2. CASE UNCHANGED <<conn, c2s>> /\ \E o \in {"SigPipe", "WriteError"} : Exit(o)
  <2>1. TypeOK'
    BY <1>1, <1>2 DEF Inv, Flow, TypeOK, ServerTypeOK, Exit, ExitCode, Phases
  <2>2. Control'
    BY <1>1, <1>2 DEF Inv, Control, Exit
  <2> QED BY <1>1, <1>2, <2>1, <2>2, SendFlow DEF Inv
<1>3. ASSUME conn \in {"open", "fin"}, NEW n \in 1 .. left, left' = left - n,
             pc' = IF n = left THEN "recv" ELSE "send",
             c2s' = IF n = left /\ conn = "open" THEN Append(c2s, cmd) ELSE c2s,
             conn' \in IF conn = "fin" THEN {"fin", "shut"} ELSE {"open"},
             UNCHANGED outcome
      PROVE  Inv'
  <2>1. left' \in 0 .. CmdLen /\ c2s' \in Seq(Commands)
    <3>1. left \in 0 .. CmdLen
      BY DEF Inv, Flow, TypeOK
    <3>2. left' \in 0 .. CmdLen
      BY <1>3, <3>1 DEF SessionAssumption
    <3>3. c2s' \in Seq(Commands)
      BY <1>1, <1>3
    <3> QED BY <3>2, <3>3
  <2>2. TypeOK'
    BY <1>1, <1>3, <2>1 DEF Inv, Flow, TypeOK, ServerTypeOK, Phases
  <2>3. Control'
    BY <1>1, <1>3 DEF Inv, Control
  <2>4. Flow'
    BY <1>1, <1>3, <2>2, SendFlow DEF Inv
  <2> QED BY <2>3, <2>4 DEF Inv
<1> QED BY <1>2, <1>3 DEF SendCommand

-----------------------------------------------------------------------------
\* What the read loops do to the rest of the state, whatever they look for.
LEMMA ReadInv ==
  ASSUME Inv, pc = "recv",
         UNCHANGED <<conn, c2s, wire, verdict, served, folder, command, addrs>>,
         pos' \in 0 .. Len(wire), fd' \in {"none", "closed", "open"},
         packets' \in Seq(Atoms), buf' \in Seq(Atoms),
         \/ ReadOn
         \/ \E o \in Promise!Outcomes : Exit(o)
         \/ cmd \in DOMAIN Successor /\ Begin(Successor[cmd])
         \/ cmd = "FETCH" /\ pc' = "dispatch" /\ UNCHANGED <<cmd, left, outcome>>
  PROVE  Inv'
<1>1. ServerTypeOK'
  BY DEF Inv, Flow, TypeOK, ServerTypeOK
<1>2. CASE ReadOn
  <2>1. TypeOK'
    BY <1>1, <1>2 DEF Inv, Flow, TypeOK, ReadOn
  <2>2. \A c \in Commands : Sent(c) => Sent(c)'
    BY <1>2 DEF ReadOn, Sent, CmdRank
  <2>3. Control'
    BY <1>2 DEF Inv, Flow, ReadOn, Control
  <2> QED BY <2>1, <2>2, <2>3, Frame DEF Inv, Flow
<1>3. CASE \E o \in Promise!Outcomes : Exit(o)
  <2>1. TypeOK'
    BY <1>1, <1>3, SameOutcomes DEF Inv, Flow, TypeOK, Exit, Phases
  <2>2. \A c \in Commands : Sent(c) => Sent(c)'
    BY <1>3 DEF Exit, Sent, CmdRank
  <2>3. Control'
    BY <1>3 DEF Inv, Flow, Exit, Control, Promise!Outcomes
  <2> QED BY <2>1, <2>2, <2>3, Frame DEF Inv, Flow
<1>4. CASE cmd \in DOMAIN Successor /\ Begin(Successor[cmd])
  <2>1. TypeOK'
    BY <1>1, <1>4 DEF Inv, Flow, TypeOK, Begin, Phases, Successor, Commands, SessionAssumption
  <2>2. \A c \in Commands : Sent(c) => Sent(c)'
    BY <1>4 DEF Begin, Sent, CmdRank, Successor, Rank, Commands
  <2>3. Control'
    BY <1>4 DEF Inv, Flow, Begin, Control, Successor, Commands
  <2> QED BY <2>1, <2>2, <2>3, Frame DEF Inv, Flow
<1>5. CASE cmd = "FETCH" /\ pc' = "dispatch" /\ UNCHANGED <<cmd, left, outcome>>
  <2>1. TypeOK'
    BY <1>1, <1>5 DEF Inv, Flow, TypeOK, Phases
  <2>2. \A c \in Commands : Sent(c) => Sent(c)'
    BY <1>5 DEF Sent, CmdRank
  <2>3. Control'
    BY <1>5 DEF Inv, Flow, Control
  <2> QED BY <2>1, <2>2, <2>3, Frame DEF Inv, Flow
<1> QED BY <1>2, <1>3, <1>4, <1>5

LEMMA ReadResponseInv == ASSUME Inv, ReadResponse PROVE Inv'
<1>1. /\ pc = "recv" /\ cmd \in DOMAIN Successor
      /\ UNCHANGED <<conn, c2s, wire, verdict, served, folder, command, addrs, packets, buf>>
      /\ packets \in Seq(Atoms) /\ buf \in Seq(Atoms) /\ fd \in {"none", "closed", "open"}
      /\ pos \in 0 .. Len(wire)
  BY DEF Inv, Flow, TypeOK, ServerTypeOK, ReadResponse
<1>2. CASE \E n \in ReadSizes :
             /\ pos' = pos + n
             /\ \/ Refusal(Chunk(n)) # "none" /\ Exit(Refusal(Chunk(n)))
                \/ Refusal(Chunk(n)) = "none" /\ Begin(Successor[cmd])
             /\ UNCHANGED fd
  <2>1. PICK n \in ReadSizes :
             /\ pos' = pos + n
             /\ \/ Refusal(Chunk(n)) # "none" /\ Exit(Refusal(Chunk(n)))
                \/ Refusal(Chunk(n)) = "none" /\ Begin(Successor[cmd])
             /\ UNCHANGED fd
    BY <1>2
  <2>2. pos' \in 0 .. Len(wire)
    BY <2>1, ChunkType DEF Inv, Flow
  <2>3. Refusal(Chunk(n)) # "none" => Refusal(Chunk(n)) \in Promise!Outcomes
    BY DEF Refusal, Promise!Outcomes
  <2> QED BY <1>1, <2>1, <2>2, <2>3, ReadInv
<1>3. CASE \/ AtEnd /\ fd' = "closed" /\ Exit("Disconnected") /\ UNCHANGED pos
           \/ ReadFails /\ Exit("ReadError") /\ UNCHANGED <<pos, fd>>
  <2>1. pos' \in 0 .. Len(wire) /\ fd' \in {"none", "closed", "open"}
    BY <1>1, <1>3
  <2>2. \E o \in Promise!Outcomes : Exit(o)
    BY <1>3 DEF Promise!Outcomes
  <2> QED BY <1>1, <2>1, <2>2, ReadInv
<1> QED BY <1>2, <1>3 DEF ReadResponse

LEMMA RetrieveReadInv == ASSUME Inv, RetrieveRead PROVE Inv'
<1>1. /\ pc = "recv" /\ cmd = "FETCH"
      /\ UNCHANGED <<conn, c2s, wire, verdict, served, folder, command, addrs, fd, buf>>
      /\ packets \in Seq(Atoms) /\ buf \in Seq(Atoms) /\ fd \in {"none", "closed", "open"}
      /\ pos \in 0 .. Len(wire)
  BY DEF Inv, Flow, TypeOK, ServerTypeOK, RetrieveRead
<1>2. CASE \E n \in ReadSizes :
             /\ pos' = pos + n
             /\ packets' = packets \o Stored(Chunk(n))
             /\ \/ /\ Answer(Chunk(n)) = "OK"
                   /\ pc' = "dispatch"
                   /\ UNCHANGED <<cmd, left, outcome>>
                \/ Answer(Chunk(n)) = "refused" /\ Exit("MessageNotFound")
                \/ Answer(Chunk(n)) = "none" /\ ReadOn
  <2>1. PICK n \in ReadSizes :
             /\ pos' = pos + n
             /\ packets' = packets \o Stored(Chunk(n))
             /\ \/ /\ Answer(Chunk(n)) = "OK"
                   /\ pc' = "dispatch"
                   /\ UNCHANGED <<cmd, left, outcome>>
                \/ Answer(Chunk(n)) = "refused" /\ Exit("MessageNotFound")
                \/ Answer(Chunk(n)) = "none" /\ ReadOn
    BY <1>2
  <2>2. pos' \in 0 .. Len(wire) /\ packets' \in Seq(Atoms)
    BY <1>1, <2>1, ChunkType DEF Inv, Flow
  <2>3. "MessageNotFound" \in Promise!Outcomes
    BY DEF Promise!Outcomes
  <2> QED BY <1>1, <2>1, <2>2, <2>3, ReadInv
<1>3. CASE \/ AtEnd /\ ReadOn /\ UNCHANGED <<pos, packets>>
           \/ ReadFails /\ Exit("FetchError") /\ UNCHANGED <<pos, packets>>
  <2>1. ReadOn \/ \E o \in Promise!Outcomes : Exit(o)
    BY <1>3 DEF Promise!Outcomes
  <2> QED BY <1>1, <1>3, <2>1, ReadInv
<1> QED BY <1>2, <1>3 DEF RetrieveRead

LEMMA ParseReadInv == ASSUME Inv, ParseRead PROVE Inv'
<1>1. /\ pc = "recv" /\ cmd = "PARSE"
      /\ UNCHANGED <<conn, c2s, wire, verdict, served, folder, command, addrs, fd, packets>>
      /\ packets \in Seq(Atoms) /\ buf \in Seq(Atoms) /\ fd \in {"none", "closed", "open"}
      /\ pos \in 0 .. Len(wire)
  BY DEF Inv, Flow, TypeOK, ServerTypeOK, ParseRead
<1>2. pos' \in 0 .. Len(wire) /\ buf' \in Seq(Atoms)
  <2>1. CASE UNCHANGED <<pos, buf>>
    BY <1>1, <2>1
  <2>2. CASE \E n \in ReadSizes : pos' = pos + n /\ buf' = buf \o Chunk(n)
    <3>1. PICK n \in ReadSizes : pos' = pos + n /\ buf' = buf \o Chunk(n)
      BY <2>2
    <3>2. pos + n \in 0 .. Len(wire) /\ Chunk(n) \in Seq(Atoms)
      BY ChunkType DEF Inv, Flow
    <3> QED BY <1>1, <3>1, <3>2
  <2> QED BY <2>1, <2>2 DEF ParseRead
<1>3. ReadOn \/ \E o \in Promise!Outcomes : Exit(o)
  BY DEF ParseRead, Promise!Outcomes
<1> QED BY <1>1, <1>2, <1>3, ReadInv

LEMMA ListReadInv == ASSUME Inv, ListRead PROVE Inv'
<1>1. /\ pc = "recv" /\ cmd = "LIST"
      /\ UNCHANGED <<conn, c2s, wire, verdict, served, folder, command, addrs, fd, packets>>
      /\ packets \in Seq(Atoms) /\ buf \in Seq(Atoms) /\ fd \in {"none", "closed", "open"}
      /\ pos \in 0 .. Len(wire)
  BY DEF Inv, Flow, TypeOK, ServerTypeOK, ListRead
<1>2. pos' \in 0 .. Len(wire) /\ buf' \in Seq(Atoms)
  <2>1. CASE UNCHANGED <<pos, buf>>
    BY <1>1, <2>1
  <2>2. CASE \E n \in ReadSizes : pos' = pos + n /\ buf' = buf \o Chunk(n)
    <3>1. PICK n \in ReadSizes : pos' = pos + n /\ buf' = buf \o Chunk(n)
      BY <2>2
    <3>2. pos + n \in 0 .. Len(wire) /\ Chunk(n) \in Seq(Atoms)
      BY ChunkType DEF Inv, Flow
    <3> QED BY <1>1, <3>1, <3>2
  <2> QED BY <2>1, <2>2 DEF ListRead
<1>3. ReadOn \/ \E o \in Promise!Outcomes : Exit(o)
  BY DEF ListRead, Listing, Promise!Outcomes
<1> QED BY <1>1, <1>2, <1>3, ReadInv

LEMMA DispatchInv == ASSUME Inv, Dispatch PROVE Inv'
<1>1. /\ pc = "dispatch" /\ cmd = "FETCH"
      /\ UNCHANGED <<serverVars, command, addrs, fd, packets, buf>>
  BY DEF Inv, Flow, Control, Dispatch
<1>2. CASE \E o \in Promise!Outcomes : Exit(o)
  <2>1. TypeOK'
    BY <1>1, <1>2, SameOutcomes DEF Inv, Flow, TypeOK, ServerTypeOK, serverVars, Exit, Phases
  <2>2. \A c \in Commands : Sent(c) => Sent(c)'
    BY <1>1, <1>2 DEF Exit, Sent, CmdRank
  <2>3. Control'
    BY <1>1, <1>2 DEF Inv, Flow, Exit, Control, Promise!Outcomes, serverVars
  <2> QED BY <1>1, <2>1, <2>2, <2>3, Frame DEF Inv, Flow, serverVars
<1>3. CASE \E c \in {"PARSE", "LIST"} : Begin(c)
  <2>1. TypeOK'
    BY <1>1, <1>3 DEF Inv, Flow, TypeOK, ServerTypeOK, serverVars, Begin, Phases, Commands, SessionAssumption
  <2>2. \A c \in Commands : Sent(c) => Sent(c)'
    BY <1>1, <1>3 DEF Begin, Sent, CmdRank, Rank, Commands
  <2>3. Control'
    BY <1>1, <1>3 DEF Inv, Flow, Begin, Control, Commands, serverVars
  <2> QED BY <1>1, <2>1, <2>2, <2>3, Frame DEF Inv, Flow, serverVars
<1> QED BY <1>2, <1>3 DEF Dispatch, Promise!Outcomes

-----------------------------------------------------------------------------
\* What a step of the server does: it answers the oldest command, which is undecided
\* as is all that comes after it, and adds the reply to the stream.
LEMMA Served ==
  ASSUME Flow, Server
  PROVE  \E c \in Commands, s \in Statuses : \E data \in Literals(c, s) :
           /\ c2s # <<>> /\ c = c2s[1] /\ s \in Verdicts(c)
           /\ \A d \in Commands : Rank[d] >= Rank[c] => verdict[d] = "none"
           /\ wire' = wire \o Reply(c, s, data)
           /\ verdict' = [verdict EXCEPT ![c] = s]
           /\ served' = [served EXCEPT ![c] = data]
           /\ c2s' = Tail(c2s) /\ conn = "open" /\ pc # "exit"
           /\ UNCHANGED <<conn, pos, folder, clientVars>>
<1> DEFINE c == Head(c2s)
<1>1. /\ conn = "open" /\ c2s \in Seq(Commands) /\ c2s # <<>> /\ c2s' = Tail(c2s) /\ pc # "exit"
      /\ UNCHANGED <<conn, pos, folder, clientVars>>
  BY DEF Flow, TypeOK, ServerTypeOK, Server, Serve
<1>2. PICK s \in Verdicts(c) : \E data \in Literals(c, s) :
        /\ wire' = wire \o Reply(c, s, data)
        /\ verdict' = [verdict EXCEPT ![c] = s]
        /\ served' = [served EXCEPT ![c] = data]
  BY Zenon DEF Server, Serve
<1>3. PICK data \in Literals(c, s) :
        /\ wire' = wire \o Reply(c, s, data)
        /\ verdict' = [verdict EXCEPT ![c] = s]
        /\ served' = [served EXCEPT ![c] = data]
  BY <1>2
<1>4. c \in Commands /\ c = c2s[1] /\ 1 \in 1 .. Len(c2s)
  BY <1>1
<1>5. s \in Statuses
  BY <1>2 DEF Verdicts, Statuses
<1> HIDE DEF c
<1>6. ASSUME NEW d \in Commands, Rank[d] >= Rank[c], verdict[d] # "none" PROVE FALSE
  <2>1. Rank[d] < Rank[c]
    BY <1>4, <1>6 DEF Flow, Ordered
  <2> QED BY <1>4, <1>6, <2>1 DEF Rank, Commands
<1> QED BY <1>1, <1>3, <1>4, <1>5, <1>6

\* The stream after a step of the server.
LEMMA ServeStream ==
  ASSUME TypeOK, Streamed, Answered, conn = "open", UNCHANGED <<conn, pos>>,
         NEW c \in Commands, NEW s \in Statuses, NEW data \in Literals(c, s),
         \A d \in Commands : Rank[d] >= Rank[c] => verdict[d] = "none",
         wire' = wire \o Reply(c, s, data),
         verdict' = [verdict EXCEPT ![c] = s], served' = [served EXCEPT ![c] = data]
  PROVE  /\ Streamed' /\ Answered'
         /\ wire' \in Seq(Atoms) /\ Len(wire) <= Len(wire')
         /\ \A i \in 1 .. Len(wire) : wire'[i] = wire[i]
         /\ verdict' \in [Commands -> Statuses \cup {"none"}] /\ served' \in [Commands -> Seq(Atoms)]
<1> DEFINE q == Reply(c, s, data)
<1>1. /\ Decisions /\ served \in [Commands -> Seq(Atoms)] /\ wire \in Seq(Atoms)
      /\ verdict \in [Commands -> Statuses \cup {"none"}]
  BY DEF TypeOK, ServerTypeOK, Decisions
<1>2. data \in Seq(Atoms)
  BY LiteralType
<1>3. q \in Seq(Atoms)
  BY <1>2, ReplyLayout
<1>4. Decisions' /\ Stream' = Stream \o q
  BY <1>1, StreamGrows
<1>5. Stream \in Seq(Atoms)
  BY <1>1, StreamParts
<1>6. wire = Stream
  BY <1>1, <1>5, SeqEqual DEF Streamed
<1>7. wire' = wire \o q
  OBVIOUS
<1> HIDE DEF q
<1>8. /\ wire' \in Seq(Atoms) /\ Len(wire') = Len(wire) + Len(q) /\ Len(q) \in Nat /\ Len(wire) \in Nat
      /\ \A i \in 1 .. Len(wire) : wire'[i] = wire[i]
  BY <1>1, <1>3, <1>7, Cat
<1>9. Streamed'
  BY <1>4, <1>6, <1>7, <1>8 DEF Streamed
<1>10. verdict' \in [Commands -> Statuses \cup {"none"}] /\ served' \in [Commands -> Seq(Atoms)]
  BY <1>1, <1>2
<1> QED BY <1>4, <1>8, <1>9, <1>10 DEF Decisions

\* Serving a command writes one answer, to the command served.
LEMMA ServeFlow == ASSUME Flow, Server PROVE Flow'
<1>1. PICK c \in Commands, s \in Statuses : \E data \in Literals(c, s) :
           /\ c2s # <<>> /\ c = c2s[1] /\ s \in Verdicts(c)
           /\ \A d \in Commands : Rank[d] >= Rank[c] => verdict[d] = "none"
           /\ wire' = wire \o Reply(c, s, data)
           /\ verdict' = [verdict EXCEPT ![c] = s]
           /\ served' = [served EXCEPT ![c] = data]
           /\ c2s' = Tail(c2s) /\ conn = "open" /\ pc # "exit"
           /\ UNCHANGED <<conn, pos, folder, clientVars>>
  BY Served
<1>2. /\ Streamed' /\ Answered'
      /\ wire' \in Seq(Atoms) /\ Len(wire) <= Len(wire')
      /\ verdict' \in [Commands -> Statuses \cup {"none"}] /\ served' \in [Commands -> Seq(Atoms)]
  BY <1>1, ServeStream DEF Flow
<1>3. /\ c2s \in Seq(Commands) /\ c2s # <<>> /\ c2s' = Tail(c2s) /\ c = c2s[1]
      /\ verdict' = [verdict EXCEPT ![c] = s]
      /\ verdict \in [Commands -> Statuses \cup {"none"}] /\ pos \in 0 .. Len(wire) /\ wire \in Seq(Atoms)
  BY <1>1 DEF Flow, TypeOK, ServerTypeOK
<1>4. /\ UNCHANGED <<conn, pos, folder, command, pc, cmd, left, addrs, fd, packets, buf, outcome>>
      /\ conn = "open" /\ pc # "exit"
  BY <1>1 DEF clientVars
<1>5. /\ c2s' \in Seq(Commands) /\ Len(c2s') = Len(c2s) - 1
      /\ \A i \in 1 .. Len(c2s') : /\ c2s'[i] = c2s[i + 1] /\ i + 1 \in 1 .. Len(c2s)
                                  /\ 1 < i + 1 /\ c2s[i + 1] \in Commands
      /\ 1 \in 1 .. Len(c2s)
  BY <1>3
<1>6. TypeOK'
  <2>1. pos' \in 0 .. Len(wire')
    BY <1>2, <1>3, <1>4
  <2>2. ServerTypeOK /\ TypeOK
    BY <1>1 DEF Flow, TypeOK
  <2>3. ServerTypeOK'
    BY <1>2, <1>4, <1>5, <2>1, <2>2 DEF ServerTypeOK
  <2> QED BY <1>4, <2>2, <2>3 DEF TypeOK
<1>7. \A d \in Commands : Sent(d) <=> Sent(d)'
  BY <1>4 DEF Sent, CmdRank
<1>8. \A d \in Commands \ {c} : verdict'[d] = verdict[d]
  BY <1>3
<1>9. \A i \in 1 .. Len(c2s') : Rank[c] < Rank[c2s'[i]] /\ c2s'[i] \in Commands \ {c}
  <2>1. ASSUME NEW i \in 1 .. Len(c2s') PROVE Rank[c] < Rank[c2s'[i]]
    BY <1>3, <1>5 DEF Flow, Queue
  <2> QED BY <1>5, <2>1 DEF Rank, Commands
<1>10. Queue'
  <2>1. ASSUME NEW i \in 1 .. Len(c2s') PROVE Sent(c2s[i])' /\ verdict'[c2s'[i]] = "none"
    <3>1. Sent(c2s[i + 1]) /\ verdict[c2s[i + 1]] = "none"
      BY <1>5 DEF Flow, Queue
    <3> QED BY <1>4, <1>5, <1>8, <1>9, <3>1 DEF Sent, CmdRank
  <2>2. \A i, j \in 1 .. Len(c2s') : i < j => Rank[c2s'[i]] < Rank[c2s'[j]]
    BY <1>5 DEF Flow, Queue
  <2> QED BY <2>1, <2>2 DEF Queue
<1>11. Sent(c)
  BY <1>3, <1>5 DEF Flow, Queue
<1>12. DecidedSent'
  BY <1>7, <1>8, <1>11 DEF Flow, DecidedSent
<1>13. Ordered'
  <2>1. ASSUME NEW d \in Commands, verdict'[d] # "none", NEW i \in 1 .. Len(c2s')
        PROVE  Rank[d] < Rank[c2s'[i]]
    <3>1. CASE d = c
      BY <1>9, <3>1
    <3>2. CASE d # c
      BY <1>5, <1>8, <2>1, <3>2 DEF Flow, Ordered
    <3> QED BY <3>1, <3>2
  <2> QED BY <2>1 DEF Ordered
<1> QED BY <1>2, <1>6, <1>10, <1>12, <1>13 DEF Flow

\* Losing the connection takes the end of the stream away.
LEMMA NetworkFlow == ASSUME Flow, Network PROVE Flow'
<1>1. PICK n \in pos .. Len(wire) : wire' = SubSeq(wire, 1, n)
  BY DEF Network, Disconnect
<1>2. /\ conn = "open" /\ conn' \in {"fin", "rst"} /\ pc # "exit"
      /\ UNCHANGED <<c2s, pos, verdict, served, folder, clientVars>>
  BY DEF Network, Disconnect
<1>3. wire \in Seq(Atoms) /\ pos \in 0 .. Len(wire)
  BY DEF Flow, TypeOK, ServerTypeOK
<1>4. wire' \in Seq(Atoms) /\ Len(wire') = n /\ \A i \in 1 .. n : wire'[i] = wire[i]
  BY <1>1, <1>3
<1>5. TypeOK'
  BY <1>1, <1>2, <1>3, <1>4 DEF Flow, TypeOK, ServerTypeOK, clientVars
<1>6. Streamed' /\ Answered'
  <2>1. Stream' = Stream
    BY <1>2 DEF Stream, ReplyTo, Greeting
  <2>2. Streamed'
    BY <1>1, <1>2, <1>3, <1>4, <2>1 DEF Flow, Streamed
  <2> QED BY <1>2, <2>2 DEF Flow, Answered
<1>7. \A i \in 1 .. Len(c2s) : c2s[i] \in Commands
  BY DEF Flow, TypeOK, ServerTypeOK
<1>8. \A c \in Commands : Sent(c) => Sent(c)'
  BY <1>2 DEF Sent, CmdRank, clientVars
<1>9. Queue' /\ DecidedSent' /\ Ordered'
  BY <1>2, <1>7, <1>8 DEF Flow, Queue, DecidedSent, Ordered
<1> QED BY <1>5, <1>6, <1>9 DEF Flow

LEMMA NextInv == ASSUME Inv, [Next]_vars PROVE Inv'
<1>1. CASE Resolve \/ TryAddress \/ OutOfAddresses
  BY <1>1, ConnectInv
<1>2. CASE SendCommand
  BY <1>2, SendInv
<1>3. CASE ReadResponse
  BY <1>3, ReadResponseInv
<1>4. CASE RetrieveRead
  BY <1>4, RetrieveReadInv
<1>5. CASE Dispatch
  BY <1>5, DispatchInv
<1>6. CASE ParseRead
  BY <1>6, ParseReadInv
<1>7. CASE ListRead
  BY <1>7, ListReadInv
<1>8. CASE Server
  <2>1. Flow'
    BY <1>8, ServeFlow DEF Inv
  <2>2. /\ UNCHANGED <<conn, pos, pc, cmd, outcome>> /\ conn = "open" /\ pc # "exit"
    BY <1>8 DEF Server, Serve, clientVars
  <2>3. pc \notin {"resolve", "connect"}
    BY <2>2 DEF Inv, Control
  <2>4. Control'
    BY <2>2, <2>3 DEF Inv, Control
  <2> QED BY <2>1, <2>4 DEF Inv
<1>9. CASE Network
  <2>1. Flow'
    BY <1>9, NetworkFlow DEF Inv
  <2>2. /\ conn = "open" /\ conn' # "none" /\ UNCHANGED <<c2s, pos, pc, cmd, outcome>> /\ pc # "exit"
    BY <1>9 DEF Network, Disconnect, clientVars
  <2>3. pc \notin {"resolve", "connect"}
    BY <2>2 DEF Inv, Control
  <2>4. Control'
    BY <2>2, <2>3 DEF Inv, Control
  <2> QED BY <2>1, <2>4 DEF Inv
<1>10. CASE Finished \/ UNCHANGED vars
  <2>1. UNCHANGED <<conn, c2s, wire, pos, verdict, served, folder>>
        /\ UNCHANGED <<command, pc, cmd, left, addrs, fd, packets, buf, outcome>>
    BY <1>10 DEF Finished, vars, serverVars, clientVars
  <2>2. TypeOK'
    BY <2>1 DEF Inv, Flow, TypeOK, ServerTypeOK
  <2>3. \A c \in Commands : Sent(c) => Sent(c)'
    BY <2>1 DEF Sent, CmdRank
  <2>4. Control'
    BY <2>1 DEF Inv, Flow, Control
  <2> QED BY <2>1, <2>2, <2>3, <2>4, Frame DEF Inv, Flow
<1> QED
  BY <1>1, <1>2, <1>3, <1>4, <1>5, <1>6, <1>7, <1>8, <1>9, <1>10 DEF Next, Client

\* The invariant the other theorems rest on, whatever the literals hold: in every
\* reachable state what can be read is the greeting and the replies to the commands
\* decided so far, whole and in the order main() sends them, or a beginning of that
\* when the connection is lost, and what waits for the server comes after them.
THEOREM Invariance == Spec => []Inv
<1>1. Init => Inv
  BY InitInv
<1>2. Inv /\ [Next]_vars => Inv'
  BY NextInv
<1> QED BY <1>1, <1>2, PTL DEF Spec

\* A step keeps the message fetched, when the answers in the stream are the server's.
LEMMA FetchedFirstStep ==
  ASSUME Inv, FetchedFirst, HonestPayloads, [Next]_vars PROVE FetchedFirst'
<1>1. CASE RetrieveRead
  <2>1. cmd = "FETCH" /\ UNCHANGED <<cmd, verdict>> /\ pc = "recv"
    BY <1>1 DEF RetrieveRead, ReadOn, Exit
  <2>2. CASE pc' = "dispatch"
    <3>1. PICK n \in ReadSizes : Answer(Chunk(n)) = "OK"
      BY <1>1, <2>1, <2>2 DEF RetrieveRead, ReadOn, Exit
    <3>2. Shows(Chunk(n), Tag["FETCH"], "OK")
      BY <3>1 DEF Answer, Tag
    <3>3. verdict["FETCH"] = "OK"
      BY <3>2, AnswerIsVerdict DEF Inv, Flow, Commands, Statuses
    <3> QED BY <2>1, <3>3 DEF FetchedFirst
  <2> QED BY <2>1, <2>2 DEF FetchedFirst
<1>2. CASE Server
  <2>1. PICK c \in Commands, s \in Statuses :
          /\ Rank[c] >= Rank[c] => verdict[c] = "none"
          /\ verdict' = [verdict EXCEPT ![c] = s]
          /\ UNCHANGED clientVars
    BY <1>2, Served DEF Inv
  <2>2. verdict["FETCH"] = "OK" => c # "FETCH" /\ verdict'["FETCH"] = "OK"
    BY <2>1 DEF Inv, Flow, TypeOK, ServerTypeOK, Commands, Rank
  <2> QED BY <2>1, <2>2 DEF FetchedFirst, clientVars
<1>3. CASE Dispatch
  <2>1. verdict["FETCH"] = "OK" /\ UNCHANGED verdict
    BY <1>3 DEF FetchedFirst, Dispatch, serverVars
  <2> QED BY <2>1 DEF FetchedFirst
<1>4. CASE ReadResponse
  BY <1>4 DEF FetchedFirst, ReadResponse, Begin, Exit, Successor
<1>5. CASE Resolve \/ TryAddress \/ OutOfAddresses \/ SendCommand \/ ParseRead \/ ListRead \/ Network
  <2>1. UNCHANGED <<cmd, verdict>> /\ (pc' = "dispatch" => pc = "dispatch")
    BY <1>5 DEF Resolve, TryAddress, OutOfAddresses, SendCommand, ParseRead, ListRead, Network,
                Disconnect, Exit, ReadOn, serverVars, clientVars
  <2> QED BY <2>1 DEF FetchedFirst
<1>6. CASE Finished \/ UNCHANGED vars
  BY <1>6 DEF FetchedFirst, Finished, vars, serverVars, clientVars
<1> QED BY <1>1, <1>2, <1>3, <1>4, <1>5, <1>6 DEF Next, Client

\* Nothing is done with a message before the server has granted it (main.c:92-104).
THEOREM FetchedBeforeUse == ASSUME HonestPayloads PROVE Spec => []FetchedFirst
<1>1. Init => FetchedFirst
  BY DEF Init, FetchedFirst
<1>2. Inv /\ FetchedFirst /\ [Next]_vars => FetchedFirst'
  BY FetchedFirstStep
<1> QED BY <1>1, <1>2, Invariance, PTL DEF Spec

\* The types do not depend on what the literals hold; they rest on the client
\* having read nothing before it connects, and on the greeting being no command.
Typed ==
  /\ TypeOK
  /\ pc \in {"resolve", "connect"} => pos = 0
  /\ pc = "send" => cmd \in Commands

LEMMA ReplyTyped ==
  ASSUME NEW c \in Commands, NEW s \in Statuses, NEW data \in Literals(c, s)
  PROVE  data \in Seq(Atoms) /\ Reply(c, s, data) \in Seq(Atoms)
<1>1. data \in Seq(Atoms)
  <2>1. CASE c \in DOMAIN Payloads /\ s = "OK"
    <3>1. Payloads[c] \subseteq Seq(Atoms)
      BY <2>1 DEF ServerAssumption, Atoms
    <3> QED BY <2>1, <3>1 DEF Literals
  <2>2. CASE ~(c \in DOMAIN Payloads /\ s = "OK")
    <3>1. data = <<>>
      BY <2>2 DEF Literals
    <3> QED BY <3>1
  <2> QED BY <2>1, <2>2
<1>2. /\ <<"untagged", "eol">> \in Seq(Atoms) /\ <<")", "eol">> \in Seq(Atoms)
      /\ <<Tag[c], s, "eol">> \in Seq(Atoms) /\ <<>> \in Seq(Atoms)
  BY DEF Atoms, Data, Tags
<1>3. Untagged(c, data) \in Seq(Atoms)
  BY <1>1, <1>2 DEF Untagged
<1> QED BY <1>1, <1>2, <1>3 DEF Reply

\* The steps of the client that write or decide.
LEMMA StepTyped ==
  ASSUME Typed, Resolve \/ TryAddress \/ OutOfAddresses \/ SendCommand \/ Dispatch
  PROVE  Typed'
<1>1. CASE Resolve \/ OutOfAddresses
  <2>1. /\ UNCHANGED <<serverVars, command, cmd, left, fd, packets, buf>>
        /\ pc' \in {"connect", "recv", "exit"} /\ outcome' \in {outcome, "NoAddress"}
        /\ addrs' \in 0 .. MaxAddrs /\ pos = 0
    <3>1. CASE Resolve
      BY <1>1, <3>1 DEF Typed, Resolve, Exit, TypeOK, SessionAssumption
    <3>2. CASE OutOfAddresses
      BY <1>1, <3>2 DEF Typed, OutOfAddresses, TypeOK, SessionAssumption
    <3> QED BY <1>1, <3>1, <3>2
  <2> QED BY <2>1 DEF Typed, TypeOK, ServerTypeOK, serverVars, ExitCode, Phases
<1>2. CASE TryAddress
  <2>1. Greeting \in Seq(Atoms) /\ Len(Greeting) = 2
    BY DEF Greeting, Atoms, Data
  <2>2. pos = 0 /\ pos' = 0 /\ addrs' \in 0 .. MaxAddrs
    BY <1>2 DEF Typed, TryAddress, TypeOK, SessionAssumption
  <2>3. wire' \in Seq(Atoms) /\ conn' \in {"none", "open", "fin", "shut", "rst"}
    BY <1>2, <2>1 DEF Typed, TryAddress, TypeOK, ServerTypeOK
  <2>4. pos' \in 0 .. Len(wire')
    BY <2>2, <2>3
  <2> QED BY <1>2, <2>2, <2>3, <2>4 DEF Typed, TryAddress, TypeOK, ServerTypeOK, Phases
<1>3. CASE SendCommand
  <2>1. /\ left' \in 0 .. CmdLen /\ c2s' \in Seq(Commands) /\ cmd' = cmd
        /\ cmd \in Commands /\ outcome' \in DOMAIN ExitCode \cup {"none"}
    <3>1. /\ left \in 0 .. CmdLen /\ c2s \in Seq(Commands) /\ cmd \in Commands
          /\ outcome \in DOMAIN ExitCode \cup {"none"}
      BY <1>3 DEF Typed, SendCommand, TypeOK, ServerTypeOK
    <3>2. CASE \E o \in {"SigPipe", "WriteError"} : Exit(o) /\ UNCHANGED c2s
      BY <3>1, <3>2 DEF Exit, ExitCode
    <3>3. CASE /\ \E n \in 1 .. left : left' = left - n
               /\ c2s' \in {c2s, Append(c2s, cmd)}
               /\ UNCHANGED <<cmd, outcome>>
      <4>1. left' \in 0 .. CmdLen
        BY <3>1, <3>3 DEF SessionAssumption
      <4> QED BY <3>1, <3>3, <4>1
    <3> QED BY <1>3, <3>2, <3>3 DEF SendCommand
  <2>2. pc' \in {"send", "recv", "exit"} /\ conn' \in {"none", "open", "fin", "shut", "rst"}
    BY <1>3 DEF Typed, SendCommand, Exit, TypeOK, ServerTypeOK
  <2> QED BY <1>3, <2>1, <2>2 DEF Typed, SendCommand, TypeOK, ServerTypeOK, Phases
<1>4. CASE Dispatch
  BY <1>4 DEF Typed, Dispatch, Exit, Begin, TypeOK, ServerTypeOK, serverVars, ExitCode,
              Phases, Commands, SessionAssumption
<1> QED BY <1>1, <1>2, <1>3, <1>4

\* The steps of the client that read.
LEMMA ReadTyped ==
  ASSUME Typed, ReadResponse \/ RetrieveRead \/ ParseRead \/ ListRead
  PROVE  Typed'
<1>1. /\ pc = "recv" /\ UNCHANGED <<conn, c2s, wire, verdict, served, folder, command, addrs>>
  BY DEF ReadResponse, RetrieveRead, ParseRead, ListRead
<1>2. /\ pos' \in 0 .. Len(wire) /\ fd' \in {"none", "closed", "open"}
      /\ packets' \in Seq(Atoms) /\ buf' \in Seq(Atoms)
  <2>1. /\ pos \in 0 .. Len(wire) /\ fd \in {"none", "closed", "open"}
        /\ packets \in Seq(Atoms) /\ buf \in Seq(Atoms)
    BY DEF Typed, TypeOK, ServerTypeOK
  <2>2. \A n \in ReadSizes : /\ pos + n \in 0 .. Len(wire)
                            /\ packets \o Stored(Chunk(n)) \in Seq(Atoms)
                            /\ buf \o Chunk(n) \in Seq(Atoms)
    <3> TAKE n \in ReadSizes
    <3>1. /\ pos + n \in 0 .. Len(wire) /\ Chunk(n) \in Seq(Atoms)
          /\ Stored(Chunk(n)) \in Seq(Atoms)
      BY ChunkType DEF Typed
    <3> QED BY <2>1, <3>1
  <2>3. CASE ReadResponse
    BY <2>1, <2>2, <2>3 DEF ReadResponse
  <2>4. CASE RetrieveRead
    BY <2>1, <2>2, <2>4 DEF RetrieveRead
  <2>5. CASE ParseRead
    BY <2>1, <2>2, <2>5 DEF ParseRead
  <2>6. CASE ListRead
    BY <2>1, <2>2, <2>6 DEF ListRead
  <2> QED BY <2>3, <2>4, <2>5, <2>6
<1>3. \/ ReadOn
      \/ \E o \in DOMAIN ExitCode : Exit(o)
      \/ \E c \in Commands : Begin(c)
      \/ pc' = "dispatch" /\ UNCHANGED <<cmd, left, outcome>>
  <2>1. CASE ReadResponse
    BY <2>1 DEF ReadResponse, Refusal, ExitCode, Successor, Commands
  <2>2. CASE RetrieveRead
    BY <2>2 DEF RetrieveRead, ExitCode
  <2>3. CASE ParseRead
    BY <2>3 DEF ParseRead, ExitCode
  <2>4. CASE ListRead
    BY <2>4 DEF ListRead, Listing, ExitCode
  <2> QED BY <2>1, <2>2, <2>3, <2>4
<1>4. ServerTypeOK'
  BY <1>1, <1>2 DEF Typed, TypeOK, ServerTypeOK
<1>5. /\ pc' \in {"recv", "exit", "send", "dispatch"} /\ cmd' \in Commands \cup {"GREET"}
      /\ left' \in 0 .. CmdLen /\ outcome' \in DOMAIN ExitCode \cup {"none"}
      /\ pc' = "send" => cmd' \in Commands
  BY <1>1, <1>3 DEF Typed, TypeOK, ReadOn, Exit, Begin, SessionAssumption
<1> QED BY <1>1, <1>2, <1>4, <1>5 DEF Typed, TypeOK, Phases

LEMMA EnvironmentTyped == ASSUME Typed, Server \/ Network PROVE Typed'
<1>1. CASE Server
  <2> DEFINE c == Head(c2s)
  <2>1. c \in Commands /\ Tail(c2s) \in Seq(Commands) /\ c2s' = Tail(c2s)
    BY <1>1 DEF Typed, TypeOK, ServerTypeOK, Server, Serve
  <2>2. PICK s \in Verdicts(c) : \E data \in Literals(c, s) :
          /\ wire' = wire \o Reply(c, s, data)
          /\ verdict' = [verdict EXCEPT ![c] = s]
          /\ served' = [served EXCEPT ![c] = data]
    BY <1>1, Zenon DEF Server, Serve
  <2>3. s \in Statuses
    BY <2>2 DEF Verdicts, Statuses
  <2>4. PICK data \in Literals(c, s) :
          /\ wire' = wire \o Reply(c, s, data)
          /\ verdict' = [verdict EXCEPT ![c] = s]
          /\ served' = [served EXCEPT ![c] = data]
    BY <2>2
  <2>5. data \in Seq(Atoms) /\ Reply(c, s, data) \in Seq(Atoms)
    BY <2>1, <2>3, ReplyTyped
  <2> DEFINE r == Reply(c, s, data)
  <2>6. r \in Seq(Atoms) /\ wire' = wire \o r
    BY <2>4, <2>5
  <2> HIDE DEF r
  <2>7. wire' \in Seq(Atoms) /\ Len(wire) <= Len(wire') /\ pos \in 0 .. Len(wire')
    BY <2>6 DEF Typed, TypeOK, ServerTypeOK
  <2> HIDE DEF c
  <2>8. verdict' \in [Commands -> Statuses \cup {"none"}] /\ served' \in [Commands -> Seq(Atoms)]
    BY <2>1, <2>3, <2>4, <2>5 DEF Typed, TypeOK, ServerTypeOK
  <2>9. UNCHANGED <<conn, pos, folder, clientVars>>
    BY <1>1 DEF Server, Serve
  <2>10. ServerTypeOK'
    BY <2>1, <2>7, <2>8, <2>9 DEF Typed, TypeOK, ServerTypeOK
  <2> QED BY <2>9, <2>10 DEF Typed, TypeOK, clientVars
<1>2. CASE Network
  <2>1. PICK n \in pos .. Len(wire) : wire' = SubSeq(wire, 1, n)
    BY <1>2 DEF Network, Disconnect
  <2>2. wire' \in Seq(Atoms) /\ pos \in 0 .. Len(wire')
    BY <2>1 DEF Typed, TypeOK, ServerTypeOK
  <2> QED BY <1>2, <2>2 DEF Typed, TypeOK, ServerTypeOK, Network, Disconnect, clientVars
<1> QED BY <1>1, <1>2

\* Every variable of a session keeps its type, whatever the literals hold.
THEOREM TypeCorrect == Spec => []TypeOK
<1>1. Init => Typed
  BY InitInv DEF Inv, Flow, Typed, Init, ServerInit
<1>2. ASSUME Typed, [Next]_vars PROVE Typed'
  <2>1. CASE Finished \/ UNCHANGED vars
    BY <1>2, <2>1 DEF Finished, vars, serverVars, clientVars, Typed, TypeOK, ServerTypeOK
  <2> QED BY <1>2, <2>1, StepTyped, ReadTyped, EnvironmentTyped DEF Next, Client
<1>3. Typed => TypeOK
  BY DEF Typed
<1> QED BY <1>1, <1>2, <1>3, PTL DEF Spec

-----------------------------------------------------------------------------
\* A step that ends the process with o, and leaves the decisions alone.
LEMMA ExitConcludes ==
  ASSUME Inv, pc # "exit", UNCHANGED verdict,
         NEW o \in Promise!Outcomes, Exit(o), Promise!Justified(o)
  PROVE  Promise!Next
<1>1. outcome = "none" /\ outcome' = o
  BY DEF Inv, Control, Exit
<1> QED BY <1>1 DEF Promise!Next, Promise!Conclude

\* The results of a session that has fetched its message.
LEMMA FetchedJustified ==
  ASSUME verdict["FETCH"] = "OK", NEW o \in Promise!Fetched
  PROVE  Promise!Justified(o)
BY DEF Promise!Justified, Promise!Fetched

\* Failures of the network need no decision of the server.
LEMMA FailureJustified ==
  ASSUME NEW o \in {"NoAddress", "WriteError", "SigPipe", "ReadError", "Disconnected", "FetchError"}
  PROVE  Promise!Justified(o) /\ o \in Promise!Outcomes
BY DEF Promise!Justified, Promise!Fetched, Promise!Outcomes

\* A step of the server decides the oldest command.
LEMMA ServeDecides == ASSUME Inv, Server PROVE Promise!Next
<1> DEFINE c == Head(c2s)
<1>1. c2s \in Seq(Commands) /\ c2s # <<>> /\ UNCHANGED outcome
  BY DEF Inv, Flow, TypeOK, ServerTypeOK, Server, Serve, clientVars
<1>2. c \in Commands /\ verdict[c] = "none"
  BY <1>1 DEF Inv, Flow, Queue
<1>3. PICK s \in Verdicts(c) : verdict' = [verdict EXCEPT ![c] = s]
  BY Zenon DEF Server, Serve
<1>4. s \in Statuses
  BY <1>3 DEF Verdicts, Statuses
<1>5. s = "OK" => Promise!Grantable(c)
  BY <1>2, <1>3 DEF Verdicts, Promise!Grantable, Commands
<1>6. Promise!Decide(c, s)
  BY <1>1, <1>2, <1>3, <1>5 DEF Promise!Decide
<1> QED BY <1>2, <1>4, <1>6 DEF Promise!Next, Promise!Commands, Promise!Statuses, Commands, Statuses

\* Every step of a session is a step of ImapExchange, or changes neither the
\* decisions nor the outcome.
LEMMA StepImplements ==
  ASSUME Inv, FetchedFirst, HonestPayloads, [Next]_vars PROVE [Promise!Next]_<<verdict, outcome>>
<1>1. CASE Resolve
  <2>1. pc # "exit" /\ UNCHANGED verdict
    BY <1>1 DEF Resolve, serverVars
  <2>2. Exit("NoAddress") \/ UNCHANGED outcome
    BY <1>1 DEF Resolve
  <2> QED BY <2>1, <2>2, ExitConcludes, FailureJustified
<1>2. CASE TryAddress \/ OutOfAddresses
  BY <1>2 DEF TryAddress, OutOfAddresses, serverVars
<1>3. CASE SendCommand
  <2>1. pc # "exit" /\ UNCHANGED verdict
    BY <1>3 DEF SendCommand
  <2>2. Exit("SigPipe") \/ Exit("WriteError") \/ UNCHANGED outcome
    BY <1>3 DEF SendCommand
  <2> QED BY <2>1, <2>2, ExitConcludes, FailureJustified
<1>4. CASE ReadResponse
  <2>1. pc # "exit" /\ UNCHANGED verdict
    BY <1>4 DEF ReadResponse
  <2>2. CASE \/ AtEnd /\ Exit("Disconnected")
             \/ ReadFails /\ Exit("ReadError")
    BY <2>1, <2>2, ExitConcludes, FailureJustified
  <2>3. CASE \E n \in ReadSizes :
               \/ Refusal(Chunk(n)) # "none" /\ Exit(Refusal(Chunk(n)))
               \/ Refusal(Chunk(n)) = "none" /\ Begin(Successor[cmd])
    <3>1. PICK n \in ReadSizes :
               \/ Refusal(Chunk(n)) # "none" /\ Exit(Refusal(Chunk(n)))
               \/ Refusal(Chunk(n)) = "none" /\ Begin(Successor[cmd])
      BY <2>3
    <3>2. CASE Refusal(Chunk(n)) = "none"
      BY <2>1, <3>1, <3>2 DEF Begin
    <3>3. CASE Shows(Chunk(n), "A01", "NOAUTH")
      <4>1. Refusal(Chunk(n)) = "LoginFailure"
        BY <3>3 DEF Refusal
      <4>2. verdict["LOGIN"] = "NOAUTH"
        <5>1. Shows(Chunk(n), Tag["LOGIN"], "NOAUTH")
          BY <3>3 DEF Tag
        <5> QED BY <5>1, AnswerIsVerdict DEF Inv, Flow, Commands, Statuses
      <4>3. Promise!Justified("LoginFailure") /\ "LoginFailure" \in Promise!Outcomes
        BY <4>2 DEF Promise!Justified, Promise!Fetched, Promise!Outcomes
      <4>4. Exit("LoginFailure")
        BY <3>1, <4>1
      <4> QED BY <2>1, <4>3, <4>4, ExitConcludes
    <3>4. CASE ~Shows(Chunk(n), "A01", "NOAUTH") /\ Shows(Chunk(n), "A02", "NO")
      <4>1. Refusal(Chunk(n)) = "FolderNotFound"
        BY <3>4 DEF Refusal
      <4>2. verdict["SELECT"] = "NO"
        <5>1. Shows(Chunk(n), Tag["SELECT"], "NO")
          BY <3>4 DEF Tag
        <5> QED BY <5>1, AnswerIsVerdict DEF Inv, Flow, Commands, Statuses
      <4>3. Promise!Justified("FolderNotFound") /\ "FolderNotFound" \in Promise!Outcomes
        BY <4>2 DEF Promise!Justified, Promise!Fetched, Promise!Outcomes
      <4>4. Exit("FolderNotFound")
        BY <3>1, <4>1
      <4> QED BY <2>1, <4>3, <4>4, ExitConcludes
    <3> QED BY <3>2, <3>3, <3>4 DEF Refusal
  <2> QED BY <1>4, <2>2, <2>3 DEF ReadResponse
<1>5. CASE RetrieveRead
  <2>1. pc # "exit" /\ UNCHANGED verdict
    BY <1>5 DEF RetrieveRead
  <2>2. CASE UNCHANGED outcome
    BY <2>1, <2>2
  <2>3. CASE Exit("FetchError")
    BY <2>1, <2>3, ExitConcludes, FailureJustified
  <2>4. CASE \E n \in ReadSizes : Answer(Chunk(n)) = "refused" /\ Exit("MessageNotFound")
    <3>1. PICK n \in ReadSizes : Answer(Chunk(n)) = "refused" /\ Exit("MessageNotFound")
      BY <2>4
    <3>2. \E s \in {"NO", "BAD"} : Shows(Chunk(n), Tag["FETCH"], s)
      BY <3>1 DEF Answer, Tag
    <3>3. verdict["FETCH"] \in {"NO", "BAD"}
      BY <3>2, AnswerIsVerdict DEF Inv, Flow, Commands, Statuses
    <3>4. Promise!Justified("MessageNotFound") /\ "MessageNotFound" \in Promise!Outcomes
      BY <3>3 DEF Promise!Justified, Promise!Fetched, Promise!Outcomes
    <3> QED BY <2>1, <3>1, <3>4, ExitConcludes
  <2> QED BY <1>5, <2>2, <2>3, <2>4 DEF RetrieveRead, ReadOn
<1>6. CASE Dispatch \/ ParseRead \/ ListRead
  <2>1. pc # "exit" /\ UNCHANGED verdict /\ verdict["FETCH"] = "OK"
    BY <1>6 DEF FetchedFirst, Dispatch, ParseRead, ListRead, serverVars
  <2>2. UNCHANGED outcome \/ \E o \in Promise!Fetched : Exit(o)
    BY <1>6 DEF Dispatch, ParseRead, ListRead, ReadOn, Begin, Listing, Promise!Fetched
  <2>3. Promise!Fetched \subseteq Promise!Outcomes
    BY DEF Promise!Fetched, Promise!Outcomes
  <2> QED BY <2>1, <2>2, <2>3, ExitConcludes, FetchedJustified
<1>7. CASE Server
  BY <1>7, ServeDecides
<1>8. CASE Network \/ Finished \/ UNCHANGED vars
  BY <1>8 DEF Network, Disconnect, Finished, vars, serverVars, clientVars
<1> QED BY <1>1, <1>2, <1>3, <1>4, <1>5, <1>6, <1>7, <1>8 DEF Next, Client

\* A session implements the exchange it promises: it ends once, and only with a
\* result that the decisions of the server justify.
THEOREM Implementation == ASSUME HonestPayloads PROVE Spec => ImplementsExchange
<1>1. Init => Promise!Init
  BY DEF Init, ServerInit, Promise!Init, Promise!Commands, Commands
<1>2. Inv /\ FetchedFirst /\ [Next]_vars => [Promise!Next]_<<verdict, outcome>>
  BY StepImplements
<1> QED BY <1>1, <1>2, Invariance, FetchedBeforeUse, PTL DEF Spec, ImplementsExchange, Promise!Spec

-----------------------------------------------------------------------------
\* The connection has failed or was never made.
Lost == fd # "open" \/ conn # "open"

\* The ends of a run that blame the network, and those that do not.
Blames     == {o \in DOMAIN ExitCode : ExitCode[o] \notin {0, 3, 4}}
BlamesNone == {"LoginFailure", "FolderNotFound", "MessageNotFound", "Mail", "MimePart", "MimeNone",
               "MimeInvalid", "Headers", "NoSubjects", "Subjects", "Nothing"}

LEMMA NoBlame == BlamesNone \cap Blames = {} /\ "none" \notin Blames
BY DEF BlamesNone, Blames, ExitCode

\* Until a run ends it has no outcome, and no connection before it has an address.
Blamed ==
  /\ NetworkErrorsAreReal
  /\ outcome # "none" => pc = "exit" /\ outcome \in DOMAIN ExitCode
  /\ pc = "resolve" => fd # "open"

\* A step that does not end the run, or ends it with o for a reason.
LEMMA ExitBlamed ==
  ASSUME Blamed, pc # "exit", NEW o \in DOMAIN ExitCode, Exit(o), o \in BlamesNone \/ Lost'
  PROVE  Blamed'
<1>1. pc' = "exit" /\ outcome' = o
  BY DEF Exit
<1>2. o \in Blames => Lost'
  BY NoBlame
<1> QED BY <1>1, <1>2 DEF Blamed, NetworkErrorsAreReal, Blames, Lost

LEMMA GoesOnBlamed ==
  ASSUME Blamed, pc # "exit", UNCHANGED outcome, pc' # "resolve" \/ UNCHANGED <<pc, fd>>
  PROVE  Blamed'
<1>1. outcome = "none"
  BY DEF Blamed
<1> QED BY <1>1 DEF Blamed, NetworkErrorsAreReal

\* The steps of the client that write or decide.
LEMMA StepBlamed ==
  ASSUME Blamed, Resolve \/ TryAddress \/ OutOfAddresses \/ SendCommand \/ Dispatch
  PROVE  Blamed'
<1>1. CASE Resolve
  <2>1. pc = "resolve" /\ fd # "open" /\ UNCHANGED fd /\ "NoAddress" \in DOMAIN ExitCode
    BY <1>1 DEF Resolve, Blamed, ExitCode
  <2>2. CASE Exit("NoAddress")
    BY <2>1, <2>2, ExitBlamed DEF Lost
  <2>3. CASE pc' = "connect" /\ UNCHANGED outcome
    BY <2>1, <2>3, GoesOnBlamed
  <2> QED BY <1>1, <2>2, <2>3 DEF Resolve
<1>2. CASE TryAddress \/ OutOfAddresses
  <2>1. pc = "connect" /\ UNCHANGED outcome /\ pc' # "resolve"
    BY <1>2 DEF TryAddress, OutOfAddresses
  <2> QED BY <2>1, GoesOnBlamed
<1>3. CASE SendCommand
  <2>1. pc = "send" /\ UNCHANGED fd /\ {"SigPipe", "WriteError"} \subseteq DOMAIN ExitCode
    BY <1>3 DEF SendCommand, ExitCode
  <2>2. CASE \E o \in {"SigPipe", "WriteError"} : Exit(o) /\ conn' \in {"shut", "rst"}
    BY <2>1, <2>2, ExitBlamed DEF Lost
  <2>3. CASE pc' \in {"send", "recv"} /\ UNCHANGED outcome
    BY <2>1, <2>3, GoesOnBlamed
  <2> QED BY <1>3, <2>2, <2>3 DEF SendCommand
<1>4. CASE Dispatch
  <2>1. pc = "dispatch" /\ BlamesNone \subseteq DOMAIN ExitCode
    BY <1>4 DEF Dispatch, BlamesNone, ExitCode
  <2>2. CASE \E o \in BlamesNone : Exit(o)
    BY <2>1, <2>2, ExitBlamed
  <2>3. CASE pc' = "send" /\ UNCHANGED outcome
    BY <2>1, <2>3, GoesOnBlamed
  <2> QED BY <1>4, <2>2, <2>3 DEF Dispatch, Begin, BlamesNone
<1> QED BY <1>1, <1>2, <1>3, <1>4

\* The steps that read: only a read that fails, or finds the end, blames the network.
LEMMA ReadBlamed ==
  ASSUME Blamed, ReadResponse \/ RetrieveRead \/ ParseRead \/ ListRead
  PROVE  Blamed'
<1>1. pc = "recv" /\ UNCHANGED conn
  BY DEF ReadResponse, RetrieveRead, ParseRead, ListRead
<1>2. \/ ReadOn
      \/ pc' \in {"send", "dispatch"} /\ UNCHANGED outcome
      \/ \E o \in DOMAIN ExitCode : Exit(o) /\ (o \in BlamesNone \/ Lost')
  <2>1. CASE ReadResponse
    BY <2>1, <1>1 DEF ReadResponse, Begin, Refusal, ReadFails, AtEnd, BlamesNone, ExitCode, Lost
  <2>2. CASE RetrieveRead
    BY <2>2, <1>1 DEF RetrieveRead, ReadFails, BlamesNone, ExitCode, Lost
  <2>3. CASE ParseRead
    BY <2>3, <1>1 DEF ParseRead, ReadFails, BlamesNone, ExitCode, Lost
  <2>4. CASE ListRead
    BY <2>4, <1>1 DEF ListRead, Listing, AtEnd, ReadFails, BlamesNone, ExitCode, Lost
  <2> QED BY <2>1, <2>2, <2>3, <2>4
<1>3. CASE ReadOn
  BY <1>1, <1>3, GoesOnBlamed DEF ReadOn
<1>4. CASE pc' \in {"send", "dispatch"} /\ UNCHANGED outcome
  BY <1>1, <1>4, GoesOnBlamed
<1>5. CASE \E o \in DOMAIN ExitCode : Exit(o) /\ (o \in BlamesNone \/ Lost')
  BY <1>1, <1>5, ExitBlamed
<1> QED BY <1>2, <1>3, <1>4, <1>5

\* The status of a run, and a crash, never blame a network that did nothing: for every
\* literal, cut of the stream and loss (error() and exit() in imap_client.c, handle_sigpipe()).
THEOREM BlamesRightly == Spec => []NetworkErrorsAreReal
<1>1. Init => Blamed
  BY DEF Init, Blamed, NetworkErrorsAreReal
<1>2. ASSUME Blamed, [Next]_vars PROVE Blamed'
  <2>1. CASE Server \/ Network
    BY <1>2, <2>1, GoesOnBlamed DEF Server, Network, clientVars
  <2>2. CASE Finished \/ UNCHANGED vars
    BY <1>2, <2>2 DEF Finished, vars, serverVars, clientVars, Blamed, NetworkErrorsAreReal
  <2> QED BY <1>2, <2>1, <2>2, StepBlamed, ReadBlamed DEF Next, Client
<1>3. Blamed => NetworkErrorsAreReal
  BY DEF Blamed
<1> QED BY <1>1, <1>2, <1>3, PTL DEF Spec

-----------------------------------------------------------------------------
\* The recursion of WithoutPlus: what is left of the first n atoms of b.
Kept(b) ==
  CHOOSE f : f = [n \in 0 .. Len(b) |->
                    IF n = 0 THEN <<>>
                    ELSE IF b[n] = "+" THEN f[n - 1] ELSE Append(f[n - 1], b[n])]

\* The values of a function that follows the recursion up to m.
Follows(f, b, m) ==
  /\ f[0] = <<>>
  /\ \A n \in 1 .. m : f[n] = IF b[n] = "+" THEN f[n - 1] ELSE Append(f[n - 1], b[n])

\* There is such a function, for every length.
LEMMA KeptExists ==
  ASSUME NEW S, NEW b \in Seq(S)
  PROVE  \E f : f = [n \in 0 .. Len(b) |->
                       IF n = 0 THEN <<>>
                       ELSE IF b[n] = "+" THEN f[n - 1] ELSE Append(f[n - 1], b[n])]
<1> DEFINE Good(m, f) == f = [n \in 0 .. m |-> f[n]] /\ Follows(f, b, m)
           Bad == {m \in 0 .. Len(b) : ~\E f : Good(m, f)}
<1>0. Len(b) \in Nat
  OBVIOUS
<1>1. ASSUME Bad # {} PROVE FALSE
  <2>1. Bad \subseteq Nat
    BY <1>0
  <2>2. PICK m \in Bad : \A y \in Bad : m <= y
    BY <1>1, <2>1, LeastNat
  <2>3. m \in 0 .. Len(b) /\ ~\E f : Good(m, f)
    BY <2>2
  <2>4. CASE m = 0
    <3> DEFINE g == [n \in 0 .. 0 |-> <<>>]
    <3>1. g[0] = <<>> /\ g = [n \in 0 .. 0 |-> g[n]]
      OBVIOUS
    <3>2. Follows(g, b, 0)
      BY <3>1 DEF Follows
    <3> QED BY <2>3, <2>4, <3>1, <3>2
  <2>5. CASE m # 0
    <3>1. m - 1 \in 0 .. Len(b) /\ m - 1 \notin Bad /\ m \in Nat \ {0}
      BY <1>0, <2>2, <2>3, <2>5
    <3>2. PICK f : Good(m - 1, f)
      BY <3>1
    <3> DEFINE v == IF b[m] = "+" THEN f[m - 1] ELSE Append(f[m - 1], b[m])
               g == [n \in 0 .. m |-> IF n = m THEN v ELSE f[n]]
    <3>3. g = [n \in 0 .. m |-> g[n]] /\ g[m] = v /\ \A n \in 0 .. m - 1 : g[n] = f[n]
      BY <3>1
    <3>4. f[0] = <<>> /\ \A n \in 1 .. m - 1 :
             f[n] = IF b[n] = "+" THEN f[n - 1] ELSE Append(f[n - 1], b[n])
      BY <3>2 DEF Follows
    <3>5. g[m] = IF b[m] = "+" THEN g[m - 1] ELSE Append(g[m - 1], b[m])
      <4>1. g[m - 1] = f[m - 1]
        BY <3>1, <3>3
      <4> QED BY <3>3, <4>1
    <3> HIDE DEF g, v
    <3>6. ASSUME NEW n \in 1 .. m
          PROVE  g[n] = IF b[n] = "+" THEN g[n - 1] ELSE Append(g[n - 1], b[n])
      <4>1. CASE n = m
        BY <3>5, <4>1
      <4>2. CASE n # m
        <5>1. n \in 1 .. m - 1 /\ n \in 0 .. m - 1 /\ n - 1 \in 0 .. m - 1
          BY <3>1, <4>2
        <5>2. g[n] = f[n] /\ g[n - 1] = f[n - 1]
          BY <3>3, <5>1
        <5> QED BY <3>4, <5>1, <5>2
      <4> QED BY <4>1, <4>2
    <3>7. g[0] = <<>>
      <4>1. 0 \in 0 .. m - 1
        BY <3>1
      <4> QED BY <3>3, <3>4, <4>1
    <3>8. Follows(g, b, m)
      BY <3>6, <3>7 DEF Follows
    <3> QED BY <2>3, <3>3, <3>8
  <2> QED BY <2>4, <2>5
<1>2. Len(b) \notin Bad
  BY <1>1
<1>3. PICK f : Good(Len(b), f)
  BY <1>0, <1>2
<1> DEFINE h == [n \in 0 .. Len(b) |->
                   IF n = 0 THEN <<>>
                   ELSE IF b[n] = "+" THEN f[n - 1] ELSE Append(f[n - 1], b[n])]
<1>4. \A n \in 0 .. Len(b) : f[n] = h[n]
  BY <1>0, <1>3 DEF Follows
<1>5. f = h
  BY <1>3, <1>4
<1> QED BY <1>5

\* WithoutPlus unrolled.
LEMMA KeptProperties ==
  ASSUME NEW S, NEW b \in Seq(S)
  PROVE  Follows(Kept(b), b, Len(b)) /\ WithoutPlus(b) = Kept(b)[Len(b)]
<1> DEFINE k == Kept(b)
<1>1. k = [n \in 0 .. Len(b) |->
             IF n = 0 THEN <<>>
             ELSE IF b[n] = "+" THEN k[n - 1] ELSE Append(k[n - 1], b[n])]
  BY KeptExists DEF Kept
<1>2. Len(b) \in Nat
  OBVIOUS
<1>3. WithoutPlus(b) = k[Len(b)]
  BY DEF WithoutPlus, Kept
<1> HIDE DEF k
<1> DEFINE body(n) == IF n = 0 THEN <<>>
                      ELSE IF b[n] = "+" THEN k[n - 1] ELSE Append(k[n - 1], b[n])
<1>4. \A n \in 0 .. Len(b) : k[n] = body(n)
  <2>1. k = [n \in 0 .. Len(b) |-> body(n)]
    BY <1>1
  <2> HIDE DEF body
  <2> QED BY <2>1
<1>5. k[0] = <<>>
  BY <1>2, <1>4
<1>6. ASSUME NEW n \in 1 .. Len(b)
      PROVE  k[n] = IF b[n] = "+" THEN k[n - 1] ELSE Append(k[n - 1], b[n])
  <2>1. n \in 0 .. Len(b) /\ n # 0
    BY <1>2
  <2> QED BY <1>4, <2>1
<1>7. Follows(k, b, Len(b))
  BY <1>5, <1>6 DEF Follows
<1> QED BY <1>3, <1>7 DEF k

\* Induction over the numbers up to m, for a set of numbers.
LEMMA UpTo ==
  ASSUME NEW m \in Nat, NEW T, 0 \in T, \A n \in 0 .. m - 1 : n \in T => n + 1 \in T
  PROVE  \A n \in 0 .. m : n \in T
<1> DEFINE Bad == {n \in 0 .. m : n \notin T}
<1>0. Bad \subseteq Nat
  OBVIOUS
<1>1. ASSUME Bad # {} PROVE FALSE
  <2>1. PICK n \in Bad : \A y \in Bad : n <= y
    BY <1>0, <1>1, LeastNat
  <2>2. n \in 0 .. m /\ n # 0 /\ n \notin T
    BY <2>1
  <2>3. n - 1 \in 0 .. m - 1 /\ n - 1 \in 0 .. m /\ (n - 1) + 1 = n /\ ~(n <= n - 1)
    BY <2>2
  <2>4. n - 1 \in T
    BY <2>1, <2>3
  <2> QED BY <2>2, <2>3, <2>4
<1> QED BY <1>1

\* What is left is of the same atoms, none of them a "+".
LEMMA ThinType ==
  ASSUME NEW S, NEW b \in Seq(S)
  PROVE  /\ WithoutPlus(b) \in Seq(S)
         /\ \A i \in 1 .. Len(WithoutPlus(b)) :
              /\ WithoutPlus(b)[i] # "+"
              /\ \E j \in 1 .. Len(b) : WithoutPlus(b)[i] = b[j]
<1> DEFINE k == Kept(b)
           Fine(s) == /\ s \in Seq(S)
                      /\ \A i \in 1 .. Len(s) : s[i] # "+" /\ \E j \in 1 .. Len(b) : s[i] = b[j]
           T == {n \in 0 .. Len(b) : Fine(k[n])}
<1>1. /\ k[0] = <<>> /\ WithoutPlus(b) = k[Len(b)] /\ Len(b) \in Nat
      /\ \A n \in 1 .. Len(b) : k[n] = IF b[n] = "+" THEN k[n - 1] ELSE Append(k[n - 1], b[n])
  BY KeptProperties DEF Follows
<1> HIDE DEF k
<1>2. 0 \in T
  <2>1. Fine(<<>>)
    OBVIOUS
  <2> HIDE DEF Fine
  <2> QED BY <1>1, <2>1
<1>3. ASSUME NEW n \in 0 .. Len(b) - 1, n \in T PROVE n + 1 \in T
  <2>1. n + 1 \in 1 .. Len(b) /\ (n + 1) - 1 = n /\ n + 1 \in 0 .. Len(b)
    BY <1>1
  <2>2. k[n + 1] = IF b[n + 1] = "+" THEN k[n] ELSE Append(k[n], b[n + 1])
    BY <1>1, <2>1
  <2> DEFINE u == k[n]
             v == k[n + 1]
  <2>3. Fine(u)
    BY <1>3
  <2>4. v = IF b[n + 1] = "+" THEN u ELSE Append(u, b[n + 1])
    BY <2>2
  <2> HIDE DEF u, v
  <2>5. CASE b[n + 1] = "+"
    BY <1>3, <2>1, <2>3, <2>4, <2>5 DEF u, v
  <2>6. CASE b[n + 1] # "+"
    <3>1. b[n + 1] \in S
      BY <2>1
    <3>2. v \in Seq(S) /\ Len(v) = Len(u) + 1 /\ Len(u) \in Nat /\ v[Len(u) + 1] = b[n + 1]
          /\ \A i \in 1 .. Len(u) : v[i] = u[i]
      BY <2>3, <2>4, <2>6, <3>1
    <3>3. ASSUME NEW i \in 1 .. Len(v) PROVE v[i] # "+" /\ \E j \in 1 .. Len(b) : v[i] = b[j]
      <4>1. CASE i = Len(u) + 1
        BY <2>1, <2>6, <3>2, <4>1
      <4>2. CASE i # Len(u) + 1
        <5>1. i \in 1 .. Len(u) /\ v[i] = u[i]
          BY <3>2, <4>2
        <5> QED BY <2>3, <5>1
      <4> QED BY <4>1, <4>2
    <3>4. Fine(v)
      BY <3>2, <3>3
    <3> HIDE DEF Fine
    <3> QED BY <2>1, <3>4 DEF v
  <2> QED BY <2>5, <2>6
<1>4. Len(b) \in T
  <2> HIDE DEF T
  <2>1. \A n \in 0 .. Len(b) : n \in T
    BY <1>1, <1>2, <1>3, UpTo
  <2> QED BY <1>1, <2>1
<1> QED BY <1>1, <1>4

\* The recursion over a concatenation goes on where the recursion over its first
\* part ended.
LEMMA ThinCat ==
  ASSUME NEW S, NEW a \in Seq(S), NEW b \in Seq(S)
  PROVE  WithoutPlus(a \o b) = WithoutPlus(a) \o WithoutPlus(b)
<1> DEFINE r == a \o b
           k == Kept(a)
           l == Kept(b)
           h == Kept(r)
           m == Len(a)
<1>1. r \in Seq(S) /\ r = a \o b
  OBVIOUS
<1>2. /\ k[0] = <<>> /\ WithoutPlus(a) = k[m]
      /\ \A n \in 1 .. m : k[n] = IF a[n] = "+" THEN k[n - 1] ELSE Append(k[n - 1], a[n])
  BY KeptProperties DEF Follows
<1>3. /\ l[0] = <<>> /\ WithoutPlus(b) = l[Len(b)]
      /\ \A n \in 1 .. Len(b) : l[n] = IF b[n] = "+" THEN l[n - 1] ELSE Append(l[n - 1], b[n])
  BY KeptProperties DEF Follows
<1>4. /\ h[0] = <<>> /\ WithoutPlus(r) = h[Len(r)]
      /\ \A n \in 1 .. Len(r) : h[n] = IF r[n] = "+" THEN h[n - 1] ELSE Append(h[n - 1], r[n])
  <2> HIDE DEF r
  <2> QED BY <1>1, KeptProperties DEF Follows
<1> HIDE DEF r, k, l, h
<1>5. /\ m \in Nat /\ Len(b) \in Nat /\ Len(r) = m + Len(b)
      /\ \A i \in 1 .. m : r[i] = a[i]
      /\ \A i \in 1 .. Len(b) : r[m + i] = b[i]
  BY <1>1, Cat
<1>6. WithoutPlus(a) \in Seq(S)
  BY ThinType
<1> HIDE DEF m
<1>7. h[m] = k[m]
  <2> DEFINE T == {n \in 0 .. m : h[n] = k[n]}
  <2>1. 0 \in T
    BY <1>2, <1>4, <1>5
  <2>2. ASSUME NEW n \in 0 .. m - 1, n \in T PROVE n + 1 \in T
    <3>1. n + 1 \in 1 .. m /\ n + 1 \in 1 .. Len(r) /\ (n + 1) - 1 = n /\ n + 1 \in 0 .. m
      BY <1>5
    <3>2. h[n + 1] = IF r[n + 1] = "+" THEN h[n] ELSE Append(h[n], r[n + 1])
      BY <1>4, <3>1
    <3>3. k[n + 1] = IF a[n + 1] = "+" THEN k[n] ELSE Append(k[n], a[n + 1])
      BY <1>2, <3>1
    <3>4. r[n + 1] = a[n + 1] /\ h[n] = k[n]
      BY <1>5, <2>2, <3>1
    <3> QED BY <3>1, <3>2, <3>3, <3>4
  <2> HIDE DEF T
  <2>3. \A n \in 0 .. m : n \in T
    BY <1>5, <2>1, <2>2, UpTo
  <2> QED BY <1>5, <2>3 DEF T
<1>8. h[m + Len(b)] = k[m] \o l[Len(b)]
  <2> DEFINE T == {n \in 0 .. Len(b) : l[n] \in Seq(S) /\ h[m + n] = k[m] \o l[n]}
  <2>1. 0 \in T
    <3>1. k[m] \o <<>> = k[m] /\ m + 0 = m /\ 0 \in 0 .. Len(b) /\ <<>> \in Seq(S)
      BY <1>2, <1>5, <1>6, ConcatEmptySeq
    <3>2. h[m + 0] = k[m] \o l[0] /\ l[0] \in Seq(S)
      BY <1>3, <1>7, <3>1
    <3> QED BY <3>1, <3>2
  <2>2. ASSUME NEW n \in 0 .. Len(b) - 1, n \in T PROVE n + 1 \in T
    <3>1. /\ n + 1 \in 1 .. Len(b) /\ m + (n + 1) \in 1 .. Len(r) /\ (n + 1) - 1 = n
          /\ (m + (n + 1)) - 1 = m + n /\ n + 1 \in 0 .. Len(b)
      BY <1>5
    <3>2. h[m + (n + 1)] = IF r[m + (n + 1)] = "+" THEN h[m + n]
                           ELSE Append(h[m + n], r[m + (n + 1)])
      BY <1>4, <3>1
    <3>3. l[n + 1] = IF b[n + 1] = "+" THEN l[n] ELSE Append(l[n], b[n + 1])
      BY <1>3, <3>1
    <3>4. r[m + (n + 1)] = b[n + 1] /\ h[m + n] = k[m] \o l[n] /\ l[n] \in Seq(S)
      BY <1>5, <2>2, <3>1
    <3>5. b[n + 1] \in S /\ k[m] \in Seq(S)
      BY <1>2, <1>6, <3>1
    <3> DEFINE u == k[m]
               v == l[n]
               x == b[n + 1]
    <3>6. Append(k[m] \o l[n], b[n + 1]) = k[m] \o Append(l[n], b[n + 1])
      <4>1. u \in Seq(S) /\ v \in Seq(S) /\ x \in S
        BY <3>4, <3>5
      <4> HIDE DEF u, v, x
      <4>2. u \o v \in Seq(S) /\ <<x>> \in Seq(S)
        BY <4>1
      <4>3. Append(u \o v, x) = (u \o v) \o <<x>> /\ Append(v, x) = v \o <<x>>
        BY <4>1, <4>2, AppendIsConcat
      <4>4. (u \o v) \o <<x>> = u \o (v \o <<x>>)
        BY <4>1, <4>2, ConcatAssociative, SMTT(30)
      <4>5. Append(u \o v, x) = u \o Append(v, x)
        BY <4>3, <4>4
      <4> QED BY <4>5 DEF u, v, x
    <3>7. Append(l[n], b[n + 1]) \in Seq(S)
      BY <3>4, <3>5
    <3> QED BY <3>1, <3>2, <3>3, <3>4, <3>6, <3>7
  <2> HIDE DEF T
  <2>3. \A n \in 0 .. Len(b) : n \in T
    BY <1>5, <2>1, <2>2, UpTo
  <2>4. Len(b) \in T
    BY <1>5, <2>3
  <2> QED BY <2>4 DEF T
<1> QED BY <1>2, <1>3, <1>4, <1>5, <1>8 DEF r

\* The shortest sequences.
LEMMA ThinShort ==
  ASSUME NEW S, NEW x \in S
  PROVE  /\ WithoutPlus(<<>>) = <<>>
         /\ WithoutPlus(<<x>>) = IF x = "+" THEN <<>> ELSE <<x>>
<1>1. WithoutPlus(<<>>) = <<>>
  <2> DEFINE b == <<>>
  <2>1. b \in Seq(S) /\ Len(b) = 0
    OBVIOUS
  <2>2. Follows(Kept(b), b, Len(b)) /\ WithoutPlus(b) = Kept(b)[Len(b)]
    BY <2>1, KeptProperties
  <2> QED BY <2>1, <2>2 DEF Follows
<1>2. WithoutPlus(<<x>>) = IF x = "+" THEN <<>> ELSE <<x>>
  <2> DEFINE b == <<x>>
             k == Kept(b)
  <2>1. b \in Seq(S) /\ Len(b) = 1 /\ b[1] = x
    OBVIOUS
  <2> HIDE DEF b, k
  <2>2. Follows(k, b, Len(b)) /\ WithoutPlus(b) = k[Len(b)]
    BY <2>1, KeptProperties DEF k
  <2>3. k[0] = <<>> /\ k[1] = IF b[1] = "+" THEN k[1 - 1] ELSE Append(k[1 - 1], b[1])
    BY <2>1, <2>2 DEF Follows
  <2>4. Append(<<>>, x) = <<x>>
    OBVIOUS
  <2>5. WithoutPlus(b) = IF x = "+" THEN <<>> ELSE <<x>>
    <3>1. WithoutPlus(b) = k[1] /\ k[1 - 1] = <<>> /\ b[1] = x
      BY <2>1, <2>2, <2>3
    <3> QED BY <2>3, <2>4, <3>1
  <2> QED BY <2>5 DEF b
<1> QED BY <1>1, <1>2

\* Atom a is in b.
Has(b, a) == \E i \in 1 .. Len(b) : b[i] = a

\* A sequence around one of its atoms.
LEMMA Around ==
  ASSUME NEW S, NEW b \in Seq(S), NEW j \in 1 .. Len(b)
  PROVE  /\ SubSeq(b, 1, j - 1) \in Seq(S) /\ SubSeq(b, j + 1, Len(b)) \in Seq(S) /\ b[j] \in S
         /\ b = (SubSeq(b, 1, j - 1) \o <<b[j]>>) \o SubSeq(b, j + 1, Len(b))
         /\ b[j] # "+" =>
              WithoutPlus(b) = (WithoutPlus(SubSeq(b, 1, j - 1)) \o <<b[j]>>)
                                 \o WithoutPlus(SubSeq(b, j + 1, Len(b)))
<1> DEFINE u == SubSeq(b, 1, j - 1)
           v == SubSeq(b, j + 1, Len(b))
           x == b[j]
           c == SubSeq(b, 1, j)
<1>1. u \in Seq(S) /\ v \in Seq(S) /\ x \in S /\ c \in Seq(S) /\ Len(b) \in Nat
  OBVIOUS
<1>2. c = u \o <<x>>
  <2>1. 1 \in 1 .. Len(b) /\ j \in 1 .. Len(b)
    BY <1>1
  <2> QED BY <2>1, SubSeqRecursiveSecond
<1>3. c \o v = b
  <2>1. 1 \in 1 .. Len(b) + 1 /\ j \in (1 - 1) .. Len(b) /\ Len(b) \in j .. Len(b)
    BY <1>1
  <2>2. SubSeq(b, 1, j) \o SubSeq(b, j + 1, Len(b)) = SubSeq(b, 1, Len(b))
    BY <2>1, ConcatAdjacentSubSeq
  <2>3. SubSeq(b, 1, Len(b)) = b
    BY SubSeqFull
  <2> QED BY <2>2, <2>3
<1> HIDE DEF u, v, x, c
<1>4. b = (u \o <<x>>) \o v
  BY <1>2, <1>3
<1>5. ASSUME x # "+"
      PROVE  WithoutPlus(b) = (WithoutPlus(u) \o <<x>>) \o WithoutPlus(v)
  <2>1. WithoutPlus(<<x>>) = <<x>> /\ <<x>> \in Seq(S)
    BY <1>1, <1>5, ThinShort
  <2>2. WithoutPlus(c) = WithoutPlus(u) \o WithoutPlus(<<x>>)
    BY <1>1, <1>2, <2>1, ThinCat
  <2>3. WithoutPlus(c \o v) = WithoutPlus(c) \o WithoutPlus(v)
    BY <1>1, ThinCat
  <2> QED BY <1>3, <2>1, <2>2, <2>3
<1> QED BY <1>1, <1>4, <1>5 DEF u, v, x

\* r is x, then the atom a, then y.
Joins(r, x, a, y) == r = (x \o <<a>>) \o y

\* Two ways to see a sequence around an atom are one, when the atom is the first of
\* its kind in both, the last in both, or the only one in one of them.
LEMMA OneSplit ==
  ASSUME NEW S, NEW x \in Seq(S), NEW y \in Seq(S), NEW u \in Seq(S), NEW v \in Seq(S), NEW a \in S,
         NEW r0, Joins(r0, x, a, y), Joins(r0, u, a, v),
         \/ ~Has(x, a) /\ ~Has(u, a)
         \/ ~Has(u, a) /\ ~Has(v, a)
         \/ ~Has(y, a) /\ ~Has(v, a)
  PROVE  x = u /\ y = v
<1> DEFINE e == <<a>>
           r == (x \o e) \o y
           xe == x \o e
           ue == u \o e
<1>0. e \in Seq(S) /\ Len(e) = 1 /\ e[1] = a
  OBVIOUS
<1>1. xe = x \o e /\ ue = u \o e
  OBVIOUS
<1>1a. r = xe \o y
  OBVIOUS
<1>1b. r = ue \o v
  BY DEF Joins
<1> HIDE DEF e, r, xe, ue
<1>0a. e \in Seq(S) /\ x \in Seq(S) /\ u \in Seq(S) /\ y \in Seq(S) /\ v \in Seq(S)
  BY <1>0
<1>2. /\ xe \in Seq(S) /\ Len(x) \in Nat /\ Len(xe) = Len(x) + Len(e)
      /\ \A i \in 1 .. Len(x) : xe[i] = x[i]
      /\ \A i \in 1 .. Len(e) : xe[Len(x) + i] = e[i]
  BY <1>0a, <1>1, Cat
<1>3. /\ ue \in Seq(S) /\ Len(u) \in Nat /\ Len(ue) = Len(u) + Len(e)
      /\ \A i \in 1 .. Len(u) : ue[i] = u[i]
      /\ \A i \in 1 .. Len(e) : ue[Len(u) + i] = e[i]
  BY <1>0a, <1>1, Cat
<1>3a. xe \in Seq(S) /\ ue \in Seq(S)
  BY <1>2, <1>3
<1>4. /\ r \in Seq(S) /\ Len(y) \in Nat /\ Len(r) = Len(xe) + Len(y)
      /\ \A i \in 1 .. Len(xe) : r[i] = xe[i]
      /\ \A i \in 1 .. Len(y) : r[Len(xe) + i] = y[i]
  BY <1>0a, <1>1a, <1>3a, Cat
<1>5. /\ r \in Seq(S) /\ Len(v) \in Nat /\ Len(r) = Len(ue) + Len(v)
      /\ \A i \in 1 .. Len(ue) : r[i] = ue[i]
      /\ \A i \in 1 .. Len(v) : r[Len(ue) + i] = v[i]
  BY <1>0a, <1>1b, <1>3a, Cat
<1> DEFINE m == Len(x)
           n == Len(u)
<1>6. /\ Len(xe) = m + 1 /\ Len(ue) = n + 1 /\ m \in Nat /\ n \in Nat
      /\ Len(r) = m + 1 + Len(y) /\ Len(r) = n + 1 + Len(v)
  BY <1>0, <1>2, <1>3, <1>4, <1>5
<1>7. /\ \A i \in 1 .. m : r[i] = x[i]
      /\ \A i \in 1 .. n : r[i] = u[i]
      /\ r[m + 1] = a /\ r[n + 1] = a
  <2>1. xe[m + 1] = a /\ ue[n + 1] = a
    BY <1>0, <1>2, <1>3
  <2>2. m + 1 \in 1 .. Len(xe) /\ n + 1 \in 1 .. Len(ue)
        /\ (\A i \in 1 .. m : i \in 1 .. Len(xe)) /\ (\A i \in 1 .. n : i \in 1 .. Len(ue))
    BY <1>6
  <2>3. \A i \in 1 .. m : r[i] = x[i]
    BY <1>2, <1>4, <2>2
  <2>4. \A i \in 1 .. n : r[i] = u[i]
    BY <1>3, <1>5, <2>2
  <2>5. r[m + 1] = a /\ r[n + 1] = a
    BY <1>4, <1>5, <2>1, <2>2
  <2> QED BY <2>3, <2>4, <2>5
<1>8. /\ \A i \in 1 .. Len(y) : r[m + 1 + i] = y[i]
      /\ \A i \in 1 .. Len(v) : r[n + 1 + i] = v[i]
  BY <1>4, <1>5, <1>6
<1> HIDE DEF m, n
<1>9. m < n => Has(u, a) /\ Has(y, a)
  <2>1. ASSUME m < n PROVE m + 1 \in 1 .. n /\ n - m \in 1 .. Len(y) /\ n + 1 = m + 1 + (n - m)
    BY <1>4, <1>5, <1>6, <2>1
  <2>2. m < n => u[m + 1] = a /\ y[n - m] = a
    BY <1>7, <1>8, <2>1
  <2> QED BY <2>1, <2>2 DEF Has, n
<1>10. n < m => Has(x, a) /\ Has(v, a)
  <2>1. ASSUME n < m PROVE n + 1 \in 1 .. m /\ m - n \in 1 .. Len(v) /\ m + 1 = n + 1 + (m - n)
    BY <1>4, <1>5, <1>6, <2>1
  <2>2. n < m => x[n + 1] = a /\ v[m - n] = a
    BY <1>7, <1>8, <2>1
  <2> QED BY <2>1, <2>2 DEF Has, m
<1>11. m = n
  BY <1>6, <1>9, <1>10
<1>12. x = u
  BY <1>7, <1>11, SeqEqual DEF m, n
<1>13. y = v
  <2>1. Len(y) = Len(v)
    BY <1>4, <1>5, <1>6, <1>11
  <2> QED BY <1>8, <1>11, <2>1, SeqEqual
<1> QED BY <1>12, <1>13

\* A sequence that is found from position k on is within the other.
LEMMA WithinAt ==
  ASSUME NEW S, NEW s \in Seq(S), NEW r \in Seq(S), NEW k \in Nat, k + Len(s) <= Len(r),
         \A i \in 1 .. Len(s) : r[k + i] = s[i]
  PROVE  Within(s, r)
<1> DEFINE t == SubSeq(r, k + 1, k + Len(s))
<1>1. Len(s) \in Nat /\ Len(r) \in Nat /\ k \in 0 .. Len(r) - Len(s)
  OBVIOUS
<1>2. t \in Seq(S) /\ Len(t) = Len(s) /\ \A i \in 1 .. Len(s) : t[i] = r[k + i]
  BY <1>1
<1> HIDE DEF t
<1>3. t = s
  BY <1>2, SeqEqual
<1> QED BY <1>1, <1>3 DEF Within, t

\* A sequence is within any concatenation it is a part of.
LEMMA WithinCat ==
  ASSUME NEW S, NEW s \in Seq(S), NEW x \in Seq(S), NEW y \in Seq(S)
  PROVE  Within(s, (x \o s) \o y)
<1> DEFINE xs == x \o s
           r == xs \o y
<1>1. xs = x \o s /\ r = xs \o y
  OBVIOUS
<1> HIDE DEF xs, r
<1>2. /\ xs \in Seq(S) /\ Len(x) \in Nat /\ Len(s) \in Nat /\ Len(xs) = Len(x) + Len(s)
      /\ \A i \in 1 .. Len(s) : xs[Len(x) + i] = s[i]
  BY <1>1, Cat
<1>3. /\ r \in Seq(S) /\ Len(y) \in Nat /\ Len(r) = Len(xs) + Len(y)
      /\ \A i \in 1 .. Len(xs) : r[i] = xs[i]
  BY <1>1, <1>2, Cat
<1>4. \A i \in 1 .. Len(s) : r[Len(x) + i] = s[i]
  BY <1>2, <1>3
<1>5. Within(s, r)
  BY <1>2, <1>3, <1>4, WithinAt
<1> QED BY <1>1, <1>5

-----------------------------------------------------------------------------
\* What print_list_retrieve() finds: the first line end, the first marker, and the
\* line ends that end a text.
LEMMA AfterFirstAt ==
  ASSUME NEW S, NEW b \in Seq(S), NEW a, Has(b, a)
  PROVE  \E k \in 1 .. Len(b) :
           /\ b[k] = a /\ \A j \in 1 .. k - 1 : b[j] # a
           /\ AfterFirst(b, a) = SubSeq(b, k + 1, Len(b))
<1> DEFINE T == {k \in 1 .. Len(b) : b[k] = a}
<1>1. T \subseteq Nat /\ T # {} /\ Len(b) \in Nat
  BY DEF Has
<1>2. PICK k \in T : \A y \in T : k <= y
  BY <1>1, LeastNat
<1>3. k \in 1 .. Len(b) /\ b[k] = a
  BY <1>2
<1>4. \A j \in 1 .. k - 1 : b[j] # a
  <2>1. ASSUME NEW j \in 1 .. k - 1, b[j] = a PROVE FALSE
    <3>1. j \in T /\ ~(k <= j)
      BY <1>1, <1>3, <2>1
    <3> QED BY <1>2, <3>1
  <2> QED BY <2>1
<1>5. \E i \in 1 .. Len(b) : b[i] = a /\ \A j \in 1 .. i - 1 : b[j] # a
  BY <1>3, <1>4
<1> QED BY <1>5 DEF AfterFirst

LEMMA UpToMarkerAt ==
  ASSUME NEW S, NEW b \in Seq(S), Shows(b, "A03", "OK")
  PROVE  \E k \in 1 .. Len(b) - 1 :
           /\ b[k] = "A03" /\ b[k + 1] = "OK" /\ UpToMarker(b) = SubSeq(b, 1, k - 1)
<1> DEFINE T == {k \in 1 .. Len(b) - 1 : b[k] = "A03" /\ b[k + 1] = "OK"}
<1>0. PICK i \in 1 .. Len(b) - 1 : b[i] = "A03" /\ b[i + 1] = "OK"
  BY DEF Shows
<1>0a. i \in T /\ Len(b) \in Nat
  BY <1>0
<1>0b. T \subseteq Nat
  BY <1>0a
<1>1. T \subseteq Nat /\ T # {} /\ Len(b) \in Nat
  BY <1>0a, <1>0b
<1>2. PICK k \in T : \A y \in T : k <= y
  BY <1>1, LeastNat
<1>3. k \in 1 .. Len(b) - 1 /\ b[k] = "A03" /\ b[k + 1] = "OK"
  BY <1>2
<1>4. \A j \in 1 .. k - 1 : ~(b[j] = "A03" /\ b[j + 1] = "OK")
  <2>1. ASSUME NEW j \in 1 .. k - 1, b[j] = "A03", b[j + 1] = "OK" PROVE FALSE
    <3>1. j \in T /\ ~(k <= j)
      BY <1>1, <1>3, <2>1
    <3> QED BY <1>2, <3>1
  <2> QED BY <2>1
<1>5. \E n \in 1 .. Len(b) - 1 :
        /\ b[n] = "A03" /\ b[n + 1] = "OK"
        /\ \A j \in 1 .. n - 1 : ~(b[j] = "A03" /\ b[j + 1] = "OK")
  BY <1>3, <1>4
<1> QED BY <1>5 DEF UpToMarker

LEMMA WithoutEolsAt ==
  ASSUME NEW S, NEW b \in Seq(S)
  PROVE  \E n \in 0 .. Len(b) :
           /\ n = 0 \/ b[n] # "eol"
           /\ \A j \in n + 1 .. Len(b) : b[j] = "eol"
           /\ WithoutEols(b) = SubSeq(b, 1, n)
<1> DEFINE T == {n \in 0 .. Len(b) : \A j \in n + 1 .. Len(b) : b[j] = "eol"}
<1>1. T \subseteq Nat /\ Len(b) \in T /\ Len(b) \in Nat
  OBVIOUS
<1>2. PICK n \in T : \A y \in T : n <= y
  BY <1>1, LeastNat
<1>3. n \in 0 .. Len(b) /\ \A j \in n + 1 .. Len(b) : b[j] = "eol"
  BY <1>2
<1>4. n = 0 \/ b[n] # "eol"
  <2>1. ASSUME n # 0, b[n] = "eol" PROVE FALSE
    <3>1. n - 1 \in 0 .. Len(b) /\ ~(n <= n - 1)
      BY <1>1, <1>3, <2>1
    <3>2. \A j \in (n - 1) + 1 .. Len(b) : b[j] = "eol"
      BY <1>1, <1>3, <2>1
    <3>3. n - 1 \in T
      BY <3>1, <3>2
    <3> QED BY <1>2, <3>1, <3>3
  <2> QED BY <2>1
<1>5. \E m \in 0 .. Len(b) : /\ m = 0 \/ b[m] # "eol"
                             /\ \A j \in m + 1 .. Len(b) : b[j] = "eol"
  BY <1>3, <1>4
<1> QED BY <1>5 DEF WithoutEols

\* An atom other than a "+" is in a sequence when it is in what is left of it.
LEMMA ThinHas ==
  ASSUME NEW S, NEW b \in Seq(S), NEW a \in S, a # "+"
  PROVE  Has(b, a) <=> Has(WithoutPlus(b), a)
<1>1. ASSUME Has(WithoutPlus(b), a) PROVE Has(b, a)
  BY <1>1, ThinType DEF Has
<1>2. ASSUME Has(b, a) PROVE Has(WithoutPlus(b), a)
  <2>1. PICK j \in 1 .. Len(b) : b[j] = a
    BY <1>2 DEF Has
  <2> DEFINE u == WithoutPlus(SubSeq(b, 1, j - 1))
             v == WithoutPlus(SubSeq(b, j + 1, Len(b)))
             w == WithoutPlus(b)
             ua == u \o <<a>>
             e == <<a>>
  <2>2. SubSeq(b, 1, j - 1) \in Seq(S) /\ SubSeq(b, j + 1, Len(b)) \in Seq(S) /\ w = ua \o v
    BY <2>1, Around
  <2>3a. u \in Seq(S) /\ v \in Seq(S)
    BY <2>2, ThinType
  <2>3b. e \in Seq(S) /\ Len(e) = 1 /\ e[1] = a
    OBVIOUS
  <2>3. u \in Seq(S) /\ v \in Seq(S) /\ e \in Seq(S)
    BY <2>3a, <2>3b
  <2>4. ua = u \o e
    OBVIOUS
  <2>5. w = ua \o v
    BY <2>2
  <2> HIDE DEF u, v, w, ua, e
  <2>6. /\ ua \in Seq(S) /\ Len(u) \in Nat /\ Len(ua) = Len(u) + Len(e)
        /\ \A i \in 1 .. Len(e) : ua[Len(u) + i] = e[i]
    BY <2>3, <2>4, Cat
  <2>7. ua \in Seq(S)
    BY <2>6
  <2>8. /\ Len(v) \in Nat /\ Len(w) = Len(ua) + Len(v)
        /\ \A i \in 1 .. Len(ua) : w[i] = ua[i]
    BY <2>3, <2>5, <2>7, Cat
  <2>9. Len(u) + 1 \in 1 .. Len(w) /\ w[Len(u) + 1] = a
    BY <2>3b, <2>6, <2>8
  <2>10. Has(w, a)
    BY <2>9 DEF Has
  <2> QED BY <2>10 DEF w
<1> QED BY <1>1, <1>2

\* u and v are the parts of b before and after n atoms, before and after atom x at j,
\* and before the atom x that b ends with; what is left of them is what is left of b.
CutAt(b, n, u, v) ==
  /\ Len(u) = n /\ \A i \in 1 .. n : u[i] = b[i]
  /\ Len(v) = Len(b) - n /\ \A i \in 1 .. Len(b) - n : v[i] = b[n + i]
  /\ u = SubSeq(b, 1, n) /\ v = SubSeq(b, n + 1, Len(b))
  /\ WithoutPlus(b) = WithoutPlus(u) \o WithoutPlus(v)

SplitAt(b, j, x, u, v) ==
  /\ Len(u) = j - 1 /\ \A i \in 1 .. j - 1 : u[i] = b[i]
  /\ Len(v) = Len(b) - j /\ \A i \in 1 .. Len(b) - j : v[i] = b[j + i]
  /\ u = SubSeq(b, 1, j - 1) /\ v = SubSeq(b, j + 1, Len(b))
  /\ Joins(WithoutPlus(b), WithoutPlus(u), x, WithoutPlus(v))

EndsAt(b, x, u) ==
  /\ Len(u) = Len(b) - 1 /\ \A i \in 1 .. Len(b) - 1 : u[i] = b[i]
  /\ u = SubSeq(b, 1, Len(b) - 1)
  /\ WithoutPlus(b) = WithoutPlus(u) \o <<x>>

LEMMA ThinCut ==
  ASSUME NEW S, NEW b \in Seq(S), NEW n \in 0 .. Len(b)
  PROVE  \E u \in Seq(S), v \in Seq(S) : CutAt(b, n, u, v)
<1> DEFINE u == SubSeq(b, 1, n)
           v == SubSeq(b, n + 1, Len(b))
<1>1. Len(b) \in Nat /\ n \in Nat /\ n <= Len(b)
  OBVIOUS
<1>2. /\ u \in Seq(S) /\ Len(u) = n /\ \A i \in 1 .. n : u[i] = b[i]
      /\ v \in Seq(S) /\ Len(v) = Len(b) - n /\ \A i \in 1 .. Len(b) - n : v[i] = b[n + i]
  BY <1>1
<1>3. u \o v = b
  <2>1. 1 \in 1 .. Len(b) + 1 /\ n \in (1 - 1) .. Len(b) /\ Len(b) \in n .. Len(b)
    BY <1>1
  <2>2. SubSeq(b, 1, n) \o SubSeq(b, n + 1, Len(b)) = SubSeq(b, 1, Len(b))
    BY <2>1, ConcatAdjacentSubSeq
  <2>3. SubSeq(b, 1, Len(b)) = b
    BY SubSeqFull
  <2> QED BY <2>2, <2>3
<1>4. u \in Seq(S) /\ v \in Seq(S)
  BY <1>2
<1>4a. u = SubSeq(b, 1, n) /\ v = SubSeq(b, n + 1, Len(b))
  OBVIOUS
<1> HIDE DEF u, v
<1>5. WithoutPlus(u \o v) = WithoutPlus(u) \o WithoutPlus(v)
  BY <1>4, ThinCat
<1>6. CutAt(b, n, u, v)
  BY <1>2, <1>3, <1>4a, <1>5 DEF CutAt
<1> QED BY <1>4, <1>6

LEMMA ThinAround ==
  ASSUME NEW S, NEW b \in Seq(S), NEW j \in 1 .. Len(b), NEW x, b[j] = x, x # "+"
  PROVE  \E u \in Seq(S), v \in Seq(S) : SplitAt(b, j, x, u, v)
<1> DEFINE u == SubSeq(b, 1, j - 1)
           v == SubSeq(b, j + 1, Len(b))
<1>1. Len(b) \in Nat /\ j \in Nat \ {0} /\ j <= Len(b)
  OBVIOUS
<1>2. /\ u \in Seq(S) /\ Len(u) = j - 1 /\ \A i \in 1 .. j - 1 : u[i] = b[i]
      /\ v \in Seq(S) /\ Len(v) = Len(b) - j /\ \A i \in 1 .. Len(b) - j : v[i] = b[j + i]
  BY <1>1
<1>3. Joins(WithoutPlus(b), WithoutPlus(u), x, WithoutPlus(v))
  BY Around, ZenonT(30) DEF Joins
<1>3a. u = SubSeq(b, 1, j - 1) /\ v = SubSeq(b, j + 1, Len(b))
  OBVIOUS
<1> HIDE DEF u, v
<1>4. SplitAt(b, j, x, u, v)
  BY <1>2, <1>3, <1>3a DEF SplitAt
<1> QED BY <1>2, <1>4

LEMMA ThinLast ==
  ASSUME NEW S, NEW b \in Seq(S), b # <<>>, NEW x, b[Len(b)] = x, x # "+"
  PROVE  \E u \in Seq(S) : EndsAt(b, x, u)
<1>1. Len(b) \in 1 .. Len(b)
  OBVIOUS
<1>2. PICK u \in Seq(S), v \in Seq(S) : SplitAt(b, Len(b), x, u, v)
  BY <1>1, ThinAround
<1>3. v = <<>> /\ x \in S
  <2>1. Len(v) = 0
    BY <1>1, <1>2 DEF SplitAt
  <2> QED BY <1>1, <2>1
<1>4. WithoutPlus(v) = <<>> /\ WithoutPlus(u) \in Seq(S)
  BY <1>3, ThinShort, ThinType
<1>5. WithoutPlus(u) \o <<x>> \in Seq(S)
  BY <1>3, <1>4
<1>6. (WithoutPlus(u) \o <<x>>) \o <<>> = WithoutPlus(u) \o <<x>>
  BY <1>5, ConcatEmptySeq
<1>7. EndsAt(b, x, u)
  BY <1>2, <1>4, <1>6 DEF EndsAt, SplitAt, Joins
<1> QED BY <1>7

\* A stream with the message d in it, from the line end at m on, and one tag, the one
\* that answers the fetch.
Carries(w, d, m) ==
  /\ m + Len(d) + 3 <= Len(w)
  /\ w[m] = "eol" /\ \A i \in 1 .. Len(d) : w[m + i] = d[i]
  /\ w[m + Len(d) + 1] = ")" /\ w[m + Len(d) + 2] = "eol" /\ w[m + Len(d) + 3] = "A03"
  /\ \A i \in 1 .. Len(w) : w[i] = "A03" => i = m + Len(d) + 3

\* What closes a FETCH response, behind y.
Closed(y) == (y \o <<")">>) \o <<"eol">>

\* What is left of such a stream: something up to its first line end, something of a
\* line, the message, and what closes the response.
LEMMA CarriedParts ==
  ASSUME NEW w \in Seq(Atoms), NEW d \in Seq(Atoms), NEW m \in Nat \ {0}, Carries(w, d, m)
  PROVE  \E g \in Seq(Atoms), r \in Seq(Atoms), h \in Seq(Atoms), t \in Seq(Atoms) :
           /\ ~Has(g, "eol") /\ ~Has(h, "A03") /\ ~Has(t, "A03") /\ ~Has(d, "A03")
           /\ Joins(WithoutPlus(w), WithoutPlus(g), "eol", WithoutPlus(r))
           /\ Joins(WithoutPlus(r), Closed(WithoutPlus(h) \o WithoutPlus(d)), "A03", WithoutPlus(t))
<1> DEFINE n == Len(d)
<1>0. n \in Nat /\ Len(w) \in Nat
  OBVIOUS
<1>1. /\ m + n + 3 <= Len(w)
      /\ w[m] = "eol" /\ \A i \in 1 .. n : w[m + i] = d[i]
      /\ w[m + n + 1] = ")" /\ w[m + n + 2] = "eol" /\ w[m + n + 3] = "A03"
      /\ \A i \in 1 .. Len(w) : w[i] = "A03" => i = m + n + 3
  BY DEF Carries
<1> HIDE DEF n
<1>2. PICK e \in 1 .. m : w[e] = "eol" /\ \A j \in 1 .. e - 1 : w[j] # "eol"
  <2> DEFINE T == {k \in 1 .. m : w[k] = "eol"}
  <2>1. T \subseteq Nat /\ T # {}
    <3>1. m \in 1 .. m /\ 1 .. m \subseteq Nat
      OBVIOUS
    <3>2. m \in T
      BY <1>1, <3>1
    <3> QED BY <3>1, <3>2
  <2>2. PICK e \in T : \A y \in T : e <= y
    BY <2>1, LeastNat
  <2>3. ASSUME NEW j \in 1 .. e - 1, w[j] = "eol" PROVE FALSE
    <3>1. j \in T /\ ~(e <= j)
      BY <2>2, <2>3
    <3> QED BY <2>2, <3>1
  <2> QED BY <2>2, <2>3
<1>3. e \in 1 .. Len(w) /\ e \in Nat /\ e <= m
  BY <1>0, <1>1
<1>4a. PICK g \in Seq(Atoms), r \in Seq(Atoms) : SplitAt(w, e, "eol", g, r)
  <2>1. "eol" # "+"
    OBVIOUS
  <2> QED BY <1>2, <1>3, <2>1, ThinAround
<1>4.      /\ Len(g) = e - 1 /\ \A i \in 1 .. e - 1 : g[i] = w[i]
           /\ Len(r) = Len(w) - e /\ \A i \in 1 .. Len(w) - e : r[i] = w[e + i]
           /\ Joins(WithoutPlus(w), WithoutPlus(g), "eol", WithoutPlus(r))
  BY <1>4a DEF SplitAt
<1>5. ~Has(g, "eol")
  BY <1>2, <1>4 DEF Has
<1> DEFINE a == m + n + 3 - e
<1>6. a \in 1 .. Len(r) /\ e + a = m + n + 3 /\ r[a] = "A03"
  <2>1. a \in 1 .. Len(w) - e /\ e + a = m + n + 3
    BY <1>0, <1>1, <1>3
  <2>2. r[a] = w[e + a]
    BY <1>4, <2>1
  <2> QED BY <1>1, <1>4, <2>1, <2>2
<1>7a. PICK u \in Seq(Atoms), t \in Seq(Atoms) : SplitAt(r, a, "A03", u, t)
  <2>1. "A03" # "+"
    OBVIOUS
  <2> HIDE DEF a
  <2> QED BY <1>6, <2>1, ThinAround
<1>7.      /\ Len(u) = a - 1 /\ \A i \in 1 .. a - 1 : u[i] = r[i]
           /\ Len(t) = Len(r) - a /\ \A i \in 1 .. Len(r) - a : t[i] = r[a + i]
           /\ Joins(WithoutPlus(r), WithoutPlus(u), "A03", WithoutPlus(t))
  <2> HIDE DEF a
  <2> QED BY <1>7a DEF SplitAt
<1>8. ~Has(t, "A03")
  <2>1. ASSUME NEW i \in 1 .. Len(t), t[i] = "A03" PROVE FALSE
    <3>1. /\ i \in 1 .. Len(r) - a /\ a + i \in 1 .. Len(w) - e
          /\ e + (a + i) \in 1 .. Len(w) /\ e + (a + i) # m + n + 3
      BY <1>0, <1>3, <1>4, <1>6, <1>7
    <3>2. t[i] = r[a + i] /\ r[a + i] = w[e + (a + i)]
      BY <1>4, <1>7, <3>1
    <3> QED BY <1>1, <2>1, <3>1, <3>2
  <2> QED BY <2>1 DEF Has
<1>9. \A i \in 1 .. a - 1 : u[i] = w[e + i] /\ u[i] # "A03"
  <2>1. ASSUME NEW i \in 1 .. a - 1 PROVE u[i] = w[e + i] /\ u[i] # "A03"
    <3>1. /\ i \in 1 .. Len(w) - e /\ e + i \in 1 .. Len(w) /\ e + i # m + n + 3
      BY <1>0, <1>1, <1>3, <1>6
    <3>2. u[i] = w[e + i]
      BY <1>4, <1>7, <3>1
    <3> QED BY <1>1, <3>1, <3>2
  <2> QED BY <2>1
<1>10. Len(u) = m + n + 2 - e /\ u # <<>> /\ u[Len(u)] = "eol"
  <2>1. Len(u) = m + n + 2 - e /\ Len(u) >= 2 /\ Len(u) \in 1 .. a - 1 /\ e + Len(u) = m + n + 2
    BY <1>0, <1>3, <1>7
  <2> QED BY <1>1, <1>9, <2>1
<1>11a. PICK v \in Seq(Atoms) : EndsAt(u, "eol", v)
  <2>1. "eol" # "+"
    OBVIOUS
  <2> QED BY <1>10, <2>1, ThinLast
<1>11. /\ Len(v) = Len(u) - 1 /\ \A i \in 1 .. Len(u) - 1 : v[i] = u[i]
       /\ WithoutPlus(u) = WithoutPlus(v) \o <<"eol">>
  BY <1>11a DEF EndsAt
<1>12. Len(v) = m + n + 1 - e /\ v # <<>> /\ v[Len(v)] = ")"
  <2>1. /\ Len(v) = m + n + 1 - e /\ Len(v) >= 1 /\ Len(v) \in 1 .. a - 1 /\ e + Len(v) = m + n + 1
        /\ Len(v) \in 1 .. Len(u) - 1
    BY <1>0, <1>3, <1>7, <1>10, <1>11
  <2>2. v[Len(v)] = u[Len(v)] /\ u[Len(v)] = w[e + Len(v)]
    BY <1>9, <1>11, <2>1
  <2> QED BY <1>1, <2>1, <2>2
<1>13a. PICK s \in Seq(Atoms) : EndsAt(v, ")", s)
  <2>1. ")" # "+"
    OBVIOUS
  <2> QED BY <1>12, <2>1, ThinLast
<1>13. /\ Len(s) = Len(v) - 1 /\ \A i \in 1 .. Len(v) - 1 : s[i] = v[i]
       /\ WithoutPlus(v) = WithoutPlus(s) \o <<")">>
  BY <1>13a DEF EndsAt
<1>14. Len(s) = m + n - e /\ m - e \in 0 .. Len(s)
  BY <1>0, <1>3, <1>12, <1>13
<1>15. \A i \in 1 .. m + n - e : s[i] = w[e + i] /\ s[i] # "A03"
  <2>1. ASSUME NEW i \in 1 .. m + n - e PROVE s[i] = w[e + i] /\ s[i] # "A03"
    <3>1. i \in 1 .. Len(v) - 1 /\ i \in 1 .. Len(u) - 1 /\ i \in 1 .. a - 1
      BY <1>0, <1>3, <1>10, <1>12
    <3>2. s[i] = v[i] /\ v[i] = u[i] /\ u[i] = w[e + i] /\ u[i] # "A03"
      BY <1>9, <1>11, <1>13, <3>1
    <3> QED BY <3>2
  <2> QED BY <2>1
<1>16a. PICK h \in Seq(Atoms), c \in Seq(Atoms) : CutAt(s, m - e, h, c)
  BY <1>14, ThinCut
<1>16.     /\ Len(h) = m - e /\ \A i \in 1 .. m - e : h[i] = s[i]
           /\ Len(c) = Len(s) - (m - e) /\ \A i \in 1 .. Len(s) - (m - e) : c[i] = s[(m - e) + i]
           /\ WithoutPlus(s) = WithoutPlus(h) \o WithoutPlus(c)
  BY <1>16a DEF CutAt
<1>17. Len(c) = n
  BY <1>0, <1>3, <1>14, <1>16, SMTT(30)
<1>18. \A i \in 1 .. n : c[i] = d[i] /\ d[i] # "A03"
  <2>1. ASSUME NEW i \in 1 .. n PROVE c[i] = d[i] /\ d[i] # "A03"
    <3>1. /\ i \in 1 .. Len(s) - (m - e) /\ (m - e) + i \in 1 .. m + n - e
          /\ e + ((m - e) + i) = m + i
      BY <1>0, <1>3, <1>14
    <3>2. c[i] = s[(m - e) + i] /\ s[(m - e) + i] = w[e + ((m - e) + i)] /\ s[(m - e) + i] # "A03"
      BY <1>15, <1>16, <3>1
    <3> QED BY <1>1, <3>1, <3>2
  <2> QED BY <2>1
<1>19. c = d
  BY <1>17, <1>18, SeqEqual DEF n
<1>20. ~Has(h, "A03") /\ ~Has(d, "A03")
  <2>1. \A i \in 1 .. m - e : i \in 1 .. m + n - e
    BY <1>0, <1>3
  <2> QED BY <1>15, <1>16, <1>18, <2>1 DEF Has, n
<1>21. WithoutPlus(u) = Closed(WithoutPlus(h) \o WithoutPlus(d))
  BY <1>11, <1>13, <1>16, <1>19 DEF Closed
<1> QED BY <1>4, <1>5, <1>7, <1>8, <1>20, <1>21

\* The line ends of a text leave only line ends.
LEMMA ThinEols ==
  ASSUME NEW S, NEW b \in Seq(S), \A i \in 1 .. Len(b) : b[i] = "eol"
  PROVE  \A i \in 1 .. Len(WithoutPlus(b)) : WithoutPlus(b)[i] = "eol"
BY ThinType

\* r begins with y.
Begins(r, y) == \E z \in Seq(Atoms) : r = y \o z

LEMMA BeginsSelf == ASSUME NEW y \in Seq(Atoms) PROVE Begins(y, y)
<1>1. y = y \o <<>> /\ <<>> \in Seq(Atoms)
  BY ConcatEmptySeq
<1> QED BY <1>1 DEF Begins

LEMMA BeginsCat ==
  ASSUME NEW r, NEW y \in Seq(Atoms), NEW s \in Seq(Atoms), Begins(r, y)
  PROVE  Begins(r \o s, y)
<1>1. PICK z \in Seq(Atoms) : r = y \o z
  BY DEF Begins
<1>2. (y \o z) \o s = y \o (z \o s)
  BY ConcatAssociative
<1>3. z \o s \in Seq(Atoms)
  OBVIOUS
<1> QED BY <1>1, <1>2, <1>3 DEF Begins

LEMMA BeginsWithin ==
  ASSUME NEW r, NEW x \in Seq(Atoms), NEW s \in Seq(Atoms), Begins(r, x \o s)
  PROVE  Within(s, r)
<1>1. PICK z \in Seq(Atoms) : r = (x \o s) \o z
  BY DEF Begins
<1>2. Within(s, (x \o s) \o z)
  BY WithinCat
<1> QED BY <1>1, <1>2

\* OneEol adds at most a line end.
LEMMA OneEolKeeps ==
  ASSUME NEW b \in Seq(Atoms), NEW y \in Seq(Atoms), Begins(WithoutPlus(b), y)
  PROVE  Begins(WithoutPlus(OneEol(b)), y)
<1>1. "eol" \in Atoms /\ <<"eol">> \in Seq(Atoms)
  <2>1. "eol" \in Atoms
    BY DEF Atoms, Data
  <2> QED BY <2>1
<1>2. OneEol(b) = b \/ OneEol(b) = b \o <<"eol">>
  <2>1. Append(b, "eol") = b \o <<"eol">>
    BY <1>1, AppendIsConcat
  <2> QED BY <2>1 DEF OneEol
<1>3. WithoutPlus(b \o <<"eol">>) = WithoutPlus(b) \o WithoutPlus(<<"eol">>)
  BY <1>1, ThinCat
<1>4. WithoutPlus(<<"eol">>) \in Seq(Atoms)
  BY <1>1, ThinType
<1>5. Begins(WithoutPlus(b) \o WithoutPlus(<<"eol">>), y)
  BY <1>4, BeginsCat
<1> QED BY <1>2, <1>3, <1>5

\* What Unwrapped makes of a text that ends with the ")" and the line end of the
\* response still holds what was before them.
LEMMA UnwrappedKeeps ==
  ASSUME NEW b \in Seq(Atoms), NEW y \in Seq(Atoms), WithoutPlus(b) = Closed(y)
  PROVE  Unwrapped(b) \in Seq(Atoms) /\ Begins(WithoutPlus(Unwrapped(b)), y)
<1>0. ")" \in Atoms /\ "eol" \in Atoms /\ <<"eol">> \in Seq(Atoms)
  <2>1. ")" \in Atoms /\ "eol" \in Atoms
    BY DEF Atoms, Data
  <2> QED BY <2>1
<1>1. PICK n \in 0 .. Len(b) :
           /\ n = 0 \/ b[n] # "eol"
           /\ \A j \in n + 1 .. Len(b) : b[j] = "eol"
           /\ WithoutEols(b) = SubSeq(b, 1, n)
  BY WithoutEolsAt
<1>2. PICK v \in Seq(Atoms), e \in Seq(Atoms) : CutAt(b, n, v, e)
  BY ThinCut
<1>3. /\ Len(v) = n /\ \A i \in 1 .. n : v[i] = b[i]
      /\ Len(e) = Len(b) - n /\ \A i \in 1 .. Len(b) - n : e[i] = b[n + i]
      /\ WithoutPlus(b) = WithoutPlus(v) \o WithoutPlus(e)
  BY <1>2 DEF CutAt
<1>4. WithoutEols(b) = v
  BY <1>1, <1>2 DEF CutAt
<1>5. \A i \in 1 .. Len(e) : e[i] = "eol"
  <2>1. \A i \in 1 .. Len(b) - n : n + i \in n + 1 .. Len(b)
    OBVIOUS
  <2> QED BY <1>1, <1>3, <2>1
<1>6. \A i \in 1 .. Len(WithoutPlus(e)) : WithoutPlus(e)[i] = "eol"
  BY <1>5, ThinEols
<1>7. ~Has(WithoutPlus(e), ")")
  BY <1>6 DEF Has
<1> DEFINE f == WithoutPlus(e)
           tv == WithoutPlus(v)
<1>8. f \in Seq(Atoms) /\ tv \in Seq(Atoms)
  BY ThinType
<1>9. tv \o f = (y \o <<")">>) \o <<"eol">>
  BY <1>3 DEF Closed
<1>10. CASE EndsWith(v, ")")
  <2>1. v # <<>> /\ v[Len(v)] = ")" /\ ")" # "+"
    BY <1>10 DEF EndsWith
  <2>2. PICK u \in Seq(Atoms) : EndsAt(v, ")", u)
    BY <2>1, ThinLast
  <2>3. /\ Len(u) = Len(v) - 1 /\ \A i \in 1 .. Len(v) - 1 : u[i] = v[i]
        /\ tv = WithoutPlus(u) \o <<")">>
    BY <2>2 DEF EndsAt
  <2>4. Unwrapped(b) = u
    BY <1>4, <1>10, <2>2 DEF Unwrapped, ButLast, EndsAt
  <2>5. WithoutPlus(u) \in Seq(Atoms)
    BY ThinType
  <2>7. ~Has(f, ")") /\ ~Has(<<"eol">>, ")")
    BY <1>7 DEF Has
  <2>8. WithoutPlus(u) = y
    <3> DEFINE x == WithoutPlus(u)
               q == <<"eol">>
               c == ")"
    <3>1. Joins(tv \o f, x, c, f) /\ Joins(tv \o f, y, c, q)
      BY <1>9, <2>3 DEF Joins
    <3>2. /\ x \in Seq(Atoms) /\ f \in Seq(Atoms) /\ q \in Seq(Atoms) /\ c \in Atoms
          /\ ~Has(f, c) /\ ~Has(q, c)
      BY <1>0, <1>8, <2>5, <2>7
    <3> HIDE DEF x, f, q, c, tv
    <3>3. x = y
      BY <3>1, <3>2, OneSplit
    <3> QED BY <3>3 DEF x
  <2> QED BY <2>4, <2>8, BeginsSelf
<1>11. CASE ~EndsWith(v, ")")
  <2>1. Unwrapped(b) = v
    BY <1>4, <1>11 DEF Unwrapped
  <2> DEFINE p == <<")">>
             q == <<"eol">>
             yp == y \o p
             r == tv \o f
  <2>2. p \in Seq(Atoms) /\ Len(p) = 1 /\ p[1] = ")" /\ q \in Seq(Atoms) /\ Len(q) = 1
    BY <1>0
  <2>3. yp = y \o p /\ r = tv \o f
    OBVIOUS
  <2>4. r = yp \o q
    BY <1>9
  <2> HIDE DEF p, q, yp, r, f, tv
  <2>2a. p \in Seq(Atoms) /\ q \in Seq(Atoms)
    BY <2>2
  <2>5. /\ yp \in Seq(Atoms) /\ Len(y) \in Nat /\ Len(yp) = Len(y) + Len(p)
        /\ \A i \in 1 .. Len(y) : yp[i] = y[i]
        /\ \A i \in 1 .. Len(p) : yp[Len(y) + i] = p[i]
    BY <2>2a, <2>3, Cat
  <2>5a. yp \in Seq(Atoms)
    BY <2>5
  <2>6. /\ r \in Seq(Atoms) /\ Len(r) = Len(yp) + Len(q)
        /\ \A i \in 1 .. Len(yp) : r[i] = yp[i]
    BY <2>2a, <2>4, <2>5a, Cat
  <2>7. /\ Len(tv) \in Nat /\ Len(f) \in Nat /\ Len(r) = Len(tv) + Len(f)
        /\ \A i \in 1 .. Len(tv) : r[i] = tv[i]
        /\ \A i \in 1 .. Len(f) : r[Len(tv) + i] = f[i]
    BY <1>8, <2>3, Cat
  <2>8. r[Len(y) + 1] = ")" /\ Len(y) + 1 \in 1 .. Len(r) /\ Len(r) = Len(y) + 2
    <3>1. Len(yp) = Len(y) + 1 /\ yp[Len(y) + 1] = ")" /\ Len(r) = Len(yp) + 1 /\ Len(y) \in Nat
      BY <2>2, <2>5, <2>6
    <3>2. Len(y) + 1 \in 1 .. Len(yp)
      BY <3>1
    <3> QED BY <2>6, <3>1, <3>2
  <2>9. Len(y) + 1 <= Len(tv)
    <3>1. ASSUME Len(y) + 1 > Len(tv) PROVE FALSE
      <4>1. Len(y) + 1 - Len(tv) \in 1 .. Len(f) /\ Len(tv) + (Len(y) + 1 - Len(tv)) = Len(y) + 1
        BY <2>5, <2>7, <2>8, <3>1
      <4>2. f[Len(y) + 1 - Len(tv)] = ")"
        BY <2>7, <2>8, <4>1
      <4> QED BY <1>7, <4>1, <4>2 DEF Has, f
    <3> QED BY <2>5, <2>7, <3>1
  <2>10. \A i \in 1 .. Len(y) : tv[i] = y[i]
    <3>1. ASSUME NEW i \in 1 .. Len(y) PROVE tv[i] = y[i]
      <4>1. i \in 1 .. Len(tv) /\ i \in 1 .. Len(yp)
        BY <2>2, <2>5, <2>7, <2>9
      <4>2. r[i] = tv[i] /\ r[i] = yp[i] /\ yp[i] = y[i]
        BY <2>5, <2>6, <2>7, <4>1
      <4> QED BY <4>2
    <3> QED BY <3>1
  <2> DEFINE g == SubSeq(tv, 1, Len(y))
             z == SubSeq(tv, Len(y) + 1, Len(tv))
  <2>11. g \in Seq(Atoms) /\ z \in Seq(Atoms) /\ Len(g) = Len(y) /\ \A i \in 1 .. Len(y) : g[i] = tv[i]
    BY <1>8, <2>5, <2>7, <2>9
  <2>12. g \o z = tv
    <3>1. 1 \in 1 .. Len(tv) + 1 /\ Len(y) \in (1 - 1) .. Len(tv) /\ Len(tv) \in Len(y) .. Len(tv)
      BY <2>5, <2>7, <2>9
    <3>2. g \o z = SubSeq(tv, 1, Len(tv))
      BY <1>8, <3>1, ConcatAdjacentSubSeq
    <3> QED BY <1>8, <3>2, SubSeqFull
  <2> HIDE DEF g, z
  <2>13. g = y
    BY <2>10, <2>11, SeqEqual
  <2>14. Begins(tv, y)
    BY <2>11, <2>12, <2>13 DEF Begins
  <2> QED BY <2>1, <2>14 DEF tv
<1> QED BY <1>10, <1>11

\* An atom of a concatenation is an atom of one of its parts.
LEMMA HasCat ==
  ASSUME NEW S, NEW a \in Seq(S), NEW b \in Seq(S), NEW x, Has(a \o b, x)
  PROVE  Has(a, x) \/ Has(b, x)
<1> DEFINE r == a \o b
<1>1. r = a \o b
  OBVIOUS
<1>2. PICK i \in 1 .. Len(r) : r[i] = x
  BY DEF Has
<1> HIDE DEF r
<1>3. /\ Len(a) \in Nat /\ Len(b) \in Nat /\ Len(r) = Len(a) + Len(b)
      /\ \A j \in 1 .. Len(a) : r[j] = a[j]
      /\ \A j \in 1 .. Len(b) : r[Len(a) + j] = b[j]
  BY <1>1, Cat
<1>4. CASE i <= Len(a)
  <2>1. i \in 1 .. Len(a)
    BY <1>3, <1>4
  <2> QED BY <1>2, <1>3, <2>1 DEF Has
<1>5. CASE ~(i <= Len(a))
  <2>1. i - Len(a) \in 1 .. Len(b) /\ Len(a) + (i - Len(a)) = i
    BY <1>3, <1>5
  <2>2. b[i - Len(a)] = x
    BY <1>2, <1>3, <2>1
  <2> QED BY <2>1, <2>2 DEF Has
<1> QED BY <1>4, <1>5

\* What print_list_retrieve() prints of packets that hold a stream with the message
\* d in it, but for a "+" that a read began with, has d in it, in one piece.
LEMMA PrintedWhole ==
  ASSUME packets \in Seq(Atoms), NEW w \in Seq(Atoms), NEW d \in Seq(Atoms), NEW m \in Nat \ {0},
         Carries(w, d, m), WithoutPlus(packets) = WithoutPlus(w)
  PROVE  Within(WithoutPlus(d), WithoutPlus(Printed))
<1>1. PICK g \in Seq(Atoms), r \in Seq(Atoms), h \in Seq(Atoms), t \in Seq(Atoms) :
           /\ ~Has(g, "eol") /\ ~Has(h, "A03") /\ ~Has(t, "A03") /\ ~Has(d, "A03")
           /\ Joins(WithoutPlus(w), WithoutPlus(g), "eol", WithoutPlus(r))
           /\ Joins(WithoutPlus(r), Closed(WithoutPlus(h) \o WithoutPlus(d)), "A03", WithoutPlus(t))
  BY CarriedParts
<1> DEFINE tg == WithoutPlus(g)
           tr == WithoutPlus(r)
           th == WithoutPlus(h)
           td == WithoutPlus(d)
           tt == WithoutPlus(t)
           y == th \o td
           cy == Closed(y)
           E == "eol"
           M == "A03"
<1>2. /\ E \in Atoms /\ M \in Atoms /\ E # "+" /\ M # "+"
      /\ <<E>> \in Seq(Atoms) /\ <<M>> \in Seq(Atoms) /\ <<")">> \in Seq(Atoms)
  <2>1. "eol" \in Atoms /\ "A03" \in Atoms /\ ")" \in Atoms
    BY DEF Atoms, Data, Tags, Tag, Commands
  <2> QED BY <2>1
<1>3. tg \in Seq(Atoms) /\ tr \in Seq(Atoms) /\ th \in Seq(Atoms) /\ td \in Seq(Atoms) /\ tt \in Seq(Atoms)
  BY ThinType
<1>4. y \in Seq(Atoms)
  BY <1>3
<1>5. cy \in Seq(Atoms)
  <2> HIDE DEF y
  <2> QED BY <1>2, <1>4 DEF Closed
<1>6. /\ Joins(WithoutPlus(packets), tg, E, tr)
      /\ Joins(tr, cy, M, tt)
  BY <1>1
<1>7. ~Has(tg, E) /\ ~Has(th, M) /\ ~Has(td, M) /\ ~Has(tt, M)
  BY <1>1, <1>2, ThinHas
<1>8. ~Has(cy, M)
  <2>1. ~Has(y, M)
    BY <1>3, <1>7, HasCat
  <2> HIDE DEF y
  <2>2. y \o <<")">> \in Seq(Atoms)
    BY <1>2, <1>4
  <2>3. ~Has(<<")">>, M) /\ ~Has(<<"eol">>, M)
    BY DEF Has
  <2>4. ~Has(y \o <<")">>, M)
    BY <1>2, <1>4, <2>1, <2>3, HasCat
  <2>5. ~Has((y \o <<")">>) \o <<"eol">>, M)
    BY <1>2, <2>2, <2>3, <2>4, HasCat
  <2> QED BY <2>5 DEF Closed
<1> DEFINE p == WithoutPlus(packets)
           rest == AfterFirst(packets, E)
<1>9. Has(packets, E)
  <2>1. p = (tg \o <<E>>) \o tr
    BY <1>6 DEF Joins
  <2>2. Len(tg) + 1 \in 1 .. Len(p) /\ p[Len(tg) + 1] = E
    <3> DEFINE x == <<E>>
               v == tg \o x
    <3>1. v = tg \o x /\ p = v \o tr /\ x \in Seq(Atoms) /\ Len(x) = 1 /\ x[1] = E
      BY <1>2, <2>1
    <3> HIDE DEF x, v, p, tg, tr, E
    <3>1a. x \in Seq(Atoms)
      BY <3>1
    <3>2. /\ v \in Seq(Atoms) /\ Len(tg) \in Nat /\ Len(v) = Len(tg) + Len(x)
          /\ \A i \in 1 .. Len(x) : v[Len(tg) + i] = x[i]
      BY <1>3, <3>1a, Cat DEF v
    <3>2a. v \in Seq(Atoms)
      BY <3>2
    <3>2b. p = v \o tr
      BY <3>1
    <3>3. /\ Len(tr) \in Nat /\ Len(p) = Len(v) + Len(tr)
          /\ \A i \in 1 .. Len(v) : p[i] = v[i]
      BY <1>3, <3>2a, <3>2b, Cat
    <3> QED BY <3>1, <3>2, <3>3
  <2>3. Has(p, E)
    BY <2>2 DEF Has
  <2> QED BY <1>2, <2>3, ThinHas
<1>10. PICK k \in 1 .. Len(packets) :
           /\ packets[k] = E /\ \A j \in 1 .. k - 1 : packets[j] # E
           /\ AfterFirst(packets, E) = SubSeq(packets, k + 1, Len(packets))
  <2> HIDE DEF E
  <2> QED BY <1>9, AfterFirstAt
<1>11. PICK u \in Seq(Atoms), v \in Seq(Atoms) : SplitAt(packets, k, E, u, v)
  <2> HIDE DEF E
  <2> QED BY <1>2, <1>10, ThinAround
<1>12. /\ Len(u) = k - 1 /\ \A i \in 1 .. k - 1 : u[i] = packets[i]
       /\ v = SubSeq(packets, k + 1, Len(packets))
       /\ Joins(p, WithoutPlus(u), E, WithoutPlus(v))
  BY <1>11 DEF SplitAt
<1>13. rest = v /\ ~Has(u, E)
  BY <1>10, <1>12 DEF Has
<1>14. WithoutPlus(rest) = tr
  <2> DEFINE tu == WithoutPlus(u)
             tv == WithoutPlus(v)
  <2>1. tu \in Seq(Atoms) /\ tv \in Seq(Atoms)
    BY ThinType
  <2>2. ~Has(tu, E)
    <3> HIDE DEF E
    <3> QED BY <1>2, <1>13, ThinHas
  <2>3. Joins(p, tg, E, tr) /\ Joins(p, tu, E, tv) /\ E \in Atoms
    BY <1>2, <1>6, <1>12
  <2> HIDE DEF p, tg, tr, tu, tv, E
  <2>4. tr = tv
    BY <1>3, <1>7, <2>1, <2>2, <2>3, OneSplit
  <2> QED BY <1>13, <2>4 DEF tv
<1>15. CASE Shows(rest, "A03", "OK")
  <2>1. Printed = OneEol(Unwrapped(UpToMarker(rest)))
    BY <1>9, <1>15 DEF Printed, Has
  <2>2. rest \in Seq(Atoms)
    BY <1>13
  <2>3. PICK i \in 1 .. Len(rest) - 1 :
           rest[i] = "A03" /\ rest[i + 1] = "OK" /\ UpToMarker(rest) = SubSeq(rest, 1, i - 1)
    <3> HIDE DEF rest
    <3> QED BY <1>15, <2>2, UpToMarkerAt
  <2>4. PICK a \in Seq(Atoms), c \in Seq(Atoms) : SplitAt(rest, i, M, a, c)
    <3>1. i \in 1 .. Len(rest) /\ rest[i] = M
      BY <2>2, <2>3
    <3> HIDE DEF rest, M
    <3> QED BY <1>2, <2>2, <3>1, ThinAround
  <2>5. UpToMarker(rest) = a /\ Joins(WithoutPlus(rest), WithoutPlus(a), M, WithoutPlus(c))
    BY <2>3, <2>4 DEF SplitAt
  <2>6. WithoutPlus(a) = cy
    <3> DEFINE ta == WithoutPlus(a)
               tc == WithoutPlus(c)
    <3>1. ta \in Seq(Atoms) /\ tc \in Seq(Atoms)
      BY ThinType
    <3>2. Joins(tr, ta, M, tc) /\ Joins(tr, cy, M, tt) /\ M \in Atoms
      BY <1>2, <1>6, <1>14, <2>5
    <3> HIDE DEF ta, tc, tr, cy, tt, M
    <3>3. ta = cy
      BY <1>3, <1>5, <1>7, <1>8, <3>1, <3>2, OneSplit
    <3> QED BY <3>3 DEF ta
  <2>7. Unwrapped(a) \in Seq(Atoms) /\ Begins(WithoutPlus(Unwrapped(a)), y)
    <3> HIDE DEF y
    <3> QED BY <1>4, <2>6, UnwrappedKeeps
  <2>8. Begins(WithoutPlus(OneEol(Unwrapped(a))), y)
    <3> HIDE DEF y
    <3> QED BY <1>4, <2>7, OneEolKeeps
  <2> QED BY <1>3, <2>1, <2>5, <2>8, BeginsWithin
<1>16. CASE ~Shows(rest, "A03", "OK")
  <2>1. Printed = Append(rest, "eol")
    BY <1>9, <1>16 DEF Printed, Has
  <2>2. rest \in Seq(Atoms)
    BY <1>13
  <2>3. Printed = rest \o <<E>>
    <3> HIDE DEF rest
    <3> QED BY <1>2, <2>1, <2>2, AppendIsConcat
  <2>4. WithoutPlus(Printed) = tr \o WithoutPlus(<<E>>) /\ WithoutPlus(<<E>>) \in Seq(Atoms)
    <3>1. WithoutPlus(rest \o <<E>>) = WithoutPlus(rest) \o WithoutPlus(<<E>>)
      <4> HIDE DEF rest, E
      <4> QED BY <1>2, <2>2, ThinCat
    <3> QED BY <1>2, <1>14, <2>3, <3>1, ThinType
  <2>5. Begins(tr, y)
    <3> DEFINE e1 == <<")">>
               e2 == <<"eol">>
               e3 == <<M>>
    <3>1. tr = (((y \o e1) \o e2) \o e3) \o tt
      BY <1>6 DEF Joins, Closed
    <3>2. e1 \in Seq(Atoms) /\ e2 \in Seq(Atoms) /\ e3 \in Seq(Atoms)
      BY <1>2
    <3> HIDE DEF e1, e2, e3, y, tr, tt
    <3>3. Begins(y, y)
      BY <1>4, BeginsSelf
    <3>4. Begins(y \o e1, y)
      BY <1>4, <3>2, <3>3, BeginsCat
    <3>5. Begins((y \o e1) \o e2, y)
      BY <1>4, <3>2, <3>4, BeginsCat
    <3>6. Begins(((y \o e1) \o e2) \o e3, y)
      BY <1>4, <3>2, <3>5, BeginsCat
    <3>7. Begins((((y \o e1) \o e2) \o e3) \o tt, y)
      BY <1>3, <1>4, <3>6, BeginsCat
    <3> QED BY <3>1, <3>7
  <2>6. Begins(WithoutPlus(Printed), y)
    <3> HIDE DEF y, tr
    <3> QED BY <1>4, <2>4, <2>5, BeginsCat
  <2> QED BY <1>3, <2>6, BeginsWithin
<1> QED BY <1>15, <1>16

\* What is printed is a text.
LEMMA PrintedType == ASSUME packets \in Seq(Atoms) PROVE Printed \in Seq(Atoms)
<1> DEFINE rest == AfterFirst(packets, "eol")
<1>0. "eol" \in Atoms
  BY DEF Atoms, Data
<1>1. CASE ~Has(packets, "eol")
  <2>1. Printed = <<>>
    BY <1>1 DEF Printed, Has
  <2> QED BY <2>1
<1>2. CASE Has(packets, "eol")
  <2>1. rest \in Seq(Atoms)
    <3>1. PICK k \in 1 .. Len(packets) : rest = SubSeq(packets, k + 1, Len(packets))
      BY <1>2, AfterFirstAt
    <3>2. SubSeq(packets, k + 1, Len(packets)) \in Seq(Atoms)
      OBVIOUS
    <3> QED BY <3>1, <3>2
  <2> HIDE DEF rest
  <2>2. CASE ~Shows(rest, "A03", "OK")
    <3>1. Printed = Append(rest, "eol")
      BY <1>2, <2>2 DEF Printed, Has, rest
    <3> QED BY <1>0, <2>1, <3>1
  <2>3. CASE Shows(rest, "A03", "OK")
    <3> DEFINE b == UpToMarker(rest)
               c == WithoutEols(b)
    <3>1. Printed = OneEol(Unwrapped(b))
      BY <1>2, <2>3 DEF Printed, Has, rest
    <3>2. b \in Seq(Atoms)
      <4>1. PICK i \in 1 .. Len(rest) - 1 : b = SubSeq(rest, 1, i - 1)
        BY <2>1, <2>3, UpToMarkerAt
      <4>2. Len(rest) \in Nat /\ i - 1 \in 0 .. Len(rest)
        BY <2>1
      <4> QED BY <2>1, <4>1, <4>2
    <3> HIDE DEF b
    <3>3. c \in Seq(Atoms)
      <4>1. PICK n \in 0 .. Len(b) : c = SubSeq(b, 1, n)
        BY <3>2, WithoutEolsAt
      <4> QED BY <3>2, <4>1
    <3> HIDE DEF c
    <3>4. Unwrapped(b) = c \/ (c # <<>> /\ Unwrapped(b) = SubSeq(c, 1, Len(c) - 1))
      BY DEF Unwrapped, EndsWith, ButLast, c
    <3>5. Unwrapped(b) \in Seq(Atoms)
      BY <3>3, <3>4
    <3> QED BY <1>0, <3>1, <3>5 DEF OneEol
  <2> QED BY <2>2, <2>3
<1> QED BY <1>1, <1>2

-----------------------------------------------------------------------------
\* While the message is fetched nothing but it can hold a tag, and nothing a NUL.
LEMMA PlainFetch ==
  ASSUME Flow, cmd = "FETCH", Plain(served["FETCH"])
  PROVE  Decisions /\ Honest /\ \A i \in 1 .. Len(wire) : wire[i] # "nul"
<1>1. Decisions
  BY DEF Flow, TypeOK, ServerTypeOK, Decisions
<1>2. verdict["PARSE"] = "none" /\ verdict["LIST"] = "none"
  BY DEF Flow, DecidedSent, Sent, CmdRank, Rank, Commands
<1>3. \A c \in Commands \ {"FETCH"} : served[c] = <<>>
  BY <1>1, <1>2, ReplyToType DEF Commands
<1>4. \A c \in Commands : \A i \in 1 .. Len(served[c]) : served[c][i] \notin Tags \cup {"nul"}
  <2>1. ASSUME NEW c \in Commands, NEW i \in 1 .. Len(served[c])
        PROVE  served[c][i] \notin Tags \cup {"nul"}
    <3>1. CASE c # "FETCH"
      <4>1. Len(served[c]) = 0
        BY <1>3, <3>1
      <4> QED BY <2>1, <4>1
    <3>2. CASE c = "FETCH"
      <4>1. served[c][i] \in {"mail", "eol", ")", "+"}
        BY <2>1, <3>2 DEF Plain
      <4> QED BY <4>1 DEF Tags, Tag, Commands
    <3> QED BY <3>1, <3>2
  <2> QED BY <2>1
<1>5. Honest
  BY <1>4 DEF Honest
<1>6. \A i \in 1 .. Len(Stream) : Stream[i] # "nul"
  <2>1. "nul" \notin {"untagged", "eol", ")"} /\ "nul" \notin Tags /\ "nul" \notin Statuses
    BY DEF Tags, Tag, Commands, Statuses
  <2> QED BY <1>1, <1>4, <2>1, StreamWithout
<1>7. \A i \in 1 .. Len(wire) : wire[i] # "nul"
  <2>1. Len(wire) \in Nat /\ Len(Stream) \in Nat /\ Len(wire) <= Len(Stream)
        /\ \A i \in 1 .. Len(wire) : wire[i] = Stream[i]
    BY <1>1, StreamParts DEF Flow, TypeOK, ServerTypeOK, Streamed
  <2> QED BY <1>6, <2>1
<1> QED BY <1>1, <1>5, <1>7

\* Since it began to fetch at q, before the reply, the client has stored what it has
\* read; it goes on once that has the tag of the fetch in it.
RetrievedFrom(q) ==
  /\ q \in 0 .. pos /\ q <= Before("FETCH")
  /\ WithoutPlus(packets) = WithoutPlus(SubSeq(wire, q + 1, pos))
  /\ pc = "dispatch" \/ outcome = "Mail" => \E i \in q + 1 .. pos : wire[i] = "A03"

Retrieved ==
  /\ cmd = "FETCH" /\ Plain(served["FETCH"]) => \E q \in Nat : RetrievedFrom(q)
  /\ CmdRank < 3 => packets = <<>>
  /\ pc = "dispatch" \/ outcome = "Mail" => cmd = "FETCH"

\* The tag in what was stored is the last line of the reply, so all of the message is
\* there too.
LEMMA RetrievedMail == ASSUME Flow, Retrieved PROVE MailComplete
<1> SUFFICES ASSUME outcome = "Mail", Plain(served["FETCH"])
             PROVE  Within(WithoutPlus(served["FETCH"]), WithoutPlus(Printed))
  BY DEF MailComplete
<1> DEFINE d == served["FETCH"]
           f == "FETCH"
           b == Before("FETCH")
<1>1. cmd = "FETCH"
  BY DEF Retrieved
<1>2. Decisions /\ Honest
  BY <1>1, PlainFetch
<1>3. PICK q \in Nat : RetrievedFrom(q)
  BY <1>1 DEF Retrieved
<1>4. PICK i \in q + 1 .. pos : wire[i] = "A03"
  BY <1>3 DEF RetrievedFrom
<1>5. wire \in Seq(Atoms) /\ packets \in Seq(Atoms) /\ pos \in 0 .. Len(wire) /\ Len(wire) \in Nat
      /\ q \in Nat /\ q <= pos /\ q <= b
  BY <1>3 DEF Flow, TypeOK, ServerTypeOK, RetrievedFrom
<1>6. f \in Commands /\ Tag[f] = "A03"
  BY DEF Commands, Tag
<1>7. \A k \in 1 .. Len(wire) : wire[k] = "A03" =>
         verdict[f] # "none" /\ k = b + Len(ReplyTo(f)) - 2
  BY <1>2, <1>5, <1>6, TagInWire DEF Flow
<1>8. i \in 1 .. Len(wire)
  BY <1>5
<1>9. verdict[f] # "none" /\ i = b + Len(ReplyTo(f)) - 2
  BY <1>4, <1>7, <1>8
<1>10. /\ Len(ReplyTo(f)) \in Nat
       /\ verdict[f] = "OK" =>
           /\ Len(ReplyTo(f)) = Len(d) + 7 /\ ReplyTo(f)[2] = "eol"
           /\ \A j \in 1 .. Len(d) : ReplyTo(f)[2 + j] = d[j]
           /\ ReplyTo(f)[Len(ReplyTo(f)) - 4] = ")" /\ ReplyTo(f)[Len(ReplyTo(f)) - 3] = "eol"
  BY <1>2, <1>6, <1>9, ReplyToLayout
<1>11. b \in Nat /\ \A j \in 1 .. Len(ReplyTo(f)) : Stream[b + j] = ReplyTo(f)[j]
  BY <1>2, <1>6, StreamParts
<1>12. \A k \in 1 .. Len(wire) : wire[k] = Stream[k]
  BY DEF Flow, Streamed
<1>13. d \in Seq(Atoms) /\ (verdict[f] # "OK" => d = <<>>)
  BY <1>2, <1>6, ReplyToType
<1> HIDE DEF f, b, d
<1>14. CASE verdict[f] = "OK"
  <2> DEFINE w == SubSeq(wire, q + 1, pos)
             m == b + 2 - q
             n == Len(d)
  <2>1. w \in Seq(Atoms) /\ Len(w) = pos - q /\ \A j \in 1 .. pos - q : w[j] = wire[q + j]
    BY <1>5
  <2>2. /\ n \in Nat /\ b \in Nat /\ Len(ReplyTo(f)) = n + 7 /\ i = b + n + 5
        /\ q + 1 <= i /\ i <= pos /\ pos <= Len(wire)
    <3>1. n \in Nat /\ b \in Nat /\ Len(ReplyTo(f)) = n + 7
      BY <1>10, <1>11, <1>13, <1>14
    <3>2. i \in q + 1 .. pos /\ pos \in 0 .. Len(wire) /\ q \in Nat /\ pos \in Nat
      BY <1>4, <1>5
    <3> HIDE DEF n
    <3> QED BY <1>9, <3>1, <3>2
  <2> HIDE DEF w, n
  <2>3. ASSUME NEW j \in 1 .. n + 5 PROVE q + j + (b - q) \in 1 .. Len(wire)
    BY <1>5, <2>2
  <2>4. \A j \in 2 .. n + 5 : w[(b - q) + j] = ReplyTo(f)[j]
    <3>1. ASSUME NEW j \in 2 .. n + 5 PROVE w[(b - q) + j] = ReplyTo(f)[j]
      <4>1. /\ (b - q) + j \in 1 .. pos - q /\ q + ((b - q) + j) = b + j
            /\ b + j \in 1 .. Len(wire) /\ j \in 1 .. Len(ReplyTo(f))
        BY <1>5, <2>2
      <4>2. w[(b - q) + j] = wire[b + j] /\ wire[b + j] = Stream[b + j]
        BY <1>12, <2>1, <4>1
      <4> QED BY <1>11, <4>1, <4>2
    <3> QED BY <3>1
  <2>5. m \in Nat \ {0} /\ m + n + 3 <= Len(w) /\ m + n + 3 = i - q
    BY <1>5, <2>1, <2>2
  <2>6. w[m] = "eol" /\ w[m + n + 1] = ")" /\ w[m + n + 2] = "eol"
    <3>1. /\ m = (b - q) + 2 /\ m + n + 1 = (b - q) + (n + 3) /\ m + n + 2 = (b - q) + (n + 4)
          /\ 2 \in 2 .. n + 5 /\ n + 3 \in 2 .. n + 5 /\ n + 4 \in 2 .. n + 5
          /\ n + 3 = Len(ReplyTo(f)) - 4 /\ n + 4 = Len(ReplyTo(f)) - 3
      BY <1>5, <2>2
    <3>2. w[m] = ReplyTo(f)[2] /\ w[m + n + 1] = ReplyTo(f)[n + 3] /\ w[m + n + 2] = ReplyTo(f)[n + 4]
      BY <2>4, <3>1
    <3> QED BY <1>10, <1>14, <3>1, <3>2
  <2>7. \A j \in 1 .. n : w[m + j] = d[j]
    <3>1. ASSUME NEW j \in 1 .. n PROVE w[m + j] = d[j]
      <4>1. m + j = (b - q) + (2 + j) /\ 2 + j \in 2 .. n + 5
        BY <1>5, <2>2
      <4>2. w[m + j] = ReplyTo(f)[2 + j]
        BY <2>4, <4>1
      <4>3. j \in 1 .. Len(d)
        BY DEF n
      <4> QED BY <1>10, <1>14, <4>2, <4>3
    <3> QED BY <3>1
  <2>8. w[m + n + 3] = "A03"
    <3>1. i - q \in 1 .. pos - q /\ q + (i - q) = i
      BY <1>5, <2>2
    <3> QED BY <1>4, <2>1, <2>5, <3>1
  <2>9. ASSUME NEW k \in 1 .. Len(w), w[k] = "A03" PROVE k = m + n + 3
    <3>1. k \in 1 .. pos - q /\ q + k \in 1 .. Len(wire)
      BY <1>5, <2>1
    <3>2. wire[q + k] = "A03"
      BY <2>1, <2>9, <3>1
    <3>3. q + k = b + Len(ReplyTo(f)) - 2
      BY <1>7, <3>1, <3>2
    <3> QED BY <1>5, <1>9, <2>5, <3>1, <3>3
  <2> HIDE DEF m
  <2>10. Carries(w, d, m)
    <3>1. m + Len(d) + 3 <= Len(w)
      BY <2>5 DEF n
    <3> QED BY <2>6, <2>7, <2>8, <2>9, <3>1 DEF Carries, n
  <2>11. WithoutPlus(packets) = WithoutPlus(w)
    BY <1>3 DEF RetrievedFrom, w
  <2>12. Within(WithoutPlus(d), WithoutPlus(Printed))
    BY <1>5, <1>13, <2>1, <2>5, <2>10, <2>11, PrintedWhole
  <2> QED BY <2>12 DEF d
<1>15. CASE verdict[f] # "OK"
  <2>1. d = <<>> /\ WithoutPlus(d) = <<>>
    <3>1. WithoutPlus(<<>>) = <<>>
      BY ThinShort DEF Atoms, Data
    <3> QED BY <1>13, <1>15, <3>1
  <2>2. WithoutPlus(Printed) \in Seq(Atoms)
    BY <1>5, PrintedType, ThinType
  <2> DEFINE t == WithoutPlus(Printed)
             e == <<>>
  <2>3. Within(e, t)
    <3>1. e \in Seq(Atoms) /\ Len(e) = 0 /\ t \in Seq(Atoms) /\ 0 + Len(e) <= Len(t) /\ 0 \in Nat
      BY <2>2
    <3>2. \A j \in 1 .. Len(e) : t[0 + j] = e[j]
      BY <3>1
    <3> HIDE DEF t, e
    <3> QED BY <3>1, <3>2, WithinAt
  <2> QED BY <2>1, <2>3 DEF d
<1> QED BY <1>14, <1>15

\* What is stored of a chunk without a NUL is the chunk, but for a "+".
LEMMA StoredThin ==
  ASSUME NEW b \in Seq(Atoms), b # <<>>, \A i \in 1 .. Len(b) : b[i] # "nul"
  PROVE  WithoutPlus(Stored(b)) = WithoutPlus(b)
<1> DEFINE c == IF b[1] = "+" THEN Tail(b) ELSE b
<1>1. Len(b) \in Nat /\ Len(b) >= 1 /\ b[1] \in Atoms
  OBVIOUS
<1>2. c \in Seq(Atoms) /\ \A i \in 1 .. Len(c) : c[i] # "nul"
  <2>1. Tail(b) \in Seq(Atoms) /\ Len(Tail(b)) = Len(b) - 1
        /\ \A i \in 1 .. Len(b) - 1 : Tail(b)[i] = b[i + 1]
    OBVIOUS
  <2>2. \A i \in 1 .. Len(b) - 1 : i + 1 \in 1 .. Len(b)
    BY <1>1
  <2> QED BY <2>1, <2>2
<1>3. Stored(b) = c
  <2> HIDE DEF c
  <2>1. StrLen(c) \in 0 .. Len(c) /\ (StrLen(c) = Len(c) \/ c[StrLen(c) + 1] = "nul") /\ Len(c) \in Nat
    BY <1>2, StrLenProperties
  <2>2. StrLen(c) = Len(c)
    <3>1. ASSUME StrLen(c) # Len(c) PROVE FALSE
      <4>1. StrLen(c) + 1 \in 1 .. Len(c)
        BY <2>1, <3>1
      <4> QED BY <1>2, <2>1, <3>1, <4>1
    <3> QED BY <3>1
  <2>3. CString(c) = c
    BY <1>2, <2>2, SubSeqFull DEF CString
  <2> QED BY <2>3 DEF Stored, c
<1>4. WithoutPlus(c) = WithoutPlus(b)
  <2>1. CASE b[1] # "+"
    BY <2>1
  <2>2. CASE b[1] = "+"
    <3> DEFINE p == <<b[1]>>
               r == Tail(b)
    <3>1. p \in Seq(Atoms) /\ r \in Seq(Atoms) /\ "+" \in Atoms
      BY <1>1, <2>2
    <3>2. p \o r = b
      <4> DEFINE y == p \o r
      <4>1. y = p \o r /\ Len(p) = 1 /\ p[1] = b[1] /\ Len(r) = Len(b) - 1
            /\ \A i \in 1 .. Len(b) - 1 : r[i] = b[i + 1]
        BY <1>1
      <4> HIDE DEF y, p, r
      <4>2. /\ y \in Seq(Atoms) /\ Len(y) = Len(p) + Len(r)
            /\ \A i \in 1 .. Len(p) : y[i] = p[i]
            /\ \A i \in 1 .. Len(r) : y[Len(p) + i] = r[i]
        <5>1. y = p \o r
          BY <4>1
        <5> QED BY <3>1, <5>1, Cat
      <4>3. Len(y) = Len(b)
        BY <1>1, <4>1, <4>2
      <4>4. ASSUME NEW i \in 1 .. Len(b) PROVE y[i] = b[i]
        <5>1. CASE i = 1
          BY <4>1, <4>2, <5>1
        <5>2. CASE i # 1
          <6>1. i - 1 \in 1 .. Len(b) - 1 /\ i = 1 + (i - 1) /\ (i - 1) + 1 = i
            BY <1>1, <5>2
          <6>2. y[1 + (i - 1)] = r[i - 1] /\ r[i - 1] = b[(i - 1) + 1]
            BY <4>1, <4>2, <6>1
          <6> QED BY <6>1, <6>2
        <5> QED BY <5>1, <5>2
      <4> QED BY <4>2, <4>3, <4>4, SeqEqual DEF y
    <3>3. WithoutPlus(p) = <<>>
      BY <2>2, <3>1, ThinShort
    <3>4. WithoutPlus(r) \in Seq(Atoms)
      BY <3>1, ThinType
    <3> HIDE DEF p, r
    <3>5. WithoutPlus(b) = <<>> \o WithoutPlus(r)
      BY <3>1, <3>2, <3>3, ThinCat
    <3>6. WithoutPlus(b) = WithoutPlus(r)
      BY <3>4, <3>5, ConcatEmptySeq
    <3> QED BY <2>2, <3>6 DEF r
  <2> QED BY <2>1, <2>2
<1> QED BY <1>3, <1>4

\* A step that reads nothing, and adds to the stream or loses what was not read.
LEMMA RetrievedKept ==
  ASSUME Flow, Retrieved, UNCHANGED <<cmd, pos, packets>>,
         cmd = "FETCH" /\ Plain(served'["FETCH"]) => Plain(served["FETCH"]),
         Before("FETCH") <= Before("FETCH")', Before("FETCH")' \in Nat,
         wire' \in Seq(Atoms), pos <= Len(wire'), \A i \in 1 .. pos : wire'[i] = wire[i],
         pc' = "dispatch" \/ outcome' = "Mail" => pc = "dispatch" \/ outcome = "Mail"
  PROVE  Retrieved'
<1>1. ASSUME cmd' = "FETCH", Plain(served'["FETCH"]) PROVE \E q \in Nat : RetrievedFrom(q)'
  <2>1. PICK q \in Nat : RetrievedFrom(q)
    BY <1>1 DEF Retrieved
  <2>2. /\ wire \in Seq(Atoms) /\ pos \in 0 .. Len(wire) /\ q \in 0 .. pos /\ q <= Before("FETCH")
        /\ WithoutPlus(packets) = WithoutPlus(SubSeq(wire, q + 1, pos))
        /\ Before("FETCH") \in Nat
    <3>1. Decisions
      BY DEF Flow, TypeOK, ServerTypeOK, Decisions
    <3> QED BY <2>1, <3>1, StreamParts DEF Flow, TypeOK, ServerTypeOK, RetrievedFrom, Commands
  <2> DEFINE u == SubSeq(wire, q + 1, pos)
             v == SubSeq(wire', q + 1, pos)
  <2>3. /\ u \in Seq(Atoms) /\ Len(u) = pos - q /\ \A i \in 1 .. pos - q : u[i] = wire[q + i]
        /\ v \in Seq(Atoms) /\ Len(v) = pos - q /\ \A i \in 1 .. pos - q : v[i] = wire'[q + i]
    <3>1. q \in Nat /\ q <= pos /\ pos <= Len(wire) /\ pos <= Len(wire') /\ Len(wire) \in Nat
          /\ Len(wire') \in Nat /\ pos \in Nat
      BY <2>2
    <3>2. u \in Seq(Atoms) /\ Len(u) = pos - q /\ \A i \in 1 .. pos - q : u[i] = wire[q + i]
      BY <2>2, <3>1
    <3> DEFINE x == wire'
    <3>3. x \in Seq(Atoms) /\ v = SubSeq(x, q + 1, pos) /\ pos <= Len(x)
      BY <3>1
    <3> HIDE DEF x, v
    <3>4. v \in Seq(Atoms) /\ Len(v) = pos - q /\ \A i \in 1 .. pos - q : v[i] = x[q + i]
      BY <3>1, <3>3
    <3> QED BY <3>2, <3>4 DEF x
  <2>4. \A i \in 1 .. pos - q : q + i \in 1 .. pos
    BY <2>2
  <2> HIDE DEF u, v
  <2>5. u = v
    BY <2>3, <2>4, SeqEqual
  <2>6. q <= Before("FETCH")'
    BY <2>2
  <2>7. pc' = "dispatch" \/ outcome' = "Mail" => \E i \in q + 1 .. pos : wire'[i] = "A03"
    <3>1. ASSUME pc' = "dispatch" \/ outcome' = "Mail" PROVE \E i \in q + 1 .. pos : wire'[i] = "A03"
      <4>1. PICK i \in q + 1 .. pos : wire[i] = "A03"
        BY <2>1, <3>1 DEF RetrievedFrom
      <4>2. i \in 1 .. pos
        BY <2>2
      <4> QED BY <4>1, <4>2
    <3> QED BY <3>1
  <2>8. RetrievedFrom(q)'
    BY <2>2, <2>5, <2>6, <2>7 DEF RetrievedFrom, u, v
  <2> QED BY <2>8
<1>2. CmdRank' = CmdRank
  BY DEF CmdRank
<1> QED BY <1>1, <1>2 DEF Retrieved

\* The server and the network.
LEMMA RetrievedServed == ASSUME Flow, Retrieved, Server \/ Network PROVE Retrieved'
<1>0. Decisions /\ wire \in Seq(Atoms) /\ pos \in 0 .. Len(wire)
  BY DEF Flow, TypeOK, ServerTypeOK, Decisions
<1>1. CASE Server
  <2>1. PICK c \in Commands, s \in Statuses : \E data \in Literals(c, s) :
           /\ c2s # <<>> /\ c = c2s[1] /\ s \in Verdicts(c)
           /\ \A d \in Commands : Rank[d] >= Rank[c] => verdict[d] = "none"
           /\ wire' = wire \o Reply(c, s, data)
           /\ verdict' = [verdict EXCEPT ![c] = s]
           /\ served' = [served EXCEPT ![c] = data]
           /\ c2s' = Tail(c2s) /\ conn = "open" /\ pc # "exit"
           /\ UNCHANGED <<conn, pos, folder, clientVars>>
    BY <1>1, Served
  <2>2. PICK data \in Literals(c, s) :
           /\ \A d \in Commands : Rank[d] >= Rank[c] => verdict[d] = "none"
           /\ wire' = wire \o Reply(c, s, data)
           /\ verdict' = [verdict EXCEPT ![c] = s]
           /\ served' = [served EXCEPT ![c] = data]
           /\ conn = "open" /\ UNCHANGED <<conn, pos, folder, clientVars>>
    BY <2>1
  <2>3. /\ wire' \in Seq(Atoms) /\ Len(wire) <= Len(wire')
        /\ \A i \in 1 .. Len(wire) : wire'[i] = wire[i]
    BY <2>2, ServeStream DEF Flow
  <2>4. served \in [Commands -> Seq(Atoms)] /\ "FETCH" \in Commands
    BY DEF Flow, TypeOK, ServerTypeOK, Commands
  <2>5. Decisions' /\ Before("FETCH") <= Before("FETCH")'
    BY <1>0, <2>2, <2>4, StreamGrows
  <2>6. Before("FETCH")' \in Nat
    BY <1>0, <2>2, <2>4, StreamGrows
  <2>7. Plain(served'["FETCH"]) => Plain(served["FETCH"])
    <3>1. CASE c = "FETCH"
      <4>1. verdict["FETCH"] = "none"
        BY <2>2, <2>4, <3>1 DEF Rank, Commands
      <4>2. served["FETCH"] = <<>>
        BY <1>0, <2>4, <4>1, ReplyToType
      <4> QED BY <4>2 DEF Plain
    <3>2. CASE c # "FETCH"
      <4>1. served'["FETCH"] = served["FETCH"]
        BY <2>2, <2>4, <3>2
      <4> QED BY <4>1
    <3> QED BY <3>1, <3>2
  <2>8. pos <= Len(wire') /\ \A i \in 1 .. pos : wire'[i] = wire[i]
    BY <1>0, <2>3
  <2>9. UNCHANGED <<cmd, pos, packets, pc, outcome>>
    BY <2>2 DEF clientVars
  <2> QED BY <2>3, <2>5, <2>6, <2>7, <2>8, <2>9, RetrievedKept
<1>2. CASE Network
  <2>1. PICK n \in pos .. Len(wire) : wire' = SubSeq(wire, 1, n)
    BY <1>2 DEF Network, Disconnect
  <2>2. UNCHANGED <<cmd, pos, packets, pc, outcome, verdict, served>>
    BY <1>2 DEF Network, Disconnect, clientVars
  <2>3. wire' \in Seq(Atoms) /\ pos <= Len(wire') /\ \A i \in 1 .. pos : wire'[i] = wire[i]
    <3>1. wire' \in Seq(Atoms) /\ Len(wire') = n /\ \A i \in 1 .. n : wire'[i] = wire[i]
      BY <1>0, <2>1
    <3> QED BY <1>0, <2>1, <3>1
  <2>4. Before("FETCH")' = Before("FETCH") /\ Before("FETCH") \in Nat
    <3>1. Before("FETCH") \in Nat
      BY <1>0, StreamParts DEF Commands
    <3> QED BY <2>2, <3>1 DEF Before, ReplyTo
  <2> QED BY <2>2, <2>3, <2>4, RetrievedKept
<1> QED BY <1>1, <1>2

\* One turn of the loop that stores the message.
LEMMA RetrievedRead ==
  ASSUME Flow, Retrieved, pc = "recv", cmd = "FETCH", NEW n \in ReadSizes,
         pos' = pos + n, packets' = packets \o Stored(Chunk(n)),
         UNCHANGED <<cmd, wire, verdict, served>>,
         pc' = "dispatch" => Has(Chunk(n), "A03"), outcome' # "Mail"
  PROVE  Retrieved'
<1>1. /\ wire \in Seq(Atoms) /\ packets \in Seq(Atoms) /\ pos \in Nat /\ n \in Nat \ {0}
      /\ pos + n <= Len(wire) /\ Len(wire) \in Nat /\ Decisions
  BY DEF Flow, TypeOK, ServerTypeOK, ReadSizes, Decisions
<1>2. ASSUME cmd' = "FETCH", Plain(served'["FETCH"]) PROVE \E q \in Nat : RetrievedFrom(q)'
  <2>1. PICK q \in Nat : RetrievedFrom(q)
    BY <1>2 DEF Retrieved
  <2>2. /\ q <= pos /\ q <= Before("FETCH")
        /\ WithoutPlus(packets) = WithoutPlus(SubSeq(wire, q + 1, pos))
    BY <1>1, <2>1 DEF RetrievedFrom
  <2> DEFINE u == SubSeq(wire, q + 1, pos)
             v == Chunk(n)
             st == Stored(v)
  <2>3. u \in Seq(Atoms)
    BY <1>1, <2>2
  <2>4. v \in Seq(Atoms) /\ Len(v) = n /\ st \in Seq(Atoms)
        /\ \A i \in 1 .. n : v[i] = wire[pos + i]
    <3>1. v \in Seq(Atoms) /\ Len(v) = n /\ st \in Seq(Atoms)
      BY ChunkType DEF Flow
    <3>2. \A i \in 1 .. n : v[i] = wire[pos + i]
      BY <1>1 DEF Chunk
    <3> QED BY <3>1, <3>2
  <2>5. \A i \in 1 .. Len(v) : v[i] # "nul"
    <3>1. \A i \in 1 .. Len(wire) : wire[i] # "nul"
      BY <1>2, PlainFetch
    <3>2. \A i \in 1 .. n : pos + i \in 1 .. Len(wire)
      BY <1>1
    <3> QED BY <2>4, <3>1, <3>2
  <2>6. v # <<>>
    <3>1. Len(v) # 0
      BY <1>1, <2>4
    <3> QED BY <3>1
  <2>7. WithoutPlus(st) = WithoutPlus(v)
    BY <2>4, <2>5, <2>6, StoredThin
  <2>8. u \o v = SubSeq(wire, q + 1, pos + n)
    <3>1. q + 1 \in 1 .. Len(wire) + 1 /\ pos \in ((q + 1) - 1) .. Len(wire) /\ pos + n \in pos .. Len(wire)
      BY <1>1, <2>2
    <3> QED BY <1>1, <3>1, ConcatAdjacentSubSeq DEF Chunk
  <2> HIDE DEF u, v, st
  <2>9. WithoutPlus(packets \o st) = WithoutPlus(packets) \o WithoutPlus(st)
    BY <1>1, <2>4, ThinCat
  <2>10. WithoutPlus(u \o v) = WithoutPlus(u) \o WithoutPlus(v)
    BY <2>3, <2>4, ThinCat
  <2>11. WithoutPlus(packets') = WithoutPlus(SubSeq(wire', q + 1, pos'))
    <3>1. WithoutPlus(packets) = WithoutPlus(u)
      BY <2>2 DEF u
    <3>2. packets' = packets \o st
      BY DEF v, st
    <3> QED BY <2>7, <2>8, <2>9, <2>10, <3>1, <3>2
  <2>12. pc' = "dispatch" => \E i \in q + 1 .. pos' : wire'[i] = "A03"
    <3>1. ASSUME pc' = "dispatch" PROVE \E i \in q + 1 .. pos' : wire'[i] = "A03"
      <4>1. PICK i \in 1 .. n : v[i] = "A03"
        BY <2>4, <3>1 DEF Has, v
      <4>2. pos + i \in q + 1 .. pos + n
        BY <1>1, <2>2
      <4> QED BY <2>4, <4>1, <4>2
    <3> QED BY <3>1
  <2>13. q \in 0 .. pos' /\ Before("FETCH")' = Before("FETCH")
    BY <1>1, <2>2 DEF Before, ReplyTo
  <2>14. RetrievedFrom(q)'
    BY <2>2, <2>11, <2>12, <2>13 DEF RetrievedFrom
  <2> QED BY <2>14
<1> QED BY <1>2 DEF Retrieved, CmdRank, Rank

\* The fetch begins behind what has been read, which is no later than the reply.
LEMMA RetrievedStart ==
  ASSUME Flow, Retrieved, cmd \in DOMAIN Successor, pc = "recv", Begin(Successor[cmd]),
         pos' \in 0 .. Len(wire), UNCHANGED <<wire, verdict, served, packets>>
  PROVE  Retrieved'
<1>1. /\ pc' = "send" /\ cmd' = Successor[cmd] /\ outcome' = outcome
      /\ cmd \in {"GREET", "LOGIN", "SELECT"} /\ packets = <<>> /\ outcome # "Mail"
  BY DEF Begin, Successor, Retrieved, CmdRank, Rank
<1>2. /\ wire \in Seq(Atoms) /\ Len(wire) \in Nat /\ Decisions /\ pos' \in Nat /\ pos' <= Len(wire)
  BY DEF Flow, TypeOK, ServerTypeOK, Decisions
<1>3. PICK p \in Nat : p = pos'
  BY <1>2
<1>4. ASSUME cmd' = "FETCH" PROVE RetrievedFrom(p)'
  <2>1. cmd = "SELECT"
    <3>1. Successor["GREET"] = "LOGIN" /\ Successor["LOGIN"] = "SELECT"
      BY DEF Successor
    <3> QED BY <1>1, <1>4, <3>1
  <2>2. verdict["FETCH"] = "none" /\ verdict["PARSE"] = "none" /\ verdict["LIST"] = "none"
    BY <2>1 DEF Flow, DecidedSent, Sent, CmdRank, Rank, Commands
  <2>3. /\ Len(ReplyTo("FETCH")) = 0 /\ Len(ReplyTo("PARSE")) = 0 /\ Len(ReplyTo("LIST")) = 0
    BY <1>2, <2>2, ReplyToType DEF Commands
  <2>4. Before("FETCH") = Len(Stream)
    <3>1. /\ Len(Stream) = Before("LIST") + Len(ReplyTo("LIST")) /\ Before("FETCH") \in Nat
      BY <1>2, StreamParts DEF Commands
    <3>2. Before("LIST") = Before("FETCH") + Len(ReplyTo("FETCH")) + Len(ReplyTo("PARSE"))
      BY DEF Before
    <3> QED BY <2>3, <3>1, <3>2
  <2>5. p <= Before("FETCH")
    <3>1. Len(wire) <= Len(Stream) /\ Len(Stream) \in Nat
      BY <1>2, StreamParts DEF Flow, Streamed
    <3> QED BY <1>2, <1>3, <2>4, <3>1
  <2>6. SubSeq(wire, p + 1, p) = <<>>
    <3>1. \A m \in Nat : m + 1 \in Int /\ m \in Int /\ m < m + 1
      OBVIOUS
    <3> QED BY <1>3, <3>1, SubSeqEmpty
  <2>7. Before("FETCH")' = Before("FETCH")
    BY DEF Before, ReplyTo
  <2>8. SubSeq(wire', p + 1, pos') = packets'
    BY <1>1, <1>3, <2>6
  <2>9. pc' # "dispatch" /\ outcome' # "Mail" /\ p \in 0 .. pos'
    BY <1>1, <1>3
  <2> QED BY <2>5, <2>7, <2>8, <2>9 DEF RetrievedFrom
<1> QED BY <1>1, <1>3, <1>4 DEF Retrieved, CmdRank, Rank

\* The steps that have nothing to do with the fetch.
LEMMA RetrievedElsewhere ==
  ASSUME Retrieved, cmd' # "FETCH", pc' # "dispatch", outcome' # "Mail",
         CmdRank' < 3 => CmdRank < 3, CmdRank' < 3 => UNCHANGED packets
  PROVE  Retrieved'
BY DEF Retrieved

LEMMA RetrievedStep == ASSUME Inv, Retrieved, [Next]_vars PROVE Retrieved'
<1>1. /\ wire \in Seq(Atoms) /\ pos \in 0 .. Len(wire) /\ Before("FETCH") \in Nat
  <2>1. Decisions
    BY DEF Inv, Flow, TypeOK, ServerTypeOK, Decisions
  <2> QED BY <2>1, StreamParts DEF Inv, Flow, TypeOK, ServerTypeOK, Commands
<1>2. ASSUME UNCHANGED <<verdict, served>>
      PROVE  Before("FETCH")' = Before("FETCH")
  BY <1>2 DEF Before, ReplyTo
<1>3. ASSUME UNCHANGED <<cmd, pos, packets, wire, verdict, served>>,
             pc' = "dispatch" \/ outcome' = "Mail" => pc = "dispatch" \/ outcome = "Mail"
      PROVE  Retrieved'
  <2>1. Before("FETCH")' = Before("FETCH")
    BY <1>2, <1>3
  <2> QED BY <1>1, <1>3, <2>1, RetrievedKept DEF Inv
<1>4. CASE Resolve \/ TryAddress \/ OutOfAddresses
  <2>1. cmd = "GREET" /\ cmd' = cmd /\ packets' = packets /\ pc \in {"resolve", "connect"}
    BY <1>4 DEF Inv, Control, Resolve, TryAddress, OutOfAddresses, Exit
  <2>2. pc' # "dispatch" /\ outcome' # "Mail"
    BY <1>4, <2>1 DEF Retrieved, Resolve, TryAddress, OutOfAddresses, Exit
  <2> QED BY <2>1, <2>2, RetrievedElsewhere DEF CmdRank
<1>5. CASE SendCommand
  <2>1. UNCHANGED <<cmd, pos, packets, wire, verdict, served>>
    BY <1>5 DEF SendCommand, Exit
  <2>2. pc' # "dispatch" /\ (outcome' = "Mail" => outcome = "Mail")
    BY <1>5 DEF SendCommand, Exit
  <2> QED BY <1>3, <2>1, <2>2
<1>6. CASE ReadResponse
  <2>1. pc = "recv" /\ cmd \in DOMAIN Successor /\ UNCHANGED <<wire, verdict, served, packets>>
    BY <1>6 DEF ReadResponse
  <2>2. CASE \E o \in {"Disconnected", "ReadError", "LoginFailure", "FolderNotFound"} : Exit(o)
    BY <2>1, <2>2, RetrievedElsewhere DEF Exit, Successor, CmdRank
  <2>3. CASE \E n \in ReadSizes : pos' = pos + n /\ Begin(Successor[cmd])
    <3>1. pos' \in 0 .. Len(wire)
      BY <2>3, ChunkType DEF Inv, Flow
    <3> QED BY <2>1, <2>3, <3>1, RetrievedStart DEF Inv
  <2> QED BY <1>6, <2>2, <2>3 DEF ReadResponse, Refusal
<1>7. CASE RetrieveRead
  <2>1. pc = "recv" /\ cmd = "FETCH" /\ UNCHANGED <<cmd, wire, verdict, served>>
    BY <1>7 DEF RetrieveRead, ReadOn, Exit
  <2>2. outcome # "Mail"
    BY <2>1 DEF Inv, Control
  <2>3. CASE UNCHANGED <<pos, packets>> /\ (ReadOn \/ Exit("FetchError"))
    <3>1. pc' # "dispatch" /\ outcome' # "Mail"
      BY <2>1, <2>2, <2>3 DEF ReadOn, Exit
    <3> QED BY <1>3, <2>1, <2>3, <3>1
  <2>4. CASE \E n \in ReadSizes :
               /\ pos' = pos + n
               /\ packets' = packets \o Stored(Chunk(n))
               /\ \/ /\ Answer(Chunk(n)) = "OK"
                     /\ pc' = "dispatch"
                     /\ UNCHANGED <<cmd, left, outcome>>
                  \/ Answer(Chunk(n)) = "refused" /\ Exit("MessageNotFound")
                  \/ Answer(Chunk(n)) = "none" /\ ReadOn
    <3>1. PICK n \in ReadSizes :
               /\ pos' = pos + n
               /\ packets' = packets \o Stored(Chunk(n))
               /\ \/ /\ Answer(Chunk(n)) = "OK"
                     /\ pc' = "dispatch"
                     /\ UNCHANGED <<cmd, left, outcome>>
                  \/ Answer(Chunk(n)) = "refused" /\ Exit("MessageNotFound")
                  \/ Answer(Chunk(n)) = "none" /\ ReadOn
      BY <2>4
    <3>2. outcome' # "Mail"
      BY <2>2, <3>1 DEF Exit, ReadOn
    <3>3. pc' = "dispatch" => Has(Chunk(n), "A03")
      <4>1. Shows(Chunk(n), "A03", "OK") => Has(Chunk(n), "A03")
        <5>1. Chunk(n) \in Seq(Atoms) /\ Len(Chunk(n)) \in Nat
          BY ChunkType DEF Inv, Flow
        <5>2. \A i \in 1 .. Len(Chunk(n)) - 1 : i \in 1 .. Len(Chunk(n))
          BY <5>1
        <5> QED BY <5>2 DEF Shows, Has
      <4>2. pc' = "dispatch" => Answer(Chunk(n)) = "OK"
        BY <2>1, <3>1 DEF Exit, ReadOn
      <4> QED BY <4>1, <4>2 DEF Answer
    <3> QED BY <2>1, <3>1, <3>2, <3>3, RetrievedRead DEF Inv
  <2> QED BY <1>7, <2>3, <2>4 DEF RetrieveRead
<1>8. CASE Dispatch
  <2>1. pc = "dispatch" /\ UNCHANGED <<pos, packets, wire, verdict, served>> /\ cmd = "FETCH"
    BY <1>8 DEF Dispatch, serverVars, Inv, Control
  <2>2. CASE \E o \in DOMAIN ExitCode : Exit(o)
    BY <1>3, <2>1, <2>2 DEF Exit
  <2>3. CASE \E c \in {"PARSE", "LIST"} : Begin(c)
    <3>1. outcome' # "Mail" /\ cmd' \in {"PARSE", "LIST"} /\ pc' = "send"
      BY <2>1, <2>3 DEF Begin, Inv, Control
    <3>2. ~(CmdRank' < 3)
      BY <3>1 DEF CmdRank, Rank
    <3> QED BY <3>1, <3>2, RetrievedElsewhere
  <2> QED BY <1>8, <2>2, <2>3 DEF Dispatch, ExitCode
<1>9. CASE ParseRead \/ ListRead
  <2>1. cmd \in {"PARSE", "LIST"} /\ cmd' = cmd /\ pc' \in {"recv", "exit"} /\ outcome' # "Mail"
    <3>1. CASE ParseRead
      BY <1>9, <3>1 DEF ParseRead, ReadOn, Exit, Inv, Control
    <3>2. CASE ListRead
      BY <1>9, <3>2 DEF ListRead, Listing, ReadOn, Exit, Inv, Control
    <3> QED BY <1>9, <3>1, <3>2
  <2>2. ~(CmdRank' < 3)
    BY <2>1 DEF CmdRank, Rank
  <2> QED BY <2>1, <2>2, RetrievedElsewhere
<1>10. CASE Server \/ Network
  BY <1>10, RetrievedServed DEF Inv
<1>11. CASE Finished \/ UNCHANGED vars
  BY <1>3, <1>11 DEF Finished, vars, serverVars, clientVars
<1> QED BY <1>4, <1>5, <1>6, <1>7, <1>8, <1>9, <1>10, <1>11 DEF Next, Client

\* For every literal that means nothing to the client, and however the stream is cut or lost,
\* `retrieve` prints the whole message, in one piece, but for the "+" that retrieve() drops at
\* the beginning of a read (retrieve(), print_list_retrieve()).
THEOREM PrintsWholeMail == Spec => []MailComplete
<1>1. Init => Retrieved
  BY DEF Init, Retrieved
<1>2. Inv /\ Retrieved /\ [Next]_vars => Retrieved'
  BY RetrievedStep
<1>3. Inv /\ Retrieved => MailComplete
  BY RetrievedMail DEF Inv
<1> QED BY <1>1, <1>2, <1>3, Invariance, PTL DEF Spec

-----------------------------------------------------------------------------
\* What one read() takes at a time, when every reply comes in one piece: there is
\* nothing left to read, and nothing left to answer, when the client goes on.
Aligned ==
  /\ pc \in {"resolve", "connect", "send", "dispatch"} => c2s = <<>> /\ pos = Len(wire)
  /\ pc = "recv" /\ c2s # <<>> => c2s = <<cmd>> /\ pos = Len(wire)

LEMMA WholeRead ==
  ASSUME Flow, Aligned, Delivery = "replies", pc = "recv", NEW n \in ReadSizes
  PROVE  pos + n = Len(wire) /\ c2s = <<>>
<1>1. pos + n = Len(wire) /\ n \in 1 .. Len(wire) - pos /\ pos \in Nat /\ Len(wire) \in Nat
  BY DEF Flow, TypeOK, ServerTypeOK, ReadSizes
<1>2. pos # Len(wire)
  BY <1>1
<1> QED BY <1>1, <1>2 DEF Aligned

LEMMA AlignedStep ==
  ASSUME Inv, Aligned, Delivery = "replies", [Next]_vars
  PROVE  Aligned'
<1>1. wire \in Seq(Atoms) /\ pos \in 0 .. Len(wire) /\ c2s \in Seq(Commands) /\ Len(wire) \in Nat
  BY DEF Inv, Flow, TypeOK, ServerTypeOK
<1>2. \A n \in ReadSizes : pc = "recv" => pos + n = Len(wire) /\ c2s = <<>>
  BY WholeRead DEF Inv
<1>3. CASE Resolve \/ OutOfAddresses
  BY <1>3 DEF Aligned, Resolve, OutOfAddresses, Exit, serverVars
<1>4. CASE TryAddress
  <2>1. pc = "connect" /\ c2s' = <<>> /\ pos' = pos /\ pos = Len(wire)
    BY <1>4 DEF TryAddress, Aligned
  <2>2. pc' = "recv" \/ UNCHANGED <<pc, wire>>
    BY <1>4 DEF TryAddress
  <2> QED BY <2>1, <2>2 DEF Aligned
<1>5. CASE SendCommand
  <2>1. c2s = <<>> /\ pos = Len(wire) /\ UNCHANGED <<cmd, wire, pos>>
    BY <1>5 DEF SendCommand, Aligned, Exit
  <2>2. \/ c2s' = <<>> /\ pc' \in {"send", "recv", "exit"}
        \/ pc' = "recv" /\ c2s' = <<cmd>>
    BY <1>5, <2>1 DEF SendCommand, Exit, Aligned
  <2> QED BY <2>1, <2>2 DEF Aligned
<1>6. CASE ReadResponse \/ RetrieveRead \/ ParseRead \/ ListRead
  <2>1. pc = "recv" /\ UNCHANGED <<c2s, wire>>
    BY <1>6 DEF ReadResponse, RetrieveRead, ParseRead, ListRead
  <2>2. CASE c2s = <<>> /\ pos' = Len(wire)
    BY <2>1, <2>2 DEF Aligned
  <2>3. CASE UNCHANGED pos /\ (ReadOn \/ \E o \in DOMAIN ExitCode : Exit(o))
    <3>1. pc' \in {"recv", "exit"} /\ cmd' = cmd
      BY <2>1, <2>3 DEF ReadOn, Exit
    <3> QED BY <2>1, <2>3, <3>1 DEF Aligned
  <2>4. \/ \E n \in ReadSizes : pos' = pos + n
        \/ UNCHANGED pos /\ (ReadOn \/ \E o \in DOMAIN ExitCode : Exit(o))
    <3>1. CASE ReadResponse
      BY <3>1 DEF ReadResponse, ExitCode
    <3>2. CASE RetrieveRead
      BY <3>2 DEF RetrieveRead, ExitCode
    <3>3. CASE ParseRead
      BY <3>3 DEF ParseRead, ExitCode
    <3>4. CASE ListRead
      BY <3>4 DEF ListRead, Listing, ExitCode
    <3> QED BY <1>6, <3>1, <3>2, <3>3, <3>4
  <2> QED BY <1>2, <2>1, <2>2, <2>3, <2>4
<1>7. CASE Dispatch
  BY <1>7 DEF Dispatch, Begin, Exit, Aligned, serverVars
<1>8. CASE Server
  <2>1. c2s # <<>> /\ c2s' = Tail(c2s) /\ pc # "exit" /\ UNCHANGED <<pc, cmd, pos>>
    BY <1>8 DEF Server, Serve, clientVars
  <2>2. pc = "recv" /\ c2s = <<cmd>>
    BY <2>1 DEF Aligned, Inv, Flow, TypeOK, Phases
  <2>3. c2s' = <<>>
    BY <2>1, <2>2
  <2> QED BY <2>1, <2>2, <2>3 DEF Aligned
<1>9. CASE Network
  <2>1. PICK n \in pos .. Len(wire) : wire' = SubSeq(wire, 1, n)
    BY <1>9 DEF Network, Disconnect
  <2>2. UNCHANGED <<c2s, pos, pc, cmd>>
    BY <1>9 DEF Network, Disconnect, clientVars
  <2>3. Len(wire') = n /\ (pos = Len(wire) => pos = n)
    BY <1>1, <2>1
  <2> QED BY <2>2, <2>3 DEF Aligned
<1>10. CASE Finished \/ UNCHANGED vars
  BY <1>10 DEF Finished, vars, serverVars, clientVars, Aligned
<1> QED BY <1>3, <1>4, <1>5, <1>6, <1>7, <1>8, <1>9, <1>10 DEF Next, Client

LEMMA AlwaysAligned == ASSUME Delivery = "replies" PROVE Spec => []Aligned
<1>1. Init => Aligned
  BY DEF Init, ServerInit, Aligned
<1>2. Inv /\ Aligned /\ [Next]_vars => Aligned'
  BY AlignedStep
<1> QED BY <1>1, <1>2, Invariance, PTL DEF Spec

\* When no reply is cut, no command is sent before the reply to the one before has
\* been read to its end: the client needs no more than one read() per reply
\* (read_response(), and the calls of it in main()).
THEOREM OneReadPerReply == ASSUME Delivery = "replies" PROVE Spec => []InStep
<1>1. Aligned => InStep
  BY DEF Aligned, InStep
<1> QED BY <1>1, AlwaysAligned, PTL

-----------------------------------------------------------------------------
\* The reply to the last command that is decided ends the stream.
LEMMA LastDue ==
  ASSUME Decisions, NEW c \in Commands, \A d \in Commands : Rank[d] > Rank[c] => verdict[d] = "none"
  PROVE  Len(Stream) = Before(c) + Len(ReplyTo(c)) /\ Before(c) \in Nat /\ Len(ReplyTo(c)) \in Nat
<1>1. /\ Len(Stream) = Before("LIST") + Len(ReplyTo("LIST"))
      /\ \A d \in Commands : Before(d) \in Nat
  BY StreamParts
<1>2. \A d \in Commands : Len(ReplyTo(d)) \in Nat /\ (Rank[d] > Rank[c] => Len(ReplyTo(d)) = 0)
  BY ReplyToType
<1>3. /\ Before("SELECT") = Before("LOGIN") + Len(ReplyTo("LOGIN"))
      /\ Before("FETCH") = Before("SELECT") + Len(ReplyTo("SELECT"))
      /\ Before("PARSE") = Before("FETCH") + Len(ReplyTo("FETCH"))
      /\ Before("LIST") = Before("PARSE") + Len(ReplyTo("PARSE"))
  BY DEF Before
<1> DEFINE n(d) == Len(ReplyTo(d))
           b(d) == Before(d)
<1>4. /\ \A d \in Commands : n(d) \in Nat /\ b(d) \in Nat /\ (Rank[d] > Rank[c] => n(d) = 0)
      /\ Len(Stream) = b("LIST") + n("LIST") /\ b("SELECT") = b("LOGIN") + n("LOGIN")
      /\ b("FETCH") = b("SELECT") + n("SELECT") /\ b("PARSE") = b("FETCH") + n("FETCH")
      /\ b("LIST") = b("PARSE") + n("PARSE")
  BY <1>1, <1>2, <1>3
<1> HIDE DEF n, b
<1>5. Len(Stream) = b(c) + n(c) /\ b(c) \in Nat /\ n(c) \in Nat
  <2>1. /\ Rank["LOGIN"] = 1 /\ Rank["SELECT"] = 2 /\ Rank["FETCH"] = 3 /\ Rank["PARSE"] = 4
        /\ Rank["LIST"] = 5 /\ Commands = {"LOGIN", "SELECT", "FETCH", "PARSE", "LIST"}
    BY DEF Rank, Commands
  <2>2. /\ n("LOGIN") \in Nat /\ n("SELECT") \in Nat /\ n("FETCH") \in Nat /\ n("PARSE") \in Nat
        /\ n("LIST") \in Nat /\ b("LOGIN") \in Nat /\ b("SELECT") \in Nat /\ b("FETCH") \in Nat
        /\ b("PARSE") \in Nat /\ b("LIST") \in Nat
    BY <1>4, <2>1
  <2>3. CASE c = "LIST"
    BY <1>4, <2>2, <2>3
  <2>4. CASE c = "PARSE"
    <3>1. n("LIST") = 0
      BY <1>4, <2>4 DEF Rank, Commands
    <3> QED BY <1>4, <2>2, <2>4, <3>1
  <2>5. CASE c = "FETCH"
    <3>1. n("LIST") = 0 /\ n("PARSE") = 0
      BY <1>4, <2>5 DEF Rank, Commands
    <3> QED BY <1>4, <2>2, <2>5, <3>1
  <2>6. CASE c = "SELECT"
    <3>1. n("LIST") = 0 /\ n("PARSE") = 0 /\ n("FETCH") = 0
      BY <1>4, <2>6 DEF Rank, Commands
    <3> QED BY <1>4, <2>2, <2>6, <3>1
  <2>7. CASE c = "LOGIN"
    <3>1. n("LIST") = 0 /\ n("PARSE") = 0 /\ n("FETCH") = 0 /\ n("SELECT") = 0
      BY <1>4, <2>7 DEF Rank, Commands
    <3> QED BY <1>4, <2>2, <2>7, <3>1
  <2> QED BY <2>1, <2>3, <2>4, <2>5, <2>6, <2>7
<1> QED BY <1>5 DEF n, b

\* What a read() returns is what comes next in the stream.
LEMMA ChunkAt ==
  ASSUME Flow, NEW n \in ReadSizes
  PROVE  \A i \in 1 .. n : Chunk(n)[i] = wire[pos + i] /\ pos + i \in 1 .. Len(wire)
<1>1. /\ wire \in Seq(Atoms) /\ pos \in Nat /\ n \in Nat \ {0} /\ pos + n <= Len(wire)
      /\ Len(wire) \in Nat
  BY DEF Flow, TypeOK, ServerTypeOK, ReadSizes
<1> QED BY <1>1 DEF Chunk

\* A client that has read all that comes before the reply it waits for reads the
\* beginning of that reply, and all of it while the connection lasts.
LEMMA ReadsReply ==
  ASSUME Flow, cmd \in Commands, pos = Before(cmd), NEW n \in ReadSizes, pos + n = Len(wire)
  PROVE  /\ verdict[cmd] # "none"
         /\ n <= Len(ReplyTo(cmd)) /\ (conn = "open" => n = Len(ReplyTo(cmd)))
         /\ \A i \in 1 .. n : Chunk(n)[i] = ReplyTo(cmd)[i]
<1>1. /\ Decisions /\ wire \in Seq(Atoms) /\ n \in Nat \ {0} /\ pos \in Nat
  BY DEF Flow, TypeOK, ServerTypeOK, Decisions, ReadSizes
<1>2. \A d \in Commands : Rank[d] > Rank[cmd] => verdict[d] = "none"
  BY DEF Flow, DecidedSent, Sent, CmdRank, Rank, Commands
<1>3. Len(Stream) = Before(cmd) + Len(ReplyTo(cmd)) /\ Len(ReplyTo(cmd)) \in Nat
  BY <1>1, <1>2, LastDue
<1>4. n <= Len(ReplyTo(cmd)) /\ (conn = "open" => n = Len(ReplyTo(cmd)))
  BY <1>1, <1>3 DEF Flow, Streamed
<1>5. verdict[cmd] # "none"
  <2>1. verdict[cmd] = "none" => Len(ReplyTo(cmd)) = 0
    BY <1>1, ReplyToType
  <2> QED BY <1>1, <1>4, <2>1
<1>6. ASSUME NEW i \in 1 .. n PROVE Chunk(n)[i] = ReplyTo(cmd)[i]
  <2>1. Chunk(n)[i] = wire[pos + i] /\ pos + i \in 1 .. Len(wire)
    BY ChunkAt
  <2>2. wire[pos + i] = Stream[pos + i]
    BY <2>1 DEF Flow, Streamed
  <2>3. i \in 1 .. Len(ReplyTo(cmd))
    BY <1>1, <1>3, <1>4
  <2>4. Stream[Before(cmd) + i] = ReplyTo(cmd)[i]
    BY <1>1, <2>3, StreamParts
  <2> QED BY <2>1, <2>2, <2>4
<1> QED BY <1>4, <1>5, <1>6

\* What the code makes of each refusal, also of those for which the documents ask for another
\* end: a refusal is reported exactly if read_response() or retrieve() knows its text.
RefusalsKnown ==
  outcome # "none" /\ fd = "open" =>
    /\ outcome = "LoginFailure" <=> verdict["LOGIN"] = "NOAUTH"
    /\ outcome = "FolderNotFound" <=> verdict["SELECT"] = "NO"
    /\ outcome = "MessageNotFound" <=> verdict["FETCH"] \in {"NO", "BAD"}

\* A session without faults, up to the reply it waits for: the refusals it was told of
\* have ended it.
Prompted ==
  /\ conn \in {"none", "open"}
  /\ fd = "open" =>
       /\ conn = "open"
       /\ pc = "recv" /\ cmd \in {"LOGIN", "SELECT"} => pos = Before(cmd)
       /\ CmdRank > 1 => verdict["LOGIN"] \notin {"none", "NOAUTH"}
       /\ CmdRank > 2 => verdict["SELECT"] \notin {"none", "NO"}
  /\ RefusalsKnown

\* A reply that is a refusal read_response() knows is recognised by it.
LEMMA RefusalSeen ==
  ASSUME Flow, Prompted, Aligned, Delivery = "replies", pc = "recv", fd = "open",
         cmd \in {"LOGIN", "SELECT"}, NEW n \in ReadSizes, Refusal(Chunk(n)) = "none"
  PROVE  verdict[cmd] \notin {"none", IF cmd = "LOGIN" THEN "NOAUTH" ELSE "NO"}
<1>1. cmd \in Commands /\ pos = Before(cmd) /\ conn = "open" /\ pos + n = Len(wire)
  BY WholeRead DEF Prompted, Commands
<1>2. /\ verdict[cmd] # "none" /\ n = Len(ReplyTo(cmd))
      /\ \A i \in 1 .. n : Chunk(n)[i] = ReplyTo(cmd)[i]
  BY <1>1, ReadsReply
<1>3. Decisions
  BY DEF Flow, TypeOK, ServerTypeOK, Decisions
<1>4. ASSUME verdict[cmd] = IF cmd = "LOGIN" THEN "NOAUTH" ELSE "NO" PROVE FALSE
  <2>1. verdict[cmd] # "OK"
    BY <1>4
  <2> DEFINE r == ReplyTo(cmd)
  <2>2. /\ Len(r) = 3 /\ r[Len(r) - 2] = Tag[cmd] /\ r[Len(r) - 1] = verdict[cmd] /\ r[Len(r)] = "eol"
    BY <1>1, <1>2, <1>3, <2>1, ReplyToLayout
  <2>3. r[1] = Tag[cmd] /\ r[2] = verdict[cmd] /\ n = 3
    BY <1>2, <2>2
  <2>4. Chunk(n)[1] = Tag[cmd] /\ Chunk(n)[2] = verdict[cmd] /\ Len(Chunk(n)) = 3
    <3>1. Len(Chunk(n)) = n
      BY ChunkType DEF Flow
    <3> QED BY <1>2, <2>3, <3>1
  <2>5. Shows(Chunk(n), Tag[cmd], verdict[cmd])
    BY <2>4 DEF Shows, Tag
  <2> QED BY <1>4, <2>5 DEF Refusal, Tag
<1> QED BY <1>2, <1>4

LEMMA PromptedStep ==
  ASSUME Inv, Aligned, FetchedFirst, Prompted, HonestPayloads, Delivery = "replies", Faults = {},
         [Next]_vars
  PROVE  Prompted'
<1>0. ASSUME UNCHANGED <<conn, fd, verdict, cmd>>,
             pc' = "recv" /\ cmd \in {"LOGIN", "SELECT"} => pc = "recv" /\ pos' = pos /\ UNCHANGED served,
             RefusalsKnown'
      PROVE  Prompted'
  <2>1. \A c \in Commands : UNCHANGED <<verdict, served>> => Before(c)' = Before(c)
    BY DEF Before, ReplyTo
  <2> QED BY <1>0, <2>1 DEF Prompted, CmdRank, Commands
<1>1. CASE Resolve \/ OutOfAddresses
  <2>1. conn = "none" /\ fd # "open" /\ UNCHANGED <<conn, fd, verdict, served, cmd, pos>> /\ cmd = "GREET"
    BY <1>1 DEF Inv, Control, Resolve, OutOfAddresses, Exit, serverVars, Prompted
  <2> QED BY <1>0, <2>1 DEF RefusalsKnown
<1>2. CASE TryAddress
  <2>1. conn = "none" /\ cmd' = "GREET" /\ outcome' = "none"
    BY <1>2 DEF Inv, Control, TryAddress
  <2>2. conn' \in {"none", "open"} /\ (fd' = "open" => conn' = "open")
    BY <1>2, <2>1 DEF TryAddress
  <2> QED BY <2>1, <2>2 DEF Prompted, RefusalsKnown, CmdRank
<1>3. CASE SendCommand
  <2>1. /\ conn = "open" /\ UNCHANGED <<conn, fd, verdict, served, cmd, pos, outcome>> /\ pc = "send"
    BY <1>3 DEF SendCommand, Prompted
  <2>2. outcome = "none" /\ cmd \in Commands /\ pos = Len(wire)
    BY <2>1 DEF Inv, Control, Aligned
  <2>3. pos = Before(cmd)
    <3>1. Decisions
      BY DEF Inv, Flow, TypeOK, ServerTypeOK, Decisions
    <3>2. \A d \in Commands : Rank[d] >= Rank[cmd] => verdict[d] = "none"
      BY <2>1, <2>2 DEF Inv, Flow, DecidedSent, Sent, CmdRank, Rank, Commands
    <3>3. \A d \in Commands : Rank[d] > Rank[cmd] => verdict[d] = "none"
      <4>1. \A d \in Commands : Rank[d] \in Nat
        BY DEF Rank, Commands
      <4>2. \A d \in Commands : Rank[d] > Rank[cmd] => Rank[d] >= Rank[cmd]
        BY <2>2, <4>1
      <4> QED BY <3>2, <4>2
    <3>4. Len(Stream) = Before(cmd) + Len(ReplyTo(cmd)) /\ Before(cmd) \in Nat
      BY <2>2, <3>1, <3>3, LastDue
    <3>5. Len(ReplyTo(cmd)) = 0
      <4>1. Rank[cmd] >= Rank[cmd]
        BY <2>2 DEF Rank, Commands
      <4> QED BY <2>2, <3>1, <3>2, <4>1, ReplyToType
    <3> QED BY <2>1, <2>2, <3>4, <3>5 DEF Inv, Flow, Streamed
  <2>4. Before(cmd)' = Before(cmd)
    BY <2>1 DEF Before, ReplyTo
  <2> QED BY <2>1, <2>2, <2>3, <2>4 DEF Prompted, RefusalsKnown, CmdRank
<1>4. CASE ReadResponse
  <2>1. pc = "recv" /\ cmd \in {"GREET", "LOGIN", "SELECT"} /\ UNCHANGED <<conn, verdict, served>>
    BY <1>4 DEF ReadResponse, Successor
  <2>2. CASE fd' # "open"
    BY <2>1, <2>2 DEF Prompted, RefusalsKnown
  <2>3. CASE fd' = "open"
    <3>1. PICK n \in ReadSizes :
             /\ fd = "open" /\ fd' = fd
             /\ pos' = pos + n
             /\ \/ Refusal(Chunk(n)) # "none" /\ Exit(Refusal(Chunk(n)))
                \/ Refusal(Chunk(n)) = "none" /\ Begin(Successor[cmd])
      BY <1>4, <2>3 DEF ReadResponse, ReadFails, Prompted
    <3>2. CASE Refusal(Chunk(n)) # "none" /\ Exit(Refusal(Chunk(n)))
      <4>1. UNCHANGED cmd /\ pc' = "exit"
        BY <3>2 DEF Exit
      <4>2. CASE Shows(Chunk(n), "A01", "NOAUTH")
        <5>1. outcome' = "LoginFailure"
          BY <3>2, <4>2 DEF Exit, Refusal
        <5>2. verdict["LOGIN"] = "NOAUTH"
          <6>1. Shows(Chunk(n), Tag["LOGIN"], "NOAUTH") /\ "LOGIN" \in Commands /\ "NOAUTH" \in Statuses
            BY <4>2 DEF Tag, Commands, Statuses
          <6> QED BY <6>1, AnswerIsVerdict DEF Inv, Flow
        <5>3. ~(CmdRank > 1)
          BY <3>1, <5>2 DEF Prompted
        <5>4. verdict["SELECT"] = "none" /\ verdict["FETCH"] = "none"
          BY <2>1, <5>3 DEF Inv, Flow, DecidedSent, Sent, CmdRank, Rank, Commands
        <5> QED BY <1>0, <2>1, <3>1, <4>1, <5>1, <5>2, <5>4 DEF RefusalsKnown
      <4>3. CASE ~Shows(Chunk(n), "A01", "NOAUTH")
        <5>1. outcome' = "FolderNotFound" /\ Shows(Chunk(n), "A02", "NO")
          BY <3>2, <4>3 DEF Exit, Refusal
        <5>2. verdict["SELECT"] = "NO"
          <6>1. Shows(Chunk(n), Tag["SELECT"], "NO") /\ "SELECT" \in Commands /\ "NO" \in Statuses
            BY <5>1 DEF Tag, Commands, Statuses
          <6> QED BY <6>1, AnswerIsVerdict DEF Inv, Flow
        <5>3. cmd = "SELECT"
          BY <2>1, <5>2 DEF Inv, Flow, DecidedSent, Sent, CmdRank, Rank, Commands
        <5>4. verdict["FETCH"] = "none" /\ verdict["LOGIN"] # "NOAUTH"
          BY <3>1, <5>3 DEF Inv, Flow, DecidedSent, Sent, CmdRank, Rank, Commands, Prompted
        <5> QED BY <1>0, <2>1, <3>1, <4>1, <5>1, <5>2, <5>4 DEF RefusalsKnown
      <4> QED BY <4>2, <4>3
    <3>3. CASE Refusal(Chunk(n)) = "none" /\ Begin(Successor[cmd])
      <4>1. pc' = "send" /\ cmd' = Successor[cmd] /\ outcome' = "none"
        BY <2>1, <3>3 DEF Begin, Inv, Control
      <4>2. cmd \in {"LOGIN", "SELECT"} =>
              verdict[cmd] \notin {"none", IF cmd = "LOGIN" THEN "NOAUTH" ELSE "NO"}
        BY <2>1, <3>1, <3>3, RefusalSeen DEF Inv
      <4>3. /\ CmdRank' > 1 => verdict["LOGIN"] \notin {"none", "NOAUTH"}
            /\ CmdRank' > 2 => verdict["SELECT"] \notin {"none", "NO"}
        <5>1. CASE cmd = "GREET"
          BY <4>1, <5>1 DEF Successor, CmdRank, Rank
        <5>2. CASE cmd = "LOGIN"
          BY <4>1, <4>2, <5>2 DEF Successor, CmdRank, Rank
        <5>3. CASE cmd = "SELECT"
          BY <3>1, <4>1, <4>2, <5>3 DEF Successor, CmdRank, Rank, Prompted
        <5> QED BY <2>1, <5>1, <5>2, <5>3
      <4> QED BY <2>1, <3>1, <4>1, <4>3 DEF Prompted, RefusalsKnown
    <3> QED BY <3>1, <3>2, <3>3
  <2> QED BY <2>2, <2>3
<1>5. CASE RetrieveRead
  <2>1. /\ pc = "recv" /\ cmd = "FETCH" /\ UNCHANGED <<conn, fd, verdict, cmd>> /\ outcome = "none"
    BY <1>5 DEF RetrieveRead, ReadOn, Exit, Inv, Control
  <2>2. CASE outcome' = "none"
    BY <1>0, <2>1, <2>2 DEF RefusalsKnown
  <2>3. CASE outcome' # "none" /\ fd = "open"
    <3>1. PICK n \in ReadSizes : Answer(Chunk(n)) = "refused" /\ Exit("MessageNotFound")
      BY <1>5, <2>1, <2>3 DEF RetrieveRead, ReadOn, ReadFails, Prompted
    <3>2. PICK s \in {"NO", "BAD"} : Shows(Chunk(n), "A03", s)
      BY <3>1 DEF Answer
    <3>3. verdict["FETCH"] = s
      <4>1. Shows(Chunk(n), Tag["FETCH"], s) /\ "FETCH" \in Commands /\ s \in Statuses
        BY <3>2 DEF Tag, Commands, Statuses
      <4> QED BY <4>1, AnswerIsVerdict DEF Inv, Flow
    <3>4. verdict["LOGIN"] # "NOAUTH" /\ verdict["SELECT"] # "NO"
      BY <2>1, <2>3 DEF Prompted, CmdRank, Rank
    <3>5. outcome' = "MessageNotFound"
      BY <3>1 DEF Exit
    <3> QED BY <1>0, <2>1, <3>2, <3>3, <3>4, <3>5 DEF RefusalsKnown
  <2>4. CASE fd # "open"
    BY <1>0, <2>1, <2>4 DEF RefusalsKnown
  <2> QED BY <2>2, <2>3, <2>4
<1>6. CASE Dispatch \/ ParseRead \/ ListRead
  <2>1. /\ verdict["FETCH"] = "OK" /\ CmdRank > 2 /\ CmdRank > 1 /\ UNCHANGED <<conn, fd, verdict>>
        /\ cmd' \notin {"LOGIN", "SELECT"}
    <3>1. CASE Dispatch
      BY <1>6, <3>1 DEF Dispatch, Begin, Exit, serverVars, FetchedFirst, Inv, Control, CmdRank, Rank
    <3>2. CASE ParseRead \/ ListRead
      BY <1>6, <3>2 DEF ParseRead, ListRead, ReadOn, Exit, FetchedFirst, CmdRank, Rank
    <3> QED BY <1>6, <3>1, <3>2
  <2>2. fd = "open" => verdict["LOGIN"] \notin {"none", "NOAUTH"} /\ verdict["SELECT"] \notin {"none", "NO"}
    BY <2>1 DEF Prompted
  <2>3. outcome' \notin {"LoginFailure", "FolderNotFound", "MessageNotFound"}
    <3>1. outcome = "none"
      BY <1>6 DEF Dispatch, ParseRead, ListRead, Inv, Control
    <3>2. CASE Dispatch
      BY <3>1, <3>2 DEF Dispatch, Exit, Begin
    <3>3. CASE ParseRead
      BY <3>1, <3>3 DEF ParseRead, Exit, ReadOn
    <3>4. CASE ListRead
      BY <3>1, <3>4 DEF ListRead, Listing, Exit, ReadOn
    <3> QED BY <1>6, <3>2, <3>3, <3>4
  <2>4. RefusalsKnown'
    BY <2>1, <2>2, <2>3 DEF RefusalsKnown
  <2> QED BY <2>1, <2>2, <2>4 DEF Prompted
<1>7. CASE Server
  <2>1. PICK c \in Commands, s \in Statuses : \E data \in Literals(c, s) :
           /\ c2s # <<>> /\ c = c2s[1] /\ s \in Verdicts(c)
           /\ \A d \in Commands : Rank[d] >= Rank[c] => verdict[d] = "none"
           /\ wire' = wire \o Reply(c, s, data)
           /\ verdict' = [verdict EXCEPT ![c] = s]
           /\ served' = [served EXCEPT ![c] = data]
           /\ c2s' = Tail(c2s) /\ conn = "open" /\ pc # "exit"
           /\ UNCHANGED <<conn, pos, folder, clientVars>>
    BY <1>7, Served DEF Inv
  <2>2. PICK data \in Literals(c, s) :
           /\ c2s # <<>> /\ c = c2s[1] /\ pc # "exit"
           /\ \A d \in Commands : Rank[d] >= Rank[c] => verdict[d] = "none"
           /\ verdict' = [verdict EXCEPT ![c] = s]
           /\ served' = [served EXCEPT ![c] = data]
           /\ UNCHANGED <<conn, pos, folder, clientVars>>
    BY <2>1
  <2>3. /\ UNCHANGED <<conn, pos, pc, cmd, fd, outcome>> /\ outcome = "none"
    BY <2>2 DEF clientVars, Inv, Control
  <2>4. c = cmd
    <3>1. pc = "recv" /\ c2s = <<cmd>>
      BY <2>2 DEF Aligned, Inv, Flow, TypeOK, Phases
    <3> QED BY <2>2, <3>1
  <2>5. Before(c)' = Before(c)
    <3>1. Decisions /\ served \in [Commands -> Seq(Atoms)] /\ Rank[c] <= Rank[c]
      BY DEF Inv, Flow, TypeOK, ServerTypeOK, Decisions, Rank, Commands
    <3> QED BY <2>2, <3>1, StreamGrows
  <2>6. verdict[c] = "none" /\ \A d \in Commands : d # c => verdict'[d] = verdict[d]
    BY <2>2 DEF Inv, Flow, TypeOK, ServerTypeOK, Rank, Commands
  <2>7. \A d \in Commands : verdict[d] # "none" => verdict'[d] = verdict[d]
    BY <2>6
  <2> QED BY <2>3, <2>4, <2>5, <2>7 DEF Prompted, RefusalsKnown, CmdRank, Commands
<1>8. CASE Network
  BY <1>8 DEF Network, Disconnect
<1>9. CASE Finished \/ UNCHANGED vars
  <2>1. UNCHANGED <<conn, pos, verdict, served, pc, cmd, fd, outcome>>
    BY <1>9 DEF Finished, vars, serverVars, clientVars
  <2> QED BY <1>0, <2>1 DEF Prompted, RefusalsKnown
<1> QED BY <1>1, <1>2, <1>3, <1>4, <1>5, <1>6, <1>7, <1>8, <1>9 DEF Next, Client

\* When no reply is cut and nothing breaks the connection, a session reports the first refusal,
\* and only a refusal that was made; a login refused in other words, and the fetch of `list`,
\* excepted (read_response(), retrieve()).
THEOREM ReportsRefusals ==
  ASSUME HonestPayloads, Delivery = "replies", Faults = {} PROVE Spec => []RefusalsReported
<1>1. Init => Prompted
  BY DEF Init, ServerInit, Prompted, RefusalsKnown, CmdRank
<1>2. Inv /\ Aligned /\ FetchedFirst /\ Prompted /\ [Next]_vars => Prompted'
  BY PromptedStep
<1>3. Prompted => RefusalsReported
  BY DEF Prompted, RefusalsKnown, RefusalsReported
<1> QED BY <1>1, <1>2, <1>3, Invariance, AlwaysAligned, FetchedBeforeUse, PTL DEF Spec

-----------------------------------------------------------------------------
\* p is a FETCH response with the message d in it, from its first atom to its status
\* at least, and d means nothing to the client.
Whole(p, d) ==
  /\ Len(d) + 6 <= Len(p)
  /\ p[1] = "untagged" /\ p[2] = "eol" /\ \A i \in 1 .. Len(d) : p[2 + i] = d[i]
  /\ p[Len(d) + 3] = ")" /\ p[Len(d) + 4] = "eol"
  /\ p[Len(d) + 5] = "A03" /\ p[Len(d) + 6] = "OK"
  /\ \A i \in 1 .. Len(p) : p[i] # "nul" /\ (p[i] = "A03" => i = Len(d) + 5)

\* What print_list_retrieve() prints of it.
LEMMA PrintedReply ==
  ASSUME packets \in Seq(Atoms), NEW d \in Seq(Atoms), Whole(packets, d)
  PROVE  Printed = OneEol(d)
<1>0. /\ Len(d) + 6 <= Len(packets)
      /\ packets[1] = "untagged" /\ packets[2] = "eol"
      /\ \A i \in 1 .. Len(d) : packets[2 + i] = d[i]
      /\ packets[Len(d) + 3] = ")" /\ packets[Len(d) + 4] = "eol"
      /\ packets[Len(d) + 5] = "A03" /\ packets[Len(d) + 6] = "OK"
      /\ \A i \in 1 .. Len(packets) : packets[i] # "nul" /\ (packets[i] = "A03" => i = Len(d) + 5)
  BY DEF Whole
<1> DEFINE n == Len(d)
           l == Len(packets)
           rest == AfterFirst(packets, "eol")
           y == UpToMarker(rest)
           z == WithoutEols(y)
<1>1. n \in Nat /\ l \in Nat /\ n + 6 <= l
  BY <1>0
<1>2. Has(packets, "eol")
  BY <1>0, <1>1 DEF Has
<1>3. rest \in Seq(Atoms) /\ Len(rest) = l - 2 /\ \A i \in 1 .. l - 2 : rest[i] = packets[2 + i]
  <2>1. PICK k \in 1 .. Len(packets) :
           /\ packets[k] = "eol" /\ \A j \in 1 .. k - 1 : packets[j] # "eol"
           /\ rest = SubSeq(packets, k + 1, Len(packets))
    BY <1>2, AfterFirstAt
  <2>2. k = 2
    <3>1. k # 1
      BY <1>0, <2>1
    <3>2. ~(2 \in 1 .. k - 1)
      BY <1>0, <2>1
    <3> QED BY <1>1, <3>1, <3>2
  <2>3. rest = SubSeq(packets, 3, l)
    BY <2>1, <2>2
  <2> HIDE DEF rest
  <2> QED BY <1>1, <2>3
<1> HIDE DEF rest
<1>4. /\ \A i \in 1 .. n : rest[i] = d[i]
      /\ rest[n + 1] = ")" /\ rest[n + 2] = "eol" /\ rest[n + 3] = "A03" /\ rest[n + 4] = "OK"
  <2>1. \A i \in 1 .. n : i \in 1 .. l - 2
    BY <1>1
  <2>2. /\ n + 1 \in 1 .. l - 2 /\ n + 2 \in 1 .. l - 2 /\ n + 3 \in 1 .. l - 2 /\ n + 4 \in 1 .. l - 2
        /\ 2 + (n + 1) = n + 3 /\ 2 + (n + 2) = n + 4 /\ 2 + (n + 3) = n + 5 /\ 2 + (n + 4) = n + 6
    BY <1>1
  <2>3. /\ rest[n + 1] = packets[2 + (n + 1)] /\ rest[n + 2] = packets[2 + (n + 2)]
        /\ rest[n + 3] = packets[2 + (n + 3)] /\ rest[n + 4] = packets[2 + (n + 4)]
    BY <1>3, <2>2
  <2>4. \A i \in 1 .. n : rest[i] = d[i]
    BY <1>0, <1>3, <2>1
  <2> QED BY <1>0, <2>2, <2>3, <2>4
<1>5. Shows(rest, "A03", "OK")
  <2>1. n + 3 \in 1 .. Len(rest) - 1 /\ (n + 3) + 1 = n + 4
    BY <1>1, <1>3
  <2>2. \A j \in 1 .. n + 3 : rest[j] # "nul"
    <3>1. \A j \in 1 .. n + 3 : j \in 1 .. l - 2 /\ 2 + j \in 1 .. l
      BY <1>1
    <3> QED BY <1>0, <1>3, <3>1
  <2> QED BY <1>4, <2>1, <2>2 DEF Shows
<1>6. /\ y \in Seq(Atoms) /\ Len(y) = n + 2 /\ \A i \in 1 .. n : y[i] = d[i]
      /\ y[n + 1] = ")" /\ y[n + 2] = "eol"
  <2>1. PICK k \in 1 .. Len(rest) - 1 :
           rest[k] = "A03" /\ rest[k + 1] = "OK" /\ y = SubSeq(rest, 1, k - 1)
    BY <1>3, <1>5, UpToMarkerAt
  <2>2. k = n + 3
    <3>1. k \in 1 .. l - 2 /\ 2 + k \in 1 .. l
      BY <1>1, <1>3
    <3>2. 2 + k = n + 5
      BY <1>0, <1>3, <2>1, <3>1
    <3> QED BY <1>1, <3>1, <3>2
  <2>3. y = SubSeq(rest, 1, n + 2)
    <3>1. k - 1 = n + 2
      BY <1>1, <2>2
    <3> QED BY <2>1, <3>1
  <2> HIDE DEF y
  <2>4. n + 2 \in 0 .. Len(rest)
    BY <1>1, <1>3
  <2>5. y \in Seq(Atoms) /\ Len(y) = n + 2 /\ \A i \in 1 .. n + 2 : y[i] = rest[i]
    BY <1>3, <2>3, <2>4
  <2>6. n + 1 \in 1 .. n + 2 /\ n + 2 \in 1 .. n + 2 /\ \A i \in 1 .. n : i \in 1 .. n + 2
    BY <1>1
  <2> QED BY <1>4, <2>5, <2>6
<1> HIDE DEF y
<1>7. z = SubSeq(y, 1, n + 1)
  <2>1. PICK m \in 0 .. Len(y) :
           /\ m = 0 \/ y[m] # "eol"
           /\ \A j \in m + 1 .. Len(y) : y[j] = "eol"
           /\ z = SubSeq(y, 1, m)
    BY <1>6, WithoutEolsAt
  <2>2. ~(n + 1 \in m + 1 .. n + 2) /\ m # n + 2
    <3>1. y[n + 1] # "eol" /\ y[n + 2] = "eol" /\ Len(y) = n + 2 /\ n + 2 # 0
      BY <1>1, <1>6
    <3> HIDE DEF n, z
    <3>2. ~(n + 1 \in m + 1 .. n + 2)
      BY <2>1, <3>1
    <3>3. m # n + 2
      BY <2>1, <3>1
    <3> QED BY <3>2, <3>3
  <2>3. m = n + 1
    BY <1>1, <1>6, <2>2
  <2> QED BY <2>1, <2>3
<1>8. z \in Seq(Atoms) /\ Len(z) = n + 1 /\ z[n + 1] = ")" /\ \A i \in 1 .. n : z[i] = d[i]
  <2>1. n + 1 \in 0 .. Len(y) /\ n + 1 \in 1 .. n + 1 /\ \A i \in 1 .. n : i \in 1 .. n + 1
    BY <1>1, <1>6
  <2> HIDE DEF z, n
  <2>2. z \in Seq(Atoms) /\ Len(z) = n + 1 /\ \A i \in 1 .. n + 1 : z[i] = y[i]
    BY <1>6, <1>7, <2>1
  <2> QED BY <1>6, <2>1, <2>2
<1> HIDE DEF z
<1>9. EndsWith(z, ")")
  <2>1. z # <<>>
    BY <1>1, <1>8
  <2> QED BY <1>8, <2>1 DEF EndsWith
<1>10. ButLast(z) = d
  <2> DEFINE x == SubSeq(z, 1, n)
  <2>1. x \in Seq(Atoms) /\ Len(x) = n /\ \A i \in 1 .. n : x[i] = z[i]
    BY <1>1, <1>8
  <2>2. x = ButLast(z)
    BY <1>1, <1>8 DEF ButLast
  <2> HIDE DEF x
  <2>3. \A i \in 1 .. n : x[i] = d[i]
    BY <1>8, <2>1
  <2>4. x = d
    BY <2>1, <2>3, SeqEqual
  <2> QED BY <2>2, <2>4
<1>11. Unwrapped(y) = d
  BY <1>9, <1>10 DEF Unwrapped, z
<1>12. \E i \in 1 .. Len(packets) : packets[i] = "eol"
  BY <1>2 DEF Has
<1> QED BY <1>5, <1>11, <1>12 DEF Printed, rest, y

\* The response of the fetch is stored in one piece: before the read there is nothing
\* stored and only the response to read, and after it there is nothing left.
Verbatim ==
  /\ pc = "recv" /\ cmd = "FETCH" =>
       \/ packets = <<>> /\ pos = Before("FETCH")
       \/ pos = Len(wire) /\ (conn # "open" \/ verdict["FETCH"] # "none")
  /\ CmdRank < 3 \/ (cmd = "FETCH" /\ pc = "send") => packets = <<>>
  /\ (pc = "dispatch" \/ outcome = "Mail") /\ Plain(served["FETCH"])
       => Whole(packets, served["FETCH"])

\* The one read() of the response, with the OK in it.
LEMMA VerbatimRead ==
  ASSUME Inv, cmd = "FETCH", Plain(served["FETCH"]), packets = <<>>, pos = Before("FETCH"),
         NEW n \in ReadSizes, pos + n = Len(wire), packets' = packets \o Stored(Chunk(n)),
         Shows(Chunk(n), "A03", "OK"), UNCHANGED <<verdict, served>>
  PROVE  Whole(packets', served["FETCH"])
<1> DEFINE d == served["FETCH"]
           v == Chunk(n)
           r == ReplyTo("FETCH")
           l == Len(r)
<1>1. Decisions /\ Honest
  BY PlainFetch DEF Inv
<1>2. /\ verdict["FETCH"] # "none" /\ n <= l /\ \A i \in 1 .. n : v[i] = r[i]
  BY ReadsReply DEF Inv, Commands
<1>3. v \in Seq(Atoms) /\ Len(v) = n /\ n \in Nat \ {0}
  BY ChunkType DEF Inv, Flow
<1>4. d \in Seq(Atoms) /\ Len(d) \in Nat
  BY <1>1, ReplyToType, SMTT(30) DEF Commands
<1>5. PICK k \in 1 .. n - 1 : v[k] = "A03" /\ v[k + 1] = "OK"
  BY <1>3 DEF Shows
<1>6. l \in Nat /\ r \in Seq(Atoms)
  BY <1>1, ReplyToType DEF Commands
<1>7. k \in 1 .. l /\ k + 1 \in 1 .. n /\ k \in 1 .. n
  BY <1>2, <1>3, <1>6
<1>8. \A i \in 1 .. l : r[i] = "A03" => i = l - 2
  <2>1. ASSUME NEW i \in 1 .. l, r[i] = "A03" PROVE i = l - 2
    <3>1. \A j \in 1 .. Len(served["FETCH"]) : served["FETCH"][j] # "A03"
      BY DEF Plain
    <3>2. "A03" \notin Statuses /\ "A03" \notin {"untagged", "eol", ")"} /\ "FETCH" \in Commands
      BY DEF Statuses, Commands
    <3> QED BY <1>1, <2>1, <3>1, <3>2, ReplyAtoms
  <2> QED BY <2>1
<1>9. k = l - 2
  BY <1>2, <1>5, <1>7, <1>8
<1>10. /\ r[l - 2] = "A03" /\ r[l - 1] = verdict["FETCH"] /\ r[l] = "eol"
       /\ verdict["FETCH"] = "OK" =>
            /\ l = Len(d) + 7 /\ r[1] = "untagged" /\ r[2] = "eol"
            /\ \A i \in 1 .. Len(d) : r[2 + i] = d[i]
            /\ r[l - 4] = ")" /\ r[l - 3] = "eol"
  BY <1>1, <1>2, ReplyToLayout DEF Commands, Tag
<1>11. verdict["FETCH"] = "OK"
  <2>1. k + 1 = l - 1
    BY <1>6, <1>7, <1>9
  <2> QED BY <1>2, <1>5, <1>7, <1>10, <2>1
<1>12. \A i \in 1 .. n : v[i] # "nul"
  <2>1. \A i \in 1 .. n : v[i] = wire[pos + i] /\ pos + i \in 1 .. Len(wire)
    BY ChunkAt DEF Inv
  <2>2. \A i \in 1 .. Len(wire) : wire[i] # "nul"
    BY PlainFetch DEF Inv
  <2> QED BY <2>1, <2>2
<1> HIDE DEF d, v, r, l
<1>13. l = Len(d) + 7 /\ n >= Len(d) + 6 /\ n <= l
  BY <1>2, <1>3, <1>4, <1>7, <1>9, <1>10, <1>11
<1>14. /\ v[1] = "untagged" /\ v[2] = "eol" /\ v[Len(d) + 3] = ")" /\ v[Len(d) + 4] = "eol"
       /\ v[Len(d) + 5] = "A03" /\ v[Len(d) + 6] = "OK"
  <2>1. /\ 1 \in 1 .. n /\ 2 \in 1 .. n /\ Len(d) + 3 \in 1 .. n /\ Len(d) + 4 \in 1 .. n
        /\ Len(d) + 5 \in 1 .. n /\ Len(d) + 6 \in 1 .. n
    BY <1>3, <1>4, <1>13
  <2>2. l - 4 = Len(d) + 3 /\ l - 3 = Len(d) + 4 /\ l - 2 = Len(d) + 5 /\ l - 1 = Len(d) + 6
    BY <1>4, <1>13
  <2> QED BY <1>2, <1>10, <1>11, <2>1, <2>2
<1>15. \A i \in 1 .. Len(d) : v[2 + i] = d[i]
  <2>1. \A i \in 1 .. Len(d) : 2 + i \in 1 .. n
    BY <1>3, <1>4, <1>13
  <2> QED BY <1>2, <1>10, <1>11, <2>1
<1>16. \A i \in 1 .. n : v[i] = "A03" => i = Len(d) + 5
  <2>1. \A i \in 1 .. n : i \in 1 .. l
    BY <1>3, <1>4, <1>13
  <2>2. l - 2 = Len(d) + 5
    BY <1>4, <1>13
  <2> QED BY <1>2, <1>8, <2>1, <2>2
<1>17. Stored(v) = v
  <2>1. v[1] # "+"
    BY <1>14
  <2>2. StrLen(v) \in 0 .. n /\ (StrLen(v) = n \/ v[StrLen(v) + 1] = "nul")
    BY <1>3, StrLenProperties
  <2>3. StrLen(v) = n
    <3>1. ASSUME StrLen(v) # n PROVE FALSE
      <4>1. StrLen(v) + 1 \in 1 .. n
        BY <1>3, <2>2, <3>1
      <4> QED BY <1>12, <2>2, <3>1, <4>1
    <3> QED BY <3>1
  <2>4. CString(v) = v
    BY <1>3, <2>3, SubSeqFull DEF CString
  <2> QED BY <2>1, <2>4 DEF Stored
<1>18. packets' = v
  <2>1. packets' = <<>> \o v
    BY <1>17 DEF v
  <2> QED BY <1>3, <2>1, ConcatEmptySeq
<1>19. /\ Len(d) + 6 <= Len(v)
       /\ \A i \in 1 .. Len(v) : v[i] # "nul" /\ (v[i] = "A03" => i = Len(d) + 5)
  BY <1>3, <1>12, <1>13, <1>16
<1>20. Whole(v, d)
  BY <1>14, <1>15, <1>19 DEF Whole
<1> QED BY <1>18, <1>20 DEF d

LEMMA VerbatimStep ==
  ASSUME Inv, Aligned, Verbatim, Delivery = "replies", [Next]_vars
  PROVE  Verbatim'
<1>1. /\ wire \in Seq(Atoms) /\ Len(wire) \in Nat /\ pos \in 0 .. Len(wire) /\ Decisions
      /\ packets \in Seq(Atoms)
  BY DEF Inv, Flow, TypeOK, ServerTypeOK, Decisions
<1>2. ASSUME UNCHANGED <<verdict, served>> PROVE Before("FETCH")' = Before("FETCH")
  BY <1>2 DEF Before, ReplyTo
<1>3. CASE Resolve \/ TryAddress \/ OutOfAddresses
  <2>1. cmd' = "GREET" /\ UNCHANGED packets /\ pc' # "dispatch" /\ outcome' # "Mail" /\ cmd = "GREET"
    BY <1>3 DEF Inv, Control, Resolve, TryAddress, OutOfAddresses, Exit
  <2> QED BY <2>1 DEF Verbatim, CmdRank
<1>4. CASE SendCommand
  <2>1. /\ pc = "send" /\ UNCHANGED <<cmd, wire, pos, verdict, served, packets>> /\ pos = Len(wire)
        /\ cmd \in Commands /\ outcome = "none" /\ pc' # "dispatch" /\ outcome' # "Mail"
        /\ (conn' = "open" => conn = "open")
    BY <1>4 DEF SendCommand, Exit, Aligned, Inv, Control
  <2>2. cmd = "FETCH" => packets = <<>>
    BY <2>1 DEF Verbatim
  <2>3. ASSUME cmd = "FETCH", conn = "open" PROVE pos = Before("FETCH")
    <3>1. \A d \in Commands : Rank[d] > Rank["FETCH"] => verdict[d] = "none"
      BY <2>1, <2>3 DEF Inv, Flow, DecidedSent, Sent, CmdRank, Rank, Commands
    <3>2. verdict["FETCH"] = "none"
      BY <2>1, <2>3 DEF Inv, Flow, DecidedSent, Sent, CmdRank, Rank, Commands
    <3>3. Len(Stream) = Before("FETCH") + Len(ReplyTo("FETCH")) /\ Before("FETCH") \in Nat
      BY <1>1, <3>1, LastDue DEF Commands
    <3>4. Len(ReplyTo("FETCH")) = 0
      BY <1>1, <3>2, ReplyToType DEF Commands
    <3> QED BY <2>1, <2>3, <3>3, <3>4 DEF Inv, Flow, Streamed
  <2> QED BY <1>2, <2>1, <2>2, <2>3 DEF Verbatim, CmdRank
<1>5. CASE ReadResponse
  <2>1. pc = "recv" /\ cmd \in {"GREET", "LOGIN", "SELECT"} /\ UNCHANGED packets /\ outcome = "none"
    BY <1>5 DEF ReadResponse, Successor, Inv, Control
  <2>2. packets = <<>>
    BY <2>1 DEF Verbatim, CmdRank, Rank
  <2>3. pc' \in {"send", "exit"} /\ outcome' # "Mail"
    BY <1>5, <2>1 DEF ReadResponse, Begin, Exit, Refusal
  <2> QED BY <2>1, <2>2, <2>3 DEF Verbatim
<1>6. CASE RetrieveRead
  <2>1. pc = "recv" /\ cmd = "FETCH" /\ UNCHANGED <<cmd, wire, verdict, served, conn>> /\ outcome = "none"
    BY <1>6 DEF RetrieveRead, ReadOn, Exit, Inv, Control
  <2>2. CASE UNCHANGED <<pos, packets>> /\ (ReadOn \/ Exit("FetchError"))
    <3>1. pc' \in {"recv", "exit"} /\ outcome' # "Mail"
      BY <2>1, <2>2 DEF ReadOn, Exit
    <3> QED BY <1>2, <2>1, <2>2, <3>1 DEF Verbatim, CmdRank, Rank
  <2>3. CASE \E n \in ReadSizes :
               /\ pos' = pos + n
               /\ packets' = packets \o Stored(Chunk(n))
               /\ \/ /\ Answer(Chunk(n)) = "OK"
                     /\ pc' = "dispatch"
                     /\ UNCHANGED <<cmd, left, outcome>>
                  \/ Answer(Chunk(n)) = "refused" /\ Exit("MessageNotFound")
                  \/ Answer(Chunk(n)) = "none" /\ ReadOn
    <3>1. PICK n \in ReadSizes :
               /\ pos' = pos + n
               /\ packets' = packets \o Stored(Chunk(n))
               /\ \/ /\ Answer(Chunk(n)) = "OK"
                     /\ pc' = "dispatch"
                     /\ UNCHANGED <<cmd, left, outcome>>
                  \/ Answer(Chunk(n)) = "refused" /\ Exit("MessageNotFound")
                  \/ Answer(Chunk(n)) = "none" /\ ReadOn
      BY <2>3
    <3>2. pos + n = Len(wire) /\ n \in Nat \ {0}
      BY <2>1, WholeRead, ChunkType DEF Inv, Flow
    <3>3. packets = <<>> /\ pos = Before("FETCH")
      <4>1. pos # Len(wire)
        BY <1>1, <3>2
      <4> QED BY <2>1, <4>1 DEF Verbatim
    <3>4. verdict["FETCH"] # "none"
      BY <2>1, <3>2, <3>3, ReadsReply DEF Inv, Commands
    <3>5. outcome' # "Mail" /\ pc' # "send"
      BY <2>1, <3>1 DEF Exit, ReadOn
    <3>6. ASSUME pc' = "dispatch", Plain(served["FETCH"]) PROVE Whole(packets', served["FETCH"])
      <4>1. Shows(Chunk(n), "A03", "OK")
        BY <2>1, <3>1, <3>6 DEF Exit, ReadOn, Answer
      <4> QED BY <2>1, <3>1, <3>2, <3>3, <3>6, <4>1, VerbatimRead
    <3>7. ~(CmdRank' < 3)
      BY <2>1 DEF CmdRank, Rank
    <3> QED BY <2>1, <3>1, <3>2, <3>4, <3>5, <3>6, <3>7 DEF Verbatim
  <2> QED BY <1>6, <2>2, <2>3 DEF RetrieveRead
<1>7. CASE Dispatch
  <2>1. /\ pc = "dispatch" /\ cmd = "FETCH" /\ outcome = "none" /\ UNCHANGED <<served, packets>>
        /\ pc' \in {"send", "exit"}
    BY <1>7 DEF Dispatch, Begin, Exit, serverVars, Inv, Control
  <2>2. cmd' \in {"FETCH", "PARSE", "LIST"} /\ (pc' = "send" => cmd' # "FETCH")
    BY <1>7, <2>1 DEF Dispatch, Begin, Exit
  <2> QED BY <2>1, <2>2 DEF Verbatim, CmdRank, Rank
<1>8. CASE ParseRead \/ ListRead
  <2>1. cmd \in {"PARSE", "LIST"} /\ cmd' = cmd /\ pc' \in {"recv", "exit"} /\ outcome' # "Mail"
    <3>1. CASE ParseRead
      BY <1>8, <3>1 DEF ParseRead, ReadOn, Exit, Inv, Control
    <3>2. CASE ListRead
      BY <1>8, <3>2 DEF ListRead, Listing, ReadOn, Exit, Inv, Control
    <3> QED BY <1>8, <3>1, <3>2
  <2> QED BY <2>1 DEF Verbatim, CmdRank, Rank
<1>9. CASE Server
  <2>1. PICK c \in Commands, s \in Statuses : \E data \in Literals(c, s) :
           /\ c2s # <<>> /\ c = c2s[1] /\ s \in Verdicts(c)
           /\ \A d \in Commands : Rank[d] >= Rank[c] => verdict[d] = "none"
           /\ wire' = wire \o Reply(c, s, data)
           /\ verdict' = [verdict EXCEPT ![c] = s]
           /\ served' = [served EXCEPT ![c] = data]
           /\ c2s' = Tail(c2s) /\ conn = "open" /\ pc # "exit"
           /\ UNCHANGED <<conn, pos, folder, clientVars>>
    BY <1>9, Served DEF Inv
  <2>2. PICK data \in Literals(c, s) :
           /\ c2s # <<>> /\ c = c2s[1] /\ pc # "exit" /\ conn = "open"
           /\ \A d \in Commands : Rank[d] >= Rank[c] => verdict[d] = "none"
           /\ verdict' = [verdict EXCEPT ![c] = s]
           /\ served' = [served EXCEPT ![c] = data]
           /\ UNCHANGED <<conn, pos, folder, clientVars>>
    BY <2>1
  <2>3. UNCHANGED <<pos, packets, cmd, pc, outcome>> /\ outcome = "none"
    BY <2>2 DEF clientVars, Inv, Control
  <2>4. pc = "recv" /\ c = cmd
    <3>1. pc = "recv" /\ c2s = <<cmd>>
      BY <2>2 DEF Aligned, Inv, Flow, TypeOK, Phases
    <3> QED BY <2>2, <3>1
  <2>5. verdict[c] = "none"
    BY <2>2 DEF Rank, Commands
  <2>6. Before(c)' = Before(c)
    <3>1. served \in [Commands -> Seq(Atoms)] /\ Rank[c] <= Rank[c]
      BY DEF Inv, Flow, TypeOK, ServerTypeOK, Rank, Commands
    <3> QED BY <1>1, <2>2, <3>1, StreamGrows
  <2>7. cmd = "FETCH" => packets = <<>> /\ pos = Before("FETCH")
    BY <2>2, <2>4, <2>5 DEF Verbatim
  <2> QED BY <2>3, <2>4, <2>6, <2>7 DEF Verbatim, CmdRank
<1>10. CASE Network
  <2>1. PICK n \in pos .. Len(wire) : wire' = SubSeq(wire, 1, n)
    BY <1>10 DEF Network, Disconnect
  <2>2. /\ conn' # "open" /\ pc # "exit"
        /\ UNCHANGED <<pos, packets, cmd, pc, outcome, verdict, served>>
    BY <1>10 DEF Network, Disconnect, clientVars
  <2>3. pos = Len(wire) => pos = Len(wire')
    BY <1>1, <2>1
  <2> QED BY <1>2, <2>2, <2>3 DEF Verbatim, CmdRank
<1>11. CASE Finished \/ UNCHANGED vars
  <2>1. UNCHANGED <<conn, wire, pos, packets, cmd, pc, outcome, verdict, served>>
    BY <1>11 DEF Finished, vars, serverVars, clientVars
  <2> QED BY <1>2, <2>1 DEF Verbatim, CmdRank
<1> QED BY <1>3, <1>4, <1>5, <1>6, <1>7, <1>8, <1>9, <1>10, <1>11 DEF Next, Client

\* When no reply is cut, `retrieve` prints the message and nothing else, but for a last
\* line end, whatever becomes of the connection (retrieve(), print_list_retrieve()).
THEOREM PrintsVerbatim == ASSUME Delivery = "replies" PROVE Spec => []MailVerbatim
<1>1. Init => Verbatim
  BY DEF Init, Verbatim
<1>2. Inv /\ Aligned /\ Verbatim /\ [Next]_vars => Verbatim'
  BY VerbatimStep
<1>3. Inv /\ Verbatim => MailVerbatim
  <2>1. Inv => packets \in Seq(Atoms) /\ served["FETCH"] \in Seq(Atoms)
    BY DEF Inv, Flow, TypeOK, ServerTypeOK, Commands
  <2> QED BY <2>1, PrintedReply DEF Verbatim, MailVerbatim
<1> QED BY <1>1, <1>2, <1>3, Invariance, AlwaysAligned, PTL DEF Spec

-----------------------------------------------------------------------------
\* Since it began to collect at q, not before the last line end of the fetch and not
\* behind the beginning of the reply, the client has kept what it has read.
CollectedFrom(q) ==
  /\ q \in 0 .. pos /\ Before("PARSE") - 1 <= q /\ q <= Before(cmd)
  /\ buf = SubSeq(wire, q + 1, pos)

\* What parse() and read_subjects() hold, and why they stopped.
Collected ==
  /\ CmdRank < 4 => buf = <<>>
  /\ pc = "dispatch" => Before("PARSE") - 1 <= pos
  /\ cmd \in {"PARSE", "LIST"} => \E q \in Nat : CollectedFrom(q)
  /\ outcome = "Headers" => cmd = "PARSE" /\ (conn # "open" \/ ShowsBlankLine(buf))
  /\ outcome = "Subjects" => cmd = "LIST" /\ (conn # "open" \/ ListDone(buf))

LEMMA SubSeqSame ==
  ASSUME NEW S, NEW b \in Seq(S), NEW x \in Seq(S), NEW q \in Nat, NEW p \in Nat,
         q <= p, p <= Len(b), p <= Len(x), \A i \in 1 .. p : x[i] = b[i]
  PROVE  SubSeq(x, q + 1, p) = SubSeq(b, q + 1, p)
<1> DEFINE u == SubSeq(x, q + 1, p)
           v == SubSeq(b, q + 1, p)
<1>1. /\ u \in Seq(S) /\ Len(u) = p - q /\ \A i \in 1 .. p - q : u[i] = x[q + i]
      /\ v \in Seq(S) /\ Len(v) = p - q /\ \A i \in 1 .. p - q : v[i] = b[q + i]
  OBVIOUS
<1>2. \A i \in 1 .. p - q : q + i \in 1 .. p
  OBVIOUS
<1> HIDE DEF u, v
<1>3. u = v
  BY <1>1, <1>2, SeqEqual
<1> QED BY <1>3 DEF u, v

\* A literal that has been read to its end is in what was collected.
LEMMA LiteralCollected ==
  ASSUME Flow, cmd \in {"PARSE", "LIST"}, NEW q \in Nat, CollectedFrom(q),
         verdict[cmd] = "OK" => Before(cmd) + 2 + Len(served[cmd]) <= pos
  PROVE  Within(served[cmd], buf)
<1> DEFINE d == served[cmd]
           b == Before(cmd)
           r == ReplyTo(cmd)
<1>1. /\ wire \in Seq(Atoms) /\ pos \in 0 .. Len(wire) /\ Len(wire) \in Nat /\ buf \in Seq(Atoms)
      /\ cmd \in Commands /\ Decisions
  BY DEF Flow, TypeOK, ServerTypeOK, Decisions, Commands
<1>2. /\ q <= pos /\ q <= b /\ buf = SubSeq(wire, q + 1, pos)
  BY <1>1 DEF CollectedFrom
<1>3. d \in Seq(Atoms) /\ (verdict[cmd] # "OK" => d = <<>>)
  BY <1>1, ReplyToType
<1>4. b \in Nat /\ \A j \in 1 .. Len(r) : Stream[b + j] = r[j]
  BY <1>1, StreamParts
<1>5. verdict[cmd] = "OK" => Len(r) = Len(d) + 7 /\ \A i \in 1 .. Len(d) : r[2 + i] = d[i]
  BY <1>1, ReplyToLayout
<1>6. \A k \in 1 .. Len(wire) : wire[k] = Stream[k]
  BY DEF Flow, Streamed
<1>7. verdict[cmd] = "OK" => b + 2 + Len(d) <= pos
  OBVIOUS
<1> HIDE DEF d, b, r
<1>8. CASE verdict[cmd] = "OK"
  <2> DEFINE m == b + 2 - q
  <2>1. Len(d) \in Nat /\ pos \in Nat /\ m \in Nat
    BY <1>1, <1>2, <1>3, <1>4
  <2>2. Len(buf) = pos - q /\ \A i \in 1 .. pos - q : buf[i] = wire[q + i]
    BY <1>1, <1>2, <2>1
  <2>3. m + Len(d) <= Len(buf)
    BY <1>2, <1>4, <1>7, <1>8, <2>1, <2>2
  <2>4. ASSUME NEW i \in 1 .. Len(d) PROVE buf[m + i] = d[i]
    <3>0. /\ Len(r) = Len(d) + 7 /\ b + 2 + Len(d) <= pos /\ pos <= Len(wire) /\ q <= b
          /\ b \in Nat /\ i \in Nat /\ 1 <= i /\ i <= Len(d)
      BY <1>1, <1>2, <1>4, <1>5, <1>7, <1>8, <2>1
    <3>1. m + i \in 1 .. pos - q /\ q + (m + i) = b + (2 + i) /\ b + (2 + i) \in 1 .. Len(wire)
          /\ 2 + i \in 1 .. Len(r)
      BY <1>1, <2>1, <3>0
    <3>2. buf[m + i] = wire[b + (2 + i)] /\ wire[b + (2 + i)] = Stream[b + (2 + i)]
      BY <1>6, <2>2, <3>1
    <3> QED BY <1>4, <1>5, <1>8, <3>1, <3>2
  <2> HIDE DEF m
  <2>5. Within(d, buf)
    BY <1>1, <1>3, <2>1, <2>3, <2>4, WithinAt
  <2> QED BY <2>5 DEF d
<1>9. CASE verdict[cmd] # "OK"
  <2>1. d \in Seq(Atoms) /\ Len(d) = 0 /\ 0 \in Nat /\ 0 + Len(d) <= Len(buf)
    BY <1>1, <1>3, <1>9
  <2>2. \A i \in 1 .. Len(d) : buf[0 + i] = d[i]
    BY <2>1
  <2>3. Within(d, buf)
    BY <1>1, <2>1, <2>2, WithinAt
  <2> QED BY <2>3 DEF d
<1> QED BY <1>8, <1>9

\* The header block that a server sends ends with a blank line, if it has one.
HeaderBlocks ==
  \A data \in Payloads["PARSE"] :
     \A i \in 1 .. Len(data) - 1 : data[i] = "eol" => i # 1 /\ data[i - 1] # "eol"

\* The first blank line behind the fetch is the one that ends the header block.
LEMMA CollectedHeaders ==
  ASSUME Flow, Collected, HeaderBlocks PROVE HeadersComplete
<1> SUFFICES ASSUME outcome = "Headers", conn = "open" PROVE Within(served["PARSE"], buf)
  BY DEF HeadersComplete
<1> DEFINE d == served["PARSE"]
           b == Before("PARSE")
           r == ReplyTo("PARSE")
<1>1. cmd = "PARSE" /\ ShowsBlankLine(buf)
  BY DEF Collected
<1>2. PICK q \in Nat : CollectedFrom(q)
  BY <1>1 DEF Collected
<1>3. /\ wire \in Seq(Atoms) /\ pos \in 0 .. Len(wire) /\ Len(wire) \in Nat /\ buf \in Seq(Atoms)
      /\ Decisions /\ "PARSE" \in Commands
  BY DEF Flow, TypeOK, ServerTypeOK, Decisions, Commands
<1>4. /\ q <= pos /\ b - 1 <= q /\ q <= b /\ buf = SubSeq(wire, q + 1, pos)
  BY <1>1, <1>2 DEF CollectedFrom
<1>5. Len(Stream) = b + Len(r) /\ b \in Nat /\ Len(r) \in Nat
  <2>1. \A c \in Commands : Rank[c] > Rank["PARSE"] => verdict[c] = "none"
    BY <1>1 DEF Flow, DecidedSent, Sent, CmdRank, Rank, Commands
  <2> QED BY <1>3, <2>1, LastDue
<1>6. \A j \in 1 .. Len(r) : Stream[b + j] = r[j]
  BY <1>3, StreamParts
<1>7. Len(wire) <= Len(Stream) /\ \A k \in 1 .. Len(wire) : wire[k] = Stream[k]
  BY DEF Flow, Streamed
<1>8. d \in Seq(Atoms) /\ Len(d) \in Nat
  BY <1>3, ReplyToType
<1>9. verdict["PARSE"] = "OK" => d \in Payloads["PARSE"]
  BY <1>3, ServerAssumption DEF Decisions, Answered, Literals, ServerAssumption
<1>10. PICK i \in 1 .. Len(buf) - 1 : buf[i] = "eol" /\ buf[i + 1] = "eol"
  BY <1>1 DEF ShowsBlankLine, Shows
<1> HIDE DEF d, b, r
<1> DEFINE k == q + i - b
<1>11. /\ pos \in Nat /\ Len(buf) = pos - q /\ \A j \in 1 .. pos - q : buf[j] = wire[q + j]
  BY <1>3, <1>4
<1>12. i \in 1 .. pos - q - 1 /\ i + 1 \in 1 .. pos - q /\ q + i + 1 <= pos
  BY <1>3, <1>4, <1>11
<1>13. wire[q + i] = "eol" /\ wire[q + i + 1] = "eol" /\ q + i + 1 \in 1 .. Len(wire) /\ q + i \in 1 .. Len(wire)
  <2>1. i \in 1 .. pos - q /\ q + (i + 1) = q + i + 1
    BY <1>3, <1>12
  <2>2. buf[i] = wire[q + i] /\ buf[i + 1] = wire[q + (i + 1)]
    BY <1>11, <1>12, <2>1
  <2>3. q + i + 1 \in 1 .. Len(wire) /\ q + i \in 1 .. Len(wire)
    BY <1>3, <1>12
  <2> QED BY <1>10, <2>1, <2>2, <2>3
<1>14. k \in Nat /\ k + 1 \in 1 .. Len(r) /\ b + (k + 1) = q + i + 1
  <2>1. q + i + 1 <= b + Len(r)
    BY <1>3, <1>5, <1>7, <1>13
  <2> QED BY <1>4, <1>5, <1>12, <2>1
<1>15. r[k + 1] = "eol"
  BY <1>6, <1>7, <1>13, <1>14
<1>16. k # 0 => k \in 1 .. Len(r) /\ r[k] = "eol"
  <2>1. ASSUME k # 0 PROVE k \in 1 .. Len(r) /\ r[k] = "eol"
    <3>1. k \in 1 .. Len(r) /\ b + k = q + i
      BY <1>4, <1>5, <1>12, <1>14, <2>1
    <3> QED BY <1>6, <1>7, <1>13, <3>1
  <2> QED BY <2>1
<1> HIDE DEF k
<1>17. verdict["PARSE"] # "none"
  <2>1. verdict["PARSE"] = "none" => Len(r) = 0
    BY <1>3, ReplyToType DEF r
  <2> QED BY <1>14, <2>1
<1>18. /\ Len(r) >= 3
       /\ r[Len(r) - 2] = "A04" /\ r[Len(r) - 1] = verdict["PARSE"]
       /\ verdict["PARSE"] # "OK" => Len(r) = 3
       /\ verdict["PARSE"] = "OK" =>
            /\ Len(r) = Len(d) + 7 /\ r[1] = "untagged" /\ r[2] = "eol"
            /\ \A j \in 1 .. Len(d) : r[2 + j] = d[j]
  BY <1>3, <1>17, ReplyToLayout DEF r, d, Tag
<1>19. verdict["PARSE"] = "OK"
  <2>1. ASSUME verdict["PARSE"] # "OK" PROVE FALSE
    <3>0. Len(r) = 3 /\ 3 - 2 = 1 /\ 3 - 1 = 2
      BY <1>18, <2>1
    <3>1. Len(r) = 3 /\ r[1] = "A04" /\ r[2] = verdict["PARSE"] /\ k + 1 \in {1, 2, 3}
      BY <1>14, <1>18, <3>0
    <3>2. verdict["PARSE"] # "eol"
      BY <1>3, <1>17 DEF Decisions, Statuses
    <3>3. k = 2
      BY <1>14, <1>15, <3>1, <3>2
    <3> QED BY <1>16, <3>1, <3>2, <3>3
  <2> QED BY <2>1
<1>20. k + 1 >= Len(d) + 2
  <2>1. ASSUME ~(k + 1 >= Len(d) + 2) PROVE FALSE
    <3>1. k # 0
      BY <1>15, <1>18, <1>19
    <3>2. k # 1
      BY <1>16, <1>18, <1>19
    <3>3. k - 1 \in 1 .. Len(d) - 1 /\ k - 1 \in 1 .. Len(d) /\ 2 + (k - 1) = k + 1
      BY <1>8, <1>14, <2>1, <3>1, <3>2
    <3>4. d[k - 1] = "eol"
      BY <1>15, <1>18, <1>19, <3>3
    <3>5. k - 1 # 1 /\ d[(k - 1) - 1] # "eol"
      BY <1>9, <1>19, <3>3, <3>4 DEF HeaderBlocks
    <3>6. k - 2 \in 1 .. Len(d) /\ 2 + (k - 2) = k /\ (k - 1) - 1 = k - 2
      BY <1>8, <1>14, <3>3, <3>5
    <3>7. d[k - 2] = r[k]
      BY <1>18, <1>19, <3>6
    <3> QED BY <1>16, <3>1, <3>5, <3>6, <3>7
  <2> QED BY <2>1
<1>21. b + 2 + Len(d) <= pos
  <2>1. q + i + 1 <= pos /\ b + (k + 1) = q + i + 1
    BY <1>12, <1>14
  <2>2. b + (k + 1) <= pos
    BY <2>1
  <2>3. b \in Nat /\ k \in Nat /\ pos \in Nat /\ Len(d) \in Nat
    BY <1>5, <1>8, <1>11, <1>14
  <2> QED BY <1>20, <2>2, <2>3
<1> QED BY <1>1, <1>2, <1>21, LiteralCollected DEF b, d

\* The answer to A06 comes behind the subjects.
LEMMA CollectedSubjects ==
  ASSUME Flow, Collected, HonestPayloads PROVE SubjectsComplete
<1> SUFFICES ASSUME outcome = "Subjects", conn = "open" PROVE Within(served["LIST"], buf)
  BY DEF SubjectsComplete
<1> DEFINE d == served["LIST"]
           b == Before("LIST")
           r == ReplyTo("LIST")
<1>1. cmd = "LIST" /\ ListDone(buf)
  BY DEF Collected
<1>2. PICK q \in Nat : CollectedFrom(q)
  BY <1>1 DEF Collected
<1>3. /\ wire \in Seq(Atoms) /\ pos \in 0 .. Len(wire) /\ Len(wire) \in Nat /\ buf \in Seq(Atoms)
      /\ Decisions /\ "LIST" \in Commands /\ Tag["LIST"] = "A06"
  BY DEF Flow, TypeOK, ServerTypeOK, Decisions, Commands, Tag
<1>4. /\ q <= pos /\ q <= b /\ buf = SubSeq(wire, q + 1, pos)
  BY <1>1, <1>2 DEF CollectedFrom
<1>5. PICK i \in 1 .. Len(buf) - 1 : buf[i] = "A06"
  BY <1>1 DEF ListDone, Shows
<1>6. /\ pos \in Nat /\ Len(buf) = pos - q /\ \A j \in 1 .. pos - q : buf[j] = wire[q + j]
  BY <1>3, <1>4
<1>7. q + i \in 1 .. Len(wire) /\ wire[q + i] = "A06" /\ q + i <= pos
  <2>1. i \in 1 .. pos - q
    BY <1>3, <1>4, <1>6
  <2>2. q + i \in 1 .. Len(wire) /\ q + i <= pos
    BY <1>3, <2>1
  <2> QED BY <1>5, <1>6, <2>1, <2>2
<1>8. Honest
  BY <1>3, HonestServed
<1>9. verdict["LIST"] # "none" /\ q + i = b + Len(r) - 2
  BY <1>3, <1>7, <1>8, TagInWire DEF Flow
<1>10. verdict["LIST"] = "OK" => Len(r) = Len(d) + 7
  BY <1>3, <1>9, ReplyToLayout
<1>11. d \in Seq(Atoms) /\ Len(d) \in Nat /\ Len(r) \in Nat
  BY <1>3, ReplyToType
<1>12. b \in Nat
  BY <1>3, StreamParts
<1> HIDE DEF d, b, r
<1>13. verdict["LIST"] = "OK" => b + 2 + Len(d) <= pos
  BY <1>6, <1>7, <1>9, <1>10, <1>11, <1>12
<1> QED BY <1>1, <1>2, <1>13, LiteralCollected DEF b, d

\* A step that reads nothing, and adds to the stream or loses what was not read.
LEMMA CollectedKept ==
  ASSUME Flow, Collected, UNCHANGED <<cmd, pos, buf>>,
         pc = "dispatch" \/ cmd \in {"PARSE", "LIST"} => Before("PARSE")' = Before("PARSE"),
         \A c \in Commands : Before(c) <= Before(c)' /\ Before(c)' \in Nat,
         wire' \in Seq(Atoms), pos <= Len(wire'), \A i \in 1 .. pos : wire'[i] = wire[i],
         pc' = "dispatch" => pc = "dispatch", conn' = "open" => conn = "open",
         outcome' \in {"Headers", "Subjects"} => outcome' = outcome
  PROVE  Collected'
<1>1. wire \in Seq(Atoms) /\ pos \in Nat /\ pos <= Len(wire) /\ Decisions
  BY DEF Flow, TypeOK, ServerTypeOK, Decisions
<1>2. ASSUME cmd \in {"PARSE", "LIST"}, NEW q \in Nat, CollectedFrom(q) PROVE CollectedFrom(q)'
  <2>1. cmd \in Commands
    BY <1>2 DEF Commands
  <2>2. /\ q <= pos /\ Before("PARSE") - 1 <= q /\ q <= Before(cmd) /\ buf = SubSeq(wire, q + 1, pos)
        /\ Before(cmd) \in Nat
    BY <1>1, <1>2, <2>1, StreamParts DEF CollectedFrom
  <2> DEFINE x == wire'
  <2>3. SubSeq(x, q + 1, pos) = SubSeq(wire, q + 1, pos)
    <3>1. x \in Seq(Atoms) /\ pos <= Len(x) /\ \A i \in 1 .. pos : x[i] = wire[i]
      OBVIOUS
    <3> HIDE DEF x
    <3> QED BY <1>1, <2>2, <3>1, SubSeqSame
  <2>4. q <= Before(cmd)'
    BY <2>1, <2>2
  <2>5. Before("PARSE")' - 1 <= q
    BY <1>2, <2>2
  <2>6. q \in 0 .. pos
    BY <1>1, <2>2
  <2> QED BY <2>2, <2>3, <2>4, <2>5, <2>6 DEF CollectedFrom
<1>3. cmd' \in {"PARSE", "LIST"} => \E q \in Nat : CollectedFrom(q)'
  BY <1>2 DEF Collected
<1>4. CmdRank' = CmdRank
  BY DEF CmdRank
<1>5. /\ ShowsBlankLine(buf)' = ShowsBlankLine(buf) /\ ListDone(buf)' = ListDone(buf)
  OBVIOUS
<1>6. pc' = "dispatch" => Before("PARSE")' - 1 <= pos
  BY DEF Collected
<1> QED BY <1>3, <1>4, <1>5, <1>6 DEF Collected

\* One turn of the loop of parse() or read_subjects().
LEMMA CollectedRead ==
  ASSUME Flow, Collected, cmd \in {"PARSE", "LIST"}, NEW n \in ReadSizes,
         pos' = pos + n, buf' = buf \o Chunk(n), UNCHANGED <<cmd, wire, verdict, served>>
  PROVE  \E q \in Nat : CollectedFrom(q)'
<1>1. /\ wire \in Seq(Atoms) /\ pos \in Nat /\ n \in Nat \ {0} /\ pos + n <= Len(wire)
      /\ Len(wire) \in Nat
  BY DEF Flow, TypeOK, ServerTypeOK, ReadSizes
<1>2. PICK q \in Nat : CollectedFrom(q)
  BY DEF Collected
<1>3. q <= pos /\ Before("PARSE") - 1 <= q /\ q <= Before(cmd) /\ buf = SubSeq(wire, q + 1, pos)
  BY <1>1, <1>2 DEF CollectedFrom
<1>4. buf \o Chunk(n) = SubSeq(wire, q + 1, pos + n)
  <2>1. q + 1 \in 1 .. Len(wire) + 1 /\ pos \in ((q + 1) - 1) .. Len(wire) /\ pos + n \in pos .. Len(wire)
    BY <1>1, <1>3
  <2> QED BY <1>1, <1>3, <2>1, ConcatAdjacentSubSeq DEF Chunk
<1>5. Before("PARSE")' = Before("PARSE") /\ Before(cmd)' = Before(cmd)
  BY DEF Before, ReplyTo
<1>6. q \in 0 .. pos'
  BY <1>1, <1>3
<1>7. CollectedFrom(q)'
  BY <1>3, <1>4, <1>5, <1>6 DEF CollectedFrom
<1> QED BY <1>7

\* The OK that ends the fetch is the last but a line end of its reply.
LEMMA FetchedTo ==
  ASSUME Flow, Honest, NEW n \in ReadSizes, Shows(Chunk(n), "A03", "OK")
  PROVE  Before("PARSE") - 1 <= pos + n
<1>1. /\ wire \in Seq(Atoms) /\ pos \in Nat /\ n \in Nat \ {0} /\ pos + n <= Len(wire)
      /\ Len(wire) \in Nat /\ Decisions /\ "FETCH" \in Commands /\ Tag["FETCH"] = "A03"
  BY DEF Flow, TypeOK, ServerTypeOK, ReadSizes, Decisions, Commands, Tag
<1>2. Len(Chunk(n)) = n
  BY ChunkType DEF Flow
<1>3. PICK i \in 1 .. n - 1 : Chunk(n)[i] = "A03"
  BY <1>2 DEF Shows
<1>4. i \in 1 .. n
  BY <1>1
<1>5. wire[pos + i] = "A03" /\ pos + i \in 1 .. Len(wire)
  BY <1>3, <1>4, ChunkAt
<1>6. pos + i = Before("FETCH") + Len(ReplyTo("FETCH")) - 2
  BY <1>1, <1>5, TagInWire DEF Flow
<1>7. Before("PARSE") = Before("FETCH") + Len(ReplyTo("FETCH")) /\ Before("FETCH") \in Nat
      /\ Len(ReplyTo("FETCH")) \in Nat
  <2>1. Before("FETCH") \in Nat /\ Len(ReplyTo("FETCH")) \in Nat
    BY <1>1, StreamParts, ReplyToType
  <2> QED BY <2>1 DEF Before
<1> QED BY <1>1, <1>6, <1>7

LEMMA CollectedStep ==
  ASSUME Inv, FetchedFirst, Collected, HonestPayloads, [Next]_vars
  PROVE  Collected'
<1>1. /\ wire \in Seq(Atoms) /\ Len(wire) \in Nat /\ pos \in 0 .. Len(wire) /\ pos \in Nat /\ Decisions
      /\ served \in [Commands -> Seq(Atoms)]
  BY DEF Inv, Flow, TypeOK, ServerTypeOK, Decisions
<1>2. ASSUME UNCHANGED <<verdict, served>>
      PROVE  \A c \in Commands : Before(c)' = Before(c) /\ Before(c) <= Before(c)' /\ Before(c)' \in Nat
  <2>1. \A c \in Commands : Before(c)' = Before(c)
    BY <1>2 DEF Before, ReplyTo
  <2>2. \A c \in Commands : Before(c) \in Nat
    BY <1>1, StreamParts
  <2> QED BY <2>1, <2>2
<1>3. ASSUME UNCHANGED <<cmd, pos, buf, wire, verdict, served>>, pc' = "dispatch" => pc = "dispatch",
             conn' = "open" => conn = "open",
             outcome' \in {"Headers", "Subjects"} => outcome' = outcome
      PROVE  Collected'
  BY <1>1, <1>2, <1>3, CollectedKept DEF Inv, Commands
<1>4. CASE Resolve \/ TryAddress \/ OutOfAddresses
  <2>1. cmd = "GREET" /\ cmd' = cmd /\ buf' = buf /\ pc' # "dispatch" /\ outcome' \notin {"Headers", "Subjects"}
    BY <1>4 DEF Inv, Control, Resolve, TryAddress, OutOfAddresses, Exit
  <2> QED BY <2>1 DEF Collected, CmdRank
<1>5. CASE SendCommand
  <2>1. UNCHANGED <<cmd, pos, buf, wire, verdict, served>> /\ pc' # "dispatch" /\ (conn' = "open" => conn = "open")
    BY <1>5 DEF SendCommand, Exit
  <2>2. outcome' \in {"Headers", "Subjects"} => outcome' = outcome
    BY <1>5 DEF SendCommand, Exit
  <2> QED BY <1>3, <2>1, <2>2
<1>6. CASE ReadResponse
  <2>1. /\ cmd \in {"GREET", "LOGIN", "SELECT"} /\ UNCHANGED buf /\ outcome = "none"
    BY <1>6 DEF ReadResponse, Successor, Inv, Control
  <2>2. buf = <<>>
    BY <2>1 DEF Collected, CmdRank, Rank
  <2>3. /\ pc' # "dispatch" /\ outcome' \notin {"Headers", "Subjects"}
        /\ cmd' \notin {"PARSE", "LIST"}
    BY <1>6, <2>1 DEF ReadResponse, Begin, Exit, Refusal, Successor
  <2> QED BY <2>1, <2>2, <2>3 DEF Collected
<1>7. CASE RetrieveRead
  <2>1. /\ pc = "recv" /\ cmd = "FETCH" /\ UNCHANGED <<cmd, buf, verdict, served>> /\ outcome = "none"
    BY <1>7 DEF RetrieveRead, ReadOn, Exit, Inv, Control
  <2>2. buf = <<>> /\ outcome' \notin {"Headers", "Subjects"}
    BY <1>7, <2>1 DEF RetrieveRead, ReadOn, Exit, Collected, CmdRank, Rank
  <2>3. ASSUME pc' = "dispatch" PROVE Before("PARSE")' - 1 <= pos'
    <3>1. PICK n \in ReadSizes : pos' = pos + n /\ Answer(Chunk(n)) = "OK"
      BY <1>7, <2>1, <2>3 DEF RetrieveRead, ReadOn, Exit
    <3>2. Shows(Chunk(n), "A03", "OK")
      BY <3>1 DEF Answer
    <3>3. Honest
      BY <1>1, HonestServed
    <3>4. Before("PARSE") - 1 <= pos + n
      BY <3>2, <3>3, FetchedTo DEF Inv
    <3> QED BY <1>2, <2>1, <3>1, <3>4 DEF Commands
  <2> QED BY <2>1, <2>2, <2>3 DEF Collected
<1>8. CASE Dispatch
  <2>1. /\ pc = "dispatch" /\ cmd = "FETCH" /\ outcome = "none"
        /\ UNCHANGED <<conn, pos, wire, verdict, served, buf>>
    BY <1>8 DEF Dispatch, serverVars, Inv, Control
  <2>2. CASE \E o \in {"Mail", "MimePart", "MimeNone", "MimeInvalid", "Nothing"} : Exit(o)
    BY <1>3, <2>1, <2>2 DEF Exit
  <2>3. CASE \E c \in {"PARSE", "LIST"} : Begin(c)
    <3>1. cmd' \in {"PARSE", "LIST"} /\ pc' = "send" /\ outcome' = "none"
      BY <2>1, <2>3 DEF Begin
    <3>2. buf = <<>>
      BY <2>1 DEF Collected, CmdRank, Rank
    <3>3. verdict["PARSE"] = "none" /\ verdict["LIST"] = "none"
      BY <2>1 DEF Inv, Flow, DecidedSent, Sent, CmdRank, Rank, Commands
    <3>4. Len(ReplyTo("PARSE")) = 0 /\ Len(ReplyTo("LIST")) = 0
      BY <1>1, <3>3, ReplyToType DEF Commands
    <3>5. Before("PARSE") = Len(Stream) /\ Before("LIST") = Len(Stream)
      <4>1. Len(Stream) = Before("LIST") + Len(ReplyTo("LIST")) /\ Before("LIST") \in Nat /\ Before("PARSE") \in Nat
        BY <1>1, StreamParts DEF Commands
      <4>2. Before("LIST") = Before("PARSE") + Len(ReplyTo("PARSE"))
        BY DEF Before
      <4> QED BY <3>4, <4>1, <4>2
    <3>6. pos <= Len(Stream)
      <4>1. Len(Stream) \in Nat
        BY <1>1, StreamParts
      <4> QED BY <1>1, <4>1 DEF Inv, Flow, Streamed
    <3>7. SubSeq(wire, pos + 1, pos) = <<>>
      <4>1. \A m \in Nat : m + 1 \in Int /\ m \in Int /\ m < m + 1
        OBVIOUS
      <4> QED BY <1>1, <4>1, SubSeqEmpty
    <3>8. Before("PARSE") - 1 <= pos
      BY <2>1 DEF Collected
    <3>9. pos' <= Before(cmd)'
      <4>1. \A c \in Commands : Before(c)' = Before(c)
        BY <1>2, <2>1
      <4> QED BY <2>1, <3>1, <3>5, <3>6, <4>1 DEF Commands
    <3>10. Before("PARSE")' - 1 <= pos
      BY <1>2, <2>1, <3>8 DEF Commands
    <3>11. PICK p \in Nat : p = pos /\ p = pos'
      BY <1>1, <2>1
    <3>12. CollectedFrom(p)'
      <4>1. p \in 0 .. pos' /\ buf' = SubSeq(wire', p + 1, pos')
        BY <2>1, <3>2, <3>7, <3>11
      <4> QED BY <3>9, <3>10, <3>11, <4>1 DEF CollectedFrom
    <3>13. ~(CmdRank' < 4)
      BY <3>1 DEF CmdRank, Rank
    <3> QED BY <3>1, <3>12, <3>13 DEF Collected
  <2> QED BY <1>8, <2>2, <2>3 DEF Dispatch
<1>9. CASE ParseRead \/ ListRead
  <2>1. /\ pc = "recv" /\ cmd \in {"PARSE", "LIST"} /\ outcome = "none"
        /\ UNCHANGED <<conn, wire, verdict, served, cmd>> /\ pc' # "dispatch"
    BY <1>9 DEF ParseRead, ListRead, ReadOn, Exit, Inv, Control
  <2>2. ~(CmdRank' < 4)
    BY <2>1 DEF CmdRank, Rank
  <2>3. \E q \in Nat : CollectedFrom(q)'
    <3>1. CASE \E n \in ReadSizes : pos' = pos + n /\ buf' = buf \o Chunk(n)
      BY <2>1, <3>1, CollectedRead DEF Inv
    <3>2. CASE UNCHANGED <<pos, buf>>
      <4>1. PICK q \in Nat : CollectedFrom(q)
        BY <2>1 DEF Collected
      <4>2. Before("PARSE")' = Before("PARSE") /\ Before(cmd)' = Before(cmd)
        BY <2>1 DEF Before, ReplyTo
      <4> QED BY <2>1, <3>2, <4>1, <4>2 DEF CollectedFrom
    <3>3. CASE ParseRead
      BY <3>1, <3>2, <3>3 DEF ParseRead
    <3>4. CASE ListRead
      BY <3>1, <3>2, <3>4 DEF ListRead
    <3> QED BY <1>9, <3>3, <3>4
  <2>4. outcome' = "Headers" => cmd = "PARSE" /\ (conn # "open" \/ ShowsBlankLine(buf'))
    <3>1. CASE ParseRead
      BY <2>1, <3>1 DEF ParseRead, Exit, ReadOn, AtEnd
    <3>2. CASE ListRead
      BY <2>1, <3>2 DEF ListRead, Listing, Exit, ReadOn
    <3> QED BY <1>9, <3>1, <3>2
  <2>5. outcome' = "Subjects" => cmd = "LIST" /\ (conn # "open" \/ ListDone(buf'))
    <3>1. CASE ParseRead
      BY <2>1, <3>1 DEF ParseRead, Exit, ReadOn
    <3>2. CASE ListRead
      BY <2>1, <3>2 DEF ListRead, Exit, ReadOn, AtEnd
    <3> QED BY <1>9, <3>1, <3>2
  <2> QED BY <2>1, <2>2, <2>3, <2>4, <2>5 DEF Collected
<1>10. CASE Server
  <2>1. PICK c \in Commands, s \in Statuses : \E data \in Literals(c, s) :
           /\ c2s # <<>> /\ c = c2s[1] /\ s \in Verdicts(c)
           /\ \A d \in Commands : Rank[d] >= Rank[c] => verdict[d] = "none"
           /\ wire' = wire \o Reply(c, s, data)
           /\ verdict' = [verdict EXCEPT ![c] = s]
           /\ served' = [served EXCEPT ![c] = data]
           /\ c2s' = Tail(c2s) /\ conn = "open" /\ pc # "exit"
           /\ UNCHANGED <<conn, pos, folder, clientVars>>
    BY <1>10, Served DEF Inv
  <2>2. PICK data \in Literals(c, s) :
           /\ \A d \in Commands : Rank[d] >= Rank[c] => verdict[d] = "none"
           /\ wire' = wire \o Reply(c, s, data)
           /\ verdict' = [verdict EXCEPT ![c] = s]
           /\ served' = [served EXCEPT ![c] = data]
           /\ conn = "open" /\ UNCHANGED <<conn, pos, folder, clientVars>>
    BY <2>1
  <2>3. /\ wire' \in Seq(Atoms) /\ Len(wire) <= Len(wire')
        /\ \A i \in 1 .. Len(wire) : wire'[i] = wire[i]
    BY <2>2, ServeStream DEF Inv, Flow
  <2>4. \A d \in Commands : /\ Before(d) <= Before(d)' /\ Before(d)' \in Nat
                            /\ Rank[d] <= Rank[c] => Before(d)' = Before(d)
    BY <1>1, <2>2, StreamGrows
  <2>5. ASSUME verdict["FETCH"] = "OK" PROVE Before("PARSE")' = Before("PARSE")
    <3>1. ~(Rank["FETCH"] >= Rank[c])
      BY <2>2, <2>5 DEF Commands
    <3>2. c \in {"PARSE", "LIST"}
      BY <3>1 DEF Rank, Commands
    <3>3. Rank["PARSE"] <= Rank[c]
      BY <3>2 DEF Rank
    <3> QED BY <2>4, <3>3 DEF Commands
  <2>6. pc = "dispatch" \/ cmd \in {"PARSE", "LIST"} => Before("PARSE")' = Before("PARSE")
    BY <2>5 DEF FetchedFirst
  <2>7. pos <= Len(wire') /\ \A i \in 1 .. pos : wire'[i] = wire[i]
    BY <1>1, <2>3
  <2>8. UNCHANGED <<cmd, pos, buf, pc, outcome, conn>>
    BY <2>2 DEF clientVars
  <2> QED BY <2>3, <2>4, <2>6, <2>7, <2>8, CollectedKept DEF Inv
<1>11. CASE Network
  <2>1. PICK n \in pos .. Len(wire) : wire' = SubSeq(wire, 1, n)
    BY <1>11 DEF Network, Disconnect
  <2>2. UNCHANGED <<cmd, pos, buf, pc, outcome, verdict, served>> /\ conn = "open"
    BY <1>11 DEF Network, Disconnect, clientVars
  <2>3. wire' \in Seq(Atoms) /\ pos <= Len(wire') /\ \A i \in 1 .. pos : wire'[i] = wire[i]
    <3>1. wire' \in Seq(Atoms) /\ Len(wire') = n /\ \A i \in 1 .. n : wire'[i] = wire[i]
      BY <1>1, <2>1
    <3> QED BY <1>1, <2>1, <3>1
  <2> QED BY <1>2, <2>2, <2>3, CollectedKept DEF Inv, Commands
<1>12. CASE Finished \/ UNCHANGED vars
  BY <1>3, <1>12 DEF Finished, vars, serverVars, clientVars
<1> QED BY <1>4, <1>5, <1>6, <1>7, <1>8, <1>9, <1>10, <1>11, <1>12 DEF Next, Client

LEMMA AlwaysCollected == ASSUME HonestPayloads PROVE Spec => []Collected
<1>1. Init => Collected
  BY DEF Init, Collected
<1>2. Inv /\ FetchedFirst /\ Collected /\ [Next]_vars => Collected'
  BY CollectedStep
<1> QED BY <1>1, <1>2, Invariance, FetchedBeforeUse, PTL DEF Spec

\* parse() prints headers from the whole header block, or from what a lost connection
\* left of it, however far behind the stream the client started: a line end left of the
\* fetch does not make a blank line with the response (parse()).
THEOREM CollectsHeaders ==
  ASSUME HonestPayloads, HeaderBlocks PROVE Spec => []HeadersComplete
<1>1. Inv /\ Collected => HeadersComplete
  BY CollectedHeaders DEF Inv
<1> QED BY <1>1, Invariance, AlwaysCollected, PTL

\* read_subjects() returns every subject, or what a lost connection left of them
\* (read_subjects(), list()).
THEOREM CollectsSubjects == ASSUME HonestPayloads PROVE Spec => []SubjectsComplete
<1>1. Inv /\ Collected => SubjectsComplete
  BY CollectedSubjects DEF Inv
<1> QED BY <1>1, Invariance, AlwaysCollected, PTL
=============================================================================
