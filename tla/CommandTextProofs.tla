------------------------- MODULE CommandTextProofs -------------------------
(***************************************************************************)
(* Whatever the command line and the sizes of the buffers: each command is *)
(* one line, and a folder's name that fits is not written past its buffer. *)
(***************************************************************************)
EXTENDS CommandText, SequenceTheorems, FiniteSetTheorems, WellFoundedInduction,
        TLAPS

\* Every set of naturals with an upper bound has a greatest element.
LEMMA GreatestNat ==
  ASSUME NEW N \in Nat, NEW T, T \subseteq 0 .. N, T # {}
  PROVE  \E x \in T : \A y \in T : y <= x
<1> DEFINE U == {u \in 0 .. N : N - u \in T}
<1>1. U # {}
  <2>1. PICK x \in T : TRUE
    OBVIOUS
  <2>2. N - x \in 0 .. N /\ N - (N - x) = x
    BY <2>1
  <2>3. N - x \in U
    BY <2>1, <2>2
  <2> QED BY <2>3
<1>2. U \subseteq Nat
  OBVIOUS
<1>3. PICK u \in U : \A y \in U : ~(<<y, u>> \in OpToRel(<, Nat))
  BY <1>1, <1>2, NatLessThanWellFounded, WFMin, Zenon
<1>4. N - u \in T /\ u \in Nat
  OBVIOUS
<1>5. ASSUME NEW y \in T PROVE y <= N - u
  <2>1. y \in Nat /\ N - y \in 0 .. N /\ N - (N - y) = y
    OBVIOUS
  <2>2. N - y \in U
    BY <2>1
  <2> HIDE DEF U
  <2>3. ~(<<N - y, u>> \in OpToRel(<, Nat))
    BY <1>3, <2>2
  <2>4. N - y \in Nat /\ u \in Nat
    BY <1>4, <2>1
  <2>5. ~(N - y < u)
    BY <2>3, <2>4 DEF OpToRel
  <2> QED BY <2>1, <2>4, <2>5
<1> QED BY <1>4, <1>5

\* What is true of 1, and of n + 1 when it is of n, is true up to m.
LEMMA Steps ==
  ASSUME NEW m \in Nat, NEW T, 1 \in T, \A n \in 1 .. m - 1 : n \in T => n + 1 \in T
  PROVE  \A n \in 1 .. m : n \in T
<1> DEFINE Good == {x \in 0 .. m : \A n \in 1 .. x : n \in T}
<1>1. 0 \in Good
  OBVIOUS
<1>2. PICK x \in Good : \A y \in Good : y <= x
  <2>1. Good \subseteq 0 .. m /\ Good # {}
    BY <1>1
  <2> HIDE DEF Good
  <2> QED BY <2>1, GreatestNat
<1>3. x = m
  <2>1. SUFFICES ASSUME x # m PROVE FALSE
    OBVIOUS
  <2>2. x \in Nat /\ x + 1 \in 0 .. m /\ \A n \in 1 .. x : n \in T
    BY <1>2, <2>1
  <2>3. x + 1 \in T
    <3>1. CASE x = 0
      BY <3>1
    <3>2. CASE x # 0
      <4>1. x \in 1 .. m - 1 /\ x \in 1 .. x
        BY <2>2, <3>2
      <4> QED BY <2>2, <4>1
    <3> QED BY <3>1, <3>2
  <2>4. \A n \in 1 .. x + 1 : n \in T
    <3> SUFFICES ASSUME NEW n \in 1 .. x + 1 PROVE n \in T
      OBVIOUS
    <3>1. n = x + 1 \/ n \in 1 .. x
      BY <2>2
    <3> QED BY <2>2, <2>3, <3>1
  <2>5. x + 1 \in Good
    BY <2>2, <2>4
  <2> QED BY <1>2, <2>2, <2>5
<1> QED BY <1>2, <1>3

-----------------------------------------------------------------------------
USE DEF LineEnds, FetchMail

\* A text without a line end in it.
Clean(t) == \A k \in 1 .. Len(t) : t[k] \notin LineEnds

\* What check_for_injection() lets pass.
LEMMA NoBreakIsClean ==
  ASSUME NEW t \in Seq(Chars), ~HasBreak(t)
  PROVE  Clean(t)
BY DEF Clean, HasBreak

\* Two texts without a line end make a text without one.
LEMMA CleanConcat ==
  ASSUME NEW S, NEW s \in Seq(S), NEW t \in Seq(S), Clean(s), Clean(t)
  PROVE  s \o t \in Seq(S) /\ Clean(s \o t) /\ Len(s \o t) = Len(s) + Len(t)
BY DEF Clean

\* One token that is no line end.
LEMMA CleanToken ==
  ASSUME NEW S, NEW e \in S, e \notin LineEnds
  PROVE  <<e>> \in Seq(S) /\ Clean(<<e>>) /\ Len(<<e>>) = 1
BY DEF Clean

LEMMA CleanPair ==
  ASSUME NEW S, NEW e \in S, NEW f \in S, e \notin LineEnds, f \notin LineEnds
  PROVE  <<e, f>> \in Seq(S) /\ Clean(<<e, f>>) /\ Len(<<e, f>>) = 2
BY DEF Clean

LEMMA CleanTriple ==
  ASSUME NEW S, NEW e \in S, NEW f \in S, NEW g \in S,
         e \notin LineEnds, f \notin LineEnds, g \notin LineEnds
  PROVE  <<e, f, g>> \in Seq(S) /\ Clean(<<e, f, g>>) /\ Len(<<e, f, g>>) = 3
<1>1. <<e, f, g>> \in Seq(S) /\ Len(<<e, f, g>>) = 3
  OBVIOUS
<1>2. ASSUME NEW k \in 1 .. 3 PROVE <<e, f, g>>[k] \notin LineEnds
  <2>1. k = 1 \/ k = 2 \/ k = 3
    OBVIOUS
  <2> QED BY <2>1
<1> QED BY <1>1, <1>2 DEF Clean

-----------------------------------------------------------------------------
\* A command text with the line end after it.
OneLine(t) == WholeLine(t) /\ \A k \in 1 .. Len(t) - 2 : t[k] \notin LineEnds

\* The line end is text of a command.
LEMMA EolIsText ==
  /\ Eol \in Seq(CommandChars)
  /\ Len(Eol) = 2 /\ Eol[1] = "CR" /\ Eol[2] = "LF"
<1>1. "CR" \in CommandChars /\ "LF" \in CommandChars
  BY DEF CommandChars
<1> QED BY <1>1 DEF Eol

\* A text without a line end and the line end are a line.
LEMMA LineOfClean ==
  ASSUME NEW t \in Seq(CommandChars), Clean(t)
  PROVE  t \o Eol \in Seq(CommandChars) /\ OneLine(t \o Eol)
<1>2. /\ Eol \in Seq(CommandChars)
      /\ Len(Eol) = 2 /\ Eol[1] = "CR" /\ Eol[2] = "LF"
  BY EolIsText
<1>3. /\ t \o Eol \in Seq(CommandChars)
      /\ Len(t \o Eol) = Len(t) + Len(Eol)
      /\ \A k \in 1 .. Len(t) + Len(Eol) :
           (t \o Eol)[k] = IF k <= Len(t) THEN t[k] ELSE Eol[k - Len(t)]
  BY <1>2, ConcatProperties
<1>4. Len(t) \in Nat
  OBVIOUS
<1>5. /\ Len(t \o Eol) = Len(t) + 2
      /\ \A k \in 1 .. Len(t) : (t \o Eol)[k] = t[k]
      /\ (t \o Eol)[Len(t) + 1] = "CR" /\ (t \o Eol)[Len(t) + 2] = "LF"
  BY <1>2, <1>3, <1>4
<1>6. WholeLine(t \o Eol)
  BY <1>4, <1>5 DEF WholeLine
<1> QED BY <1>3, <1>4, <1>5, <1>6 DEF OneLine, Clean

\* What snprintf() leaves of a line is a line, or the beginning of one.
LEMMA LineFormatted ==
  ASSUME NEW t \in Seq(CommandChars), OneLine(t), NEW size \in Nat, size > 1
  PROVE  /\ Formatted(size, t) \in Seq(CommandChars)
         /\ \A k \in 1 .. Len(Formatted(size, t)) - 2 : Formatted(size, t)[k] \notin LineEnds
         /\ WholeLine(Formatted(size, t)) \/ CutLine(Formatted(size, t), size)
<1>1. CASE Len(t) < size
  BY <1>1 DEF Formatted, OneLine
<1>2. CASE ~(Len(t) < size)
  <2>1. size - 1 \in 0 .. Len(t) - 1 /\ Len(t) >= 2
    BY <1>2 DEF OneLine, WholeLine
  <2>2. /\ SubSeq(t, 1, size - 1) \in Seq(CommandChars)
        /\ Len(SubSeq(t, 1, size - 1)) = size - 1
        /\ \A k \in 1 .. size - 1 : SubSeq(t, 1, size - 1)[k] = t[k]
    BY <2>1
  <2>3. \A k \in 1 .. size - 1 : t[k] # "LF"
    BY <2>1 DEF OneLine, WholeLine
  <2>4. Formatted(size, t) = SubSeq(t, 1, size - 1)
    BY <1>2 DEF Formatted
  <2>5. CutLine(Formatted(size, t), size)
    BY <2>2, <2>3, <2>4 DEF CutLine
  <2> QED BY <2>1, <2>2, <2>4, <2>5 DEF OneLine
<1> QED BY <1>1, <1>2

-----------------------------------------------------------------------------
(* The invariant: what the commands are formatted from has no line end.    *)

\* Each argument that a command takes its text from.
CleanArguments ==
  /\ Clean(fetch_mail.username)
  /\ Clean(fetch_mail.password)
  /\ Clean(fetch_mail.folder)

\* The number of -n is one that a numeral denotes.
Denoted ==
  fetch_mail.messageNum = -1 \/ \E c \in DOMAIN Numeral : Numeral[c] = fetch_mail.messageNum

\* Nothing is sent before the arguments are complete.
InOrder ==
  /\ pc \notin {"args", "usage"} => Complete
  /\ pc \in {"args", "usage", "LOGIN"} => j = 0 /\ escaped = <<>> /\ sent = <<>>

\* Each character of the name has become one or two.
EscapedSoFar ==
  /\ j <= Len(folder_name)
  /\ Len(escaped) <= 2 * j
  /\ Clean(escaped)

Inv ==
  /\ TypeOK
  /\ CleanArguments /\ Denoted
  /\ InOrder
  /\ EscapedSoFar
  /\ OneCommandOneLine
  /\ FolderFits

LEMMA InitInv == Init => Inv
<1> SUFFICES ASSUME Init PROVE Inv
  OBVIOUS
<1> USE CommandLineAssumption, CommandTextAssumption DEF Init, ArgsInit
<1>1. argv \in Seq(Seq(Chars)) /\ Len(argv) \in Nat
  BY DEF CommandLineAssumption, Composed, argv
<1>2. ArgsTypeOK
  BY <1>1 DEF ArgsTypeOK, Word
<1>3. TypeOK
  BY <1>2 DEF TypeOK
<1>4. CleanArguments
  BY DEF CleanArguments, Clean, Null
<1>5. Denoted /\ InOrder
  BY DEF Denoted, InOrder
<1>6. folder_name = <<"INBOX">>
  BY DEF folder_name
<1>7. EscapedSoFar
  BY <1>6 DEF EscapedSoFar, Clean
<1>8. OneCommandOneLine /\ FolderFits
  BY DEF OneCommandOneLine, FolderFits
<1> QED BY <1>3, <1>4, <1>5, <1>7, <1>8 DEF Inv

-----------------------------------------------------------------------------
(* parse_args()                                                            *)

\* What a step of parse_args() keeps or establishes.
ArgsKept ==
  /\ pc = "args"
  /\ ArgsTypeOK'
  /\ CleanArguments' /\ Denoted'
  /\ pc' \in {"args", "usage", "LOGIN"}
  /\ pc' = "LOGIN" => Complete'

LEMMA UsageKept ==
  ASSUME Inv, pc = "args", Usage
  PROVE  ArgsKept
BY DEF Inv, TypeOK, ArgsTypeOK, argv, CleanArguments, Denoted, Usage, ArgsKept

LEMMA ArgvTyped ==
  ASSUME Inv
  PROVE  argv \in Seq(Seq(Chars)) /\ Len(argv) \in Nat /\ i \in 1 .. Len(argv) + 1
BY CommandLineAssumption DEF Inv, TypeOK, ArgsTypeOK, argv, CommandLineAssumption, Composed

\* An argument that is stored keeps the others, and the types.
LEMMA StoreKept ==
  ASSUME Inv, pc = "args", NEW n \in 1 .. 2, i + n <= Len(argv) + 1, UNCHANGED <<given, pc>>,
         i' = i + n,
         fetch_mail' \in FetchMail,
         CleanArguments', Denoted'
  PROVE  ArgsKept
<1>1. i \in 1 .. Len(argv) + 1 /\ Len(argv) \in Nat /\ argv' = argv
  BY ArgvTyped DEF argv
<1>2. ArgsTypeOK'
  BY <1>1 DEF Inv, TypeOK, ArgsTypeOK
<1> QED BY <1>2 DEF ArgsKept

LEMMA ArgsStepKept ==
  ASSUME Inv, ArgsStep
  PROVE  ArgsKept
<1> USE DEF Option, InLoop
<1>0. pc = "args"
  BY DEF ArgsStep, User, Password, Folder, Number, Tls, Positional, EndOfArgs
<1>1. /\ argv \in Seq(Seq(Chars)) /\ Len(argv) \in Nat /\ i \in 1 .. Len(argv) + 1
      /\ fetch_mail \in FetchMail
      /\ CleanArguments /\ Denoted
  BY ArgvTyped DEF Inv, TypeOK, ArgsTypeOK
<1>2. \A k \in 1 .. Len(argv) : argv[k] \in Seq(Chars)
  BY <1>1
<1>3. i < Len(argv) => argv[i + 1] \in Seq(Chars) /\ (~HasBreak(argv[i + 1]) => Clean(argv[i + 1]))
  BY <1>1, <1>2, NoBreakIsClean
<1> DEFINE w == argv[i + 1]
<1>4. CASE User
  <2>1. CASE ~HasBreak(w)
    <3>1. Store("username", w, 2) /\ w \in Seq(Chars) /\ Clean(w) /\ i < Len(argv)
      BY <1>3, <1>4, <2>1 DEF User
    <3> HIDE DEF w
    <3>2. fetch_mail' = [fetch_mail EXCEPT !.username = w] /\ i' = i + 2 /\ UNCHANGED <<given, pc>>
      BY <3>1 DEF Store
    <3>3. /\ fetch_mail'.username = w /\ fetch_mail'.password = fetch_mail.password
          /\ fetch_mail'.folder = fetch_mail.folder
          /\ fetch_mail'.messageNum = fetch_mail.messageNum
      BY <1>1, <3>2
    <3>4. CleanArguments' /\ Denoted'
      BY <1>1, <3>1, <3>3 DEF CleanArguments, Denoted
    <3>5. fetch_mail' \in FetchMail
      BY <1>1, <3>1, <3>2 DEF Word
    <3> QED BY <1>0, <1>1, <3>1, <3>2, <3>4, <3>5, StoreKept
  <2>2. CASE HasBreak(w)
    BY <1>0, <1>4, <2>2, UsageKept DEF User
  <2> QED BY <2>1, <2>2
<1>5. CASE Password
  <2>1. CASE ~HasBreak(w)
    <3>1. Store("password", w, 2) /\ w \in Seq(Chars) /\ Clean(w) /\ i < Len(argv)
      BY <1>3, <1>5, <2>1 DEF Password
    <3> HIDE DEF w
    <3>2. fetch_mail' = [fetch_mail EXCEPT !.password = w] /\ i' = i + 2 /\ UNCHANGED <<given, pc>>
      BY <3>1 DEF Store
    <3>3. /\ fetch_mail'.username = fetch_mail.username /\ fetch_mail'.password = w
          /\ fetch_mail'.folder = fetch_mail.folder
          /\ fetch_mail'.messageNum = fetch_mail.messageNum
      BY <1>1, <3>2
    <3>4. CleanArguments' /\ Denoted'
      BY <1>1, <3>1, <3>3 DEF CleanArguments, Denoted
    <3>5. fetch_mail' \in FetchMail
      BY <1>1, <3>1, <3>2 DEF Word
    <3> QED BY <1>0, <1>1, <3>1, <3>2, <3>4, <3>5, StoreKept
  <2>2. CASE HasBreak(w)
    BY <1>0, <1>5, <2>2, UsageKept DEF Password
  <2> QED BY <2>1, <2>2
<1>6. CASE Folder
  <2>1. CASE ~(w = <<>> \/ HasBreak(w))
    <3>1. Store("folder", w, 2) /\ w \in Seq(Chars) /\ Clean(w) /\ i < Len(argv)
      BY <1>3, <1>6, <2>1 DEF Folder
    <3> HIDE DEF w
    <3>2. fetch_mail' = [fetch_mail EXCEPT !.folder = w] /\ i' = i + 2 /\ UNCHANGED <<given, pc>>
      BY <3>1 DEF Store
    <3>3. /\ fetch_mail'.username = fetch_mail.username
          /\ fetch_mail'.password = fetch_mail.password /\ fetch_mail'.folder = w
          /\ fetch_mail'.messageNum = fetch_mail.messageNum
      BY <1>1, <3>2
    <3>4. CleanArguments' /\ Denoted'
      BY <1>1, <3>1, <3>3 DEF CleanArguments, Denoted
    <3>5. fetch_mail' \in FetchMail
      BY <1>1, <3>1, <3>2 DEF Word
    <3> QED BY <1>0, <1>1, <3>1, <3>2, <3>4, <3>5, StoreKept
  <2>2. CASE w = <<>> \/ HasBreak(w)
    BY <1>0, <1>6, <2>2, UsageKept DEF Folder
  <2> QED BY <2>1, <2>2
<1>7. CASE Number
  <2> DEFINE n == NumberOf(w)
  <2>1. CASE IsNumber(w) /\ InRange(n)
    <3>1. /\ fetch_mail' = [fetch_mail EXCEPT !.messageNum = n % IntSpan]
          /\ i' = i + 2 /\ UNCHANGED <<given, pc>> /\ i < Len(argv)
      BY <1>7, <2>1 DEF Number, Store
    <3>2. Last(w) \in DOMAIN Numeral /\ n = Numeral[Last(w)]
      BY <2>1 DEF IsNumber, NumberOf
    <3>3. n \in Int /\ 0 <= n /\ n <= 1000
      BY <2>1, <3>2, CommandLineAssumption DEF CommandLineAssumption, InRange, INT_MAX_UTIL
    <3> HIDE DEF n
    <3>4. n % IntSpan = n
      BY <3>3, CommandLineAssumption DEF CommandLineAssumption, INT_MAX_UTIL
    <3>5. /\ fetch_mail'.username = fetch_mail.username
          /\ fetch_mail'.password = fetch_mail.password
          /\ fetch_mail'.folder = fetch_mail.folder
          /\ fetch_mail'.messageNum = n
      BY <1>1, <3>1, <3>4
    <3>6. CleanArguments' /\ Denoted'
      BY <1>1, <3>2, <3>5 DEF CleanArguments, Denoted
    <3>7. fetch_mail' \in FetchMail
      BY <1>1, <3>1, <3>3, <3>4
    <3> QED BY <1>0, <1>1, <3>1, <3>6, <3>7, StoreKept
  <2>2. CASE ~(IsNumber(w) /\ InRange(n))
    BY <1>0, <1>7, <2>2, UsageKept DEF Number
  <2> QED BY <2>1, <2>2
<1>8. CASE Tls
  <2>1. /\ fetch_mail' = [fetch_mail EXCEPT !.isTLS = TRUE]
        /\ i' = i + 1 /\ UNCHANGED <<given, pc>> /\ i <= Len(argv)
    BY <1>8 DEF Tls, Store
  <2>2. CleanArguments' /\ Denoted'
    BY <1>1, <2>1 DEF CleanArguments, Denoted
  <2>3. fetch_mail' \in FetchMail
    BY <1>1, <2>1
  <2> QED BY <1>0, <1>1, <2>1, <2>2, <2>3, StoreKept
<1>9. CASE Positional
  <2> DEFINE a == argv[i]
             f == IF fetch_mail.command = Null THEN "command" ELSE "server_name"
  <2>1. CASE Usage
    BY <1>0, <2>1, UsageKept
  <2>2. CASE ~Usage
    <3>1. Store(f, a, 1) /\ i <= Len(argv) /\ a \in Seq(Chars)
      BY <1>1, <1>2, <1>9, <2>2 DEF Positional
    <3> HIDE DEF a
    <3>2. \/ fetch_mail' = [fetch_mail EXCEPT !.command = a]
          \/ fetch_mail' = [fetch_mail EXCEPT !.server_name = a]
      BY <3>1 DEF Store
    <3>3. i' = i + 1 /\ UNCHANGED <<given, pc>>
      BY <3>1 DEF Store
    <3>4. /\ fetch_mail'.username = fetch_mail.username
          /\ fetch_mail'.password = fetch_mail.password
          /\ fetch_mail'.folder = fetch_mail.folder
          /\ fetch_mail'.messageNum = fetch_mail.messageNum
      BY <1>1, <3>2
    <3>5. CleanArguments' /\ Denoted'
      BY <1>1, <3>4 DEF CleanArguments, Denoted
    <3>6. fetch_mail' \in FetchMail
      BY <1>1, <3>1, <3>2 DEF Word
    <3> QED BY <1>0, <1>1, <3>1, <3>3, <3>5, <3>6, StoreKept
  <2> QED BY <2>1, <2>2
<1>10. CASE EndOfArgs
  <2>1. CASE Usage
    BY <1>0, <2>1, UsageKept
  <2>2. CASE ~Usage
    <3>1. Complete /\ pc' = "LOGIN" /\ UNCHANGED <<given, i, fetch_mail>>
      BY <1>10, <2>2 DEF EndOfArgs
    <3> QED BY <1>0, <1>1, <3>1 DEF Inv, TypeOK, ArgsTypeOK, argv, CleanArguments, Denoted, Complete, ArgsKept
  <2> QED BY <2>1, <2>2
<1> QED BY <1>4, <1>5, <1>6, <1>7, <1>8, <1>9, <1>10 DEF ArgsStep

\* The arguments are read before anything is formatted or sent.
LEMMA ArgsInv ==
  ASSUME Inv, Args
  PROVE  Inv'
<1>1. ArgsKept /\ UNCHANGED <<j, escaped, sent>>
  BY ArgsStepKept DEF Args
<1>2. j = 0 /\ escaped = <<>> /\ sent = <<>>
  BY <1>1 DEF Inv, InOrder, ArgsKept
<1>3. TypeOK'
  BY <1>1 DEF Inv, TypeOK, ArgsKept
<1>4. InOrder'
  BY <1>1, <1>2 DEF ArgsKept, InOrder
<1>5. EscapedSoFar'
  <2>1. Len(folder_name') \in Nat
    BY <1>1 DEF ArgsKept, ArgsTypeOK, Word, Null, folder_name
  <2> QED BY <1>1, <1>2, <2>1 DEF EscapedSoFar, Clean
<1>6. OneCommandOneLine' /\ FolderFits'
  BY <1>1, <1>2 DEF OneCommandOneLine, FolderFits, ArgsKept
<1> QED BY <1>1, <1>3, <1>4, <1>5, <1>6 DEF Inv, ArgsKept

-----------------------------------------------------------------------------
(* The commands                                                            *)

\* Nothing but pc and sent changes when a command is sent, and it is a line.
SentLine(t) ==
  /\ sent' = Append(sent, t) /\ t \in Seq(CommandChars)
  /\ \A k \in 1 .. Len(t) - 2 : t[k] \notin LineEnds
  /\ WholeLine(t) \/ (sent = <<>> /\ CutLine(t, LoginSize))
  /\ UNCHANGED <<given, i, fetch_mail, j, escaped>>
  /\ pc \notin {"args", "usage"}
  /\ pc' \in {"escape", "FETCH", "command", "done"}

LEMMA SentLineInv ==
  ASSUME Inv, NEW t, SentLine(t)
  PROVE  Inv'
<1> USE DEF SentLine
<1>1. sent \in Seq(Seq(CommandChars)) /\ t \in Seq(CommandChars)
  BY DEF Inv, TypeOK
<1>2. /\ sent' \in Seq(Seq(CommandChars)) /\ Len(sent') = Len(sent) + 1
      /\ sent'[Len(sent) + 1] = t /\ \A n \in 1 .. Len(sent) : sent'[n] = sent[n]
  BY <1>1
<1>3. TypeOK' /\ CleanArguments' /\ Denoted'
  BY <1>2 DEF Inv, TypeOK, ArgsTypeOK, argv, CleanArguments, Denoted
<1>4. InOrder' /\ EscapedSoFar' /\ FolderFits'
  BY DEF Inv, InOrder, Complete, EscapedSoFar, folder_name, FolderFits
<1>5. LoginSize' = LoginSize
  BY DEF LoginSize
<1>6. ASSUME NEW n \in DOMAIN sent'
      PROVE  /\ \A k \in 1 .. Len(sent'[n]) - 2 : sent'[n][k] \notin LineEnds
             /\ WholeLine(sent'[n]) \/ (n = 1 /\ CutLine(sent'[n], LoginSize'))
  <2>1. CASE n \in 1 .. Len(sent)
    BY <1>1, <1>2, <1>5, <2>1 DEF Inv, OneCommandOneLine
  <2>2. CASE n = Len(sent) + 1
    BY <1>2, <1>5, <2>2
  <2> QED BY <1>1, <1>2, <2>1, <2>2
<1>7. OneCommandOneLine'
  BY <1>6, Zenon DEF OneCommandOneLine, WholeLine, CutLine
<1> QED BY <1>3, <1>4, <1>7 DEF Inv

\* A word of the command line, when there is one, is text of a command.
LEMMA WordIsText ==
  ASSUME NEW t \in Word, t # Null
  PROVE  t \in Seq(CommandChars)
<1>1. t \in Seq(Chars) /\ Chars \subseteq CommandChars
  BY DEF Word, CommandChars
<1> QED BY <1>1, SeqMonotonic

LEMMA LoginInv ==
  ASSUME Inv, Login
  PROVE  Inv'
<1> DEFINE u == fetch_mail.username
           p == fetch_mail.password
           a == <<"A01 LOGIN", " ">> \o u
           b == a \o <<" ">>
           c == b \o p
<1>1. /\ u \in Seq(CommandChars) /\ Clean(u)
      /\ p \in Seq(CommandChars) /\ Clean(p)
      /\ sent = <<>>
  <2>1. u \in Word /\ p \in Word /\ u # Null /\ p # Null
    BY DEF Inv, TypeOK, ArgsTypeOK, InOrder, Complete, Login
  <2> QED BY <2>1, WordIsText DEF Inv, CleanArguments, InOrder, Login
<1>2. /\ <<"A01 LOGIN", " ">> \in Seq(CommandChars) /\ Clean(<<"A01 LOGIN", " ">>)
      /\ <<" ">> \in Seq(CommandChars) /\ Clean(<<" ">>)
  <2>1. "A01 LOGIN" \in CommandChars /\ " " \in CommandChars
    BY DEF CommandChars
  <2> QED BY <2>1, CleanToken, CleanPair
<1> HIDE DEF u, p
<1>3. a \in Seq(CommandChars) /\ Clean(a)
  BY <1>1, <1>2, CleanConcat
<1> HIDE DEF a
<1>4. b \in Seq(CommandChars) /\ Clean(b)
  BY <1>2, <1>3, CleanConcat
<1> HIDE DEF b
<1>5. c \in Seq(CommandChars) /\ Clean(c)
  BY <1>1, <1>4, CleanConcat
<1> HIDE DEF c
<1>6. c \o Eol \in Seq(CommandChars) /\ OneLine(c \o Eol)
  BY <1>5, LineOfClean
<1>7. LoginSize \in Nat /\ LoginSize > 1
  BY CommandTextAssumption DEF CommandTextAssumption, LoginSize
<1>8. SentLine(Formatted(LoginSize, c \o Eol))
  <2>1. Send(Formatted(LoginSize, c \o Eol), "escape") /\ UNCHANGED <<j, escaped>>
    BY DEF Login, a, b, c, u, p
  <2> QED BY <1>1, <1>6, <1>7, <2>1, LineFormatted DEF SentLine, Send, Login
<1> QED BY <1>8, SentLineInv

\* The folder that is selected is text of a command, without a line end.
LEMMA FolderNameIsText ==
  ASSUME Inv
  PROVE  folder_name \in Seq(CommandChars) /\ Clean(folder_name) /\ Len(folder_name) \in Nat
<1>1. CASE fetch_mail.folder \in {Null, <<>>}
  <2>1. folder_name = <<"INBOX">> /\ "INBOX" \in CommandChars
    BY <1>1 DEF folder_name, CommandChars
  <2> QED BY <2>1, CleanToken
<1>2. CASE fetch_mail.folder \notin {Null, <<>>}
  <2>1. folder_name = fetch_mail.folder /\ fetch_mail.folder \in Word /\ fetch_mail.folder # Null
    BY <1>2 DEF Inv, TypeOK, ArgsTypeOK, folder_name
  <2> QED BY <2>1, WordIsText, LenProperties DEF Inv, CleanArguments
<1> QED BY <1>1, <1>2

\* A character of the name becomes one or two.
LEMMA EscapedLength ==
  ASSUME NEW c \in CommandChars, c \notin LineEnds
  PROVE  Escaped(c) \in Seq(CommandChars) /\ Clean(Escaped(c)) /\ Len(Escaped(c)) \in 1 .. 2
<1>1. "backslash" \in CommandChars
  BY DEF CommandChars
<1>2. CASE c \in {"quote", "backslash"}
  BY <1>1, <1>2, CleanPair DEF Escaped
<1>3. CASE c \notin {"quote", "backslash"}
  BY <1>3, CleanToken DEF Escaped
<1> QED BY <1>2, <1>3

LEMMA EscapeInv ==
  ASSUME Inv, Escape
  PROVE  Inv'
<1> DEFINE c == folder_name[j + 1]
<1>1. /\ pc = "escape" /\ j < Len(folder_name) /\ j' = j + 1
      /\ escaped' = escaped \o Escaped(c)
      /\ pc' = IF Len(escaped') < 2 * BufferSize THEN "escape" ELSE "undefined"
      /\ UNCHANGED <<given, i, fetch_mail, sent>>
  BY DEF Escape
<1>2. /\ j \in Nat /\ j <= Len(folder_name) /\ Len(escaped) <= 2 * j
      /\ escaped \in Seq(CommandChars) /\ Clean(escaped) /\ Len(escaped) \in Nat
  BY LenProperties DEF Inv, TypeOK, EscapedSoFar
<1>3. /\ folder_name \in Seq(CommandChars) /\ Clean(folder_name) /\ Len(folder_name) \in Nat
      /\ folder_name' = folder_name
  BY <1>1, FolderNameIsText DEF folder_name
<1>4. c \in CommandChars /\ c \notin LineEnds
  BY <1>1, <1>2, <1>3, ElementOfSeq DEF Clean
<1> HIDE DEF c
<1>5. Escaped(c) \in Seq(CommandChars) /\ Clean(Escaped(c)) /\ Len(Escaped(c)) \in 1 .. 2
  BY <1>4, EscapedLength
<1>6. /\ escaped' \in Seq(CommandChars) /\ Clean(escaped')
      /\ Len(escaped') = Len(escaped) + Len(Escaped(c))
  BY <1>1, <1>2, <1>5, CleanConcat
<1>7. TypeOK' /\ CleanArguments' /\ Denoted'
  BY <1>1, <1>2, <1>6 DEF Inv, TypeOK, ArgsTypeOK, argv, CleanArguments, Denoted
<1>8. InOrder'
  BY <1>1 DEF Inv, InOrder, Complete
<1>9. EscapedSoFar'
  <2>1. j' <= Len(folder_name')
    BY <1>1, <1>2, <1>3
  <2>2. Len(escaped') <= 2 * j'
    <3> DEFINE l == Len(escaped)
               e == Len(Escaped(c))
               m == Len(escaped')
    <3>1. l \in Nat /\ e \in 1 .. 2 /\ m = l + e /\ l <= 2 * j /\ j \in Nat /\ j' = j + 1
      BY <1>1, <1>2, <1>5, <1>6
    <3> HIDE DEF l, e, m
    <3>2. m <= 2 * j'
      BY <3>1
    <3> QED BY <3>2 DEF m
  <2> QED BY <1>6, <2>1, <2>2 DEF EscapedSoFar
<1>10. OneCommandOneLine'
  BY <1>1 DEF Inv, OneCommandOneLine, LoginSize, WholeLine, CutLine
<1>11. FolderFits'
  <2>1. ASSUME pc' = "undefined" PROVE 2 * Len(folder_name) + 6 >= BufferSize
    <3>1. ~(Len(escaped') < 2 * BufferSize)
      BY <1>1, <2>1
    <3>2. Len(escaped') <= 2 * j'
      BY <1>9 DEF EscapedSoFar
    <3> QED BY <1>1, <1>2, <1>3, <1>5, <1>6, <3>1, <3>2, CommandTextAssumption DEF CommandTextAssumption
  <2> QED BY <1>3, <2>1 DEF FolderFits
<1> QED BY <1>7, <1>8, <1>9, <1>10, <1>11 DEF Inv

LEMMA EscapesInv ==
  ASSUME Inv, Escapes
  PROVE  Inv'
<1> USE DEF Escapes
<1>1. TypeOK' /\ CleanArguments' /\ Denoted'
  BY DEF Inv, TypeOK, ArgsTypeOK, argv, CleanArguments, Denoted
<1>2. InOrder' /\ EscapedSoFar' /\ FolderFits'
  BY DEF Inv, InOrder, Complete, EscapedSoFar, folder_name, FolderFits
<1>3. OneCommandOneLine'
  BY DEF Inv, OneCommandOneLine, LoginSize, WholeLine, CutLine
<1> QED BY <1>1, <1>2, <1>3 DEF Inv

\* The text of SELECT is a line, six characters longer than the escaped name.
LEMMA SelectIsText ==
  ASSUME Inv
  PROVE  /\ SelectText \in Seq(CommandChars) /\ OneLine(SelectText)
         /\ Len(SelectText) = Len(escaped) + 6
<1> DEFINE h == <<"A02 SELECT", " ", "quote">>
           a == h \o escaped
           q == <<"quote">>
           b == a \o q
<1>1. escaped \in Seq(CommandChars) /\ Clean(escaped) /\ Len(escaped) \in Nat
  BY LenProperties DEF Inv, TypeOK, EscapedSoFar
<1>2. /\ h \in Seq(CommandChars) /\ Clean(h) /\ Len(h) = 3
      /\ q \in Seq(CommandChars) /\ Clean(q) /\ Len(q) = 1
  <2>1. "A02 SELECT" \in CommandChars /\ " " \in CommandChars /\ "quote" \in CommandChars
    BY DEF CommandChars
  <2> QED BY <2>1, CleanToken, CleanTriple
<1> HIDE DEF h, q
<1>3. a \in Seq(CommandChars) /\ Clean(a) /\ Len(a) = 3 + Len(escaped)
  BY <1>1, <1>2, CleanConcat
<1> HIDE DEF a
<1>4. b \in Seq(CommandChars) /\ Clean(b) /\ Len(b) = Len(a) + Len(q)
  BY <1>2, <1>3, CleanConcat
<1> HIDE DEF b
<1>5. SelectText = b \o Eol
  BY DEF SelectText, a, b, h, q
<1>6. SelectText \in Seq(CommandChars) /\ OneLine(SelectText)
  BY <1>4, <1>5, LineOfClean
<1>7. Len(SelectText) = Len(escaped) + 6
  <2>1. Len(b) = Len(escaped) + 4
    BY <1>1, <1>2, <1>3, <1>4
  <2>2. b \o Eol \in Seq(CommandChars) /\ Len(b \o Eol) = Len(b) + Len(Eol) /\ Len(Eol) = 2
    BY <1>4, EolIsText, ConcatProperties
  <2> QED BY <1>1, <1>5, <2>1, <2>2
<1> QED BY <1>6, <1>7

LEMMA SelectInv ==
  ASSUME Inv, Select
  PROVE  Inv'
<1>1. escaped \in Seq(CommandChars) /\ Clean(escaped) /\ Len(escaped) \in Nat
  BY LenProperties DEF Inv, TypeOK, EscapedSoFar
<1>6. /\ SelectText \in Seq(CommandChars) /\ OneLine(SelectText)
      /\ Len(SelectText) = Len(escaped) + 6
  BY SelectIsText
<1>7. CASE SelectFits
  <2>1. Send(SelectText, "FETCH") /\ UNCHANGED <<j, escaped>> /\ pc = "SELECT"
    BY <1>7 DEF Select
  <2>2. SentLine(SelectText)
    BY <1>6, <2>1 DEF SentLine, Send, OneLine
  <2> QED BY <2>2, SentLineInv
<1>8. CASE ~SelectFits
  <2>1. pc = "SELECT" /\ pc' = "undefined" /\ UNCHANGED <<given, i, fetch_mail, j, escaped, sent>>
    BY <1>8 DEF Select
  <2>2. TypeOK' /\ CleanArguments' /\ Denoted'
    BY <2>1 DEF Inv, TypeOK, ArgsTypeOK, argv, CleanArguments, Denoted
  <2>3. InOrder' /\ EscapedSoFar'
    BY <2>1 DEF Inv, InOrder, Complete, EscapedSoFar, folder_name
  <2>4. OneCommandOneLine'
    BY <2>1 DEF Inv, OneCommandOneLine, LoginSize, WholeLine, CutLine
  <2>5. FolderFits'
    <3>2. j \in Nat /\ j <= Len(folder_name) /\ Len(escaped) <= 2 * j /\ Len(folder_name) \in Nat
      BY FolderNameIsText DEF Inv, TypeOK, EscapedSoFar
    <3>3. 2 * Len(folder_name) + 6 >= BufferSize
      BY <1>1, <1>6, <1>8, <3>2, CommandTextAssumption DEF SelectFits, CommandTextAssumption
    <3> QED BY <2>1, <3>3 DEF FolderFits, folder_name
  <2> QED BY <2>2, <2>3, <2>4, <2>5 DEF Inv
<1> QED BY <1>7, <1>8

\* The message is named by one token.
LEMMA MessageSetIsText ==
  ASSUME Inv
  PROVE  MessageSet \in Seq(CommandChars) /\ Clean(MessageSet)
<1>1. CASE fetch_mail.messageNum = -1
  <2>1. "*" \in CommandChars
    BY DEF CommandChars
  <2> QED BY <1>1, <2>1, CleanToken DEF MessageSet
<1>2. CASE fetch_mail.messageNum # -1
  <2> DEFINE n == fetch_mail.messageNum
             d == CHOOSE c \in DOMAIN Numeral : Numeral[c] = n
  <2>1. \E c \in DOMAIN Numeral : Numeral[c] = n
    BY <1>2 DEF Inv, Denoted
  <2>2. d \in DOMAIN Numeral
    BY <2>1
  <2> HIDE DEF d
  <2>3. d \in CommandChars /\ d \notin LineEnds
    BY <2>2, CommandLineAssumption DEF CommandLineAssumption, CommandChars
  <2>4. MessageSet = <<d>>
    BY <1>2 DEF MessageSet, Decimal, d
  <2> QED BY <2>3, <2>4, CleanToken
<1> QED BY <1>1, <1>2

\* FETCH, a message and what to fetch of it make a line.
LEMMA FetchLine ==
  ASSUME Inv, NEW f \in {"A03 FETCH", "A04 FETCH"}, NEW p \in {"BODY.PEEK[]", "HEADER.FIELDS"}
  PROVE  LET t == <<f, " ">> \o MessageSet \o <<" ", p>> \o Eol
         IN  t \in Seq(CommandChars) /\ OneLine(t)
<1> DEFINE h == <<f, " ">>
           a == h \o MessageSet
           q == <<" ", p>>
           b == a \o q
<1>1. /\ h \in Seq(CommandChars) /\ Clean(h)
      /\ q \in Seq(CommandChars) /\ Clean(q)
  <2>1. /\ f \in CommandChars /\ p \in CommandChars /\ " " \in CommandChars
        /\ f \notin LineEnds /\ p \notin LineEnds
    BY DEF CommandChars
  <2> QED BY <2>1, CleanPair
<1> HIDE DEF h, q
<1>2. a \in Seq(CommandChars) /\ Clean(a)
  BY <1>1, MessageSetIsText, CleanConcat
<1> HIDE DEF a
<1>3. b \in Seq(CommandChars) /\ Clean(b)
  BY <1>1, <1>2, CleanConcat
<1> HIDE DEF b
<1>4. b \o Eol \in Seq(CommandChars) /\ OneLine(b \o Eol)
  BY <1>3, LineOfClean
<1> QED BY <1>4 DEF b, a, h, q

LEMMA FetchInv ==
  ASSUME Inv, Fetch
  PROVE  Inv'
<1> DEFINE t == <<"A03 FETCH", " ">> \o MessageSet \o <<" ", "BODY.PEEK[]">> \o Eol
<1>1. t \in Seq(CommandChars) /\ OneLine(t)
  BY FetchLine
<1>2. pc = "FETCH" /\ Send(t, "command") /\ UNCHANGED <<j, escaped>>
  BY DEF Fetch
<1> HIDE DEF t
<1>3. SentLine(t)
  BY <1>1, <1>2 DEF SentLine, Send, OneLine
<1> QED BY <1>3, SentLineInv

LEMMA FetchAgainInv ==
  ASSUME Inv, FetchAgain
  PROVE  Inv'
<1>1. CASE fetch_mail.command = <<"parse">>
  <2> DEFINE t == <<"A04 FETCH", " ">> \o MessageSet \o <<" ", "HEADER.FIELDS">> \o Eol
  <2>1. t \in Seq(CommandChars) /\ OneLine(t)
    BY FetchLine
  <2>2. pc = "command" /\ Send(t, "done") /\ UNCHANGED <<j, escaped>>
    BY <1>1 DEF FetchAgain
  <2> HIDE DEF t
  <2>3. SentLine(t)
    BY <2>1, <2>2 DEF SentLine, Send, OneLine
  <2> QED BY <2>3, SentLineInv
<1>2. CASE fetch_mail.command # <<"parse">> /\ fetch_mail.command = <<"list">>
  <2> DEFINE b == <<"A06 FETCH", " ", "1:*", " ", "HEADER.FIELDS">>
             t == b \o Eol
  <2>1. b \in Seq(CommandChars) /\ Clean(b)
    <3>1. /\ {"A06 FETCH", " ", "1:*", "HEADER.FIELDS"} \subseteq CommandChars
          /\ {"A06 FETCH", " ", "1:*", "HEADER.FIELDS"} \cap LineEnds = {}
      BY DEF CommandChars
    <3>2. Len(b) = 5 /\ b \in Seq({"A06 FETCH", " ", "1:*", "HEADER.FIELDS"})
      OBVIOUS
    <3> HIDE DEF b
    <3>3. b \in Seq(CommandChars)
      BY <3>1, <3>2, SeqMonotonic
    <3>4. \A k \in 1 .. Len(b) : b[k] \in {"A06 FETCH", " ", "1:*", "HEADER.FIELDS"}
      BY <3>2, ElementOfSeq
    <3> QED BY <3>1, <3>3, <3>4 DEF Clean
  <2>2. pc = "command" /\ Send(t, "done") /\ UNCHANGED <<j, escaped>>
    BY <1>2 DEF FetchAgain
  <2> HIDE DEF b
  <2>3. t \in Seq(CommandChars) /\ OneLine(t)
    BY <2>1, LineOfClean
  <2> HIDE DEF t
  <2>4. SentLine(t)
    BY <2>2, <2>3 DEF SentLine, Send, OneLine
  <2> QED BY <2>4, SentLineInv
<1>3. CASE fetch_mail.command # <<"parse">> /\ fetch_mail.command # <<"list">>
  <2>1. pc = "command" /\ pc' = "done" /\ UNCHANGED <<given, i, fetch_mail, j, escaped, sent>>
    BY <1>3 DEF FetchAgain
  <2>2. TypeOK' /\ CleanArguments' /\ Denoted'
    BY <2>1 DEF Inv, TypeOK, ArgsTypeOK, argv, CleanArguments, Denoted
  <2>3. InOrder' /\ EscapedSoFar' /\ FolderFits'
    BY <2>1 DEF Inv, InOrder, Complete, EscapedSoFar, folder_name, FolderFits
  <2>4. OneCommandOneLine'
    BY <2>1 DEF Inv, OneCommandOneLine, LoginSize, WholeLine, CutLine
  <2> QED BY <2>2, <2>3, <2>4 DEF Inv
<1> QED BY <1>1, <1>2, <1>3

-----------------------------------------------------------------------------
LEMMA StutterInv == Inv /\ UNCHANGED vars => Inv'
<1> SUFFICES ASSUME Inv, UNCHANGED vars PROVE Inv'
  OBVIOUS
<1> USE DEF vars, argVars
<1>1. TypeOK' /\ CleanArguments' /\ Denoted'
  BY DEF Inv, TypeOK, ArgsTypeOK, argv, CleanArguments, Denoted
<1>2. InOrder' /\ EscapedSoFar' /\ FolderFits'
  BY DEF Inv, InOrder, Complete, EscapedSoFar, folder_name, FolderFits
<1>3. OneCommandOneLine'
  BY DEF Inv, OneCommandOneLine, LoginSize, WholeLine, CutLine
<1> QED BY <1>1, <1>2, <1>3 DEF Inv

\* The invariant holds of every run, for every set of command lines, every numeral and
\* every size of the buffers.
THEOREM Invariance == Spec => []Inv
<1>1. Inv /\ [Next]_vars => Inv'
  BY StutterInv, ArgsInv, LoginInv, EscapeInv, EscapesInv, SelectInv, FetchInv, FetchAgainInv
  DEF Next
<1> QED BY InitInv, <1>1, PTL DEF Spec

\* The variables of the command line and of the commands keep their types: nothing
\* but text of a command is sent, and never the NULL of a missing argument (parse_args(),
\* login(), select_folder()).
THEOREM TypeCorrect == Spec => []TypeOK
<1>1. Inv => TypeOK
  BY DEF Inv
<1> QED BY Invariance, <1>1, PTL

\* For every command line, each command that is sent is one line, unless it is a LOGIN
\* that fills its buffer and loses its end (utils.c:37-42, imap_client.c:133-174).
THEOREM SendsLines == Spec => []OneCommandOneLine
<1>1. Inv => OneCommandOneLine
  BY DEF Inv
<1> QED BY Invariance, <1>1, PTL

\* For every BUFFER_SIZE, a folder's name that fits the buffer of SELECT twice is
\* escaped and formatted without a write past either buffer (imap_client.c:154-167).
THEOREM NamesFit == Spec => []FolderFits
<1>1. Inv => FolderFits
  BY DEF Inv
<1> QED BY Invariance, <1>1, PTL

-----------------------------------------------------------------------------
(* What is taken from a command line is what it means: the loop stands at  *)
(* the first word of a group, and has stored what the groups before it     *)
(* say.                                                                    *)

groups == given.groups
places == given.places

\* The groups with option o before group k, and what the last of them says.
Before(o, k)     == {m \in WithOption(o) : m < k}
LastBefore(o, k) == IF Before(o, k) = {} THEN Null ELSE groups[Max(Before(o, k))].word

\* The command and the server are the first two words of their own before group k, of
\* which there are no more.
OwnTaken(k) ==
  \/ Before("word", k) = {} /\ fetch_mail.command = Null /\ fetch_mail.server_name = Null
  \/ \E a \in DOMAIN groups :
       /\ Before("word", k) = {a}
       /\ fetch_mail.command = groups[a].word /\ fetch_mail.server_name = Null
  \/ \E a, b \in DOMAIN groups :
       /\ a < b /\ Before("word", k) = {a, b}
       /\ fetch_mail.command = groups[a].word /\ fetch_mail.server_name = groups[b].word

OptionsTaken(k) ==
  /\ fetch_mail.username = LastBefore("-u", k)
  /\ fetch_mail.password = LastBefore("-p", k)
  /\ fetch_mail.folder = LastBefore("-f", k)
  /\ fetch_mail.messageNum = IF LastBefore("-n", k) = Null THEN -1 ELSE NumberOf(LastBefore("-n", k))
  /\ fetch_mail.isTLS = (Before("-t", k) # {})

TakenUpTo(k) ==
  /\ OptionsTaken(k) /\ OwnTaken(k)
  /\ \A m \in 1 .. k - 1 : AcceptableGroup(groups[m])

Taken ==
  /\ pc = "args" => \E k \in 1 .. Len(groups) + 1 : i = places[k] /\ TakenUpTo(k)
  /\ ArgumentsTaken

LEMMA GroupsTyped ==
  ASSUME Inv
  PROVE  /\ Composed(given) /\ Len(groups) \in Nat /\ DOMAIN groups = 1 .. Len(groups)
         /\ \A k \in 1 .. Len(groups) : /\ groups[k].option \in Options \cup {"word"}
                                        /\ groups[k].word \in Seq(Chars)
                                        /\ groups[k].word # Null
<1>1. Composed(given) /\ "NULL" \notin Chars
  BY CommandLineAssumption DEF Inv, TypeOK, ArgsTypeOK, CommandLineAssumption
<1>2. groups \in Seq([option : Options \cup {"word"}, word : Seq(Chars)])
  BY <1>1 DEF Composed, groups
<1>3. /\ Len(groups) \in Nat /\ DOMAIN groups = 1 .. Len(groups)
      /\ \A k \in 1 .. Len(groups) : groups[k] \in [option : Options \cup {"word"}, word : Seq(Chars)]
  BY <1>2, LenProperties, ElementOfSeq
<1>4. Null \notin Seq(Chars)
  BY <1>1 DEF Null
<1> QED BY <1>1, <1>3, <1>4

\* One group more.
LEMMA BeforeNext ==
  ASSUME Inv, NEW k \in 1 .. Len(groups), NEW o
  PROVE  Before(o, k + 1) = IF groups[k].option = o THEN Before(o, k) \cup {k} ELSE Before(o, k)
<1>1. /\ Len(groups) \in Nat /\ DOMAIN groups = 1 .. Len(groups)
  BY GroupsTyped
<1> QED BY <1>1 DEF Before, WithOption, groups

LEMMA LastNext ==
  ASSUME Inv, NEW k \in 1 .. Len(groups), NEW o
  PROVE  LastBefore(o, k + 1) = IF groups[k].option = o THEN groups[k].word ELSE LastBefore(o, k)
<1>1. Before(o, k + 1) = IF groups[k].option = o THEN Before(o, k) \cup {k} ELSE Before(o, k)
  BY BeforeNext
<1>2. CASE groups[k].option # o
  BY <1>1, <1>2 DEF LastBefore
<1>3. CASE groups[k].option = o
  <2> DEFINE S == Before(o, k + 1)
  <2>1. k \in S /\ \A m \in S : m \in Nat /\ m <= k
    BY <1>1, <1>3, GroupsTyped DEF Before, WithOption, groups
  <2> HIDE DEF S
  <2>2. Max(S) = k
    <3>1. Max(S) \in S /\ \A m \in S : Max(S) >= m
      BY <2>1 DEF Max
    <3> DEFINE x == Max(S)
    <3> HIDE DEF x
    <3>2. x \in S /\ x >= k
      BY <2>1, <3>1 DEF x
    <3>3. x \in Nat /\ k \in Nat /\ x <= k /\ x >= k
      BY <2>1, <3>2
    <3> QED BY <3>3 DEF x
  <2>3. S # {}
    BY <2>1
  <2> QED BY <1>3, <2>2, <2>3 DEF LastBefore, S
<1> QED BY <1>2, <1>3

\* After the last group, all are taken into account.
LEMMA BeforeAll ==
  ASSUME Inv, NEW o
  PROVE  /\ Before(o, Len(groups) + 1) = WithOption(o)
         /\ LastBefore(o, Len(groups) + 1) = LastWord(o)
<1>1. Before(o, Len(groups) + 1) = WithOption(o)
  BY GroupsTyped DEF Before, WithOption, groups
<1> QED BY <1>1 DEF LastBefore, LastWord, groups

\* The last word of an option is that of a group.
LEMMA LastWordIs ==
  ASSUME Inv, NEW o, WithOption(o) # {}
  PROVE  \E m \in WithOption(o) : LastWord(o) = groups[m].word
<1>1. WithOption(o) \subseteq 0 .. Len(groups) /\ Len(groups) \in Nat
  BY GroupsTyped DEF WithOption, groups
<1>2. \E x \in WithOption(o) : \A y \in WithOption(o) : y <= x
  BY <1>1, GreatestNat
<1>3. \E x \in WithOption(o) : \A y \in WithOption(o) : x >= y
  BY <1>1, <1>2
<1>4. Max(WithOption(o)) \in WithOption(o)
  BY <1>3 DEF Max
<1> QED BY <1>4 DEF LastWord, groups

-----------------------------------------------------------------------------
(* Each argument is the first word of the group that the loop stands at.   *)

\* The loop stands at group k, and has stored what the groups before it say.
At(k) == k \in 1 .. Len(groups) /\ i = places[k] /\ TakenUpTo(k)

\* The group that the argument at i begins.
LEMMA PlaceOfGroup ==
  ASSUME Inv, NEW k \in 1 .. Len(groups), i = places[k]
  PROVE  LET g == groups[k] IN
         /\ i \in 1 .. Len(argv)
         /\ places[k + 1] = IF g.option \in Valued THEN i + 2 ELSE i + 1
         /\ CASE g.option = "-t"   -> argv[i] = <<"-t">>
              [] g.option = "word" -> /\ argv[i] = g.word /\ g.word # <<"-t">>
                                      /\ i = Len(argv) \/ \A o \in Options : g.word # <<o>>
              [] OTHER             -> i < Len(argv) /\ argv[i] = <<g.option>> /\ argv[i + 1] = g.word
<1>1. Composed(given) /\ DOMAIN groups = 1 .. Len(groups)
  BY GroupsTyped
<1> QED BY <1>1 DEF Composed, groups, places, argv

LEMMA OptionGroup ==
  ASSUME Inv, NEW k \in 1 .. Len(groups), i = places[k], NEW o \in Valued, Option(o)
  PROVE  groups[k].option = o /\ groups[k].word = argv[i + 1] /\ places[k + 1] = i + 2
<1> DEFINE g == groups[k]
<1>1. argv[i] = <<o>> /\ i < Len(argv) /\ o \in Options /\ o # "-t"
  BY DEF Option, Valued
<1>2. g.option \in Options \cup {"word"}
  BY GroupsTyped
<1>3. i \in 1 .. Len(argv) /\ Len(argv) \in Nat
  BY ArgvTyped, PlaceOfGroup
<1>4. g.option # "-t"
  BY <1>1, PlaceOfGroup
<1>5. g.option # "word"
  <2>1. SUFFICES ASSUME g.option = "word" PROVE FALSE
    OBVIOUS
  <2>2. argv[i] = g.word /\ (i = Len(argv) \/ \A q \in Options : g.word # <<q>>)
    BY <1>4, <2>1, PlaceOfGroup
  <2> QED BY <1>1, <1>3, <2>2
<1>6. /\ argv[i] = <<g.option>> /\ argv[i + 1] = g.word
      /\ places[k + 1] = IF g.option \in Valued THEN i + 2 ELSE i + 1
  BY <1>4, <1>5, PlaceOfGroup
<1>7. g.option = o
  BY <1>1, <1>6
<1> QED BY <1>6, <1>7

LEMMA TlsGroup ==
  ASSUME Inv, NEW k \in 1 .. Len(groups), i = places[k], argv[i] = <<"-t">>
  PROVE  groups[k].option = "-t" /\ places[k + 1] = i + 1
<1> DEFINE g == groups[k]
<1>1. g.option \in Options \cup {"word"}
  BY GroupsTyped
<1>2. g.option # "word"
  BY PlaceOfGroup
<1>3. ASSUME g.option # "-t" PROVE FALSE
  <2>1. argv[i] = <<g.option>>
    BY <1>2, <1>3, PlaceOfGroup
  <2> QED BY <1>3, <2>1
<1>4. places[k + 1] = IF g.option \in Valued THEN i + 2 ELSE i + 1
  BY PlaceOfGroup
<1> QED BY <1>3, <1>4 DEF Valued

LEMMA WordGroup ==
  ASSUME Inv, NEW k \in 1 .. Len(groups), i = places[k], argv[i] # <<"-t">>,
         i = Len(argv) \/ \A o \in Options : argv[i] # <<o>>
  PROVE  groups[k].option = "word" /\ groups[k].word = argv[i] /\ places[k + 1] = i + 1
<1> DEFINE g == groups[k]
<1>1. g.option \in Options \cup {"word"} /\ i \in 1 .. Len(argv) /\ Len(argv) \in Nat
  BY GroupsTyped, PlaceOfGroup, ArgvTyped
<1>2. g.option # "-t"
  BY PlaceOfGroup
<1>3. ASSUME g.option # "word" PROVE FALSE
  <2>1. i < Len(argv) /\ argv[i] = <<g.option>> /\ g.option \in Options
    BY <1>1, <1>2, <1>3, PlaceOfGroup
  <2> QED BY <1>1, <2>1
<1>4. /\ argv[i] = g.word
      /\ places[k + 1] = IF g.option \in Valued THEN i + 2 ELSE i + 1
  BY <1>2, <1>3, PlaceOfGroup
<1>5. "word" \notin Valued
  BY DEF Valued, Options
<1> QED BY <1>3, <1>4, <1>5

\* The command line does not change.
LEMMA GivenKept ==
  ASSUME UNCHANGED given
  PROVE  /\ groups' = groups /\ places' = places /\ argv' = argv
         /\ \A o, k : Before(o, k)' = Before(o, k) /\ LastBefore(o, k)' = LastBefore(o, k)
         /\ Acceptable' = Acceptable /\ Meant' = Meant
<1>1. groups' = groups /\ places' = places /\ argv' = argv
  BY DEF groups, places, argv
<1>2. \A o : WithOption(o)' = WithOption(o)
  BY DEF WithOption
<1>3. \A o, k : Before(o, k)' = Before(o, k)
  BY <1>2 DEF Before
<1>4. \A o, k : LastBefore(o, k)' = LastBefore(o, k)
  BY <1>1, <1>3 DEF LastBefore
<1>5. /\ \A o : LastWord(o)' = LastWord(o)
      /\ \A n : OwnWord(n)' = OwnWord(n)
  <2>1. \A o : LastWord(o)' = LastWord(o)
    BY <1>2 DEF LastWord
  <2>2. \A k : WordsBefore(k)' = WordsBefore(k)
    BY <1>2 DEF WordsBefore
  <2>3. \A n : OwnPlaces(n)' = OwnPlaces(n)
    BY <1>2, <2>2 DEF OwnPlaces
  <2>4. \A n : OwnWord(n)' = OwnWord(n)
    BY <2>3 DEF OwnWord
  <2> QED BY <2>1, <2>4
<1>6. Acceptable' = Acceptable /\ Meant' = Meant
  BY <1>2, <1>5 DEF Acceptable, Meant
<1> QED BY <1>1, <1>3, <1>4, <1>6

\* What the groups say when group k is one of them.
LEMMA AfterGroup ==
  ASSUME Inv, NEW k \in 1 .. Len(groups), UNCHANGED given
  PROVE  /\ \A o : LastBefore(o, k + 1)' = IF groups[k].option = o THEN groups[k].word ELSE LastBefore(o, k)
         /\ \A o : Before(o, k + 1)' = IF groups[k].option = o THEN Before(o, k) \cup {k} ELSE Before(o, k)
<1>1. ASSUME NEW o
      PROVE  /\ LastBefore(o, k + 1)' = IF groups[k].option = o THEN groups[k].word ELSE LastBefore(o, k)
             /\ Before(o, k + 1)' = IF groups[k].option = o THEN Before(o, k) \cup {k} ELSE Before(o, k)
  <2>1. /\ LastBefore(o, k + 1)' = LastBefore(o, k + 1)
        /\ Before(o, k + 1)' = Before(o, k + 1)
    BY GivenKept
  <2>2. LastBefore(o, k + 1) = IF groups[k].option = o THEN groups[k].word ELSE LastBefore(o, k)
    BY LastNext
  <2>3. Before(o, k + 1) = IF groups[k].option = o THEN Before(o, k) \cup {k} ELSE Before(o, k)
    BY BeforeNext
  <2> QED BY <2>1, <2>2, <2>3
<1> QED BY <1>1

\* The loop goes on to the next group.
LEMMA NextGroup ==
  ASSUME Inv, NEW k, At(k), pc' = "args", UNCHANGED given, i' = places[k + 1],
         AcceptableGroup(groups[k]), OptionsTaken(k + 1)', OwnTaken(k + 1)'
  PROVE  Taken'
<1>1. groups' = groups /\ places' = places
  BY GivenKept
<1>2. Len(groups) \in Nat
  BY GroupsTyped
<1>3. \A m \in 1 .. (k + 1) - 1 : AcceptableGroup(groups[m])
  BY <1>2 DEF At, TakenUpTo
<1>4. k + 1 \in 1 .. Len(groups') + 1 /\ i' = places'[k + 1] /\ TakenUpTo(k + 1)'
  BY <1>1, <1>2, <1>3 DEF At, TakenUpTo
<1> QED BY <1>4 DEF Taken, ArgumentsTaken

\* A group with an option is no word of its own.
LEMMA OwnKept ==
  ASSUME Inv, NEW k, At(k), UNCHANGED given, groups[k].option # "word",
         fetch_mail'.command = fetch_mail.command, fetch_mail'.server_name = fetch_mail.server_name
  PROVE  OwnTaken(k + 1)'
<1>1. Before("word", k + 1)' = Before("word", k) /\ groups' = groups
  BY GivenKept, BeforeNext DEF At
<1>2. OwnTaken(k)
  BY DEF At, TakenUpTo
<1> QED BY <1>1, <1>2 DEF OwnTaken

\* An argument that is not acceptable is in a group that is not.
LEMMA UsageTaken ==
  ASSUME Inv, Usage, NEW k \in 1 .. Len(groups), ~AcceptableGroup(groups[k])
  PROVE  Taken'
<1>1. Acceptable' = Acceptable
  BY GivenKept DEF Usage
<1>2. ~Acceptable
  BY GroupsTyped DEF Acceptable, groups
<1> QED BY <1>1, <1>2 DEF Usage, Taken, ArgumentsTaken

-----------------------------------------------------------------------------
(* One argument, or an option with its value.                              *)

LEMMA UserTaken ==
  ASSUME Inv, NEW k, At(k), User
  PROVE  Taken'
<1>1. k \in 1 .. Len(groups) /\ i = places[k] /\ OptionsTaken(k) /\ Option("-u") /\ "-u" \in Valued
  BY DEF At, TakenUpTo, User, Valued, Options
<1>2. groups[k].option = "-u" /\ groups[k].word = argv[i + 1] /\ places[k + 1] = i + 2
  BY <1>1, OptionGroup
<1>3. AcceptableGroup(groups[k]) = ~(HasBreak(argv[i + 1]))
  BY <1>2 DEF AcceptableGroup
<1>4. CASE Usage
  <2>1. HasBreak(argv[i + 1])
    BY <1>4 DEF User, Usage, Store, Option, InLoop
  <2> QED BY <1>1, <1>3, <1>4, <2>1, UsageTaken
<1>5. CASE ~Usage
  <2>1. /\ AcceptableGroup(groups[k])
        /\ fetch_mail' = [fetch_mail EXCEPT !.username = groups[k].word]
        /\ i' = places[k + 1] /\ pc' = "args" /\ UNCHANGED given
    BY <1>2, <1>3, <1>5 DEF User, Store, Option, InLoop
  <2>2. /\ fetch_mail'.username = groups[k].word
        /\ fetch_mail'.password = fetch_mail.password
        /\ fetch_mail'.folder = fetch_mail.folder
        /\ fetch_mail'.messageNum = fetch_mail.messageNum
        /\ fetch_mail'.isTLS = fetch_mail.isTLS
        /\ fetch_mail'.command = fetch_mail.command
        /\ fetch_mail'.server_name = fetch_mail.server_name
    <3>1. fetch_mail \in FetchMail
      BY DEF Inv, TypeOK, ArgsTypeOK
    <3> DEFINE w == groups[k].word
    <3> HIDE DEF w
    <3> QED BY <2>1, <3>1 DEF w
  <2>3. OwnTaken(k + 1)'
    BY <1>2, <2>1, <2>2, OwnKept
  <2>4. OptionsTaken(k + 1)'
    BY <1>1, <1>2, <2>1, <2>2, AfterGroup DEF OptionsTaken
  <2> QED BY <2>1, <2>3, <2>4, NextGroup
<1> QED BY <1>4, <1>5

LEMMA PasswordTaken ==
  ASSUME Inv, NEW k, At(k), Password
  PROVE  Taken'
<1>1. k \in 1 .. Len(groups) /\ i = places[k] /\ OptionsTaken(k) /\ Option("-p") /\ "-p" \in Valued
  BY DEF At, TakenUpTo, Password, Valued, Options
<1>2. groups[k].option = "-p" /\ groups[k].word = argv[i + 1] /\ places[k + 1] = i + 2
  BY <1>1, OptionGroup
<1>3. AcceptableGroup(groups[k]) = ~(HasBreak(argv[i + 1]))
  BY <1>2 DEF AcceptableGroup
<1>4. CASE Usage
  <2>1. HasBreak(argv[i + 1])
    BY <1>4 DEF Password, Usage, Store, Option, InLoop
  <2> QED BY <1>1, <1>3, <1>4, <2>1, UsageTaken
<1>5. CASE ~Usage
  <2>1. /\ AcceptableGroup(groups[k])
        /\ fetch_mail' = [fetch_mail EXCEPT !.password = groups[k].word]
        /\ i' = places[k + 1] /\ pc' = "args" /\ UNCHANGED given
    BY <1>2, <1>3, <1>5 DEF Password, Store, Option, InLoop
  <2>2. /\ fetch_mail'.password = groups[k].word
        /\ fetch_mail'.username = fetch_mail.username
        /\ fetch_mail'.folder = fetch_mail.folder
        /\ fetch_mail'.messageNum = fetch_mail.messageNum
        /\ fetch_mail'.isTLS = fetch_mail.isTLS
        /\ fetch_mail'.command = fetch_mail.command
        /\ fetch_mail'.server_name = fetch_mail.server_name
    <3>1. fetch_mail \in FetchMail
      BY DEF Inv, TypeOK, ArgsTypeOK
    <3> DEFINE w == groups[k].word
    <3> HIDE DEF w
    <3> QED BY <2>1, <3>1 DEF w
  <2>3. OwnTaken(k + 1)'
    BY <1>2, <2>1, <2>2, OwnKept
  <2>4. OptionsTaken(k + 1)'
    BY <1>1, <1>2, <2>1, <2>2, AfterGroup DEF OptionsTaken
  <2> QED BY <2>1, <2>3, <2>4, NextGroup
<1> QED BY <1>4, <1>5

LEMMA FolderTaken ==
  ASSUME Inv, NEW k, At(k), Folder
  PROVE  Taken'
<1>1. k \in 1 .. Len(groups) /\ i = places[k] /\ OptionsTaken(k) /\ Option("-f") /\ "-f" \in Valued
  BY DEF At, TakenUpTo, Folder, Valued, Options
<1>2. groups[k].option = "-f" /\ groups[k].word = argv[i + 1] /\ places[k + 1] = i + 2
  BY <1>1, OptionGroup
<1>3. AcceptableGroup(groups[k]) = ~(argv[i + 1] = <<>> \/ HasBreak(argv[i + 1]))
  BY <1>2 DEF AcceptableGroup
<1>4. CASE Usage
  <2>1. argv[i + 1] = <<>> \/ HasBreak(argv[i + 1])
    BY <1>4 DEF Folder, Usage, Store, Option, InLoop
  <2> QED BY <1>1, <1>3, <1>4, <2>1, UsageTaken
<1>5. CASE ~Usage
  <2>1. /\ AcceptableGroup(groups[k])
        /\ fetch_mail' = [fetch_mail EXCEPT !.folder = groups[k].word]
        /\ i' = places[k + 1] /\ pc' = "args" /\ UNCHANGED given
    BY <1>2, <1>3, <1>5 DEF Folder, Store, Option, InLoop
  <2>2. /\ fetch_mail'.folder = groups[k].word
        /\ fetch_mail'.username = fetch_mail.username
        /\ fetch_mail'.password = fetch_mail.password
        /\ fetch_mail'.messageNum = fetch_mail.messageNum
        /\ fetch_mail'.isTLS = fetch_mail.isTLS
        /\ fetch_mail'.command = fetch_mail.command
        /\ fetch_mail'.server_name = fetch_mail.server_name
    <3>1. fetch_mail \in FetchMail
      BY DEF Inv, TypeOK, ArgsTypeOK
    <3> DEFINE w == groups[k].word
    <3> HIDE DEF w
    <3> QED BY <2>1, <3>1 DEF w
  <2>3. OwnTaken(k + 1)'
    BY <1>2, <2>1, <2>2, OwnKept
  <2>4. OptionsTaken(k + 1)'
    BY <1>1, <1>2, <2>1, <2>2, AfterGroup DEF OptionsTaken
  <2> QED BY <2>1, <2>3, <2>4, NextGroup
<1> QED BY <1>4, <1>5

LEMMA NumberTaken ==
  ASSUME Inv, NEW k, At(k), Number
  PROVE  Taken'
<1>1. k \in 1 .. Len(groups) /\ i = places[k] /\ OptionsTaken(k) /\ Option("-n") /\ "-n" \in Valued
  BY DEF At, TakenUpTo, Number, Valued, Options
<1> DEFINE w == groups[k].word
           n == NumberOf(w)
<1>2. groups[k].option = "-n" /\ w = argv[i + 1] /\ places[k + 1] = i + 2 /\ w # Null
  BY <1>1, OptionGroup, GroupsTyped
<1> HIDE DEF w, n
<1>3. IsNumber(w) => n \in Int
  BY CommandLineAssumption DEF CommandLineAssumption, IsNumber, NumberOf, n
<1>4. AcceptableGroup(groups[k]) <=> IsNumber(w) /\ n \in 0 .. 1000
  BY <1>2 DEF AcceptableGroup, INT_MAX_UTIL, w, n
<1>5. IsNumber(w) /\ InRange(n) <=> IsNumber(w) /\ n \in 0 .. 1000
  BY <1>3 DEF InRange, INT_MAX_UTIL
<1>6. IF IsNumber(w) /\ InRange(n) THEN Store("messageNum", n % IntSpan, 2) ELSE Usage
  BY <1>2 DEF Number, n
<1>7. CASE ~(IsNumber(w) /\ InRange(n))
  <2>1. Usage /\ ~AcceptableGroup(groups[k])
    BY <1>4, <1>5, <1>6, <1>7
  <2> QED BY <1>1, <2>1, UsageTaken
<1>8. CASE IsNumber(w) /\ InRange(n)
  <2>1. n % IntSpan = n
    <3>1. n \in 0 .. 1000 /\ IntSpan \in Nat /\ IntSpan > 1000
      BY <1>5, <1>8, CommandLineAssumption DEF CommandLineAssumption, INT_MAX_UTIL
    <3> QED BY <3>1
  <2>2. /\ AcceptableGroup(groups[k])
        /\ fetch_mail' = [fetch_mail EXCEPT !.messageNum = n]
        /\ i' = places[k + 1] /\ pc' = "args" /\ UNCHANGED given
    BY <1>1, <1>2, <1>4, <1>5, <1>6, <1>8, <2>1 DEF Store, Option, InLoop
  <2>3. /\ fetch_mail'.messageNum = n
        /\ fetch_mail'.username = fetch_mail.username
        /\ fetch_mail'.password = fetch_mail.password
        /\ fetch_mail'.folder = fetch_mail.folder
        /\ fetch_mail'.isTLS = fetch_mail.isTLS
        /\ fetch_mail'.command = fetch_mail.command
        /\ fetch_mail'.server_name = fetch_mail.server_name
    <3>1. fetch_mail \in FetchMail
      BY DEF Inv, TypeOK, ArgsTypeOK
    <3> QED BY <2>2, <3>1
  <2>4. OwnTaken(k + 1)'
    BY <1>2, <2>2, <2>3, OwnKept
  <2>5. OptionsTaken(k + 1)'
    BY <1>1, <1>2, <2>2, <2>3, AfterGroup DEF OptionsTaken, w, n
  <2> QED BY <2>2, <2>4, <2>5, NextGroup
<1> QED BY <1>7, <1>8

LEMMA TlsTaken ==
  ASSUME Inv, NEW k, At(k), Tls
  PROVE  Taken'
<1>1. k \in 1 .. Len(groups) /\ i = places[k] /\ OptionsTaken(k) /\ argv[i] = <<"-t">>
  BY DEF At, TakenUpTo, Tls
<1>2. groups[k].option = "-t" /\ places[k + 1] = i + 1
  BY <1>1, TlsGroup
<1>3. /\ fetch_mail' = [fetch_mail EXCEPT !.isTLS = TRUE]
      /\ i' = places[k + 1] /\ pc' = "args" /\ UNCHANGED given
  BY <1>2 DEF Tls, Store, InLoop
<1>4. /\ fetch_mail'.isTLS = TRUE
      /\ fetch_mail'.username = fetch_mail.username
      /\ fetch_mail'.password = fetch_mail.password
      /\ fetch_mail'.folder = fetch_mail.folder
      /\ fetch_mail'.messageNum = fetch_mail.messageNum
      /\ fetch_mail'.command = fetch_mail.command
      /\ fetch_mail'.server_name = fetch_mail.server_name
  <2>1. fetch_mail \in FetchMail
    BY DEF Inv, TypeOK, ArgsTypeOK
  <2> QED BY <1>3, <2>1
<1>5. AcceptableGroup(groups[k])
  BY <1>2 DEF AcceptableGroup
<1>6. OwnTaken(k + 1)'
  BY <1>2, <1>3, <1>4, OwnKept
<1>7. OptionsTaken(k + 1)'
  <2>1. Before("-t", k + 1)' # {}
    BY <1>1, <1>2, <1>3, AfterGroup
  <2> QED BY <1>1, <1>2, <1>3, <1>4, <2>1, AfterGroup DEF OptionsTaken
<1> QED BY <1>3, <1>5, <1>6, <1>7, NextGroup

-----------------------------------------------------------------------------
(* A word of its own: the command, the server, and no third.               *)

\* A place that is found has a word.
LEMMA OwnIsWord ==
  ASSUME Inv, NEW n, OwnPlaces(n) # {}
  PROVE  OneOf(OwnPlaces(n)) \in OwnPlaces(n) /\ OwnWord(n) # Null
<1>1. OneOf(OwnPlaces(n)) \in OwnPlaces(n)
  BY DEF OneOf
<1>2. OneOf(OwnPlaces(n)) \in 1 .. Len(groups)
  BY <1>1, GroupsTyped DEF OwnPlaces, WithOption, groups
<1> QED BY <1>1, <1>2, GroupsTyped DEF OwnWord, groups

\* After two words there is no place for a third.
LEMMA ThirdWord ==
  ASSUME Inv, NEW k \in 1 .. Len(groups), groups[k].option = "word",
         NEW a \in DOMAIN groups, NEW b \in DOMAIN groups, a < b, Before("word", k) = {a, b}
  PROVE  ~Acceptable
<1>1. a \in Nat /\ b \in Nat /\ a # b
  BY GroupsTyped
<1>2. Cardinality({a, b}) = 2
  <2>1. IsFiniteSet({a}) /\ Cardinality({a}) = 1
    BY FS_Singleton
  <2>2. Cardinality({a} \cup {b}) = Cardinality({a}) + 1
    BY <1>1, <2>1, FS_AddElement
  <2>3. Cardinality({a} \cup {b}) = 2
    BY <2>1, <2>2
  <2>4. {a, b} = {a} \cup {b}
    OBVIOUS
  <2> QED BY <2>3, <2>4, Zenon
<1>3. k \in OwnPlaces(3)
  <2>1. WordsBefore(k) = {a, b}
    BY DEF WordsBefore, Before
  <2>2. k \in WithOption("word")
    BY GroupsTyped DEF WithOption, groups
  <2>3. Cardinality(WordsBefore(k)) = 3 - 1
    BY <1>2, <2>1
  <2> QED BY <2>2, <2>3 DEF OwnPlaces
<1>4. OwnWord(3) # Null
  BY <1>3, OwnIsWord
<1> QED BY <1>4 DEF Acceptable

LEMMA PositionalTaken ==
  ASSUME Inv, NEW k, At(k), Positional
  PROVE  Taken'
<1>1. /\ k \in 1 .. Len(groups) /\ i = places[k] /\ OptionsTaken(k) /\ OwnTaken(k)
      /\ argv[i] # <<"-t">> /\ (i = Len(argv) \/ \A o \in Options : argv[i] # <<o>>)
      /\ pc = "args"
  BY DEF At, TakenUpTo, Positional, InLoop
<1> DEFINE w == groups[k].word
<1>2. groups[k].option = "word" /\ w = argv[i] /\ places[k + 1] = i + 1 /\ w # Null
  BY <1>1, WordGroup, GroupsTyped
<1>3. AcceptableGroup(groups[k]) = ~HasBreak(w)
  BY <1>2 DEF AcceptableGroup
<1>4. /\ DOMAIN groups = 1 .. Len(groups) /\ Len(groups) \in Nat
      /\ \A m \in DOMAIN groups : groups[m].word # Null
  BY GroupsTyped
<1> HIDE DEF w
<1>5. CASE HasBreak(w)
  <2>1. Usage
    BY <1>2, <1>5 DEF Positional
  <2> QED BY <1>1, <1>3, <1>5, <2>1, UsageTaken
<1>6. CASE fetch_mail.command # Null /\ fetch_mail.server_name # Null
  <2>1. Usage
    BY <1>6 DEF Positional
  <2>2. ~Acceptable
    BY <1>1, <1>2, <1>6, ThirdWord DEF OwnTaken
  <2>3. Acceptable' = Acceptable
    BY <2>1, GivenKept DEF Usage
  <2> QED BY <2>1, <2>2, <2>3 DEF Usage, Taken, ArgumentsTaken
<1>7. CASE ~HasBreak(w) /\ ~(fetch_mail.command # Null /\ fetch_mail.server_name # Null)
  <2> DEFINE f == IF fetch_mail.command = Null THEN "command" ELSE "server_name"
  <2>1. /\ fetch_mail' = [fetch_mail EXCEPT ![f] = w]
        /\ i' = places[k + 1] /\ pc' = "args" /\ UNCHANGED given
    BY <1>1, <1>2, <1>7 DEF Positional, Store
  <2>2. fetch_mail \in FetchMail
    BY DEF Inv, TypeOK, ArgsTypeOK
  <2>3. /\ fetch_mail'.username = fetch_mail.username
        /\ fetch_mail'.password = fetch_mail.password
        /\ fetch_mail'.folder = fetch_mail.folder
        /\ fetch_mail'.messageNum = fetch_mail.messageNum
        /\ fetch_mail'.isTLS = fetch_mail.isTLS
    BY <2>1, <2>2
  <2>4. OptionsTaken(k + 1)'
    BY <1>1, <1>2, <2>1, <2>3, AfterGroup DEF OptionsTaken
  <2>5. Before("word", k + 1)' = Before("word", k) \cup {k} /\ groups' = groups
    BY <1>1, <1>2, <2>1, AfterGroup, GivenKept
  <2>6. ASSUME fetch_mail.command = Null PROVE OwnTaken(k + 1)'
    <3>1. Before("word", k) = {} /\ fetch_mail.server_name = Null
      BY <1>1, <1>4, <2>6 DEF OwnTaken
    <3>2. fetch_mail'.command = w /\ fetch_mail'.server_name = Null
      BY <2>1, <2>2, <2>6, <3>1
    <3>3. Before("word", k + 1)' = {k} /\ k \in DOMAIN groups'
      BY <1>1, <1>4, <2>5, <3>1
    <3> QED BY <2>5, <3>2, <3>3 DEF OwnTaken, w
  <2>7. ASSUME fetch_mail.command # Null PROVE OwnTaken(k + 1)'
    <3>1. PICK a \in DOMAIN groups : Before("word", k) = {a} /\ fetch_mail.command = groups[a].word
      BY <1>1, <1>4, <1>7, <2>7 DEF OwnTaken
    <3>2. a < k
      BY <3>1 DEF Before
    <3>3. fetch_mail'.command = groups[a].word /\ fetch_mail'.server_name = w
      BY <2>1, <2>2, <2>7, <3>1
    <3>4. Before("word", k + 1)' = {a, k}
      BY <2>5, <3>1
    <3>5. a \in DOMAIN groups' /\ k \in DOMAIN groups'
      BY <1>1, <1>4, <2>5
    <3> QED BY <2>5, <3>2, <3>3, <3>4, <3>5 DEF OwnTaken, w
  <2>8. OwnTaken(k + 1)'
    BY <2>6, <2>7
  <2> QED BY <1>3, <1>7, <2>1, <2>4, <2>8, NextGroup
<1> QED BY <1>5, <1>6, <1>7

-----------------------------------------------------------------------------
(* After the last argument.                                                *)

\* What stands before a place among the words.
LEMMA FirstPlace ==
  ASSUME NEW a \in WithOption("word"), WordsBefore(a) = {}
  PROVE  a \in OwnPlaces(1) /\ a \notin OwnPlaces(2) /\ a \notin OwnPlaces(3)
<1>1. Cardinality(WordsBefore(a)) = 0
  BY FS_EmptySet
<1> QED BY <1>1 DEF OwnPlaces

LEMMA SecondPlace ==
  ASSUME NEW a \in WithOption("word"), NEW c, WordsBefore(a) = {c}
  PROVE  a \notin OwnPlaces(1) /\ a \in OwnPlaces(2) /\ a \notin OwnPlaces(3)
<1>1. Cardinality(WordsBefore(a)) = 1
  BY FS_Singleton
<1> QED BY <1>1 DEF OwnPlaces

LEMMA OwnAll ==
  ASSUME Inv, OwnTaken(Len(groups) + 1)
  PROVE  /\ fetch_mail.command = OwnWord(1) /\ fetch_mail.server_name = OwnWord(2)
         /\ OwnWord(3) = Null
<1> DEFINE W == WithOption("word")
<1>1. Before("word", Len(groups) + 1) = W /\ \A m \in DOMAIN groups : m \in Nat
  BY BeforeAll, GroupsTyped
<1>2. \A n : OwnPlaces(n) \subseteq W
  BY DEF OwnPlaces
<1>3. \A a : OneOf({a}) = a
  BY DEF OneOf
<1> HIDE DEF W
<1>4. CASE W = {} /\ fetch_mail.command = Null /\ fetch_mail.server_name = Null
  BY <1>2, <1>4 DEF OwnWord
<1>5. ASSUME NEW a \in DOMAIN groups, W = {a},
             fetch_mail.command = groups[a].word, fetch_mail.server_name = Null
      PROVE  /\ fetch_mail.command = OwnWord(1) /\ fetch_mail.server_name = OwnWord(2)
             /\ OwnWord(3) = Null
  <2>1. WordsBefore(a) = {} /\ a \in WithOption("word")
    BY <1>1, <1>5 DEF WordsBefore, W
  <2>2. a \in OwnPlaces(1) /\ a \notin OwnPlaces(2) /\ a \notin OwnPlaces(3)
    BY <2>1, FirstPlace
  <2>3. OwnPlaces(1) = {a} /\ OwnPlaces(2) = {} /\ OwnPlaces(3) = {}
    BY <1>2, <1>5, <2>2
  <2> QED BY <1>3, <1>5, <2>3 DEF OwnWord, groups
<1>6. ASSUME NEW a \in DOMAIN groups, NEW b \in DOMAIN groups, a < b, W = {a, b},
             fetch_mail.command = groups[a].word, fetch_mail.server_name = groups[b].word
      PROVE  /\ fetch_mail.command = OwnWord(1) /\ fetch_mail.server_name = OwnWord(2)
             /\ OwnWord(3) = Null
  <2>0. a \in Nat /\ b \in Nat
    BY <1>1
  <2>1. /\ WordsBefore(a) = {} /\ a \in WithOption("word")
        /\ WordsBefore(b) = {a} /\ b \in WithOption("word")
    BY <2>0, <1>6 DEF WordsBefore, W
  <2>2. /\ a \in OwnPlaces(1) /\ a \notin OwnPlaces(2) /\ a \notin OwnPlaces(3)
        /\ b \notin OwnPlaces(1) /\ b \in OwnPlaces(2) /\ b \notin OwnPlaces(3)
    BY <2>1, FirstPlace, SecondPlace
  <2>3. OwnPlaces(1) = {a} /\ OwnPlaces(2) = {b} /\ OwnPlaces(3) = {}
    BY <1>2, <1>6, <2>2
  <2> QED BY <1>3, <1>6, <2>3 DEF OwnWord, groups
<1> QED BY <1>1, <1>4, <1>5, <1>6 DEF OwnTaken

LEMMA EndTaken ==
  ASSUME Inv, EndOfArgs, NEW k \in 1 .. Len(groups) + 1, i = places[k], TakenUpTo(k)
  PROVE  Taken'
<1>1. k = Len(groups) + 1
  <2>1. ~(k \in 1 .. Len(groups))
    BY PlaceOfGroup, ArgvTyped DEF EndOfArgs
  <2> QED BY <2>1, GroupsTyped
<1>2. OptionsTaken(k) /\ OwnTaken(k) /\ \A m \in DOMAIN groups : AcceptableGroup(groups[m])
  BY <1>1, GroupsTyped DEF TakenUpTo
<1>3. /\ fetch_mail.username = LastWord("-u") /\ fetch_mail.password = LastWord("-p")
      /\ fetch_mail.folder = LastWord("-f")
      /\ fetch_mail.messageNum = IF LastWord("-n") = Null THEN -1 ELSE NumberOf(LastWord("-n"))
      /\ fetch_mail.isTLS = (WithOption("-t") # {})
  BY <1>1, <1>2, BeforeAll DEF OptionsTaken
<1>4. /\ fetch_mail.command = OwnWord(1) /\ fetch_mail.server_name = OwnWord(2)
      /\ OwnWord(3) = Null
  BY <1>1, <1>2, OwnAll
<1>5. fetch_mail = Meant
  <2>1. fetch_mail \in FetchMail
    BY DEF Inv, TypeOK, ArgsTypeOK
  <2> QED BY <1>3, <1>4, <2>1 DEF Meant
<1>6. \A o : LastWord(o) = Null <=> WithOption(o) = {}
  <2>1. ASSUME NEW o, WithOption(o) # {} PROVE LastWord(o) # Null
    BY <2>1, LastWordIs, GroupsTyped DEF WithOption, groups
  <2> QED BY <2>1 DEF LastWord
<1>7. OwnWord(2) # Null => OwnWord(1) # Null
  <2>1. OwnTaken(k)
    BY <1>2
  <2> QED BY <1>4, <2>1, GroupsTyped DEF OwnTaken
<1>8. Complete <=> Acceptable
  BY <1>2, <1>3, <1>4, <1>6, <1>7 DEF Complete, Acceptable, groups
<1>9. CASE Complete
  <2>1. pc' = "LOGIN" /\ UNCHANGED <<given, i, fetch_mail>>
    BY <1>9 DEF EndOfArgs
  <2> QED BY <1>5, <1>8, <1>9, <2>1, GivenKept DEF Taken, ArgumentsTaken
<1>10. CASE ~Complete
  <2>1. Usage
    BY <1>10 DEF EndOfArgs
  <2> QED BY <1>8, <1>10, <2>1, GivenKept DEF Usage, Taken, ArgumentsTaken
<1> QED BY <1>9, <1>10

-----------------------------------------------------------------------------
LEMMA InitTaken ==
  ASSUME Inv, Init
  PROVE  Taken
<1>1. Composed(given) /\ Len(groups) \in Nat /\ DOMAIN groups = 1 .. Len(groups)
  BY GroupsTyped
<1>2. i = 1 /\ places[1] = 1
  BY <1>1 DEF Init, ArgsInit, Composed, places
<1>3. \A o : Before(o, 1) = {} /\ LastBefore(o, 1) = Null
  <2>1. \A o : Before(o, 1) = {}
    BY <1>1 DEF Before, WithOption, groups
  <2> QED BY <2>1 DEF LastBefore
<1>4. TakenUpTo(1)
  <2>1. OptionsTaken(1)
    BY <1>3 DEF OptionsTaken, Init, ArgsInit
  <2>2. OwnTaken(1)
    BY <1>3 DEF OwnTaken, Init, ArgsInit
  <2> QED BY <2>1, <2>2 DEF TakenUpTo
<1>5. ArgumentsTaken
  BY DEF Init, ArgsInit, ArgumentsTaken
<1> QED BY <1>1, <1>2, <1>4, <1>5 DEF Taken

LEMMA ArgsTaken ==
  ASSUME Inv, Taken, ArgsStep
  PROVE  Taken'
<1>0. pc = "args"
  BY DEF ArgsStep, User, Password, Folder, Number, Tls, Positional, EndOfArgs, Option, InLoop
<1>1. PICK k \in 1 .. Len(groups) + 1 : i = places[k] /\ TakenUpTo(k)
  BY <1>0 DEF Taken
<1>2. CASE EndOfArgs
  BY <1>1, <1>2, EndTaken
<1>3. CASE User \/ Password \/ Folder \/ Number \/ Tls \/ Positional
  <2>1. i <= Len(argv)
    BY <1>3 DEF User, Password, Folder, Number, Tls, Positional, Option, InLoop
  <2>2. places[Len(groups) + 1] = Len(argv) + 1 /\ Len(groups) \in Nat
    BY GroupsTyped DEF Composed, groups, places, argv
  <2>3. i \in Nat /\ Len(argv) \in Nat
    BY ArgvTyped
  <2>4. k # Len(groups) + 1
    BY <1>1, <2>1, <2>2, <2>3
  <2>5. At(k)
    BY <1>1, <2>2, <2>4 DEF At
  <2> QED BY <1>3, <2>5, UserTaken, PasswordTaken, FolderTaken, NumberTaken, TlsTaken, PositionalTaken
<1> QED BY <1>2, <1>3 DEF ArgsStep

\* Once the session has started, what was taken stays.
LEMMA SessionTaken ==
  ASSUME Taken, UNCHANGED <<given, fetch_mail>>, pc \notin {"args", "usage"}, pc' \notin {"args", "usage"}
  PROVE  Taken'
<1>1. Acceptable' = Acceptable /\ Meant' = Meant
  BY GivenKept
<1> QED BY <1>1 DEF Taken, ArgumentsTaken

LEMMA StutterTaken ==
  ASSUME Taken, UNCHANGED vars
  PROVE  Taken'
<1>1. /\ Acceptable' = Acceptable /\ Meant' = Meant
      /\ groups' = groups /\ places' = places
      /\ \A o, k : Before(o, k)' = Before(o, k) /\ LastBefore(o, k)' = LastBefore(o, k)
  BY GivenKept DEF vars, argVars
<1>2. i' = i /\ fetch_mail' = fetch_mail /\ pc' = pc
  BY DEF vars, argVars
<1>3. ArgumentsTaken'
  BY <1>1, <1>2 DEF Taken, ArgumentsTaken
<1>4. ASSUME NEW k, TakenUpTo(k) PROVE TakenUpTo(k)'
  BY <1>1, <1>2, <1>4 DEF TakenUpTo, OptionsTaken, OwnTaken
<1> QED BY <1>1, <1>2, <1>3, <1>4 DEF Taken

LEMMA TakenStep ==
  ASSUME Inv, Taken, [Next]_vars
  PROVE  Taken'
<1>1. CASE UNCHANGED vars
  BY <1>1, StutterTaken
<1>2. CASE Args
  BY <1>2, ArgsTaken DEF Args
<1>3. CASE Login \/ Escape \/ Escapes \/ Select \/ Fetch \/ FetchAgain
  <2>1. UNCHANGED <<given, fetch_mail>> /\ pc \notin {"args", "usage"} /\ pc' \notin {"args", "usage"}
    BY <1>3 DEF Login, Escape, Escapes, Select, Fetch, FetchAgain, Send
  <2> QED BY <2>1, SessionTaken
<1> QED BY <1>1, <1>2, <1>3 DEF Next

\* For every command line, the session starts exactly when it is complete and clean, and
\* with what it says: the last value of each option, values that look like options,
\* words of their own anywhere, an option at the end as a word (utils.c:48-92).
THEOREM TakesArguments == Spec => []ArgumentsTaken
<1>1. Init => Taken
  BY InitInv, InitTaken
<1>2. Inv /\ Taken /\ [Next]_vars => Taken'
  BY TakenStep
<1>3. Taken => ArgumentsTaken
  BY DEF Taken
<1> QED BY <1>1, <1>2, <1>3, Invariance, PTL DEF Spec

-----------------------------------------------------------------------------
(* A server that reads the escaped name reads the name.                    *)

\* f holds what has been read after each character of t.
ReadsBy(t, f) ==
  f = [k \in 0 .. Len(t) |-> IF k = 0 THEN NothingRead ELSE ReadOn(f[k - 1], t[k])]

\* After t, the server has read r.
Reads(t, r) == \E f : ReadsBy(t, f) /\ f[Len(t)] = r

LEMMA ReadsStepwise ==
  ASSUME NEW t, Len(t) \in Nat, NEW f, ReadsBy(t, f)
  PROVE  /\ f[0] = NothingRead
         /\ \A k \in 1 .. Len(t) : f[k] = ReadOn(f[k - 1], t[k])
<1>1. \A k \in 0 .. Len(t) : f[k] = IF k = 0 THEN NothingRead ELSE ReadOn(f[k - 1], t[k])
  BY DEF ReadsBy
<1> QED BY <1>1

\* There is one way to read a text.
LEMMA ReadsOnce ==
  ASSUME NEW t, Len(t) \in Nat, NEW f, NEW g, ReadsBy(t, f), ReadsBy(t, g)
  PROVE  f[Len(t)] = g[Len(t)]
<1> DEFINE n == Len(t)
           T == {k \in 1 .. n + 1 : f[k - 1] = g[k - 1]}
<1>1. /\ f[0] = NothingRead /\ g[0] = NothingRead
      /\ \A k \in 1 .. n : f[k] = ReadOn(f[k - 1], t[k]) /\ g[k] = ReadOn(g[k - 1], t[k])
  BY ReadsStepwise
<1> HIDE DEF n
<1>2. n \in Nat
  BY DEF n
<1>3. 1 \in T
  BY <1>1, <1>2
<1>4. ASSUME NEW k \in 1 .. (n + 1) - 1, k \in T PROVE k + 1 \in T
  <2>1. k \in 1 .. n /\ k + 1 \in 1 .. n + 1 /\ (k + 1) - 1 = k /\ f[k - 1] = g[k - 1]
    BY <1>2, <1>4
  <2>2. f[k] = g[k]
    BY <1>1, <2>1
  <2> QED BY <2>1, <2>2
<1>5. \A k \in 1 .. n + 1 : k \in T
  <2>1. n + 1 \in Nat
    BY <1>2
  <2> HIDE DEF T
  <2> QED BY <1>3, <1>4, <2>1, Steps
<1>6. n + 1 \in T /\ (n + 1) - 1 = n
  BY <1>2, <1>5
<1> QED BY <1>6 DEF n

LEMMA UnquotedIs ==
  ASSUME NEW t, Len(t) \in Nat, NEW r, Reads(t, r)
  PROVE  Unquoted(t) = r.out
<1>1. PICK f : ReadsBy(t, f) /\ f[Len(t)] = r
  BY DEF Reads
<1> DEFINE g == CHOOSE h : ReadsBy(t, h)
<1>2. ReadsBy(t, g)
  BY <1>1
<1>3. Unquoted(t) = g[Len(t)].out
  BY DEF Unquoted, ReadsBy
<1> HIDE DEF g
<1>4. g[Len(t)] = r
  BY <1>1, <1>2, ReadsOnce
<1> QED BY <1>3, <1>4

LEMMA NothingReads ==
  Reads(<<>>, NothingRead)
<1> DEFINE f == [k \in 0 .. 0 |-> NothingRead]
<1>1. ReadsBy(<<>>, f)
  <2>1. Len(<<>>) = 0
    OBVIOUS
  <2>2. f = [k \in 0 .. 0 |-> IF k = 0 THEN NothingRead ELSE ReadOn(f[k - 1], <<>>[k])]
    OBVIOUS
  <2> QED BY <2>1, <2>2 DEF ReadsBy
<1>2. f[Len(<<>>)] = NothingRead
  OBVIOUS
<1> HIDE DEF f
<1> QED BY <1>1, <1>2 DEF Reads

\* One character more.
LEMMA ReadsNext ==
  ASSUME NEW t \in Seq(CommandChars), NEW r, Reads(t, r), NEW c \in CommandChars
  PROVE  Append(t, c) \in Seq(CommandChars) /\ Reads(Append(t, c), ReadOn(r, c))
<1> DEFINE n == Len(t)
           u == Append(t, c)
<1>1. n \in Nat /\ u \in Seq(CommandChars) /\ Len(u) = n + 1 /\ u[n + 1] = c
      /\ \A k \in 1 .. n : u[k] = t[k]
  OBVIOUS
<1>2. PICK f : ReadsBy(t, f) /\ f[n] = r
  BY DEF Reads
<1>3. /\ f[0] = NothingRead
      /\ \A k \in 1 .. n : f[k] = ReadOn(f[k - 1], t[k])
  BY <1>1, <1>2 DEF ReadsBy
<1> HIDE DEF n, u
<1> DEFINE v == ReadOn(r, c)
           g == [k \in 0 .. n + 1 |-> IF k = n + 1 THEN v ELSE f[k]]
<1> HIDE DEF v
<1>4. ASSUME NEW k \in 0 .. n + 1
      PROVE  g[k] = IF k = 0 THEN NothingRead ELSE ReadOn(g[k - 1], u[k])
  <2>1. CASE k = 0
    BY <1>1, <1>3, <2>1
  <2>2. CASE k \in 1 .. n
    <3>1. k - 1 \in 0 .. n + 1 /\ k - 1 # n + 1 /\ k # n + 1 /\ k # 0
      BY <1>1, <2>2
    <3>2. g[k] = f[k] /\ g[k - 1] = f[k - 1]
      BY <3>1
    <3>3. f[k] = ReadOn(f[k - 1], t[k]) /\ u[k] = t[k]
      BY <1>1, <1>3, <2>2
    <3> QED BY <3>1, <3>2, <3>3
  <2>3. CASE k = n + 1
    <3>1. k - 1 = n /\ n \in 0 .. n + 1 /\ n # n + 1 /\ k # 0
      BY <1>1, <2>3
    <3>2. g[k] = v /\ g[k - 1] = r
      BY <1>2, <2>3, <3>1
    <3> QED BY <1>1, <2>3, <3>1, <3>2 DEF v
  <2> QED BY <1>1, <2>1, <2>2, <2>3
<1>5. g = [k \in 0 .. n + 1 |-> IF k = 0 THEN NothingRead ELSE ReadOn(g[k - 1], u[k])]
  <2>1. DOMAIN g = 0 .. n + 1 /\ g = [k \in 0 .. n + 1 |-> g[k]]
    OBVIOUS
  <2> HIDE DEF g
  <2> QED BY <1>4, <2>1
<1>6. g[n + 1] = v
  BY <1>1
<1> HIDE DEF g
<1>7. ReadsBy(u, g) /\ g[Len(u)] = v
  BY <1>1, <1>5, <1>6 DEF ReadsBy
<1>8. Reads(u, v)
  BY <1>7 DEF Reads
<1> QED BY <1>1, <1>8 DEF u, v

\* w has been read, and the string is open, is at an escape, or is closed.
Said(w)   == [out |-> w, open |-> FALSE, shut |-> FALSE]
AtEsc(w)  == [out |-> w, open |-> TRUE, shut |-> FALSE]
Closed(w) == [out |-> w, open |-> FALSE, shut |-> TRUE]

LEMMA ReadOnIs ==
  ASSUME NEW w, NEW c
  PROVE  /\ c \notin {"quote", "backslash"} => ReadOn(Said(w), c) = Said(Append(w, c))
         /\ ReadOn(Said(w), "backslash") = AtEsc(w)
         /\ ReadOn(AtEsc(w), c) = Said(Append(w, c))
         /\ ReadOn(Said(w), "quote") = Closed(w)
         /\ ReadOn(Closed(w), c) = Closed(w)
<1> DEFINE a == Append(w, c)
<1> HIDE DEF a
<1>1. c \notin {"quote", "backslash"} => ReadOn(Said(w), c) = Said(a)
  BY DEF ReadOn, Said, a
<1>2. ReadOn(Said(w), "backslash") = AtEsc(w)
  BY DEF ReadOn, Said, AtEsc
<1>3. ReadOn(AtEsc(w), c) = Said(a)
  BY DEF ReadOn, Said, AtEsc, a
<1>4. ReadOn(Said(w), "quote") = Closed(w) /\ ReadOn(Closed(w), c) = Closed(w)
  BY DEF ReadOn, Said, Closed
<1> QED BY <1>1, <1>2, <1>3, <1>4 DEF a

\* A token after a text.
LEMMA OneMore ==
  ASSUME NEW t \in Seq(CommandChars), NEW c \in CommandChars
  PROVE  t \o <<c>> = Append(t, c) /\ Append(t, c) \in Seq(CommandChars)
OBVIOUS

LEMMA TwoMore ==
  ASSUME NEW t \in Seq(CommandChars), NEW b \in CommandChars, NEW c \in CommandChars
  PROVE  t \o <<b, c>> = Append(Append(t, b), c)
OBVIOUS

\* A character of the name, escaped, is read as itself.
LEMMA EscapedReads ==
  ASSUME NEW t \in Seq(CommandChars), NEW w \in Seq(CommandChars), Reads(t, Said(w)),
         NEW c \in CommandChars
  PROVE  Reads(t \o Escaped(c), Said(Append(w, c)))
<1>1. "backslash" \in CommandChars
  BY DEF CommandChars
<1>2. CASE c \in {"quote", "backslash"}
  <2>1. Append(t, "backslash") \in Seq(CommandChars) /\ Reads(Append(t, "backslash"), AtEsc(w))
    BY <1>1, ReadsNext, ReadOnIs
  <2>2. Reads(Append(Append(t, "backslash"), c), Said(Append(w, c)))
    BY <2>1, ReadsNext, ReadOnIs
  <2>3. t \o Escaped(c) = Append(Append(t, "backslash"), c)
    BY <1>1, <1>2, TwoMore DEF Escaped
  <2> QED BY <2>2, <2>3
<1>3. CASE c \notin {"quote", "backslash"}
  <2>1. Reads(Append(t, c), Said(Append(w, c)))
    BY <1>3, ReadsNext, ReadOnIs
  <2>2. t \o Escaped(c) = Append(t, c)
    BY <1>3, OneMore DEF Escaped
  <2> QED BY <2>1, <2>2
<1> QED BY <1>2, <1>3

\* The closing quote and the line end are not part of the name.
LEMMA QuotedReads ==
  ASSUME NEW t \in Seq(CommandChars), NEW w \in Seq(CommandChars), Reads(t, Said(w))
  PROVE  Unquoted(t \o <<"quote">> \o Eol) = w
<1>1. "quote" \in CommandChars /\ "CR" \in CommandChars /\ "LF" \in CommandChars
  BY DEF CommandChars
<1> DEFINE a == Append(t, "quote")
           b == Append(a, "CR")
           c == Append(b, "LF")
<1>2. a \in Seq(CommandChars) /\ Reads(a, Closed(w))
  BY <1>1, ReadsNext, ReadOnIs
<1> HIDE DEF a
<1>3. b \in Seq(CommandChars) /\ Reads(b, Closed(w))
  BY <1>1, <1>2, ReadsNext, ReadOnIs
<1> HIDE DEF b
<1>4. c \in Seq(CommandChars) /\ Reads(c, Closed(w))
  BY <1>1, <1>3, ReadsNext, ReadOnIs
<1> HIDE DEF c
<1>5. t \o <<"quote">> = a
  BY <1>1, OneMore DEF a
<1>6. a \o Eol = c
  BY <1>1, <1>2, TwoMore DEF Eol, b, c
<1>7. Unquoted(c) = Closed(w).out
  BY <1>4, UnquotedIs, LenProperties
<1>8. Closed(w).out = w
  BY DEF Closed
<1> QED BY <1>5, <1>6, <1>7, <1>8

-----------------------------------------------------------------------------
(* The commands that have been sent say what the command line means.       *)

\* The part of the name that has been escaped can be read back.
Readable == Reads(escaped, Said(SubSeq(folder_name, 1, j)))

\* The first token of the command of parse().
ParseFetch == "A04 FETCH"

\* How many commands have been sent, and what they name.
SentSoFar ==
  /\ pc \in {"escape", "SELECT", "undefined"} => Len(sent) = 1
  /\ pc = "SELECT" => j = Len(folder_name)
  /\ pc = "FETCH" => Len(sent) = 2
  /\ pc = "command" => Len(sent) = 3
  /\ Len(sent) >= 2 => sent[2] = SelectText /\ j = Len(folder_name)
  /\ Len(sent) >= 3 => sent[3][3] = MessageSet[1]
  /\ Len(sent) = 4 /\ sent[4][1] = ParseFetch => sent[4][3] = MessageSet[1]

Says == Readable /\ SentSoFar

LEMMA NothingSays ==
  ASSUME j = 0, escaped = <<>>, sent = <<>>, pc \in {"args", "usage", "LOGIN"}
  PROVE  Says
<1>1. SubSeq(folder_name, 1, j) = <<>>
  OBVIOUS
<1>2. NothingRead = Said(<<>>)
  BY DEF NothingRead, Said
<1>3. Readable
  BY <1>1, <1>2, NothingReads DEF Readable
<1>4. Len(sent) = 0
  OBVIOUS
<1> QED BY <1>3, <1>4 DEF Says, SentSoFar

LEMMA ArgsSays ==
  ASSUME Inv, Args
  PROVE  Says'
<1>1. Inv' /\ pc' \in {"args", "usage", "LOGIN"}
  BY ArgsInv, ArgsStepKept DEF Args, ArgsKept
<1>2. j' = 0 /\ escaped' = <<>> /\ sent' = <<>>
  BY <1>1 DEF Inv, InOrder
<1>3. NothingRead = Said(<<>>)
  BY DEF NothingRead, Said
<1>4. Readable'
  <2>1. SubSeq(folder_name', 1, 0) = <<>>
    OBVIOUS
  <2> QED BY <1>2, <1>3, <2>1, NothingReads DEF Readable
<1>5. Len(sent') = 0
  BY <1>2
<1> QED BY <1>1, <1>4, <1>5 DEF Says, SentSoFar

\* One command more: those before it stay, and so does what they are made from.
LEMMA OneMoreSent ==
  ASSUME Inv, NEW t, t \in Seq(CommandChars), sent' = Append(sent, t),
         UNCHANGED <<given, i, fetch_mail, j, escaped>>, Says
  PROVE  /\ Len(sent') = Len(sent) + 1 /\ Len(sent) \in Nat /\ sent'[Len(sent) + 1] = t
         /\ \A n \in 1 .. Len(sent) : sent'[n] = sent[n]
         /\ SelectText' = SelectText /\ folder_name' = folder_name /\ MessageSet' = MessageSet
         /\ Readable'
<1>1. sent \in Seq(Seq(CommandChars))
  BY DEF Inv, TypeOK
<1>2. /\ Len(sent') = Len(sent) + 1 /\ Len(sent) \in Nat /\ sent'[Len(sent) + 1] = t
      /\ \A n \in 1 .. Len(sent) : sent'[n] = sent[n]
  BY <1>1
<1>3. SelectText' = SelectText /\ folder_name' = folder_name /\ MessageSet' = MessageSet
  BY DEF SelectText, folder_name, MessageSet, Decimal
<1>4. Readable'
  BY <1>3 DEF Says, Readable
<1> QED BY <1>2, <1>3, <1>4

LEMMA PairIs ==
  ASSUME NEW S, NEW e \in S, NEW f \in S
  PROVE  <<e, f>> \in Seq(S) /\ Len(<<e, f>>) = 2 /\ <<e, f>>[1] = e
OBVIOUS

LEMMA ConcatAt ==
  ASSUME NEW S, NEW s \in Seq(S), NEW t \in Seq(S)
  PROVE  /\ s \o t \in Seq(S) /\ Len(s \o t) = Len(s) + Len(t) /\ Len(s) \in Nat /\ Len(t) \in Nat
         /\ \A k \in 1 .. Len(s) : (s \o t)[k] = s[k]
         /\ \A k \in 1 .. Len(t) : (s \o t)[Len(s) + k] = t[k]
OBVIOUS

\* What is formatted after the command stays in its place.
LEMMA FetchNames ==
  ASSUME Inv, NEW f \in CommandChars, NEW s \in Seq(CommandChars)
  PROVE  LET t == <<f, " ">> \o MessageSet \o s \o Eol
         IN  t \in Seq(CommandChars) /\ t[3] = MessageSet[1] /\ t[1] = f
<1> DEFINE h == <<f, " ">>
           a == h \o MessageSet
           b == a \o s
<1>0. " " \in CommandChars
  BY DEF CommandChars
<1>1. h \in Seq(CommandChars) /\ Len(h) = 2 /\ h[1] = f
  BY <1>0, PairIs
<1>2. MessageSet \in Seq(CommandChars) /\ Len(MessageSet) = 1
  <2>1. Len(MessageSet) = 1
    BY DEF MessageSet, Decimal
  <2> QED BY <2>1, MessageSetIsText
<1> HIDE DEF h
<1>3. a \in Seq(CommandChars) /\ Len(a) = 3 /\ a[3] = MessageSet[1] /\ a[1] = f
  <2>0. h \in Seq(CommandChars) /\ MessageSet \in Seq(CommandChars)
    BY <1>1, <1>2
  <2>1. /\ a \in Seq(CommandChars) /\ Len(a) = Len(h) + Len(MessageSet)
        /\ \A k \in 1 .. Len(h) : a[k] = h[k]
        /\ \A k \in 1 .. Len(MessageSet) : a[Len(h) + k] = MessageSet[k]
    BY <2>0, ConcatAt
  <2>2. a[Len(h) + 1] = MessageSet[1] /\ a[1] = h[1]
    BY <1>1, <1>2, <2>1
  <2> QED BY <1>1, <1>2, <2>1, <2>2
<1> HIDE DEF a
<1>4. b \in Seq(CommandChars) /\ Len(b) >= 3 /\ b[3] = a[3] /\ b[1] = a[1]
  <2>1. /\ b \in Seq(CommandChars) /\ Len(b) = Len(a) + Len(s) /\ Len(s) \in Nat
        /\ \A k \in 1 .. Len(a) : b[k] = a[k]
    BY <1>3, ConcatAt, ZenonT(30)
  <2> QED BY <1>3, <2>1
<1> HIDE DEF b
<1>5. b \o Eol \in Seq(CommandChars) /\ (b \o Eol)[3] = b[3] /\ (b \o Eol)[1] = b[1]
  BY <1>4, EolIsText, ConcatAt
<1> QED BY <1>3, <1>4, <1>5 DEF b, a, h

LEMMA LoginSays ==
  ASSUME Inv, Says, Login
  PROVE  Says'
<1> DEFINE t == Formatted(LoginSize, <<"A01 LOGIN", " ">> \o fetch_mail.username \o <<" ">>
                             \o fetch_mail.password \o Eol)
<1>1. /\ sent' = Append(sent, t) /\ pc' = "escape"
      /\ UNCHANGED <<given, i, fetch_mail, j, escaped>> /\ sent = <<>>
  BY DEF Login, Send, Inv, InOrder
<1> HIDE DEF t
<1>2. Len(sent') = 1
  BY <1>1
<1>3. Readable'
  BY <1>1 DEF Says, Readable, folder_name
<1> QED BY <1>1, <1>2, <1>3 DEF Says, SentSoFar

LEMMA EscapeSays ==
  ASSUME Inv, Says, Escape
  PROVE  Says'
<1> DEFINE c == folder_name[j + 1]
           w == SubSeq(folder_name, 1, j)
<1>1. /\ pc = "escape" /\ j < Len(folder_name) /\ j' = j + 1
      /\ escaped' = escaped \o Escaped(c)
      /\ pc' \in {"escape", "undefined"} /\ UNCHANGED <<given, i, fetch_mail, sent>>
  BY DEF Escape
<1>2. /\ folder_name \in Seq(CommandChars) /\ Len(folder_name) \in Nat /\ j \in Nat
      /\ escaped \in Seq(CommandChars) /\ folder_name' = folder_name
  BY <1>1, FolderNameIsText DEF Inv, TypeOK, folder_name
<1>3. c \in CommandChars /\ w \in Seq(CommandChars) /\ SubSeq(folder_name, 1, j + 1) = Append(w, c)
  BY <1>1, <1>2
<1>4. Reads(escaped, Said(w))
  BY DEF Says, Readable
<1> HIDE DEF c, w
<1>5. Reads(escaped \o Escaped(c), Said(Append(w, c)))
  BY <1>2, <1>3, <1>4, EscapedReads
<1>6. Readable'
  BY <1>1, <1>2, <1>3, <1>5 DEF Readable
<1>7. Len(sent') = 1
  BY <1>1 DEF Says, SentSoFar
<1> QED BY <1>1, <1>6, <1>7 DEF Says, SentSoFar

LEMMA EscapesSays ==
  ASSUME Inv, Says, Escapes
  PROVE  Says'
<1>1. /\ pc = "escape" /\ j = Len(folder_name) /\ pc' = "SELECT"
      /\ UNCHANGED <<given, i, fetch_mail, j, escaped, sent>>
  BY DEF Escapes
<1>2. Readable' /\ folder_name' = folder_name
  BY <1>1 DEF Says, Readable, folder_name
<1>3. Len(sent') = 1
  BY <1>1 DEF Says, SentSoFar
<1> QED BY <1>1, <1>2, <1>3 DEF Says, SentSoFar

LEMMA SelectSays ==
  ASSUME Inv, Says, Select
  PROVE  Says'
<1>1. pc = "SELECT" /\ Len(sent) = 1 /\ j = Len(folder_name)
  BY DEF Select, Says, SentSoFar
<1>2. CASE SelectFits
  <2>1. /\ sent' = Append(sent, SelectText) /\ pc' = "FETCH"
        /\ UNCHANGED <<given, i, fetch_mail, j, escaped>>
    BY <1>2 DEF Select, Send
  <2>2. SelectText \in Seq(CommandChars)
    BY SelectIsText
  <2>3. /\ Len(sent') = 2 /\ sent'[2] = SelectText
        /\ SelectText' = SelectText /\ folder_name' = folder_name /\ Readable'
    BY <1>1, <2>1, <2>2, OneMoreSent
  <2> QED BY <1>1, <2>1, <2>3 DEF Says, SentSoFar
<1>3. CASE ~SelectFits
  <2>1. pc' = "undefined" /\ UNCHANGED <<given, i, fetch_mail, j, escaped, sent>>
    BY <1>3 DEF Select
  <2>2. Readable'
    BY <2>1 DEF Says, Readable, folder_name
  <2>3. Len(sent') = 1
    BY <1>1, <2>1
  <2> QED BY <2>1, <2>2, <2>3 DEF Says, SentSoFar
<1> QED BY <1>2, <1>3

LEMMA FetchSays ==
  ASSUME Inv, Says, Fetch
  PROVE  Says'
<1> DEFINE t == <<"A03 FETCH", " ">> \o MessageSet \o <<" ", "BODY.PEEK[]">> \o Eol
<1>1. t \in Seq(CommandChars) /\ t[3] = MessageSet[1]
  <2>1. "A03 FETCH" \in CommandChars /\ <<" ", "BODY.PEEK[]">> \in Seq(CommandChars)
    <3>1. "A03 FETCH" \in CommandChars /\ " " \in CommandChars /\ "BODY.PEEK[]" \in CommandChars
      BY DEF CommandChars
    <3> QED BY <3>1, PairIs
  <2> QED BY <2>1, FetchNames
<1>2. /\ sent' = Append(sent, t) /\ pc = "FETCH" /\ pc' = "command"
      /\ UNCHANGED <<given, i, fetch_mail, j, escaped>>
  BY DEF Fetch, Send
<1> HIDE DEF t
<1>3. Len(sent) = 2 /\ sent[2] = SelectText /\ j = Len(folder_name)
  <2>1. Len(sent) = 2
    BY <1>2 DEF Says, SentSoFar
  <2>2. Len(sent) >= 2
    BY <2>1
  <2> QED BY <2>1, <2>2 DEF Says, SentSoFar
<1>4. /\ Len(sent') = 3 /\ sent'[3] = t /\ sent'[2] = sent[2]
      /\ SelectText' = SelectText /\ folder_name' = folder_name /\ MessageSet' = MessageSet
      /\ Readable'
  BY <1>1, <1>2, <1>3, OneMoreSent
<1> QED BY <1>1, <1>2, <1>3, <1>4 DEF Says, SentSoFar

LEMMA FetchAgainSays ==
  ASSUME Inv, Says, FetchAgain
  PROVE  Says'
<1>1. /\ pc = "command" /\ pc' = "done" /\ UNCHANGED <<given, i, fetch_mail, j, escaped>>
  BY DEF FetchAgain, Send
<1>2. /\ Len(sent) = 3 /\ sent[2] = SelectText /\ j = Len(folder_name)
      /\ sent[3][3] = MessageSet[1]
  <2>1. Len(sent) = 3
    BY <1>1 DEF Says, SentSoFar
  <2>2. Len(sent) >= 2 /\ Len(sent) >= 3
    BY <2>1
  <2> QED BY <2>1, <2>2 DEF Says, SentSoFar
<1>3. ASSUME NEW t \in Seq(CommandChars), sent' = Append(sent, t),
             t[1] = ParseFetch => t[3] = MessageSet[1]
      PROVE  Says'
  <2>1. /\ Len(sent') = Len(sent) + 1 /\ sent'[Len(sent) + 1] = t
        /\ \A n \in 1 .. Len(sent) : sent'[n] = sent[n]
        /\ SelectText' = SelectText /\ folder_name' = folder_name /\ MessageSet' = MessageSet
        /\ Readable'
    BY <1>1, <1>3, OneMoreSent
  <2>2. Len(sent') = 4 /\ sent'[4] = t /\ sent'[2] = sent[2] /\ sent'[3] = sent[3]
    BY <1>2, <2>1
  <2> QED BY <1>1, <1>2, <1>3, <2>1, <2>2 DEF Says, SentSoFar
<1>4. CASE fetch_mail.command = <<"parse">>
  <2> DEFINE t == <<"A04 FETCH", " ">> \o MessageSet \o <<" ", "HEADER.FIELDS">> \o Eol
  <2>1. t \in Seq(CommandChars) /\ t[3] = MessageSet[1]
    <3>1. "A04 FETCH" \in CommandChars /\ " " \in CommandChars /\ "HEADER.FIELDS" \in CommandChars
      BY DEF CommandChars
    <3>2. <<" ", "HEADER.FIELDS">> \in Seq(CommandChars)
      BY <3>1, PairIs
    <3> QED BY <3>1, <3>2, FetchNames
  <2>2. sent' = Append(sent, t)
    BY <1>4 DEF FetchAgain, Send
  <2> HIDE DEF t
  <2> QED BY <1>3, <2>1, <2>2
<1>5. CASE fetch_mail.command # <<"parse">> /\ fetch_mail.command = <<"list">>
  <2> DEFINE b == <<"A06 FETCH", " ", "1:*", " ", "HEADER.FIELDS">>
             t == b \o Eol
  <2>1. b \in Seq(CommandChars) /\ Len(b) = 5 /\ b[1] = "A06 FETCH"
    <3>1. {"A06 FETCH", " ", "1:*", "HEADER.FIELDS"} \subseteq CommandChars
      BY DEF CommandChars
    <3>2. Len(b) = 5 /\ b \in Seq({"A06 FETCH", " ", "1:*", "HEADER.FIELDS"}) /\ b[1] = "A06 FETCH"
      OBVIOUS
    <3> HIDE DEF b
    <3> QED BY <3>1, <3>2, SeqMonotonic
  <2>2. sent' = Append(sent, t)
    BY <1>5 DEF FetchAgain, Send
  <2> HIDE DEF b
  <2>3. t \in Seq(CommandChars) /\ \A k \in 1 .. Len(b) : t[k] = b[k]
    BY <2>1, EolIsText, ConcatAt, ZenonT(30)
  <2> HIDE DEF t
  <2>4. t[1] # ParseFetch
    <3>1. Len(b) = 5
      BY <2>1
    <3>2. t[1] = b[1]
      BY <2>3, <3>1
    <3> QED BY <2>1, <3>2, Zenon DEF ParseFetch
  <2> QED BY <1>3, <2>2, <2>3, <2>4
<1>6. CASE fetch_mail.command # <<"parse">> /\ fetch_mail.command # <<"list">>
  <2>1. sent' = sent
    BY <1>6 DEF FetchAgain
  <2>2. Readable' /\ SelectText' = SelectText /\ folder_name' = folder_name /\ MessageSet' = MessageSet
    BY <1>1 DEF Says, Readable, SelectText, folder_name, MessageSet, Decimal
  <2>3. Len(sent') = 3 /\ sent'[2] = sent[2] /\ sent'[3] = sent[3]
    BY <1>2, <2>1
  <2> QED BY <1>1, <1>2, <2>2, <2>3 DEF Says, SentSoFar
<1> QED BY <1>4, <1>5, <1>6

LEMMA StutterSays == Says /\ UNCHANGED vars => Says'
BY DEF vars, argVars, Says, Readable, SentSoFar, SelectText, folder_name, MessageSet, Decimal

-----------------------------------------------------------------------------
\* What follows the opening quote of SELECT.
LEMMA SelectTail ==
  ASSUME Inv
  PROVE  SubSeq(SelectText, 4, Len(SelectText)) = escaped \o <<"quote">> \o Eol
<1> DEFINE h == <<"A02 SELECT", " ", "quote">>
           q == <<"quote">>
           u == escaped \o q \o Eol
<1>1. escaped \in Seq(CommandChars)
  BY DEF Inv, TypeOK
<1>2. h \in Seq(CommandChars) /\ Len(h) = 3 /\ q \in Seq(CommandChars)
  <2>1. "A02 SELECT" \in CommandChars /\ " " \in CommandChars /\ "quote" \in CommandChars
    BY DEF CommandChars
  <2>2. /\ "A02 SELECT" \notin LineEnds /\ " " \notin LineEnds /\ "quote" \notin LineEnds
    OBVIOUS
  <2> QED BY <2>1, <2>2, CleanToken, CleanTriple
<1> HIDE DEF h, q
<1>3. Eol \in Seq(CommandChars)
  BY EolIsText
<1>4. u \in Seq(CommandChars)
  BY <1>1, <1>2, <1>3
<1>5. SelectText = h \o u
  <2> DEFINE e == escaped \o q
  <2>1. SelectText = ((h \o escaped) \o q) \o Eol
    BY DEF SelectText, h, q
  <2>2. (h \o escaped) \o q = h \o (escaped \o q)
    BY <1>1, <1>2, ConcatAssociative
  <2>3. e \in Seq(CommandChars)
    BY <1>1, <1>2
  <2> HIDE DEF e
  <2>4. (h \o e) \o Eol = h \o (e \o Eol)
    BY <1>2, <1>3, <2>3, ConcatAssociative
  <2> QED BY <2>1, <2>2, <2>4 DEF e
<1> HIDE DEF u
<1>6. SubSeq(h \o u, 4, Len(h \o u)) = u
  <2> h \in Seq(CommandChars)
    BY <1>2
  <2>0. /\ h \o u \in Seq(CommandChars) /\ Len(h \o u) = Len(h) + Len(u) /\ Len(u) \in Nat
        /\ \A k \in 1 .. Len(u) : (h \o u)[Len(h) + k] = u[k]
    BY <1>4, ConcatAt
  <2>1. /\ h \o u \in Seq(CommandChars) /\ Len(h \o u) = 3 + Len(u) /\ Len(u) \in Nat
        /\ \A k \in 1 .. Len(u) : (h \o u)[3 + k] = u[k]
    BY <1>2, <2>0
  <2> DEFINE t == h \o u
             n == Len(u)
  <2> HIDE DEF t, n
  <2>2. t \in Seq(CommandChars) /\ Len(t) = 3 + n /\ n \in Nat
    BY <2>1 DEF t, n
  <2>3. /\ SubSeq(t, 4, 3 + n) \in Seq(CommandChars) /\ Len(SubSeq(t, 4, 3 + n)) = n
        /\ \A k \in 1 .. n : SubSeq(t, 4, 3 + n)[k] = t[3 + k]
    BY <2>2
  <2>4. \A k \in 1 .. n : SubSeq(t, 4, 3 + n)[k] = u[k]
    BY <2>1, <2>3 DEF t, n
  <2>5. SubSeq(t, 4, 3 + n) = u
    BY <1>4, <2>3, <2>4, SeqEqual DEF n
  <2> QED BY <2>2, <2>5 DEF t
<1> QED BY <1>5, <1>6 DEF u, q

\* What has been sent is what the command line means.
LEMMA SaysAsMeant ==
  ASSUME Inv, Taken, Says
  PROVE  CommandsAsMeant
<1>1. ASSUME Len(sent) >= 2
      PROVE  /\ pc \notin {"args", "usage"} /\ Acceptable /\ fetch_mail = Meant
             /\ sent[2] = SelectText /\ j = Len(folder_name)
  <2>1. sent # <<>>
    BY <1>1
  <2>2. pc \notin {"args", "usage"}
    BY <2>1 DEF Inv, InOrder
  <2> QED BY <1>1, <2>2 DEF Taken, ArgumentsTaken, Says, SentSoFar
<1>2. ASSUME Acceptable, NEW o, LastWord(o) # Null
      PROVE  \E m \in DOMAIN groups : /\ groups[m].option = o /\ LastWord(o) = groups[m].word
                                      /\ AcceptableGroup(groups[m])
  <2>1. WithOption(o) # {}
    BY <1>2 DEF LastWord
  <2>2. PICK m \in WithOption(o) : LastWord(o) = groups[m].word
    BY <2>1, LastWordIs
  <2> QED BY <1>2, <2>2 DEF WithOption, Acceptable, groups
<1>3. ASSUME Len(sent) >= 2
      PROVE  Unquoted(SubSeq(sent[2], 4, Len(sent[2])))
               = IF LastWord("-f") = Null THEN <<"INBOX">> ELSE LastWord("-f")
  <2>1. folder_name = IF LastWord("-f") = Null THEN <<"INBOX">> ELSE LastWord("-f")
    <3>1. fetch_mail.folder = LastWord("-f")
      BY <1>1, <1>3 DEF Meant
    <3>2. LastWord("-f") # Null => LastWord("-f") # <<>>
      BY <1>1, <1>2, <1>3 DEF AcceptableGroup
    <3> QED BY <3>1, <3>2 DEF folder_name
  <2>2. /\ folder_name \in Seq(CommandChars)
        /\ SubSeq(folder_name, 1, j) = folder_name
    <3>1. folder_name \in Seq(CommandChars) /\ j = Len(folder_name)
      BY <1>1, <1>3, FolderNameIsText
    <3> QED BY <3>1
  <2>3. escaped \in Seq(CommandChars) /\ Reads(escaped, Said(folder_name))
    BY <2>2 DEF Says, Readable, Inv, TypeOK
  <2>4. Unquoted(escaped \o <<"quote">> \o Eol) = folder_name
    BY <2>2, <2>3, QuotedReads
  <2>5. SubSeq(sent[2], 4, Len(sent[2])) = escaped \o <<"quote">> \o Eol
    BY <1>1, <1>3, SelectTail
  <2> QED BY <2>1, <2>4, <2>5
<1>4. ASSUME Len(sent) >= 3
      PROVE  IF LastWord("-n") = Null THEN sent[3][3] = "*"
             ELSE Numeral[sent[3][3]] = NumberOf(LastWord("-n"))
  <2>1. Len(sent) \in Nat
    BY LenProperties DEF Inv, TypeOK
  <2>2. Len(sent) >= 2
    BY <1>4, <2>1
  <2>3. sent[3][3] = MessageSet[1]
    BY <1>4 DEF Says, SentSoFar
  <2>4. fetch_mail.messageNum = IF LastWord("-n") = Null THEN -1 ELSE NumberOf(LastWord("-n"))
    BY <1>1, <2>2 DEF Meant
  <2>5. CASE LastWord("-n") = Null
    BY <2>3, <2>4, <2>5 DEF MessageSet
  <2>6. CASE LastWord("-n") # Null
    <3> DEFINE n == NumberOf(LastWord("-n"))
    <3>1. n \in 0 .. 1000
      BY <1>1, <1>2, <2>2, <2>6 DEF AcceptableGroup, INT_MAX_UTIL
    <3>2. fetch_mail.messageNum = n
      BY <2>4, <2>6
    <3> HIDE DEF n
    <3>3. n # -1
      BY <3>1
    <3>4. \E c \in DOMAIN Numeral : Numeral[c] = n
      BY <3>2, <3>3 DEF Inv, Denoted
    <3>5. MessageSet[1] = CHOOSE c \in DOMAIN Numeral : Numeral[c] = n
      BY <3>2, <3>3 DEF MessageSet, Decimal
    <3>6. Numeral[MessageSet[1]] = n
      BY <3>4, <3>5
    <3> QED BY <2>3, <2>6, <3>6 DEF n
  <2> QED BY <2>5, <2>6
<1>5. ASSUME Len(sent) = 4, sent[4][1] = ParseFetch PROVE sent[4][3] = sent[3][3]
  <2>1. Len(sent) >= 3
    BY <1>5
  <2> QED BY <1>5, <2>1 DEF Says, SentSoFar
<1> QED BY <1>3, <1>4, <1>5 DEF CommandsAsMeant, ParseFetch

\* For every command line, the server that reads the quoted string of SELECT reads the
\* folder of the last -f, or INBOX, whatever quotes and backslashes it has, and both
\* FETCH commands name the message of the last -n, or the last one (imap_client.c:147-192).
THEOREM MeansCommands == Spec => []CommandsAsMeant
<1>1. Init => Taken /\ Says
  <2>1. Init => Says
    BY NothingSays DEF Init, ArgsInit
  <2> QED BY <2>1, InitInv, InitTaken
<1>2. ASSUME Inv, Taken, Says, [Next]_vars PROVE Taken' /\ Says'
  <2>1. Taken'
    BY <1>2, TakenStep
  <2>2. Says'
    BY <1>2, StutterSays, ArgsSays, LoginSays, EscapeSays, EscapesSays, SelectSays, FetchSays,
       FetchAgainSays DEF Next
  <2> QED BY <2>1, <2>2
<1>3. Inv /\ Taken /\ Says => CommandsAsMeant
  BY SaysAsMeant
<1> QED BY <1>1, <1>2, <1>3, Invariance, PTL DEF Spec
=============================================================================
