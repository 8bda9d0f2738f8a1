---------------------------- MODULE CommandLine ----------------------------
(***************************************************************************)
(* parse_args(): the arguments one by one, into fetch_mail.  A word is a   *)
(* sequence of characters, where "-u" and a numeral are one character.     *)
(***************************************************************************)
EXTENDS Integers, Sequences, FiniteSets, SequencesExt

CONSTANTS
  Chars,        \* the characters of the arguments
  Numeral,      \* of those, the numerals, each with the number it denotes
  IntSpan,      \* the number of values of an int
  Invocations   \* command lines: the words, the groups they were put together from, and
                \* the place of the first word of each group

INT_MAX_UTIL == 1000

LineEnds == {"CR", "LF"}
Options == {"-u", "-p", "-f", "-n", "-t"}
Valued  == Options \ {"-t"}

\* The words of a command line are those of its groups, one after the other: an option
\* with its word, "-t", or a word of its own, which is no option that has a value.
Composed(v) ==
  /\ v.argv \in Seq(Seq(Chars))
  /\ v.groups \in Seq([option : Options \cup {"word"}, word : Seq(Chars)])
  /\ DOMAIN v.places = 1 .. Len(v.groups) + 1
  /\ v.places[1] = 1 /\ v.places[Len(v.groups) + 1] = Len(v.argv) + 1
  /\ \A k \in DOMAIN v.groups : LET g == v.groups[k]  p == v.places[k] IN
       /\ p \in 1 .. Len(v.argv)
       /\ v.places[k + 1] = IF g.option \in Valued THEN p + 2 ELSE p + 1
       /\ CASE g.option = "-t"   -> v.argv[p] = <<"-t">>
            [] g.option = "word" -> /\ v.argv[p] = g.word /\ g.word # <<"-t">>
                                    /\ p = Len(v.argv) \/ \A o \in Options : g.word # <<o>>
            [] OTHER             -> p < Len(v.argv) /\ v.argv[p] = <<g.option>> /\ v.argv[p + 1] = g.word

CommandLineAssumption ==
  /\ {"NULL", "INBOX"} \cap Chars = {} /\ Options \subseteq Chars
  /\ DOMAIN Numeral \subseteq Chars \ LineEnds /\ Numeral \in [DOMAIN Numeral -> Int]
  /\ IntSpan \in Nat /\ IntSpan > INT_MAX_UTIL
  /\ \A v \in Invocations : Composed(v)

ASSUME CommandLineAssumption

VARIABLES
  given,       \* the command line
  i,           \* the argument that is looked at
  fetch_mail,  \* what has been stored
  pc           \* "args" in the loop, "usage" after print_usage()

argVars == <<given, i, fetch_mail, pc>>

argv == given.argv
Null == <<"NULL">>
Word == Seq(Chars) \cup {Null}
FetchMail == [username : Word, password : Word, folder : Word, messageNum : Int,
              isTLS : BOOLEAN, command : Word, server_name : Word]

ArgsTypeOK ==
  /\ given \in Invocations
  /\ i \in 1 .. Len(argv) + 1
  /\ fetch_mail \in FetchMail

ArgsInit ==
  /\ given \in Invocations
  /\ i = 1
  /\ fetch_mail = [username |-> Null, password |-> Null, folder |-> Null, messageNum |-> -1,
                   isTLS |-> FALSE, command |-> Null, server_name |-> Null]
  /\ pc = "args"

-----------------------------------------------------------------------------
\* Seeded fault: only the end of the word is looked at.
EndsInBreak(w) == w # <<>> /\ Last(w) \in LineEnds

\* check_for_injection()
HasBreak(w) == \E k \in DOMAIN w : w[k] \in LineEnds

\* print_usage(): exit(1)
Usage == pc' = "usage" /\ UNCHANGED <<given, i, fetch_mail>>

\* Seeded fault: every argument is taken to have a value after it.
StoreByTwo(f, value, n) ==
  /\ fetch_mail' = [fetch_mail EXCEPT ![f] = value]
  /\ i' = i + 2
  /\ UNCHANGED <<given, pc>>

\* Store what the argument or the one after it says, and go on n further.
Store(f, value, n) ==
  /\ fetch_mail' = [fetch_mail EXCEPT ![f] = value]
  /\ i' = i + n
  /\ UNCHANGED <<given, pc>>

InLoop == pc = "args" /\ i <= Len(argv)

\* The argument is o, with a value after it.
Option(o) == InLoop /\ argv[i] = <<o>> /\ i < Len(argv)

User ==
  Option("-u") /\ IF HasBreak(argv[i + 1]) THEN Usage ELSE Store("username", argv[i + 1], 2)

Password ==
  Option("-p") /\ IF HasBreak(argv[i + 1]) THEN Usage ELSE Store("password", argv[i + 1], 2)

Folder ==
  Option("-f") /\ IF argv[i + 1] = <<>> \/ HasBreak(argv[i + 1]) THEN Usage
                  ELSE Store("folder", argv[i + 1], 2)

\* Seeded fault: the number is tested after it has become an int.
InRangeAsInt(n) == n % IntSpan <= INT_MAX_UTIL

\* The test of parse_n_value(), on a long.
InRange(n) == n >= 0 /\ n <= INT_MAX_UTIL

\* strtol() skips blanks and line ends, and takes the rest of the word.
IsNumber(w) ==
  /\ w # <<>> /\ Last(w) \in DOMAIN Numeral
  /\ \A k \in 1 .. Len(w) - 1 : w[k] \in LineEnds \cup {" "}

NumberOf(w) == Numeral[Last(w)]

Number ==
  /\ Option("-n")
  /\ IF IsNumber(argv[i + 1]) /\ InRange(NumberOf(argv[i + 1]))
     THEN Store("messageNum", NumberOf(argv[i + 1]) % IntSpan, 2) ELSE Usage

Tls == InLoop /\ argv[i] = <<"-t">> /\ Store("isTLS", TRUE, 1)

\* Any other argument, an option at the end included: the command, then the server.
Positional ==
  /\ InLoop
  /\ argv[i] # <<"-t">>
  /\ i = Len(argv) \/ \A o \in Options : argv[i] # <<o>>
  /\ IF (fetch_mail.command # Null /\ fetch_mail.server_name # Null) \/ HasBreak(argv[i])
     THEN Usage
     ELSE Store(IF fetch_mail.command = Null THEN "command" ELSE "server_name", argv[i], 1)

Complete ==
  Null \notin {fetch_mail.username, fetch_mail.password, fetch_mail.command, fetch_mail.server_name}

EndOfArgs ==
  /\ pc = "args" /\ i > Len(argv)
  /\ IF Complete THEN pc' = "LOGIN" /\ UNCHANGED <<given, i, fetch_mail>> ELSE Usage

ArgsStep == User \/ Password \/ Folder \/ Number \/ Tls \/ Positional \/ EndOfArgs

-----------------------------------------------------------------------------
(* What a command line means: a sequence of groups, each an option with    *)
(* its word, "-t", or "word" for a word of its own.                        *)

WithOption(o) == {k \in DOMAIN given.groups : given.groups[k].option = o}

\* The word of the last group with option o.
LastWord(o) ==
  IF WithOption(o) = {} THEN Null ELSE given.groups[Max(WithOption(o))].word

\* The n-th word of its own, which has n - 1 before it.
WordsBefore(k) == {l \in WithOption("word") : l < k}
OwnPlaces(n)   == {k \in WithOption("word") : Cardinality(WordsBefore(k)) = n - 1}
OneOf(S)       == CHOOSE k \in S : TRUE
OwnWord(n)     == IF OwnPlaces(n) = {} THEN Null ELSE given.groups[OneOf(OwnPlaces(n))].word

Meant ==
  [username |-> LastWord("-u"), password |-> LastWord("-p"), folder |-> LastWord("-f"),
   messageNum |-> IF LastWord("-n") = Null THEN -1 ELSE NumberOf(LastWord("-n")),
   isTLS |-> WithOption("-t") # {}, command |-> OwnWord(1), server_name |-> OwnWord(2)]

AcceptableGroup(g) ==
  CASE g.option = "-n" -> IsNumber(g.word) /\ NumberOf(g.word) \in 0 .. INT_MAX_UTIL
    [] g.option = "-f" -> g.word # <<>> /\ ~HasBreak(g.word)
    [] g.option = "-t" -> TRUE
    [] OTHER           -> ~HasBreak(g.word)

Acceptable ==
  /\ \A k \in DOMAIN given.groups : AcceptableGroup(given.groups[k])
  /\ WithOption("-u") # {} /\ WithOption("-p") # {}
  /\ OwnWord(2) # Null /\ OwnWord(3) = Null

\* The session starts exactly on the command lines that are complete and clean, with
\* what they say: options in any order, the last of each, values that look like
\* options, an option without its value as the server's name.
ArgumentsTaken ==
  /\ pc \notin {"args", "usage"} => Acceptable /\ fetch_mail = Meant
  /\ pc = "usage" => ~Acceptable
=============================================================================
