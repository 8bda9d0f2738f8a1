---------------------------- MODULE CommandText ----------------------------
(***************************************************************************)
(* The text of the commands that a command line leads to, and the fixed    *)
(* buffers they are formatted in, for a session in which nothing fails.    *)
(* Lengths are counted in characters of CommandLine; "A01 LOGIN" and the   *)
(* like count as one, the sizes of the buffers being small as well.        *)
(***************************************************************************)
EXTENDS CommandLine

CONSTANTS
  BufferSize,    \* BUFFER_SIZE
  BufferSizeTls  \* BUFFER_SIZE_TLS

CommandTextAssumption ==
  BufferSize \in Nat /\ BufferSizeTls \in Nat /\ BufferSize > 8 /\ BufferSizeTls > 8

ASSUME CommandTextAssumption

VARIABLES
  j,        \* the characters of the folder's name that have been escaped
  escaped,  \* escaped_name
  sent      \* the commands that have been sent

vars == <<argVars, j, escaped, sent>>

Eol == <<"CR", "LF">>
CommandChars ==
  Chars \cup {"CR", "LF", " ", "quote", "backslash", "INBOX", "A01 LOGIN", "A02 SELECT",
              "A03 FETCH", "A04 FETCH", "A06 FETCH", "*", "1:*", "BODY.PEEK[]", "HEADER.FIELDS"}

TypeOK ==
  /\ ArgsTypeOK
  /\ pc \in {"args", "usage", "LOGIN", "escape", "SELECT", "FETCH", "command", "undefined", "done"}
  /\ j \in Nat
  /\ escaped \in Seq(CommandChars)
  /\ sent \in Seq(Seq(CommandChars))

Init == ArgsInit /\ j = 0 /\ escaped = <<>> /\ sent = <<>>

Args == ArgsStep /\ UNCHANGED <<j, escaped, sent>>

-----------------------------------------------------------------------------
\* snprintf() into size bytes, the last one for the NUL.
Formatted(size, t) == IF Len(t) < size THEN t ELSE SubSeq(t, 1, size - 1)

Send(t, next) ==
  sent' = Append(sent, t) /\ pc' = next /\ UNCHANGED <<given, i, fetch_mail>>

LoginSize == IF fetch_mail.isTLS THEN BufferSizeTls ELSE BufferSize

\* login(), login_ssl()
Login ==
  /\ pc = "LOGIN"
  /\ Send(Formatted(LoginSize, <<"A01 LOGIN", " ">> \o fetch_mail.username \o <<" ">>
                             \o fetch_mail.password \o Eol), "escape")
  /\ UNCHANGED <<j, escaped>>

folder_name == IF fetch_mail.folder \in {Null, <<>>} THEN <<"INBOX">> ELSE fetch_mail.folder

\* Seeded fault: a quote is escaped, a backslash is not.
EscapedQuote(c) == IF c = "quote" THEN <<"backslash", c>> ELSE <<c>>

\* Seeded fault: a backslash is written for each character of the escape.
EscapedTwice(c) ==
  IF c \in {"quote", "backslash"} THEN <<"backslash", "backslash", c>> ELSE <<c>>

\* One character of the folder's name.
Escaped(c) == IF c \in {"quote", "backslash"} THEN <<"backslash", c>> ELSE <<c>>

\* select_folder(): one turn of the loop.  A name that fills escaped_name[] is written
\* past it.
Escape ==
  /\ pc = "escape"
  /\ j < Len(folder_name)
  /\ j' = j + 1
  /\ escaped' = escaped \o Escaped(folder_name[j + 1])
  /\ pc' = IF Len(escaped') < 2 * BufferSize THEN "escape" ELSE "undefined"
  /\ UNCHANGED <<given, i, fetch_mail, sent>>

Escapes ==
  /\ pc = "escape"
  /\ j = Len(folder_name)
  /\ pc' = "SELECT"
  /\ UNCHANGED <<given, i, fetch_mail, j, escaped, sent>>

SelectText == <<"A02 SELECT", " ", "quote">> \o escaped \o <<"quote">> \o Eol

\* The text and its NUL fit command[]; the limit that snprintf() is given is larger.
SelectFits == Len(SelectText) < BufferSize

Select ==
  /\ pc = "SELECT"
  /\ IF SelectFits THEN Send(SelectText, "FETCH")
     ELSE pc' = "undefined" /\ UNCHANGED <<given, i, fetch_mail, sent>>
  /\ UNCHANGED <<j, escaped>>

\* "%d"
Decimal(n) == <<CHOOSE c \in DOMAIN Numeral : Numeral[c] = n>>

MessageSet == IF fetch_mail.messageNum = -1 THEN <<"*">> ELSE Decimal(fetch_mail.messageNum)

\* retrieve(), retrieve_ssl()
Fetch ==
  /\ pc = "FETCH"
  /\ Send(<<"A03 FETCH", " ">> \o MessageSet \o <<" ", "BODY.PEEK[]">> \o Eol, "command")
  /\ UNCHANGED <<j, escaped>>

\* parse() and read_subjects() send one more.
FetchAgain ==
  /\ pc = "command"
  /\ IF fetch_mail.command = <<"parse">>
     THEN Send(<<"A04 FETCH", " ">> \o MessageSet \o <<" ", "HEADER.FIELDS">> \o Eol, "done")
     ELSE IF fetch_mail.command = <<"list">>
     THEN Send(<<"A06 FETCH", " ", "1:*", " ", "HEADER.FIELDS">> \o Eol, "done")
     ELSE pc' = "done" /\ UNCHANGED <<given, i, fetch_mail, sent>>
  /\ UNCHANGED <<j, escaped>>

Next == Args \/ Login \/ Escape \/ Escapes \/ Select \/ Fetch \/ FetchAgain

Spec == Init /\ [][Next]_vars

-----------------------------------------------------------------------------
\* t is a line, or what is left of one in a buffer of size.
WholeLine(t)     == Len(t) >= 2 /\ t[Len(t) - 1] = "CR" /\ t[Len(t)] = "LF"
CutLine(t, size) == Len(t) = size - 1 /\ t[Len(t)] # "LF"

\* What the user writes cannot become a second command: every command that is sent is
\* one line, whatever the words of the command line; the line is unfinished only
\* when a LOGIN fills its buffer.
OneCommandOneLine ==
  \A n \in DOMAIN sent :
    /\ \A k \in 1 .. Len(sent[n]) - 2 : sent[n][k] \notin LineEnds
    /\ WholeLine(sent[n]) \/ (n = 1 /\ CutLine(sent[n], LoginSize))

\* A folder's name that fits twice into what SELECT leaves of the buffer is sent without
\* a write past it.
FolderFits == pc = "undefined" => 2 * Len(folder_name) + 6 >= BufferSize

-----------------------------------------------------------------------------
\* How a server reads a quoted string: one character more, and the whole of t.
ReadOn(r, c) ==
  IF r.shut THEN r
  ELSE IF r.open THEN [r EXCEPT !.out = Append(@, c), !.open = FALSE]
  ELSE IF c = "backslash" THEN [r EXCEPT !.open = TRUE]
  ELSE IF c = "quote" THEN [r EXCEPT !.shut = TRUE]
  ELSE [r EXCEPT !.out = Append(@, c)]

NothingRead == [out |-> <<>>, open |-> FALSE, shut |-> FALSE]

Unquoted(t) ==
  LET upTo[k \in 0 .. Len(t)] == IF k = 0 THEN NothingRead ELSE ReadOn(upTo[k - 1], t[k])
  IN  upTo[Len(t)].out

\* The server selects the folder of the command line, or INBOX, and is asked for one
\* message, the same one both times.
CommandsAsMeant ==
  /\ Len(sent) >= 2 =>
       Unquoted(SubSeq(sent[2], 4, Len(sent[2]))) = IF LastWord("-f") = Null THEN <<"INBOX">> ELSE LastWord("-f")
  /\ Len(sent) >= 3 =>
       IF LastWord("-n") = Null THEN sent[3][3] = "*"
       ELSE Numeral[sent[3][3]] = NumberOf(LastWord("-n"))
  /\ Len(sent) = 4 /\ sent[4][1] = "A04 FETCH" => sent[4][3] = sent[3][3]
=============================================================================
