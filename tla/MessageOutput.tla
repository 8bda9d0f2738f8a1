--------------------------- MODULE MessageOutput ---------------------------
(***************************************************************************)
(* main() once the message is fetched: `retrieve` prints it, `mime` prints *)
(* its first text part, and `parse` prints the headers of a second FETCH.  *)
(***************************************************************************)
EXTENDS MailPrinter, MimeParts, HeaderFold

CONSTANTS
  Tokens,       \* the pieces of text
  Mails,        \* the replies to A03 that retrieve may print
  Multiparts,   \* the messages that mime may be given
  HeaderBlocks  \* the replies to A04

\* What is printed around the texts.
Written ==
  {"LF", " ", ":", "--", "(null)", "<No subject>", "Error: Boundary delimiter not found",
   "Error: Invalid Content-Type or charset", "Error: Invalid Content-Transfer-Encoding"}
    \cup {desired_order[i] : i \in 1 .. 4}

\* All of it is text.  What was unread before a message is empty or the rest of the reply
\* to SELECT, which ends its line and does not quote the tagged line of A03.
MailsAssumption ==
  /\ {"CR", "LF", ")", "* FETCH", "A03 OK", "A03 NO"} \subseteq Tokens
  /\ \A m \in Mails :
       /\ m.sent \in BOOLEAN
       /\ m.ahead \in Seq(Tokens) /\ m.literal \in Seq(Tokens)
       /\ m.ahead # <<>> => (\E i \in DOMAIN m.ahead : m.ahead[i] = "LF") /\ ~Quotes(m.ahead)

\* A header block is made of fields, each of a name and lines, all but the first of which
\* begin with a blank.  What was unread before it is at most the rest of a line, and has no
\* name of the four with a colon.
HeaderFields == Seq([name : Tokens \ (LineEnds \cup Blanks \cup {":"}),
                     lines : Seq(Seq(Tokens \ LineEnds)) \ {<<>>}])

Folded(f) == \A k \in 2 .. Len(f.lines) : f.lines[k] # <<>> /\ f.lines[k][1] \in Blanks

RestOfLine(t) ==
  \A i \in 1 .. Len(t) :
    /\ t[i] = "LF" => i = Len(t)
    /\ i < Len(t) /\ t[i + 1] = ":" => \A f \in DOMAIN Spellings : t[i] \notin Spellings[f]

\* A multipart message: the words of its headers are not names, blanks or line ends, and
\* what surrounds and fills its parts has no delimiter (the "--" of one is a token of its
\* own), no parameter that names a boundary, and no CR without an LF.
Words == Tokens \ (LineEnds \cup Blanks \cup TypeNames \cup EncodingNames \cup {";", "boundary=", "(null)"})

Unmarked == {t \in Seq(Tokens \ {"--", "boundary=", "(null)"}) :
               \A i \in DOMAIN t : t[i] = "CR" => i < Len(t) /\ t[i + 1] = "LF"}

MultipartMessages ==
  [quoted : BOOLEAN, versionFirst : BOOLEAN, preamble : Unmarked,
   parts : Seq([type : Words \ ({"charset=UTF-8"} \cup Readable),
                charset : Words \ ({"text/plain"} \cup Readable),
                encoding : {"none"} \cup (Words \ {"text/plain", "charset=UTF-8"}),
                folded : BOOLEAN, lower : BOOLEAN, typeLast : BOOLEAN, body : Unmarked])]

TextsAssumption ==
  /\ Tokens \subseteq STRING /\ Written \cup {"A04 OK"} \subseteq Tokens /\ None \notin Seq(Tokens)
  /\ Multiparts \subseteq MultipartMessages /\ \A m \in Multiparts : MimeText(m) \in Seq(Tokens)
  /\ {"MIME-Version: 1.0", "multipart/mixed", ";", "boundary=", "quote", "b", "w"} \subseteq Tokens
  /\ TypeNames \cup EncodingNames \subseteq Tokens
  /\ HeaderBlocks \subseteq [fields : HeaderFields, ahead : Seq(Tokens), lost : BOOLEAN]
  /\ \A m \in HeaderBlocks :
       RestOfLine(m.ahead) /\ \A i \in 1 .. Len(m.fields) : Folded(m.fields[i])

ASSUME MailsAssumption
ASSUME TextsAssumption

VARIABLE command

vars == <<textVars, mimeVars, headerVars, command>>

TypeOK ==
  /\ message \in Mails \cup Multiparts \cup HeaderBlocks
  /\ text \in Seq(Tokens)
  /\ output \in Seq(Tokens)
  /\ boundary \in Seq(Tokens) /\ headers \in Seq(Tokens)
  /\ part \in 0 .. Len(text) + 1
  /\ line \in Seq(Tokens)
  /\ header_list \in Seq([type : Seq(Tokens), packet : Seq(Tokens)])
  /\ status \in {-1, 0, 4}
  /\ (pc = "done") = (status # -1)
  /\ command \in {"retrieve", "mime", "parse"}

Init ==
  /\ \/ command = "retrieve" /\ MailInit(Mails)
     \/ command = "mime" /\ MimeInit(Multiparts)
     \/ command = "parse" /\ HeaderInit(HeaderBlocks)
  /\ NoMime
  /\ line = <<>> /\ header_list = <<>>

Retrieve == command = "retrieve" /\ MailStep /\ UNCHANGED <<mimeVars, headerVars, command>>
Mime     == command = "mime" /\ MimeStep /\ UNCHANGED <<headerVars, command>>
Parse    == command = "parse" /\ HeaderStep /\ UNCHANGED <<mimeVars, command>>

Next == Retrieve \/ Mime \/ Parse

\* A computation that waits for nothing.
Spec == Init /\ [][Next]_vars /\ WF_vars(Next)

-----------------------------------------------------------------------------
\* `retrieve` prints what the server sent (MailPrinter), reading nothing before it.
RetrievePrintsMail == command = "retrieve" => MailPrinted
RetrieveInContent  == command = "retrieve" => InContent

\* `mime` prints the first part if it is text (MimeParts), and never anything else; the
\* last does not hold.
MimePrintsFirstPart == command = "mime" => MimeFirstPart
MimePrintsNoOther   == command = "mime" => OnlyFirstText
MimePrintsFirstText == command = "mime" => NoLaterPart

\* `parse` prints the headers (HeaderFold), as far as they came.
ParsePrintsHeaders == command = "parse" => HeadersAsSent
ParseInventsNothing == command = "parse" => LostHeadersAreShort

\* Whatever the text, the command comes to its end: every loop over it moves on.
Ends == <>(pc = "done")
=============================================================================
