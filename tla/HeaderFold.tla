----------------------------- MODULE HeaderFold -----------------------------
(***************************************************************************)
(* parse() after its loop: the headers are unfolded, listed line by line   *)
(* and printed in a fixed order.  The text is what the loop has read: the  *)
(* end of the tagged line of the previous command, the response to A04     *)
(* and, after the blank line, as much as came in the same read; or less,   *)
(* when the connection was lost.                                           *)
(***************************************************************************)
EXTENDS FetchedText

VARIABLES
  line,        \* the line that strtok() returned
  header_list  \* a node for each header line

headerVars == <<line, header_list>>

-----------------------------------------------------------------------------
(* A header block and its text.  A field has a name and the lines it is    *)
(* folded into.                                                            *)

FieldText(f) ==
  <<f.name, ":">> \o f.lines[1]
    \o FlattenSeq([i \in 1 .. Len(f.lines) - 1 |-> Eol \o f.lines[i + 1]]) \o Eol

HeaderReply(m) ==
  m.ahead
    \o FetchReply(FlattenSeq([i \in DOMAIN m.fields |-> FieldText(m.fields[i])]) \o Eol, "A04 OK")

\* The texts that the loop may leave.
Collected(m) ==
  LET reply == HeaderReply(m)
      blank == Find(Eol \o Eol, reply, 1)
  IN  {SubSeq(reply, 1, n) : n \in IF m.lost THEN 0 .. blank + 2 ELSE blank + 3 .. Len(reply)}

HeaderInit(blocks) == message \in blocks /\ \E t \in Collected(message) : Start(t, "unfold")

-----------------------------------------------------------------------------
\* Seeded fault: a fold leaves nothing, as in unfold_headers_mime().
UnfoldToNothing ==
  /\ pc = "unfold"
  /\ text' = Unfold(<<>>)[FoldsBefore(Len(text) + 1, text)][text]
  /\ UNCHANGED headerVars
  /\ Step("lines")

\* unfold_headers(): a fold becomes one blank.
UnfoldHeaders ==
  /\ pc = "unfold"
  /\ text' = Unfold(<<" ">>)[FoldsBefore(Len(text) + 1, text)][text]
  /\ UNCHANGED headerVars
  /\ Step("lines")

\* trim_spaces()
TrimSpaces(t) == WithoutTrailing({" "}, WithoutLeading({" "}, t))

\* Seeded fault: the first call of strtok() is made again.
NextLineAgain ==
  /\ pc = "lines"
  /\ LET start == FirstOf[{i \in DOMAIN text : text[i] \notin LineEnds}]
         end   == FindOneOf(LineEnds, text, start)
     IN  start # 0 /\ line' = SubSeq(text, start, IF end = 0 THEN Len(text) ELSE end - 1)
  /\ UNCHANGED <<text, header_list>>
  /\ Step("line")

\* strtok(): the next line that is not empty; what is left follows its end.
NextLine ==
  /\ pc = "lines"
  /\ LET start == FirstOf[{i \in DOMAIN text : text[i] \notin LineEnds}]
         end   == FindOneOf(LineEnds, text, start)
     IN  /\ start # 0
         /\ line' = SubSeq(text, start, IF end = 0 THEN Len(text) ELSE end - 1)
         /\ text' = IF end = 0 THEN <<>> ELSE From(text, end + 1)
  /\ UNCHANGED header_list
  /\ Step("line")

Colon == Find(<<":">>, line, 1)

\* A line with a colon in it is listed, by what is before the colon.
ListLine ==
  /\ pc = "line"
  /\ header_list' =
       IF Colon = 0 THEN header_list
       ELSE Append(header_list, [type   |-> SubSeq(line, 1, Colon - 1),
                                 packet |-> TrimSpaces(From(line, Colon + 1))])
  /\ UNCHANGED <<text, line>>
  /\ Step("lines")

\* strcasecmp() of a name.
Spellings == [From |-> {"From", "FROM"}, To |-> {"To", "TO"}, Date |-> {"Date", "DATE"},
              Subject |-> {"Subject", "SUBJECT"}]

desired_order == <<"From", "To", "Date", "Subject">>

None == <<"none">>

\* Seeded fault: the search goes on after it has found the name.
ListedLast(f) ==
  LET node == LastOf[{i \in DOMAIN header_list : \E s \in Spellings[f] : header_list[i].type = <<s>>}]
  IN  IF node = 0 THEN None ELSE header_list[node].packet

\* The packet of the first node of that name.
Listed(f) ==
  LET node == FirstOf[{i \in DOMAIN header_list : \E s \in Spellings[f] : header_list[i].type = <<s>>}]
  IN  IF node = 0 THEN None ELSE header_list[node].packet

Display(f, value) ==
  IF value # None THEN <<f, ":", " ">> \o value \o <<"LF">>
  ELSE IF f = "Subject" THEN <<f, ":", " ", "<No subject>", "LF">> ELSE <<f, ":", "LF">>

\* The four fields, each with its value.
InOrder(values) ==
  LET field(k) == Display(desired_order[k], values[desired_order[k]])
  IN  field(1) \o field(2) \o field(3) \o field(4)

PrintHeaders ==
  /\ pc = "lines"
  /\ \A i \in DOMAIN text : text[i] \in LineEnds
  /\ Finish(InOrder([f \in DOMAIN Spellings |-> Listed(f)]), 0)
  /\ UNCHANGED headerVars

HeaderStep == UnfoldHeaders \/ NextLine \/ ListLine \/ PrintHeaders

-----------------------------------------------------------------------------
\* The value of the first field of that name, as one line: its lines, each but the
\* first without the blanks before it, with one blank between them.
Sent(m, f) ==
  LET k == FirstOf[{i \in DOMAIN m.fields : m.fields[i].name \in Spellings[f]}]
      lines == m.fields[k].lines
  IN  IF k = 0 THEN None
      ELSE TrimSpaces(lines[1]
             \o FlattenSeq([i \in 1 .. Len(lines) - 1 |->
                              <<" ">> \o WithoutLeading(Blanks, lines[i + 1])]))

\* parse prints the four fields in its order, each unfolded and trimmed, in whatever
\* case, order and number they came, wherever the last read ended and whatever was
\* unread before the reply.
HeadersAsSent ==
  pc = "done" /\ ~message.lost =>
    output = InOrder([f \in DOMAIN Spellings |-> Sent(message, f)])

\* When the end of the reply was lost, each field is still printed as what it
\* begins with, or as missing, never as part of another.
LostHeadersAreShort ==
  pc = "done" /\ message.lost =>
    \A f \in DOMAIN Spellings :
      Listed(f) = None \/ (Sent(message, f) # None /\ IsPrefix(Listed(f), Sent(message, f)))
=============================================================================
