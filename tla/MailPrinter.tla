---------------------------- MODULE MailPrinter ----------------------------
(***************************************************************************)
(* print_list_retrieve(): the text of the packets, without the line that   *)
(* announces the message, the tagged line, and the ")" and line end of the *)
(* response.  The bytes after trim_pos are NUL, so the text ends there.    *)
(***************************************************************************)
EXTENDS FetchedText

\* A literal, with the lines that were still unread before its response.
MailReply(m) ==
  IF m.sent THEN m.ahead \o FetchReply(m.literal, "A03 OK")
  ELSE m.ahead \o <<"A03 NO">> \o Eol

MailInit(mails) == message \in mails /\ Start(MailReply(message), "locate")

\* print_string_with_nul_handling()
Line(t) == Append(t, "LF")

\* The text after the first LF, up to the tagged line.  Without an LF nothing is
\* printed, without a tagged line all that follows the LF.
Locate ==
  /\ pc = "locate"
  /\ LET start  == Find(<<"LF">>, text, 1) + 1
         marker == Find(<<"A03 OK">>, text, start)
     IN  IF start = 1 THEN Finish(<<>>, 0)
         ELSE IF marker = 0 THEN Finish(Line(From(text, start)), 0)
         ELSE text' = SubSeq(text, start, marker - 1) /\ Step("trim")

\* One turn of the loop: a line end is removed,
TrimEol ==
  /\ pc = "trim"
  /\ text # <<>> /\ Last(text) \in LineEnds
  /\ text' = Front(text)
  /\ UNCHANGED <<message, pc, output, status>>

\* Seeded fault: every ")" at the end is removed.
TrimParens ==
  /\ pc = "trim"
  /\ text # <<>> /\ Last(text) = ")"
  /\ text' = WithoutTrailing({")"}, text)
  /\ Step("last")

\* or a ")" is, which ends the loop,
TrimParen ==
  /\ pc = "trim"
  /\ text # <<>> /\ Last(text) = ")"
  /\ text' = Front(text)
  /\ Step("last")

\* or the loop ends with the text as it is.
TrimStop ==
  /\ pc = "trim"
  /\ text = <<>> \/ Last(text) \notin LineEnds \cup {")"}
  /\ UNCHANGED text
  /\ Step("print")

\* Seeded fault: all line ends before the ")" are removed.
TrimLastLines ==
  /\ pc = "last"
  /\ text' = WithoutTrailing(LineEnds, text)
  /\ Step("print")

\* One more character is looked at after the ")".  When nothing is left that is the
\* byte before the allocation, which is no part of what is printed.
TrimLast ==
  /\ pc = "last"
  /\ text' = IF text # <<>> /\ Last(text) \in LineEnds THEN Front(text) ELSE text
  /\ Step("print")

PrintMail == pc = "print" /\ Finish(Line(text), 0)

MailStep == Locate \/ TrimEol \/ TrimParen \/ TrimStop \/ TrimLast \/ PrintMail

-----------------------------------------------------------------------------
Quotes(t) == Find(<<"A03 OK">>, t, 1) # 0
EndsIn(t, c) == t # <<>> /\ Last(t) = c

\* The message with one LF at its end.
AsLines(t) == IF EndsIn(t, "LF") THEN t ELSE Line(t)

\* The message, after all but the first line of what was unread before it.
Shown(m) ==
  IF m.ahead = <<>> THEN m.literal
  ELSE From(m.ahead, Find(<<"LF">>, m.ahead, 1) + 1) \o <<"* FETCH">> \o Eol \o m.literal

\* `retrieve` prints the message character by character, with one LF at its end, and
\* what was unread before it; only a message that ends in a lone CR loses it, and
\* one that quotes the tagged line the rest.
MailPrinted ==
  message.sent /\ pc = "done" /\ ~Quotes(message.literal) /\ ~EndsIn(message.literal, "CR")
    => output = AsLines(Shown(message))

\* The walk back from the end never leaves the text, unless the message is empty, or a
\* ")" before the tagged line that it quotes, and nothing was unread before it: then
\* *trim_pos is read before the allocation.
InContent ==
  pc = "last" /\ text = <<>> =>
    /\ message.sent /\ message.ahead = <<>>
    /\ message.literal = <<>> \/ (Quotes(message.literal) /\ message.literal[1] = ")")
=============================================================================
