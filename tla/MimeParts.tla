----------------------------- MODULE MimeParts -----------------------------
(***************************************************************************)
(* mime(): the boundary of a message, its first part, and the body of the  *)
(* part if that is text.  The loop of parse_mime_parts() has one turn: the *)
(* first part is printed or refused, and both end it.                      *)
(*                                                                         *)
(* Left out: the length of delimiter[256] and headers[1024], which the     *)
(* boundaries and headers of the messages here fit, and body[10240], which *)
(* is filled and not used.                                                 *)
(***************************************************************************)
EXTENDS FetchedText

VARIABLES
  boundary,  \* what find_mime_boundary() returned
  part,      \* the place of part in the text
  headers    \* the header lines of the part

mimeVars == <<boundary, part, headers>>

\* The names in the case the server sends them; strncasecmp() takes both.
TypeNames     == {"Content-Type:", "content-type:"}
EncodingNames == {"Content-Transfer-Encoding:", "content-transfer-encoding:"}
Readable      == {"quoted-printable", "7bit", "8bit"}

-----------------------------------------------------------------------------
(* A multipart message and its text.                                       *)

Field(name, value) == <<name, " ">> \o value \o Eol

ContentType(p, name) ==
  Field(name, <<p.type, ";">> \o (IF p.folded THEN Eol ELSE <<>>) \o <<" ", p.charset>>)

Encoding(p, name) == IF p.encoding = "none" THEN <<>> ELSE Field(name, <<p.encoding>>)

PartFields(p) ==
  IF p.lower THEN ContentType(p, "content-type:") \o Encoding(p, "content-transfer-encoding:")
  ELSE IF p.typeLast
       THEN Encoding(p, "Content-Transfer-Encoding:") \o ContentType(p, "Content-Type:")
       ELSE ContentType(p, "Content-Type:") \o Encoding(p, "Content-Transfer-Encoding:")

PartText(p) == <<"--", "b">> \o Eol \o PartFields(p) \o Eol \o p.body \o Eol

BoundaryField(m) ==
  Field("Content-Type:",
        <<"multipart/mixed", ";", " ", "boundary=">>
          \o (IF m.quoted THEN <<"quote", "b", "quote">> ELSE <<"b">>))

Version == <<"MIME-Version: 1.0">> \o Eol

MimeLiteral(m) ==
  (IF m.versionFirst THEN Version \o BoundaryField(m) ELSE BoundaryField(m) \o Version)
    \o Eol \o m.preamble \o FlattenSeq([i \in DOMAIN m.parts |-> PartText(m.parts[i])])
    \o <<"--", "b", "--">> \o Eol

\* A message without parts is plain text.
MimeText(m) ==
  FetchReply(IF m.parts = <<>> THEN <<"w">> \o Eol ELSE MimeLiteral(m), "A03 OK")

MimeInit(multiparts) == message \in multiparts /\ Start(MimeText(message), "boundary")

NoMime == boundary = <<>> /\ part = 0 /\ headers = <<>>

-----------------------------------------------------------------------------
\* The NULL of a message without a boundary, as snprintf("%s") writes it.
Null == <<"(null)">>

\* find_mime_boundary(): the place after "boundary=", or no boundary at all.
FindParameter ==
  /\ pc = "boundary"
  /\ LET version == Find(<<"MIME-Version: 1.0">>, text, 1)
         param   == IF version = 0 THEN 0 ELSE Find(<<"boundary=">>, text, version)
     IN  IF param = 0 THEN boundary' = Null /\ UNCHANGED part /\ Step("delimiter")
         ELSE part' = param + 1 /\ UNCHANGED boundary /\ Step("value")
  /\ UNCHANGED <<text, headers>>

\* Seeded fault: a quote is looked for from the opening one.
QuotedValue(t) == SubSeq(t, 1, FindOneOf({"quote"}, t, 1))

\* To the closing quote,
Quoted(t) ==
  LET last == FindOneOf({"quote"}, t, 2) IN IF last = 0 THEN Null ELSE SubSeq(t, 2, last - 1)

\* or to the end of the line; the CR is part of it then.
Unquoted(t) ==
  LET last == FindOneOf({";", "LF"}, t, 1) IN IF last = 0 THEN t ELSE SubSeq(t, 1, last - 1)

TakeBoundary ==
  /\ pc = "value"
  /\ boundary' = IF BeginsAt(<<"quote">>, text, part) THEN Quoted(From(text, part))
                 ELSE Unquoted(From(text, part))
  /\ UNCHANGED <<text, part, headers>>
  /\ Step("delimiter")

delimiter == <<"--">> \o boundary

FindDelimiter ==
  /\ pc = "delimiter"
  /\ LET first == Find(delimiter, text, 1) IN
     IF first = 0
     THEN Finish(<<"Error: Boundary delimiter not found", "LF">>, 0) /\ UNCHANGED part
     ELSE part' = first + Len(delimiter) /\ UNCHANGED text /\ Step("part")
  /\ UNCHANGED <<boundary, headers>>

\* unfold_headers_mime() stops at the later of the two fields it finds, or nowhere.
UnfoldEnd(t) ==
  LET fields == {Find(<<n>>, t, 1) : n \in {"Content-Type:", "Content-Transfer-Encoding:"}}
  IN  IF fields = {0} THEN Len(t) + 1 ELSE LastOf[fields]

\* The end of the parts, or a part whose headers are unfolded in place.
EnterPart ==
  /\ pc = "part"
  /\ LET rest == From(text, part) IN
     IF BeginsAt(<<"--">>, rest, 1) THEN Finish(<<>>, 0)
     ELSE /\ text' = SubSeq(text, 1, part - 1)
                       \o Unfold(<<>>)[FoldsBefore(UnfoldEnd(rest), rest)][rest]
          /\ Step("headers")
  /\ UNCHANGED mimeVars

\* Seeded fault: the end of the headers is added to the place they begin at.
ReadHeadersFurther ==
  /\ pc = "headers"
  /\ LET line  == Find(<<"LF">>, text, part)
         blank == Find(Eol \o Eol, text, line + 1)
     IN  /\ headers' = SubSeq(text, line + 1, blank - 1)
         /\ part' = part + blank + 4
  /\ UNCHANGED <<text, boundary>>
  /\ Step("check")

\* From the line after the delimiter to a blank line.  A line end always follows, that
\* of the ")" at the latest; without one the code hands NULL to strstr().
ReadHeaders ==
  /\ pc = "headers"
  /\ LET line  == Find(<<"LF">>, text, part)
         blank == Find(Eol \o Eol, text, line + 1)
     IN  /\ line # 0
         /\ IF blank = 0 THEN Finish(<<>>, 0) /\ UNCHANGED <<part, headers>>
            ELSE /\ headers' = SubSeq(text, line + 1, blank - 1)
                 /\ part' = blank + 4
                 /\ UNCHANGED text
                 /\ Step("check")
  /\ UNCHANGED boundary

\* parse_headers(): the value of the last line with one of the names, which is not
\* ended where the line ends.
ValueOf(names) ==
  LET line == LastOf[{i \in DOMAIN headers :
                        /\ headers[i] \in names
                        /\ i = 1 \/ (i > 2 /\ BeginsAt(Eol, headers, i - 2))}]
  IN  IF line = 0 THEN <<>> ELSE WithoutLeading(Blanks, From(headers, line + 1))

Has(value, token) == Find(<<token>>, value, 1) # 0

IsText == Has(ValueOf(TypeNames), "text/plain") /\ Has(ValueOf(TypeNames), "charset=UTF-8")

\* Seeded fault: any encoding will do.
IsEncoded == ValueOf(EncodingNames) # <<>>

IsReadable == \E e \in Readable : Has(ValueOf(EncodingNames), e)

CheckHeaders ==
  /\ pc = "check"
  /\ IF ~IsText THEN Finish(<<"Error: Invalid Content-Type or charset", "LF">>, 4)
     ELSE IF ~IsReadable THEN Finish(<<"Error: Invalid Content-Transfer-Encoding", "LF">>, 4)
     ELSE UNCHANGED text /\ Step("body")
  /\ UNCHANGED mimeVars

\* get_body_up_to_boundary(): the lines before the one with the delimiter.
BodyUpTo(d, b) ==
  LET k    == Find(d, b, 1)
      line == LastOf[{i \in 1 .. k - 1 : b[i] = "LF"}]
  IN  IF k = 0 THEN b
      ELSE SubSeq(b, 1, IF line > 1 /\ b[line - 1] = "CR" THEN line - 2 ELSE line - 1)

PrintBody ==
  /\ pc = "body"
  /\ Finish(BodyUpTo(delimiter, From(text, part)), 0)
  /\ UNCHANGED mimeVars

MimeStep ==
  \/ FindParameter \/ TakeBoundary \/ FindDelimiter
  \/ EnterPart \/ ReadHeaders \/ CheckHeaders \/ PrintBody

-----------------------------------------------------------------------------
\* A body that mime may print: text in UTF-8, as it is or nearly so.
Printable(p) ==
  p.type = "text/plain" /\ p.charset = "charset=UTF-8" /\ p.encoding \in Readable

\* The blank line before the body is a fold to unfold_headers_mime(), which reaches it when
\* it does not find both of the part's fields.
FoldsIntoBody(p) ==
  /\ p.body # <<>> /\ p.body[1] \in Blanks
  /\ p.lower \/ p.encoding = "none"

\* The messages the code is written for: the version before the boundary, the
\* boundary in quotes or followed by a second delimiter line, names in title case, and
\* the headers told from the body.
RegularMime(m) ==
  /\ m.parts # <<>>
  /\ m.versionFirst
  /\ m.quoted \/ Len(m.parts) > 1
  /\ ~m.parts[1].lower
  /\ ~FoldsIntoBody(m.parts[1])

Result == pc = "done" /\ status = 0 /\ output # <<>>

\* mime prints exactly the body of the first part if that is text, whatever the
\* fields' order and folding, and refuses with status 4 a message that has no text.
\* Nothing is said of one whose first text is a later part: the specification asks
\* for that part, and the code refuses the message.
MimeFirstPart ==
  pc = "done" /\ RegularMime(message) =>
    /\ Printable(message.parts[1]) => status = 0 /\ output = message.parts[1].body
    /\ (\A i \in DOMAIN message.parts : ~Printable(message.parts[i])) => status = 4

\* Text t with none, some or all of its folds gone, the first ones first.
PartlyUnfolded(t) == {Unfold(<<>>)[FoldsBefore(e, t)][t] : e \in 1 .. Len(t) + 1}

\* The first part that may be printed is the i-th.
FirstText(i) ==
  Printable(message.parts[i]) /\ \A j \in 1 .. i - 1 : ~Printable(message.parts[j])

\* Whatever the message, unless unfolding runs into its first body, nothing is printed but
\* the body of the first part that may be printed, some of its folds gone.  Of the only
\* part, behind a boundary without quotes, the rest of the reply is printed as well.
OnlyFirstText ==
  /\ Result
  /\ output # <<"Error: Boundary delimiter not found", "LF">>
  /\ message.parts # <<>> => ~FoldsIntoBody(message.parts[1])
  => \E i \in DOMAIN message.parts :
       /\ FirstText(i)
       /\ \E b \in PartlyUnfolded(message.parts[i].body) :
            IF message.quoted \/ Len(message.parts) > 1 THEN output = b ELSE IsPrefix(b, output)

-----------------------------------------------------------------------------
\* What the repository says of `mime` and the code does not do.

\* "Your program is expected to match and print the first UTF-8 text/plain body part"
\* (section 2.5): when the first part is one, the body of another is not printed.
NoLaterPart ==
  Result /\ message.parts # <<>> /\ Printable(message.parts[1]) =>
    \A i \in 2 .. Len(message.parts) :
      output = message.parts[i].body => message.parts[i].body = message.parts[1].body
=============================================================================
