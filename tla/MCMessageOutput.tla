-------------------------- MODULE MCMessageOutput --------------------------
(***************************************************************************)
(* MessageOutput on small messages.                                        *)
(***************************************************************************)
EXTENDS MessageOutput

AllTokens ==
  {"CR", "LF", " ", "TAB", ";", ":", ")", "w", "v", "b", "--", "quote", "(null)",
   "* FETCH", "A02 OK", "A03 OK", "A03 NO", "A04 OK",
   "MIME-Version: 1.0", "multipart/mixed", "boundary=", "text/plain", "text/html",
   "charset=UTF-8", "charset=latin1", "7bit", "quoted-printable", "base64", "From", "FROM", "To", "Date",
   "Subject", "SUBJECT", "Received", "<No subject>",
   "Error: Boundary delimiter not found", "Error: Invalid Content-Type or charset",
   "Error: Invalid Content-Transfer-Encoding"} \cup TypeNames \cup EncodingNames

Lines(n) == UNION {[1 .. k -> {"w", ")", "CR", "LF"}] : k \in 0 .. n}

\* Every message of up to four characters, with and without a reply unread before it;
\* two that quote the tagged line; and over TLS a refusal that passes for a message,
\* because the OK of SELECT is in the same read.
AllMails ==
  {[sent |-> TRUE, ahead |-> a, literal |-> l] : a \in {<<>>, <<"A02 OK">> \o Eol}, l \in Lines(4)}
  \cup {[sent |-> TRUE, ahead |-> <<>>, literal |-> <<"w", "A03 OK", "v">>],
         [sent |-> TRUE, ahead |-> <<>>, literal |-> <<")">> \o Eol \o <<"A03 OK">>],
        [sent |-> FALSE, ahead |-> <<"A02 OK">> \o Eol, literal |-> <<>>]}

\* Bodies: empty, a line, lines of which two begin with a blank, one of them behind an
\* empty line, a line end first, a blank first.
Bodies ==
  {<<>>, <<"w">>, <<"w">> \o Eol \o <<" ", "v">> \o Eol \o Eol \o <<" ", "w">>, Eol \o <<"w">>,
   <<" ", "w">>}

Parts ==
  [type : {"text/plain", "text/html"}, charset : {"charset=UTF-8", "charset=latin1"},
   encoding : {"7bit", "base64", "none"}, folded : BOOLEAN, lower : BOOLEAN, typeLast : BOOLEAN,
   body : Bodies]

Other == [type |-> "text/plain", charset |-> "charset=UTF-8", encoding |-> "quoted-printable",
          folded |-> TRUE, lower |-> FALSE, typeLast |-> TRUE, body |-> <<"v">>]

\* Any part, alone and before another.
AllMultiparts ==
  [quoted : BOOLEAN, versionFirst : BOOLEAN, preamble : {<<>>, <<"w">> \o Eol},
   parts : {<<>>} \cup {<<p>> : p \in Parts} \cup {<<p, Other>> : p \in Parts}]

\* The messages of two parts.
TwoParts == {m \in AllMultiparts : Len(m.parts) = 2}

HeaderField(name, lines) == [name |-> name, lines |-> lines]

\* Values: empty, a word, one with blanks around it and a colon, folded with a blank and
\* with a TAB, folded with nothing before the fold, and with a line of one blank.
Values ==
  {<<<<>>>>, <<<<"w">>>>, <<<<" ", "w", ":", " ", "v", " ">>>>, <<<<" ", "w">>, <<" ", "v">>>>,
   <<<<" ", "w">>, <<"TAB", " ", "v">>>>, <<<<>>, <<" ", "v">>>>, <<<<" ", "w">>, <<" ">>, <<"TAB", "v">>>>}

\* No field, one, two with the same name or not, and all four out of order.
Blocks ==
  {<<>>} \cup {<<HeaderField(n, v)>> : n \in {"From", "FROM", "Date", "SUBJECT", "Received"}, v \in Values}
  \cup {<<HeaderField(n, v), HeaderField("Subject", w)>> : n \in {"Subject", "To"}, v \in Values, w \in Values}
  \cup {<<HeaderField("Subject", v), HeaderField("Date", v), HeaderField("To", v), HeaderField("From", v)>> :
          v \in Values}

AllHeaderBlocks ==
  [fields : Blocks, ahead : {<<>>, Eol, <<"w">> \o Eol}, lost : BOOLEAN]
=============================================================================
