--------------------------- MODULE MCFetchSession ---------------------------
(***************************************************************************)
(* FetchSession on small instances: the literals a server may answer with. *)
(***************************************************************************)
EXTENDS FetchSession

\* Two messages in the folder; the second has no Subject header but its blank line.
TwoSubjects ==
  <<"subject", "eol", "eol", ")", "eol", "untagged", "eol", "eol">>

With(mails) ==
  [FETCH |-> mails, PARSE |-> {<<"header", "eol", "eol">>}, LIST |-> {TwoSubjects}]

\* Messages with and without a last line end, an empty one, one that ends like
\* the FETCH response that carries it, one with a "+" before a word and on a line of
\* its own, and one with a blank line in it.
PlainMails ==
  With({<<>>, <<"mail">>, <<"mail", "eol">>, <<"mail", ")">>, <<"+", "mail", "eol", "+">>,
        <<"mail", "eol", "eol", "mail", ")", "eol">>})

OneMail == With({<<"mail", "eol">>})
=============================================================================
