---------------------------- MODULE MCTlsSession ----------------------------
(***************************************************************************)
(* TlsSession on small instances: the literals a server may answer with.   *)
(***************************************************************************)
EXTENDS TlsSession

\* PARSE and LIST never reach the server of a TLS session.
With(mails) == [FETCH |-> mails, PARSE |-> {<<>>}, LIST |-> {<<>>}]

\* Messages with and without a last line end, an empty one, and one with a blank
\* line in it that ends like the FETCH response that carries it.
PlainMails ==
  With({<<>>, <<"mail">>, <<"mail", "eol">>, <<"mail", "eol", "eol", "mail", ")", "eol">>})

OneMail == With({<<"mail", "eol">>})
=============================================================================
