----------------------------- MODULE TlsSession -----------------------------
(***************************************************************************)
(* One run of `fetchmail -t`: tls_connect(), then login, select and fetch  *)
(* over SSL_read() and SSL_write(), then what the command asks.  `parse`   *)
(* and `list` send their own FETCH with the functions FetchSession models: *)
(* in clear, on the descriptor below the TLS session.                      *)
(*                                                                         *)
(* The variables are those of FetchSession.  fd is "open" when tls_connect *)
(* has returned a session; otherwise main() goes on with a NULL one.       *)
(***************************************************************************)
EXTENDS FetchSession

\* The commands that are written to the socket, not to the TLS session.
InClear == {"PARSE", "LIST"}

\* main() looks at no result of tls_connect() and goes on with a NULL session.
NoSession == Begin("LOGIN") /\ UNCHANGED fd

\* tls_connect(): the host is looked up and connected to.
TlsConnect ==
  /\ pc = "resolve"
  /\ \/ NoSession /\ UNCHANGED conn
     \/ conn' = "open" /\ pc' = "connect" /\ UNCHANGED <<cmd, left, fd, outcome>>
  /\ UNCHANGED <<c2s, wire, pos, verdict, served, folder>>
  /\ UNCHANGED <<command, addrs, packets, buf>>

\* create_ssl_context(): without a context or the CA file the process exits.
TlsContextFails ==
  /\ pc = "connect"
  /\ Exit("TlsFailure")
  /\ UNCHANGED <<serverVars, command, addrs, fd, packets, buf>>

\* create_ssl_connection() and the certificate: the handshake fails, as it must when
\* the connection is lost, or the certificate is refused, and the client closes.
TlsHandshakeFails ==
  /\ pc = "connect"
  /\ NoSession
  /\ conn' = "none"
  /\ UNCHANGED <<c2s, wire, pos, verdict, served, folder>>
  /\ UNCHANGED <<command, addrs, packets, buf>>

\* The session is set up, and the server greets.
TlsHandshake ==
  /\ pc = "connect"
  /\ conn = "open"
  /\ fd' = "open"
  /\ wire' = Greeting
  /\ pc' = "recv"
  /\ UNCHANGED <<conn, c2s, pos, verdict, served, folder>>
  /\ UNCHANGED <<command, cmd, left, addrs, packets, buf, outcome>>

\* send_ssl_command() on a session: SSL_write() sends all of the command.
TlsSend ==
  /\ pc = "send"
  /\ cmd \notin InClear
  /\ fd = "open"
  /\ \/ /\ conn \in {"open", "fin"}
        /\ conn' \in IF conn = "fin" THEN {"fin", "shut"} ELSE {"open"}
        /\ c2s' = IF conn = "open" THEN Append(c2s, cmd) ELSE c2s
        /\ pc' = "recv"
        /\ left' = 0
        /\ UNCHANGED <<cmd, outcome>>
     \/ conn = "shut" /\ Exit("SigPipe") /\ UNCHANGED <<conn, c2s>>
     \/ conn = "rst" /\ Exit("SslError") /\ UNCHANGED <<conn, c2s>>
  /\ UNCHANGED <<wire, pos, verdict, served, folder>>
  /\ UNCHANGED <<command, addrs, fd, packets, buf>>

\* send_ssl_command() on NULL: OpenSSL dereferences it, or, in versions that
\* check, returns -1, or 0, of which the client only says "Partial write".
TlsSendNull ==
  /\ pc = "send"
  /\ cmd \notin InClear
  /\ fd # "open"
  /\ \/ \E o \in {"Crash", "SslError"} : Exit(o)
     \/ pc' = "recv" /\ left' = 0 /\ UNCHANGED <<cmd, outcome>>
  /\ UNCHANGED <<serverVars, command, addrs, fd, packets, buf>>

\* read_ssl_response(): one SSL_read().  At the end of the stream it returns 0,
\* or -1 when the peer did not close the TLS session first.
TlsReadResponse ==
  /\ pc = "recv"
  /\ cmd \in DOMAIN Successor
  /\ \/ \E n \in ReadSizes :
          /\ fd = "open"
          /\ pos' = pos + n
          /\ \/ Refusal(Chunk(n)) # "none" /\ Exit(Refusal(Chunk(n)))
             \/ Refusal(Chunk(n)) = "none" /\ Begin(Successor[cmd])
     \/ AtEnd /\ (\E o \in {"Disconnected", "ReadError"} : Exit(o)) /\ UNCHANGED pos
     \/ ReadFails /\ fd = "open" /\ Exit("ReadError") /\ UNCHANGED pos
     \/ /\ fd # "open"
        /\ \E o \in {"Crash", "Disconnected", "ReadError"} : Exit(o)
        /\ UNCHANGED pos
  /\ UNCHANGED <<conn, c2s, wire, verdict, served, folder>>
  /\ UNCHANGED <<command, addrs, fd, packets, buf>>

\* strstr(b, a) for a single atom.
ShowsAtom(b, a) == \E i \in 1 .. StrLen(b) : b[i] = a

\* A refusal as the text "NO" or "BAD", which a refused login has too.
Refuses(b) == \E s \in {"NO", "NOAUTH", "BAD"} : ShowsAtom(b, s)

\* Seeded fault: a tag that comes without OK is taken for a refusal.
AnswerByTag(b) ==
  IF ~ShowsAtom(b, "A03") THEN "none"
  ELSE IF ShowsAtom(b, "OK") THEN "OK" ELSE "refused"

\* read_ssl_fetch_response(): the tag anywhere in the chunk, then OK anywhere
\* in it, then NO or BAD anywhere in it.
AnswerAnywhere(b) ==
  IF ~ShowsAtom(b, "A03") THEN "none"
  ELSE IF ShowsAtom(b, "OK") THEN "OK"
  ELSE IF Refuses(b) THEN "refused" ELSE "none"

\* read_ssl_fetch_response(): one turn of the loop.
TlsRetrieveRead ==
  /\ pc = "recv"
  /\ cmd = "FETCH"
  /\ \/ \E n \in ReadSizes :
          /\ pos' = pos + n
          /\ packets' = packets \o Stored(Chunk(n))
          /\ \/ /\ AnswerAnywhere(Chunk(n)) = "OK"
                /\ pc' = "dispatch"
                /\ UNCHANGED <<cmd, left, outcome>>
             \/ AnswerAnywhere(Chunk(n)) = "refused" /\ Exit("MessageNotFound")
             \/ AnswerAnywhere(Chunk(n)) = "none" /\ ReadOn
     \/ AtEnd /\ (ReadOn \/ Exit("ReadError")) /\ UNCHANGED <<pos, packets>>
     \/ ReadFails /\ Exit("ReadError") /\ UNCHANGED <<pos, packets>>
  /\ UNCHANGED <<conn, c2s, wire, verdict, served, folder>>
  /\ UNCHANGED <<command, addrs, fd, buf>>

\* main() after retrieve_ssl().  `parse` and `list` leave the TLS session: what
\* it has decrypted is out of reach, what it has not is noise.
TlsDispatch ==
  \/ command \notin {"parse", "list"} /\ Dispatch
  \/ /\ pc = "dispatch"
     /\ \/ command = "parse" /\ Begin("PARSE")
        \/ command = "list" /\ Begin("LIST")
     /\ \/ wire' = SubSeq(wire, 1, pos)
        \/ pos < Len(wire) /\ wire' = Append(SubSeq(wire, 1, pos), "mail")
     /\ UNCHANGED <<conn, c2s, pos, verdict, served, folder>>
     /\ UNCHANGED <<command, addrs, fd, packets, buf>>

-----------------------------------------------------------------------------
TlsClient ==
  \/ TlsConnect \/ TlsContextFails \/ TlsHandshakeFails \/ TlsHandshake
  \/ TlsSend \/ TlsSendNull \/ TlsReadResponse \/ TlsRetrieveRead \/ TlsDispatch
  \/ (cmd \in InClear /\ SendCommand)
  \/ ParseRead \/ ListRead

\* What was written in clear has begun to arrive.
ClearArrived ==
  \/ c2s # <<>> /\ Head(c2s) \in InClear
  \/ pc = "send" /\ cmd \in InClear /\ left < CmdLen

\* The server takes it for a broken TLS record: an alert, if any, and the end.
RejectRecord ==
  /\ conn = "open"
  /\ ClearArrived
  /\ conn' \in {"fin", "rst"}
  /\ wire' \in {wire, Append(wire, "mail")}
  /\ c2s' = <<>>
  /\ UNCHANGED <<pos, verdict, served, folder>>

TlsServer ==
  /\ pc # "exit"
  /\ \/ ~ClearArrived /\ Serve
     \/ RejectRecord
  /\ UNCHANGED clientVars

TlsNext == TlsClient \/ TlsServer \/ Network \/ Finished

TlsSpec == Init /\ [][TlsNext]_vars

TlsFairSpec == TlsSpec /\ WF_vars(TlsClient) /\ WF_vars(TlsServer)

-----------------------------------------------------------------------------
\* A message is reported missing only when the server said so.  (MailComplete,
\* NetworkErrorsAreReal and LossNoticed of FetchSession are the other properties
\* that TlsSpec is checked for.)
NeverMissingByMistake ==
  outcome = "MessageNotFound" => verdict["FETCH"] \in {"NO", "BAD"}

-----------------------------------------------------------------------------
\* What the repository says of -t and the code does not do.

\* "use transport layer security (TLS) instead of a plain TCP socket when the -t
\* option is specified" (section 2.7): the headers of `parse` come by TLS too.
HeadersByTls == outcome = "Headers" => verdict["PARSE"] = "OK"
=============================================================================
