---------------------------- MODULE FetchSession ----------------------------
(***************************************************************************)
(* One run of `fetchmail` without -t: main() connects, reads the greeting, *)
(* logs in, selects the folder, fetches the message, and then does what    *)
(* the command asks, over one TCP connection to the server of ImapServer.  *)
(*                                                                         *)
(* The client does not match replies to commands: every read() takes what  *)
(* happens to be in the stream, and each step looks for its own markers in *)
(* what it took.  Delivery says how much the network may hand to a read(): *)
(*   "bytes"    any part of what is there;                                 *)
(*   "lines"    any number of whole lines;                                 *)
(*   "replies"  all that is there, so one whole reply at a time.           *)
(***************************************************************************)
EXTENDS ImapServer

CONSTANTS
  MaxAddrs,  \* the most addresses getaddrinfo() returns
  CmdLen,    \* the pieces a command line may be written in
  MaxRead,   \* the most atoms one read() returns: BUFFER_SIZE - 1 bytes
  Delivery   \* "bytes", "lines" or "replies"

SessionAssumption ==
  /\ MaxAddrs \in Nat \ {0}
  /\ CmdLen \in Nat \ {0}
  /\ MaxRead \in Nat \ {0}
  /\ Delivery \in {"bytes", "lines", "replies"}

ASSUME SessionAssumption

VARIABLES
  command,  \* the <command> of the command line
  pc,       \* what the process is doing
  cmd,      \* the reply waited for, or the command being written
  left,     \* send_command's bytes_left, in pieces
  addrs,    \* addresses create_connection has not tried
  fd,       \* what sockfd is: no descriptor, a closed one, or the connection
  packets,  \* the packets of packet_list, concatenated
  buf,      \* dynamic_buffer of parse() or read_subjects()
  outcome   \* how the process ended

clientVars == <<command, pc, cmd, left, addrs, fd, packets, buf, outcome>>
vars == <<serverVars, clientVars>>

Promise == INSTANCE ImapExchange WITH verdict <- verdict, outcome <- outcome

CommandLine == {"retrieve", "parse", "mime", "list", "other"}
Phases == {"resolve", "connect", "send", "recv", "dispatch", "exit"}

\* The exit status of each end of a run.
ExitCode ==
  [NoAddress |-> 1, WriteError |-> 1, SigPipe |-> 2, ReadError |-> 2,
   Disconnected |-> 2, LoginFailure |-> 3, FolderNotFound |-> 3,
   MessageNotFound |-> 3, FetchError |-> 1, Mail |-> 0, MimePart |-> 0,
   MimeNone |-> 0, MimeInvalid |-> 4, HeaderError |-> 1, Headers |-> 0,
   NoSubjects |-> 3, Subjects |-> 0, Crash |-> 139, Nothing |-> 0,
   TlsFailure |-> 2, SslError |-> 2]

TypeOK ==
  /\ ServerTypeOK
  /\ command \in CommandLine
  /\ pc \in Phases
  /\ cmd \in Commands \cup {"GREET"}
  /\ left \in 0 .. CmdLen
  /\ addrs \in 0 .. MaxAddrs
  /\ fd \in {"none", "closed", "open"}
  /\ packets \in Seq(Atoms)
  /\ buf \in Seq(Atoms)
  /\ outcome \in DOMAIN ExitCode \cup {"none"}

Init ==
  /\ ServerInit
  /\ command \in CommandLine
  /\ pc = "resolve"
  /\ cmd = "GREET"
  /\ left = 0
  /\ addrs = 0
  /\ fd = "none"
  /\ packets = <<>>
  /\ buf = <<>>
  /\ outcome = "none"

-----------------------------------------------------------------------------
\* exit() with the message and status of o.
Exit(o) == pc' = "exit" /\ outcome' = o /\ UNCHANGED <<cmd, left>>

\* Seeded fault: the NUL that ends the command is sent too.
BeginWithNul(c) == pc' = "send" /\ cmd' = c /\ left' = CmdLen + 1 /\ UNCHANGED outcome

\* Build command c and enter send_command().
Begin(c) == pc' = "send" /\ cmd' = c /\ left' = CmdLen /\ UNCHANGED outcome

\* Go round the read loop again.
ReadOn == UNCHANGED <<pc, cmd, left, outcome>>

\* create_connection(): getaddrinfo().
Resolve ==
  /\ pc = "resolve"
  /\ \/ addrs' \in 1 .. MaxAddrs /\ pc' = "connect" /\ UNCHANGED <<cmd, left, outcome>>
     \/ Exit("NoAddress") /\ UNCHANGED addrs
  /\ UNCHANGED <<serverVars, command, fd, packets, buf>>

\* create_connection(): one turn of the loop.  A failed connect() leaves the
\* number of a closed descriptor in sockfd.
TryAddress ==
  /\ pc = "connect"
  /\ addrs > 0
  /\ \/ /\ fd' = "none"                                        \* socket() < 0
        /\ addrs' = addrs - 1
        /\ UNCHANGED <<conn, wire, pc>>
     \/ /\ fd' = "closed"                                      \* connect() # 0
        /\ addrs' = addrs - 1
        /\ UNCHANGED <<conn, wire, pc>>
     \/ /\ fd' = "open"
        /\ conn' = "open"
        /\ wire' = Greeting
        /\ pc' = "recv"
        /\ UNCHANGED addrs
  /\ UNCHANGED <<c2s, pos, verdict, served, folder>>
  /\ UNCHANGED <<command, cmd, left, packets, buf, outcome>>

\* create_connection(): every address failed and sockfd is returned as it is.
OutOfAddresses ==
  /\ pc = "connect"
  /\ addrs = 0
  /\ pc' = "recv"
  /\ UNCHANGED <<serverVars, command, cmd, left, addrs, fd, packets, buf, outcome>>

\* send_command(): one write().  The command reaches the server when its last
\* piece does.  A peer that has closed takes the data, and may answer with a
\* reset; the next write then raises SIGPIPE.  (sockfd is connected by then.)
SendCommand ==
  /\ pc = "send"
  /\ \/ /\ conn \in {"open", "fin"}
        /\ \E n \in 1 .. left :
             /\ left' = left - n
             /\ pc' = IF n = left THEN "recv" ELSE "send"
             /\ c2s' = IF n = left /\ conn = "open" THEN Append(c2s, cmd) ELSE c2s
        /\ conn' \in IF conn = "fin" THEN {"fin", "shut"} ELSE {"open"}
        /\ UNCHANGED <<cmd, outcome>>
     \/ conn = "shut" /\ Exit("SigPipe") /\ UNCHANGED <<conn, c2s>>
     \/ conn = "rst" /\ Exit("WriteError") /\ UNCHANGED <<conn, c2s>>
  /\ UNCHANGED <<wire, pos, verdict, served, folder>>
  /\ UNCHANGED <<command, addrs, fd, packets, buf>>

-----------------------------------------------------------------------------
\* Seeded fault: read() is given the size of a pointer, not of the buffer.
PointerSizedReads == {n \in 1 .. Len(wire) - pos : n <= 2}

\* What a read() may return: n atoms, 0, or -1.
ReadSizes ==
  {n \in 1 .. Len(wire) - pos :
     /\ n <= MaxRead
     /\ \/ Delivery = "bytes"
        \/ Delivery = "lines" /\ wire[pos + n] = "eol"
        \/ pos + n = Len(wire)}

Chunk(n)  == SubSeq(wire, pos + 1, pos + n)

\* Seeded fault: 0 from read() is taken for "nothing yet".
EndIgnored == FALSE

AtEnd == fd = "open" /\ pos = Len(wire) /\ conn \in {"fin", "shut"}

\* Seeded fault: a read() with nothing to return is taken for a failure.
FailsWhenIdle == fd # "open" \/ pos = Len(wire)

ReadFails == fd # "open" \/ (pos = Len(wire) /\ conn = "rst")

Successor == [GREET |-> "LOGIN", LOGIN |-> "SELECT", SELECT |-> "FETCH"]

\* Seeded fault: the check for a refused login is dropped.
FolderRefusal(b) == IF Shows(b, "A02", "NO") THEN "FolderNotFound" ELSE "none"

\* The refusal read_response() finds in its buffer, whichever reply is due.
Refusal(b) ==
  IF Shows(b, "A01", "NOAUTH") THEN "LoginFailure"
  ELSE IF Shows(b, "A02", "NO") THEN "FolderNotFound" ELSE "none"

\* read_response(): one read(), and on to the next command.
ReadResponse ==
  /\ pc = "recv"
  /\ cmd \in DOMAIN Successor
  /\ \/ \E n \in ReadSizes :
          /\ fd = "open"
          /\ pos' = pos + n
          /\ \/ Refusal(Chunk(n)) # "none" /\ Exit(Refusal(Chunk(n)))
             \/ Refusal(Chunk(n)) = "none" /\ Begin(Successor[cmd])
          /\ UNCHANGED fd
     \/ AtEnd /\ fd' = "closed" /\ Exit("Disconnected") /\ UNCHANGED pos
     \/ ReadFails /\ Exit("ReadError") /\ UNCHANGED <<pos, fd>>
  /\ UNCHANGED <<conn, c2s, wire, verdict, served, folder>>
  /\ UNCHANGED <<command, addrs, packets, buf>>

\* Seeded fault: the first character is skipped whatever it is.
StoredWithoutFirst(b) == CString(Tail(b))

\* What retrieve() keeps of a chunk: insert_at_foot() copies a C string, and a
\* "+" that a chunk begins with is skipped.
Stored(b) == CString(IF b[1] = "+" THEN Tail(b) ELSE b)

\* Seeded fault: a BAD reply is not looked for.
AnswerWithoutBad(b) ==
  IF Shows(b, "A03", "OK") THEN "OK"
  ELSE IF Shows(b, "A03", "NO") THEN "refused" ELSE "none"

\* The answer to A03 that retrieve() finds in a chunk, OK before the refusals.
Answer(b) ==
  IF Shows(b, "A03", "OK") THEN "OK"
  ELSE IF Shows(b, "A03", "NO") \/ Shows(b, "A03", "BAD") THEN "refused" ELSE "none"

\* retrieve(): one turn of the loop.  The markers are looked for in the chunk,
\* not in what has been stored; a read() that returns 0 stores an empty packet.
RetrieveRead ==
  /\ pc = "recv"
  /\ cmd = "FETCH"
  /\ \/ \E n \in ReadSizes :
          /\ pos' = pos + n
          /\ packets' = packets \o Stored(Chunk(n))
          /\ \/ /\ Answer(Chunk(n)) = "OK"
                /\ pc' = "dispatch"
                /\ UNCHANGED <<cmd, left, outcome>>
             \/ Answer(Chunk(n)) = "refused" /\ Exit("MessageNotFound")
             \/ Answer(Chunk(n)) = "none" /\ ReadOn
     \/ AtEnd /\ ReadOn /\ UNCHANGED <<pos, packets>>
     \/ ReadFails /\ Exit("FetchError") /\ UNCHANGED <<pos, packets>>
  /\ UNCHANGED <<conn, c2s, wire, verdict, served, folder>>
  /\ UNCHANGED <<command, addrs, fd, buf>>

\* main() after retrieve(): print the message, look for a text part in it (one
\* whose headers fit headers[1024]), or go on to the command's own FETCH.  A
\* command of another name does nothing.
Dispatch ==
  /\ pc = "dispatch"
  /\ \/ command = "retrieve" /\ Exit("Mail")
     \/ command = "parse" /\ Begin("PARSE")
     \/ command = "mime" /\ \E o \in {"MimePart", "MimeNone", "MimeInvalid"} : Exit(o)
     \/ command = "list" /\ Begin("LIST")
     \/ command = "other" /\ Exit("Nothing")
  /\ UNCHANGED <<serverVars, command, addrs, fd, packets, buf>>

\* parse(): one turn of the loop, and the headers printed when it ends.
ParseRead ==
  /\ pc = "recv"
  /\ cmd = "PARSE"
  /\ \/ \E n \in ReadSizes :
          /\ pos' = pos + n
          /\ buf' = buf \o Chunk(n)
          /\ \/ ShowsBlankLine(buf') /\ Exit("Headers")
             \/ ~ShowsBlankLine(buf') /\ ReadOn
     \/ AtEnd /\ Exit("Headers") /\ UNCHANGED <<pos, buf>>
     \/ ReadFails /\ Exit("HeaderError") /\ UNCHANGED <<pos, buf>>
  /\ UNCHANGED <<conn, c2s, wire, verdict, served, folder>>
  /\ UNCHANGED <<command, addrs, fd, packets>>

\* Seeded fault: the ")" that closes one message's item ends the reply.
ListDoneAtItem(b) == \E i \in 1 .. Len(b) : b[i] = ")"

\* The answer to A06, anywhere in what read_subjects() has collected.
ListDone(b) == \E s \in {"OK", "NO", "BAD"} : Shows(b, "A06", s)

\* list(): what populate_subject_list() and sort_subject_list() make of the
\* buffer.  Without a "* " line the list is empty and sorting it exits with 3.
Listing(b) ==
  IF \E i \in 1 .. StrLen(b) : b[i] = "untagged" THEN "Subjects" ELSE "NoSubjects"

\* read_subjects(): one turn of the loop.  When nothing was ever read the
\* buffer is uninitialised memory; when read() fails the buffer is NULL, which
\* glibc's strtok() dereferences and other libraries take for "no tokens".
ListRead ==
  /\ pc = "recv"
  /\ cmd = "LIST"
  /\ \/ \E n \in ReadSizes :
          /\ pos' = pos + n
          /\ buf' = buf \o Chunk(n)
          /\ \/ ListDone(buf') /\ Exit(Listing(buf'))
             \/ ~ListDone(buf') /\ ReadOn
     \/ /\ AtEnd
        /\ \E o \in IF buf = <<>> THEN {"Crash", "NoSubjects", "Subjects"}
                    ELSE {Listing(buf)} : Exit(o)
        /\ UNCHANGED <<pos, buf>>
     \/ /\ ReadFails
        /\ \E o \in {"Crash", "NoSubjects"} : Exit(o)
        /\ UNCHANGED <<pos, buf>>
  /\ UNCHANGED <<conn, c2s, wire, verdict, served, folder>>
  /\ UNCHANGED <<command, addrs, fd, packets>>

-----------------------------------------------------------------------------
Client ==
  \/ Resolve \/ TryAddress \/ OutOfAddresses \/ SendCommand
  \/ ReadResponse \/ RetrieveRead \/ Dispatch \/ ParseRead \/ ListRead

Server == pc # "exit" /\ Serve /\ UNCHANGED clientVars
Network == pc # "exit" /\ Disconnect /\ UNCHANGED clientVars
Finished == pc = "exit" /\ UNCHANGED vars

Next == Client \/ Server \/ Network \/ Finished

Spec == Init /\ [][Next]_vars

\* The process is scheduled, and the server answers; nothing obliges a
\* connection to break.
Fairness == WF_vars(Client) /\ WF_vars(Server)
FairSpec == Spec /\ Fairness

-----------------------------------------------------------------------------
\* What `retrieve` prints of what it stored: print_list_retrieve().
AfterFirst(b, a) ==
  LET k == CHOOSE i \in 1 .. Len(b) : b[i] = a /\ \A j \in 1 .. i - 1 : b[j] # a
  IN  SubSeq(b, k + 1, Len(b))

\* Up to the first "A03 OK".
UpToMarker(b) ==
  LET k == CHOOSE i \in 1 .. Len(b) - 1 :
             /\ b[i] = "A03" /\ b[i + 1] = "OK"
             /\ \A j \in 1 .. i - 1 : ~(b[j] = "A03" /\ b[j + 1] = "OK")
  IN  SubSeq(b, 1, k - 1)

\* Without the line ends after its last other atom.
WithoutEols(b) ==
  SubSeq(b, 1, CHOOSE n \in 0 .. Len(b) :
                 /\ n = 0 \/ b[n] # "eol"
                 /\ \A j \in n + 1 .. Len(b) : b[j] = "eol")

EndsWith(b, a) == b # <<>> /\ b[Len(b)] = a
ButLast(b)     == SubSeq(b, 1, Len(b) - 1)

\* Seeded fault: the ")" that closes the FETCH response is printed.
StillWrapped(b) == WithoutEols(b)

\* Without the ")" that closes the FETCH response.
Unwrapped(b) == IF EndsWith(WithoutEols(b), ")") THEN ButLast(WithoutEols(b))
                ELSE WithoutEols(b)

OneEol(b) == IF EndsWith(b, "eol") THEN b ELSE Append(b, "eol")

Printed ==
  IF ~\E i \in 1 .. Len(packets) : packets[i] = "eol" THEN <<>>
  ELSE LET rest == AfterFirst(packets, "eol") IN
       IF Shows(rest, "A03", "OK") THEN OneEol(Unwrapped(UpToMarker(rest)))
       ELSE Append(rest, "eol")

-----------------------------------------------------------------------------
\* Safety, whatever the network does.

\* A session never reports what the server did not decide: every end of a run
\* is one the decisions made so far justify, and it ends once (main.c:44-104).
ImplementsExchange == Promise!Spec

\* A literal in which nothing means anything to the client, but for the "+" that a
\* read may begin with.
Plain(data) == \A i \in 1 .. Len(data) : data[i] \in {"mail", "eol", ")", "+"}

WithoutPlus(data) ==
  LET upTo[n \in 0 .. Len(data)] ==
        IF n = 0 THEN <<>>
        ELSE IF data[n] = "+" THEN upTo[n - 1] ELSE Append(upTo[n - 1], data[n])
  IN  upTo[Len(data)]

\* `retrieve` prints the whole message, in one piece, however the stream was
\* cut into packets and whatever was left of earlier replies in front of it, if
\* the message is Plain.  No "+" is compared: retrieve() drops each that a read
\* begins with, and which these are is the network's choice.
MailComplete ==
  outcome = "Mail" /\ Plain(served["FETCH"])
    => Within(WithoutPlus(served["FETCH"]), WithoutPlus(Printed))

\* parse() hands the whole header block to the printing code unless the
\* connection is lost, however far behind the stream the client started.
HeadersComplete ==
  outcome = "Headers" /\ conn = "open" => Within(served["PARSE"], buf)

\* read_subjects() stops only when it has every subject, or the connection.
SubjectsComplete ==
  outcome = "Subjects" /\ conn = "open" => Within(served["LIST"], buf)

\* The network is blamed only for what it did: no status but those of a result,
\* and no NULL buffer, without a connection that failed or was lost.
NetworkErrorsAreReal ==
  outcome # "none" /\ ExitCode[outcome] \notin {0, 3, 4} => fd # "open" \/ conn # "open"

\* Safety when every reply comes in one piece.

\* No command is sent before the reply to the one before, and the greeting,
\* has been read to its end.
InStep == pc = "send" => pos = Len(wire)

\* The commands that are about one message, and need it fetched.
OnMessage == {"retrieve", "parse", "mime"}

\* A session on a connection that lasts reports the first refusal, and none that was not
\* made.  Nothing is said of the two cases in which the documents ask for another end than
\* the code's: a login refused without "[AUTHENTICATIONFAILED]", and a refusal of the fetch
\* that `list` makes although it needs no message.
RefusalsReported ==
  outcome # "none" /\ fd = "open" =>
    /\ verdict["LOGIN"] = "NOAUTH" => outcome = "LoginFailure"
    /\ verdict["LOGIN"] = "OK" /\ verdict["SELECT"] = "NO" => outcome = "FolderNotFound"
    /\ verdict["SELECT"] = "OK" /\ verdict["FETCH"] \in {"NO", "BAD"} /\ command \in OnMessage
         => outcome = "MessageNotFound"
    /\ outcome = "LoginFailure" => verdict["LOGIN"] \notin {"none", "OK"}
    /\ outcome = "FolderNotFound" => verdict["SELECT"] = "NO"
    /\ outcome = "MessageNotFound" => verdict["FETCH"] \in {"NO", "BAD"}

\* `retrieve` prints the message and nothing else, but for a last line end.
MailVerbatim ==
  outcome = "Mail" /\ Plain(served["FETCH"]) => Printed = OneEol(served["FETCH"])

\* Liveness under FairSpec, when no line is cut.

\* The server has closed the connection under the loop of retrieve().
ClosedInFetch == conn \in {"fin", "shut"} /\ cmd = "FETCH"

\* The run ends, unless the connection is closed in the middle of the fetch or
\* another client expunges the message that `parse` has fetched already.
Terminates == <>(pc = "exit" \/ ClosedInFetch \/ verdict["PARSE"] = "NO")

\* A lost connection ends every phase but the fetch of the message.
LossNoticed == conn \in {"fin", "shut", "rst"} ~> pc = "exit" \/ cmd = "FETCH"

-----------------------------------------------------------------------------
\* What the repository says of the program and the code does not do.

\* "Server disconnected immediately" (imap_client.c:108-111) ends the run.
LossEndsRun == conn = "fin" ~> pc = "exit"

\* "the server may respond in packets if too large" (server_response.c:13): the
\* client does not wait for a server that has answered everything it was sent.
NoMutualWait ==
  pc = "recv" /\ conn = "open" => ReadSizes # {} \/ c2s # <<>>
=============================================================================
