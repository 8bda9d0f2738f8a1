----------------------------- MODULE ImapServer -----------------------------
(***************************************************************************)
(* The environment of the client: an IMAP server behind a TCP connection.  *)
(* Nothing of it is in the repository; it is what the client's source and  *)
(* its notes assume of a server (a greeting, then one tagged reply to each *)
(* command in the order the commands arrive), together with the ways a     *)
(* connection is lost that read() and write() report to the client.        *)
(*                                                                         *)
(* The stream to the client is never consumed: wire is everything the      *)
(* server wrote, pos says how much of it the client has read.              *)
(***************************************************************************)
EXTENDS ImapWire

CONSTANTS
  Payloads,  \* per fetching command, the literals a server may answer with
  Faults     \* which of "fin", "rst" and "expunge" may happen

ServerAssumption ==
  /\ Faults \subseteq {"fin", "rst", "expunge"}
  /\ Payloads \in [{"FETCH", "PARSE", "LIST"} -> SUBSET Seq(Data \cup Tags \cup Statuses)]

ASSUME ServerAssumption

VARIABLES
  conn,     \* "none" before connect() succeeds; "open"; "fin" once the server
            \* has closed its side; "shut" once it has also refused data;
            \* "rst" once it has reset an open connection
  c2s,      \* commands that have arrived whole and wait to be served
  wire,     \* everything the server wrote
  pos,      \* the length of the prefix of wire that the client has read
  verdict,  \* what the server said of each command, "none" until it does
  served,   \* the literal the server sent for each fetching command
  folder    \* the folder of the command line, as the server has it

serverVars == <<conn, c2s, wire, pos, verdict, served, folder>>

Folders  == {"stocked", "empty", "missing"}
Greeting == <<"untagged", "eol">>

ServerTypeOK ==
  /\ conn \in {"none", "open", "fin", "shut", "rst"}
  /\ c2s \in Seq(Commands)
  /\ wire \in Seq(Atoms)
  /\ pos \in 0 .. Len(wire)
  /\ verdict \in [Commands -> Statuses \cup {"none"}]
  /\ served \in [Commands -> Seq(Atoms)]
  /\ folder \in Folders

ServerInit ==
  /\ conn = "none"
  /\ c2s = <<>>
  /\ wire = <<>>
  /\ pos = 0
  /\ verdict = [c \in Commands |-> "none"]
  /\ served = [c \in Commands |-> <<>>]
  /\ folder \in Folders

-----------------------------------------------------------------------------
\* The answers a server may give to command c in its present state: nothing is
\* selected without a login, nothing fetched without a selected folder or from
\* an empty one.  A message that answered A03 answers A04 and A06 too, unless
\* another client expunges it in between.
Verdicts(c) ==
  CASE c = "LOGIN"  -> Statuses
    [] c = "SELECT" -> IF verdict["LOGIN"] # "OK" THEN {"NO", "BAD"}
                       ELSE IF folder = "missing" THEN {"NO"} ELSE {"OK"}
    [] c = "FETCH"  -> IF verdict["SELECT"] = "OK" /\ folder = "stocked"
                       THEN {"OK", "NO", "BAD"} ELSE {"NO", "BAD"}
    [] OTHER        -> IF verdict["SELECT"] # "OK" THEN {"NO", "BAD"}
                       ELSE {"OK"} \cup (IF "expunge" \in Faults THEN {"NO"} ELSE {})

\* The literals that may come with status s for c: none but for a fetch.
Literals(c, s) == IF c \in DOMAIN Payloads /\ s = "OK" THEN Payloads[c] ELSE {<<>>}

\* The untagged lines of a completed command.
Untagged(c, data) ==
  CASE c = "LOGIN"  -> <<>>
    [] c = "SELECT" -> <<"untagged", "eol">>
    [] OTHER        -> <<"untagged", "eol">> \o data \o <<")", "eol">>

Reply(c, s, data) ==
  (IF s = "OK" THEN Untagged(c, data) ELSE <<>>) \o <<Tag[c], s, "eol">>

\* The server serves the oldest command.
Serve ==
  /\ conn = "open"
  /\ c2s # <<>>
  /\ \E s \in Verdicts(Head(c2s)) : \E data \in Literals(Head(c2s), s) :
       /\ wire' = wire \o Reply(Head(c2s), s, data)
       /\ verdict' = [verdict EXCEPT ![Head(c2s)] = s]
       /\ served' = [served EXCEPT ![Head(c2s)] = data]
  /\ c2s' = Tail(c2s)
  /\ UNCHANGED <<conn, pos, folder>>

\* The connection is lost; what had not yet reached the client may be lost too.
Disconnect ==
  /\ conn = "open"
  /\ conn' \in Faults \cap {"fin", "rst"}
  /\ \E n \in pos .. Len(wire) : wire' = SubSeq(wire, 1, n)
  /\ UNCHANGED <<c2s, pos, verdict, served, folder>>
=============================================================================
