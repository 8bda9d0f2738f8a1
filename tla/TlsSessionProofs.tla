-------------------------- MODULE TlsSessionProofs --------------------------
(***************************************************************************)
(* A session over TLS keeps its types, blames the network only for what it *)
(* did, and prints whole messages, for every literal, number of atoms read *)
(* and loss; and it reports no message missing by mistake when messages do *)
(* not quote tags and statuses.  The steps it shares with FetchSession are *)
(* proved there, as is what the client makes of the stream.                *)
(***************************************************************************)
EXTENDS TlsSession, FetchSessionProofs

USE SessionAssumption, ServerAssumption

\* How a step that reads, or tries to, can leave the control of the client.
GoesSomewhere ==
  \/ ReadOn
  \/ \E o \in DOMAIN ExitCode : Exit(o)
  \/ \E c \in Commands : Begin(c)
  \/ pc' = "dispatch" /\ UNCHANGED <<cmd, left, outcome>>

\* What is left to show of a step once its control is known.
LEMMA ControlTyped ==
  ASSUME Typed, GoesSomewhere, pc \notin {"resolve", "connect", "send"},
         ServerTypeOK', UNCHANGED <<command, addrs, fd>>, packets' \in Seq(Atoms), UNCHANGED buf
  PROVE  Typed'
<1>1. /\ pc' \in Phases \ {"resolve", "connect"} /\ cmd' \in Commands \cup {"GREET"}
      /\ left' \in 0 .. CmdLen /\ outcome' \in DOMAIN ExitCode \cup {"none"}
      /\ pc' = "send" => cmd' \in Commands
  <2>1. pc \in Phases /\ cmd \in Commands \cup {"GREET"} /\ left \in 0 .. CmdLen
        /\ CmdLen \in 0 .. CmdLen /\ outcome \in DOMAIN ExitCode \cup {"none"}
    BY DEF Typed, TypeOK, SessionAssumption
  <2>2. CASE ReadOn
    BY <2>1, <2>2 DEF ReadOn
  <2>3. CASE \E o \in DOMAIN ExitCode : Exit(o)
    BY <2>1, <2>3 DEF Exit, Phases
  <2>4. CASE \E c \in Commands : Begin(c)
    BY <2>1, <2>4 DEF Begin, Phases
  <2>5. CASE pc' = "dispatch" /\ UNCHANGED <<cmd, left, outcome>>
    BY <2>1, <2>5 DEF Phases
  <2> QED BY <2>2, <2>3, <2>4, <2>5 DEF GoesSomewhere
<1> QED BY <1>1 DEF Typed, TypeOK

\* tls_connect()
LEMMA ConnectTyped ==
  ASSUME Typed, TlsConnect \/ TlsContextFails \/ TlsHandshakeFails \/ TlsHandshake
  PROVE  Typed'
<1>1. /\ pc \in {"resolve", "connect"} /\ pos = 0 /\ pos' = 0
      /\ UNCHANGED <<c2s, verdict, served, folder, command, addrs, packets, buf>>
  BY DEF Typed, TlsConnect, TlsContextFails, TlsHandshakeFails, TlsHandshake, serverVars
<1>2. wire' \in Seq(Atoms) /\ conn' \in {"none", "open", "fin", "shut", "rst"}
  <2>1. Greeting \in Seq(Atoms)
    BY DEF Greeting, Atoms, Data
  <2> QED BY <2>1 DEF Typed, TypeOK, ServerTypeOK, TlsConnect, TlsContextFails,
                     TlsHandshakeFails, TlsHandshake, serverVars
<1>3. /\ pc' \in {"connect", "send", "recv", "exit"} /\ fd' \in {"none", "closed", "open"}
      /\ cmd' \in Commands \cup {"GREET"} /\ left' \in 0 .. CmdLen
      /\ outcome' \in DOMAIN ExitCode \cup {"none"} /\ (pc' = "send" => cmd' \in Commands)
  <2>1. /\ fd \in {"none", "closed", "open"} /\ cmd \in Commands \cup {"GREET"}
        /\ left \in 0 .. CmdLen /\ CmdLen \in 0 .. CmdLen
        /\ outcome \in DOMAIN ExitCode \cup {"none"} /\ "TlsFailure" \in DOMAIN ExitCode
    BY DEF Typed, TypeOK, ExitCode, SessionAssumption
  <2>2. CASE TlsConnect \/ TlsHandshakeFails
    BY <2>1, <2>2 DEF TlsConnect, TlsHandshakeFails, NoSession, Begin, Commands
  <2>3. CASE TlsContextFails
    BY <2>1, <2>3 DEF TlsContextFails, Exit
  <2>4. CASE TlsHandshake
    BY <2>1, <2>4 DEF TlsHandshake
  <2> QED BY <2>2, <2>3, <2>4
<1>4. ServerTypeOK'
  <2>1. 0 \in 0 .. Len(wire')
    BY <1>2
  <2> QED BY <1>1, <1>2, <2>1 DEF Typed, TypeOK, ServerTypeOK
<1> QED BY <1>1, <1>3, <1>4 DEF Typed, TypeOK, Phases

\* send_ssl_command()
LEMMA TlsSendTyped == ASSUME Typed, TlsSend \/ TlsSendNull PROVE Typed'
<1>1. /\ pc = "send" /\ UNCHANGED <<cmd, wire, pos, verdict, served, folder>>
      /\ UNCHANGED <<command, addrs, fd, packets, buf>>
  BY DEF TlsSend, TlsSendNull, Exit, serverVars
<1>2. c2s' \in Seq(Commands) /\ conn' \in {"none", "open", "fin", "shut", "rst"}
  <2>1. c2s \in Seq(Commands) /\ cmd \in Commands /\ conn \in {"none", "open", "fin", "shut", "rst"}
    BY <1>1 DEF Typed, TypeOK, ServerTypeOK
  <2>2. c2s' \in {c2s, Append(c2s, cmd)}
    BY DEF TlsSend, TlsSendNull, serverVars
  <2>3. conn' \in {conn, "open", "fin", "shut"}
    BY DEF TlsSend, TlsSendNull, serverVars
  <2> QED BY <2>1, <2>2, <2>3
<1>3. pc' \in {"recv", "exit"} /\ left' \in 0 .. CmdLen /\ outcome' \in DOMAIN ExitCode \cup {"none"}
  <2>1. left \in 0 .. CmdLen /\ 0 \in 0 .. CmdLen /\ outcome \in DOMAIN ExitCode \cup {"none"}
    BY DEF Typed, TypeOK, SessionAssumption
  <2>2. \/ pc' = "recv" /\ left' = 0 /\ UNCHANGED outcome
        \/ \E o \in {"SigPipe", "SslError", "Crash"} : Exit(o)
    BY DEF TlsSend, TlsSendNull
  <2> QED BY <2>1, <2>2 DEF Exit, ExitCode
<1> QED BY <1>1, <1>2, <1>3 DEF Typed, TypeOK, ServerTypeOK, Phases

\* read_ssl_response() and the loop of read_ssl_fetch_response().
LEMMA TlsReadTyped == ASSUME Typed, TlsReadResponse \/ TlsRetrieveRead PROVE Typed'
<1>1. /\ pc = "recv" /\ UNCHANGED <<conn, c2s, wire, verdict, served, folder>>
      /\ UNCHANGED <<command, addrs, fd, buf>>
  BY DEF TlsReadResponse, TlsRetrieveRead
<1>2. pos' \in 0 .. Len(wire) /\ packets' \in Seq(Atoms)
  <2>1. pos \in 0 .. Len(wire) /\ packets \in Seq(Atoms)
    BY DEF Typed, TypeOK, ServerTypeOK
  <2>2. ASSUME NEW n \in ReadSizes
        PROVE  pos + n \in 0 .. Len(wire) /\ packets \o Stored(Chunk(n)) \in Seq(Atoms)
    <3>1. pos + n \in 0 .. Len(wire) /\ Stored(Chunk(n)) \in Seq(Atoms)
      BY ChunkType DEF Typed
    <3> QED BY <2>1, <3>1
  <2> QED BY <2>1, <2>2 DEF TlsReadResponse, TlsRetrieveRead
<1>3. GoesSomewhere
  <2>1. CASE TlsReadResponse
    BY <2>1 DEF TlsReadResponse, GoesSomewhere, Refusal, ExitCode, Successor, Commands
  <2>2. CASE TlsRetrieveRead
    BY <2>2 DEF TlsRetrieveRead, GoesSomewhere, ExitCode
  <2> QED BY <2>1, <2>2
<1>4. ServerTypeOK'
  BY <1>1, <1>2 DEF Typed, TypeOK, ServerTypeOK
<1> QED BY <1>1, <1>2, <1>3, <1>4, ControlTyped

\* main() after retrieve_ssl(): the stream is cut where the TLS session was left.
LEMMA TlsDispatchTyped == ASSUME Typed, TlsDispatch PROVE Typed'
<1>1. CASE Dispatch
  BY <1>1, StepTyped
<1>2. CASE /\ pc = "dispatch"
           /\ Begin("PARSE") \/ Begin("LIST")
           /\ \/ wire' = SubSeq(wire, 1, pos)
              \/ pos < Len(wire) /\ wire' = Append(SubSeq(wire, 1, pos), "mail")
           /\ UNCHANGED <<conn, c2s, pos, verdict, served, folder>>
           /\ UNCHANGED <<command, addrs, fd, packets, buf>>
  <2>1. wire \in Seq(Atoms) /\ pos \in 0 .. Len(wire) /\ "mail" \in Atoms
    BY DEF Typed, TypeOK, ServerTypeOK, Atoms, Data
  <2>2. wire' \in Seq(Atoms) /\ pos \in 0 .. Len(wire')
    BY <1>2, <2>1
  <2>3. ServerTypeOK'
    BY <1>2, <2>2 DEF Typed, TypeOK, ServerTypeOK
  <2>4. GoesSomewhere
    BY <1>2 DEF GoesSomewhere, Commands
  <2>5. packets' \in Seq(Atoms)
    BY <1>2 DEF Typed, TypeOK
  <2> QED BY <1>2, <2>3, <2>4, <2>5, ControlTyped
<1> QED BY <1>1, <1>2 DEF TlsDispatch

\* The server, and what it does with a command in clear.
LEMMA TlsServerTyped == ASSUME Typed, TlsServer PROVE Typed'
<1>1. CASE pc # "exit" /\ Serve /\ UNCHANGED clientVars
  BY <1>1, EnvironmentTyped DEF Server
<1>2. CASE RejectRecord /\ UNCHANGED clientVars
  <2>1. wire \in Seq(Atoms) /\ pos \in 0 .. Len(wire) /\ "mail" \in Atoms
    BY DEF Typed, TypeOK, ServerTypeOK, Atoms, Data
  <2>2. wire' \in Seq(Atoms) /\ pos \in 0 .. Len(wire') /\ <<>> \in Seq(Commands)
    BY <1>2, <2>1 DEF RejectRecord
  <2> QED BY <1>2, <2>2 DEF RejectRecord, Typed, TypeOK, ServerTypeOK, clientVars
<1> QED BY <1>1, <1>2 DEF TlsServer

LEMMA TlsStepTyped == ASSUME Typed, [TlsNext]_vars PROVE Typed'
<1>1. CASE Finished \/ UNCHANGED vars
  BY <1>1 DEF Finished, vars, serverVars, clientVars, Typed, TypeOK, ServerTypeOK
<1>2. CASE TlsClient
  BY <1>2, ConnectTyped, TlsSendTyped, TlsReadTyped, TlsDispatchTyped, StepTyped, ReadTyped
     DEF TlsClient
<1> QED BY <1>1, <1>2, TlsServerTyped, EnvironmentTyped DEF TlsNext

\* Every variable of a session over TLS keeps its type, with or without a session, in
\* clear and not (tls.c, and what main() calls after it).
THEOREM TlsTypeCorrect == TlsSpec => []TypeOK
<1>1. Init => Typed
  BY InitInv DEF Inv, Flow, Typed, Init, ServerInit
<1>2. Typed /\ [TlsNext]_vars => Typed'
  BY TlsStepTyped
<1>3. Typed => TypeOK
  BY DEF Typed
<1> QED BY <1>1, <1>2, <1>3, PTL DEF TlsSpec

-----------------------------------------------------------------------------
\* Until tls_connect() is done there is no session.
TlsBlamed == Blamed /\ (pc = "connect" => fd # "open")

\* tls_connect() and send_ssl_command(): what fails there has no session, or has lost
\* its connection.
LEMMA TlsStepBlamed ==
  ASSUME TlsBlamed,
         TlsConnect \/ TlsContextFails \/ TlsHandshakeFails \/ TlsHandshake \/ TlsSend \/ TlsSendNull
  PROVE  TlsBlamed'
<1>1. CASE TlsConnect
  <2>1. pc = "resolve" /\ fd # "open" /\ UNCHANGED <<fd, outcome>> /\ pc' \in {"connect", "send"}
    BY <1>1 DEF TlsBlamed, Blamed, TlsConnect, NoSession, Begin
  <2> QED BY <2>1, GoesOnBlamed DEF TlsBlamed
<1>2. CASE TlsContextFails
  <2>1. pc = "connect" /\ fd' # "open" /\ Exit("TlsFailure") /\ "TlsFailure" \in DOMAIN ExitCode
    BY <1>2 DEF TlsBlamed, TlsContextFails, ExitCode
  <2> QED BY <2>1, ExitBlamed DEF TlsBlamed, Lost
<1>3. CASE TlsHandshakeFails \/ TlsHandshake
  <2>1. pc = "connect" /\ UNCHANGED outcome /\ pc' \in {"send", "recv"}
    BY <1>3 DEF TlsHandshakeFails, TlsHandshake, NoSession, Begin
  <2> QED BY <2>1, GoesOnBlamed DEF TlsBlamed
<1>4. CASE TlsSend \/ TlsSendNull
  <2>1. pc = "send" /\ UNCHANGED fd
    BY <1>4 DEF TlsSend, TlsSendNull
  <2>2. \/ pc' = "recv" /\ UNCHANGED outcome
        \/ \E o \in {"SigPipe", "SslError", "Crash"} : Exit(o) /\ Lost'
    BY <1>4 DEF TlsSend, TlsSendNull, serverVars, Lost
  <2>3. {"SigPipe", "SslError", "Crash"} \subseteq DOMAIN ExitCode
    BY DEF ExitCode
  <2>4. pc' # "connect"
    BY <2>2 DEF Exit
  <2> QED BY <2>1, <2>2, <2>3, <2>4, ExitBlamed, GoesOnBlamed DEF TlsBlamed
<1> QED BY <1>1, <1>2, <1>3, <1>4

\* The reads over TLS, and what main() does after the fetch.
LEMMA TlsReadBlamed ==
  ASSUME TlsBlamed, TlsReadResponse \/ TlsRetrieveRead \/ TlsDispatch
  PROVE  TlsBlamed'
<1>1. pc \in {"recv", "dispatch"} /\ UNCHANGED <<conn, fd>>
  BY DEF TlsReadResponse, TlsRetrieveRead, TlsDispatch, Dispatch, serverVars
<1>2. \/ pc' \in {"recv", "send", "dispatch"} /\ UNCHANGED outcome
      \/ \E o \in DOMAIN ExitCode : Exit(o) /\ (o \in BlamesNone \/ Lost')
  <2>1. CASE TlsReadResponse
    BY <2>1, <1>1 DEF TlsReadResponse, Begin, Refusal, ReadFails, AtEnd, BlamesNone, ExitCode, Lost
  <2>2. CASE TlsRetrieveRead
    BY <2>2, <1>1 DEF TlsRetrieveRead, ReadOn, ReadFails, AtEnd, BlamesNone, ExitCode, Lost
  <2>3. CASE TlsDispatch
    BY <2>3, <1>1 DEF TlsDispatch, Dispatch, Begin, BlamesNone, ExitCode
  <2> QED BY <2>1, <2>2, <2>3
<1>3. pc' # "connect"
  BY <1>2 DEF Exit
<1> QED BY <1>1, <1>2, <1>3, ExitBlamed, GoesOnBlamed DEF TlsBlamed

\* Over TLS too a run blames the network only for a connection that failed or was lost
\* (main.c:48 and tls.c: SSL_read(), SSL_write() and the calls of tls_connect()).
THEOREM TlsBlamesRightly == TlsSpec => []NetworkErrorsAreReal
<1>1. Init => TlsBlamed
  BY DEF Init, TlsBlamed, Blamed, NetworkErrorsAreReal
<1>2. ASSUME TlsBlamed, [TlsNext]_vars PROVE TlsBlamed'
  <2>1. CASE SendCommand \/ ReadResponse \/ RetrieveRead \/ ParseRead \/ ListRead
    <3>1. pc \in {"send", "recv"} /\ pc' # "connect"
      BY <2>1 DEF SendCommand, ReadResponse, RetrieveRead, ParseRead, ListRead, Exit, Begin, ReadOn
    <3> QED BY <1>2, <2>1, <3>1, StepBlamed, ReadBlamed DEF TlsBlamed
  <2>2. CASE TlsServer \/ Network
    <3>1. pc # "exit" /\ UNCHANGED clientVars
      BY <2>2 DEF TlsServer, Network
    <3> QED BY <1>2, <3>1, GoesOnBlamed DEF TlsBlamed, clientVars
  <2>3. CASE Finished \/ UNCHANGED vars
    BY <1>2, <2>3 DEF Finished, vars, serverVars, clientVars, TlsBlamed, Blamed, NetworkErrorsAreReal
  <2> QED BY <1>2, <2>1, <2>2, <2>3, TlsStepBlamed, TlsReadBlamed DEF TlsNext, TlsClient
<1>3. TlsBlamed => NetworkErrorsAreReal
  BY DEF TlsBlamed, Blamed
<1> QED BY <1>1, <1>2, <1>3, PTL DEF TlsSpec

-----------------------------------------------------------------------------
\* What the server grants rests on what it granted before.
Granted ==
  /\ verdict["SELECT"] = "OK" => verdict["LOGIN"] = "OK"
  /\ verdict["FETCH"] = "OK" => verdict["SELECT"] = "OK"
  /\ verdict["FETCH"] # "NOAUTH"

\* What holds of the stream, as long as it is the stream of the TLS session.
Sound == Flow /\ Retrieved /\ Granted

\* Until the handshake nothing has been written and nothing read.
Fresh ==
  /\ cmd = "GREET" /\ c2s = <<>> /\ wire = <<>> /\ packets = <<>>
  /\ \A c \in Commands : verdict[c] = "none" /\ served[c] = <<>>
  /\ pc = "resolve" => conn = "none"

TlsControl ==
  /\ pc \in {"resolve", "connect"} => Fresh
  /\ pc = "dispatch" => cmd = "FETCH"
  /\ pc = "exit" <=> outcome # "none"
  /\ outcome = "Mail" => cmd = "FETCH"

\* The stream is not that of a session before the handshake, and no longer once the
\* client has left the session to write in clear.
InSession == cmd \notin InClear /\ pc # "connect" /\ outcome # "TlsFailure"

TlsInv == Typed /\ TlsControl /\ (InSession => Sound)

\* The handshake, or doing without one, leaves a stream of nothing but a greeting.
LEMMA FreshSound ==
  ASSUME TypeOK', Fresh, UNCHANGED <<c2s, verdict, served, packets>>,
         \/ wire' = <<>> /\ conn' = "none"
         \/ wire' = Greeting,
         cmd' \in {"GREET", "LOGIN"}, pc' # "dispatch", outcome' # "Mail"
  PROVE  Sound'
<1>1. /\ c2s' = <<>> /\ packets' = <<>>
      /\ \A c \in Commands : verdict'[c] = "none" /\ served'[c] = <<>>
  BY DEF Fresh
<1>2. Queue' /\ DecidedSent' /\ Ordered' /\ Answered'
  BY <1>1 DEF Queue, DecidedSent, Ordered, Answered
<1>3. Stream' = Greeting
  <2>1. Greeting \in Seq(Atoms)
    BY DEF Greeting, Atoms, Data
  <2>2. \A c \in Commands : ReplyTo(c)' = <<>>
    BY <1>1 DEF ReplyTo
  <2> QED BY <2>1, <2>2, ConcatEmptySeq DEF Stream, Greeting, Commands
<1>4. Streamed'
  <2>1. Len(Greeting) \in Nat /\ Len(<<>>) = 0 /\ Len(Greeting) = 2
    BY DEF Greeting
  <2>2. CASE wire' = <<>> /\ conn' = "none"
    BY <1>3, <2>1, <2>2 DEF Streamed
  <2>3. CASE wire' = Greeting
    <3>1. wire' = Stream' /\ Len(wire') = 2 /\ Len(Stream') = 2
      BY <1>3, <2>1, <2>3
    <3> QED BY <3>1 DEF Streamed
  <2> QED BY <2>2, <2>3
<1>5. Retrieved'
  BY <1>1 DEF Retrieved
<1>6. Granted'
  BY <1>1 DEF Granted, Commands
<1> QED BY <1>2, <1>4, <1>5, <1>6 DEF Sound, Flow

\* A step that leaves the stream, and what was read of it, alone.
LEMMA SameRetrieved ==
  ASSUME Flow, Retrieved, UNCHANGED <<cmd, pos, packets, wire, verdict, served>>,
         pc' = "dispatch" \/ outcome' = "Mail" => pc = "dispatch" \/ outcome = "Mail"
  PROVE  Retrieved'
<1>1. /\ wire \in Seq(Atoms) /\ pos \in 0 .. Len(wire) /\ Before("FETCH") \in Nat
  <2>1. Decisions
    BY DEF Flow, TypeOK, ServerTypeOK, Decisions
  <2> QED BY <2>1, StreamParts DEF Flow, TypeOK, ServerTypeOK, Commands
<1>2. Before("FETCH")' = Before("FETCH")
  BY DEF Before, ReplyTo
<1> QED BY <1>1, <1>2, RetrievedKept

\* tls_connect()
LEMMA ConnectSound ==
  ASSUME TlsInv, Typed', TlsConnect \/ TlsContextFails \/ TlsHandshakeFails \/ TlsHandshake
  PROVE  TlsInv'
<1>1. pc \in {"resolve", "connect"} /\ Fresh /\ TypeOK' /\ outcome = "none"
      /\ UNCHANGED <<c2s, verdict, served, packets>>
  BY DEF TlsInv, TlsControl, Typed, TlsConnect, TlsContextFails, TlsHandshakeFails,
         TlsHandshake, serverVars
<1>2. CASE TlsContextFails
  <2>1. outcome' = "TlsFailure" /\ pc' = "exit"
    BY <1>2 DEF TlsContextFails, Exit
  <2> QED BY <2>1 DEF TlsInv, TlsControl, InSession
<1>3. CASE TlsConnect /\ pc' = "connect"
  <2>1. UNCHANGED <<cmd, wire, outcome>>
    BY <1>3 DEF TlsConnect, NoSession, Begin
  <2>2. Fresh'
    BY <1>1, <1>3, <2>1 DEF Fresh
  <2> QED BY <1>1, <1>3, <2>1, <2>2 DEF TlsInv, TlsControl, InSession
<1>4. CASE (TlsConnect /\ pc' # "connect") \/ TlsHandshakeFails \/ TlsHandshake
  <2>1. /\ cmd' \in {"GREET", "LOGIN"} /\ pc' \in {"send", "recv"} /\ outcome' = "none"
        /\ wire' = Greeting \/ (wire' = <<>> /\ conn' = "none")
    BY <1>1, <1>4 DEF TlsConnect, TlsHandshakeFails, TlsHandshake, NoSession, Begin, Fresh
  <2>2. Sound'
    BY <1>1, <2>1, FreshSound
  <2> QED BY <2>1, <2>2 DEF TlsInv, TlsControl
<1> QED BY <1>2, <1>3, <1>4

\* What is decided while the client is in a phase that does not decide.
LEMMA SessionSound ==
  ASSUME TlsInv, cmd \notin InClear, pc \in {"send", "recv", "dispatch"}
  PROVE  Sound /\ outcome = "none"
<1>1. outcome = "none"
  BY DEF TlsInv, TlsControl
<1> QED BY <1>1 DEF TlsInv, InSession

\* send_ssl_command()
LEMMA TlsSendSound == ASSUME TlsInv, Typed', TlsSend \/ TlsSendNull PROVE TlsInv'
<1>1. /\ pc = "send" /\ cmd \notin InClear
      /\ UNCHANGED <<cmd, wire, pos, verdict, served, packets>>
  BY DEF TlsSend, TlsSendNull, Exit, serverVars
<1>2. Sound /\ outcome = "none" /\ cmd \in Commands
  BY <1>1, SessionSound DEF TlsInv, Typed
<1>3. \/ pc' = "recv" /\ outcome' = outcome
      \/ \E o \in {"SigPipe", "SslError", "Crash"} : Exit(o)
  BY DEF TlsSend, TlsSendNull
<1>4. pc' \in {"recv", "exit"} /\ (pc' = "exit" <=> outcome' # "none") /\ outcome' # "Mail"
  BY <1>2, <1>3 DEF Exit
<1>5. Flow'
  <2>1. conn' = "open" => conn = "open"
    BY DEF TlsSend, TlsSendNull, serverVars
  <2>2. UNCHANGED c2s \/ c2s' = Append(c2s, cmd)
    BY DEF TlsSend, TlsSendNull, serverVars
  <2> QED BY <1>1, <1>2, <1>4, <2>1, <2>2, SendFlow DEF Sound, Typed
<1>6. Retrieved'
  BY <1>1, <1>2, <1>4, SameRetrieved DEF Sound
<1>7. Granted'
  BY <1>1, <1>2 DEF Sound, Granted
<1> QED BY <1>4, <1>5, <1>6, <1>7 DEF TlsInv, TlsControl, Sound

\* read_ssl_response()
LEMMA TlsReadSound == ASSUME TlsInv, Typed', TlsReadResponse PROVE TlsInv'
<1>1. /\ pc = "recv" /\ cmd \in DOMAIN Successor
      /\ UNCHANGED <<conn, c2s, wire, verdict, served, packets>>
  BY DEF TlsReadResponse
<1>2. cmd \notin InClear /\ cmd # "FETCH"
  BY <1>1 DEF Successor, InClear
<1>3. Sound /\ outcome = "none"
  BY <1>1, <1>2, SessionSound
<1>4. \/ \E n \in ReadSizes : pos' = pos + n /\ Begin(Successor[cmd])
      \/ \E o \in {"Disconnected", "ReadError", "LoginFailure", "FolderNotFound", "Crash"} : Exit(o)
  BY DEF TlsReadResponse, Refusal
<1>5. CASE \E n \in ReadSizes : pos' = pos + n /\ Begin(Successor[cmd])
  <2>1. pos' \in 0 .. Len(wire)
    BY <1>5, ChunkType DEF TlsInv, Typed
  <2>2. Retrieved'
    BY <1>1, <1>3, <1>5, <2>1, RetrievedStart DEF Sound
  <2>3. pc' = "send" /\ outcome' = "none"
    BY <1>3, <1>5 DEF Begin
  <2>4. \A c \in Commands : Sent(c) => Sent(c)'
    BY <1>1, <1>5 DEF Begin, Sent, CmdRank, Successor, Rank, Commands
  <2>5. Flow'
    BY <1>1, <1>3, <2>4, Frame DEF Sound, Flow, Typed
  <2>6. Granted'
    BY <1>1, <1>3 DEF Sound, Granted
  <2> QED BY <2>2, <2>3, <2>5, <2>6 DEF TlsInv, TlsControl, Sound
<1>6. CASE \E o \in {"Disconnected", "ReadError", "LoginFailure", "FolderNotFound", "Crash"} : Exit(o)
  <2>1. pc' = "exit" /\ outcome' \notin {"none", "Mail"} /\ cmd' = cmd
    BY <1>6 DEF Exit
  <2>2. Retrieved'
    BY <1>1, <1>2, <1>3, <2>1, RetrievedElsewhere DEF Sound, CmdRank
  <2>3. \A c \in Commands : Sent(c) => Sent(c)'
    BY <1>1, <2>1 DEF Sent, CmdRank
  <2>4. Flow'
    BY <1>1, <1>3, <2>3, Frame DEF Sound, Flow, Typed
  <2>5. Granted'
    BY <1>1, <1>3 DEF Sound, Granted
  <2> QED BY <2>1, <2>2, <2>4, <2>5 DEF TlsInv, TlsControl, Sound
<1> QED BY <1>4, <1>5, <1>6

\* read_ssl_fetch_response(): what the tag is looked for in has the tag in it.
LEMMA AnswerHasTag ==
  ASSUME NEW b \in Seq(Atoms), AnswerAnywhere(b) # "none"
  PROVE  Has(b, "A03")
<1>1. ShowsAtom(b, "A03")
  BY DEF AnswerAnywhere
<1>2. StrLen(b) \in 0 .. Len(b)
  BY StrLenProperties
<1> QED BY <1>1, <1>2 DEF ShowsAtom, Has

\* One turn of its loop.
LEMMA TlsRetrieveSound == ASSUME TlsInv, Typed', TlsRetrieveRead PROVE TlsInv'
<1>1. /\ pc = "recv" /\ cmd = "FETCH"
      /\ UNCHANGED <<conn, c2s, wire, verdict, served>>
  BY DEF TlsRetrieveRead
<1>2. Sound /\ outcome = "none"
  BY <1>1, SessionSound DEF InClear
<1>3. \/ /\ \E n \in ReadSizes :
              /\ pos' = pos + n /\ packets' = packets \o Stored(Chunk(n))
              /\ pc' = "dispatch" => AnswerAnywhere(Chunk(n)) = "OK"
      \/ UNCHANGED <<pos, packets>> /\ pc' # "dispatch"
  <2>1. pc # "dispatch" /\ "exit" # "dispatch"
    BY <1>1
  <2> QED BY <1>1, <2>1 DEF TlsRetrieveRead, ReadOn, Exit
<1>4. /\ cmd' = cmd /\ pc' \in {"recv", "dispatch", "exit"} /\ outcome' # "Mail"
      /\ pc' = "exit" <=> outcome' # "none"
  BY <1>1, <1>2 DEF TlsRetrieveRead, ReadOn, Exit
<1>5. Retrieved'
  <2>1. CASE UNCHANGED <<pos, packets>> /\ pc' # "dispatch"
    BY <1>1, <1>2, <1>4, <2>1, SameRetrieved DEF Sound
  <2>2. CASE \E n \in ReadSizes :
              /\ pos' = pos + n /\ packets' = packets \o Stored(Chunk(n))
              /\ pc' = "dispatch" => AnswerAnywhere(Chunk(n)) = "OK"
    <3>1. PICK n \in ReadSizes :
              /\ pos' = pos + n /\ packets' = packets \o Stored(Chunk(n))
              /\ pc' = "dispatch" => AnswerAnywhere(Chunk(n)) = "OK"
      BY <2>2
    <3>2. pc' = "dispatch" => Has(Chunk(n), "A03")
      BY <3>1, ChunkType, AnswerHasTag DEF TlsInv, Typed
    <3> QED BY <1>1, <1>2, <1>4, <3>1, <3>2, RetrievedRead DEF Sound
  <2> QED BY <1>3, <2>1, <2>2
<1>6. \A c \in Commands : Sent(c) => Sent(c)'
  BY <1>1, <1>4 DEF Sent, CmdRank
<1>7. Flow'
  BY <1>1, <1>2, <1>6, Frame DEF Sound, Flow, Typed
<1>8. Granted'
  BY <1>1, <1>2 DEF Sound, Granted
<1> QED BY <1>1, <1>4, <1>5, <1>7, <1>8 DEF TlsInv, TlsControl, Sound

\* What main() does once the message is fetched.
LEMMA TlsDispatchSound == ASSUME TlsInv, Typed', TlsDispatch PROVE TlsInv'
<1>1. pc = "dispatch" /\ cmd = "FETCH"
  BY DEF TlsDispatch, Dispatch, TlsInv, TlsControl
<1>2. Sound /\ outcome = "none"
  BY <1>1, SessionSound DEF InClear
<1>3. \/ /\ UNCHANGED <<serverVars, packets>>
         /\ \E o \in {"Mail", "MimePart", "MimeNone", "MimeInvalid", "Nothing"} : Exit(o)
      \/ \E c \in InClear : Begin(c)
  BY DEF TlsDispatch, Dispatch, InClear
<1>4. CASE \E c \in InClear : Begin(c)
  <2>1. cmd' \in InClear /\ pc' = "send" /\ outcome' = "none"
    BY <1>2, <1>4 DEF Begin
  <2> QED BY <2>1 DEF TlsInv, TlsControl, InSession
<1>5. CASE /\ UNCHANGED <<serverVars, packets>>
           /\ \E o \in {"Mail", "MimePart", "MimeNone", "MimeInvalid", "Nothing"} : Exit(o)
  <2>1. /\ pc' = "exit" /\ outcome' # "none" /\ cmd' = cmd
        /\ UNCHANGED <<conn, c2s, wire, pos, verdict, served, packets>>
    BY <1>5 DEF Exit, serverVars
  <2>2. Retrieved'
    BY <1>1, <1>2, <2>1, SameRetrieved DEF Sound
  <2>3. \A c \in Commands : Sent(c) => Sent(c)'
    BY <1>1, <2>1 DEF Sent, CmdRank
  <2>4. Flow'
    BY <1>1, <1>2, <2>1, <2>3, Frame DEF Sound, Flow, Typed
  <2>5. Granted'
    BY <1>1, <1>2, <2>1 DEF Sound, Granted
  <2> QED BY <1>1, <2>1, <2>2, <2>4, <2>5 DEF TlsInv, TlsControl, Sound
<1> QED BY <1>3, <1>4, <1>5

\* The steps in clear, of which only the types, and the phase, matter.
LEMMA ClearSound ==
  ASSUME TlsInv, Typed', (cmd \in InClear /\ SendCommand) \/ ParseRead \/ ListRead
  PROVE  TlsInv'
<1>1. cmd \in InClear /\ cmd' = cmd /\ pc \in {"send", "recv"}
  BY DEF InClear, SendCommand, ParseRead, ListRead, Exit, ReadOn
<1>2. outcome = "none"
  BY <1>1 DEF TlsInv, TlsControl
<1>3. pc' \in {"send", "recv", "exit"} /\ outcome' # "Mail" /\ (pc' = "exit" <=> outcome' # "none")
  BY <1>1, <1>2 DEF SendCommand, ParseRead, ListRead, Listing, Exit, ReadOn
<1> QED BY <1>1, <1>3 DEF TlsInv, TlsControl, InSession

\* A server that serves a session grants what the verdicts before allow.
LEMMA GrantedServed == ASSUME Flow, Granted, Server PROVE Granted'
<1>1. PICK c \in Commands, s \in Statuses :
        /\ s \in Verdicts(c)
        /\ \A d \in Commands : Rank[d] >= Rank[c] => verdict[d] = "none"
        /\ verdict' = [verdict EXCEPT ![c] = s]
  BY Served
<1>2. verdict \in [Commands -> Statuses \cup {"none"}]
  BY DEF Flow, TypeOK, ServerTypeOK
<1>3. \A d \in Commands : verdict'[d] = IF d = c THEN s ELSE verdict[d]
  BY <1>1, <1>2
<1>4. CASE c = "LOGIN"
  <2>1. verdict["SELECT"] = "none" /\ verdict["FETCH"] = "none"
    BY <1>1, <1>4 DEF Rank, Commands
  <2> QED BY <1>3, <1>4, <2>1 DEF Granted, Commands
<1>5. CASE c = "SELECT"
  <2>1. verdict["FETCH"] = "none" /\ (s = "OK" => verdict["LOGIN"] = "OK")
    BY <1>1, <1>5 DEF Rank, Commands, Verdicts
  <2> QED BY <1>3, <1>5, <2>1 DEF Granted, Commands
<1>6. CASE c = "FETCH"
  <2>1. s # "NOAUTH" /\ (s = "OK" => verdict["SELECT"] = "OK")
    BY <1>1, <1>6 DEF Verdicts
  <2> QED BY <1>3, <1>6, <2>1 DEF Granted, Commands
<1>7. CASE c \notin {"LOGIN", "SELECT", "FETCH"}
  BY <1>3, <1>7 DEF Granted, Commands
<1> QED BY <1>4, <1>5, <1>6, <1>7

\* The server and the network.
LEMMA TlsEnvironmentSound == ASSUME TlsInv, Typed', TlsServer \/ Network PROVE TlsInv'
<1>1. pc # "exit" /\ UNCHANGED clientVars /\ outcome = "none"
  BY DEF TlsServer, Network, TlsInv, TlsControl
<1>2. UNCHANGED <<cmd, pc, packets, outcome>>
  BY <1>1 DEF clientVars
<1>3. CASE cmd \in InClear
  <2>1. pc \notin {"resolve", "connect"}
    BY <1>3 DEF TlsInv, TlsControl, Fresh, InClear
  <2> QED BY <1>2, <1>3, <2>1 DEF TlsInv, TlsControl, InSession
<1>4. CASE pc \in {"resolve", "connect"}
  <2>1. Fresh
    BY <1>4 DEF TlsInv, TlsControl
  <2>2. CASE Network
    <3>1. conn = "open" /\ UNCHANGED <<c2s, verdict, served>>
          /\ \E n \in pos .. Len(wire) : wire' = SubSeq(wire, 1, n)
      BY <2>2 DEF Network, Disconnect
    <3>2. wire' = <<>>
      <4>1. PICK n \in pos .. Len(wire) : wire' = SubSeq(wire, 1, n)
        BY <3>1
      <4>2. Len(wire) = 0 /\ pos \in 0 .. Len(wire)
        BY <2>1 DEF Fresh, TlsInv, Typed, TypeOK, ServerTypeOK
      <4>3. n = 0
        BY <4>1, <4>2
      <4> QED BY <2>1, <4>1, <4>3 DEF Fresh
    <3>3. pc = "connect"
      BY <1>4, <2>1, <3>1 DEF Fresh
    <3>4. Fresh'
      BY <1>2, <2>1, <3>1, <3>2, <3>3 DEF Fresh
    <3> QED BY <1>2, <3>3, <3>4 DEF TlsInv, TlsControl, InSession
  <2>3. CASE TlsServer
    <3>1. c2s = <<>> /\ pc # "send"
      BY <1>4, <2>1 DEF Fresh
    <3> QED BY <2>3, <3>1 DEF TlsServer, Serve, RejectRecord, ClearArrived
  <2> QED BY <2>2, <2>3
<1>5. CASE cmd \notin InClear /\ pc \notin {"resolve", "connect"}
  <2>1. Sound
    BY <1>1, <1>5 DEF TlsInv, InSession
  <2>2. ~RejectRecord
    <3>1. ASSUME ClearArrived PROVE FALSE
      <4>1. c2s # <<>> /\ Head(c2s) \in InClear
        BY <1>5, <3>1 DEF ClearArrived
      <4>2. 1 \in 1 .. Len(c2s) /\ Head(c2s) = c2s[1] /\ c2s[1] \in Commands
        BY <4>1 DEF TlsInv, Typed, TypeOK, ServerTypeOK
      <4>3. Sent(c2s[1])
        BY <2>1, <4>2 DEF Sound, Flow, Queue
      <4>4. cmd \in {"GREET", "LOGIN", "SELECT", "FETCH"}
        BY <1>5 DEF TlsInv, Typed, TypeOK, Commands, InClear
      <4> QED BY <4>1, <4>2, <4>3, <4>4 DEF Sent, CmdRank, Rank, InClear
    <3> QED BY <3>1 DEF RejectRecord
  <2>3. Server \/ Network
    BY <1>1, <2>2 DEF TlsServer, Server
  <2>4. Flow' /\ Retrieved'
    BY <2>1, <2>3, ServeFlow, NetworkFlow, RetrievedServed DEF Sound
  <2>5. Granted'
    <3>1. CASE Server
      BY <2>1, <3>1, GrantedServed DEF Sound
    <3>2. CASE Network
      BY <2>1, <3>2 DEF Sound, Granted, Network, Disconnect
    <3> QED BY <2>3, <3>1, <3>2
  <2> QED BY <1>2, <1>5, <2>4, <2>5 DEF TlsInv, TlsControl, Sound
<1> QED BY <1>3, <1>4, <1>5

LEMMA TlsStepSound == ASSUME TlsInv, [TlsNext]_vars PROVE TlsInv'
<1>1. Typed'
  BY TlsStepTyped DEF TlsInv
<1>2. CASE Finished \/ UNCHANGED vars
  <2>1. /\ UNCHANGED <<conn, c2s, wire, pos, verdict, served, folder>>
        /\ UNCHANGED <<command, pc, cmd, left, addrs, fd, packets, buf, outcome>>
    BY <1>2 DEF Finished, vars, serverVars, clientVars
  <2>2. TlsControl'
    BY <2>1 DEF TlsInv, TlsControl, Fresh
  <2>3. ASSUME Sound PROVE Sound'
    <3>1. \A c \in Commands : Sent(c) => Sent(c)'
      BY <2>1 DEF Sent, CmdRank
    <3>2. Flow'
      BY <1>1, <2>1, <2>3, <3>1, Frame DEF Sound, Flow, Typed
    <3>3. Retrieved'
      BY <2>1, <2>3, SameRetrieved DEF Sound
    <3>4. Granted'
      BY <2>1, <2>3 DEF Sound, Granted
    <3> QED BY <3>2, <3>3, <3>4 DEF Sound
  <2>4. InSession' => InSession
    BY <2>1 DEF InSession
  <2> QED BY <1>1, <2>2, <2>3, <2>4 DEF TlsInv
<1> QED
  BY <1>1, <1>2, ConnectSound, TlsSendSound, TlsReadSound, TlsRetrieveSound, TlsDispatchSound,
     ClearSound, TlsEnvironmentSound DEF TlsNext, TlsClient

\* In every reachable state of a session over TLS, until the client leaves it, what can
\* be read is the replies to what was asked, and what was stored is what was read of them.
LEMMA TlsInvariance == TlsSpec => []TlsInv
<1>1. Init => TlsInv
  <2> SUFFICES ASSUME Init PROVE TlsInv
    OBVIOUS
  <2>1. Inv
    BY InitInv
  <2>2. Typed /\ TlsControl
    BY <2>1 DEF Inv, Flow, Typed, Init, ServerInit, TlsControl, Fresh
  <2>3. Retrieved /\ Granted
    BY DEF Init, ServerInit, Retrieved, Granted, Commands
  <2> QED BY <2>1, <2>2, <2>3 DEF TlsInv, Inv, Sound
<1>2. TlsInv /\ [TlsNext]_vars => TlsInv'
  BY TlsStepSound
<1> QED BY <1>1, <1>2, PTL DEF TlsSpec

\* `retrieve -t` prints the whole of a message that means nothing to the client too, but for a
\* "+" at the beginning of a read, however SSL_read() cuts the stream
\* (read_ssl_fetch_response(), print_list_retrieve()).
THEOREM TlsPrintsWholeMail == TlsSpec => []MailComplete
<1>1. TlsInv => MailComplete
  <2> SUFFICES ASSUME TlsInv, outcome = "Mail" PROVE MailComplete
    BY DEF MailComplete
  <2>1. InSession
    BY DEF TlsInv, TlsControl, InSession, InClear
  <2> QED BY <2>1, RetrievedMail DEF TlsInv, Sound
<1> QED BY <1>1, TlsInvariance, PTL

-----------------------------------------------------------------------------
\* The refusals read_ssl_fetch_response() looks for, by themselves.
Refusals == {"NO", "NOAUTH", "BAD"}

\* No message holds the text of a refusal.  Without it a read that ends behind the tag
\* of "A03 OK", and begins in a message that says "NO", reports the message missing.
NoRefusalQuoted ==
  \A data \in Payloads["FETCH"] : \A i \in 1 .. Len(data) : data[i] \notin Refusals

\* Where the atoms that can be read during the fetch come from.
LEMMA WireAtoms ==
  ASSUME Flow, cmd = "FETCH", NEW i \in 1 .. Len(wire), wire[i] \notin {"untagged", "eol", ")"}
  PROVE  \E d \in {"LOGIN", "SELECT", "FETCH"} :
           /\ verdict[d] # "none"
           /\ \/ wire[i] = Tag[d] \/ wire[i] = verdict[d]
              \/ /\ d = "FETCH" /\ verdict[d] = "OK"
                 /\ \E j \in 1 .. Len(served[d]) : wire[i] = served[d][j]
<1>1. Decisions /\ i \in 1 .. Len(Stream) /\ wire[i] = Stream[i]
  <2>1. Decisions /\ Len(wire) \in Nat
    BY DEF Flow, TypeOK, ServerTypeOK, Decisions
  <2>2. Len(Stream) \in Nat
    BY <2>1, StreamParts
  <2> QED BY <2>1, <2>2 DEF Flow, Streamed
<1>2. PICK d \in Commands : i - Before(d) \in 1 .. Len(ReplyTo(d))
  <2>1. Stream[1] = "untagged" /\ Stream[2] = "eol"
    BY <1>1, StreamParts
  <2>2. i \notin 1 .. 2
    BY <1>1, <2>1
  <2> QED BY <1>1, <2>2, StreamParts
<1> DEFINE k == i - Before(d)
<1>3. ReplyTo(d)[k] = wire[i]
  <2>1. Before(d) \in Nat /\ \A j \in 1 .. Len(ReplyTo(d)) : Stream[Before(d) + j] = ReplyTo(d)[j]
    BY <1>1, StreamParts
  <2>2. Before(d) + k = i
    BY <2>1
  <2> QED BY <1>1, <1>2, <2>1, <2>2
<1>4. /\ verdict[d] # "none"
      /\ verdict[d] # "OK" \/ d \in {"LOGIN", "SELECT"} => served[d] = <<>>
  <2>1. Len(ReplyTo(d)) # 0
    BY <1>2
  <2> QED BY <1>1, <2>1, ReplyToType
<1>5. d \in {"LOGIN", "SELECT", "FETCH"}
  <2>1. verdict["PARSE"] = "none" /\ verdict["LIST"] = "none"
    BY DEF Flow, DecidedSent, Sent, CmdRank, Rank, Commands
  <2> QED BY <1>4, <2>1 DEF Commands
<1>6. \/ wire[i] = Tag[d] \/ wire[i] = verdict[d]
      \/ k - 2 \in 1 .. Len(served[d]) /\ wire[i] = served[d][k - 2]
  BY <1>1, <1>2, <1>3, ReplyAtoms
<1>7. CASE k - 2 \in 1 .. Len(served[d]) /\ wire[i] = served[d][k - 2]
  <2>1. served[d] # <<>>
    BY <1>7
  <2>2. d = "FETCH" /\ verdict[d] = "OK"
    BY <1>4, <1>5, <2>1
  <2> QED BY <1>4, <1>5, <1>7, <2>2
<1> QED BY <1>4, <1>5, <1>6, <1>7

\* A refusal next to the tag of the fetch is that of the fetch, or of a command without
\* which the fetch was refused too.
LEMMA MissingIsRefused ==
  ASSUME Flow, Granted, cmd = "FETCH", NoRefusalQuoted, NEW n \in ReadSizes,
         AnswerAnywhere(Chunk(n)) = "refused"
  PROVE  verdict["FETCH"] \in {"NO", "BAD"}
<1> DEFINE b == Chunk(n)
<1>1. /\ wire \in Seq(Atoms) /\ pos \in Nat /\ n \in Nat /\ pos + n <= Len(wire)
      /\ verdict \in [Commands -> Statuses \cup {"none"}] /\ Answered
  BY DEF Flow, TypeOK, ServerTypeOK, ReadSizes
<1>2. b \in Seq(Atoms) /\ Len(b) = n /\ \A i \in 1 .. n : b[i] = wire[pos + i]
  <2>1. b \in Seq(Atoms) /\ Len(b) = n
    BY ChunkType DEF Flow
  <2> QED BY <1>1, <2>1 DEF Chunk
<1>3. ShowsAtom(b, "A03") /\ \E s \in Refusals : ShowsAtom(b, s)
  BY DEF AnswerAnywhere, Refuses, Refusals
<1>4. StrLen(b) \in 0 .. n
  BY <1>2, StrLenProperties
<1> HIDE DEF b
<1>5. ASSUME NEW a, ShowsAtom(b, a)
      PROVE  \E i \in 1 .. Len(wire) : wire[i] = a
  <2>1. PICK j \in 1 .. n : b[j] = a
    BY <1>1, <1>4, <1>5 DEF ShowsAtom
  <2>2. pos + j \in 1 .. Len(wire) /\ wire[pos + j] = a
    BY <1>1, <1>2, <2>1
  <2> QED BY <2>2
<1>6. verdict["FETCH"] # "none"
  <2>1. PICK i \in 1 .. Len(wire) : wire[i] = "A03"
    BY <1>3, <1>5
  <2>2. PICK d \in {"LOGIN", "SELECT", "FETCH"} :
           /\ verdict[d] # "none"
           /\ wire[i] = Tag[d] \/ wire[i] = verdict[d] \/ d = "FETCH"
    BY <2>1, WireAtoms
  <2>3. verdict[d] # "A03" /\ (Tag[d] = "A03" => d = "FETCH")
    BY <1>1 DEF Statuses, Tag, Commands
  <2> QED BY <2>1, <2>2, <2>3
<1>7. verdict["FETCH"] # "OK"
  <2>1. PICK s \in Refusals : ShowsAtom(b, s)
    BY <1>3
  <2>2. PICK i \in 1 .. Len(wire) : wire[i] = s
    BY <1>5, <2>1
  <2>3. PICK d \in {"LOGIN", "SELECT", "FETCH"} :
           /\ verdict[d] # "none"
           /\ \/ wire[i] = Tag[d] \/ wire[i] = verdict[d]
              \/ /\ d = "FETCH" /\ verdict[d] = "OK"
                 /\ \E j \in 1 .. Len(served[d]) : wire[i] = served[d][j]
    <3>1. wire[i] \notin {"untagged", "eol", ")"}
      BY <2>2 DEF Refusals
    <3> QED BY <3>1, WireAtoms
  <2>4. wire[i] # Tag[d]
    BY <2>2 DEF Refusals, Tag
  <2>5. ~(d = "FETCH" /\ verdict[d] = "OK" /\ \E j \in 1 .. Len(served[d]) : wire[i] = served[d][j])
    <3>1. ASSUME verdict["FETCH"] = "OK" PROVE served["FETCH"] \in Payloads["FETCH"]
      BY <1>1, <3>1, ServerAssumption DEF Answered, Literals, ServerAssumption, Commands
    <3> QED BY <2>2, <3>1 DEF NoRefusalQuoted
  <2>6. verdict[d] \in Refusals
    BY <2>2, <2>3, <2>4, <2>5
  <2> QED BY <2>6 DEF Granted, Refusals
<1> QED BY <1>1, <1>6, <1>7 DEF Granted, Statuses, Commands

\* A message is reported missing only in the step that finds its refusal.
LEMMA MissingStep ==
  ASSUME TlsInv, NeverMissingByMistake, NoRefusalQuoted, [TlsNext]_vars
  PROVE  NeverMissingByMistake'
<1>1. CASE TlsRetrieveRead
  <2>1. cmd = "FETCH" /\ pc = "recv" /\ UNCHANGED verdict
    BY <1>1 DEF TlsRetrieveRead
  <2>2. Sound /\ outcome = "none"
    BY <2>1, SessionSound DEF InClear
  <2>3. outcome' = "MessageNotFound" => \E n \in ReadSizes : AnswerAnywhere(Chunk(n)) = "refused"
    BY <1>1, <2>2 DEF TlsRetrieveRead, ReadOn, Exit
  <2> QED BY <2>1, <2>2, <2>3, MissingIsRefused DEF Sound, NeverMissingByMistake
<1>2. CASE TlsServer \/ Network
  <2>1. outcome' = "none"
    BY <1>2 DEF TlsServer, Network, clientVars, TlsInv, TlsControl
  <2> QED BY <2>1 DEF NeverMissingByMistake
<1>3. CASE Finished \/ UNCHANGED vars
  BY <1>3 DEF Finished, vars, serverVars, clientVars, NeverMissingByMistake
<1>4. CASE TlsClient /\ ~TlsRetrieveRead
  <2>1. pc \in {"resolve", "connect", "send", "recv", "dispatch"}
    BY <1>4 DEF TlsClient, TlsConnect, TlsContextFails, TlsHandshakeFails, TlsHandshake, TlsSend,
       TlsSendNull, TlsReadResponse, TlsDispatch, Dispatch, SendCommand, ParseRead, ListRead
  <2>2. outcome # "MessageNotFound"
    BY <2>1 DEF TlsInv, TlsControl
  <2>3. outcome' # "MessageNotFound"
    <3>1. CASE TlsConnect \/ TlsContextFails \/ TlsHandshakeFails \/ TlsHandshake \/ TlsSend \/ TlsSendNull
      BY <2>2, <3>1 DEF TlsConnect, TlsContextFails, TlsHandshakeFails, TlsHandshake, TlsSend,
         TlsSendNull, NoSession, Begin, Exit
    <3>2. CASE TlsReadResponse
      BY <2>2, <3>2 DEF TlsReadResponse, Refusal, Begin, Exit
    <3>3. CASE TlsDispatch
      BY <2>2, <3>3 DEF TlsDispatch, Dispatch, Begin, Exit
    <3>4. CASE SendCommand \/ ParseRead \/ ListRead
      BY <2>2, <3>4 DEF SendCommand, ParseRead, ListRead, Listing, ReadOn, Exit
    <3> QED BY <1>4, <3>1, <3>2, <3>3, <3>4 DEF TlsClient
  <2> QED BY <2>3 DEF NeverMissingByMistake
<1> QED BY <1>1, <1>2, <1>3, <1>4 DEF TlsNext

\* Over TLS a message is reported missing only when the server refused it, though the tag
\* and the refusal are looked for apart (strstr() in read_ssl_fetch_response()).
THEOREM TlsReportsMissing == ASSUME NoRefusalQuoted PROVE TlsSpec => []NeverMissingByMistake
<1>1. Init => NeverMissingByMistake
  BY DEF Init, NeverMissingByMistake
<1>2. TlsInv /\ NeverMissingByMistake /\ [TlsNext]_vars => NeverMissingByMistake'
  BY MissingStep
<1> QED BY <1>1, <1>2, TlsInvariance, PTL DEF TlsSpec
=============================================================================
