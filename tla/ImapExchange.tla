---------------------------- MODULE ImapExchange ----------------------------
(***************************************************************************)
(* What a session promises, whatever the network does to the stream: the   *)
(* server decides each command once, a command only after those it depends *)
(* on, and the client concludes once, with a result the decisions made so  *)
(* far justify.  FetchSession is shown to implement this.                  *)
(***************************************************************************)
EXTENDS ImapWire

VARIABLES
  verdict,  \* what the server decided of each command
  outcome   \* how the client ended, "none" while it runs

\* The ends of a run of fetchmail, see FetchSession.
Outcomes == {"NoAddress", "TlsFailure", "WriteError", "SslError", "SigPipe",
             "ReadError", "Disconnected", "LoginFailure", "FolderNotFound",
             "MessageNotFound", "FetchError", "Mail", "MimePart",
             "MimeNone", "MimeInvalid", "HeaderError", "Headers", "NoSubjects",
             "Subjects", "Crash", "Nothing"}

\* The ends that only a fetched message can lead to.
Fetched == {"Mail", "MimePart", "MimeNone", "MimeInvalid", "HeaderError",
            "Headers", "NoSubjects", "Subjects", "Crash", "Nothing"}

Init ==
  /\ verdict = [c \in Commands |-> "none"]
  /\ outcome = "none"

\* The command whose success a command's success rests on.
Grantable(c) ==
  CASE c = "LOGIN"  -> TRUE
    [] c = "SELECT" -> verdict["LOGIN"] = "OK"
    [] OTHER        -> verdict["SELECT"] = "OK"

Decide(c, s) ==
  /\ verdict[c] = "none"
  /\ s = "OK" => Grantable(c)
  /\ verdict' = [verdict EXCEPT ![c] = s]
  /\ UNCHANGED outcome

\* A result and the decision of the server it reports.
Justified(o) ==
  /\ o = "LoginFailure"    => verdict["LOGIN"] \notin {"none", "OK"}
  /\ o = "FolderNotFound"  => verdict["SELECT"] = "NO"
  /\ o = "MessageNotFound" => verdict["FETCH"] \in {"NO", "BAD"}
  /\ o \in Fetched         => verdict["FETCH"] = "OK"

Conclude(o) ==
  /\ outcome = "none"
  /\ Justified(o)
  /\ outcome' = o
  /\ UNCHANGED verdict

Next ==
  \/ \E c \in Commands, s \in Statuses : Decide(c, s)
  \/ \E o \in Outcomes : Conclude(o)

Spec == Init /\ [][Next]_<<verdict, outcome>>
=============================================================================
