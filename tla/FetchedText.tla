---------------------------- MODULE FetchedText ----------------------------
(***************************************************************************)
(* What the printing code of `retrieve`, `mime` and `parse` has in common: *)
(* a reply of the server as one text, taken apart step by step, and what   *)
(* is printed of it.                                                       *)
(***************************************************************************)
EXTENDS TextSearch

VARIABLES
  message,  \* what the server was asked for, as the server has it
  text,     \* the text that the code works on: res, email_content, buffer
  pc,       \* the next step; "done" when the process has printed
  output,   \* what was printed
  status    \* the exit status, -1 before it has one

textVars == <<message, text, pc, output, status>>

\* The server's response to a FETCH that asked for literal, and the tagged line
\* after it.
FetchReply(literal, tagged) ==
  <<"* FETCH">> \o Eol \o literal \o <<")">> \o Eol \o <<tagged>> \o Eol

\* Concatenate the packets, or the reads, and begin with step p.
Start(reply, p) == text = reply /\ pc = p /\ output = <<>> /\ status = -1

Step(p) == pc' = p /\ UNCHANGED <<message, output, status>>

\* Print out and end with status s.
Finish(out, s) ==
  pc' = "done" /\ output' = out /\ status' = s /\ UNCHANGED <<message, text>>
=============================================================================
