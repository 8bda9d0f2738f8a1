---------------------------- MODULE SubjectList ----------------------------
(***************************************************************************)
(* populate_subject_list(): from the text of the reply to                  *)
(*   A06 FETCH 1:* (BODY[HEADER.FIELDS (SUBJECT)])                         *)
(* to the list of subjects that `list` sorts and prints.  It goes through  *)
(* the lines strtok() cuts, with no notion of a literal: a line that       *)
(* begins with "* " opens a message, one that holds "Subject: " gives its  *)
(* subject, and any other one after that is part of the subject, the ")"   *)
(* that closes the FETCH response included.                                *)
(*                                                                         *)
(* A text is a sequence of tokens, of which only the blank and ")" mean    *)
(* anything here.  Blank lines do not appear: strtok() skips them.         *)
(***************************************************************************)
EXTENDS Integers, Sequences, SequencesExt

CONSTANTS
  Tokens,       \* what a text is made of
  Mailboxes,    \* what the folder may hold, sequences of Messages
  Completions,  \* how the reply may end, see TaggedLine
  MaxSubject    \* BUFFER_SIZE - 1: the most tokens subject[] holds

\* A message: its number n, whether the name of its header field is spelled
\* "Subject" (exact), the lines of the body of the field, none without a subject,
\* and what the server writes between the header and the ")" of the response (more).
Messages == [n : Int, exact : BOOLEAN, lines : Seq(Seq(Tokens)), more : Seq(Tokens)]

ListAssumption ==
  /\ {" ", ")", "No subject", "A06 OK"} \subseteq Tokens
  /\ \A box \in Mailboxes : box \in Seq(Messages)
  /\ Completions \subseteq {"completed", "text", "refused"}
  /\ MaxSubject \in Nat \ {0}

ASSUME ListAssumption

VARIABLES
  mailbox,      \* the messages, in the order the server reports them
  completion,   \* how the reply ends
  msg, row,     \* the message, and the line of its response, reached
  seq_num,      \* the number on the last "* " line
  subject,      \* subject[], the subject put together so far
  found,        \* subject_found
  first,        \* first_message
  subject_list, \* what has been inserted, from head to foot
  pc            \* "scan" or "done"

vars == <<mailbox, completion, msg, row, seq_num, subject, found, first, subject_list, pc>>

NoSubject == <<"No subject">>

-----------------------------------------------------------------------------
\* A line of the reply: what it is to the scan, its number and its text.
Line(kind, n, text) ==
  [kind |-> kind, n |-> n, text |-> text]

\* The lines of the response for message m.
Rows(m) ==
  <<Line("star", m.n, <<>>)>>
  \o [i \in 1 .. Len(m.lines) |->
        Line(IF i = 1 /\ m.exact THEN "subject" ELSE "text", 0, m.lines[i])]
  \o <<Line("text", 0, Append(m.more, ")"))>>

\* "A06 OK Fetch completed", "A06 OK" with another text, or "A06 NO".
TaggedLine == Line(completion, 0, <<"A06 OK">>)

LineAt(i, r) == IF i <= Len(mailbox) THEN Rows(mailbox[i])[r] ELSE TaggedLine

\* The place of the line after this one.
NextMsg == IF msg <= Len(mailbox) /\ row = Len(Rows(mailbox[msg])) THEN msg + 1 ELSE msg
NextRow == IF NextMsg = msg THEN row + 1 ELSE 1
Here    == LineAt(msg, row)

AtEnd == msg > Len(mailbox) /\ row > 1

\* The next line opens a message, or is the expected completion.
BeforeBoundary ==
  /\ msg <= Len(mailbox)
  /\ LineAt(NextMsg, NextRow).kind \in {"star", "completed"}

\* trim_subject(): trailing blanks go, the first character stays.
Trimmed(t) ==
  SubSeq(t, 1, CHOOSE n \in 0 .. Len(t) :
                 /\ n <= 1 \/ t[n] # " "
                 /\ \A j \in n + 1 .. Len(t) : t[j] = " "
                 /\ n = 0 => t = <<>>)

\* Seeded fault: text is copied whatever its length.
Uncut(t) == t

\* strncpy() and strncat() into subject[].
Cut(t) == SubSeq(t, 1, IF Len(t) < MaxSubject THEN Len(t) ELSE MaxSubject)

\* Seeded fault: the ")" that closed the response stays.
EntryWithParen == [type |-> seq_num, packet |-> IF found THEN Trimmed(subject) ELSE NoSubject]

\* What is inserted for the message that ends: a last ")" is the response's.
Entry ==
  LET t == Trimmed(subject) IN
  [type |-> seq_num,
   packet |-> IF ~found THEN NoSubject
              ELSE IF t # <<>> /\ t[Len(t)] = ")" THEN SubSeq(t, 1, Len(t) - 1)
              ELSE t]

-----------------------------------------------------------------------------
Init ==
  /\ mailbox \in Mailboxes
  /\ completion \in Completions
  /\ msg = 1 /\ row = 1
  /\ seq_num = 0
  /\ subject = NoSubject
  /\ found = FALSE
  /\ first = TRUE
  /\ subject_list = <<>>
  /\ pc = "scan"

Advance == msg' = NextMsg /\ row' = NextRow /\ UNCHANGED <<mailbox, completion, pc>>

\* "* n FETCH ...": the message before is inserted, and this one begins.
StarLine ==
  /\ pc = "scan" /\ ~AtEnd
  /\ Here.kind = "star"
  /\ subject_list' = IF first THEN subject_list ELSE Append(subject_list, Entry)
  /\ seq_num' = Here.n
  /\ subject' = NoSubject
  /\ found' = FALSE
  /\ first' = FALSE
  /\ Advance

\* A line with "Subject: " in it.
SubjectLine ==
  /\ pc = "scan" /\ ~AtEnd
  /\ Here.kind = "subject"
  /\ subject' = Trimmed(Cut(Here.text))
  /\ found' = TRUE
  /\ UNCHANGED <<seq_num, first, subject_list>>
  /\ Advance

\* Any other line is added to a subject; the whole is trimmed at a boundary.
TextLine ==
  /\ pc = "scan" /\ ~AtEnd
  /\ Here.kind = "text"
  /\ LET t == IF found THEN Cut(subject \o Here.text) ELSE subject IN
     subject' = IF BeforeBoundary THEN Trimmed(t) ELSE t
  /\ UNCHANGED <<seq_num, found, first, subject_list>>
  /\ Advance

\* Seeded fault: the loop ends and the message it was at is forgotten.
FinishWithoutLast ==
  /\ pc = "scan"
  /\ AtEnd \/ Here.kind \in {"completed", "refused"}
  /\ pc' = "done"
  /\ UNCHANGED <<mailbox, completion, msg, row, seq_num, subject, found, first, subject_list>>

\* A line the loop stops at, or none is left: the last message is inserted.
Finish ==
  /\ pc = "scan"
  /\ AtEnd \/ Here.kind \in {"completed", "refused"}
  /\ subject_list' = IF first THEN subject_list ELSE Append(subject_list, Entry)
  /\ pc' = "done"
  /\ UNCHANGED <<mailbox, completion, msg, row, seq_num, subject, found, first>>

Next == StarLine \/ SubjectLine \/ TextLine \/ Finish

Spec == Init /\ [][Next]_vars

-----------------------------------------------------------------------------
\* What the reply says of message m: the lines of its subject in one, without
\* blanks around them.
Unfolded(m) == FlattenSeq(m.lines)

Body(m) ==
  LET t == Unfolded(m)
      inner == {i \in 1 .. Len(t) : t[i] # " "}
  IN  IF inner = {} THEN <<>>
      ELSE SubSeq(t, CHOOSE i \in inner : \A j \in inner : i <= j,
                     CHOOSE i \in inner : \A j \in inner : j <= i)

Listed(m) ==
  [type |-> m.n, packet |-> IF m.lines = <<>> THEN NoSubject ELSE Body(m)]

\* subject[] has room for the subject and the ")" after it.
Fits(m) == Len(Unfolded(m)) < MaxSubject

\* The subjects the code promises to show as sent: the name of the field is the one
\* it looks for, "Subject"; the server writes nothing after the header but the ")"
\* (an untagged FLAGS item would be taken for text); and no blank is left before the
\* body or, when it is folded, at the end of its first line, which is trimmed before the
\* next is added, or before the ")", where trim_subject() would not find it.
Regular(m) ==
  /\ m.exact
  /\ m.more = <<>>
  /\ m.lines # <<>> => m.lines[1] # <<>> /\ m.lines[1][1] # " "
  /\ Len(m.lines) > 1 =>
       \A k \in {1, Len(m.lines)} : m.lines[k] # <<>> /\ m.lines[k][Len(m.lines[k])] # " "

TypeOK ==
  /\ mailbox \in Mailboxes
  /\ completion \in Completions
  /\ msg \in 1 .. Len(mailbox) + 1
  /\ row \in 1 .. IF msg <= Len(mailbox) THEN Len(Rows(mailbox[msg])) ELSE 2
  /\ seq_num \in Int
  /\ found \in BOOLEAN
  /\ first \in BOOLEAN
  /\ pc \in {"scan", "done"}
  /\ subject \in Seq(Tokens)
  /\ found => Len(subject) <= MaxSubject
  /\ subject_list \in Seq([type : Int, packet : Seq(Tokens)])

\* An entry has the whole subject of the message of its place if that fits,
\* however it was folded and whether it ends with ")" itself.
SubjectsAsSent ==
  \A i \in 1 .. Len(subject_list) :
    Regular(mailbox[i]) /\ Fits(mailbox[i]) /\ completion # "text"
      => subject_list[i] = Listed(mailbox[i])

\* Each message is listed once, in its place and under its number, one without a
\* subject included, and whatever its text makes of the lines after it.
EveryMessageListed ==
  /\ \A i \in 1 .. Len(subject_list) : subject_list[i].type = mailbox[i].n
  /\ Len(subject_list) <= Len(mailbox)
  /\ pc = "done" => Len(subject_list) = Len(mailbox)
=============================================================================
