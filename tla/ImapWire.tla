------------------------------ MODULE ImapWire ------------------------------
(***************************************************************************)
(* What travels between the client and the server, at the grain the client *)
(* tells apart.  The stream is a sequence of atoms; one read() returns any *)
(* run of atoms, so a read that ends inside "A03 OK" ends between the atom *)
(* of the tag and the atom of the status.                                  *)
(*                                                                         *)
(* The client never parses a response: it looks for a literal such as      *)
(* "A03 OK" with strstr(), which sees a buffer up to its first NUL byte.   *)
(* Shows and CString are those two C library behaviours.                   *)
(***************************************************************************)
EXTENDS Integers, Sequences

\* The commands main() may send on a connection, in the order it sends them.
\* PARSE and LIST are the second FETCH of `parse` and of `list`.
Commands == {"LOGIN", "SELECT", "FETCH", "PARSE", "LIST"}

Rank == [LOGIN |-> 1, SELECT |-> 2, FETCH |-> 3, PARSE |-> 4, LIST |-> 5]

\* The tag each snprintf() of the client puts in front of its command.
Tag == [LOGIN |-> "A01", SELECT |-> "A02", FETCH |-> "A03",
        PARSE |-> "A04", LIST   |-> "A06"]

Tags == {Tag[c] : c \in Commands}

\* What a server says of a command.  NOAUTH is "NO [AUTHENTICATIONFAILED]",
\* the one refusal of a LOGIN that read_response() looks for.
Statuses == {"OK", "NO", "NOAUTH", "BAD"}

\* "untagged" is the text of a "* ..." line, "eol" a CRLF, "nul" a NUL byte,
\* "mail", "header" and "subject" are text in which no marker occurs.
Data  == {"untagged", "eol", ")", "+", "nul", "mail", "header", "subject"}
Atoms == Tags \cup Statuses \cup Data

-----------------------------------------------------------------------------
\* Seeded fault: the tag and the status are looked for separately.
ShowsBoth(b, t, s) ==
  \E i, j \in 1 .. Len(b) : b[i] = t /\ b[j] = s /\ \A k \in 1 .. i : b[k] # "nul"

\* strstr(b, "<tag> <status>"): the pair, before any NUL byte of the buffer.
Shows(b, t, s) ==
  \E i \in 1 .. Len(b) - 1 :
     /\ b[i] = t /\ b[i + 1] = s
     /\ \A j \in 1 .. i : b[j] # "nul"

\* Seeded fault: the first line end is taken for the end of the headers.
ShowsLineEnd(b) == \E i \in 1 .. Len(b) : b[i] = "eol"

\* strstr(b, "\r\n\r\n"), which ends the header block of a FETCH.
ShowsBlankLine(b) == Shows(b, "eol", "eol")

\* How many atoms strlen() and strcpy() see of a buffer.
StrLen(b) ==
  CHOOSE n \in 0 .. Len(b) :
     /\ \A j \in 1 .. n : b[j] # "nul"
     /\ n = Len(b) \/ b[n + 1] = "nul"

CString(b) == SubSeq(b, 1, StrLen(b))

\* The atoms of s occur, in a row, in t.
Within(s, t) ==
  \E k \in 0 .. Len(t) - Len(s) : SubSeq(t, k + 1, k + Len(s)) = s
=============================================================================
