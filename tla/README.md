# Verification of fetchmail, a command-line IMAP client

`fetchmail` (src/, about 1,900 lines of C) connects to an IMAP server over TCP,
or TLS with `-t`, logs in, selects a folder, fetches one message, and then does
one of four things with it: `retrieve` prints it, `parse` fetches and prints
four of its headers, `mime` prints its first text part, `list` fetches and prints
the subjects of the whole folder.

The program is one thread and one connection. What makes it hard is that it never
parses the protocol: it searches whatever a `read()` happened to return for
strings such as `"A03 OK"`, so what it does depends on how the network cut the
stream, and where the connection was lost. That is what most of this directory
is about.

## 1. Inventory

| Component | Code | State | Operations | Interacts with |
|---|---|---|---|---|
| Session over TCP | `main.c`, `imap_client.c:1-240, 745-895` | descriptor, the command being sent, `bytes_left`, `packet_list`, `dynamic_buffer` | `create_connection`, `send_command`, `read_response`, `login`, `select_folder`, `retrieve`, the loops of `parse` and `read_subjects` | the server, by two byte streams; the printing code, by the packets; `list`, by the buffer |
| Session over TLS | `tls.c`, `main.c:44-54` | the same and an `SSL *` | `tls_connect`, `send_ssl_command`, `read_ssl_response`, `read_ssl_fetch_response` | the same server; hands the *descriptor* to `parse` and `list` |
| Response buffers | `imap_client.c:745-832, 839-895` | `buffer_len`, `total_bytes`, the allocation | grow, copy, terminate | filled by `read()`, read by `strtok()` |
| Subject list | `imap_client.c:899-988, 1008-1017` | `subject[]`, `seq_num`, `subject_found`, `first_message`, `subject_list` | one line of the reply at a time | takes the buffer of `read_subjects`, hands a list to the sort |
| Subject sort and print | `server_response.c:155-203` | a linked list, `ptr1`, `lptr`, `swapped` | bubble sort, print | takes the list, prints |
| Printing a message | `server_response.c:206-277` | `packet_list`, `trim_pos` | `print_list_retrieve` | takes what `retrieve` stored |
| Linked list | `server_response.c:17-150` | nodes of a type and a packet | make, insert at foot, free | used by all of the above |
| MIME part | `imap_client.c:244-550`, `utils.c:107-118` | position in the message, headers | `mime`, `parse_mime_parts`, `find_mime_boundary` | takes what `retrieve` stored |
| Header unfolding | `imap_client.c:553-740, 796-832` | lines of the buffer | `unfold_headers`, `print_headers` | takes the buffer of `parse` |
| Command line | `utils.c` | the `FetchMail` structure | `parse_args`, `parse_n_value`, `check_for_injection` | starts `main` |
| Command formatting | `imap_client.c:132-174`, `tls.c` | fixed buffers | `LOGIN`, `SELECT` with its escapes, `FETCH` | gives `send_command` its text |
| OpenSSL setup | `tls.c:19-90, 303-358` | context, session | library calls | `tls_connect` |

What is hard in it, and what makes each part right:

* **Session.** A reply may arrive in any number of reads and a read may hold parts
  of several replies; a `write()` may be partial; the connection may end between any
  two calls. Right: what is reported was decided by the server, what is printed is
  whole, no failure is blamed on a network that did nothing, and every run ends.
* **TLS.** The same, and a failed `tls_connect()` from which `main()` goes on; a
  session that is left for the plain descriptor in the middle.
* **Buffers.** Boundary arithmetic at the end of a buffer that doubles, in an `int`.
  Right: no write past the end, and no length that does not describe the allocation.
* **Subject list.** A scan without a notion of literals, in which a message is
  inserted when the *next* one begins. Right: one entry for each message, with its
  own number and its whole subject.
* **Sort.** A pass stops at a node by identity. Right: it stays on the list, loses
  nothing, sorts stably, and stops.
* **Printing.** It walks back from the end of the message over line ends and one
  `)`. Right: the message and nothing else.
* **MIME.** The boundary is searched for, the first part's fields are unfolded in place
  up to a guessed end, and the values that are tested do not end where their line does.
  Right: the first part when it is text in UTF-8, and no part that is not.
* **Headers.** Whatever the last read left after the blank line is unfolded and listed
  too. Right: the four fields of the header block, once, as one line each.
* **Command line, formatting.** Words from outside go into lines of a protocol and into
  fixed buffers. Right: what the command line means, one line for each command.

PROJECT.json lists the components with their status and the hazards line by line.

## 2. Modules

```
ImapWire ── ImapServer ── FetchSession ── TlsSession ── MCTlsSession
   │                          │   └────── MCFetchSession
   └── ImapExchange  ◄────────┘ (implements)
SubjectList ─┬─ ListCommand ── MCListCommand
SubjectSort ─┘
ResponseBuffer
                           ┌─ MailPrinter ─┐
TextSearch ── FetchedText ─┼─ MimeParts   ─┼─ MessageOutput ── MCMessageOutput
                           └─ HeaderFold  ─┘
CommandLine ── CommandText ── MCCommandText

FetchSessionProofs ── TlsSessionProofs
MessageOutputProofs ── HeaderFoldProofs ── MimePartsProofs
ListCommandProofs, ResponseBufferProofs, CommandTextProofs
```

The sessions say *which* texts reach the commands and which results may be reported;
the modules of MessageOutput and ListCommand what is made of such a text; CommandText
what the texts of the commands are that a session takes for atoms.

* **ImapWire** is the alphabet. The stream is a sequence of *atoms*: a tag, a status,
  a line end, `)`, `+`, a NUL byte, text. A client that searches for `"A03 OK"`
  distinguishes no more than these, and a read that ends inside the string is a read
  that ends between its two atoms. `Shows` is `strstr()` and `CString` is `strcpy()`:
  both stop at a NUL.
* **ImapServer** is the environment, and external: a greeting, and one reply for each
  command in order; a loss is a FIN, a RST, or a FIN followed by a refusal of data
  (`"shut"`), and takes an unread end of the stream with it. `wire` is never consumed;
  `pos` is how far the client has read, so that "what is still in the stream" is part
  of the state. The server says OK only to what can succeed (nothing is selected
  without a login, nothing fetched from an empty folder).
* **FetchSession** is a run without `-t`. One action for each call that can be
  interrupted: `Resolve`, `TryAddress`, `OutOfAddresses` (`create_connection`),
  `SendCommand` (one `write()`), `ReadResponse`, `RetrieveRead`, `ParseRead`,
  `ListRead` (one `read()` with all that the loop does after it), and `Dispatch`
  (`main()` after the fetch). `left` is `bytes_left`, `packets` is the packet list,
  `buf` is `dynamic_buffer`, `fd` tells a descriptor that was never made from one that
  was closed. `ExitCode` has the status of every end. What the code does not test for
  is there: `retrieve()` goes round its loop after a `read()` of 0, a connection
  whose every address failed is used, a NULL or uninitialised buffer reaches
  `strtok()`. `Printed` is `print_list_retrieve()`.
* **ImapExchange** is what a session promises, with two variables: the server decides
  each command once, and none before those it rests on; the client concludes once, with
  a result that the decisions made so far justify.
* **TlsSession** adds the actions of `tls.c` and takes `ParseRead`, `ListRead` and, for
  their commands, `SendCommand` from FetchSession as they are, because that is what
  `main()` calls: `parse` and `list` write their FETCH in clear on the descriptor below
  the session. `tls_connect()` is four actions, one for each point where it can fail or
  the peer can go away; a failure goes on without a session, as `main()` does. The server takes that for a broken record (`RejectRecord`).
  `AnswerAnywhere` is the looser search of `read_ssl_fetch_response()`.
* **ResponseBuffer** is the arithmetic of the two growing buffers: `size` is what is
  allocated, `extent` the highest offset written, `buffer_len` an `int` of width
  `IntMax`. `FetchSession`'s `buf` is what these buffers hold.
* **SubjectList** is `populate_subject_list()`, one line of the reply for each action:
  `StarLine`, `SubjectLine`, `TextLine`, `Finish`. A text is a sequence of tokens, of
  which only the blank and `)` mean anything. `Cut` is the limit of `subject[]`.
* **SubjectSort** is `sort_subject_list()`, one comparison for each action. A packet is
  the place its subject had in the reply, so that the end of the sort shows what became
  of every subject.
* **ListCommand** is `list()`: the two one after the other, over the list they share.
* **TextSearch** is `strstr()` and its relatives and the unfolding loop, on sequences of
  tokens: a token is a piece of text that the code looks for as a whole, CR and LF are
  tokens of their own. **FetchedText** is what the three printers share: the text, the
  next step, the output, the status.
* **MailPrinter** is `print_list_retrieve()`, one turn of the trimming loop for each
  action. **MimeParts** is `mime()`: `FindParameter` and `TakeBoundary`
  (`find_mime_boundary`), `FindDelimiter`, `EnterPart` (with `unfold_headers_mime`),
  `ReadHeaders`, `CheckHeaders` (`parse_headers` is `ValueOf`), `PrintBody`. The loop over
  the parts has one turn, as every way through it ends the loop. **HeaderFold** is
  `parse()` after its loop: `UnfoldHeaders`, `NextLine` (`strtok()`), `ListLine`,
  `PrintHeaders`. **MessageOutput** is `main()` choosing between them.
* **CommandLine** is `parse_args()`, one argument for each action, over words of
  characters; **CommandText** goes on with the commands: `Login` and `Select` into buffers
  of their sizes, `Escape` one character of the folder's name for each action, `Fetch` and
  `FetchAgain`. A write past a buffer is the phase `"undefined"`, from which nothing follows.

Operators with the comment "Seeded fault" are not part of the model. Each is a
plausible slip in the definition after it (a dropped reset, a boundary off by one, a
lost guard), and PROJECT.json names the property that has to notice it.

## 3. What the runs check

Passing:

* **session_safety** — any cut of the stream (`"bytes"`), writes in two pieces, two
  addresses, FIN, RST or an expunge by another client at any point. The session
  implements `ImapExchange`: "Login failure", "Folder not found" and "Message not
  found" are printed only when the server refused that command, and a message, its
  headers or its subjects only when the fetch was granted. `MailComplete`: a message that
  means nothing to the client (`Plain`) is printed whole and in one piece, but for the `+`
  atoms, which are left out of the comparison because `retrieve()` drops each that a read
  begins with. `HeadersComplete`, `SubjectsComplete`: `parse` and `list` work on the whole of
  what the server sent, however far behind the stream the client was.
  `NetworkErrorsAreReal`: status 1, 2 or a crash only after a real failure.
* **session_replies** — every reply arrives in one piece. No command is sent before
  the previous reply was read to its end (`InStep`), the first refusal is reported, and none
  that was not made (`RefusalsReported`, which leaves open the two cases below in which the
  documents ask for another end than the code's), the message is printed verbatim
  (`MailVerbatim`), and TLC finds no deadlock.
* **session_live** — reads end at line ends, with FIN, RST and expunge. Every run ends
  (`Terminates`), except the two the property names: a FIN in the middle of the fetch
  (see loss_spin), and a message that is expunged between `parse`'s two fetches, whose
  reply has no blank line. `LossNoticed`: a lost connection ends every other phase.
* **message_output** — `retrieve` on every message of up to four characters (a letter, `)`,
  CR, LF), with and without a reply unread before it; `mime` on messages of up to two
  parts, fields folded or not, in either order and case, the boundary quoted or not, before
  or after the version; `parse` on header blocks of up to four fields with seven values,
  the read ending anywhere behind the blank line, or the connection before it.
  `RetrievePrintsMail`: the message, character by character. `MimePrintsFirstPart`: for
  the messages the code is written for, exactly the body of a first part that is text, and
  status 4 when no part is; a message whose first text is a later part is left open (below).
  `MimePrintsNoOther`: for all of them but those of mime_blank_body, nothing but the body
  of the first part that may be printed, some of its folds gone; of the only part, behind a
  boundary without quotes, the rest of the reply too; a message that is not printed at all
  satisfies it. `ParsePrintsHeaders`: the four fields unfolded and trimmed.
  `ParseInventsNothing`: after a loss each is a beginning of itself. `RetrieveInContent`: the trimming stays in
  the allocation, but for a message that is empty, or a `)` before a tagged line that it
  quotes. `Ends`: every loop over a text comes to an end.
* **command_line** — every order of the options, missing, doubled and surplus ones, words
  with line breaks, numbers on both sides of every limit, names up to beyond the buffers.
  `ArgumentsTaken`: a session starts exactly when the command line is complete and clean,
  and with what it says. `OneCommandOneLine`: no word becomes a second command.
  `FolderFits`: the length up to which a folder's name is safe. `CommandsAsMeant`: a server
  that reads the quoted string gets the folder's name, and both fetches ask for one message.
* **tls_session** — any cut of the stream and any loss, over TLS, the phases in clear
  included. The same completeness and honesty, `NeverMissingByMistake`, and
  `LossNoticed`.
* **buffer_bounds** — every reply up to 40 bytes and every way of cutting it, with
  buffers of 4 bytes and an `int` of 6 bits: no write past the end (`InBounds`), and
  an overflow of `buffer_len` never goes unnoticed (`NoWrappedLength`).
* **list_command** — up to four messages in every order, with subjects folded, in
  parentheses, with blanks after them, absent, and longer than `subject[]`. What is
  printed has one line for each message in the order of the numbers, and each is what
  the mailbox holds (`ListShowsMailbox`); the sort stays on the list, keeps every
  subject once and is stable; the command ends.

Runs that show where the code does not do what the repository says of it (each
PROJECT.json finding quotes the line):

* **loss_spin** — `retrieve()` does not test for a `read()` of 0 and never ends.
* **split_marker** — a marker cut by the end of a read is not seen, and both sides wait.
* **tls_headers** — `parse -t` sends its FETCH in clear and prints no header.
* **mime_blank_body** — `unfold_headers_mime()` stops at the part's fields if it finds them,
  by their names in title case. When it does not, it goes on into the body, and the blank
  line before a body that begins with a blank is a fold to it: headers and body become one,
  up to the next part, whose body is printed instead.

Known besides, in the models and without a run of their own; no property asks for what the
code does here:

* A refused SELECT that arrives late or in two reads is reported as something else, or not at
  all (the reason is that of split_marker).
* A login refused without `[AUTHENTICATIONFAILED]` goes on to SELECT and ends with the refusal of
  a later command; `textFiles/Task 2.2 Notes.txt:23` asks for "Login failure".
* `list` in an empty folder prints "Message not found" and exits with 3, as it fetches a message
  first; section 2.6 of the specification asks for no output and status 0.
* Over TLS, the OK of the previous reply passes for the answer to A03 (`AnswerAnywhere`), so that
  a refusal is printed as a message.
* A connection closed before the first byte of the subjects leaves a buffer that is no string
  (`ListRead`).
* A first part that is not text ends `mime` with status 4; section 2.5 asks for the first part
  that is text, which may be a later one.
* A part whose fields are named in lower case is printed with the first folds of its body gone.
* A `+` that a read begins with is lost from the message, and so is a lone CR at its end.
* `SELECT` for a name beyond `FolderFits` is a write past a buffer.

Of blanks after a fold the repository has two expectations: `out/parse-ws.out` (README:35) keeps
them, `out/parse-ws.out.2` (Makefile:22) does not. The code does what the second says, and so
does `ParsePrintsHeaders`.

### Bounds

| Bound | Value | Why it is enough |
|---|---|---|
| `MaxAddrs` | 2 | none, one failed and then another address: the loop has no memory beyond the last descriptor |
| `CmdLen` | 2 | a command written whole or in two pieces: the loss of a connection between them is the case that matters |
| `MaxRead` | 40 | longer than any reply of the instances, so `Delivery` alone decides what a read returns |
| `Payloads` | 6 messages | no line end, one, none at all, a last `)` like that of the response, a blank line in the text, a `+` before a word and on a line of its own |
| `BufferSize`, `IntMax`, `MaxReply` | 4, 31, 40 | three doublings and the overflow, with every remainder at the boundary |
| mailboxes | up to 4 messages | every permutation needs up to three passes; a pass that shortens, and a `lptr` at every place |
| `MaxSubject` | 5 | a folded subject, with its `)`, that fits, one that just does not, and one that does not |
| mails | up to 4 characters of `w`, `)`, CR, LF, and two that quote the tagged line | the trimming looks at line ends, one `)` and one more character: every order of these, and one before them; a quoted tagged line with text before it, and with only a `)` |
| `Multiparts` | 1 or 2 parts, 5 bodies | a part with another behind it, and the last one; bodies that are empty, begin with a line end or a blank, or look folded |
| `HeaderBlocks` | up to 4 fields, 7 values | all four out of order; two of one name in different case; each boundary case of a fold |
| `BufferSize`, `BufferSizeTls` | 12, 14 | names on both sides of every limit of LOGIN, SELECT and `escaped_name[]`, escaped or not |
| `IntSpan` | 4096 | a number out of the range of `-n` that an `int` of that width would take for one in it |

Every cfg has `CHECK_DEADLOCK FALSE` where a run may really stop: the session when
both sides wait for each other (session_safety, session_live, tls_session and the
violations, the subject of split_marker), a list, a buffer or a printer when it is done,
a command line when its commands are sent or a write left its buffer.
session_replies has the check on; `Finished` is the only stuttering there.

### Fairness

`FairSpec` assumes that the process is scheduled (`WF_vars(Client)`) and that the server
answers what it has received (`WF_vars(Server)`). Nothing obliges the network to do
anything: a connection need not break. Weak fairness on the whole client is what an
operating system gives a single thread: each `read()` with something to return, each
`write()`, each failed call returns. `Network` is never fair. `TlsFairSpec` is the same.
`CommandFairSpec` and MessageOutput's `Spec` are those of a computation that waits for nothing.

## 4. What is proved

`tlapm` checks every proof; the theorems hold for all values of the constants under the
assumptions the modules name, all of which TLC evaluates on every run: at least one
address, piece and atom; a buffer of at least two bytes and an `int` that can hold it;
numbers that are integers; texts that consist of tokens. A theorem with a further hypothesis
names it, and the reason is below. Where a property needs an induction over a text
or a list, the proof takes a least counterexample (`LeastNat`).

**The session over TCP** (FetchSessionProofs)

* `TypeCorrect` — `Spec => []TypeOK`, whatever the server sends. `Typed` adds to the types
  what they rest on: nothing was read before there was a connection, and only a command is
  being sent.
* `Invariance` — `Spec => []Inv`, what the other theorems rest on, without an assumption on
  the literals. The client acts on atoms in the stream, and what it promises speaks of the
  server's decisions; `Inv == Flow /\ Control` relates the two. `Streamed`: what can be read
  is the greeting and one reply to each command decided so far, in the order of `main()`, or
  a beginning of that once the connection is lost (`Stream`, `Before(c)`, `ReplyTo(c)`).
  `Answered`: the literals in it belong to those decisions. `Queue`, `DecidedSent` and
  `Ordered`: what waits for the server was sent, is undecided, in order, and comes after all
  that was decided, so nothing is decided twice. `Control`: where the process can be in
  each phase.
* `Implementation` — `Spec => ImplementsExchange`, the refinement, under `HonestPayloads`: no
  literal the server sends holds a tag of the client. The hypothesis is necessary, and says
  something of the code: a message that quotes `A03 NO` is reported missing. With it, a tag
  in the stream is the tagged line of a reply (`Answered`, `Streamed`), and every end of a
  run is justified by what the server decided, for every cut of the stream, partial write
  and loss. `FetchedBeforeUse`, on the way: nothing is done with a message before its fetch
  was granted.
* `BlamesRightly` — a status that blames the network, and a crash, come only from a
  connection that failed or was lost, whatever the server sends. `Blamed` adds that a run has
  no result before it ends and no descriptor before it has an address; `BlamesNone` lists the
  results that say nothing of the network.
* `PrintsWholeMail` (`MailComplete`) — for every cut and loss, and every literal that means
  nothing to the client, the `+` atoms left out on both sides. The invariant `Retrieved`: since some place `q` of the stream, not
  behind the reply to the fetch, the packets are the stream up to where it was read, but for
  the `+` at the beginning of a read; and once the client goes on, the tag of the fetch is
  among it. As that tag is in the last line of the reply, the message lies between.
* `CollectsHeaders` (`HeadersComplete`), `CollectsSubjects` (`SubjectsComplete`) — the same for the
  loops of `parse()` and `read_subjects()`, with `Collected`: the buffer is the stream from a
  place between the last line end of the fetch and the beginning of the reply. Both need
  `HonestPayloads`, since a fetch that only seems granted can leave a reply unread. For the
  headers, that the first blank line is the one that ends them is an assumption on the server
  (`HeaderBlocks`, RFC 3501's `HEADER.FIELDS`), and the proof is that the line end left of the
  fetch cannot make a blank line with the response.
* `OneReadPerReply` (`InStep`), `PrintsVerbatim` (`MailVerbatim`), `ReportsRefusals`
  (`RefusalsReported`) — under `Delivery = "replies"`, which the run session_replies has and
  without which split_marker shows that they fail. `Aligned`: the stream is read to its end
  whenever the client is about to send. `Verbatim`: the packets are empty or the one
  response. `Prompted`, for the last: the refusals so far have ended the run, each that the code
  knows with its own message (`RefusalsKnown`, which also covers what the property leaves
  open); it also needs `Faults = {}` (a lost connection is reported first) and `HonestPayloads`.
* `ShowsIsOfCString` — a marker is found in a buffer exactly when it is found in its C string;
  with `StrLenProperties` and `CStringType`, the facts about `ImapWire` the proofs cite.

**The session over TLS** (TlsSessionProofs)

* `TlsTypeCorrect`, `TlsBlamesRightly` — the same from `Typed` and `TlsBlamed` (no result and no
  session before `tls_connect()` is through). The steps tls.c shares with the TCP session
  are cited, its own are proved.
* `TlsInvariance` — `TlsInv`: as long as the process is in the session, its stream is that of
  `Flow` and `Retrieved`, and the server's decisions rest on each other (`Granted`). Before the
  handshake nothing was written or read (`Fresh`); once `parse` or `list` has left the session
  for the descriptor, nothing of the stream is claimed.
* `TlsPrintsWholeMail` (`MailComplete`), `TlsReportsMissing` (`NeverMissingByMistake`) — the second
  under `NoRefusalQuoted`: no message holds the text of a refusal. `read_ssl_fetch_response()`
  looks for tag and refusal apart, so that a read with the tag of `A03 OK` and a message that
  says `NO` is enough.

**Buffers, list, printing, command line**

* `ResponseBufferProofs!TypeCorrect`, `Bounded`, `LengthIsSize` — the buffers, for every
  `BUFFER_SIZE`, `INT_MAX`, reply and cut. The invariant `Room` is the margin the code keeps
  between two reads: `parse()` has exactly the text and its NUL, `read_subjects()` two bytes
  more than the text.
* `ListCommandProofs!SortTypeCorrect`, `SortsStably`, `LosesNothing`, `StaysOnTheList` — the sort, for
  lists of every length and all numbers. `LargestSoFar` (the node a pass has come to),
  `SortedEnd` (from `lptr` on), `OrderedSoFar` (a pass that exchanged nothing), `Stable` and
  `Bounds` are the parts of the inductive invariant.
* `ListCommandProofs!ListTypeCorrect`, `ListsEveryMessage` — `populate_subject_list()`, for every
  mailbox and every size of `subject[]`: it keeps to the lines of the reply and to the
  buffer, and lists each message once, under its number. A message is inserted when the next
  one begins, so the list is one behind the scan: `Pending` says by how much (`Started`) and
  which message's number `seq_num` holds meanwhile. `RowsShape` is what the scan rests on: the
  response of a message begins with its only `* ` line.
* `ListCommandProofs!ListsAsSent` (`SubjectsAsSent`) — `Gathered`: `subject[]` holds what
  `trim_subject()` leaves of the lines seen so far. The attempt to prove it as it stood showed
  that a blank at the end of the first line of a folded subject is lost, on a mailbox the run
  did not have; `Regular` now excludes it.
* `ListCommandProofs!CommandImplementsSort`, `ListIsSorted`, `ListIsWhole`, `ListShowsAll` — seen from
  its nodes alone, `list` is the sort of a list the sort accepts, so `Sorted` and `EachOnce` hold
  of the whole command. `Handed`: what the sort was given is the list the scan left. With
  `ListsAsSent`, and as a permutation keeps how often a line occurs (`SameTimes`), what is printed
  is the mailbox. `CommandAssumption` bounds the mailboxes by the constants of the sort.
* `CommandTextProofs!TypeCorrect`, `SendsLines`, `NamesFit` — for every command line and every size of
  the buffers. What the loop of `parse_args()` has stored is clean (no line break in any word,
  since `check_for_injection()` is called before the next argument is looked at), escaping a
  clean name gives a clean one of at most twice its length, and a command made of clean words
  has its only line break at its end, or was cut before it. `NumberOf` is no word and needs the
  assumption that numerals are no line breaks.
* `CommandTextProofs!TakesArguments` (`ArgumentsTaken`), `MeansCommands` (`CommandsAsMeant`) — `Taken`:
  before each turn of the loop the structure holds what the groups of arguments so far say
  (`Composed` is the assumption that an `argv` is a sequence of such groups, and every `argv` is
  one). `Readable`: what has been escaped reads back as the name so far. `SentSoFar`: which
  commands were sent, and what they name.
* `MessageOutputProofs!RetrievesMail` (`RetrievePrintsMail`), `RetrievesInContent` (`RetrieveInContent`)
  — for every message and whatever was unread before it. `Walk`: the text is the reply from
  behind its first line to a place between the end of the message and the end of its line
  (`Reached`, `Cut`), and after the `)` to `Kept`. `MailsAssumption` is what the printer is given:
  what was unread ends its line and does not hold the tagged line. The attempt to prove
  `RetrieveInContent` as it stood showed a second message that leaves nothing of the text, one
  that quotes the tagged line with only a `)` before it; the property now names it, and the run
  has it.
* `MessageOutputProofs!TypeCorrect` (`TypeOK`) — for `retrieve`, `mime` and `parse`. `Placed` is the
  strengthening: once `mime` has found a parameter or a delimiter it stands at a place of the text
  or just behind its end, which is what each search and copy from there relies on.
  `TextsAssumption` says that what is sent and printed consists of tokens, and what a header
  block is. That `Unfold` leaves a text a text rests on lemmas about `FlattenSeq`
  (`FlattenTyped`, `FlattenMore`, `FlattenBoth`), which are inductions over the places of a
  sequence, done by least counterexample; `TypeInvKept` is the step the other theorems cite.
* `HeaderFoldProofs!ParsesHeaders` (`ParsePrintsHeaders`), `ParsesNothingElse`
  (`ParseInventsNothing`) — for header blocks of any number of fields, in any order and
  case, each folded any number of times, whatever was unread before the block and wherever the
  last read or the connection ended. The argument follows the text: where each field lies in
  the reply, and that no fold lies across two of them; that unfolding leaves one line of
  each, its own value with the folds gone; that `strtok()` then returns these lines one by
  one, and of a text that is cut a beginning of the last; that from a line `Colon` and
  `TrimSpaces` take name and value; and that `Listed` finds of each name the first.
  `ParseInv` is the inductive invariant: before unfolding the text is as much of the reply as
  was collected, after it a number of whole lines are on `header_list` (`Known`) and the
  rest of the text begins with the next field. It is needed because the properties speak of
  the message, and the code, from `unfold_headers()` on, only of what is left of a text it
  rewrote. The attempt had two results for the model. `TextsAssumption` said of a block only
  that it had a blank line, which was not enough: a name that holds a colon, a line of a
  fold that does not begin with a blank, or a text unread before that has a line of its own,
  is not read as sent, so it now says what a block is. And the value `None` of a field that
  is missing must be no text, or a field that was sent as that text would be taken for a
  missing one.

* `MimePartsProofs!PrintsFirstPart` (`MimePrintsFirstPart`), `PrintsNoOtherPart`
  (`MimePrintsNoOther`) — for messages of any number of parts, any words in the fields of the
  first, any preamble and bodies. `MimeInv` is the inductive invariant: at each step what is
  left at `part` is the end of the text that the message prescribes, from the boundary's name
  to the delimiter, to the header, to the body, that header and body unfolded up to some place,
  and `headers` is a list of lines in which each field is named once. It is needed because the
  steps share nothing but the place in a text, and because the place where unfolding stops
  depends on parts that are not looked at otherwise: `unfold_headers_mime()` stops at a name of
  whatever part has it. So the lemmas say of each piece of the text what it is when unfolded up
  to *any* place (`TypeFieldTill`, `HeadTill`, `PartTill`, `BodyTill`), and `WholeFrom` keeps of
  that place what the exact body needs: a part with both fields in title case is unfolded at
  most to its end. `Missing` is the other half: without `MIME-Version:` before the boundary
  nothing is found, nor the delimiter `--(null)`. The proof sharpened the property, which said
  that the output, all folds taken off, begins with the body without its own; it now says
  exactly what is printed. `MultipartMessages` is the assumption: no text around or in the parts
  holds a delimiter, and none holds `boundary=` or a CR without its LF.

Only model-checked:

* everything about time (`Terminates`, `LossNoticed`, `Ends`), as liveness under fairness is
  beyond the prover;
* what refutes a property: the violations are behaviours of an instance.

## 5. What the models leave out

* In the sessions, the characters: names, passwords, subjects and messages are atoms there,
  and a lone CR or LF is not told from a line end. MailPrinter tells them apart.
* In MimeParts, `delimiter[256]` and `headers[1024]`: the copy into the latter is out of bounds
  for longer headers. `body[10240]` is filled and never used. Names, types and encodings are
  single tokens, so a value that only contains one ("text/plainer") is not among the
  messages; names have two spellings.
* In CommandLine, numerals with a sign or leading zeros, and ERANGE; `-n` takes words that
  are blanks and a numeral, as `strtol()` does.
* Untagged lines that are not part of a reply, unsolicited data and a server that
  answers commands out of order: the server is one that behaves.
* Memory that runs out, except where `realloc()` refuses a length that overflowed.
* The OpenSSL library: a handshake has an outcome, a read returns part of the stream.
* What `list` does with a reply other than the expected one is modelled, and outside
  what `ListShowsMailbox` promises. `Regular` says what is expected: a field named
  exactly `Subject` (the code compares case-sensitively), nothing but `)` after the header
  (A06 is a `BODY[...]`, which sets `\Seen`; a server that reports it there gets it
  appended to the subject), and no blank before the subject or, when it is folded, at the end of
  its first line or before the `)`. A tagged line with another text than `Fetch completed` is taken for a piece of
  the last subject (`completion = "text"`).
* In FetchSession, `mime` ends with any of its three outcomes, which MimeParts decides from
  the message.
* Not modelled: code that nothing calls (`extract_body` and what it uses, `print_list`,
  `printUpToIndex`, `len_list`, the unused readers of tls.c, `cleanup_ssl`), freeing at the end
  of the process, and the build.

## 6. Plan

The order is that of importance: first what decides whether a run reports the truth,
then the text handling.

1. Done: every module above, with the runs and theorems described; every invariant that a
   passing run checks is proved.
2. The refinement of the session without `HonestPayloads` for the first three commands, before
   any literal is in the stream.
3. `delimiter[256]` and `headers[1024]` of `mime`, which need texts with a length in bytes.

## 7. Running

```
tlc -config session_safety.cfg MCFetchSession     (session_*, loss_spin, split_marker)
tlc -config tls_session.cfg MCTlsSession          (tls_*)
tlc -config buffer_bounds.cfg ResponseBuffer
tlc -config list_command.cfg MCListCommand
tlc -config message_output.cfg MCMessageOutput    (and mime_*)
tlc -config command_line.cfg MCCommandText
tlapm FetchSessionProofs.tla                      (and the other *Proofs)
```
