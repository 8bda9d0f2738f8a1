---------------------------- MODULE ListCommand ----------------------------
(***************************************************************************)
(* list(): populate_subject_list() makes a list of the reply, and          *)
(* sort_subject_list() puts it in order for print_subject_list(), which    *)
(* only walks it.  The two share the list and nothing else, and the second *)
(* begins when the first has returned.                                     *)
(***************************************************************************)
EXTENDS SubjectList, SubjectSort, FiniteSets

CommandAssumption ==
  \A box \in Mailboxes :
    Len(box) <= MaxNodes /\ \A i \in 1 .. Len(box) : box[i].n \in Numbers

ASSUME CommandAssumption

commandVars == <<vars, sortVars>>

CommandInit == Init /\ SortInit

Populate == Next /\ UNCHANGED sortVars

Sort ==
  /\ pc = "done"
  /\ SortCall(Len(subject_list), [i \in 1 .. Len(subject_list) |-> subject_list[i].type])
  /\ UNCHANGED vars

SortFurther == SortStep /\ UNCHANGED vars

CommandNext == Populate \/ Sort \/ SortFurther

CommandSpec == CommandInit /\ [][CommandNext]_commandVars

\* Nothing in `list` waits for anything: the process gets to run.
CommandFairSpec == CommandSpec /\ WF_commandVars(CommandNext)

-----------------------------------------------------------------------------
\* The lines that print_subject_list() prints.
Printed ==
  [i \in Nodes |-> [type |-> list[i].type, packet |-> subject_list[list[i].packet].packet]]

\* How often e stands in s.
Times(s, e) == Cardinality({i \in DOMAIN s : s[i] = e})

\* What the user sees is in the order of the numbers, and has every message as often
\* as the mailbox, with its number and subject, whatever the order of the reply and
\* however the subjects were folded.
ListShowsMailbox ==
  phase = "done" =>
    /\ \A i, j \in Nodes : i < j => Printed[i].type <= Printed[j].type
    /\ (\A m \in Range(mailbox) : Regular(m) /\ Fits(m)) /\ completion # "text" =>
         LET sent == [i \in DOMAIN mailbox |-> Listed(mailbox[i])] IN
         \A e \in Range(sent) : Times(Printed, e) = Times(sent, e)

\* `list` comes to an end whatever the reply is: no line makes it stay where it is,
\* and no order of the numbers makes it sort for ever.
Ends == <>(phase \in {"done", "exit"})
=============================================================================
