---------------------------- MODULE SubjectSort ----------------------------
(***************************************************************************)
(* sort_subject_list(): the bubble sort, over a linked list, that puts the *)
(* subjects of `list` in the order of their message sequence numbers.      *)
(* Nodes are numbered from head to foot and NULL is one more than the last *)
(* of them; the sort exchanges what the nodes hold and never relinks them. *)
(* A packet is the place its subject had in the reply, so that what became *)
(* of every subject can be told at the end.                                *)
(***************************************************************************)
EXTENDS Integers

CONSTANTS
  MaxNodes,  \* the most nodes of a list
  Numbers    \* what atoi() makes of a node's type

SortAssumption == MaxNodes \in Nat /\ Numbers \subseteq Int

ASSUME SortAssumption

VARIABLES
  length,   \* nodes in the list
  given,    \* the sequence numbers, in the order of the reply
  list,     \* node -> [type, packet]
  ptr1,     \* the node compared with its successor
  lptr,     \* where the sorted end of the list starts
  swapped,  \* an exchange was made in this pass
  phase     \* "pass" in the inner loop, "done", or "exit" with status 3

sortVars == <<length, given, list, ptr1, lptr, swapped, phase>>

Nodes == 1 .. length
NULL  == length + 1

SortTypeOK ==
  /\ length \in 0 .. MaxNodes
  /\ given \in [Nodes -> Numbers]
  /\ list \in [Nodes -> [type : Numbers, packet : Nodes]]
  /\ ptr1 \in 1 .. NULL
  /\ lptr \in 1 .. NULL
  /\ swapped \in BOOLEAN
  /\ phase \in {"idle", "pass", "done", "exit"}

\* Before the call.
SortInit ==
  /\ length = 0
  /\ given = [i \in Nodes |-> 0]
  /\ list = [i \in Nodes |-> [type |-> 0, packet |-> 0]]
  /\ ptr1 = 1
  /\ lptr = NULL
  /\ swapped = FALSE
  /\ phase = "idle"

-----------------------------------------------------------------------------
\* The call, for the list that populate_subject_list() left: n subjects, under
\* these numbers.  An empty list is refused.
SortCall(n, numbers) ==
  /\ phase = "idle"
  /\ length' = n
  /\ given' = numbers
  /\ list' = [i \in 1 .. n |-> [type |-> numbers[i], packet |-> i]]
  /\ ptr1' = 1
  /\ lptr' = n + 1
  /\ swapped' = FALSE
  /\ phase' = IF n = 0 THEN "exit" ELSE "pass"

\* Seeded fault: nodes with the same number are exchanged too.
NotBefore(i) == list[i].type >= list[i + 1].type

\* Two neighbours are in the wrong order.
OutOfOrder(i) == list[i].type > list[i + 1].type

\* Seeded fault: the types are exchanged and the packets are not.
ExchangeTypes(i) ==
  [list EXCEPT ![i].type = list[i + 1].type, ![i + 1].type = list[i].type]

\* Seeded fault: the packet of the first node is gone when it is put back.
ExchangeLosing(i) ==
  [list EXCEPT ![i] = list[i + 1], ![i + 1] = [type |-> list[i].type, packet |-> 0]]

\* Types and packets of two neighbours change places.
Exchange(i) == [list EXCEPT ![i] = list[i + 1], ![i + 1] = list[i]]

\* Seeded fault: the node itself is compared with the end, not its successor.
MoreBehind == ptr1 # lptr

\* ptr1->next != lptr
More == ptr1 + 1 # lptr

\* One comparison of the inner loop.
Compare ==
  /\ phase = "pass"
  /\ More
  /\ IF OutOfOrder(ptr1) THEN list' = Exchange(ptr1) /\ swapped' = TRUE
     ELSE UNCHANGED <<list, swapped>>
  /\ ptr1' = ptr1 + 1
  /\ UNCHANGED <<length, given, lptr, phase>>

\* Seeded fault: a pass is repeated with the flag and the end it had.
NextPassAsBefore ==
  /\ phase = "pass"
  /\ ~More
  /\ swapped
  /\ ptr1' = 1
  /\ UNCHANGED <<length, given, list, lptr, swapped, phase>>

\* The end of a pass that exchanged something.
NextPass ==
  /\ phase = "pass"
  /\ ~More
  /\ swapped
  /\ lptr' = ptr1
  /\ ptr1' = 1
  /\ swapped' = FALSE
  /\ UNCHANGED <<length, given, list, phase>>

\* The end of a pass that did not.
Stop ==
  /\ phase = "pass"
  /\ ~More
  /\ ~swapped
  /\ lptr' = ptr1
  /\ phase' = "done"
  /\ UNCHANGED <<length, given, list, ptr1, swapped>>

SortStep == Compare \/ NextPass \/ Stop

SortNext ==
  \/ \E n \in 0 .. MaxNodes : \E numbers \in [1 .. n -> Numbers] : SortCall(n, numbers)
  \/ SortStep

SortSpec == SortInit /\ [][SortNext]_sortVars

-----------------------------------------------------------------------------
\* The inner loop never reads past the last node: a pass that began with lptr at
\* the head would miss it and walk off the list (server_response.c:172).
OnTheList == phase = "pass" => ptr1 < lptr /\ (More => ptr1 + 1 \in Nodes)

\* No subject is lost, doubled or put under another's number by the exchanges.
EachOnce ==
  /\ \A i \in Nodes : list[i].type = given[list[i].packet]
  /\ \A i, j \in Nodes : list[i].packet = list[j].packet => i = j

\* Sorted by number; subjects of one number keep the order of the reply.
Sorted ==
  phase = "done" =>
    \A i, j \in Nodes : i < j =>
      \/ list[i].type < list[j].type
      \/ list[i].type = list[j].type /\ list[i].packet < list[j].packet
=============================================================================
