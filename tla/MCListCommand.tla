--------------------------- MODULE MCListCommand ---------------------------
(***************************************************************************)
(* ListCommand on small mailboxes.                                         *)
(***************************************************************************)
EXTENDS ListCommand

Message(n, exact, lines, more) == [n |-> n, exact |-> exact, lines |-> lines, more |-> more]

Plain(n, lines) == Message(n, TRUE, lines, <<>>)

\* Bodies of a Subject field: none, one word, a text in parentheses, with blanks
\* after it, folded, folded and too long for subject[], and one that fills it.
Bodies ==
  {<<>>, <<<<"w">>>>, <<<<"(", "w", ")">>>>, <<<<"w", " ", " ">>>>,
   <<<<"w">>, <<" ", "v", ")">>>>, <<<<"w", "v">>, <<" ", "w", "v", ")">>>>,
   <<<<"w", "v", "w", "v", ")">>>>}

Orders(n) == {o \in [1 .. n -> 1 .. n] : \A i, j \in 1 .. n : o[i] = o[j] => i = j}

Folded == <<<<"w">>, <<" ", "v">>>>

\* Up to four messages, reported in any order; one reported twice, with another
\* subject; and the messages that are not Regular.
SmallMailboxes ==
  {<<>>} \cup {<<Plain(1, b)>> : b \in Bodies}
  \cup {<<Plain(2, b), Plain(1, c)>> : b, c \in Bodies}
  \cup {[i \in 1 .. 3 |-> Plain(o[i], IF o[i] = 2 THEN <<>> ELSE Folded)] : o \in Orders(3)}
  \cup {[i \in 1 .. 4 |-> Plain(o[i], <<<<"w">>>>)] : o \in Orders(4)}
  \cup {<<Plain(2, Folded), Plain(1, <<<<"w">>>>), Plain(1, <<<<"v">>>>)>>}
  \cup {<<m, Plain(1, Folded)>> :
          m \in {Message(2, FALSE, <<<<"w">>>>, <<>>),
                 Message(2, TRUE, <<<<" ", "w">>>>, <<>>),
                 Message(2, TRUE, <<<<"w">>, <<" ", "v", " ">>>>, <<>>),
                 Message(2, TRUE, <<<<"w", " ">>, <<" ", "v">>>>, <<>>),
                 Message(2, TRUE, <<<<"w">>>>, <<" ", "FLAGS">>)}}
=============================================================================
