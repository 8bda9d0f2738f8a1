--------------------------- MODULE MCCommandText ---------------------------
(***************************************************************************)
(* CommandText on the command lines that a few groups of arguments make.   *)
(***************************************************************************)
EXTENDS CommandText

AllChars ==
  Options \cup {"u", "p", "c", "s", "f", "LF", " ", "quote", "backslash", "7", "1000", "1001",
                "4097", "-1", "parse", "list", "retrieve"}

Numbers == [c \in {"7", "1000", "1001", "4097", "-1"} |->
              CASE c = "7" -> 7 [] c = "1000" -> 1000 [] c = "1001" -> 1001
                [] c = "4097" -> 4097 [] OTHER -> -1]

Group(o, w) == [option |-> o, word |-> w]

\* The words of a group.
Arguments(g) == CASE g.option = "-t" -> <<<<"-t">>>> [] g.option = "word" -> <<g.word>>
                  [] OTHER -> <<<<g.option>>, g.word>>

Invocation(groups) ==
  LET words == [k \in DOMAIN groups |-> Arguments(groups[k])]
  IN  [groups |-> groups, argv |-> FlattenSeq(words),
       places |-> [k \in 1 .. Len(groups) + 1 |-> 1 + Len(FlattenSeq(SubSeq(words, 1, k - 1)))]]

Arrangements(n) == {o \in [1 .. n -> 1 .. n] : \A k, l \in 1 .. n : o[k] = o[l] => k = l}

InOrder(groups, o) == [k \in DOMAIN groups |-> groups[o[k]]]

\* A command line with everything, in every order.
Whole(c) == <<Group("-u", <<"u">>), Group("-p", <<"-p">>), Group("-f", <<"f", " ", "f">>),
              Group("-n", <<"7">>), Group("word", c), Group("word", <<"s">>)>>

\* Numbers in range and out of it, one that an int cannot hold, and no numbers.
NumberWords == {<<"7">>, <<"LF", "7">>, <<"1000">>, <<"1001">>, <<"4097">>, <<"-1">>, <<"7", "u">>,
                <<"u">>, <<>>}

FolderWords == {<<"f">>, <<"quote">>, <<"f", "backslash">>, <<"backslash", "quote", "f">>, <<>>, <<"f", "LF">>}
               \cup {[k \in 1 .. n |-> c] : n \in 2 .. 14, c \in {"f", "quote"}}

Names == {<<"u">>, <<"-p">>, <<>>, <<"u", "LF", "p">>} \cup {[k \in 1 .. n |-> "u"] : n \in 3 .. 6}

\* The rest is short: the words that matter, and what is missing or too much.
Base(u, p) == <<Group("-u", u), Group("-p", p)>>
Tail2(c)   == <<Group("word", c), Group("word", <<"s">>)>>

GroupLists ==
  {InOrder(Whole(<<"parse">>), o) : o \in Arrangements(6)}
  \cup {Base(u, p) \o t \o Tail2(<<"list">>) : u \in Names, p \in Names, t \in {<<>>, <<Group("-t", <<>>)>>}}
  \cup {Base(<<"u">>, <<"p">>) \o <<Group("-f", f), Group("-n", n)>> \o Tail2(<<"parse">>) :
          f \in FolderWords, n \in NumberWords}
  \cup {Base(<<"u">>, <<"-p">>) \o Tail2(<<"retrieve">>) \o g :
          g \in {<<>>, <<Group("word", <<"u">>)>>, <<Group("word", <<"-n">>)>>, <<Group("-t", <<>>)>>,
                 <<Group("-u", <<"s">>)>>, <<Group("-f", <<"f">>), Group("-f", <<"u">>)>>,
                 <<Group("-n", <<"7">>), Group("-n", <<"1000">>)>>,
                 <<Group("-n", <<"1001">>), Group("-n", <<"7">>)>>}}
  \cup {Base(<<"u">>, <<"p">>) \o g : g \in {<<>>, <<Group("word", <<"c">>)>>, <<Group("word", <<"c", "LF">>)>>,
                                       <<Group("word", <<"c">>), Group("word", <<"-u">>)>>}}
  \cup {<<g>> \o Tail2(<<"c">>) : g \in {Group("-u", <<"u">>), Group("-p", <<"p">>)}}

AllInvocations == {Invocation(g) : g \in GroupLists}
=============================================================================
