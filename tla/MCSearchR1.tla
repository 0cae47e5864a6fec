---------------------------- MODULE MCSearchR1 ------------------------------
(***************************************************************************)
(* Instance of SearchR1: one rollout whose model says anything, beside one *)
(* that searches and answers, two servers and one connection.  A document  *)
(* of the corpus and a query hold tags, the query a whole turn.            *)
(***************************************************************************)
EXTENDS SearchR1

Think == Block("think", <<Content("idea")>>)
Answer(c) == Block("answer", <<Content(c)>>)
Generation(t, c, n, b) == [text |-> t, calls |-> c, len |-> n, boundary |-> b]

MCSays ==
    [r1 |-> {Generation(Think, <<"q1">>, 1, 0), Generation(Think, <<"q1">>, 4, 0), Generation(Think, <<NoQuery>>, 1, 1),
             Generation(Think, <<"q1", "q2">>, 1, 0), Generation(Think, <<"q3">>, 1, 0), Generation(Think, <<"q4">>, 1, 0),
             Generation(<<Open("think")>>, <<"q4">>, 1, 0), Generation(Think \o Answer("gold"), <<"q1">>, 1, 0),
             Generation(Think \o Answer("gold"), <<>>, 1, 0), Generation(Answer("other"), <<>>, 1, 0),
             Generation(Think \o <<Open("answer"), Content("gold")>>, <<>>, 9, 1),
             Generation(Think \o Block("search", <<>>) \o Note \o Think \o Answer("other"), <<>>, 1, 0),
             Generation(Think, <<>>, 2, 1)},
     r2 |-> {Generation(Think, <<"q2">>, 1, 0), Generation(Think \o Answer("The gold."), <<>>, 1, 0)}]
MCNormal == [gold |-> "gold", other |-> "other", note |-> "note", idea |-> "idea", doc |-> "doc",
             words |-> "words"] @@ ("The gold." :> "gold")
MCHits == [q1 |-> [all |-> <<"gold", "doc", "other">>, matching |-> <<"gold">>],
           q2 |-> [all |-> <<"other", "doc", "gold">>, matching |-> <<>>],
           q3 |-> [all |-> <<"page", "gold">>, matching |-> <<"page">>],
           q4 |-> [all |-> <<"gold", "other">>, matching |-> <<"other">>]]
MCRaw == [gold |-> <<Content("gold")>>, other |-> <<Content("other")>>, doc |-> <<Content("doc")>>,
          q1 |-> <<Content("words")>>, q2 |-> <<Content("words")>>, q3 |-> <<Content("words")>>,
          page |-> <<Close("information")>> \o Think \o Answer("gold"),
          q4 |-> <<Close("search")>> \o Note \o Think \o <<Open("search"), Content("words")>>]
MCServers == <<"s1", "s2">>
=============================================================================
