----------------------------- MODULE QaEmFormat -----------------------------
(***************************************************************************)
(* The Search-R1 reward (axis_recipe/search_r1/qa_em_format.py) and the    *)
(* retrieval it is about (retrieval_server.py).                            *)
(*                                                                         *)
(* A text is what re.split leaves of it: a sequence of tags and of pieces  *)
(* of content between them; white space is left out.                       *)
(***************************************************************************)
EXTENDS Integers, Sequences, FiniteSets, FiniteSetsExt, SequencesExt

CONSTANTS
    Normal,         \* normalize_answer, as a function on the pieces of content
    Golden,         \* the golden answers
    FormatScore, RetrievalScore, Score,
    Hits            \* for every query the documents of the corpus, best first

TagNames == {"think", "search", "information", "answer"}
Open(name) == [tag |-> "open", name |-> name]
Close(name) == [tag |-> "close", name |-> name]
Content(c) == [tag |-> "none", name |-> c]
Pieces ==
    {Open(name) : name \in TagNames} \cup {Close(name) : name \in TagNames} \cup {Content(c) : c \in DOMAIN Normal}
Block(name, body) == <<Open(name)>> \o body \o <<Close(name)>>

---------------------------------------------------------------------------
(* is_valid_sequence. *)

Balanced(text) ==
    \A name \in TagNames :
        Cardinality({i \in DOMAIN text : text[i] = Open(name)})
          = Cardinality({i \in DOMAIN text : text[i] = Close(name)})

States == {"start", "in_think", "after_think", "in_search", "after_search", "in_information", "information",
           "in_answer", "end", "invalid"}
Parts == {Open(name) : name \in TagNames} \cup {Close(name) : name \in TagNames} \cup {Content("any")}
ContentAllowed == {"in_think", "in_search", "in_information", "in_answer"}

\* tag_transitions; "invalid" where the dictionary has no entry, and where content
\* stands between tags.
TagTransitions ==
    [x \in States \X Parts |->
       CASE x \in {"start", "information"} \X {Open("think")} -> "in_think"
         [] x = <<"in_think", Close("think")>> -> "after_think"
         [] x = <<"after_think", Open("search")>> -> "in_search"
         [] x = <<"in_search", Close("search")>> -> "after_search"
         [] x = <<"after_search", Open("information")>> -> "in_information"
         [] x = <<"in_information", Close("information")>> -> "information"
         [] x = <<"after_think", Open("answer")>> -> "in_answer"
         [] x = <<"in_answer", Close("answer")>> -> "end"
         [] x \in ContentAllowed \X {Content("any")} -> x[1]
         [] OTHER -> "invalid"]

Part(p) == IF p.tag = "none" THEN Content("any") ELSE p
EndState(text) ==
    LET state[i \in 0..Len(text)] ==
            IF i = 0 THEN "start" ELSE TagTransitions[<<state[i - 1], Part(text[i])>>]
    IN state[Len(text)]
IsValidSequence(text) == Balanced(text) /\ EndState(text) = "end"

---------------------------------------------------------------------------
(* compute_score_em. *)

\* Where the matches of <name>(.*?)</name> begin, and the body of one.
Starts(text, name) ==
    {i \in DOMAIN text :
        /\ text[i] = Open(name)
        /\ \E j \in i..Len(text) : text[j] = Close(name)
        /\ \A k \in 1..(i - 1) : text[k] = Open(name) => \E j \in k..i : text[j] = Close(name)}
Body(text, name, i) ==
    SubSeq(text, i + 1, Min({j \in i..Len(text) : text[j] = Close(name)}) - 1)

\* extract_solution is the last match; em_check compares it after normalisation.
EmCheck(text) ==
    \E c \in DOMAIN Normal, g \in Golden :
        /\ Normal[c] = Normal[g]
        /\ Body(text, "answer", Max(Starts(text, "answer"))) = <<Content(c)>>

\* extract_information_blocks: some block holds a golden answer.
IsRetrievalCorrect(text) ==
    \E i \in Starts(text, "information") :
        \E p \in ToSet(Body(text, "information", i)) :
            p.tag = "none" /\ \E g \in Golden : Normal[p.name] = Normal[g]

ComputeScoreEm(text) ==
    LET valid == IsValidSequence(text)
        solved == Starts(text, "answer") # {} /\ EmCheck(text)
    IN CASE solved -> IF valid THEN Score ELSE Score - FormatScore
         [] ~solved /\ ~valid -> 0
         [] OTHER -> FormatScore + (IF IsRetrievalCorrect(text) THEN RetrievalScore ELSE 0)

---------------------------------------------------------------------------
(* The retrieval server. *)

\* BM25Retriever._search finds the documents that match, DenseRetriever as many
\* as it is asked for; both give them best first.
Search(method, query, num) ==
    LET matching == IF method = "bm25" THEN Hits[query].matching ELSE Hits[query].all
    IN SubSeq(matching, 1, IF Len(matching) < num THEN Len(matching) ELSE num)

\* DenseRetriever._batch_search: the queries of one batch share a flat list of
\* documents, which is cut every num; BM25Retriever searches one by one.
BatchSearch(method, queries, num) ==
    LET flat == FoldLeft(LAMBDA acc, q : acc \o Search(method, q, num), <<>>, queries)
    IN [i \in DOMAIN queries |->
          IF method = "bm25" THEN Search(method, queries[i], num)
          ELSE SubSeq(flat, (i - 1) * num + 1, i * num)]

\* retrieve_endpoint, and parse_data on its only entry.
RetrieveEndpoint(method, query, topk) == BatchSearch(method, <<query>>, topk)[1]
=============================================================================
