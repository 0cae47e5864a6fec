------------------------------ MODULE SearchR1 ------------------------------
(***************************************************************************)
(* Rollouts of the Search-R1 recipe (axis_recipe/search_r1): SearchEnv     *)
(* steps of several rollouts of one actor, the SearchClient they share,    *)
(* and the reward.                                                         *)
(*                                                                         *)
(* An environment is in one of these places of step:                       *)
(*   "model"   the agent generates                                         *)
(*   "search"  search_client.generate is awaited                           *)
(*   "append"  the tool message is tokenized                               *)
(*   "score"   metric and verifier are awaited                             *)
(*   "done"                                                                *)
(* and its search request, while it is in "search", in one of              *)
(*   "pool" (waits for a connection), "posted", "sleep".                   *)
(* A generation is [text, calls, len, boundary]: calls holds the query of  *)
(* every tool call, NoQuery where the arguments are invalid; boundary is 1 *)
(* where the output lacks the token that ends an assistant message.        *)
(* Queries and documents are inserted into the text as they are: Raw is    *)
(* what they say, and may hold any tags.                                   *)
(*                                                                         *)
(* Abstracted: latencies and metrics.  The assertion that a tool message   *)
(* does not begin with the last generated token is a fact about the        *)
(* tokenizer.                                                              *)
(***************************************************************************)
EXTENDS QaEmFormat

CONSTANTS
    Rollouts,
    Says,           \* what the model may generate in each rollout
    Prompt,         \* length of the prompt
    MessageLens,    \* lengths of a tool message
    SearchLimit, MaxLength, AnswerReserve,
    Servers,        \* base_urls, as a sequence
    TopK, MaxRetries, MaxConnections,
    NoQuery,
    Raw             \* the text of every query and document

ASSUME SearchAssumption ==
    /\ SearchLimit \in Nat /\ MaxRetries \in Nat
    /\ MaxConnections \in Nat \ {0} /\ Len(Servers) > 0
    /\ {Prompt, MaxLength, AnswerReserve} \cup MessageLens \subseteq Nat
    /\ Prompt < MaxLength - AnswerReserve

\* A call asks for something the servers know, or its arguments are invalid.
ASSUME GenerationAssumption ==
    \A r \in Rollouts : \A o \in Says[r] :
        /\ o.text \in Seq(Pieces) /\ o.len \in Nat /\ o.boundary \in {0, 1}
        /\ o.calls \in Seq(DOMAIN Hits \cup {NoQuery})

\* The corpus has at least as many documents as a search gives.
ASSUME CorpusAssumption ==
    /\ TopK \in Nat
    /\ \A q \in DOMAIN Hits :
          /\ {Hits[q].all, Hits[q].matching} \subseteq Seq(DOMAIN Raw)
          /\ Len(Hits[q].all) >= TopK
    /\ DOMAIN Hits \subseteq DOMAIN Raw
    /\ \A name \in DOMAIN Raw : Raw[name] \in Seq(Pieces)
    /\ "note" \in DOMAIN Normal

VARIABLES
    at,         \* where the step of each environment is
    tokens,     \* length of the trace
    outputs,
    text,       \* search_r1_verifier_input
    queries,    \* search_queries
    result,     \* the tool message to append, as text
    searches,   \* [valid, failed]: num_valid_searches, search_transport_failure_count
    score,
    request,    \* [stage, attempt, query, server] of the search in progress
    cycle,      \* how often _url_cycle was advanced, modulo the number of servers
    client,     \* "none" or "open"
    method      \* of the retrieval servers

env == <<at, tokens, outputs, text, queries, result, searches, score>>
vars == <<env, request, cycle, client, method>>

NoRequest == [stage |-> "none", attempt |-> 0, query |-> NoQuery, server |-> 0]

Init ==
    /\ at = [r \in Rollouts |-> "model"]
    /\ tokens = [r \in Rollouts |-> Prompt]
    /\ outputs = [r \in Rollouts |-> <<>>]
    /\ text = [r \in Rollouts |-> <<>>]
    /\ queries = [r \in Rollouts |-> <<>>]
    /\ result = [r \in Rollouts |-> <<>>]
    /\ searches = [r \in Rollouts |-> [valid |-> 0, failed |-> 0]]
    /\ score = [r \in Rollouts |-> 0]
    /\ request = [r \in Rollouts |-> NoRequest]
    /\ cycle = 0
    /\ client = "none"
    /\ method \in {"bm25", "dense"}

---------------------------------------------------------------------------
(* SearchClient. *)

Connections == Cardinality({r \in Rollouts : request[r].stage = "posted"})

\* One round of the loop of retrieve_with_metadata: the next server of the shared
\* cycle, the shared client (created by _get_client if there is none), and the
\* request goes to the connection pool.
StartAttempt(r, query, attempt) ==
    /\ request' = [request EXCEPT ![r] = [stage |-> "pool", attempt |-> attempt, query |-> query,
                                           server |-> cycle + 1]]
    /\ cycle' = (cycle + 1) % Len(Servers)
    /\ client' = "open"

GetConnection(r) ==
    /\ request[r].stage = "pool" /\ Connections < MaxConnections
    /\ request' = [request EXCEPT ![r].stage = "posted"]
    /\ UNCHANGED <<env, cycle, client, method>>

Joined(first, texts) == FoldLeft(LAMBDA acc, t : acc \o t, first, texts)
Information(body) == Block("information", body)
Documents(list) == Joined(<<>>, [i \in DOMAIN list |-> Raw[list[i]]])

\* The notes of the environment.  The one about a search and an answer in one turn
\* says <answer> itself (get_search_answer_coexistence_message).
Note == Information(<<Content("note")>>)
CoexistenceNote == Information(<<Content("note"), Open("answer"), Content("note")>>)

\* A server answers: search() of the environment makes the tool message.
Answered(r) ==
    /\ request[r].stage = "posted"
    /\ result' = [result EXCEPT ![r] =
                    Information(Documents(RetrieveEndpoint(method, request[r].query, TopK)))]
    /\ at' = [at EXCEPT ![r] = "append"]
    /\ queries' = [queries EXCEPT ![r] = Append(@, request[r].query)]
    /\ request' = [request EXCEPT ![r] = NoRequest]
    /\ UNCHANGED <<tokens, outputs, text, searches, score, cycle, client, method>>

\* Slip: max_retries is taken for the number of attempts.
MaxAttemptsShort == MaxRetries
MaxAttempts == MaxRetries + 1

\* Slip: the loop goes on with the same attempt.
AttemptFailsUncounted(r) ==
    /\ request[r].stage \in {"pool", "posted"}
    /\ request' = [request EXCEPT ![r].stage = "sleep"]
    /\ UNCHANGED <<env, cycle, client, method>>

\* The attempt fails: no connection in time, no answer in time, a broken
\* connection, an error status or an answer parse_data rejects.  Another one
\* follows after a pause; the last one is a result of its own.
AttemptFails(r) ==
    /\ request[r].stage \in {"pool", "posted"}
    /\ IF request[r].attempt + 1 < MaxAttempts
         THEN /\ request' = [request EXCEPT ![r] = [stage |-> "sleep", attempt |-> @.attempt + 1,
                                                      query |-> @.query, server |-> @.server]]
              /\ UNCHANGED env
         ELSE /\ request' = [request EXCEPT ![r] = NoRequest]
              /\ searches' = [searches EXCEPT ![r].failed = @ + 1]
              /\ result' = [result EXCEPT ![r] = Note]
              /\ queries' = [queries EXCEPT ![r] = Append(@, request[r].query)]
              /\ at' = [at EXCEPT ![r] = "append"]
              /\ UNCHANGED <<tokens, outputs, text, score>>
    /\ UNCHANGED <<cycle, client, method>>

Retry(r) ==
    /\ request[r].stage = "sleep"
    /\ StartAttempt(r, request[r].query, request[r].attempt)
    /\ UNCHANGED <<env, method>>

\* shutdown, once the actor has no rollout left.
Shutdown ==
    /\ client = "open" /\ \A r \in Rollouts : at[r] = "done"
    /\ client' = "none"
    /\ UNCHANGED <<env, request, cycle, method>>

---------------------------------------------------------------------------
(* SearchEnv. *)

\* What the transcript shows of one call.
SearchTag(q) == Block("search", IF q = NoQuery THEN <<>> ELSE Raw[q])

\* Slip: only the first call is shown to the verifier.
CompatibleOutputFirst(o) == IF o.calls = <<>> THEN o.text ELSE o.text \o SearchTag(o.calls[1])

\* _get_search_r1_compatible_output: the tool calls of the turn, as search tags.
CompatibleOutput(o) == Joined(o.text, [i \in DOMAIN o.calls |-> SearchTag(o.calls[i])])

HasAnswerTag(o) == Open("answer") \in ToSet(o.text) /\ Close("answer") \in ToSet(o.text)
ReachedAnswerBudgetLimit(n) == n >= MaxLength - AnswerReserve

\* The turn is the last one, and is not answered.
Ends(r, o, n) == o.calls = <<>> \/ Len(queries[r]) > SearchLimit \/ ReachedAnswerBudgetLimit(n)

\* The tool message of a turn that is not sent to the search service.
Declined(r, o) ==
    \/ HasAnswerTag(o) \/ Len(o.calls) > 1 \/ o.calls[1] = NoQuery
    \/ Len(queries[r]) >= SearchLimit

\* step up to the first await: the turn is recorded; it ends the rollout, or is
\* answered with a message, or searches.
Steps(r, o, n, said) ==
    /\ outputs' = [outputs EXCEPT ![r] = Append(@, o)]
    /\ tokens' = [tokens EXCEPT ![r] = n]
    /\ text' = [text EXCEPT ![r] = @ \o said]
    /\ CASE Ends(r, o, n) ->
              /\ at' = [at EXCEPT ![r] = "score"]
              /\ UNCHANGED <<queries, result, searches, request, cycle, client>>
         [] ~Ends(r, o, n) /\ Declined(r, o) ->
              /\ at' = [at EXCEPT ![r] = "append"]
              /\ result' = [result EXCEPT ![r] = IF HasAnswerTag(o) THEN CoexistenceNote ELSE Note]
              /\ queries' = [queries EXCEPT ![r] = Append(@, o.calls[1])]
              /\ UNCHANGED <<searches, request, cycle, client>>
         [] OTHER ->
              /\ at' = [at EXCEPT ![r] = "search"]
              /\ searches' = [searches EXCEPT ![r].valid = @ + 1]
              /\ StartAttempt(r, o.calls[1], 0)
              /\ UNCHANGED <<queries, result>>

\* RolloutAgent.act and the turn it gives: at most max_total_tokens, and the
\* boundary token if the output has none and it fits.
Turn(r) ==
    /\ at[r] = "model"
    /\ \E o \in Says[r] :
         /\ tokens[r] + o.len <= MaxLength
         /\ \E n \in {tokens[r] + o.len}, said \in {CompatibleOutput(o)} :
               Steps(r, o, IF n < MaxLength THEN n + o.boundary ELSE n, said)
    /\ UNCHANGED <<score, method>>

\* Slip: the reserve is compared with the trace as it is.
AppendResultUnmeasured(r) ==
    /\ at[r] = "append"
    /\ \E n \in MessageLens :
         IF ReachedAnswerBudgetLimit(tokens[r])
           THEN /\ at' = [at EXCEPT ![r] = "score"]
                /\ UNCHANGED <<tokens, text>>
           ELSE /\ at' = [at EXCEPT ![r] = "model"]
                /\ tokens' = [tokens EXCEPT ![r] = @ + n]
                /\ text' = [text EXCEPT ![r] = @ \o result[r]]
    /\ result' = [result EXCEPT ![r] = <<>>]
    /\ UNCHANGED <<outputs, queries, searches, score, request, cycle, client, method>>

\* update_with_search_result: a message that leaves no room for an answer is
\* dropped and ends the rollout.
AppendResult(r) ==
    /\ at[r] = "append"
    /\ \E n \in MessageLens :
         IF ReachedAnswerBudgetLimit(tokens[r] + n)
           THEN /\ at' = [at EXCEPT ![r] = "score"]
                /\ UNCHANGED <<tokens, text>>
           ELSE /\ at' = [at EXCEPT ![r] = "model"]
                /\ tokens' = [tokens EXCEPT ![r] = @ + n]
                /\ text' = [text EXCEPT ![r] = @ \o result[r]]
    /\ result' = [result EXCEPT ![r] = <<>>]
    /\ UNCHANGED <<outputs, queries, searches, score, request, cycle, client, method>>

\* _finish: calculate_merged_metric.
Finish(r) ==
    /\ at[r] = "score"
    /\ \E s \in {ComputeScoreEm(text[r])} : score' = [score EXCEPT ![r] = s]
    /\ at' = [at EXCEPT ![r] = "done"]
    /\ UNCHANGED <<tokens, outputs, text, queries, result, searches, request, cycle, client, method>>

Next ==
    \/ \E r \in Rollouts :
         \/ Turn(r) \/ AppendResult(r) \/ Finish(r)
         \/ GetConnection(r) \/ Answered(r) \/ AttemptFails(r) \/ Retry(r)
    \/ Shutdown

\* Every await ends: the engine generates, processors answer, requests end by
\* their timeout at the latest, pauses end.
Fairness ==
    \A r \in Rollouts :
        /\ WF_vars(Turn(r)) /\ WF_vars(AppendResult(r)) /\ WF_vars(Finish(r))
        /\ WF_vars(AttemptFails(r)) /\ WF_vars(Retry(r))

Spec == Init /\ [][Next]_vars /\ Fairness

---------------------------------------------------------------------------
(* Properties. *)

\* A rollout searches at most SearchLimit times and takes at most two turns more
\* than that, whatever it calls; its trace fits; and after its first turn the
\* model is only asked to go on while more than the reserve is free for an answer.
BudgetKept ==
    \A r \in Rollouts :
        /\ searches[r].valid <= SearchLimit
        /\ Len(outputs[r]) <= SearchLimit + 2
        /\ tokens[r] <= MaxLength
        /\ at[r] = "model" => MaxLength - tokens[r] > AnswerReserve

\* Every turn is well-formed by itself: all but the last think and make one call, the
\* last thinks and answers.
WellFormed(said) ==
    /\ \A i \in 1..(Len(said) - 1) : EndState(said[i].text) = "after_think" /\ Len(said[i].calls) = 1
    /\ EndState(Last(said).text) = "end" /\ Last(said).calls = <<>>

\* What a search inserts, its query and its documents, holds no tag.
TagFree(body) == \A i \in DOMAIN body : body[i].tag = "none"
InsertsNoTag(q) ==
    q # NoQuery => TagFree(Raw[q]) /\ TagFree(Documents(Search(method, q, TopK)))

\* The verifier judges the turns of the model (is_valid_sequence on the transcript that
\* update_with_output and update_with_search_result make).  It accepts a text only if
\* every turn is well-formed by itself: nothing that is inserted between the turns,
\* whatever tags a query or a document brings, and no message that is dropped, mends
\* one.  And where turns are well-formed only a tag in a query or a document breaks the
\* format: the notes of the environment never do, though one of them holds a tag.
FormatFaithful ==
    \A r \in Rollouts : at[r] = "done" =>
        IF IsValidSequence(text[r]) THEN WellFormed(outputs[r])
        ELSE WellFormed(outputs[r]) =>
               \E i \in 1..(Len(outputs[r]) - 1) : ~InsertsNoTag(outputs[r][i].calls[1])

\* A search gives the best documents for its own query, from whichever server and
\* after however many attempts, or after MaxRetries + 1 failed attempts a note; as
\* long as one attempt is left the rollout is told nothing.
SearchAnswered ==
    [][\A r \in Rollouts : at[r] = "search" /\ at'[r] # "search" =>
          \/ /\ searches'[r].failed = searches[r].failed
             /\ result'[r] = Information(Documents(Search(method, request[r].query, TopK)))
          \/ /\ searches'[r].failed = searches[r].failed + 1
             /\ result'[r] = Note /\ request[r].attempt = MaxRetries]_vars

\* Every rollout ends, also when no search ever succeeds.
RolloutsEnd == \A r \in Rollouts : <>(at[r] = "done")
=============================================================================
