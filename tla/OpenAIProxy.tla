---------------------------- MODULE OpenAIProxy ----------------------------
(***************************************************************************)
(* The rendezvous of the OpenAI proxy (axrl/openai_proxy/server.py): HTTP  *)
(* handlers park chat completions in the registry until the environment    *)
(* of their session answers them.                                          *)
(*                                                                         *)
(* The registry is one asyncio actor whose methods suspend only on the     *)
(* future of a request and on an empty session queue, so each of its       *)
(* methods is one action, or one action up to and one after that wait.     *)
(* A member of Requests is one HTTP request; it also stands for the        *)
(* request_id.                                                             *)
(***************************************************************************)
EXTENDS Integers, FiniteSets, ChatAdapter

CONSTANTS
    Sessions,       \* rollout session ids
    Requests        \* HTTP chat-completion requests

VARIABLES
    queue,          \* _sessions: open session |-> queue of requests
    closed,         \* _closed
    requests,       \* _requests: requests whose future is pending
    http            \* request |-> its HTTP handler

registryVars == <<queue, closed, requests, http>>

\* A handler: unused, sent by a client, waiting in the registry, or answered with
\* the reply of the environment or with an error (nothing tells the status codes
\* apart); by is the launch of the runtime that sent it.
\* The body is held until the answer: the chat request, its messages, and whether
\* the client names a session and shows the bearer token.
Unused == [st |-> "unused"]
Nothing == [none |-> TRUE]
Error == [error |-> TRUE]
Handler(s, by, body) ==
    [st |-> "sent", session |-> s, by |-> by, body |-> body, reply |-> Nothing]
Answered(handler, reply) == [handler EXCEPT !.st = "answered", !.body = Nothing, !.reply = reply]

RegistryInit ==
    /\ queue = [s \in {} |-> <<>>]
    /\ closed = {}
    /\ requests = {}
    /\ http = [q \in Requests |-> Unused]

Open == DOMAIN queue
Of(s) == {q \in Requests : http[q] # Unused /\ http[q].session = s}

\* The future of every request in qs that is still pending is resolved.
Resolved(qs, reply) ==
    /\ requests' = requests \ qs
    /\ http' = [q \in Requests |-> IF q \in qs \cap requests
                  THEN Answered(http[q], reply) ELSE http[q]]

---------------------------------------------------------------------------

\* create_session, of a session that is not open (else ValueError).
CreateSession(s) ==
    /\ s \notin Open
    /\ queue' = [x \in Open \cup {s} |-> IF x = s THEN <<>> ELSE queue[x]]
    /\ closed' = closed \ {s}
    /\ UNCHANGED <<requests, http>>

\* Slip: only the requests that still queue are failed.
CloseSessionQueuedOnly(s) ==
    /\ closed' = closed \cup {s}
    /\ queue' = [x \in Open \ {s} |-> queue[x]]
    /\ Resolved(IF s \in Open THEN ToSet(queue[s]) ELSE {}, Error)

\* close_session: the requests in the queue fail, then those an environment has
\* taken and not answered.
CloseSession(s) ==
    /\ closed' = closed \cup {s}
    /\ queue' = [x \in Open \ {s} |-> queue[x]]
    /\ Resolved(Of(s), Error)

\* The route answers by itself: a request without a session, a wrong token, or a
\* client that disconnects while its body is read.
RejectHttp(q) ==
    /\ http[q].st = "sent"
    /\ http' = [http EXCEPT ![q] = Answered(@, Error)]
    /\ UNCHANGED <<queue, closed, requests>>

\* chat_completions, and submit_chat_completion up to its wait: 404, or park the
\* request.
Submit(q) ==
    /\ http[q].st = "sent"
    /\ http[q].body.scoped /\ http[q].body.authorized
    /\ LET s == http[q].session IN
         IF s \in closed \/ s \notin Open
           THEN /\ http' = [http EXCEPT ![q] = Answered(@, Error)]
                /\ UNCHANGED <<requests, queue>>
           ELSE /\ requests' = requests \cup {q}
                /\ queue' = [queue EXCEPT ![s] = Append(@, q)]
                /\ http' = [http EXCEPT ![q].st = "waiting"]
    /\ UNCHANGED closed

\* submit_chat_completion: request_timeout_seconds pass.  The request stays in
\* its queue, or with the environment that took it.
SubmitTimeout(q) ==
    /\ http[q].st = "waiting"
    /\ Resolved({q}, Error)
    /\ UNCHANGED <<queue, closed>>

\* wait_for_request skips a request that is no longer pending...
SkipStale(s) ==
    /\ s \in Open
    /\ queue[s] # <<>>
    /\ Head(queue[s]) \notin requests
    /\ queue' = [queue EXCEPT ![s] = Tail(@)]
    /\ UNCHANGED <<closed, requests, http>>

\* ... and returns q, the first that is.
WaitForRequest(s, q) ==
    /\ s \in Open
    /\ queue[s] # <<>>
    /\ Head(queue[s]) = q
    /\ q \in requests
    /\ queue' = [queue EXCEPT ![s] = Tail(@)]
    /\ UNCHANGED <<closed, requests, http>>

\* wait_for_request has nothing to return: it waits, and may time out.
NothingToReturn(s) == s \notin Open \/ queue[s] = <<>>

\* respond and fail: a request that is gone is left alone.
Respond(q, reply) ==
    /\ Resolved({q}, reply)
    /\ UNCHANGED <<queue, closed>>

\* Every variable of the registry keeps its type, and a handler waits exactly as
\* long as its request is registered.
RegistryTypeOK ==
    /\ Open \subseteq Sessions /\ closed \subseteq Sessions
    /\ \A s \in Open : ToSet(queue[s]) \subseteq Requests
    /\ \A q \in Requests : \/ http[q] = Unused
                           \/ http[q].st \in {"sent", "waiting", "answered"}
    /\ requests = {q \in Requests : http[q].st = "waiting"}
=============================================================================
