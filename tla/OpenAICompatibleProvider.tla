---------------------- MODULE OpenAICompatibleProvider ----------------------
(***************************************************************************)
(* OpenAICompatibleProvider.generate under the repair loop that calls it.  *)
(*                                                                         *)
(* One generate posts the prompt to a chat-completions endpoint, retries   *)
(* transient failures with a pause in between, and turns what the endpoint *)
(* said into a SQL candidate or into an error.  The loop calls it again,   *)
(* with feedback, for a candidate that the gate rejected for repair.       *)
(* phase[r] is the await request r is parked at; posting, closing the      *)
(* client and sleeping all are.  The candidate itself, and what the gate   *)
(* thinks of it, are the environment's choice: SqlGate has the details.    *)
(***************************************************************************)
EXTENDS Naturals, FiniteSets

CONSTANTS
    Requests,
    Feedbacks,      \* what sanitized_feedback may say about a candidate
    NoFeedback,     \* GenerationRequest.repair = None
    MaxRetries,     \* settings.llm_max_retries
    MaxRepair       \* settings.max_repair_attempts

ASSUME ProviderAssumption ==
    /\ MaxRetries \in Nat
    /\ MaxRepair \in Nat
    /\ NoFeedback \notin Feedbacks

VARIABLES
    phase,      \* where each request's generate is
    round,      \* the loop variable of _generate_with_repair
    repair,     \* GenerationRequest.repair of the round
    prompted,   \* the repair text the last payload carried
    attempt,    \* the loop variable of _post_with_retries
    heard,      \* what the endpoint did with the last post
    posts,      \* posts sent on behalf of the request, over all rounds
    clients,    \* requests whose AsyncClient is open
    error       \* what generate raised

vars == <<phase, round, repair, prompted, attempt, heard, posts, clients, error>>

-----------------------------------------------------------------------------
(* What can become of a post. "unreachable" stands for every httpx error   *)
(* but a timeout, for 429 and for 5xx; "refused" for the other 4xx.        *)

Transient == {"timeout", "unreachable", "not_json"}

(* A JSON answer is parsed after the retry loop, once. *)
Unusable == {"no_content", "content_not_json", "no_sql"}

Heard == Transient \cup Unusable \cup {"refused", "null_content", "sql"}

(* json.loads(None) is a TypeError, which nothing here catches. *)
ErrorOf(h) ==
    CASE h = "timeout" -> "provider_timeout"
      [] h \in {"unreachable", "refused"} -> "provider_error"
      [] h \in Unusable \cup {"not_json"} -> "provider_output_invalid"
      [] h = "null_content" -> "TypeError"
      [] h = "sql" -> "none"

Init ==
    /\ phase = [r \in Requests |-> "new"]
    /\ round = [r \in Requests |-> 0]
    /\ repair = [r \in Requests |-> NoFeedback]
    /\ prompted = [r \in Requests |-> NoFeedback]
    /\ attempt = [r \in Requests |-> 0]
    /\ heard = [r \in Requests |-> "none"]
    /\ posts = [r \in Requests |-> 0]
    /\ clients = {}
    /\ error = [r \in Requests |-> "none"]

(* The payload holds the prompt that was built before the first round, and *)
(* nothing of request.repair.                                              *)
Payload(r) == NoFeedback

Post(r) ==
    /\ phase' = [phase EXCEPT ![r] = "posting"]
    /\ prompted' = [prompted EXCEPT ![r] = Payload(r)]
    /\ posts' = [posts EXCEPT ![r] = @ + 1]
    /\ clients' = clients \cup {r}

StartLoop(r) ==
    /\ phase[r] = "new"
    /\ Post(r)
    /\ UNCHANGED <<round, repair, attempt, heard, error>>

(* The response, or the exception of client.post, arrives; finally closes  *)
(* the client, which is another await.                                     *)
Respond(r) ==
    /\ phase[r] = "posting"
    /\ phase' = [phase EXCEPT ![r] = "closing"]
    /\ \E h \in Heard : heard' = [heard EXCEPT ![r] = h]
    /\ UNCHANGED <<round, repair, prompted, attempt, posts, clients, error>>

(* Faulty: one retry fewer than range(max_retries + 1) leaves room for. *)
MayRetryShort(r) == heard[r] \in Transient /\ attempt[r] + 1 < MaxRetries

(* Faulty: one retry more. *)
MayRetryLong(r) == heard[r] \in Transient /\ attempt[r] <= MaxRetries

MayRetry(r) == heard[r] \in Transient /\ attempt[r] < MaxRetries

(* Faulty: the client is closed only when the post did not fail. *)
CloseClientUnlessRaised(r) ==
    clients' = IF heard[r] \in {"timeout", "unreachable"} THEN clients ELSE clients \ {r}

CloseClient(r) == clients' = clients \ {r}

BackOff(r) ==
    /\ phase[r] = "closing"
    /\ MayRetry(r)
    /\ CloseClient(r)
    /\ phase' = [phase EXCEPT ![r] = "sleeping"]
    /\ UNCHANGED <<round, repair, prompted, attempt, heard, posts, error>>

(* Faulty: the attempt is not counted. *)
RetryUncounted(r) ==
    /\ phase[r] = "sleeping"
    /\ Post(r)
    /\ UNCHANGED <<round, repair, attempt, heard, error>>

Retry(r) ==
    /\ phase[r] = "sleeping"
    /\ attempt' = [attempt EXCEPT ![r] = @ + 1]
    /\ Post(r)
    /\ UNCHANGED <<round, repair, heard, error>>

(* Faulty: the loop falls through when the retries are spent. *)
RaiseFinalOnly(r) ==
    /\ phase[r] = "closing"
    /\ heard[r] \notin Transient \cup {"sql"}
    /\ CloseClient(r)
    /\ phase' = [phase EXCEPT ![r] = "raised"]
    /\ error' = [error EXCEPT ![r] = ErrorOf(heard[r])]
    /\ UNCHANGED <<round, repair, prompted, attempt, heard, posts>>

Raise(r) ==
    /\ phase[r] = "closing"
    /\ heard[r] # "sql"
    /\ ~MayRetry(r)
    /\ CloseClient(r)
    /\ phase' = [phase EXCEPT ![r] = "raised"]
    /\ error' = [error EXCEPT ![r] = ErrorOf(heard[r])]
    /\ UNCHANGED <<round, repair, prompted, attempt, heard, posts>>

Return(r) ==
    /\ phase[r] = "closing"
    /\ heard[r] = "sql"
    /\ CloseClient(r)
    /\ phase' = [phase EXCEPT ![r] = "returned"]
    /\ UNCHANGED <<round, repair, prompted, attempt, heard, posts, error>>

(* The gate's verdict: another round with feedback, or the loop's end. *)
Regenerate(r) ==
    /\ phase[r] = "returned"
    /\ round[r] < MaxRepair
    /\ round' = [round EXCEPT ![r] = @ + 1]
    /\ \E f \in Feedbacks : repair' = [repair EXCEPT ![r] = f]
    /\ attempt' = [attempt EXCEPT ![r] = 0]
    /\ Post(r)
    /\ UNCHANGED <<heard, error>>

EndLoop(r) ==
    /\ phase[r] = "returned"
    /\ phase' = [phase EXCEPT ![r] = "ended"]
    /\ UNCHANGED <<round, repair, prompted, attempt, heard, posts, clients, error>>

Generate(r) == Respond(r) \/ BackOff(r) \/ Retry(r) \/ Raise(r) \/ Return(r)

Loop(r) == Regenerate(r) \/ EndLoop(r)

AllEnded ==
    /\ \A r \in Requests : phase[r] \in {"raised", "ended"}
    /\ UNCHANGED vars

Next == (\E r \in Requests : StartLoop(r) \/ Generate(r) \/ Loop(r)) \/ AllEnded

(* httpx bounds the wait for a response, asyncio wakes every sleeper, and  *)
(* the loop goes on as soon as generate returns.                           *)
Fairness == \A r \in Requests : WF_vars(Generate(r)) /\ WF_vars(Loop(r))

Spec == Init /\ [][Next]_vars /\ Fairness

-----------------------------------------------------------------------------
(* Properties. *)

TypeOK ==
    /\ phase \in [Requests -> {"new", "posting", "closing", "sleeping",
                               "returned", "raised", "ended"}]
    /\ round \in [Requests -> 0..MaxRepair]
    /\ repair \in [Requests -> Feedbacks \cup {NoFeedback}]
    /\ prompted \in [Requests -> Feedbacks \cup {NoFeedback}]
    /\ attempt \in [Requests -> 0..MaxRetries]
    /\ heard \in [Requests -> Heard \cup {"none"}]
    /\ posts \in [Requests -> Nat]
    /\ clients \subseteq Requests
    /\ error \in [Requests -> {"none", "provider_timeout", "provider_error",
                               "provider_output_invalid", "TypeError"}]

(* The two nested loops multiply: a round sends at most MaxRetries + 1     *)
(* posts, so a request never costs more than their product, and it has     *)
(* sent at least one post for every round and every retry.                 *)
PostsAreBounded ==
    \A r \in Requests : phase[r] # "new" =>
        /\ posts[r] <= round[r] * (MaxRetries + 1) + attempt[r] + 1
        /\ posts[r] >= round[r] + attempt[r] + 1

(* A transient failure is not reported before every retry was spent, and   *)
(* what is raised is about the last post, not an earlier one.              *)
NoEarlySurrender ==
    \A r \in Requests : phase[r] = "raised" =>
        /\ heard[r] \in Transient => attempt[r] = MaxRetries
        /\ error[r] = ErrorOf(heard[r])

(* No client stays open across a pause, into the next round or after the   *)
(* call: not when the post raised, and not when the answer was unusable.   *)
ClientsAreClosed ==
    clients = {r \in Requests : phase[r] \in {"posting", "closing"}}

(* However often the endpoint fails, a request that asked it gets its end. *)
EveryLoopEnds ==
    \A r \in Requests : phase[r] # "new" ~> phase[r] \in {"raised", "ended"}

(* text_to_sql.md:160 "feed sanitized errors back to the model and try     *)
(* again": the post of a repair round carries that round's feedback.       *)
RepairIsInformed ==
    \A r \in Requests : phase[r] = "posting" => prompted[r] = repair[r]

(* text_to_sql.md:127 "typed error mapping": whatever the endpoint sends,  *)
(* generate raises one of the provider errors.                             *)
ErrorsAreTyped == \A r \in Requests : error[r] # "TypeError"
=============================================================================
