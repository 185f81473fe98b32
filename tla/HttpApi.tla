------------------------------ MODULE HttpApi ------------------------------
(***************************************************************************)
(* The HTTP layer: the correlation middleware, the dependencies, the       *)
(* routes and probes, the exception handlers, and the two context          *)
(* variables (correlation id and current span) that concurrent requests    *)
(* must not see of one another.                                            *)
(*                                                                         *)
(* What the pipeline decides inside process() is any of the outcomes of    *)
(* QueryOrchestrator; here it matters where it awaits, which spans are     *)
(* open then, and what leaves it as an exception.                          *)
(*                                                                         *)
(* Starlette runs the routed application in a child task with a copy of    *)
(* the middleware's context: what a handler binds, the middleware does not *)
(* see.  EngineError and validation errors are answered in the child; the  *)
(* handler of Exception runs outside of the middleware.                    *)
(***************************************************************************)
EXTENDS Integers, Sequences, FiniteSets, SequencesExt

CONSTANTS
    Requests,       \* requests in flight
    Calls,          \* what a client may send
    ClientIds,      \* correlation ids that clients send, cleaned; Unbound is "-"
    MaxRepair,      \* max_repair_attempts
    MetricsEnabled

Unbound == 0        \* the context variable's default, "-"
Absent  == -1       \* no header, no field; or an answer without an id
Garbage == -2       \* an id with no allowed character
NoSpan  == 0

FirstMinted == 100  \* minted ids differ from every id a client sends

Endpoints == {"live", "ready", "metrics", "schema", "refresh", "validate",
              "query", "preview"}

Call == [endpoint: Endpoints, identity: {"none", "user", "admin"}, valid: BOOLEAN,
         header: ClientIds \cup {Absent, Garbage}, body: ClientIds \cup {Absent, Garbage}]

ASSUME HttpAssumption ==
    /\ ClientIds \subseteq 0..(FirstMinted - 1)
    /\ Calls \subseteq Call
    /\ MaxRepair \in Nat
    /\ MetricsEnabled \in BOOLEAN

VARIABLES
    call,       \* what each request asked
    phase,      \* where each request is
    outer,      \* correlation id in the middleware's context
    inner,      \* correlation id in the child task's context
    open,       \* spans a request has entered, innermost last
    records,    \* ids under which a request's log lines and spans were written
    answer,     \* the response on the wire
    attempts,   \* repairs so far
    minted,     \* ids minted by the process
    spanCount   \* Tracer._counter

vars == <<call, phase, outer, inner, open, records, answer, attempts, minted,
          spanCount>>

NoCall == [endpoint |-> "none", identity |-> "none", valid |-> FALSE,
           header |-> Absent, body |-> Absent]
NoAnswer == [status |-> 0, body |-> Absent, header |-> Absent]

-----------------------------------------------------------------------------
(* common/errors.py *)

HttpStatus(code) ==
    CASE code = "authorization_denied" -> 403
      [] code = "clarification_required" -> 409
      [] code \in {"invalid_request", "sql_validation_failed",
                   "query_cost_rejected", "repair_exhausted"} -> 422
      [] code \in {"provider_error", "provider_output_invalid"} -> 502
      [] code = "provider_timeout" -> 504
      [] code \in {"execution_failed", "engine_error"} -> 500

RejectionCodes == {"authorization_denied", "sql_validation_failed",
                   "query_cost_rejected", "repair_exhausted"}

ProviderCodes == {"provider_error", "provider_timeout", "provider_output_invalid"}

-----------------------------------------------------------------------------
(* common/ids.py: an id is kept as cleaned, or minted when nothing is left. *)

Sanitize(raw) == IF raw \in {Absent, Garbage} THEN FirstMinted + minted ELSE raw

Mints(raw) == IF raw \in {Absent, Garbage} THEN 1 ELSE 0

-----------------------------------------------------------------------------
(* The context variables and the tracer. *)

(* Faulty: a module-level variable instead of a context variable. *)
BindEverywhere(r, id) == [q \in Requests |-> id]

Bind(r, id) == [inner EXCEPT ![r] = id]

(* Faulty: the tracer's current span is shared by all tasks. *)
ParentShared(r) ==
    LET entered == UNION {ToSet(open[q]) : q \in Requests}
    IN  IF entered = {} THEN NoSpan ELSE Max({s.id : s \in entered})

(* start_span takes the context's current span for the parent. *)
Parent(r) == IF open[r] = <<>> THEN NoSpan ELSE Last(open[r]).id

(* The n-th span that a step starts. *)
NewSpan(n, parent, id) ==
    [id |-> spanCount + n, parent |-> parent, cid |-> id]

-----------------------------------------------------------------------------
(* Answers.  Leaving process(), by return or exception, ends all its spans. *)

Send(r, status, bodyId, headerId) ==
    /\ answer' = [answer EXCEPT ![r] =
          [status |-> status, body |-> bodyId, header |-> headerId]]
    /\ phase' = [phase EXCEPT ![r] = "done"]
    /\ open' = [open EXCEPT ![r] = <<>>]

Recorded(r, id) == [records EXCEPT ![r] = @ \cup {id}]

(* Through the middleware, which sets the header from its own variable. *)
Respond(r, status, bodyId) == Send(r, status, bodyId, outer[r])

(* EngineError or RequestValidationError: logged and answered in the child. *)
Fail(r, code) ==
    /\ Respond(r, HttpStatus(code), inner[r])
    /\ records' = Recorded(r, inner[r])

(* Faulty: no handler for Exception, the connection just ends. *)
UnhandledDropped(r) ==
    /\ phase' = [phase EXCEPT ![r] = "done"]
    /\ open' = [open EXCEPT ![r] = <<>>]
    /\ UNCHANGED <<answer, records>>

(* Any other exception: answered beyond the middleware, so without header. *)
Unhandled(r) ==
    /\ Send(r, HttpStatus("engine_error"), outer[r], Absent)
    /\ records' = Recorded(r, outer[r])

-----------------------------------------------------------------------------
Init ==
    /\ call = [r \in Requests |-> NoCall]
    /\ phase = [r \in Requests |-> "idle"]
    /\ outer = [r \in Requests |-> Unbound]
    /\ inner = [r \in Requests |-> Unbound]
    /\ open = [r \in Requests |-> <<>>]
    /\ records = [r \in Requests |-> {}]
    /\ answer = [r \in Requests |-> NoAnswer]
    /\ attempts = [r \in Requests |-> 0]
    /\ minted = 0
    /\ spanCount = 0

(* _correlation_middleware up to call_next, which copies the context. *)
Arrive(r, c) ==
    /\ phase[r] = "idle"
    /\ call' = [call EXCEPT ![r] = c]
    /\ outer' = [outer EXCEPT ![r] = Sanitize(c.header)]
    /\ inner' = Bind(r, Sanitize(c.header))
    /\ minted' = minted + Mints(c.header)
    /\ phase' = [phase EXCEPT ![r] = "routed"]
    /\ UNCHANGED <<open, records, answer, attempts, spanCount>>

(* get_auth_context and require_admin, before the body's fields count. *)
Denied(r) ==
    \/ call[r].endpoint \notin {"live", "ready", "metrics"} /\ call[r].identity = "none"
    \/ call[r].endpoint = "refresh" /\ call[r].identity # "admin"

RejectCall(r) ==
    /\ phase[r] = "routed"
    /\ \/ Denied(r) /\ Fail(r, "authorization_denied")
       \/ ~Denied(r) /\ ~call[r].valid /\ Fail(r, "invalid_request")
    /\ UNCHANGED <<call, outer, inner, attempts, minted, spanCount>>

Admitted(r, endpoint) ==
    phase[r] = "routed" /\ ~Denied(r) /\ call[r].valid /\ call[r].endpoint = endpoint

(* live, metrics, and ready, which reports an outage as 503 and may log it, *)
(* or the introspection it had to do.                                       *)
AnswerProbe(r) ==
    /\ \/ Admitted(r, "live") /\ Respond(r, 200, Absent) /\ UNCHANGED records
       \/ /\ Admitted(r, "metrics")
          /\ Respond(r, IF MetricsEnabled THEN 200 ELSE 404, Absent)
          /\ UNCHANGED records
       \/ /\ Admitted(r, "ready")
          /\ \E dbOk, schemaOk \in BOOLEAN :
                Respond(r, IF dbOk /\ schemaOk THEN 200 ELSE 503, Absent)
          /\ \/ UNCHANGED records
             \/ records' = Recorded(r, inner[r])
    /\ UNCHANGED <<call, outer, inner, attempts, minted, spanCount>>

(* get_schema or refresh: a hit, or an introspection, logged or raising. *)
AnswerSchema(r) ==
    /\ Admitted(r, "schema") \/ Admitted(r, "refresh")
    /\ \/ /\ Respond(r, 200, Absent)
          /\ \/ call[r].endpoint = "schema" /\ UNCHANGED records
             \/ records' = Recorded(r, inner[r])
       \/ Unhandled(r)
    /\ UNCHANGED <<call, outer, inner, attempts, minted, spanCount>>

(* validate_sql binds an id of its own; the gate's span is all it traces. *)
AnswerValidate(r) ==
    /\ Admitted(r, "validate")
    /\ LET id == Sanitize(Absent)
       IN  /\ inner' = Bind(r, id)
           /\ \/ /\ Respond(r, 200, Absent)
                 /\ records' = Recorded(r, id)
                 /\ spanCount' = spanCount + 1
              \/ Unhandled(r) /\ UNCHANGED spanCount
    /\ minted' = minted + 1
    /\ UNCHANGED <<call, outer, attempts>>

-----------------------------------------------------------------------------
(* QueryOrchestrator.process *)

(* Faulty: the id that the middleware bound is not looked at. *)
RequestedIdFromBody(r) == call[r].body

(* A body id is preferred; else the bound one, unless it reads "-". *)
RequestedId(r) ==
    IF call[r].body = Absent /\ inner[r] # Unbound THEN inner[r] ELSE call[r].body

BeginProcess(r) ==
    /\ Admitted(r, "query") \/ Admitted(r, "preview")
    /\ LET id == Sanitize(RequestedId(r))
       IN  /\ inner' = Bind(r, id)
           /\ open' = [open EXCEPT ![r] = <<NewSpan(1, Parent(r), id)>>]
           /\ records' = Recorded(r, id)
    /\ minted' = minted + Mints(RequestedId(r))
    /\ spanCount' = spanCount + 1
    /\ phase' = [phase EXCEPT ![r] = "process"]
    /\ UNCHANGED <<call, outer, answer, attempts>>

(* A foreign tenant, an ambiguous question, or a catalog that raises. *)
StopEarly(r) ==
    /\ phase[r] = "process"
    /\ \/ Fail(r, "authorization_denied")
       \/ /\ Respond(r, HttpStatus("clarification_required"), inner[r])
          /\ UNCHANGED records
       \/ Unhandled(r)
    /\ UNCHANGED <<call, outer, inner, attempts, minted, spanCount>>

(* The retrieval span starts and ends; the first generation span starts. *)
StartGeneration(r) ==
    /\ phase[r] = "process"
    /\ open' = [open EXCEPT ![r] = Append(@, NewSpan(2, Parent(r), inner[r]))]
    /\ spanCount' = spanCount + 2
    /\ phase' = [phase EXCEPT ![r] = "generating"]
    /\ UNCHANGED <<call, outer, inner, records, answer, attempts, minted>>

(* generate() raises inside of its span. *)
GenerationFails(r) ==
    /\ phase[r] = "generating"
    /\ (\E code \in ProviderCodes : Fail(r, code)) \/ Unhandled(r)
    /\ UNCHANGED <<call, outer, inner, attempts, minted, spanCount>>

RejectCandidate(r) ==
    /\ phase[r] = "generating"
    /\ \E code \in RejectionCodes : Fail(r, code)
    /\ spanCount' = spanCount + 1
    /\ UNCHANGED <<call, outer, inner, attempts, minted>>

(* Faulty: one round too many. *)
RepairsLeftInclusive(r) == attempts[r] <= MaxRepair

RepairsLeft(r) == attempts[r] < MaxRepair

(* The next generation span takes the place of the one that ended. *)
Repair(r) ==
    /\ phase[r] = "generating"
    /\ RepairsLeft(r)
    /\ attempts' = [attempts EXCEPT ![r] = @ + 1]
    /\ open' = [open EXCEPT ![r] =
          Append(Front(@), NewSpan(2, Last(@).parent, inner[r]))]
    /\ records' = Recorded(r, inner[r])
    /\ spanCount' = spanCount + 2
    /\ UNCHANGED <<call, phase, outer, inner, answer, minted>>

AnswerPreview(r) ==
    /\ phase[r] = "generating"
    /\ Respond(r, 200, inner[r])
    /\ spanCount' = spanCount + 1
    /\ UNCHANGED <<call, outer, inner, records, attempts, minted>>

(* A query, unless dry_run or sql_only, goes on to the worker thread. *)
StartExecution(r) ==
    /\ phase[r] = "generating"
    /\ call[r].endpoint = "query"
    /\ open' = [open EXCEPT ![r] =
          Append(Front(@), NewSpan(2, Last(@).parent, inner[r]))]
    /\ spanCount' = spanCount + 2
    /\ phase' = [phase EXCEPT ![r] = "executing"]
    /\ UNCHANGED <<call, outer, inner, records, answer, attempts, minted>>

FinishExecution(r) ==
    /\ phase[r] = "executing"
    /\ \/ Respond(r, 200, inner[r]) /\ UNCHANGED records
       \/ Fail(r, "execution_failed")
    /\ UNCHANGED <<call, outer, inner, attempts, minted, spanCount>>

-----------------------------------------------------------------------------
Route(r) ==
    RejectCall(r) \/ AnswerProbe(r) \/ AnswerSchema(r) \/ AnswerValidate(r)

Process(r) ==
    \/ BeginProcess(r) \/ StopEarly(r) \/ StartGeneration(r) \/ GenerationFails(r)
    \/ RejectCandidate(r) \/ Repair(r) \/ AnswerPreview(r) \/ StartExecution(r)
    \/ FinishExecution(r)

Next ==
    \E r \in Requests : \/ \E c \in Calls : Arrive(r, c)
                        \/ Route(r) \/ Process(r)

(* The event loop resumes every task that can go on, and both awaits end:  *)
(* the provider's client has a timeout, the statement one on the server.   *)
Fairness == \A r \in Requests : WF_vars(Route(r)) /\ WF_vars(Process(r))

Spec == Init /\ [][Next]_vars /\ Fairness

-----------------------------------------------------------------------------
(* Properties. *)

Ids == Nat

Spans == [id: Nat, parent: Nat, cid: Ids]

TypeOK ==
    /\ call \in [Requests -> Calls \cup {NoCall}]
    /\ phase \in [Requests -> {"idle", "routed", "process", "generating",
                               "executing", "done"}]
    /\ outer \in [Requests -> Ids]
    /\ inner \in [Requests -> Ids]
    /\ open \in [Requests -> Seq(Spans)]
    /\ records \in [Requests -> SUBSET Ids]
    /\ answer \in [Requests -> [status: Nat, body: Ids \cup {Absent},
                            header: Ids \cup {Absent}]]
    /\ attempts \in [Requests -> 0..MaxRepair]
    /\ minted \in Nat
    /\ spanCount \in Nat

(* Every id that a request's log lines, spans and answer carry. *)
IdsOf(r) == (records[r] \cup {answer[r].body, answer[r].header}) \ {Absent}

(* orchestrator.py:167 "so the response body and response header always    *)
(* agree", for the queries of which that is true: when the caller puts no  *)
(* id in the body and no "-" in the header, one id is in everything the    *)
(* query leaves behind, whichever of the handlers answered it.             *)
QueriesAreTraceable ==
    \A r \in Requests :
        /\ phase[r] = "done"
        /\ call[r].endpoint \in {"query", "preview"}
        /\ call[r].body = Absent
        /\ call[r].header # Unbound
        => IdsOf(r) = {outer[r]}

(* An id bound for one request reaches no log line, span or answer of      *)
(* another, though their tasks interleave at every await: two requests     *)
(* share an id only if both clients sent it.                               *)
IdsStayApart ==
    \A r, q \in Requests : r # q =>
        IdsOf(r) \cap IdsOf(q) \subseteq
            {call[r].header, call[r].body} \cap {call[q].header, call[q].body}

(* The spans a request has open are nested in one another, whatever other  *)
(* requests trace in between: each one's parent is the request's next      *)
(* outer span, and all carry the request's id.                             *)
SpansNest ==
    \A r \in Requests : \A i \in DOMAIN open[r] :
        /\ open[r][i].parent = IF i = 1 THEN NoSpan ELSE open[r][i - 1].id
        /\ open[r][i].cid = inner[r]

(* Every call gets an answer, also when a handler raises what is not an    *)
(* EngineError.                                                            *)
EveryCallAnswered ==
    \A r \in Requests : phase[r] # "idle" ~> answer[r] # NoAnswer
=============================================================================
