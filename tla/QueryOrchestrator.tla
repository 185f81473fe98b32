-------------------------- MODULE QueryOrchestrator --------------------------
(***************************************************************************)
(* QueryOrchestrator.process for concurrent requests on one event loop.    *)
(*                                                                         *)
(* The loop switches between requests only where process awaits: on        *)
(* provider.generate and on the worker thread that runs the statement.     *)
(* Every action below is one uninterrupted stretch between two awaits, and *)
(* pc[r] names the await at which request r is parked.  What comes back    *)
(* from an await (any candidate, a provider error, rows, a database error) *)
(* is chosen by the environment.  The schema a request works with is the   *)
(* snapshot the catalog handed it before its first await.                  *)
(***************************************************************************)
EXTENDS SqlGate, FiniteSetsExt

CONSTANTS
    Requests,       \* request slots; each slot carries one request
    Submissions,    \* the requests that may arrive, with caller and endpoint
    Candidates,     \* the SQL a provider may answer with
    Snapshots,      \* the schemas the catalog may hand out
    MaxRows,        \* settings.max_rows
    MaxRepair,      \* settings.max_repair_attempts
    MaxAvailable,   \* bound on the rows a statement would return without LIMIT
    NoTenant,       \* QueryRequest.tenant_id = None
    NoSubmission,   \* the slot is unused
    NoSchema        \* no schema captured

Dialects == {"postgres", "sqlite"}

(* max_rows = 0 stands for None: the field is declared ge=1. *)
Submission ==
    [caller: Callers, tenant: Tenants \cup {NoTenant}, execute: BOOLEAN,
     dry_run: BOOLEAN, sql_only: BOOLEAN, max_rows: Nat,
     dialect: Dialects, ambiguous: BOOLEAN]

ASSUME OrchestratorAssumption ==
    /\ Submissions \subseteq Submission
    /\ Candidates \subseteq Candidate
    /\ Snapshots \subseteq Snapshot
    /\ MaxRows \in Nat \ {0}
    /\ MaxRepair \in Nat
    /\ MaxAvailable \in Nat
    /\ NoSubmission \notin Submission
    /\ NoSchema \notin Snapshot

(* However many requests a server is sent, they are finitely many. *)
ASSUME RequestsAreFinite == IsFiniteSet(Requests)

VARIABLES
    pc,         \* the await each request is parked at
    req,        \* the submission in the slot
    snap,       \* the schema captured before generation
    attempt,    \* the loop variable of _generate_with_repair
    attempts,   \* repairs counted, reported as repair_attempts
    secured,    \* last_secured
    handed,     \* statements handed to ReadOnlyExecutor.execute
    result,     \* the ExecutionResult, with what the database had
    reply,      \* the status or error_code that answers the request
    metrics     \* the process-wide MetricsRegistry

vars == <<pc, req, snap, attempt, attempts, secured, handed, result, reply, metrics>>

-----------------------------------------------------------------------------
NotSecured == [ok |-> FALSE, issues |-> {}, stmt |-> NoStatement]

NoResult == [available |-> 0, rows |-> 0, truncated |-> FALSE]

Rejections == {"authorization_denied", "query_cost_rejected",
               "sql_validation_failed", "repair_exhausted"}

Replies == Rejections \cup
    {"none", "tenant_mismatch", "clarification_required", "internal_error",
     "provider_error", "preview", "success", "execution_error"}

(* request.max_rows or M, but never more than M *)
EffectiveRows(q) ==
    IF q.max_rows = 0 \/ q.max_rows > MaxRows THEN MaxRows ELSE q.max_rows

(* Faulty: sql_only is forgotten. *)
DoExecuteIgnoringSqlOnly(q) == q.execute /\ ~q.dry_run

DoExecute(q) == q.execute /\ ~q.dry_run /\ ~q.sql_only

TenantMismatch(q) == q.tenant # NoTenant /\ q.tenant # TenantOf[q.caller]

(* EXPLAIN is asked on PostgreSQL only. *)
EstimatesFor(q) == IF q.dialect = "postgres" THEN Estimates ELSE {"none"}

(* _secure_candidate on candidate c, for request r *)
Gate(r, c, estimate) ==
    SecureCandidate(c, snap[r], req[r].caller, EffectiveRows(req[r]), estimate)

Counted(m, counter) == [m EXCEPT ![counter] = @ + 1]

(* ReadOnlyExecutor.execute: the statement's own LIMIT applies in the      *)
(* database, fetchmany(max_rows + 1) after it.                             *)
Least(a, b) == IF a <= b THEN a ELSE b

Fetched(available, limit, maxRows) == Least(Least(available, limit), maxRows + 1)

Execute(available, limit, maxRows) ==
    LET fetched == Fetched(available, limit, maxRows)
    IN  [available |-> available,
         rows      |-> IF fetched > maxRows THEN maxRows ELSE fetched,
         truncated |-> fetched > maxRows]

-----------------------------------------------------------------------------
Init ==
    /\ pc = [r \in Requests |-> "idle"]
    /\ req = [r \in Requests |-> NoSubmission]
    /\ snap = [r \in Requests |-> NoSchema]
    /\ attempt = [r \in Requests |-> 0]
    /\ attempts = [r \in Requests |-> 0]
    /\ secured = [r \in Requests |-> NotSecured]
    /\ handed = [r \in Requests |-> 0]
    /\ result = [r \in Requests |-> NoResult]
    /\ reply = [r \in Requests |-> "none"]
    /\ metrics = [requests |-> 0, clarifications |-> 0, repair_attempts |-> 0,
                  success |-> 0, rejected |-> 0]

Answer(r, answer) ==
    /\ pc' = [pc EXCEPT ![r] = "done"]
    /\ reply' = [reply EXCEPT ![r] = answer]

Receive(r, q) ==
    /\ pc[r] = "idle"
    /\ req' = [req EXCEPT ![r] = q]

(* Faulty: the request is counted before the tenant is compared. *)
RejectTenantCounted(r) ==
    /\ \E q \in Submissions : TenantMismatch(q) /\ Receive(r, q)
    /\ Answer(r, "tenant_mismatch")
    /\ metrics' = Counted(metrics, "requests")
    /\ UNCHANGED <<snap, attempt, attempts, secured, handed, result>>

(* A body tenant_id that is not the caller's is refused before the request *)
(* is counted.                                                             *)
RejectTenant(r) ==
    /\ \E q \in Submissions : TenantMismatch(q) /\ Receive(r, q)
    /\ Answer(r, "tenant_mismatch")
    /\ UNCHANGED <<snap, attempt, attempts, secured, handed, result, metrics>>

AskClarification(r) ==
    /\ \E q \in Submissions :
          ~TenantMismatch(q) /\ q.ambiguous /\ Receive(r, q)
    /\ Answer(r, "clarification_required")
    /\ metrics' = Counted(Counted(metrics, "requests"), "clarifications")
    /\ UNCHANGED <<snap, attempt, attempts, secured, handed, result>>

(* catalog.get_schema introspects and the database does not answer. *)
SchemaFails(r) ==
    /\ \E q \in Submissions :
          ~TenantMismatch(q) /\ ~q.ambiguous /\ Receive(r, q)
    /\ Answer(r, "internal_error")
    /\ metrics' = Counted(metrics, "requests")
    /\ UNCHANGED <<snap, attempt, attempts, secured, handed, result>>

(* Schema captured, retrieval and prompt done: await provider.generate. *)
StartGeneration(r) ==
    /\ \E q \in Submissions :
          ~TenantMismatch(q) /\ ~q.ambiguous /\ Receive(r, q)
    /\ \E s \in Snapshots : snap' = [snap EXCEPT ![r] = s]
    /\ pc' = [pc EXCEPT ![r] = "generating"]
    /\ metrics' = Counted(metrics, "requests")
    /\ UNCHANGED <<attempt, attempts, secured, handed, result, reply>>

(* generate raises: a ProviderError, or anything the adapter let through. *)
ProviderFails(r) ==
    /\ pc[r] = "generating"
    /\ Answer(r, "provider_error")
    /\ UNCHANGED <<req, snap, attempt, attempts, secured, handed, result, metrics>>

(* Faulty: one more round than range(max_repair + 1) gives. *)
MayRepairOnceMore(r, issues) ==
    attempt[r] <= MaxRepair /\ IsRepairable(issues)

MayRepair(r, issues) == attempt[r] < MaxRepair /\ IsRepairable(issues)

(* Faulty: the round is repeated without using up an attempt. *)
RegenerateForever(r) ==
    /\ pc[r] = "generating"
    /\ \E c \in Candidates :
          LET out == Gate(r, c, "none")
          IN  /\ MayRepair(r, out.issues)
              /\ secured' = [secured EXCEPT ![r] = out]
    /\ UNCHANGED <<pc, req, snap, attempt, attempts, handed, result, reply, metrics>>

(* Faulty: the repair is reported to the caller but not to the registry. *)
RegenerateUncounted(r) ==
    /\ pc[r] = "generating"
    /\ \E c \in Candidates :
          LET out == Gate(r, c, "none")
          IN  /\ MayRepair(r, out.issues)
              /\ secured' = [secured EXCEPT ![r] = out]
    /\ attempt' = [attempt EXCEPT ![r] = @ + 1]
    /\ attempts' = [attempts EXCEPT ![r] = @ + 1]
    /\ UNCHANGED <<pc, req, snap, handed, result, reply, metrics>>

(* The candidate is rejected and worth another generation. *)
Regenerate(r) ==
    /\ pc[r] = "generating"
    /\ attempt' = [attempt EXCEPT ![r] = @ + 1]
    /\ attempts' = [attempts EXCEPT ![r] = @ + 1]
    /\ metrics' = Counted(metrics, "repair_attempts")
    /\ UNCHANGED <<pc, req, snap, handed, result, reply>>
    /\ \E c \in Candidates, estimate \in EstimatesFor(req[r]) :
          LET out == Gate(r, c, estimate)
          IN  /\ ~out.ok
              /\ MayRepair(r, out.issues)
              /\ secured' = [secured EXCEPT ![r] = out]

(* The candidate is rejected for good: _raise_for_failure. *)
Reject(r) ==
    /\ pc[r] = "generating"
    /\ metrics' = Counted(metrics, "rejected")
    /\ UNCHANGED <<req, snap, attempt, attempts, handed, result>>
    /\ \E c \in Candidates, estimate \in EstimatesFor(req[r]) :
          LET out == Gate(r, c, estimate)
          IN  /\ ~out.ok
              /\ ~MayRepair(r, out.issues)
              /\ secured' = [secured EXCEPT ![r] = out]
              /\ Answer(r, FailureOf(out.issues))

AnswerPreview(r) ==
    /\ pc[r] = "generating"
    /\ ~DoExecute(req[r])
    /\ Answer(r, "preview")
    /\ metrics' = Counted(metrics, "success")
    /\ UNCHANGED <<req, snap, attempt, attempts, handed, result>>
    /\ \E c \in Candidates, estimate \in EstimatesFor(req[r]) :
          LET out == Gate(r, c, estimate)
          IN  out.ok /\ secured' = [secured EXCEPT ![r] = out]

(* The statement goes to a worker thread: await asyncio.to_thread. *)
StartExecution(r) ==
    /\ pc[r] = "generating"
    /\ DoExecute(req[r])
    /\ pc' = [pc EXCEPT ![r] = "executing"]
    /\ handed' = [handed EXCEPT ![r] = @ + 1]
    /\ UNCHANGED <<req, snap, attempt, attempts, result, reply, metrics>>
    /\ \E c \in Candidates, estimate \in EstimatesFor(req[r]) :
          LET out == Gate(r, c, estimate)
          IN  out.ok /\ secured' = [secured EXCEPT ![r] = out]

ExecutionSucceeds(r) ==
    /\ pc[r] = "executing"
    /\ \E available \in 0..MaxAvailable :
          result' = [result EXCEPT ![r] =
              Execute(available, secured[r].stmt.limit, EffectiveRows(req[r]))]
    /\ Answer(r, "success")
    /\ metrics' = Counted(metrics, "success")
    /\ UNCHANGED <<req, snap, attempt, attempts, secured, handed>>

(* SQLAlchemyError becomes ExecutionError; nothing counts it. *)
ExecutionFails(r) ==
    /\ pc[r] = "executing"
    /\ Answer(r, "execution_error")
    /\ UNCHANGED <<req, snap, attempt, attempts, secured, handed, result, metrics>>

ProviderAnswers(r) ==
    ProviderFails(r) \/ Regenerate(r) \/ Reject(r) \/ AnswerPreview(r) \/ StartExecution(r)

ExecutorAnswers(r) == ExecutionSucceeds(r) \/ ExecutionFails(r)

Arrive(r) ==
    RejectTenant(r) \/ AskClarification(r) \/ SchemaFails(r) \/ StartGeneration(r)

(* Every slot is used up: the server idles. *)
AllAnswered ==
    /\ \A r \in Requests : pc[r] = "done"
    /\ UNCHANGED vars

Next ==
    \/ \E r \in Requests : Arrive(r) \/ ProviderAnswers(r) \/ ExecutorAnswers(r)
    \/ AllAnswered

(* Requests need not arrive.  The adapter bounds each wait and each number *)
(* of retries, so generate returns or raises; the worker thread runs the   *)
(* statement to an end.                                                    *)
Fairness ==
    \A r \in Requests :
        WF_vars(ProviderAnswers(r)) /\ WF_vars(ExecutorAnswers(r))

SafetySpec == Init /\ [][Next]_vars

Spec == SafetySpec /\ Fairness

-----------------------------------------------------------------------------
(* Properties. *)

TypeOK ==
    /\ pc \in [Requests -> {"idle", "generating", "executing", "done"}]
    /\ req \in [Requests -> Submissions \cup {NoSubmission}]
    /\ snap \in [Requests -> Snapshots \cup {NoSchema}]
    /\ attempt \in [Requests -> 0..MaxRepair]
    /\ attempts \in [Requests -> 0..MaxRepair]
    /\ secured \in [Requests -> Secured]
    /\ handed \in [Requests -> Nat]
    /\ result \in [Requests -> [available: Nat, rows: Nat, truncated: BOOLEAN]]
    /\ reply \in [Requests -> Replies]
    /\ metrics \in [requests: Nat, clarifications: Nat, repair_attempts: Nat,
                    success: Nat, rejected: Nat]

(* A caller wants rows who posts to /query and sets neither flag. *)
WantsRows(q) == q.execute /\ TRUE \notin {q.dry_run, q.sql_only}

(* Whatever the provider answered over the rounds of repair, and whatever  *)
(* other requests did meanwhile, a statement that is shown or run is the   *)
(* one the whole gate cleared against the snapshot the request captured,   *)
(* for its own caller and row cap; it is handed to the executor once, and  *)
(* never for a preview, a dry run or an SQL-only request.  What clearing   *)
(* is worth, SafeStatement says: of the columns read, it vouches for those *)
(* that are read plainly.                                                  *)
OnlySafeStatements ==
    \A r \in Requests :
        /\ pc[r] = "executing" \/ reply[r] \in {"preview", "success", "execution_error"} =>
              SafeStatement(secured[r].stmt, snap[r], req[r].caller,
                            EffectiveRows(req[r]))
        /\ handed[r] # 0 =>
              /\ handed[r] = 1
              /\ WantsRows(req[r])
              /\ pc[r] = "executing" \/ reply[r] \in {"success", "execution_error"}

(* repair.py and _raise_for_failure list the issue codes independently.    *)
(* repair_exhausted is told only when every allowed repair was spent and   *)
(* the last findings were repairable; a finding on the never-repair list   *)
(* ends the request in the round that found it, under another error.       *)
RejectionsAreHonest ==
    \A r \in Requests :
        /\ reply[r] = "repair_exhausted" =>
              attempts[r] = MaxRepair /\ IsRepairable(secured[r].issues)
        /\ secured[r].issues \cap NonRepairableCodes # {} =>
              reply[r] \in Rejections \ {"repair_exhausted"}
        /\ reply[r] = "authorization_denied" =>
              secured[r].issues \subseteq PolicyCodes

(* The shared registry stays consistent with the requests themselves under *)
(* every interleaving: each counter is the number of requests it is about, *)
(* so a request that failed at an await is in none but the first.          *)
CountersAgree ==
    /\ metrics.requests =
          Cardinality({r \in Requests :
              pc[r] # "idle" /\ reply[r] # "tenant_mismatch"})
    /\ metrics.clarifications =
          Cardinality({r \in Requests : reply[r] = "clarification_required"})
    /\ metrics.success =
          Cardinality({r \in Requests : reply[r] \in {"preview", "success"}})
    /\ metrics.rejected = Cardinality({r \in Requests : reply[r] \in Rejections})

(* t2sql_repair_attempts_total is the sum of the repair_attempts the       *)
(* answers report, and no request regenerates more often than allowed.     *)
RepairsAreCounted ==
    /\ metrics.repair_attempts = MapThenSumSet(LAMBDA r : attempts[r], Requests)
    /\ \A r \in Requests : attempts[r] = attempt[r] /\ attempts[r] <= MaxRepair

(* The answer holds as many of the available rows as the statement's LIMIT *)
(* and the request's cap allow, no fewer and no more.                      *)
RowsAreExact ==
    \A r \in Requests : reply[r] = "success" =>
        /\ result[r].rows <= EffectiveRows(req[r])
        /\ result[r].rows \in {result[r].available, secured[r].stmt.limit}
        /\ result[r].rows <= result[r].available

(* executor.py:11 "a row cap enforced by fetching at most max_rows + 1 and *)
(* reporting truncation": an answer that lacks rows because the engine put *)
(* its own row cap on the statement says that it is truncated.             *)
TruncationReported ==
    \A r \in Requests :
        reply[r] = "success" /\ secured[r].stmt.bounded
            /\ result[r].available > EffectiveRows(req[r]) => result[r].truncated

(* docs/security/sensitive_data.md:30 "auth_secret / highly_restricted are *)
(* never selectable by anyone": no statement that is shown or run reads a  *)
(* column of these classes, under whatever name.                           *)
SecretsAreNeverSelectable ==
    \A r \in Requests :
        pc[r] = "executing" \/ reply[r] = "preview" =>
            \A col \in secured[r].stmt.columns : Classification[col] \notin Secrets

(* Every request whose generation started is answered. *)
EveryRequestAnswered ==
    \A r \in Requests : pc[r] = "generating" ~> pc[r] = "done"

(* The endpoints keep the promise of GuardedQuery: a request that captured *)
(* a schema is open, one more candidate is drawn per repair, and what is   *)
(* said to the caller is refused, failed, preview or rows.                 *)
Started(r) == snap[r] # NoSchema

StageOf(r) ==
    CASE pc[r] = "idle" -> "new"
      [] pc[r] = "generating" -> "open"
      [] pc[r] = "executing" -> "running"
      [] pc[r] = "done" -> "closed"

ToldAs(code) ==
    CASE code \in {"none", "preview"} -> code
      [] code = "success" -> "rows"
      [] code \in {"tenant_mismatch", "clarification_required",
                   "internal_error"} -> "refused"
      [] OTHER -> "failed"

AnswerOf(r) == ToldAs(reply[r])

Promise == INSTANCE GuardedQuery WITH
    Budget <- MaxRepair + 1,
    stage  <- [r \in Requests |-> StageOf(r)],
    draws  <- [r \in Requests |-> IF Started(r) THEN attempt[r] + 1 ELSE 0],
    wanted <- [r \in Requests |-> Started(r) /\ WantsRows(req[r])],
    ran    <- handed,
    answer <- [r \in Requests |-> AnswerOf(r)]

ImplementsGuardedQuery == Promise!Spec
=============================================================================
