--------------------------- MODULE ConnectionPool ---------------------------
(***************************************************************************)
(* The pool of the read-only engine, its two kinds of users, and the event *)
(* loop: worker threads that run statements (ReadOnlyExecutor.execute      *)
(* under asyncio.to_thread), and code on the loop itself that connects     *)
(* synchronously, so that nothing else runs on the loop until it is done   *)
(* (the cost analyzer's EXPLAIN, the readiness probe).                     *)
(*                                                                         *)
(* PostgreSQL only: on SQLite no plan is asked for and no bound is set on  *)
(* the pool.  What the gate finds before it asks for a plan is any of its  *)
(* outcomes.  Introspection uses the other engine, whose pool only the     *)
(* loop takes from.                                                        *)
(***************************************************************************)
EXTENDS Naturals, FiniteSets

CONSTANTS
    Requests,       \* POST /query and /query/preview
    Probes,         \* GET /health/ready
    PoolSize,       \* db_pool_size + db_max_overflow
    Workers,        \* threads of the loop's default executor
    MaxRepair,      \* max_repair_attempts
    Nobody

Actors == Requests \cup Probes

ASSUME PoolAssumption ==
    /\ IsFiniteSet(Actors)
    /\ Requests \cap Probes = {}
    /\ PoolSize \in Nat \ {0}
    /\ Workers \in Nat \ {0}
    /\ MaxRepair \in Nat
    /\ Nobody \notin Actors

VARIABLES
    phase,      \* where each request or probe is
    loop,       \* who holds the event loop across a synchronous call
    free,       \* connections the pool can still hand out
    rounds      \* repairs of each request so far

vars == <<phase, loop, free, rounds>>

Phases == {"idle", "generating", "blocked", "connected", "submitted",
           "connecting", "running", "returned", "done"}

(* A thread of the executor is taken from StartWorker to the statement's end. *)
Working == {r \in Requests : phase[r] \in {"connecting", "running"}}

(* Who has a connection checked out. *)
Holders == {a \in Actors : phase[a] \in {"connected", "running"}}

LoopIsFree == loop = Nobody

Init ==
    /\ phase = [a \in Actors |-> "idle"]
    /\ loop = Nobody
    /\ free = PoolSize
    /\ rounds = [r \in Requests |-> 0]

Move(a, to) == phase' = [phase EXCEPT ![a] = to]

-----------------------------------------------------------------------------
(* On the event loop *)

(* A request comes in and awaits the provider. *)
Arrive(r) ==
    /\ LoopIsFree
    /\ phase[r] = "idle"
    /\ Move(r, "generating")
    /\ UNCHANGED <<loop, free, rounds>>

(* The provider's candidate fails a stage before the plan is asked for. *)
RejectCandidate(r) ==
    /\ LoopIsFree
    /\ phase[r] = "generating"
    /\ \/ /\ rounds[r] < MaxRepair
          /\ rounds' = [rounds EXCEPT ![r] = @ + 1]
          /\ UNCHANGED phase
       \/ Move(r, "done") /\ UNCHANGED rounds
    /\ UNCHANGED <<loop, free>>

(* engine.connect() on the loop: a connection at once, or a blocked loop. *)
ConnectOnLoop(a) ==
    /\ LoopIsFree
    /\ phase[a] = IF a \in Probes THEN "idle" ELSE "generating"
    /\ loop' = a
    /\ IF free > 0
       THEN Move(a, "connected") /\ free' = free - 1
       ELSE Move(a, "blocked") /\ UNCHANGED free
    /\ UNCHANGED rounds

Unblock(a) ==
    /\ phase[a] = "blocked"
    /\ free > 0
    /\ Move(a, "connected")
    /\ free' = free - 1
    /\ UNCHANGED <<loop, rounds>>

(* A query goes to the executor; a preview, or an estimate that is too     *)
(* high, ends the request.                                                 *)
Accept(r) == Move(r, "submitted") \/ Move(r, "done")

(* Faulty: the connection is kept open for the statement to come. *)
FreedByExplainKept == free

FreedByExplain == free + 1

(* EXPLAIN answers with a plan, or fails and is logged; the connection is  *)
(* returned before the estimate is judged.                                 *)
FinishExplain(r) ==
    /\ phase[r] = "connected"
    /\ loop' = Nobody
    /\ free' = FreedByExplain
    /\ Accept(r)
    /\ UNCHANGED rounds

(* Faulty: a connection that was never handed out is given back. *)
FreedByTimeoutAnyway == free + 1

FreedByTimeout == free

(* pool_timeout passes: explain_failed is logged and no estimate is held   *)
(* against the candidate.                                                  *)
ExplainTimesOut(r) ==
    /\ phase[r] = "blocked"
    /\ free = 0
    /\ loop' = Nobody
    /\ free' = FreedByTimeout
    /\ Accept(r)
    /\ UNCHANGED rounds

(* check_connection: SELECT 1, or any exception, pool_timeout among them. *)
FinishProbe(p) ==
    /\ \/ /\ phase[p] = "connected"
          /\ free' = free + 1
       \/ /\ phase[p] = "blocked"
          /\ free = 0
          /\ UNCHANGED free
    /\ Move(p, "done")
    /\ loop' = Nobody
    /\ UNCHANGED rounds

(* The task resumes after to_thread and builds its answer. *)
Answer(r) ==
    /\ LoopIsFree
    /\ phase[r] = "returned"
    /\ Move(r, "done")
    /\ UNCHANGED <<loop, free, rounds>>

-----------------------------------------------------------------------------
(* In the worker threads *)

StartWorker(r) ==
    /\ phase[r] = "submitted"
    /\ Cardinality(Working) < Workers
    /\ Move(r, "connecting")
    /\ UNCHANGED <<loop, free, rounds>>

Connect(r) ==
    /\ phase[r] = "connecting"
    /\ free > 0
    /\ Move(r, "running")
    /\ free' = free - 1
    /\ UNCHANGED <<loop, rounds>>

(* TimeoutError of the pool is a SQLAlchemyError: execution_failed. *)
ConnectTimesOut(r) ==
    /\ phase[r] = "connecting"
    /\ free = 0
    /\ Move(r, "returned")
    /\ UNCHANGED <<loop, free, rounds>>

(* Faulty: without the with block a failed statement keeps its connection. *)
FreedByLeaky(how) == IF how = "failed" THEN free ELSE free + 1

FreedBy(how) == free + 1

(* Rows, a driver error, or the server's statement timeout; the with block *)
(* gives the connection back on every path.                                *)
EndStatement(r) ==
    /\ phase[r] = "running"
    /\ \E how \in {"answered", "failed"} : free' = FreedBy(how)
    /\ Move(r, "returned")
    /\ UNCHANGED <<loop, rounds>>

-----------------------------------------------------------------------------
TimeOut(a) ==
    \/ a \in Requests /\ (ExplainTimesOut(a) \/ ConnectTimesOut(a))
    \/ a \in Probes /\ phase[a] = "blocked" /\ FinishProbe(a)

(* What an actor does without any timeout of the pool. *)
Proceed(a) ==
    \/ ConnectOnLoop(a) \/ Unblock(a)
    \/ a \in Probes /\ phase[a] = "connected" /\ FinishProbe(a)
    \/ /\ a \in Requests
       /\ \/ RejectCandidate(a) \/ FinishExplain(a) \/ Answer(a)
          \/ StartWorker(a) \/ Connect(a) \/ EndStatement(a)

Next == \/ \E r \in Requests : Arrive(r)
        \/ \E a \in Actors : Proceed(a) \/ TimeOut(a)

(* The provider answers, EXPLAIN and SELECT 1 return, statement_timeout    *)
(* ends every statement, and a free thread or connection goes to a waiter. *)
(* That pool_timeout ever passes is not assumed.                           *)
Fairness == \A a \in Actors : WF_vars(Proceed(a))

Spec == Init /\ [][Next]_vars /\ Fairness

-----------------------------------------------------------------------------
(* Properties. *)

TypeOK ==
    /\ phase \in [Actors -> Phases]
    /\ loop \in Actors \cup {Nobody}
    /\ free \in 0..PoolSize
    /\ rounds \in [Requests -> 0..MaxRepair]

(* Each connection is in the pool or in the hands of exactly one holder,   *)
(* whether its statement, its plan or its probe succeeded or failed.       *)
NoConnectionIsLost == free + Cardinality(Holders) = PoolSize

(* database.py:5 "so the event loop is never blocked" is not so while a    *)
(* plan waits for a connection; but then every connection is with a worker *)
(* that needs neither the loop nor another connection to give it back.     *)
LoopWaitsForWorkersOnly ==
    \A a \in Actors : phase[a] = "blocked" =>
        /\ loop = a
        /\ free = 0 => /\ Holders \subseteq Working
                       /\ Cardinality(Holders) = PoolSize

(* Nothing waits on anything that waits on it: even if no wait for a       *)
(* connection ever times out, the loop comes free again and every          *)
(* statement handed to the executor ends.                                  *)
EverythingEnds ==
    /\ \A a \in Actors : loop = a ~> loop # a
    /\ \A r \in Requests : phase[r] = "submitted" ~> phase[r] = "done"
=============================================================================
