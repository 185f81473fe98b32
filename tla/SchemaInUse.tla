---------------------------- MODULE SchemaInUse ----------------------------
(***************************************************************************)
(* The catalog composed with a request that uses its schema: the           *)
(* orchestrator calls get_schema once, judges every candidate of its       *)
(* repair rounds by the answer, and runs the cleared statement against the *)
(* database as it is by then.  In between it awaits the provider, and      *)
(* migrations, expiry and refreshes go on.                                 *)
(***************************************************************************)
EXTENDS SchemaCatalog

CONSTANT MaxRequestTicks    \* bound: ticks between get_schema and execute

ASSUME UseAssumption ==
    /\ MaxRequestTicks \in Nat
    /\ Horizon > TTL + MaxScanTicks + MaxRequestTicks

VARIABLES
    held,       \* the local schema of process(), while the request runs
    elapsed     \* ticks since it was taken

serviceVars == <<vars, held, elapsed>>

ServiceInit == Init /\ held = NoSchema /\ elapsed = 0

Waiting == UNCHANGED <<held, elapsed>>

(* Faulty: the schema is kept for the next request. *)
ReleasedNever == held

Released == NoSchema

(* get_schema answers the request, out of the slot or after introspecting. *)
Capture ==
    /\ held = NoSchema
    /\ ServeHit \/ (FinishScan /\ ~scan.refreshing)
    /\ held' = served'
    /\ elapsed' = 0

(* The others that ask for the schema: routes, readiness, a refresh.       *)
ServeOthers == (GetSchema \/ BeginRefresh \/ Introspect \/ FailScan) /\ Waiting

Outside == (\E t \in Tables : Migrate(t)) /\ Waiting

Pass ==
    /\ held # NoSchema => elapsed < MaxRequestTicks
    /\ Tick
    /\ elapsed' = IF held = NoSchema THEN 0 ELSE elapsed + 1
    /\ UNCHANGED held

(* The cleared statement goes to the executor, or the request gives up.    *)
Execute ==
    /\ held # NoSchema
    /\ held' = Released
    /\ elapsed' = 0
    /\ UNCHANGED vars

ServiceNext == Capture \/ ServeOthers \/ Outside \/ Pass \/ Execute

(* Time passes, requests keep coming, and introspections and requests end. *)
ServiceFairness ==
    /\ WF_serviceVars(Pass)
    /\ WF_serviceVars(GetSchema /\ Waiting)
    /\ WF_serviceVars(Introspect /\ Waiting)
    /\ WF_serviceVars(Execute)

ServiceSpec == ServiceInit /\ [][ServiceNext]_serviceVars /\ ServiceFairness

-----------------------------------------------------------------------------
(* Properties *)

(* What a statement may meet when it runs: the definitions that its        *)
(* validation relied on are those of the database, but for tables migrated *)
(* less than the TTL, one introspection and the request's own time ago.    *)
(* Not even a refresh that has finished shortens this for a request that   *)
(* took its schema before.                                                 *)
StaleUseIsBounded ==
    TTL > 0 /\ held # NoSchema =>
        \A t \in Tables :
            unchanged[t] > TTL + MaxScanTicks + elapsed => held[t] = db[t]
=============================================================================
