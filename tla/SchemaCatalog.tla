---------------------------- MODULE SchemaCatalog ----------------------------
(***************************************************************************)
(* The schema catalog: SchemaCatalog.get_schema and refresh over the       *)
(* single-slot SchemaCache and the SchemaIntrospector, while migrations    *)
(* change the database from outside.                                       *)
(*                                                                         *)
(* get_schema and refresh never await, so no two of them overlap; but the  *)
(* introspector asks the database table by table, and a migration can land *)
(* between two of its questions.  A table's definition is the number of    *)
(* migrations that touched it, and a schema's version hash is the schema   *)
(* itself: the hash is taken to be injective.  Enrichment adds constants   *)
(* of the deployment and is left out.  Time is counted in ticks.           *)
(***************************************************************************)
EXTENDS Naturals

CONSTANTS
    Tables,
    TTL,            \* schema_cache_ttl_seconds, 0 for no expiry
    MaxRevision,    \* bound: migrations of one table
    MaxScanTicks,   \* bound: ticks that pass during one introspection
    MaxOutages,     \* bound: introspections that fail
    Horizon,        \* bound: no property tells ages beyond this apart
    NoEntry, NoScan, NoSchema

Schema == [Tables -> Nat]

ASSUME CatalogAssumption ==
    /\ TTL \in Nat
    /\ MaxRevision \in Nat
    /\ MaxScanTicks \in Nat
    /\ MaxOutages \in Nat
    /\ Horizon \in Nat /\ Horizon > TTL + MaxScanTicks
    /\ NoSchema \notin Schema
    /\ NoEntry \notin [schema: Schema, age: Nat]
    /\ NoScan \notin [refreshing: BOOLEAN, rest: SUBSET Tables, seen: Schema,
                      since: Schema, previous: Schema \cup {NoSchema}, ticks: Nat]

VARIABLES
    db,         \* the definitions in the database
    unchanged,  \* ticks since each table's last migration
    cache,      \* SchemaCache._entry
    scan,       \* the introspection in progress
    served,     \* the schema get_schema returned last
    floor,      \* the database as it was when the last finished refresh began
    drift,      \* schema_drift_total
    changes,    \* times a newly stored schema differed from the one before
    outages

vars == <<db, unchanged, cache, scan, served, floor, drift, changes, outages>>

Older(age) == IF age < Horizon THEN age + 1 ELSE age

Init ==
    /\ db = [t \in Tables |-> 0]
    /\ unchanged = [t \in Tables |-> Horizon]
    /\ cache = NoEntry
    /\ scan = NoScan
    /\ served = NoSchema
    /\ floor = db
    /\ drift = 0
    /\ changes = 0
    /\ outages = 0

-----------------------------------------------------------------------------
(* SchemaCache *)

Expired(entry) == TTL > 0 /\ entry.age > TTL

(* Faulty: the age is never looked at. *)
AfterGetIgnoringAge == cache

(* get() drops an expired entry before it answers None. *)
AfterGet == IF cache # NoEntry /\ Expired(cache) THEN NoEntry ELSE cache

AfterInvalidate == NoEntry

(* Faulty: the entry is returned where its schema's version is meant. *)
VersionOfEntry(entry) == entry

VersionOf(entry) == IF entry = NoEntry THEN NoSchema ELSE entry.schema

-----------------------------------------------------------------------------
(* The world outside *)

Migrate(t) ==
    /\ db[t] < MaxRevision
    /\ db' = [db EXCEPT ![t] = @ + 1]
    /\ unchanged' = [unchanged EXCEPT ![t] = 0]
    /\ UNCHANGED <<cache, scan, served, floor, drift, changes, outages>>

(* One tick; the bound on an introspection's length is MaxScanTicks. *)
Tick ==
    /\ scan # NoScan => scan.ticks < MaxScanTicks
    /\ unchanged' = [t \in Tables |-> Older(unchanged[t])]
    /\ cache' = IF cache = NoEntry THEN cache ELSE [cache EXCEPT !.age = Older(@)]
    /\ scan' = IF scan = NoScan THEN scan ELSE [scan EXCEPT !.ticks = @ + 1]
    /\ UNCHANGED <<db, served, floor, drift, changes, outages>>

-----------------------------------------------------------------------------
(* SchemaCatalog *)

ServeHit ==
    /\ scan = NoScan
    /\ AfterGet # NoEntry
    /\ served' = AfterGet.schema
    /\ UNCHANGED <<db, unchanged, cache, scan, floor, drift, changes, outages>>

(* previous_version is read from the slot as get() or invalidate() left it. *)
BeginScan(refreshing, entry) ==
    /\ scan = NoScan
    /\ cache' = entry
    /\ scan' = [refreshing |-> refreshing, rest |-> Tables,
                seen |-> [t \in Tables |-> 0], since |-> db,
                previous |-> VersionOf(entry), ticks |-> 0]
    /\ UNCHANGED <<db, unchanged, served, floor, drift, changes, outages>>

BeginGet == AfterGet = NoEntry /\ BeginScan(FALSE, AfterGet)

(* Faulty: refresh is get_schema() without force_refresh or invalidate(). *)
BeginRefreshThroughCache ==
    /\ scan = NoScan
    /\ \/ BeginScan(TRUE, AfterGet) /\ AfterGet = NoEntry
       \/ /\ AfterGet # NoEntry
          /\ served' = AfterGet.schema
          /\ floor' = db
          /\ UNCHANGED <<db, unchanged, cache, scan, drift, changes, outages>>

BeginRefresh == BeginScan(TRUE, AfterInvalidate)

ReflectTable(t) ==
    /\ scan # NoScan
    /\ t \in scan.rest
    /\ scan' = [scan EXCEPT !.rest = @ \ {t}, !.seen[t] = db[t]]
    /\ UNCHANGED <<db, unchanged, cache, served, floor, drift, changes, outages>>

FinishScan ==
    /\ scan # NoScan
    /\ scan.rest = {}
    /\ cache' = [schema |-> scan.seen, age |-> 0]
    /\ served' = scan.seen
    /\ floor' = IF scan.refreshing THEN scan.since ELSE floor
    /\ drift' = IF scan.previous \notin {NoSchema, scan.seen} THEN drift + 1 ELSE drift
    /\ changes' = IF served \notin {NoSchema, scan.seen} THEN changes + 1 ELSE changes
    /\ scan' = NoScan
    /\ UNCHANGED <<db, unchanged, outages>>

(* The introspector raises: the slot stays as it was when the scan began. *)
FailScan ==
    /\ scan # NoScan
    /\ outages < MaxOutages
    /\ scan' = NoScan
    /\ outages' = outages + 1
    /\ UNCHANGED <<db, unchanged, cache, served, floor, drift, changes>>

GetSchema == ServeHit \/ BeginGet

Introspect == (\E t \in Tables : ReflectTable(t)) \/ FinishScan

Next ==
    \/ \E t \in Tables : Migrate(t)
    \/ Tick \/ GetSchema \/ BeginRefresh \/ Introspect \/ FailScan

(* Time passes, requests keep coming, and an introspection ends. *)
Fairness == WF_vars(Tick) /\ WF_vars(GetSchema) /\ WF_vars(Introspect)

Spec == Init /\ [][Next]_vars /\ Fairness

-----------------------------------------------------------------------------
(* Properties. *)

Scan == [refreshing: BOOLEAN, rest: SUBSET Tables, seen: Schema, since: Schema,
         previous: Schema \cup {NoSchema}, ticks: 0..MaxScanTicks]

TypeOK ==
    /\ db \in Schema
    /\ unchanged \in [Tables -> Nat]
    /\ cache \in [schema: Schema, age: Nat] \cup {NoEntry}
    /\ scan \in Scan \cup {NoScan}
    /\ served \in Schema \cup {NoSchema}
    /\ floor \in Schema
    /\ drift \in Nat
    /\ changes \in Nat
    /\ outages \in Nat

(* After POST /schema/refresh has answered, nobody is served a definition  *)
(* older than what the database held when that refresh began: not from the *)
(* slot, not from the answer of the refresh itself, and not from an        *)
(* introspection still to be stored.                                       *)
RefreshedIsVisible ==
    \A t \in Tables :
        /\ cache # NoEntry => cache.schema[t] >= floor[t]
        /\ served # NoSchema => served[t] >= floor[t]
        /\ scan # NoScan /\ t \notin scan.rest => scan.seen[t] >= floor[t]

(* The age of an entry counts from when it was stored, not from when the   *)
(* database was read; so a hit can be stale by the TTL and the time of one *)
(* introspection, and by no more.                                          *)
BoundedStaleness ==
    TTL > 0 /\ AfterGet # NoEntry =>
        \A t \in Tables :
            unchanged[t] > TTL + MaxScanTicks => AfterGet.schema[t] = db[t]

(* cache.py:6 "entries expire after ttl_seconds so slow schema drift is    *)
(* eventually picked up automatically": without any refresh, once the      *)
(* migrations stop every schema that is served is the database's.          *)
DriftIsPickedUp == <>[](served = db)

(* cache.py:11 "a refresh that yields a different version is logged as     *)
(* drift": each stored schema that differs from the one before is counted. *)
DriftIsCounted == drift = changes
=============================================================================
