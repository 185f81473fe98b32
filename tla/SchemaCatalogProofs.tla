------------------------ MODULE SchemaCatalogProofs ------------------------
(***************************************************************************)
(* How stale a schema can be, for any tables, TTL and length of an         *)
(* introspection: in the catalog's slot, and in the hands of a request.    *)
(***************************************************************************)
EXTENDS SchemaInUse, TLAPS

-----------------------------------------------------------------------------
(* Type correctness. *)

Entry == [schema: Schema, age: Nat]

LEMMA AgeType ==
    ASSUME NEW age \in Nat
    PROVE  Older(age) \in Nat /\ Older(age) <= age + 1
BY DEF Older

LEMMA AfterGetIsTheSlotOrNothing == AfterGet \in {cache, NoEntry}
BY DEF AfterGet

LEMMA InitTypes == Init => TypeOK
BY CatalogAssumption DEF Init, TypeOK, Schema

LEMMA ScanTypes ==
    ASSUME TypeOK,
           \/ \E refreshing \in BOOLEAN, entry \in Entry \cup {NoEntry} :
                 BeginScan(refreshing, entry)
           \/ \E t \in Tables : ReflectTable(t)
           \/ FinishScan
           \/ FailScan
    PROVE  TypeOK'
<1> USE CatalogAssumption DEF TypeOK, Scan, Entry
<1>1. ASSUME NEW refreshing \in BOOLEAN, NEW entry \in Entry \cup {NoEntry},
             BeginScan(refreshing, entry)
      PROVE  TypeOK'
  <2>1. VersionOf(entry) \in Schema \cup {NoSchema}
    BY DEF VersionOf
  <2>2. [t \in Tables |-> 0] \in Schema
    BY DEF Schema
  <2>3. scan' \in Scan
    BY <1>1, <2>1, <2>2 DEF BeginScan
  <2> QED
    BY <1>1, <2>3 DEF BeginScan
<1>2. ASSUME NEW t \in Tables, ReflectTable(t)
      PROVE  TypeOK'
  <2>1. scan \in Scan
    BY <1>2 DEF ReflectTable
  <2>2. /\ scan.rest \ {t} \in SUBSET Tables
        /\ [scan.seen EXCEPT ![t] = db[t]] \in Schema
    BY <2>1 DEF Schema
  <2>3. scan' \in Scan
    BY <1>2, <2>1, <2>2 DEF ReflectTable
  <2> QED
    BY <1>2, <2>3 DEF ReflectTable
<1>3. CASE FinishScan
  <2>1. scan \in Scan
    BY <1>3 DEF FinishScan
  <2>2. cache' \in Entry /\ served' \in Schema /\ floor' \in Schema
    BY <1>3, <2>1 DEF FinishScan
  <2>3. drift' \in Nat /\ changes' \in Nat
    BY <1>3 DEF FinishScan
  <2> QED
    BY <1>3, <2>2, <2>3 DEF FinishScan
<1>4. CASE FailScan
  BY <1>4 DEF FailScan
<1> QED
  BY <1>1, <1>2, <1>3, <1>4

LEMMA TypesStep == TypeOK /\ [Next]_vars => TypeOK'
<1> SUFFICES ASSUME TypeOK, [Next]_vars PROVE TypeOK'
  OBVIOUS
<1>0. AfterGet \in Entry \cup {NoEntry} /\ AfterInvalidate \in Entry \cup {NoEntry}
  BY AfterGetIsTheSlotOrNothing DEF TypeOK, Entry, AfterInvalidate
<1>1. ASSUME NEW t \in Tables, Migrate(t)
      PROVE  TypeOK'
  BY <1>1 DEF Migrate, TypeOK, Schema
<1>2. CASE Tick
  <2>1. unchanged' \in [Tables -> Nat]
    BY <1>2, AgeType DEF Tick, TypeOK
  <2>2. cache' \in Entry \cup {NoEntry}
    <3>1. cache # NoEntry => Older(cache.age) \in Nat
      BY AgeType DEF TypeOK
    <3> QED
      BY <1>2, <3>1 DEF Tick, TypeOK, Entry
  <2>3. scan' \in Scan \cup {NoScan}
    BY <1>2, CatalogAssumption DEF Tick, TypeOK, Scan
  <2> QED
    BY <1>2, <2>1, <2>2, <2>3 DEF Tick, TypeOK, Entry
<1>3. CASE ServeHit
  BY <1>0, <1>3 DEF ServeHit, TypeOK, Entry
<1>4. CASE BeginGet
  BY <1>0, <1>4, ScanTypes DEF BeginGet
<1>5. CASE BeginRefresh
  BY <1>0, <1>5, ScanTypes DEF BeginRefresh
<1>6. CASE Introspect \/ FailScan
  BY <1>6, ScanTypes DEF Introspect
<1>7. CASE UNCHANGED vars
  BY <1>7 DEF vars, TypeOK
<1> QED
  BY <1>1, <1>2, <1>3, <1>4, <1>5, <1>6, <1>7 DEF Next, GetSchema

(* The catalog's variables keep their types; an introspection takes no     *)
(* longer than the bound.                                                  *)
THEOREM CatalogTypes == Spec => []TypeOK
BY InitTypes, TypesStep, PTL DEF Spec

-----------------------------------------------------------------------------
(* A refresh is visible. *)

(* What is read after a refresh began is no older than what it began with; *)
(* the property alone does not say that the database itself moves forward, *)
(* nor that an introspection under way began after the last refresh did.   *)
ForwardInv ==
    \A t \in Tables :
        /\ db[t] >= floor[t]
        /\ scan # NoScan => /\ db[t] >= scan.since[t]
                            /\ scan.since[t] >= floor[t]
                            /\ t \notin scan.rest => scan.seen[t] >= scan.since[t]

VisibleInv == TypeOK /\ ForwardInv /\ RefreshedIsVisible

LEMMA VisibleInit == Init => VisibleInv
BY InitTypes, CatalogAssumption
   DEF Init, VisibleInv, ForwardInv, RefreshedIsVisible, TypeOK, Schema

LEMMA VisibleStep == VisibleInv /\ [Next]_vars => VisibleInv'
<1> SUFFICES ASSUME VisibleInv, [Next]_vars PROVE ForwardInv' /\ RefreshedIsVisible'
  BY TypesStep DEF VisibleInv
<1> USE CatalogAssumption DEF VisibleInv, ForwardInv, RefreshedIsVisible
<1>0. /\ db \in [Tables -> Nat] /\ floor \in [Tables -> Nat]
      /\ cache # NoEntry => cache.schema \in [Tables -> Nat]
      /\ served # NoSchema => served \in [Tables -> Nat]
      /\ scan # NoScan => /\ scan \in Scan
                          /\ scan.seen \in [Tables -> Nat]
                          /\ scan.since \in [Tables -> Nat]
  BY DEF TypeOK, Schema, Scan
<1>1. ASSUME NEW t \in Tables, Migrate(t)
      PROVE  ForwardInv' /\ RefreshedIsVisible'
  BY <1>0, <1>1 DEF Migrate
<1>2. CASE Tick
  <2>1. /\ cache' # NoEntry => cache # NoEntry /\ cache'.schema = cache.schema
        /\ scan' # NoScan => /\ scan # NoScan
                             /\ scan'.since = scan.since /\ scan'.rest = scan.rest
                             /\ scan'.seen = scan.seen
    BY <1>0, <1>2 DEF Tick, TypeOK, Scan
  <2> QED
    BY <1>2, <2>1 DEF Tick
<1>3. CASE ServeHit
  BY <1>0, <1>3, AfterGetIsTheSlotOrNothing DEF ServeHit
<1>4. ASSUME NEW refreshing, NEW entry \in {AfterGet, AfterInvalidate},
             BeginScan(refreshing, entry)
      PROVE  ForwardInv' /\ RefreshedIsVisible'
  <2>1. cache' \in {cache, NoEntry}
    BY <1>4, AfterGetIsTheSlotOrNothing DEF BeginScan, AfterInvalidate
  <2>2. scan'.since = db /\ scan'.rest = Tables /\ scan'.seen = [t \in Tables |-> 0]
    BY <1>4 DEF BeginScan
  <2> QED
    BY <1>0, <1>4, <2>1, <2>2 DEF BeginScan
<1>5. ASSUME NEW t \in Tables, ReflectTable(t)
      PROVE  ForwardInv' /\ RefreshedIsVisible'
  <2>1. /\ scan # NoScan /\ scan'.since = scan.since /\ scan'.rest = scan.rest \ {t}
        /\ scan'.seen = [scan.seen EXCEPT ![t] = db[t]]
    BY <1>0, <1>5 DEF ReflectTable, Scan
  <2> QED
    BY <1>0, <1>5, <2>1 DEF ReflectTable
<1>6. CASE FinishScan
  <2>1. /\ scan # NoScan /\ scan.rest = {} /\ scan' = NoScan /\ db' = db
        /\ cache'.schema = scan.seen /\ served' = scan.seen
        /\ floor' \in {floor, scan.since}
    BY <1>6 DEF FinishScan
  <2>2. \A t \in Tables : scan.seen[t] >= floor'[t] /\ db[t] >= floor'[t]
    BY <1>0, <2>1
  <2> QED
    BY <2>1, <2>2
<1>7. CASE FailScan
  BY <1>7 DEF FailScan
<1>8. CASE UNCHANGED vars
  BY <1>8 DEF vars
<1> QED
  BY <1>1, <1>2, <1>3, <1>4, <1>5, <1>6, <1>7, <1>8
     DEF Next, GetSchema, BeginGet, BeginRefresh, Introspect

(* After a refresh has answered, no slot, answer or introspection holds a  *)
(* definition older than the database was when that refresh began.         *)
THEOREM RefreshIsVisible == Spec => []RefreshedIsVisible
<1>1. VisibleInv => RefreshedIsVisible
  BY DEF VisibleInv
<1> QED
  BY <1>1, VisibleInit, VisibleStep, PTL DEF Spec
-----------------------------------------------------------------------------
(* Staleness is bounded. *)

(* BoundedStaleness looks at the slot only as get() would answer; what     *)
(* makes it true is said about the slot's own age and, before it is        *)
(* stored, about the ticks of the introspection.  The history of a table   *)
(* is capped at the horizon, beyond which no age is told apart.            *)
AgesInv ==
    \A t \in Tables :
        /\ unchanged[t] <= Horizon
        /\ cache # NoEntry /\ unchanged[t] > cache.age + MaxScanTicks =>
              cache.schema[t] = db[t]
        /\ scan # NoScan /\ t \notin scan.rest /\ unchanged[t] > scan.ticks =>
              scan.seen[t] = db[t]

StalenessInv == TypeOK /\ AgesInv

LEMMA StalenessInit == Init => StalenessInv
BY InitTypes, CatalogAssumption DEF Init, StalenessInv, AgesInv

LEMMA StalenessStep == StalenessInv /\ [Next]_vars => StalenessInv'
<1> SUFFICES ASSUME StalenessInv, [Next]_vars PROVE AgesInv'
  BY TypesStep DEF StalenessInv
<1> USE CatalogAssumption DEF StalenessInv, AgesInv
<1>0. /\ db \in [Tables -> Nat] /\ unchanged \in [Tables -> Nat]
      /\ cache # NoEntry => /\ cache \in Entry /\ cache.age \in Nat
                            /\ cache.schema \in [Tables -> Nat]
      /\ scan # NoScan => /\ scan \in Scan
                          /\ scan.ticks \in Nat /\ scan.ticks <= MaxScanTicks
                          /\ scan.seen \in [Tables -> Nat]
  BY DEF TypeOK, Schema, Scan, Entry
<1>1. ASSUME NEW t \in Tables, Migrate(t)
      PROVE  AgesInv'
  BY <1>0, <1>1 DEF Migrate
<1>2. CASE Tick
  <2> SUFFICES ASSUME NEW t \in Tables
               PROVE  /\ unchanged'[t] <= Horizon
                      /\ /\ cache' # NoEntry
                         /\ unchanged'[t] > cache'.age + MaxScanTicks
                         => cache'.schema[t] = db[t]
                      /\ /\ scan' # NoScan /\ t \notin scan'.rest
                         /\ unchanged'[t] > scan'.ticks
                         => scan'.seen[t] = db[t]
    BY <1>2 DEF Tick
  <2>1. /\ unchanged'[t] \in Nat /\ unchanged'[t] <= Horizon
        /\ unchanged'[t] <= unchanged[t] + 1
    BY <1>0, <1>2 DEF Tick, Older
  <2>2. ASSUME cache' # NoEntry, unchanged'[t] > cache'.age + MaxScanTicks
        PROVE  cache'.schema[t] = db[t]
    <3>1. /\ cache # NoEntry /\ cache'.schema = cache.schema
          /\ cache'.age = Older(cache.age)
      BY <1>0, <1>2, <2>2 DEF Tick, Entry
    <3>2. cache.age < Horizon /\ cache'.age = cache.age + 1
      BY <1>0, <2>1, <2>2, <3>1 DEF Older
    <3>3. unchanged[t] > cache.age + MaxScanTicks
      BY <1>0, <2>1, <2>2, <3>1, <3>2
    <3> QED
      BY <3>1, <3>3
  <2>3. ASSUME scan' # NoScan, t \notin scan'.rest, unchanged'[t] > scan'.ticks
        PROVE  scan'.seen[t] = db[t]
    <3>1. /\ scan # NoScan /\ scan'.rest = scan.rest /\ scan'.seen = scan.seen
          /\ scan'.ticks = scan.ticks + 1
      BY <1>0, <1>2, <2>3 DEF Tick, Scan
    <3> QED
      BY <1>0, <2>1, <2>3, <3>1
  <2> QED
    BY <2>1, <2>2, <2>3
<1>3. CASE ServeHit
  BY <1>3 DEF ServeHit
<1>4. ASSUME NEW refreshing, NEW entry \in {AfterGet, AfterInvalidate},
             BeginScan(refreshing, entry)
      PROVE  AgesInv'
  <2>1. cache' \in {cache, NoEntry}
    BY <1>4, AfterGetIsTheSlotOrNothing DEF BeginScan, AfterInvalidate
  <2>2. scan'.rest = Tables
    BY <1>4 DEF BeginScan
  <2> QED
    BY <1>4, <2>1, <2>2 DEF BeginScan
<1>5. ASSUME NEW t \in Tables, ReflectTable(t)
      PROVE  AgesInv'
  <2>1. /\ scan # NoScan /\ scan'.ticks = scan.ticks /\ scan'.rest = scan.rest \ {t}
        /\ scan'.seen = [scan.seen EXCEPT ![t] = db[t]]
    BY <1>0, <1>5 DEF ReflectTable, Scan
  <2> QED
    BY <1>0, <1>5, <2>1 DEF ReflectTable
<1>6. CASE FinishScan
  BY <1>0, <1>6 DEF FinishScan
<1>7. CASE FailScan
  BY <1>7 DEF FailScan
<1>8. CASE UNCHANGED vars
  BY <1>8 DEF vars
<1> QED
  BY <1>1, <1>2, <1>3, <1>4, <1>5, <1>6, <1>7, <1>8
     DEF Next, GetSchema, BeginGet, BeginRefresh, Introspect

LEMMA StalenessBound == StalenessInv => BoundedStaleness
<1> SUFFICES ASSUME StalenessInv, TTL > 0, AfterGet # NoEntry,
                    NEW t \in Tables, unchanged[t] > TTL + MaxScanTicks
             PROVE  AfterGet.schema[t] = db[t]
  BY DEF BoundedStaleness
<1>1. cache # NoEntry /\ AfterGet = cache /\ ~Expired(cache)
  BY DEF AfterGet
<1>2. cache.age \in Nat /\ cache.age <= TTL
  BY <1>1, CatalogAssumption DEF Expired, StalenessInv, TypeOK
<1>3. unchanged[t] > cache.age + MaxScanTicks
  BY <1>2, CatalogAssumption DEF StalenessInv, TypeOK
<1> QED
  BY <1>1, <1>3 DEF StalenessInv, AgesInv

(* A hit is stale by the TTL and one introspection at most.                *)
THEOREM StalenessIsBounded == Spec => []BoundedStaleness
BY StalenessInit, StalenessStep, StalenessBound, PTL DEF Spec

-----------------------------------------------------------------------------
(* The catalog in use. *)

(* Seen from the catalog, a service that uses it is just requests arriving *)
(* in some order: every step of the composition is a step of the catalog   *)
(* or leaves it alone.                                                     *)
LEMMA ServiceStepsAreCatalogSteps == [ServiceNext]_serviceVars => [Next]_vars
<1> SUFFICES ASSUME ServiceNext PROVE [Next]_vars
  BY DEF serviceVars
<1>1. CASE Capture
  BY <1>1 DEF Capture, Next, GetSchema, Introspect
<1>2. CASE ServeOthers
  BY <1>2 DEF ServeOthers, Next
<1>3. CASE Outside \/ Pass
  BY <1>3 DEF Outside, Pass, Next
<1>4. CASE Execute
  BY <1>4 DEF Execute
<1> QED
  BY <1>1, <1>2, <1>3, <1>4 DEF ServiceNext

THEOREM ServiceRunsTheCatalog == ServiceSpec => Init /\ [][Next]_vars
BY ServiceStepsAreCatalogSteps, PTL DEF ServiceSpec, ServiceInit

(* So what is true of the catalog alone is true of it in use. *)
THEOREM ServiceTypes == ServiceSpec => []TypeOK
BY ServiceRunsTheCatalog, InitTypes, TypesStep, PTL

THEOREM ServiceRefreshIsVisible == ServiceSpec => []RefreshedIsVisible
<1>1. VisibleInv => RefreshedIsVisible
  BY DEF VisibleInv
<1> QED
  BY <1>1, ServiceRunsTheCatalog, VisibleInit, VisibleStep, PTL

THEOREM ServiceStalenessIsBounded == ServiceSpec => []BoundedStaleness
BY ServiceRunsTheCatalog, StalenessInit, StalenessStep, StalenessBound, PTL

(* A schema in use is one that a hit or an introspection gave out. *)
HeldInv ==
    /\ held \in Schema \cup {NoSchema}
    /\ elapsed \in Nat

UseInv == StalenessInv /\ HeldInv /\ StaleUseIsBounded

LEMMA UseInit == ServiceInit => UseInv
BY StalenessInit DEF ServiceInit, UseInv, HeldInv, StaleUseIsBounded

LEMMA UseStep == UseInv /\ [ServiceNext]_serviceVars => UseInv'
<1> SUFFICES ASSUME UseInv, [ServiceNext]_serviceVars
             PROVE  HeldInv' /\ StaleUseIsBounded'
  BY StalenessStep, ServiceStepsAreCatalogSteps DEF UseInv
<1> USE CatalogAssumption DEF UseInv, HeldInv, StaleUseIsBounded
<1>0. /\ db \in [Tables -> Nat] /\ unchanged \in [Tables -> Nat]
      /\ cache # NoEntry => cache.schema \in Schema
      /\ scan # NoScan => /\ scan.seen \in Schema
                          /\ scan.ticks \in Nat /\ scan.ticks <= MaxScanTicks
  BY DEF StalenessInv, TypeOK, Schema, Scan
<1>1. CASE Capture
  <2>1. held' = served' /\ elapsed' = 0
    BY <1>1 DEF Capture
  <2>2. CASE ServeHit
    <3>1. /\ AfterGet # NoEntry /\ AfterGet = cache /\ served' = AfterGet.schema
          /\ db' = db /\ unchanged' = unchanged
      BY <2>2, AfterGetIsTheSlotOrNothing DEF ServeHit
    <3>2. BoundedStaleness
      BY StalenessBound
    <3> QED
      BY <1>0, <2>1, <3>1, <3>2 DEF BoundedStaleness
  <2>3. CASE FinishScan
    <3>1. /\ scan # NoScan /\ scan.rest = {} /\ served' = scan.seen
          /\ db' = db /\ unchanged' = unchanged
      BY <2>3 DEF FinishScan
    <3>2. \A t \in Tables :
             unchanged[t] > TTL + MaxScanTicks => scan.seen[t] = db[t]
      BY <1>0, <3>1 DEF StalenessInv, AgesInv
    <3> QED
      BY <1>0, <2>1, <3>1, <3>2
  <2> QED
    BY <1>1, <2>2, <2>3 DEF Capture
<1>2. CASE ServeOthers
  <2>1. db' = db /\ unchanged' = unchanged /\ held' = held /\ elapsed' = elapsed
    BY <1>2 DEF ServeOthers, Waiting, GetSchema, ServeHit, BeginGet, BeginRefresh,
                BeginScan, Introspect, ReflectTable, FinishScan, FailScan
  <2> QED
    BY <2>1
<1>3. CASE Outside
  <2>1. PICK m \in Tables : Migrate(m) /\ Waiting
    BY <1>3 DEF Outside
  <2> QED
    BY <1>0, <2>1 DEF Migrate, Waiting
<1>4. CASE Pass
  <2>1. \A t \in Tables : unchanged'[t] \in Nat /\ unchanged'[t] <= unchanged[t] + 1
    BY <1>0, <1>4, AgeType DEF Pass, Tick
  <2>2. db' = db /\ held' = held /\ elapsed' = IF held = NoSchema THEN 0 ELSE elapsed + 1
    BY <1>4 DEF Pass, Tick
  <2> QED
    BY <1>0, <2>1, <2>2
<1>5. CASE Execute
  BY <1>5 DEF Execute, Released
<1>6. CASE UNCHANGED serviceVars
  BY <1>6 DEF serviceVars, vars
<1> QED
  BY <1>1, <1>2, <1>3, <1>4, <1>5, <1>6 DEF ServiceNext

(* The schema that a statement was judged by differs from the database it  *)
(* meets only in tables migrated less than the TTL, one introspection and  *)
(* the request's own time before.                                          *)
THEOREM UseOfStaleIsBounded == ServiceSpec => []StaleUseIsBounded
<1>1. UseInv => StaleUseIsBounded
  BY DEF UseInv
<1> QED
  BY <1>1, UseInit, UseStep, PTL DEF ServiceSpec
=============================================================================
