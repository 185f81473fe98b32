# Verification of the text-to-SQL engine

TLA+ models of the engine under `src/src/text_to_sql`, checked with TLC, and
theorems about them checked with TLAPS. Paths below are relative to that
directory unless they start with `docs/`.

## 1. The system

A question in natural language becomes one read-only SQL statement. A language
model writes candidates; everything after it is deterministic code that decides
whether a candidate may be shown or run. One process, one asyncio event loop:
the FastAPI handlers are coroutines, schema introspection and the gate run on
the loop, and a statement runs in a worker thread (`asyncio.to_thread`).
Requests therefore interleave at two awaits only: on the provider and on the
worker thread. Migrations change the database from outside at any time.

| Component | State | Operations | Talks to |
| --- | --- | --- | --- |
| `application/orchestrator.py` | per request: snapshot, attempt, last verdict | `process`, `_generate_with_repair`, `_secure_candidate`, `validate_sql` | all below |
| gate: `sql/`, `security/` | none | parse, validate, policy, tenant rewrite, LIMIT, cost | called in order by `_secure_candidate` |
| `application/repair.py` | none | `is_repairable`, feedback | orchestrator |
| `execution/executor.py` | none | `execute` | read-only engine, worker thread |
| `schema/catalog.py`, `cache.py`, `introspector.py` | one cached schema and its age | `get_schema`, `refresh`, `introspect` | primary engine |
| `llm/openai_adapter.py` | one HTTP client per post | `generate` with retries | LLM endpoint |
| `llm/fake.py` | scripts | `generate` from scripts or rules | orchestrator |
| `retrieval/`, `semantic/`, `llm/prompt.py`, `application/ambiguity.py`, `explainer.py` | none | pure functions of question, schema or rows | orchestrator |
| `infrastructure/reference_schema.py`, `bootstrap.py` | the reference tables and their data | | catalog, fake provider |
| `api/` | correlation id (context variable) | routes, probes, error envelope | orchestrator, catalog |
| `infrastructure/database.py` | two connection pools | `connect` | executor, cost analyzer, introspector |
| `observability/` | process-wide registry, span stack | `inc`, `observe`, `render` | everything |

What is hard here, and what has to hold:

- **Orchestrator.** The provider may answer anything, any number of times, while
  other requests run. A statement that is shown or run must be the one that all
  gates cleared, for this caller and this snapshot; repairs are bounded and are
  never spent on a security finding; errors and counters tell the truth.
- **Gate.** Its stages are ordered and depend on each other; three lists of issue
  codes in two files must agree. The policy judges the names that the validator
  resolves, not what the database reads, and the two can differ.
- **Catalog.** The introspector reads table by table under running migrations,
  and the cache ages; served schemas must not be older than a finished refresh,
  nor stale for longer than can be stated.
- **Provider adapter.** Two nested retry loops with early exits; a resource per post.
- **Executor.** Two row caps, one in the statement and one in the fetch.
- **Retriever.** Seeds are connected pair by pair by a breadth-first search over a
  graph with cycles; a table missed here cannot be joined by any provider.
- **Ambiguity detector.** Overlapping word lists in a fixed order, and every answer
  read as a new question; an answer must not lead back to a clarification that was
  answered before.
- **Relative dates.** Months, quarters and weeks across the turn of the year.
- **Fake provider and semantic layer.** Two files of tables and columns, kept in
  step with the schema by hand.
- **HTTP layer.** A context variable for the correlation id and one for the span,
  set in different tasks of one request; exceptions that no handler expects.
- **Pools.** One pool, taken from by worker threads and, synchronously, by the
  event loop itself.

## 2. The modules

| Module | Models | Extends |
| --- | --- | --- |
| `SqlGate` | the gate as operators on candidates, schemas, callers | |
| `GuardedQuery` | the abstract promise of the query endpoints | |
| `QueryOrchestrator` | concurrent requests through gate, repair loop, executor | `SqlGate` |
| `MCQueryOrchestrator` | a small deployment for TLC | `QueryOrchestrator` |
| `SchemaCatalog` | catalog, cache and introspector under migrations | |
| `OpenAICompatibleProvider` | `generate` and its retries under the repair loop | |
| `SchemaInUse` | a request that keeps the schema it took, over the catalog | `SchemaCatalog` |
| `SchemaRetriever`, `MCSchemaRetriever` | scores, seeds, join bridges | |
| `HttpApi`, `MCHttpApi` | middleware, dependencies, routes, probes, handlers, ids, spans | |
| `ConnectionPool` | the read-only pool, worker threads, the event loop | |
| `RelativeDates` | `resolve_relative_date` | |
| `AmbiguityDetector` | `detect` and its readings | |
| `ReferenceDeployment` | the reference schema and the semantic layer | |
| `FakeProvider` | scripts and rules of the fake provider | `ReferenceDeployment` |
| `QuestionPipeline`, `MCQuestionPipeline` | a question through detector, dates, provider and gate | `RelativeDates`, `FakeProvider`; instances of `AmbiguityDetector`, `SqlGate` |
| `SqlGateProofs`, `QueryOrchestratorProofs`, `ConnectionPoolProofs`, `SchemaCatalogProofs`, `OpenAICompatibleProviderProofs`, `HttpApiProofs`, `SchemaRetrieverProofs`, `QuestionPipelineProofs` | theorems and proofs | the module each is named after; `SchemaCatalogProofs` extends `SchemaInUse` |

**SqlGate.** A candidate is what the stages can tell apart about a SQL text:
does it parse, into how many statements, which name-independent rules it breaks
(`flaws`), the `names` it uses (sources with their aliases, column references with
their qualifiers, names of CTEs and derived tables, output aliases), its LIMIT,
and the structural cost limits it exceeds (`shape`). Beside this stands what the
database reads (`tables`, `columns`): SQL resolves names per scope, the validator
over the whole statement, so the two need not agree, and a candidate leaves open
how they do, except that a table that is read is a source. `_check_tables_and_columns`
is `BaseSources` to `NameIssues`: what it skips (`Skipped`), what a qualifier may
stand for (`Denoted`), which owners it records (`Recorded`). `EnforcePolicy` sees
`ReferencedTables` and `ReferencedColumns` only; `FinalStatement` keeps what is
read. The code takes the first owner of an unqualified column in the order of a
Python set; `CHOOSE` leaves open which. `GateIssues` applies
the stages in the order of `_secure_candidate` with its early returns. A snapshot
is the enriched schema; a tenant column counts only where the table has it, as in
`_enrich`. `SafeStatement` says what the gate is for without mentioning its stages,
and the properties use only that. Of what is read it says: a table that shares its
name with no CTE or derived table is known and allowed; a column read *plainly*,
under a name that can only mean it (`ReadPlainly`), is visible to the caller and no
secret; every tenant-owned table is scoped, whatever it is called. Of a column read
otherwise the code promises nothing, and neither does `SafeStatement`: see finding 5.

**QueryOrchestrator.** `pc[r]` names the await at which request `r` is parked;
an action is the uninterrupted code between two awaits. `snap` is the local
`schema`, `attempt` the loop variable, `attempts` the count that is reported,
`secured` is `last_secured`, `metrics` the process-wide registry, `handed` a
history variable that counts statements given to `ReadOnlyExecutor.execute`.
`_raise_for_failure` is `FailureOf`. A provider error leaves the request as
`provider_error` whatever its type. `max_rows = 0` stands for None, which the
request model cannot otherwise express (`ge=1`).

**GuardedQuery.** At most `Budget` draws, at most one statement handed to the
database and only if wanted, exactly one answer, rows only after a run. The
orchestrator implements it under the mapping at its end.

**SchemaCatalog.** `get_schema` and `refresh` never await, so at most one
introspection is in progress, but migrations land between its questions
(`ReflectTable`). A table's definition is the number of migrations that touched
it. `floor` remembers the database as it was when the last finished refresh
began; `unchanged` counts ticks since each table's last migration; `changes`
counts what `drift` should count. `Expired`, `AfterGet`, `AfterInvalidate` and
`VersionOf` are the cache's methods. The version hash is taken to be injective;
it covers tables, columns and foreign keys, so a definition here is that.

**OpenAICompatibleProvider.** `phase[r]` again names an await: posting, closing
the client, sleeping. `heard` is what became of the last post: a failure that
the adapter retries, one that it does not, or a JSON answer that `_parse_response`
accepts or rejects without a retry. `Payload` is the message list, which has no
place for the round's `repair`.

**SchemaInUse.** `held` is the local variable `schema` of `process()`: taken once,
used to judge every round, and still the basis of the statement when it runs.
One such request; everybody else who asks for the schema is `ServeOthers`.

**SchemaRetriever.** A table is its place in the order of keys, so `sorted` is the
order of numbers. What tokenizing finds is a `HitRecord` per table; scores are in
tenths. `_shortest_path` runs one popped node, and one step back along `prev`, at
a time; `pair` holds the indices of the two nested loops of `_add_bridges`.

**HttpApi.** `outer[r]` and `inner[r]` are one context variable in two contexts:
Starlette runs the routed application in a child task with a copy of the
middleware's context, so `process()` binding an id does not change the response
header. `EngineError` and validation errors are answered in the child, the
handler of `Exception` outside the middleware, without header. Ids are numbers;
`Unbound` is "-". `open[r]` is the chain of spans that are entered; `records[r]`
collects the ids that were written under. Inside `process()` every outcome of
`QueryOrchestrator` may occur.

**ConnectionPool.** `loop` is who holds the event loop across a synchronous call;
`phase` "blocked" is a `connect()` on the loop waiting for the pool. Worker
threads wait in "connecting". `free` is the pool. The provider and the earlier
stages of the gate are any of their outcomes.

**RelativeDates, AmbiguityDetector, FakeProvider.** Operators on a question, which
is its sequence of words. An instant counts half days, so a midnight is even and
"now" is odd. `Mentions` is Python's substring test, restricted to the words the
questions use: plurals and participles are in `Plurals` and `Stems`. A statement
of the fake provider is a candidate of `SqlGate` with its `joins`.

**QuestionPipeline.** `process()` with the real rules of its stages, for one user at
a time who answers clarifications by asking again in the words of a reading, the
only way the API offers. `Tick` is midnight. `midnight`, `starts`, `expected`,
`answered` and `last` are history variables: a calendar that is only turned day by
day, the windows it gives, the clarifications answered in the conversation, and
the last of them with the reading that was given.

Definitions whose comment says *Faulty* are deliberate mistakes, each a plausible
slip in the code; replacing the definition after it by the faulty one makes the
property named in `PROJECT.json` fail.

## 3. The runs

| Run | Configuration | Shows |
| --- | --- | --- |
| `orchestrator` | `QueryOrchestrator.cfg` | `OnlySafeStatements`, `RejectionsAreHonest`, `CountersAgree`, `RepairsAreCounted`, `RowsAreExact`, refinement of `GuardedQuery`, `EveryRequestAnswered` |
| `catalog` | `SchemaCatalog.cfg` | `RefreshedIsVisible`, `BoundedStaleness`, `StaleUseIsBounded`, `DriftIsPickedUp` |
| `provider` | `OpenAICompatibleProvider.cfg` | `PostsAreBounded`, `NoEarlySurrender`, `ClientsAreClosed`, `EveryLoopEnds` |
| `retrieval` | `SchemaRetriever.cfg` | `SelectionJoins`, `PathIsShortest`, `EveryCallReturns` |
| `http` | `HttpApi.cfg` | `QueriesAreTraceable`, `IdsStayApart`, `SpansNest`, `EveryCallAnswered` |
| `pool` | `ConnectionPool.cfg` | `NoConnectionIsLost`, `LoopWaitsForWorkersOnly`, `EverythingEnds` |
| `question` | `QuestionPipeline.cfg` | `WindowsFollowTheCalendar`, `AnswersSettle`, `StatementsAreScoped`, `JoinsConnect`, `SensitiveOnRequest`, `FirstClearedAnswers` |
| `truncation` | `TruncationReported.cfg` | counterexample, finding 1 |
| `schema_drift` | `SchemaDrift.cfg` | counterexample, finding 2 |
| `repair_feedback` | `RepairIsInformed.cfg` | counterexample, finding 3 |
| `provider_errors` | `ErrorsAreTyped.cfg` | counterexample, finding 4 |
| `secrets_selectable` | `SecretsAreNeverSelectable.cfg` | counterexample, finding 5 |

Each passing run also checks its module's `TypeOK`. To repeat one:
`tlc -config QueryOrchestrator.cfg MCQueryOrchestrator`. The module of each run
is in `PROJECT.json`; `catalog` runs `SchemaInUse`, which also is a run of
everything in `SchemaCatalog`.

What some of them say that is easy to miss:

- `StaleUseIsBounded`: a statement may be judged by definitions that the database
  no longer has, but only by those that changed within the TTL, one introspection
  and the request's own time. A refresh that finishes meanwhile does not help a
  request that already holds its schema.
- `SelectionJoins`: two seeds that the whole schema can join can be joined within
  the subset, whichever of the two nested loops found the path.
- `LoopWaitsForWorkersOnly`: EXPLAIN and the readiness probe do block the event
  loop while the pool is exhausted, contrary to the comments in
  `infrastructure/database.py` and `execution/executor.py`; but all connections
  are then with threads that need nothing to finish. `EverythingEnds` holds
  without assuming that `pool_timeout` ever passes.
- `QueriesAreTraceable` leaves out calls with an id in the body, whose header and
  body differ by design, and the header "-", which is taken for unbound.
- `OnlySafeStatements` promises about plain reads. Among the candidates are an alias
  for two tables, an unqualified column with two owners, an output named like a
  column, a CTE named like its table. The first is read plainly and must be caught;
  what the others get past the policy satisfies `SafeStatement` because of what it
  does not promise, and breaks what the documents do: `SecretsAreNeverSelectable`.
- `AnswersSettle` does not say that every answer ends its clarification: two of the
  offered readings raise it again at once (section 4). It says that these two always
  do and raise no other, and that nothing else answered in the conversation comes
  back: every circle has length one.

**Bounds.** *orchestrator*: two requests, the least number that interleave and
share the registry; two repairs (the default), so a loop can end in its first,
middle and last round; twelve candidates, at least one for each verdict: each
kind of finding, mixed repairable and final findings, a LIMIT below and above
the cap, a table that only one snapshot lets the rewriter scope; four of them use
names that the validator must resolve or skips, and two columns of one name are in
two tables; six submissions
that between them execute, preview, set `sql_only` and `dry_run`, name another
tenant and are ambiguous; two snapshots,
before and after a migration; a cap of two rows and up to three available, so
both sides of the cap and of `max_rows + 1` occur; an analyst and an admin of
different tenants. *catalog*: two tables (the least that can be torn), two
migrations each, a TTL of two ticks, one tick during an introspection, one
outage; a request lasts up to two ticks; ages saturate above the largest value a
property compares with (`Horizon`). *retrieval*: five
tables and every choice of eight foreign keys, which make two cycles, a chain of
four joins, a key into a table the schema may lack and tables nothing joins;
three seeds, so that `TopK` cuts some off, and hits that reorder the tables or
leave none. *http*: two requests, one repair; the calls
of `MCHttpApi` reach every endpoint, every refusal and every source of an id, the
other client's own id among them. *pool*: four requests and a probe on two
connections and two threads, so that the pool, the threads or both run out; one
repair. *question*: 1 January 2024 (a Monday) to 31 January 2025: a leap
February, all turns of months and quarters, one of the year, 56 of the week; the
28 questions reach each rule, each clarification, each phrase and the scripts'
ends; at most one midnight passes during a request.
*provider*: two requests, two retries (the default), two repairs, every answer.

**Fairness.** *orchestrator*: an awaited `generate` returns or raises, since the
adapter bounds its retries (run `provider`) and the HTTP client each wait; the
worker thread ends. Requests need not arrive. *catalog*: time passes, requests
for the schema keep coming, an introspection that began ends; migrations,
refreshes and outages are never forced. *provider*: the HTTP client's timeout
bounds a post, a sleeper wakes, and the loop goes on when `generate` returns.
*retrieval*: a call that was made runs to its end. *http*: the event loop resumes
a task that can go on, and both awaits end. *pool*: the provider answers, the
server's `statement_timeout` ends statements, a freed thread or connection goes
to a waiter; timeouts of the pool are possible, never assumed.
On SQLite there is no statement timeout (`docs/limitations.md`), so there the
worker thread's end is an assumption.

## 4. Findings

1. **Truncation is never reported** (`execution/executor.py:80`). The LIMIT that
   `enforce_limit` adds is `max_rows`, so the fetch of `max_rows + 1` rows never
   sees the extra row that would set `truncated`; the docstring and
   `docs/security/query_cost.md:54` say truncation is reported.
2. **Schema drift is never counted** (`schema/catalog.py:66`). The version to
   compare with is read after `get()` or `invalidate()` emptied the slot.
   `docs/operations/observability.md:52` builds an alert on the counter.
3. **A repair does not reach the model** (`llm/openai_adapter.py:80`). The prompt
   is built once, `repair_text` is never set and the adapter ignores
   `request.repair`; only the fake provider looks at it.
4. **A null completion is an untyped error** (`llm/openai_adapter.py:151`).
   `json.loads(None)` raises `TypeError`, which becomes a 500.
5. **A secret column can be returned** (`sql/validator.py:352`). An unqualified
   column whose name is also that of an output anywhere in the statement is taken
   for the output and not reported, so a column that is returned under its own name
   is not judged by the policy. `docs/security/sensitive_data.md:30` says that such
   columns are never selectable by anyone. The same holds of a table or qualifier
   named like a CTE or derived table (lines 255 and 324) and of all owners but the
   first of an unqualified column (line 358).

Seen while reading or modelling, without a run: the adapter stores `timeout_seconds` and
`generate` uses the request's default of 30 s instead, so
`T2SQL_LLM_TIMEOUT_SECONDS` has no effect; `t2sql_generation_ms` observes the
sum over the rounds, once per round; `needs_clarification` is never read;
`DependencyUnavailableError`, `SchemaRetrievalError` and `AmbiguousQuestionError`
are never raised, so a catalog failure is a 500 `engine_error`.

- *Dates.* The prompt section "RESOLVED DATES (use these exact bounds)" receives
  only the description ("the last completed calendar quarter"), so a real
  provider never sees the bounds; `as_sql_predicate` is unused.
  `resolve_relative_date` says "the first relative-date phrase found", but the
  order of its tests decides, not the question's.
- *Clarifications.* `docs/operations/troubleshooting.md:33` says to provide the
  entity, but the rule for entities (`application/ambiguity.py:167`) looks for
  "users" beside a commerce word, and its own reading "Application users" has the
  word: the answer leads to the same clarification again. So does "Provide a
  definition", since `glossary_overrides` is never read. `AnswersSettle` states both.
- *Fake provider.* Its "revenue" is gross where the semantic layer defines net;
  the MRR, status, listing and fallback rules ignore the period silently; a dated
  count of regions uses `regions.created_at`, which does not exist, a status
  listing of a table without `status` neither, and both end as
  `repair_exhausted`, because the rules ignore the repair. `order_items` has
  `ordered_at` for its default date field and no such column.
- *HTTP.* `validate_sql` (`application/orchestrator.py:310`) binds a minted id over
  the one that the middleware bound (`AnswerValidate`), so its log lines and spans
  cannot be found by the id in the response, which `docs/operations/observability.md:15`
  says every log line carries. `docs/api/reference.md` says all non-2xx responses share one shape; 409,
  503 and the metrics' 404 do not. A 500 of the last handler has no
  `X-Correlation-Id` header.
- *Pool.* An exhausted pool makes the cost estimate be skipped, not fail.
- *Prompt.* `serialize_for_prompt` cuts at a number of characters and may cut off a
  bridge table that the retriever added.

## 5. The proofs

A theorem holds for every value of the constants that satisfies the module's
assumptions; the runs of section 3 are small instances of the same definitions.
Each safety theorem has the same form: an invariant stronger than the property,
true of `Init`, kept by each action, one lemma or step per action, and from it
the property. What follows is why the stronger invariant is needed.

**`SqlGateProofs`** is about the gate for any tables, columns, callers, policies
and candidates. Its assumptions are `GateAssumption` (the constants have their
types; a tenant column belongs to its table).

- `CodeListsAgree`: the lists of `repair.py` and `_raise_for_failure` cover the
  codes the gate can report in the same two halves. From it, `FailureIsHonest`.
- `PolicyFindingsComeAlone`: a policy finding never mixes with another kind.
- `PlainReadsAreReported`: where names resolve without a finding, a column that is
  read plainly is among those the validator reports. A table that no CTE hides is a
  referenced table (`SourcesAreReported`); a reference that is looked up has an
  owner, and all of them are recorded, or the only one there is
  (`ResolvedHasOwner`); the column is one of these owners whatever else its alias
  stands for. This is the link between what is read and what is judged, and it is
  false of other reads (finding 5).
- `GateClearsOnlySafe`: a cleared statement is a `SafeStatement`. The argument
  goes stage by stage: no name findings means that plain reads are reported, so
  the policy looked at every such column, so each is visible and none is a secret
  (`SecretsStaySecret`); the rewriter scoped each table whose tenant column the
  snapshot has; the LIMIT is bounded (`LimitIsBounded`). `Safe` and `Safety` below
  carry this promise over to the orchestrator, and no more than it.

**`QueryOrchestratorProofs`** adds `OrchestratorAssumption` (the submissions,
candidates and snapshots have their types, `MaxRows > 0`) and, for what counts,
`RequestsAreFinite`.

- `TypeCorrect`, `Safe`, `Honest`: none is inductive. `TypeOK` does not say that a
  request at an await has captured a schema (`CapturedInv`), that `attempts` and
  `attempt` move together (`RoundsInv`), or that a request reaches the executor
  with a statement rather than None (`ClearedInv`). `OnlySafeStatements` needs to
  know what was handed over in every state, not only after the hand-over
  (`HandedInv`). `RejectionsAreHonest` needs the verdict of a request that is
  still generating to be free of final findings (`VerdictInv`). `SafetyInv` is
  their conjunction. All but the types concern one request at a time, so the
  proof shows that a step touches one request (`OneRequestMoves`), that each
  action restores `SafeAt` for its own, and puts the two together in `StepSafe`.
- `RowsExact`: three caps meet (the statement's LIMIT, the executor's, the
  request's); that none cuts below the others follows from `SafetyInv` and the
  statement's being cleared for this very request.
- `CountersAlwaysAgree`: each counter is the cardinality of a set of requests
  (`Admitted`, `Clarified`, `Succeeded`, `Rejected`); a step adds its own request
  to some of them or none, and a counter moves exactly when its set does.
- `RepairsAlwaysCounted`: the counter is a sum over the requests. `MapThenSumSet`
  is a fold through a recursive function that chooses an element at each step;
  the proof gives that function its value for any finite set and shows what one
  changed term does to the sum.
- `KeepsThePromise`: the refinement of `GuardedQuery`. With `RefinementInv` (the
  above, and that a request that has not arrived drew nothing) each action of the
  orchestrator is mapped to an action of the promise or to a stutter, the
  repair that draws another candidate among them.

**`ConnectionPoolProofs`** (`PoolAssumption`: finitely many actors, at least one
connection and one thread). `NothingLost` is inductive together with the types.
`NoMutualWait` needs `LoopInv` (who is blocked on the loop or holds a connection
there is the loop's holder) and `ProbesInv` (a probe never gets to a worker
thread): the connections that are not free are then with threads, and a thread
that has its connection needs nothing more to finish.

**`SchemaCatalogProofs`** proves the catalog first and the service that uses it
second. `RefreshIsVisible` needs `ForwardInv`: the database, and what an
introspection saw of a table it reflected, are at or past what the database was
when that introspection began, and this is at or past `floor`. `StalenessIsBounded` needs `AgesInv`, which relates a table's
last migration to the entry's age and to the scan's; it is stated for entries and
scans before they are served. `ServiceRunsTheCatalog` shows that a service step is
a catalog step or leaves it alone, so the catalog's invariants carry over.
`UseOfStaleIsBounded` adds the request's own time to the catalog's bound.

**`OpenAICompatibleProviderProofs`** (any retries and repairs). `LoopInv` adds to
the properties what each await implies (`AwaitsInv`): who sleeps has a retry left,
who closes a client has heard something. The bound on posts is linear in the
round and the attempt with `MaxRetries + 1` as a factor, so the step to the next
round is the place where arithmetic is needed.

**`HttpApiProofs`** (`HttpAssumption`: client ids are below every minted one).

- `SpansAlwaysNest` needs `DepthInv`: how many spans a request has open is told by
  the await it is parked at, so closing one never closes another's parent.
- `IdsAlwaysApart`: an id that a request knows (`AllIds`) was sent by its client
  or minted, and below the counter (`OriginInv`); what two requests have in
  common was not minted (`ApartInv`). A step of one request cannot add to what
  the other knows, so each action is proved for its own request and all pairs
  follow.
- `QueriesAlwaysTraceable`: `TraceAt` follows one request from the middleware's
  binding through `process()`, which binds the same id again, to the answer.

**`SchemaRetrieverProofs`** (`RetrieverAssumption`: finitely many tables). "Can be
joined" is `Connected`, said without paths: every set that contains one table and
is closed under joins contains the other.

- `SelectionsJoin`: the two nested loops are an invariant over pairs
  (`HandledInv`): the pairs before the present one are joined within the
  selection if the schema can join them. Finding a path is the tree of `prev`
  (`TreeInv`); not finding one is a closed set, since a popped table's neighbours
  are all reached and the queue ran empty (`SearchInv`); walking back
  (`BackInv`) keeps the path a chain. Selections only grow, and `Connected` with
  them (`ConnectedGrows`). The order of scores and seeds is `sorted()`, which is
  proved to list each table once from its definition by ranks.
- `PathsAreShortest` needs levels that the code does not have. `LevelInv` says
  that some assignment of levels exists: one more than `prev`'s along the tree,
  not falling along the queue and within one of its head, complete up to the
  head's. Popping extends the witness. `BallExists` and `LevelsAreDistances`
  relate levels to the sets of tables within so many joins, by which
  `PathIsShortest` measures.

**`QuestionPipelineProofs`** (`PipelineAssumption`: questions are non-empty
sequences of strings, scripts are non-empty lists, as `fake.py` needs to index
them, of candidates with the gate's codes that read tables of the schema; the
schema's columns are known.
`ReadingsAreText`: the readings, which are written out in `AmbiguityDetector`, are
sequences of strings; TLC evaluates it to true, and a prover needs it because it
does not know a literal for a string). Everything else is arbitrary: the
questions, scripts, callers, budget and the days that pass.

- `AnswersAlwaysSettle`: `ConversationInv` says that a clarification that was
  answered can be told from the words of the question as it has become: an answer
  adds words that keep its rule from firing, or takes the users away, and no later
  answer undoes that (`RephraseWords`: it only adds words, except for the users;
  `ReadingWords`: no other reading brings users back). Otherwise the last answer
  told nothing; then the same clarification is open again, and since the detector
  is left where it was (`TellingNothing`), no other can come between.
- `FirstClearedAlwaysAnswers`: `ScriptInv`, all candidates before the present one
  were rejected. At the end of a script the last candidate is played once more;
  it was rejected before, so it cannot answer.
- `StatementsAlwaysScoped`: what is cleared reads only tables of the schema (a
  script by assumption, a statement of the rules because it names its tables and
  hides none: `RulesAreClean`, `ClearedTables`), and the layer's tenant column
  exists in each table that the schema says is owned (`TenantColumnsExist`), for
  the eleven tables of the reference schema.
- `SensitiveOnlyOnRequest` and `JoinsAlwaysConnect` go through the nine rules. One
  of them applies (`FirstRule`; the first index is the least element of a set,
  `Least`), and what it may write is one of eight kinds of statement (`RuleTaken`). A
  column is sensitive by its name (`SensitiveByName`), so a statement with other
  names is harmless; only the rule for the MRR has one. A join is found by its
  column (`KeyIsJoined`), and a chain or a star of joins connects its tables.
- `WindowsAlwaysFollow`: `WindowsFollowTheCalendar` compares windows with `midnight`
  and `starts`, which a calendar that is only turned page by page has counted.
  `CalendarInv` says that both are functions of the clock: `midnight` is twice the
  day's number, and the starts of each period are the `Bounds` that the arithmetic
  of `dates.py` computes from today's date. That a day's turn keeps it is one lemma
  per period (`DayTurns` to `YearTurns`) on the three ways a day ends
  (`NextDayCases`), and needs the lengths of months and years (`MonthGrows`,
  `YearGrows`: a leap year is one with 366 days). From it `MeaningIsCounted`, phrase
  by phrase. It holds for every day from the first of 2024 on, where the run stops
  with January of `LastYear`.
- `PipelineTypes`: that a window does not end before it starts is `OrderedInv`, that
  days only follow each other; the gate's issues are on its list because the rules
  write statements without flaws (`RulesAreClean`) and the scripts are typed.

Induction over numbers is used in one form only, on sets of naturals (from the
least element of a set: `NatByInduction`, `Least`), because the
library's induction theorems take an operator as parameter, which the installed
provers cannot instantiate.

What stays with TLC:

- Liveness under fairness: `EveryRequestAnswered`, `DriftIsPickedUp`,
  `EveryLoopEnds`, `EveryCallReturns`, `EveryCallAnswered`, `EverythingEnds`.
- The findings: counterexamples, found by TLC.

## 6. What is not modelled

- How sqlglot finds names and flaws in a syntax tree, SQL's own scoping, and the
  printing of SQL (`sql/`, parts of `security/`): a candidate is the names a
  statement uses and, left open beside them, what the database reads. What
  `validator.py` makes of the names is modelled.
- The prompt builder, the result explainer, redaction, the wording of messages:
  text in, text out, with no decision that depends on them.
- Timings, histograms and the rendering of metrics; span attributes and status.
- Tokenizing in the retriever and regular expressions on text: a question is its
  words, and what it hits is enumerated.
- The construction of engines and settings, the SQLite pragma, disposal; bootstrap
  data, migrations and scripts, which run outside the service.
- Value coercion and session guards in the executor, which touch one statement and
  are covered by reading.

The range of the abstraction is stated per component in `PROJECT.json`.

## 7. Plan

1. Every invariant of a passing run is now stated by a theorem. What is left to
   prove are action properties of the orchestrator and of the HTTP API that no run
   states yet, and that a first cleared candidate in `QuestionPipeline` is the
   orchestrator's `Secured`.
2. What is left of name resolution is SQL's side: a model of scopes that derives
   what a statement reads from its names, in place of leaving it open, would tell
   which of the reads that are not plain the validator catches nevertheless.
3. The rewriter and LIMIT on nested selects are below the abstraction of `SqlGate`.
