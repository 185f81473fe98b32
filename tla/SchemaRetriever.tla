-------------------------- MODULE SchemaRetriever --------------------------
(***************************************************************************)
(* LexicalSchemaRetriever.retrieve: the tables a question points at (the   *)
(* seeds), and the tables added so that the seeds can be joined (the       *)
(* bridges).  Together they are the only schema the provider is shown.     *)
(*                                                                         *)
(* What tokenizing finds is abstracted to the hits it counts per table.    *)
(* A table is its key's place in the sorted order of keys, so sorted() is  *)
(* the order of numbers.  Scores are in tenths.  The breadth-first search  *)
(* of _shortest_path runs one popped node, and one step back, at a time.   *)
(***************************************************************************)
EXTENDS Integers, Sequences, FiniteSets, SequencesExt

CONSTANTS
    Tables,         \* table keys
    Schemas,        \* the sets of tables a schema may hold
    ForeignKeys,    \* the pairs (table, referred table) a schema may declare
    Hits,           \* what a question may hit in one table
    TopK            \* retrieval_top_k

NoTable == 0        \* "not in prev"

HitRecord == [name: BOOLEAN, columns: Nat, comment: BOOLEAN,
              terms: Nat, metrics: Nat]

ASSUME RetrieverAssumption ==
    /\ Tables \subseteq Nat \ {NoTable}
    /\ IsFiniteSet(Tables)
    /\ Schemas \subseteq SUBSET Tables
    /\ ForeignKeys \subseteq Tables \X Tables
    /\ Hits \subseteq HitRecord
    /\ TopK \in Nat \ {0}

VARIABLES
    pc,         \* where retrieve() is
    tables,     \* the schema's tables
    graph,      \* its join graph
    seeds,      \* the chosen tables, best first
    bridges,    \* bridge_nodes without the seeds
    pair,       \* the indices of the two seeds being connected
    prev,       \* the search's predecessor of each table it has reached
    queue,      \* tables reached and not yet expanded
    path        \* the part of the path found so far, ending in the target

vars == <<pc, tables, graph, seeds, bridges, pair, prev, queue, path>>

(* sorted(): the i-th element has i - 1 others before it. *)
SortedBy(S, Before(_, _)) ==
    [i \in 1..Cardinality(S) |->
        CHOOSE a \in S : Cardinality({b \in S : Before(b, a)}) = i - 1]

Ascending(S) == SortedBy(S, <)

-----------------------------------------------------------------------------
(* DatabaseSchema *)

(* Faulty: a referred table that the schema lacks is a neighbour as well. *)
JoinGraphUnchecked(ts, fks) ==
    [t \in Tables |-> {u \in Tables : t \in ts /\ <<t, u>> \in fks}]

(* Both directions of every key whose referred table is in the schema. *)
JoinGraph(ts, fks) ==
    [t \in Tables |-> {u \in ts : /\ t \in ts
                                  /\ <<t, u>> \in fks \/ <<u, t>> \in fks}]

(* join_graph() of subset(names) *)
GraphWithin(names) == [t \in Tables |-> IF t \in names THEN graph[t] \cap names ELSE {}]

-----------------------------------------------------------------------------
(* Scoring *)

Weighted(hit) ==
      (IF hit.name THEN 50 ELSE 0)
    + 20 * (IF hit.columns < 3 THEN hit.columns ELSE 3)
    + (IF hit.comment THEN 10 ELSE 0)
    + 40 * hit.terms
    + 40 * hit.metrics

(* Best score first, then the key; nothing scored falls back on the keys.  *)
Ranked(ts, hit) ==
    LET scored == {t \in ts : Weighted(hit[t]) > 0}
        Before(a, b) == \/ Weighted(hit[a]) > Weighted(hit[b])
                        \/ Weighted(hit[a]) = Weighted(hit[b]) /\ a < b
    IN  IF scored = {} THEN Ascending(ts) ELSE SortedBy(scored, Before)

FirstOf(s) == SubSeq(s, 1, IF Len(s) < TopK THEN Len(s) ELSE TopK)

(* The seed lists that some question gets from each schema. *)
SeedLists ==
    [ts \in Schemas |-> {FirstOf(Ranked(ts, hit)) : hit \in [ts -> Hits]}]

Selected == ToSet(seeds) \cup bridges

-----------------------------------------------------------------------------
(* The search *)

Src == seeds[pair[1]]
Dst == seeds[pair[2]]

NoSearch == [t \in Tables |-> NoTable]

(* The catalog's schema, and the join graph that retrieve() makes of it. *)
Init ==
    /\ \E ts \in Schemas, fks \in SUBSET ForeignKeys :
          tables = ts /\ graph = JoinGraph(ts, fks)
    /\ pc = "idle"
    /\ seeds = <<>>
    /\ bridges = {}
    /\ pair = <<1, 1>>
    /\ prev = NoSearch
    /\ queue = <<>>
    /\ path = <<>>

(* Scoring and seeds, for any question. *)
Retrieve ==
    /\ pc = "idle"
    /\ seeds' \in SeedLists[tables]
    /\ pc' = "pair"
    /\ UNCHANGED <<tables, graph, bridges, pair, prev, queue, path>>

(* Faulty: each seed is connected with the next one only. *)
NextPairAdjacent ==
    IF pair[2] < Len(seeds) THEN <<pair[2], pair[2] + 1>> ELSE pair

(* Every later seed for one seed, then the next seed with those after it. *)
NextPair ==
    CASE pair[2] < Len(seeds) -> <<pair[1], pair[2] + 1>>
      [] pair[2] >= Len(seeds) /\ pair[1] + 1 < Len(seeds) ->
            <<pair[1] + 1, pair[1] + 2>>
      [] OTHER -> pair

StartSearch ==
    /\ pc = "pair"
    /\ NextPair # pair
    /\ pair' = NextPair
    /\ prev' = [NoSearch EXCEPT ![seeds[NextPair[1]]] = seeds[NextPair[1]]]
    /\ queue' = <<seeds[NextPair[1]]>>
    /\ path' = <<>>
    /\ pc' = "search"
    /\ UNCHANGED <<tables, graph, seeds, bridges>>

(* Faulty: the queue's other end is popped. *)
PoppedFromBack == <<Last(queue), Front(queue)>>

(* Faulty: a node without new neighbours is looked at and left in place. *)
PoppedWhenUseful ==
    <<Head(queue),
      IF \E n \in graph[Head(queue)] : prev[n] = NoTable THEN Tail(queue) ELSE queue>>

Popped == <<Head(queue), Tail(queue)>>

(* popleft(), then the unreached neighbours in key order up to the target. *)
Visit ==
    /\ pc = "search"
    /\ queue # <<>>
    /\ LET node == Popped[1]
           fresh == {n \in graph[node] : prev[n] = NoTable}
           entered == {n \in fresh : Dst \in fresh => n <= Dst}
       IN  /\ prev' = [t \in Tables |-> IF t \in entered THEN node ELSE prev[t]]
           /\ queue' = Popped[2] \o Ascending(entered \ {Dst})
           /\ IF Dst \in fresh
              THEN path' = <<Dst>> /\ pc' = "back"
              ELSE UNCHANGED <<path, pc>>
    /\ UNCHANGED <<tables, graph, seeds, bridges, pair>>

Unreachable ==
    /\ pc = "search"
    /\ queue = <<>>
    /\ pc' = "pair"
    /\ UNCHANGED <<tables, graph, seeds, bridges, pair, prev, queue, path>>

(* while cur != src *)
StepBack ==
    /\ pc = "back"
    /\ Head(path) # Src
    /\ path' = <<prev[Head(path)]>> \o path
    /\ UNCHANGED <<pc, tables, graph, seeds, bridges, pair, prev, queue>>

(* bridge_nodes.update(path) *)
AddPath ==
    /\ pc = "back"
    /\ Head(path) = Src
    /\ bridges' = bridges \cup (ToSet(path) \ ToSet(seeds))
    /\ pc' = "pair"
    /\ UNCHANGED <<tables, graph, seeds, pair, prev, queue, path>>

(* The result is built; prev and queue are gone. *)
Finish ==
    /\ pc = "pair"
    /\ NextPair = pair
    /\ prev' = NoSearch
    /\ queue' = <<>>
    /\ path' = <<>>
    /\ pc' = "done"
    /\ UNCHANGED <<tables, graph, seeds, bridges, pair>>

Next ==
    \/ Retrieve \/ StartSearch \/ Visit \/ Unreachable \/ StepBack \/ AddPath \/ Finish

(* A call that was made runs to its end; nobody has to ask. *)
Spec == Init /\ [][Next]_vars /\ WF_vars(Next)

-----------------------------------------------------------------------------
(* Properties. *)

TypeOK ==
    /\ pc \in {"idle", "pair", "search", "back", "done"}
    /\ tables \subseteq Tables
    /\ graph \in [Tables -> SUBSET tables]
    /\ seeds \in Seq(tables)
    /\ bridges \subseteq tables
    /\ pair \in Nat \X Nat
    /\ prev \in [Tables -> Tables \cup {NoTable}]
    /\ queue \in Seq(tables)
    /\ path \in Seq(tables)

(* b can be joined to a through tables of the set alone: every set of its  *)
(* tables that holds a and all join partners of its own members holds b.   *)
Joined(a, b, names) ==
    \A S \in SUBSET names :
        a \in S /\ (\A t \in S : GraphWithin(names)[t] \subseteq S) => b \in S

(* retriever.py:10 "so required join tables are never dropped": whichever  *)
(* two chosen tables the whole schema can join, the provider's subset can  *)
(* join too.                                                               *)
SelectionJoins ==
    pc = "done" =>
        \A a, b \in ToSet(seeds) : Joined(a, b, tables) => Joined(a, b, Selected)

(* The tables at most n joins away from a. *)
Ball(a, n) ==
    LET B[i \in 0..n] ==
            IF i = 0 THEN {a} ELSE B[i - 1] \cup UNION {graph[t] : t \in B[i - 1]}
    IN  B[n]

(* A path between two seeds is a chain of joins from one to the other, and *)
(* no shorter one exists: the subset is not padded with detours.           *)
PathIsShortest ==
    pc = "back" /\ Head(path) = Src =>
        /\ Last(path) = Dst
        /\ \A i \in 1..(Len(path) - 1) : path[i + 1] \in graph[path[i]]
        /\ Len(path) > 1 => Dst \notin Ball(Src, Len(path) - 2)

(* The search over a cyclic join graph and the way back both end. *)
EveryCallReturns == <>(pc = "done")
=============================================================================
