----------------------- MODULE SchemaRetrieverProofs -----------------------
(***************************************************************************)
(* The table selection, for every schema, join graph, question and top-k:  *)
(* what the whole schema can join, the selection can join.                 *)
(***************************************************************************)
EXTENDS SchemaRetriever, FiniteSetTheorems, SequenceTheorems, TLAPS

-----------------------------------------------------------------------------
(* sorted().  An order is a set of pairs here: the provers do not          *)
(* instantiate lemmas about operators.                                     *)

StrictOrder(R, S) ==
    /\ \A a \in S : <<a, a>> \notin R
    /\ \A a, b \in S : a # b => <<a, b>> \in R \/ <<b, a>> \in R
    /\ \A a, b, c \in S : <<a, b>> \in R /\ <<b, c>> \in R => <<a, c>> \in R

Preceding(R, S, a) == {b \in S : <<b, a>> \in R}

(* The number of elements before it tells an element from all others, and  *)
(* every number below the size of the set is one of these.                 *)
LEMMA Ranks ==
    ASSUME NEW S, IsFiniteSet(S), NEW R, StrictOrder(R, S)
    PROVE  /\ \A a \in S : Cardinality(Preceding(R, S, a)) \in 0..(Cardinality(S) - 1)
           /\ \A a, b \in S : Cardinality(Preceding(R, S, a)) = Cardinality(Preceding(R, S, b))
                                 => a = b
           /\ \A i \in 1..Cardinality(S) :
                 \E a \in S : Cardinality(Preceding(R, S, a)) = i - 1
<1> DEFINE rank == [a \in S |-> Cardinality(Preceding(R, S, a))]
           N == 0..(Cardinality(S) - 1)
<1>1. Cardinality(S) \in Nat
  BY FS_CardinalityType
<1>2. ASSUME NEW a \in S
      PROVE  IsFiniteSet(Preceding(R, S, a)) /\ Cardinality(Preceding(R, S, a)) \in N
  <2>1. Preceding(R, S, a) \in SUBSET S /\ a \notin Preceding(R, S, a)
    BY DEF Preceding, StrictOrder
  <2>2. IsFiniteSet(Preceding(R, S, a)) /\ Cardinality(Preceding(R, S, a)) <= Cardinality(S)
        /\ Cardinality(Preceding(R, S, a)) # Cardinality(S)
    BY <2>1, FS_Subset
  <2>3. Cardinality(Preceding(R, S, a)) \in Nat
    BY <2>2, FS_CardinalityType
  <2> QED
    BY <1>1, <2>2, <2>3
<1>3. ASSUME NEW a \in S, NEW b \in S, <<a, b>> \in R
      PROVE  Cardinality(Preceding(R, S, a)) # Cardinality(Preceding(R, S, b))
  <2>1. Preceding(R, S, a) \in SUBSET Preceding(R, S, b)
    BY <1>3 DEF Preceding, StrictOrder
  <2>2. a \in Preceding(R, S, b) /\ a \notin Preceding(R, S, a)
    BY <1>3 DEF Preceding, StrictOrder
  <2>3. Preceding(R, S, a) # Preceding(R, S, b)
    BY <2>2
  <2> QED
    BY <1>2, <2>1, <2>3, FS_Subset
<1>4. \A a, b \in S : rank[a] = rank[b] => a = b
  BY <1>3 DEF StrictOrder
<1>5. rank \in Injection(S, N)
  BY <1>2, <1>4 DEF Injection, IsInjective
<1>6. IsFiniteSet(N) /\ Cardinality(N) = Cardinality(S)
  <2>1. 0 \in Int /\ Cardinality(S) - 1 \in Int
    BY <1>1
  <2>2. IsFiniteSet(N) /\ Cardinality(N) = IF 0 > Cardinality(S) - 1 THEN 0
                                           ELSE Cardinality(S) - 1 - 0 + 1
    BY <2>1, FS_Interval
  <2> QED
    BY <1>1, <2>2
<1>7. rank \in Surjection(S, N)
  BY <1>5, <1>6, FS_Injection
<1>8. \A n \in N : \E a \in S : rank[a] = n
  BY <1>7 DEF Surjection
<1>9. \A i \in 1..Cardinality(S) : i - 1 \in N
  BY <1>1
<1> QED
  BY <1>2, <1>4, <1>8, <1>9

LEMMA RankReached ==
    ASSUME NEW S, IsFiniteSet(S), NEW R, StrictOrder(R, S), NEW i \in 1..Cardinality(S)
    PROVE  \E a \in S : Cardinality(Preceding(R, S, a)) = i - 1
BY Ranks

(* A list of the set: each of its elements, and nothing else. *)
Lists(s, S) ==
    /\ s \in Seq(S)
    /\ Len(s) = Cardinality(S)
    /\ \A a \in S : \E i \in 1..Len(s) : s[i] = a

LEMMA RankedList ==
    ASSUME NEW S, IsFiniteSet(S), NEW R, StrictOrder(R, S),
           NEW s, s = [i \in 1..Cardinality(S) |-> s[i]],
           \A i \in 1..Cardinality(S) :
              s[i] \in S /\ Cardinality(Preceding(R, S, s[i])) = i - 1
    PROVE  Lists(s, S)
<1>1. Cardinality(S) \in Nat
  BY FS_CardinalityType
<1>2. s \in [1..Cardinality(S) -> S]
  OBVIOUS
<1>3. s \in Seq(S) /\ Len(s) = Cardinality(S)
  BY <1>1, <1>2, SeqDef
<1>4. ASSUME NEW a \in S
      PROVE  \E i \in 1..Cardinality(S) : s[i] = a
  <2>1. Cardinality(Preceding(R, S, a)) \in 0..(Cardinality(S) - 1)
    BY Ranks
  <2>2. PICK i \in 1..Cardinality(S) : i - 1 = Cardinality(Preceding(R, S, a))
    <3>1. Cardinality(Preceding(R, S, a)) + 1 \in 1..Cardinality(S)
          /\ (Cardinality(Preceding(R, S, a)) + 1) - 1 = Cardinality(Preceding(R, S, a))
      BY <1>1, <2>1
    <3> QED
      BY <3>1
  <2>3. s[i] \in S /\ Cardinality(Preceding(R, S, s[i])) = Cardinality(Preceding(R, S, a))
    BY <2>2
  <2>4. s[i] = a
    BY <2>3, Ranks
  <2> QED
    BY <2>4
<1> QED
  BY <1>3, <1>4 DEF Lists

LEMMA AscendingLists ==
    ASSUME NEW S, S \subseteq Nat, IsFiniteSet(S)
    PROVE  Lists(Ascending(S), S)
<1> DEFINE R == {p \in S \X S : p[1] < p[2]}
           s == Ascending(S)
<1>1. \A a, b \in S : <<a, b>> \in R <=> a < b
  OBVIOUS
<1>2. StrictOrder(R, S)
  <2> HIDE DEF R
  <2> QED
    BY <1>1 DEF StrictOrder
<1>3. \A a \in S : {b \in S : b < a} = Preceding(R, S, a)
  <2> HIDE DEF R
  <2> QED
    BY <1>1 DEF Preceding
<1> HIDE DEF R
<1>4. s = [i \in 1..Cardinality(S) |-> CHOOSE a \in S : Cardinality({b \in S : b < a}) = i - 1]
  BY DEF Ascending, SortedBy
<1>5. ASSUME NEW i \in 1..Cardinality(S)
      PROVE  s[i] \in S /\ Cardinality(Preceding(R, S, s[i])) = i - 1
  <2>1. s[i] = CHOOSE a \in S : Cardinality({b \in S : b < a}) = i - 1
    BY <1>4
  <2>2. \E a \in S : Cardinality({b \in S : b < a}) = i - 1
    <3>1. PICK a \in S : Cardinality(Preceding(R, S, a)) = i - 1
      BY <1>2, RankReached
    <3> QED
      BY <1>3, <3>1
  <2>3. s[i] \in S /\ Cardinality({b \in S : b < s[i]}) = i - 1
    BY <2>1, <2>2, Zenon
  <2> QED
    BY <1>3, <2>3
<1> QED
  <2>1. s = [i \in 1..Cardinality(S) |-> s[i]]
    BY <1>4
  <2> HIDE DEF s
  <2>2. Lists(s, S)
    BY <1>2, <1>5, <2>1, RankedList
  <2> QED
    BY <2>2 DEF s

(* Scores are numbers, so best first and then by key orders the tables.    *)
LEMMA Weights ==
    ASSUME NEW h \in HitRecord
    PROVE  Weighted(h) \in Nat
<1>1. h.columns \in Nat /\ h.terms \in Nat /\ h.metrics \in Nat
  BY DEF HitRecord
<1>2. 40 * h.terms \in Nat /\ 40 * h.metrics \in Nat
  BY <1>1
<1>3. 20 * (IF h.columns < 3 THEN h.columns ELSE 3) \in Nat
  BY <1>1
<1> QED
  BY <1>2, <1>3 DEF Weighted

LEMMA RankedIsSeq ==
    ASSUME NEW ts, ts \subseteq Nat, IsFiniteSet(ts), NEW hit \in [ts -> Hits]
    PROVE  Ranked(ts, hit) \in Seq(ts)
<1> DEFINE S == {t \in ts : Weighted(hit[t]) > 0}
           First(a, b) == \/ Weighted(hit[a]) > Weighted(hit[b])
                          \/ Weighted(hit[a]) = Weighted(hit[b]) /\ a < b
           R == {p \in S \X S : First(p[1], p[2])}
           s == Ranked(ts, hit)
<1>1. IsFiniteSet(S) /\ S \subseteq ts
  BY FS_Subset
<1>2. \A t \in ts : Weighted(hit[t]) \in Nat
  BY Weights, RetrieverAssumption
<1>3. \A a, b \in S : <<a, b>> \in R <=> First(a, b)
  <2> HIDE DEF S, First
  <2> QED
    OBVIOUS
<1>4. \A a \in S : {b \in S : First(b, a)} = Preceding(R, S, a)
  <2> HIDE DEF R, S, First
  <2> QED
    BY <1>3 DEF Preceding
<1>5. CASE S = {}
  <2>1. s = Ascending(ts)
    BY <1>5 DEF Ranked
  <2> QED
    BY <2>1, AscendingLists DEF Lists
<1>6. CASE S # {}
  <2> DEFINE Nth(i) == CHOOSE a \in S : Cardinality({b \in S : First(b, a)}) = i - 1
  <2>1. s = [i \in 1..Cardinality(S) |-> Nth(i)]
    BY <1>6 DEF Ranked, SortedBy
  <2>2. StrictOrder(R, S)
    <3>1. \A a \in S : ~First(a, a)
      BY <1>1, <1>2
    <3>2. \A a, b \in S : a # b => First(a, b) \/ First(b, a)
      BY <1>1, <1>2
    <3>3. \A a, b, c \in S : First(a, b) /\ First(b, c) => First(a, c)
      <4> SUFFICES ASSUME NEW a \in S, NEW b \in S, NEW c \in S, First(a, b), First(b, c)
                   PROVE  First(a, c)
        OBVIOUS
      <4>1. a \in Nat /\ b \in Nat /\ c \in Nat /\ Weighted(hit[a]) \in Nat
            /\ Weighted(hit[b]) \in Nat /\ Weighted(hit[c]) \in Nat
        BY <1>1, <1>2
      <4> QED
        BY <4>1
    <3> HIDE DEF R, S, First
    <3> QED
      BY <1>3, <3>1, <3>2, <3>3 DEF StrictOrder
  <2> HIDE DEF s, R, S, First
  <2>3. ASSUME NEW i \in 1..Cardinality(S)
        PROVE  Nth(i) \in S
    <3>1. PICK a \in S : Cardinality(Preceding(R, S, a)) = i - 1
      BY <1>1, <2>2, RankReached
    <3>2. \E d \in S : Cardinality({b \in S : First(b, d)}) = i - 1
      BY <1>4, <3>1
    <3> QED
      BY <3>2, Zenon
  <2> HIDE DEF Nth
  <2>4. Cardinality(S) \in Nat
    BY <1>1, FS_CardinalityType
  <2>5. s \in [1..Cardinality(S) -> ts]
    BY <1>1, <2>1, <2>3
  <2> QED
    BY <2>4, <2>5, SeqDef DEF s
<1> QED
  BY <1>5, <1>6

LEMMA SeedsAreTables ==
    ASSUME NEW ts \in Schemas, NEW s \in SeedLists[ts]
    PROVE  s \in Seq(ts)
<1>1. ts \subseteq Nat /\ IsFiniteSet(ts)
  BY RetrieverAssumption, FS_Subset
<1>2. PICK hit \in [ts -> Hits] : s = FirstOf(Ranked(ts, hit))
  BY DEF SeedLists
<1> DEFINE r == Ranked(ts, hit)
           n == IF Len(r) < TopK THEN Len(r) ELSE TopK
<1>3. r \in Seq(ts)
  BY <1>1, RankedIsSeq
<1> HIDE DEF r
<1>4. Len(r) \in Nat /\ \A i \in 1..Len(r) : r[i] \in ts
  BY <1>3, LenProperties, ElementOfSeq
<1>5. n \in Int /\ \A i \in 1..n : r[i] \in ts
  BY <1>4, RetrieverAssumption
<1>6. s = SubSeq(r, 1, n)
  BY <1>2 DEF r, FirstOf
<1> HIDE DEF n
<1>7. SubSeq(r, 1, n) \in Seq(ts)
  BY <1>5, SubSeqProperties
<1> QED
  BY <1>6, <1>7

-----------------------------------------------------------------------------
(* Joining within a set of tables.                                         *)

Connected(g, a, b, names) ==
    \A S \in SUBSET names :
        a \in S /\ (\A t \in S : g[t] \cap names \subseteq S) => b \in S

Undirected(g) == \A t, u \in Tables : u \in g[t] => t \in g[u]

LEMMA JoinedIsConnected ==
    ASSUME NEW a, NEW b, NEW names, names \subseteq Tables
    PROVE  Joined(a, b, names) <=> Connected(graph, a, b, names)
<1>1. \A S \in SUBSET names : \A t \in S : GraphWithin(names)[t] = graph[t] \cap names
  BY DEF GraphWithin
<1> QED
  BY <1>1 DEF Joined, Connected

(* What some tables can join, more tables can join.                        *)
LEMMA ConnectedGrows ==
    ASSUME NEW g, NEW N, NEW M, N \subseteq M, NEW a \in N, NEW b, Connected(g, a, b, N)
    PROVE  Connected(g, a, b, M)
<1> SUFFICES ASSUME NEW S \in SUBSET M, a \in S, \A t \in S : g[t] \cap M \subseteq S
             PROVE  b \in S
  BY DEF Connected
<1>1. S \cap N \in SUBSET N /\ a \in S \cap N
      /\ \A t \in S \cap N : g[t] \cap N \subseteq S \cap N
  OBVIOUS
<1>2. b \in S \cap N
  BY <1>1 DEF Connected
<1> QED
  BY <1>2

(* A key joins both ways, so what joins a to b joins b to a.               *)
LEMMA ConnectedBack ==
    ASSUME NEW g, Undirected(g), NEW N, N \subseteq Tables,
           NEW a \in N, NEW b \in N, Connected(g, a, b, N)
    PROVE  Connected(g, b, a, N)
<1> SUFFICES ASSUME NEW S \in SUBSET N, b \in S, \A t \in S : g[t] \cap N \subseteq S,
                    a \notin S
             PROVE  FALSE
  BY DEF Connected
<1> DEFINE C == N \ S
<1>1. ASSUME NEW t \in C PROVE g[t] \cap N \subseteq C
  <2> SUFFICES ASSUME NEW u \in g[t] \cap N, u \in S PROVE FALSE
    OBVIOUS
  <2>1. t \in g[u] \cap N
    BY DEF Undirected
  <2> QED
    BY <2>1
<1>2. b \in C
  BY <1>1 DEF Connected
<1> QED
  BY <1>2

(* One more join in front. *)
LEMMA ConnectedStep ==
    ASSUME NEW g, NEW N, NEW a, NEW h \in N, h \in g[a], NEW b, Connected(g, h, b, N)
    PROVE  Connected(g, a, b, N \cup {a})
<1> SUFFICES ASSUME NEW S \in SUBSET (N \cup {a}), a \in S,
                    \A t \in S : g[t] \cap (N \cup {a}) \subseteq S
             PROVE  b \in S
  BY DEF Connected
<1>1. h \in S \cap N /\ \A t \in S \cap N : g[t] \cap N \subseteq S \cap N
  OBVIOUS
<1>2. b \in S \cap N
  BY <1>1 DEF Connected
<1> QED
  BY <1>2

LEMMA JoinGraphIsUndirected ==
    ASSUME NEW ts, ts \subseteq Tables, NEW fks
    PROVE  JoinGraph(ts, fks) \in [Tables -> SUBSET ts] /\ Undirected(JoinGraph(ts, fks))
BY DEF JoinGraph, Undirected

-----------------------------------------------------------------------------
(* The inductive invariant.  The selection is judged when it is finished;  *)
(* until then the pairs of seeds that were handled are the ones the later  *)
(* bridges must not disturb, the search keeps a tree of joins rooted in    *)
(* the first seed whose inner nodes are fully expanded, and the path found *)
(* so far joins its head to the second seed.                               *)

Reached == {t \in Tables : prev[t] # NoTable}

SchemaInv == tables \in Schemas /\ Undirected(graph)

PairInv ==
    /\ \/ pair = <<1, 1>>
       \/ 1 <= pair[1] /\ pair[1] < pair[2] /\ pair[2] <= Len(seeds)
    /\ pc \in {"search", "back"} => pair # <<1, 1>>
    /\ pc = "idle" => pair = <<1, 1>>
    /\ pc = "done" => NextPair = pair

(* The pairs before the present one, in the order of the two loops; the    *)
(* present one as well when no search is under way.                        *)
Handled(i, j) ==
    \/ i < pair[1]
    \/ i = pair[1] /\ j < pair[2]
    \/ i = pair[1] /\ j = pair[2] /\ pc \notin {"search", "back"}

HandledInv ==
    \A i, j \in 1..Len(seeds) :
        i < j /\ Handled(i, j) /\ Connected(graph, seeds[i], seeds[j], tables)
            => Connected(graph, seeds[i], seeds[j], Selected)

TreeInv ==
    pc \in {"search", "back"} =>
        /\ Reached \subseteq tables
        /\ Src \in Reached
        /\ \A t \in Reached \ {Src} : prev[t] \in Reached /\ t \in graph[prev[t]]

SearchInv ==
    pc = "search" =>
        /\ ToSet(queue) \subseteq Reached
        /\ \A t \in Reached \ ToSet(queue) : graph[t] \subseteq Reached
        /\ Dst \in Reached => Dst = Src

BackInv ==
    pc = "back" =>
        /\ path # <<>>
        /\ ToSet(path) \subseteq Reached
        /\ Connected(graph, Head(path), Dst, ToSet(path))

RetrieverInv ==
    TypeOK /\ SchemaInv /\ PairInv /\ HandledInv /\ TreeInv /\ SearchInv /\ BackInv

LEMMA Lengths ==
    ASSUME TypeOK
    PROVE  Len(seeds) \in Nat /\ pair[1] \in Nat /\ pair[2] \in Nat
           /\ \A i \in 1..Len(seeds) : seeds[i] \in tables /\ seeds[i] \in ToSet(seeds)
<1>1. Len(seeds) \in Nat /\ DOMAIN seeds = 1..Len(seeds)
  BY LenProperties DEF TypeOK
<1>2. \A i \in 1..Len(seeds) : seeds[i] \in tables
  BY ElementOfSeq DEF TypeOK
<1> QED
  BY <1>1, <1>2 DEF TypeOK, ToSet

LEMMA RetrieverInitially == Init => RetrieverInv
<1> SUFFICES ASSUME Init PROVE RetrieverInv
  OBVIOUS
<1>1. PICK ts \in Schemas, fks \in SUBSET ForeignKeys : tables = ts /\ graph = JoinGraph(ts, fks)
  BY DEF Init
<1>2. SchemaInv /\ tables \subseteq Tables /\ graph \in [Tables -> SUBSET tables]
  BY <1>1, RetrieverAssumption, JoinGraphIsUndirected DEF SchemaInv
<1>3. <<>> \in Seq(tables) /\ Len(seeds) = 0
  BY EmptySeq DEF Init
<1>4. TypeOK
  BY <1>2, <1>3 DEF Init, TypeOK, NoSearch
<1>5. PairInv /\ HandledInv
  BY <1>3 DEF Init, PairInv, HandledInv
<1>6. TreeInv /\ SearchInv /\ BackInv
  BY DEF Init, TreeInv, SearchInv, BackInv
<1> QED
  BY <1>2, <1>4, <1>5, <1>6 DEF RetrieverInv

(* The selection only grows, so a pair once joined stays joined.           *)
LEMMA PairsStayJoined ==
    ASSUME TypeOK, UNCHANGED <<graph, seeds>>, bridges \subseteq bridges',
           NEW i \in 1..Len(seeds), NEW b, Connected(graph, seeds[i], b, Selected)
    PROVE  Connected(graph', seeds'[i], b, Selected')
<1>1. Selected \subseteq Selected' /\ seeds[i] \in Selected
  BY Lengths DEF Selected
<1>2. Connected(graph, seeds[i], b, Selected')
  BY <1>1, ConnectedGrows
<1> QED
  BY <1>2

LEMMA InvRetrieve == RetrieverInv /\ Retrieve => RetrieverInv'
<1> SUFFICES ASSUME RetrieverInv, Retrieve PROVE RetrieverInv'
  OBVIOUS
<1>1. seeds' \in Seq(tables)
  BY SeedsAreTables DEF Retrieve, RetrieverInv, SchemaInv
<1>2. TypeOK'
  BY <1>1 DEF Retrieve, RetrieverInv, TypeOK
<1>3. SchemaInv'
  BY DEF Retrieve, RetrieverInv, SchemaInv
<1>4. pair' = <<1, 1>>
  BY DEF Retrieve, RetrieverInv, PairInv
<1>5. PairInv'
  BY <1>4 DEF Retrieve, PairInv
<1>6. HandledInv'
  <2>1. Len(seeds') \in Nat
    BY <1>1, LenProperties
  <2>2. \A i, j \in 1..Len(seeds') : i < j => ~Handled(i, j)'
    BY <1>4, <2>1 DEF Handled
  <2> QED
    BY <2>2 DEF HandledInv
<1>7. TreeInv' /\ SearchInv' /\ BackInv'
  BY DEF Retrieve, TreeInv, SearchInv, BackInv
<1> QED
  BY <1>2, <1>3, <1>5, <1>6, <1>7 DEF RetrieverInv

LEMMA InvStartSearch == RetrieverInv /\ StartSearch => RetrieverInv'
<1> SUFFICES ASSUME RetrieverInv, StartSearch PROVE RetrieverInv'
  OBVIOUS
<1>1. TypeOK /\ pc = "pair"
  BY DEF RetrieverInv, StartSearch
<1>2. /\ 1 <= pair'[1] /\ pair'[1] < pair'[2] /\ pair'[2] <= Len(seeds)
      /\ pair' \in Nat \X Nat
      /\ \A i, j \in 1..Len(seeds) :
            i < j /\ (i < pair'[1] \/ (i = pair'[1] /\ j < pair'[2])) => Handled(i, j)
  <2>1. CASE pair[2] < Len(seeds)
    <3>1. pair' = <<pair[1], pair[2] + 1>>
      BY <1>1, <2>1, Lengths DEF StartSearch, NextPair
    <3>2. 1 <= pair[1] /\ pair[1] <= pair[2]
      BY <1>1, Lengths DEF RetrieverInv, PairInv
    <3> QED
      BY <1>1, <2>1, <3>1, <3>2, Lengths DEF Handled
  <2>2. CASE ~(pair[2] < Len(seeds)) /\ pair[1] + 1 < Len(seeds)
    <3>1. pair' = <<pair[1] + 1, pair[1] + 2>>
      BY <1>1, <2>2, Lengths DEF StartSearch, NextPair
    <3> QED
      BY <1>1, <2>2, <3>1, Lengths DEF Handled
  <2> QED
    BY <1>1, <2>1, <2>2, Lengths DEF StartSearch, NextPair
<1>3. Src' \in tables /\ Dst' \in tables /\ Src' = seeds[NextPair[1]]
  BY <1>1, <1>2, Lengths DEF StartSearch, Src, Dst
<1>4. queue' = <<Src'>> /\ prev' = [NoSearch EXCEPT ![Src'] = Src']
  BY <1>3 DEF StartSearch
<1>5. queue' \in Seq(tables) /\ ToSet(queue') = {Src'}
  BY <1>3, <1>4 DEF ToSet
<1>6. Reached' = {Src'} /\ prev' \in [Tables -> Tables \cup {NoTable}]
  BY <1>1, <1>3, <1>4, RetrieverAssumption DEF Reached, NoSearch, TypeOK
<1>7. TypeOK'
  BY <1>1, <1>2, <1>5, <1>6, EmptySeq DEF StartSearch, TypeOK
<1>8. SchemaInv'
  BY DEF StartSearch, RetrieverInv, SchemaInv
<1>9. PairInv'
  BY <1>2 DEF StartSearch, PairInv
<1>10. HandledInv'
  <2>1. Selected' = Selected
    BY DEF StartSearch, Selected
  <2>2. \A i, j \in 1..Len(seeds) : i < j /\ Handled(i, j)' => Handled(i, j)
    BY <1>2 DEF Handled, StartSearch
  <2> QED
    BY <2>1, <2>2 DEF RetrieverInv, HandledInv, StartSearch
<1>11. TreeInv'
  BY <1>3, <1>6 DEF TreeInv, StartSearch
<1>12. SearchInv' /\ BackInv'
  BY <1>5, <1>6 DEF SearchInv, BackInv, StartSearch
<1> QED
  BY <1>7, <1>8, <1>9, <1>10, <1>11, <1>12 DEF RetrieverInv

(* The search.  A table is reached once, from a table that joins it, and   *)
(* leaves the queue when all its join partners have been reached.          *)
LEMMA QueueAfterVisit ==
    ASSUME TypeOK, queue # <<>>, NEW E \in SUBSET tables
    PROVE  /\ Tail(queue) \o Ascending(E) \in Seq(tables)
           /\ ToSet(Tail(queue) \o Ascending(E)) \subseteq ToSet(queue) \cup E
           /\ E \subseteq ToSet(Tail(queue) \o Ascending(E))
           /\ ToSet(queue) \ {Head(queue)} \subseteq ToSet(Tail(queue) \o Ascending(E))
           /\ Head(queue) \in ToSet(queue) /\ ToSet(queue) \subseteq tables
           /\ \A i \in 1..Len(Tail(queue) \o Ascending(E)) :
                 \/ i < Len(queue) /\ (Tail(queue) \o Ascending(E))[i] = queue[i + 1]
                 \/ i >= Len(queue) /\ (Tail(queue) \o Ascending(E))[i] \in E
<1> DEFINE s == Tail(queue)
           e == Ascending(E)
<1>1. tables \subseteq Nat /\ IsFiniteSet(E)
  BY RetrieverAssumption, FS_Subset DEF TypeOK
<1>2. e \in Seq(E) /\ \A a \in E : \E i \in 1..Len(e) : e[i] = a
  BY <1>1, AscendingLists DEF Lists
<1> HIDE DEF e
<1>3. e \in Seq(tables)
  BY <1>2, SeqMonotonic
<1>4. s \in Seq(tables) /\ Len(s) = Len(queue) - 1 /\ \A i \in 1..Len(s) : s[i] = queue[i + 1]
  BY HeadTailProperties DEF TypeOK
<1>5. Len(queue) \in Nat \ {0} /\ DOMAIN queue = 1..Len(queue) /\ Head(queue) = queue[1]
  BY EmptySeq, LenProperties DEF TypeOK
<1>6. Len(s) \in Nat /\ Len(e) \in Nat /\ DOMAIN e = 1..Len(e)
  BY <1>2, <1>4, LenProperties
<1> HIDE DEF s
<1>7. /\ s \o e \in Seq(tables)
      /\ Len(s \o e) = Len(s) + Len(e)
      /\ \A i \in 1..(Len(s) + Len(e)) : (s \o e)[i] = IF i <= Len(s) THEN s[i] ELSE e[i - Len(s)]
  BY <1>3, <1>4, ConcatProperties
<1>8. DOMAIN (s \o e) = 1..(Len(s) + Len(e))
  BY <1>7, LenProperties
<1>9. \A i \in 1..Len(s) : (s \o e)[i] = s[i] /\ i \in DOMAIN (s \o e)
  BY <1>6, <1>7, <1>8
<1>10. \A i \in 1..Len(e) : (s \o e)[i + Len(s)] = e[i] /\ i + Len(s) \in DOMAIN (s \o e)
  BY <1>6, <1>7, <1>8
<1>11. E \subseteq ToSet(s \o e)
  BY <1>2, <1>10 DEF ToSet
<1>12. ToSet(queue) \ {Head(queue)} \subseteq ToSet(s \o e)
  <2> SUFFICES ASSUME NEW i \in 1..Len(queue), i # 1
               PROVE  queue[i] \in ToSet(s \o e)
    BY <1>5 DEF ToSet
  <2>1. i - 1 \in 1..Len(s) /\ s[i - 1] = queue[i]
    BY <1>4, <1>5
  <2> QED
    BY <1>9, <2>1 DEF ToSet
<1>13. ToSet(s \o e) \subseteq ToSet(queue) \cup E
  <2> SUFFICES ASSUME NEW i \in 1..(Len(s) + Len(e))
               PROVE  (s \o e)[i] \in ToSet(queue) \cup E
    BY <1>8 DEF ToSet
  <2>1. CASE i <= Len(s)
    <3>1. (s \o e)[i] = queue[i + 1] /\ i + 1 \in DOMAIN queue
      BY <1>4, <1>5, <1>7, <2>1
    <3> QED
      BY <3>1 DEF ToSet
  <2>2. CASE ~(i <= Len(s))
    <3>1. i - Len(s) \in 1..Len(e) /\ (s \o e)[i] = e[i - Len(s)]
      BY <1>6, <1>7, <2>2
    <3> QED
      BY <1>2, <3>1, ElementOfSeq
  <2> QED
    BY <2>1, <2>2
<1>14. \A i \in 1..Len(s \o e) :
         \/ i < Len(queue) /\ (s \o e)[i] = queue[i + 1]
         \/ i >= Len(queue) /\ (s \o e)[i] \in E
  <2> SUFFICES ASSUME NEW i \in 1..(Len(s) + Len(e))
               PROVE  \/ i < Len(queue) /\ (s \o e)[i] = queue[i + 1]
                      \/ i >= Len(queue) /\ (s \o e)[i] \in E
    BY <1>7
  <2>1. CASE i <= Len(s)
    BY <1>4, <1>5, <1>6, <1>7, <2>1
  <2>2. CASE ~(i <= Len(s))
    <3>1. i - Len(s) \in 1..Len(e) /\ (s \o e)[i] = e[i - Len(s)]
      BY <1>6, <1>7, <2>2
    <3>2. e[i - Len(s)] \in E
      BY <1>2, <3>1, ElementOfSeq
    <3> QED
      BY <1>4, <1>5, <1>6, <2>2, <3>1, <3>2
  <2> QED
    BY <2>1, <2>2
<1>15. Head(queue) \in ToSet(queue) /\ ToSet(queue) \subseteq tables
  <2>1. \A i \in 1..Len(queue) : queue[i] \in tables
    BY ElementOfSeq DEF TypeOK
  <2> QED
    BY <1>5, <2>1 DEF ToSet
<1> QED
  BY <1>7, <1>11, <1>12, <1>13, <1>14, <1>15 DEF s, e

LEMMA InvVisit == RetrieverInv /\ Visit => RetrieverInv'
<1> SUFFICES ASSUME RetrieverInv, Visit PROVE RetrieverInv'
  OBVIOUS
<1> DEFINE node == Head(queue)
           fresh == {n \in graph[node] : prev[n] = NoTable}
           entered == {n \in fresh : Dst \in fresh => n <= Dst}
<1>1. TypeOK /\ TreeInv /\ SearchInv /\ pc = "search" /\ queue # <<>>
  BY DEF RetrieverInv, Visit
<1>2. /\ prev' = [t \in Tables |-> IF t \in entered THEN node ELSE prev[t]]
      /\ queue' = Tail(queue) \o Ascending(entered \ {Dst})
      /\ IF Dst \in fresh THEN path' = <<Dst>> /\ pc' = "back" ELSE path' = path /\ pc' = pc
      /\ UNCHANGED <<tables, graph, seeds, bridges, pair>>
  BY DEF Visit, Popped
<1>3. /\ node \in ToSet(queue) /\ node \in Reached /\ node \in tables /\ node # NoTable
      /\ tables \subseteq Tables
  BY <1>1, QueueAfterVisit, RetrieverAssumption DEF SearchInv, TypeOK
<1>4. entered \subseteq fresh /\ fresh \subseteq tables /\ fresh \cap Reached = {}
      /\ (Dst \in fresh => Dst \in entered) /\ (Dst \notin fresh => entered = fresh)
  <2>1. graph[node] \subseteq tables /\ fresh \cap Reached = {}
    BY <1>1, <1>3 DEF TypeOK, Reached
  <2>2. ASSUME Dst \in fresh PROVE Dst \in entered
    <3>1. Dst \in Nat
      BY <1>3, <2>1, <2>2, RetrieverAssumption
    <3> QED
      BY <2>2, <3>1
  <2> QED
    BY <2>1, <2>2
<1> HIDE DEF fresh, entered
<1>5. /\ queue' \in Seq(tables)
      /\ ToSet(queue') \subseteq ToSet(queue) \cup entered
      /\ entered \ {Dst} \subseteq ToSet(queue')
      /\ ToSet(queue) \ {node} \subseteq ToSet(queue')
  <2> DEFINE added == entered \ {Dst}
  <2>1. added \subseteq tables
    BY <1>4
  <2>2. queue' = Tail(queue) \o Ascending(added)
    BY <1>2
  <2> HIDE DEF added
  <2>3. /\ queue' \in Seq(tables)
        /\ ToSet(queue') \subseteq ToSet(queue) \cup added
        /\ added \subseteq ToSet(queue')
        /\ ToSet(queue) \ {node} \subseteq ToSet(queue')
    BY <1>1, <2>1, <2>2, QueueAfterVisit
  <2> QED
    BY <2>3 DEF added
<1>6. Reached' = Reached \cup entered /\ prev' \in [Tables -> Tables \cup {NoTable}]
  BY <1>1, <1>2, <1>3, <1>4 DEF Reached, TypeOK
<1>7. Src' = Src /\ Dst' = Dst
  BY <1>2 DEF Src, Dst
<1>8. path' \in Seq(tables) /\ pc' \in {"search", "back"}
  <2>1. CASE Dst \in fresh
    <3>1. <<Dst>> \in Seq(tables)
      BY <1>4, <2>1
    <3> QED
      BY <1>2, <2>1, <3>1
  <2>2. CASE Dst \notin fresh
    BY <1>1, <1>2, <2>2 DEF TypeOK
  <2> QED
    BY <2>1, <2>2
<1>9. TypeOK'
  BY <1>1, <1>2, <1>5, <1>6, <1>8 DEF TypeOK
<1>10. SchemaInv' /\ PairInv'
  BY <1>1, <1>2, <1>8 DEF RetrieverInv, SchemaInv, PairInv
<1>11. HandledInv'
  <2>1. Selected' = Selected /\ \A i, j \in 1..Len(seeds) : Handled(i, j)' <=> Handled(i, j)
    BY <1>1, <1>2, <1>8 DEF Selected, Handled
  <2> QED
    BY <1>2, <2>1 DEF RetrieverInv, HandledInv
<1>12. TreeInv'
  <2>1. Reached \subseteq tables /\ Src \in Reached
    BY <1>1 DEF TreeInv
  <2>2. ASSUME NEW t \in Reached' \ {Src}
        PROVE  prev'[t] \in Reached' /\ t \in graph[prev'[t]]
    <3>1. CASE t \in entered
      BY <1>2, <1>3, <1>4, <1>6, <3>1 DEF fresh
    <3>2. CASE t \notin entered
      BY <1>1, <1>2, <1>6, <3>2 DEF TreeInv, Reached
    <3> QED
      BY <3>1, <3>2
  <2> QED
    BY <1>2, <1>4, <1>6, <1>7, <2>1, <2>2 DEF TreeInv
<1>13. SearchInv'
  <2> SUFFICES ASSUME pc' = "search" PROVE SearchInv'
    BY DEF SearchInv
  <2>1. Dst \notin fresh /\ entered = fresh
    BY <1>2, <1>4
  <2>2. ToSet(queue') \subseteq Reached'
    BY <1>1, <1>5, <1>6 DEF SearchInv
  <2>3. ASSUME NEW t \in Reached' \ ToSet(queue')
        PROVE  graph[t] \subseteq Reached'
    <3>1. t \in Reached
      BY <1>5, <1>6, <2>1
    <3>2. CASE t = node
      <4>1. graph[node] \subseteq Tables
        BY <1>1, <1>3 DEF TypeOK
      <4> QED
        BY <1>6, <2>1, <3>2, <4>1 DEF fresh, Reached
    <3>3. CASE t # node
      BY <1>1, <1>5, <1>6, <3>1, <3>3 DEF SearchInv
    <3> QED
      BY <3>2, <3>3
  <2>4. Dst \in Reached' => Dst = Src
    BY <1>1, <1>6, <2>1 DEF SearchInv
  <2> QED
    BY <1>2, <1>7, <2>2, <2>3, <2>4 DEF SearchInv
<1>14. BackInv'
  <2> SUFFICES ASSUME pc' = "back" PROVE BackInv'
    BY DEF BackInv
  <2>1. path' = <<Dst>> /\ Dst \in Reached'
    BY <1>1, <1>2, <1>4, <1>6
  <2>2. path' # <<>> /\ ToSet(path') = {Dst} /\ Head(path') = Dst
    BY <2>1 DEF ToSet
  <2>3. Connected(graph', Dst, Dst, {Dst})
    BY DEF Connected
  <2> QED
    BY <1>7, <2>1, <2>2, <2>3 DEF BackInv
<1> QED
  BY <1>9, <1>10, <1>11, <1>12, <1>13, <1>14 DEF RetrieverInv

(* Every reached table is expanded: nothing outside the reached ones can   *)
(* be joined to the first seed.                                            *)
LEMMA InvUnreachable == RetrieverInv /\ Unreachable => RetrieverInv'
<1> SUFFICES ASSUME RetrieverInv, Unreachable PROVE RetrieverInv'
  OBVIOUS
<1>1. /\ TypeOK /\ PairInv /\ HandledInv /\ TreeInv /\ SearchInv
      /\ pc = "search" /\ pc' = "pair" /\ queue = <<>>
      /\ UNCHANGED <<tables, graph, seeds, bridges, pair, prev, queue, path>>
  BY DEF RetrieverInv, Unreachable
<1>2. TypeOK' /\ SchemaInv' /\ PairInv'
  BY <1>1 DEF RetrieverInv, TypeOK, SchemaInv, PairInv
<1>3. 1 <= pair[1] /\ pair[1] < pair[2] /\ pair[2] <= Len(seeds)
      /\ pair[1] \in 1..Len(seeds) /\ pair[2] \in 1..Len(seeds)
  BY <1>1, Lengths DEF PairInv
<1>4. Connected(graph, Src, Dst, tables) => Src = Dst
  <2>1. \A t \in Reached : graph[t] \subseteq Reached
    BY <1>1 DEF SearchInv, ToSet
  <2>2. Reached \in SUBSET tables /\ Src \in Reached
    BY <1>1 DEF TreeInv
  <2>3. Connected(graph, Src, Dst, tables) => Dst \in Reached
    BY <2>1, <2>2 DEF Connected
  <2> QED
    BY <1>1, <2>3 DEF SearchInv
<1>5. Connected(graph, Src, Dst, tables) => Connected(graph, Src, Dst, Selected)
  BY <1>4 DEF Connected
<1>6. HandledInv'
  <2>1. Selected' = Selected
    BY <1>1 DEF Selected
  <2>2. \A i, j \in 1..Len(seeds) :
           Handled(i, j)' => Handled(i, j) \/ (i = pair[1] /\ j = pair[2])
    BY <1>1 DEF Handled
  <2>3. \A i, j \in 1..Len(seeds) :
           i < j /\ Handled(i, j)' /\ Connected(graph, seeds[i], seeds[j], tables)
              => Connected(graph, seeds[i], seeds[j], Selected)
    BY <1>1, <1>5, <2>2 DEF HandledInv, Src, Dst
  <2> QED
    BY <1>1, <2>1, <2>3 DEF HandledInv
<1>7. TreeInv' /\ SearchInv' /\ BackInv'
  BY <1>1 DEF TreeInv, SearchInv, BackInv
<1> QED
  BY <1>2, <1>6, <1>7 DEF RetrieverInv

LEMMA PathInFront ==
    ASSUME TypeOK, NEW t \in tables
    PROVE  /\ <<t>> \o path \in Seq(tables)
           /\ <<t>> \o path # <<>>
           /\ Head(<<t>> \o path) = t
           /\ ToSet(<<t>> \o path) = ToSet(path) \cup {t}
           /\ Len(<<t>> \o path) = Len(path) + 1 /\ Len(path) \in Nat
           /\ \A i \in 1..Len(path) : (<<t>> \o path)[i + 1] = path[i]
           /\ (<<t>> \o path)[1] = t
<1> DEFINE s == <<t>> \o path
<1>1. <<t>> \in Seq(tables) /\ Len(<<t>>) = 1 /\ <<t>>[1] = t
  OBVIOUS
<1>2. path \in Seq(tables) /\ Len(path) \in Nat /\ DOMAIN path = 1..Len(path)
  BY LenProperties DEF TypeOK
<1>3. /\ s \in Seq(tables)
      /\ Len(s) = 1 + Len(path)
      /\ \A i \in 1..(1 + Len(path)) : s[i] = IF i <= 1 THEN <<t>>[i] ELSE path[i - 1]
  BY <1>1, <1>2, ConcatProperties
<1>4. DOMAIN s = 1..(1 + Len(path))
  BY <1>3, LenProperties
<1> HIDE DEF s
<1>5. s[1] = t /\ 1 \in DOMAIN s
  BY <1>1, <1>2, <1>3, <1>4
<1>6. \A i \in 1..Len(path) : s[i + 1] = path[i] /\ i + 1 \in DOMAIN s
  BY <1>2, <1>3, <1>4
<1>7. s # <<>> /\ Head(s) = t
  <2>1. Len(s) # 0
    BY <1>2, <1>3
  <2>2. s # <<>>
    BY <2>1
  <2> QED
    BY <1>3, <1>5, <2>2
<1>8. ToSet(path) \cup {t} \subseteq ToSet(s)
  BY <1>2, <1>5, <1>6 DEF ToSet
<1>9. ToSet(s) \subseteq ToSet(path) \cup {t}
  <2> SUFFICES ASSUME NEW i \in DOMAIN s PROVE s[i] \in ToSet(path) \cup {t}
    BY DEF ToSet
  <2>1. CASE i = 1
    BY <1>5, <2>1
  <2>2. CASE i # 1
    <3>1. i - 1 \in 1..Len(path) /\ s[i] = path[i - 1]
      BY <1>2, <1>3, <1>4, <2>2
    <3> QED
      BY <1>2, <3>1 DEF ToSet
  <2> QED
    BY <2>1, <2>2
<1> QED
  BY <1>2, <1>3, <1>5, <1>6, <1>7, <1>8, <1>9 DEF s

LEMMA PathHead ==
    ASSUME TypeOK, path # <<>>
    PROVE  Head(path) \in ToSet(path) /\ Head(path) \in tables
<1>1. Len(path) \in Nat \ {0} /\ DOMAIN path = 1..Len(path) /\ Head(path) = path[1]
  BY EmptySeq, LenProperties DEF TypeOK
<1>2. Head(path) \in tables
  BY HeadTailProperties DEF TypeOK
<1> QED
  BY <1>1, <1>2 DEF ToSet

LEMMA InvStepBack == RetrieverInv /\ StepBack => RetrieverInv'
<1> SUFFICES ASSUME RetrieverInv, StepBack PROVE RetrieverInv'
  OBVIOUS
<1> DEFINE h == Head(path)
<1>1. /\ TypeOK /\ TreeInv /\ BackInv
      /\ pc = "back" /\ h # Src /\ path' = <<prev[h]>> \o path
      /\ UNCHANGED <<pc, tables, graph, seeds, bridges, pair, prev, queue>>
  BY DEF RetrieverInv, StepBack
<1>2. h \in ToSet(path) /\ h \in Reached
  BY <1>1, PathHead DEF BackInv
<1>3. prev[h] \in Reached /\ h \in graph[prev[h]] /\ prev[h] \in tables
  BY <1>1, <1>2 DEF TreeInv
<1>4. /\ path' \in Seq(tables) /\ path' # <<>> /\ Head(path') = prev[h]
      /\ ToSet(path') = ToSet(path) \cup {prev[h]}
  BY <1>1, <1>3, PathInFront
<1>5. Connected(graph, prev[h], Dst, ToSet(path'))
  <2>1. Connected(graph, h, Dst, ToSet(path))
    BY <1>1 DEF BackInv
  <2> HIDE DEF h
  <2> QED
    BY <1>2, <1>3, <1>4, <2>1, ConnectedStep
<1> HIDE DEF h
<1>6. TypeOK'
  BY <1>1, <1>4 DEF TypeOK
<1>7. SchemaInv' /\ PairInv' /\ SearchInv'
  BY <1>1 DEF RetrieverInv, SchemaInv, PairInv, SearchInv
<1>8. HandledInv'
  BY <1>1 DEF RetrieverInv, HandledInv, Handled, Selected
<1>9. TreeInv'
  BY <1>1 DEF TreeInv, Reached, Src
<1>10. BackInv'
  BY <1>1, <1>3, <1>4, <1>5 DEF BackInv, Reached, Dst
<1> QED
  BY <1>6, <1>7, <1>8, <1>9, <1>10 DEF RetrieverInv

LEMMA InvAddPath == RetrieverInv /\ AddPath => RetrieverInv'
<1> SUFFICES ASSUME RetrieverInv, AddPath PROVE RetrieverInv'
  OBVIOUS
<1>1. /\ TypeOK /\ PairInv /\ HandledInv /\ TreeInv /\ BackInv
      /\ pc = "back" /\ pc' = "pair" /\ Head(path) = Src
      /\ bridges' = bridges \cup (ToSet(path) \ ToSet(seeds))
      /\ UNCHANGED <<tables, graph, seeds, pair, prev, queue, path>>
  BY DEF RetrieverInv, AddPath
<1>2. TypeOK' /\ SchemaInv' /\ PairInv'
  <2>1. ToSet(path) \subseteq tables
    BY <1>1 DEF BackInv, TreeInv
  <2> QED
    BY <1>1, <2>1 DEF RetrieverInv, TypeOK, SchemaInv, PairInv
<1>3. Connected(graph, Src, Dst, Selected')
  <2>1. Connected(graph, Src, Dst, ToSet(path)) /\ Src \in ToSet(path)
    BY <1>1, PathHead DEF BackInv
  <2>2. ToSet(path) \subseteq Selected'
    BY <1>1 DEF Selected
  <2> QED
    BY <2>1, <2>2, ConnectedGrows
<1>4. HandledInv'
  <2>1. \A i, j \in 1..Len(seeds) :
           Handled(i, j)' => Handled(i, j) \/ (i = pair[1] /\ j = pair[2])
    BY <1>1 DEF Handled
  <2>2. bridges \subseteq bridges'
    BY <1>1
  <2>3. ASSUME NEW i \in 1..Len(seeds), NEW j \in 1..Len(seeds),
               i < j, Handled(i, j), Connected(graph, seeds[i], seeds[j], tables)
        PROVE  Connected(graph', seeds'[i], seeds[j], Selected')
    <3>1. Connected(graph, seeds[i], seeds[j], Selected)
      BY <1>1, <2>3 DEF HandledInv
    <3> QED
      BY <1>1, <2>2, <3>1, PairsStayJoined
  <2>4. \A i, j \in 1..Len(seeds) :
           i < j /\ Handled(i, j)' /\ Connected(graph, seeds[i], seeds[j], tables)
              => Connected(graph, seeds[i], seeds[j], Selected')
    BY <1>1, <1>3, <2>1, <2>3 DEF Src, Dst
  <2> QED
    BY <1>1, <2>4 DEF HandledInv
<1>5. TreeInv' /\ SearchInv' /\ BackInv'
  BY <1>1 DEF TreeInv, SearchInv, BackInv
<1> QED
  BY <1>2, <1>4, <1>5 DEF RetrieverInv

LEMMA InvFinish == RetrieverInv /\ Finish => RetrieverInv'
<1> SUFFICES ASSUME RetrieverInv, Finish PROVE RetrieverInv'
  OBVIOUS
<1>1. TypeOK'
  BY EmptySeq DEF RetrieverInv, Finish, TypeOK, NoSearch
<1>2. SchemaInv' /\ PairInv'
  BY DEF RetrieverInv, Finish, SchemaInv, PairInv, NextPair
<1>3. HandledInv'
  BY DEF RetrieverInv, Finish, HandledInv, Handled, Selected
<1>4. TreeInv' /\ SearchInv' /\ BackInv'
  BY DEF Finish, TreeInv, SearchInv, BackInv
<1> QED
  BY <1>1, <1>2, <1>3, <1>4 DEF RetrieverInv

THEOREM RetrieverSafety == Spec => []RetrieverInv
<1>1. ASSUME RetrieverInv, [Next]_vars PROVE RetrieverInv'
  <2>1. CASE Retrieve
    BY <1>1, <2>1, InvRetrieve
  <2>2. CASE StartSearch
    BY <1>1, <2>2, InvStartSearch
  <2>3. CASE Visit
    BY <1>1, <2>3, InvVisit
  <2>4. CASE Unreachable
    BY <1>1, <2>4, InvUnreachable
  <2>5. CASE StepBack
    BY <1>1, <2>5, InvStepBack
  <2>6. CASE AddPath
    BY <1>1, <2>6, InvAddPath
  <2>7. CASE Finish
    BY <1>1, <2>7, InvFinish
  <2>8. CASE UNCHANGED vars
    <3>1. TypeOK' /\ SchemaInv' /\ PairInv'
      BY <1>1, <2>8 DEF vars, RetrieverInv, TypeOK, SchemaInv, PairInv, NextPair
    <3>2. HandledInv'
      BY <1>1, <2>8 DEF vars, RetrieverInv, HandledInv, Handled, Selected
    <3>3. TreeInv' /\ SearchInv' /\ BackInv'
      BY <1>1, <2>8 DEF vars, RetrieverInv, TreeInv, SearchInv, BackInv, Reached, Src, Dst
    <3> QED
      BY <3>1, <3>2, <3>3 DEF RetrieverInv
  <2> QED
    BY <1>1, <2>1, <2>2, <2>3, <2>4, <2>5, <2>6, <2>7, <2>8 DEF Next
<1> QED
  BY <1>1, RetrieverInitially, PTL DEF Spec

(* TypeOK: seeds, bridges, queue and path hold the schema's tables only.   *)
THEOREM RetrieverTypes == Spec => []TypeOK
<1>1. RetrieverInv => TypeOK
  BY DEF RetrieverInv
<1> QED
  BY <1>1, RetrieverSafety, PTL

(* SelectionJoins: when the loops are over every pair of seeds was handled *)
(* in one order, and joining works in both.                                *)
LEMMA HandledPairsJoin == RetrieverInv => SelectionJoins
<1> SUFFICES ASSUME RetrieverInv, pc = "done", NEW a \in ToSet(seeds), NEW b \in ToSet(seeds),
                    Joined(a, b, tables)
             PROVE  Joined(a, b, Selected)
  BY DEF SelectionJoins
<1>1. TypeOK /\ PairInv /\ HandledInv /\ Undirected(graph) /\ NextPair = pair
  BY DEF RetrieverInv, SchemaInv, PairInv
<1>2. PICK i \in 1..Len(seeds), j \in 1..Len(seeds) : a = seeds[i] /\ b = seeds[j]
  <2>1. DOMAIN seeds = 1..Len(seeds)
    BY <1>1, LenProperties DEF TypeOK
  <2> QED
    BY <2>1 DEF ToSet
<1>3. /\ ToSet(seeds) \subseteq Selected /\ ToSet(seeds) \subseteq tables
      /\ Selected \subseteq Tables /\ tables \subseteq Tables
  <2>1. DOMAIN seeds = 1..Len(seeds)
    BY <1>1, LenProperties DEF TypeOK
  <2>2. ToSet(seeds) \subseteq tables
    BY <1>1, <2>1, Lengths DEF ToSet
  <2> QED
    BY <1>1, <2>2 DEF Selected, TypeOK
<1>4. ASSUME NEW m \in 1..Len(seeds), NEW n \in 1..Len(seeds), m < n PROVE Handled(m, n)
  <2>1. ~(pair[2] < Len(seeds)) /\ ~(pair[1] + 1 < Len(seeds))
    BY <1>1, Lengths DEF NextPair
  <2>2. m < pair[1] \/ (m = pair[1] /\ n <= pair[2])
    BY <1>1, <1>4, <2>1, Lengths
  <2> QED
    BY <1>1, <2>2, Lengths DEF Handled
<1>5. Connected(graph, a, b, tables)
  BY <1>3, JoinedIsConnected
<1>6. Connected(graph, a, b, Selected)
  <2>1. CASE i = j
    BY <1>2, <2>1 DEF Connected
  <2>2. CASE i < j
    BY <1>1, <1>2, <1>4, <1>5, <2>2 DEF HandledInv
  <2>3. CASE j < i
    <3>1. Connected(graph, b, a, tables)
      BY <1>1, <1>3, <1>5, ConnectedBack
    <3>2. Connected(graph, b, a, Selected)
      BY <1>1, <1>2, <1>4, <2>3, <3>1 DEF HandledInv
    <3> QED
      BY <1>1, <1>3, <3>2, ConnectedBack
  <2> QED
    BY <2>1, <2>2, <2>3, Lengths
<1> QED
  BY <1>3, <1>6, JoinedIsConnected

(* Whatever joins exist and whatever a question hits, two chosen tables    *)
(* that the schema can join can be joined in the selection.                *)
THEOREM SelectionsJoin == Spec => []SelectionJoins
BY HandledPairsJoin, RetrieverSafety, PTL

-----------------------------------------------------------------------------
(* Shortest paths.  Every reached table has a level, one more than the     *)
(* table it was reached from.  The queue holds at most two levels, in      *)
(* order, and whatever has left it is no deeper than what is in it; so the *)
(* target is met at the first level it has a join to.                      *)

TreeLevels(lev) ==
    /\ lev[Src] = 0
    /\ \A t \in Reached \ {Src} : lev[t] = lev[prev[t]] + 1

QueueLevels(lev) ==
    /\ \A i, j \in 1..Len(queue) :
          i < j => lev[queue[i]] <= lev[queue[j]] /\ lev[queue[j]] <= lev[queue[i]] + 1
    /\ \A t \in Reached \ ToSet(queue) :
          /\ \A u \in graph[t] : lev[u] <= lev[t] + 1
          /\ \A q \in ToSet(queue) : lev[t] <= lev[q]

PathLevels(lev) ==
    /\ Last(path) = Dst
    /\ \A i \in 1..(Len(path) - 1) : path[i + 1] \in graph[path[i]]
    /\ lev[Head(path)] + Len(path) = lev[Dst] + 1
    /\ \A t \in Reached : lev[t] + 1 < lev[Dst] =>
          \A u \in graph[t] : u \in Reached /\ lev[u] <= lev[t] + 1

LevelInv ==
    pc \in {"search", "back"} =>
        \E lev \in [Tables -> Nat] :
            /\ TreeLevels(lev)
            /\ pc = "search" => QueueLevels(lev)
            /\ pc = "back" => PathLevels(lev)

(* A queue that is not empty: its head is the least deep, by one at most.  *)
LEMMA HeadLevel ==
    ASSUME TypeOK, SearchInv, pc = "search", queue # <<>>, NEW lev \in [Tables -> Nat],
           QueueLevels(lev), NEW q \in ToSet(queue)
    PROVE  lev[Head(queue)] <= lev[q] /\ lev[q] <= lev[Head(queue)] + 1
<1>1. Len(queue) \in Nat \ {0} /\ DOMAIN queue = 1..Len(queue) /\ Head(queue) = queue[1]
  BY EmptySeq, LenProperties DEF TypeOK
<1>2. PICK i \in 1..Len(queue) : q = queue[i]
  BY <1>1 DEF ToSet
<1>3. q \in Tables
  BY <1>2, ElementOfSeq DEF TypeOK
<1>4. lev[q] \in Nat
  BY <1>3
<1>5. CASE i = 1
  BY <1>1, <1>2, <1>4, <1>5
<1>6. CASE i # 1
  <2>1. 1 \in 1..Len(queue) /\ 1 < i
    BY <1>1, <1>6
  <2> QED
    BY <1>1, <1>2, <2>1 DEF QueueLevels
<1> QED
  BY <1>5, <1>6

LEMMA LevelsVisit == RetrieverInv /\ LevelInv /\ Visit => LevelInv'
<1> SUFFICES ASSUME RetrieverInv, LevelInv, Visit PROVE LevelInv'
  OBVIOUS
<1> DEFINE node == Head(queue)
           fresh == {n \in graph[node] : prev[n] = NoTable}
           entered == {n \in fresh : Dst \in fresh => n <= Dst}
<1>1. TypeOK /\ TreeInv /\ SearchInv /\ pc = "search" /\ queue # <<>>
  BY DEF RetrieverInv, Visit
<1>2. PICK lev \in [Tables -> Nat] : TreeLevels(lev) /\ QueueLevels(lev)
  BY <1>1 DEF LevelInv
<1>3. /\ prev' = [t \in Tables |-> IF t \in entered THEN node ELSE prev[t]]
      /\ queue' = Tail(queue) \o Ascending(entered \ {Dst})
      /\ IF Dst \in fresh THEN path' = <<Dst>> /\ pc' = "back" ELSE path' = path /\ pc' = pc
      /\ UNCHANGED <<tables, graph, seeds, bridges, pair>>
  BY DEF Visit, Popped
<1>4. /\ node \in ToSet(queue) /\ node \in Reached /\ node \in tables /\ node # NoTable
      /\ tables \subseteq Tables /\ ToSet(queue) \subseteq Reached /\ Reached \subseteq tables
  BY <1>1, QueueAfterVisit, RetrieverAssumption DEF SearchInv, TypeOK, TreeInv
<1>5. /\ entered \subseteq fresh /\ fresh \subseteq tables /\ fresh \cap Reached = {}
      /\ (Dst \in fresh => Dst \in entered) /\ (Dst \notin fresh => entered = fresh)
      /\ graph[node] \subseteq fresh \cup Reached
  <2>1. graph[node] \subseteq tables /\ fresh \cap Reached = {}
        /\ graph[node] \subseteq fresh \cup Reached
    BY <1>1, <1>4 DEF TypeOK, Reached
  <2>2. ASSUME Dst \in fresh PROVE Dst \in entered
    <3>1. Dst \in Nat
      BY <1>4, <2>1, <2>2, RetrieverAssumption
    <3> QED
      BY <2>2, <3>1
  <2> QED
    BY <2>1, <2>2
<1> HIDE DEF fresh, entered
<1>6. Reached' = Reached \cup entered /\ Src' = Src /\ Dst' = Dst
  BY <1>1, <1>3, <1>4, <1>5 DEF Reached, TypeOK, Src, Dst
<1>7. PICK L : L = [t \in Tables |-> IF t \in entered THEN lev[node] + 1 ELSE lev[t]]
  OBVIOUS
<1>8. /\ L \in [Tables -> Nat] /\ lev[node] \in Nat
      /\ \A t \in entered : L[t] = lev[node] + 1
      /\ \A t \in Reached : L[t] = lev[t] /\ lev[t] \in Nat
  <2>1. lev[node] \in Nat /\ \A t \in Reached : lev[t] \in Nat
    BY <1>4
  <2> QED
    BY <1>4, <1>5, <1>7, <2>1
<1>9. TreeLevels(L)'
  <2>1. L[Src] = 0
    BY <1>1, <1>2, <1>8 DEF TreeLevels, TreeInv
  <2>2. ASSUME NEW t \in Reached' \ {Src}
        PROVE  L[t] = L[prev'[t]] + 1
    <3>1. CASE t \in entered
      <4>1. prev'[t] = node
        BY <1>3, <1>4, <1>5, <3>1
      <4> QED
        BY <1>4, <1>8, <3>1, <4>1
    <3>2. CASE t \notin entered
      <4>1. t \in Reached /\ prev'[t] = prev[t] /\ prev[t] \in Reached
        BY <1>1, <1>3, <1>4, <1>6, <3>2 DEF TreeInv
      <4> QED
        BY <1>2, <1>8, <4>1 DEF TreeLevels
    <3> QED
      BY <3>1, <3>2
  <2> QED
    BY <1>6, <2>1, <2>2 DEF TreeLevels
<1>10. ASSUME NEW q \in ToSet(queue)
       PROVE  lev[node] <= lev[q] /\ lev[q] <= lev[node] + 1
  BY <1>1, <1>2, HeadLevel
<1>11. CASE Dst \notin fresh
  <2>1. pc' = "search" /\ entered = fresh /\ entered \ {Dst} = entered
    BY <1>1, <1>3, <1>5, <1>11
  <2>2. entered \in SUBSET tables /\ queue' = Tail(queue) \o Ascending(entered)
    BY <1>3, <1>5, <2>1
  <2>3. /\ queue' \in Seq(tables)
        /\ ToSet(queue') \subseteq ToSet(queue) \cup entered
        /\ entered \subseteq ToSet(queue')
        /\ ToSet(queue) \ {node} \subseteq ToSet(queue')
        /\ \A i \in 1..Len(queue') : \/ i < Len(queue) /\ queue'[i] = queue[i + 1]
                                     \/ i >= Len(queue) /\ queue'[i] \in entered
    BY <1>1, <2>2, QueueAfterVisit
  <2>4. Len(queue) \in Nat \ {0} /\ DOMAIN queue = 1..Len(queue) /\ Len(queue') \in Nat
    BY <1>1, <2>3, EmptySeq, LenProperties DEF TypeOK
  <2>5. ASSUME NEW i \in 1..Len(queue'), NEW j \in 1..Len(queue'), i < j
        PROVE  L[queue'[i]] <= L[queue'[j]] /\ L[queue'[j]] <= L[queue'[i]] + 1
    <3>1. ASSUME NEW k \in 1..Len(queue'), k < Len(queue)
          PROVE  queue'[k] = queue[k + 1] /\ k + 1 \in 1..Len(queue) /\ queue[k + 1] \in ToSet(queue)
      BY <2>3, <2>4, <3>1 DEF ToSet
    <3>2. ASSUME NEW k \in 1..Len(queue'), ~(k < Len(queue))
          PROVE  L[queue'[k]] = lev[node] + 1
      BY <1>8, <2>3, <2>4, <3>2
    <3>3. ASSUME NEW k \in 1..Len(queue'), k < Len(queue)
          PROVE  /\ L[queue'[k]] = lev[queue[k + 1]] /\ lev[queue[k + 1]] \in Nat
                 /\ lev[node] <= L[queue'[k]] /\ L[queue'[k]] <= lev[node] + 1
      BY <1>4, <1>8, <1>10, <3>1, <3>3
    <3>4. CASE j < Len(queue)
      <4>1. i < Len(queue) /\ i + 1 < j + 1
        BY <2>4, <2>5, <3>4
      <4>2. /\ lev[queue[i + 1]] <= lev[queue[j + 1]]
            /\ lev[queue[j + 1]] <= lev[queue[i + 1]] + 1
        BY <1>2, <3>1, <3>4, <4>1 DEF QueueLevels
      <4> QED
        BY <3>3, <3>4, <4>1, <4>2
    <3>5. CASE ~(j < Len(queue)) /\ i < Len(queue)
      <4>1. L[queue'[j]] = lev[node] + 1
        BY <3>2, <3>5
      <4>2. L[queue'[i]] \in Nat /\ lev[node] <= L[queue'[i]] /\ L[queue'[i]] <= lev[node] + 1
        BY <3>3, <3>5
      <4> QED
        BY <1>8, <4>1, <4>2
    <3>6. CASE ~(j < Len(queue)) /\ ~(i < Len(queue))
      BY <1>8, <3>2, <3>6
    <3> QED
      BY <3>4, <3>5, <3>6
  <2>6. ASSUME NEW t \in Reached' \ ToSet(queue')
        PROVE  t \in Reached /\ t \notin entered /\ (t = node \/ t \notin ToSet(queue))
               /\ L[t] = lev[t] /\ lev[t] \in Nat /\ lev[t] <= lev[node]
    <3>1. t \in Reached /\ t \notin entered /\ (t = node \/ t \notin ToSet(queue))
      BY <1>6, <2>3
    <3>2. t # node => lev[t] <= lev[node]
      BY <1>2, <1>4, <3>1 DEF QueueLevels
    <3> QED
      BY <1>8, <3>1, <3>2
  <2>7. ASSUME NEW t \in Reached' \ ToSet(queue'), NEW u \in graph[t]
        PROVE  L[u] <= L[t] + 1
    <3>1. CASE t = node
      <4>1. CASE u \in fresh
        BY <1>8, <2>1, <3>1, <2>6, <4>1
      <4>2. CASE u \in ToSet(queue)
        BY <1>4, <1>8, <1>10, <2>6, <3>1, <4>2
      <4>3. CASE u \in Reached /\ u \notin ToSet(queue)
        <5>1. lev[u] <= lev[node]
          BY <1>2, <1>4, <4>3 DEF QueueLevels
        <5> QED
          BY <1>8, <2>6, <3>1, <4>3, <5>1
      <4> QED
        BY <1>5, <3>1, <4>1, <4>2, <4>3
    <3>2. CASE t # node
      <4>1. t \in Reached \ ToSet(queue)
        BY <2>6, <3>2
      <4>2. u \in Reached /\ lev[u] <= lev[t] + 1
        BY <1>1, <1>2, <4>1 DEF SearchInv, QueueLevels
      <4> QED
        BY <1>8, <2>6, <4>2
    <3> QED
      BY <3>1, <3>2
  <2>8. ASSUME NEW t \in Reached' \ ToSet(queue'), NEW q \in ToSet(queue')
        PROVE  L[t] <= L[q]
    <3>1. CASE q \in entered
      BY <1>8, <2>6, <3>1
    <3>2. CASE q \in ToSet(queue)
      <4>1. lev[node] <= lev[q] /\ L[q] = lev[q] /\ lev[q] \in Nat
        BY <1>4, <1>8, <1>10, <3>2
      <4> QED
        BY <1>8, <2>6, <4>1
    <3> QED
      BY <2>3, <3>1, <3>2
  <2>9. QueueLevels(L)'
    BY <1>3, <2>5, <2>7, <2>8 DEF QueueLevels
  <2> QED
    BY <1>8, <1>9, <2>1, <2>9 DEF LevelInv
<1>12. CASE Dst \in fresh
  <2>1. pc' = "back" /\ path' = <<Dst>> /\ L[Dst] = lev[node] + 1 /\ Dst \in entered
    BY <1>3, <1>5, <1>8, <1>12
  <2>2. ASSUME NEW t \in Reached', L[t] + 1 < L[Dst], NEW u \in graph[t]
        PROVE  u \in Reached' /\ L[u] <= L[t] + 1
    <3>1. t \in Reached /\ lev[t] < lev[node]
      BY <1>6, <1>8, <2>1, <2>2
    <3>2. t \notin ToSet(queue)
      BY <1>8, <1>10, <3>1
    <3>3. u \in Reached /\ lev[u] <= lev[t] + 1
      BY <1>1, <1>2, <3>1, <3>2 DEF SearchInv, QueueLevels
    <3> QED
      BY <1>6, <1>8, <3>1, <3>3
  <2>3. Last(path') = Dst /\ Head(path') = Dst /\ Len(path') = 1
    BY <2>1 DEF Last
  <2>4. PathLevels(L)'
    BY <1>3, <1>6, <1>8, <2>1, <2>2, <2>3 DEF PathLevels
  <2> QED
    BY <1>8, <1>9, <2>1, <2>4 DEF LevelInv
<1> QED
  BY <1>11, <1>12

LEMMA LevelsStartSearch == RetrieverInv /\ StartSearch => LevelInv'
<1> SUFFICES ASSUME RetrieverInv, StartSearch PROVE LevelInv'
  OBVIOUS
<1>1. RetrieverInv'
  BY InvStartSearch
<1>2. Src' = seeds[NextPair[1]] /\ Src' \in Tables /\ pc' = "search"
  BY <1>1 DEF RetrieverInv, TreeInv, StartSearch, Src, Reached
<1>3. queue' = <<Src'>> /\ prev' = [NoSearch EXCEPT ![Src'] = Src']
  BY <1>2 DEF StartSearch
<1>4. Reached' = {Src'}
  BY <1>2, <1>3, RetrieverAssumption DEF Reached, NoSearch
<1>5. Len(queue') = 1 /\ ToSet(queue') = {Src'}
  BY <1>3 DEF ToSet
<1>6. PICK L : L = [t \in Tables |-> 0]
  OBVIOUS
<1>7. TreeLevels(L)' /\ QueueLevels(L)'
  BY <1>2, <1>4, <1>5, <1>6 DEF TreeLevels, QueueLevels
<1>8. L \in [Tables -> Nat]
  BY <1>6
<1> QED
  BY <1>2, <1>7, <1>8 DEF LevelInv

LEMMA TargetIsATable ==
    ASSUME RetrieverInv, pc = "back"
    PROVE  Dst \in Tables
<1>1. pair[2] \in 1..Len(seeds)
  BY Lengths DEF RetrieverInv, PairInv
<1> QED
  BY <1>1, Lengths DEF RetrieverInv, TypeOK, Dst

LEMMA LevelsStepBack == RetrieverInv /\ LevelInv /\ StepBack => LevelInv'
<1> SUFFICES ASSUME RetrieverInv, LevelInv, StepBack PROVE LevelInv'
  OBVIOUS
<1> DEFINE h == Head(path)
<1>1. /\ TypeOK /\ TreeInv /\ BackInv
      /\ pc = "back" /\ h # Src /\ path' = <<prev[h]>> \o path
      /\ UNCHANGED <<pc, tables, graph, seeds, bridges, pair, prev, queue>>
  BY DEF RetrieverInv, StepBack
<1>2. PICK lev \in [Tables -> Nat] : TreeLevels(lev) /\ PathLevels(lev)
  BY <1>1 DEF LevelInv
<1>3. h \in Reached /\ path # <<>> /\ h = path[1]
  BY <1>1, PathHead DEF BackInv
<1>4. /\ prev[h] \in Reached /\ h \in graph[prev[h]] /\ prev[h] \in tables
      /\ lev[h] = lev[prev[h]] + 1
  BY <1>1, <1>2, <1>3 DEF TreeInv, TreeLevels
<1>5. /\ Len(path') = Len(path) + 1 /\ Len(path) \in Nat /\ path'[1] = prev[h]
      /\ \A i \in 1..Len(path) : path'[i + 1] = path[i]
      /\ Head(path') = prev[h]
  BY <1>1, <1>4, PathInFront
<1>6. Len(path) # 0
  BY <1>1, <1>3, EmptySeq DEF TypeOK
<1>7. Reached' = Reached /\ Src' = Src /\ Dst' = Dst
  BY <1>1 DEF Reached, Src, Dst
<1> HIDE DEF h
<1>8. TreeLevels(lev)'
  BY <1>1, <1>2, <1>7 DEF TreeLevels
<1>9. Last(path') = Dst
  <2>1. path'[Len(path) + 1] = path[Len(path)]
    BY <1>5, <1>6
  <2> QED
    BY <1>2, <1>5, <2>1 DEF PathLevels, Last
<1>10. ASSUME NEW i \in 1..(Len(path') - 1)
       PROVE  path'[i + 1] \in graph[path'[i]]
  <2>1. i \in 1..Len(path) /\ path'[i + 1] = path[i]
    BY <1>5
  <2>2. CASE i = 1
    BY <1>3, <1>4, <1>5, <2>1, <2>2
  <2>3. CASE i # 1
    <3>1. i - 1 \in 1..(Len(path) - 1) /\ i - 1 \in 1..Len(path) /\ (i - 1) + 1 = i
      BY <1>5, <2>1, <2>3
    <3>2. path'[i] = path[i - 1] /\ path[i] \in graph[path[i - 1]]
      BY <1>2, <1>5, <3>1 DEF PathLevels
    <3> QED
      BY <2>1, <3>2
  <2> QED
    BY <2>2, <2>3
<1>11. lev[Head(path')] + Len(path') = lev[Dst] + 1
  <2>1. prev[h] \in Tables /\ lev[prev[h]] \in Nat
    BY <1>4 DEF Reached
  <2>2. lev[h] + Len(path) = lev[Dst] + 1 /\ lev[Dst] \in Nat
    BY <1>1, <1>2, TargetIsATable DEF PathLevels, h
  <2>3. lev[prev[h]] + (Len(path) + 1) = lev[Dst] + 1
    <3>1. lev[h] = lev[prev[h]] + 1 /\ Len(path) \in Nat
      BY <1>4, <1>5
    <3> QED
      BY <2>1, <2>2, <3>1
  <2> QED
    BY <1>5, <2>3
<1>12. PathLevels(lev)'
  BY <1>1, <1>2, <1>7, <1>9, <1>10, <1>11 DEF PathLevels
<1> QED
  BY <1>1, <1>8, <1>12 DEF LevelInv

THEOREM LevelsKept == Spec => []LevelInv
<1>1. Init => LevelInv
  BY DEF Init, LevelInv
<1>2. ASSUME RetrieverInv, LevelInv, [Next]_vars PROVE LevelInv'
  <2>1. CASE StartSearch
    BY <1>2, <2>1, LevelsStartSearch
  <2>2. CASE Visit
    BY <1>2, <2>2, LevelsVisit
  <2>3. CASE StepBack
    BY <1>2, <2>3, LevelsStepBack
  <2>4. CASE Retrieve \/ Unreachable \/ AddPath \/ Finish
    BY <2>4 DEF Retrieve, Unreachable, AddPath, Finish, LevelInv
  <2>5. CASE UNCHANGED vars
    BY <1>2, <2>5 DEF vars, LevelInv, TreeLevels, QueueLevels, PathLevels, Reached, Src, Dst
  <2> QED
    BY <1>2, <2>1, <2>2, <2>3, <2>4, <2>5 DEF Next
<1> QED
  BY <1>1, <1>2, RetrieverSafety, PTL DEF Spec

(* The library's induction theorems take operators; sets will do.          *)
LEMMA NatByInduction ==
    ASSUME NEW X \in SUBSET Nat, 0 \in X, \A n \in X : n + 1 \in X
    PROVE  X = Nat
<1> DEFINE Bad == Nat \ X
<1>1. SUFFICES ASSUME Bad # {} PROVE FALSE
  OBVIOUS
<1>2. PICK m \in Bad : \A y \in Bad : ~ (<<y, m>> \in OpToRel(<, Nat))
  BY <1>1, NatLessThanWellFounded, WFMin
<1>3. m \in Nat /\ m # 0 /\ m - 1 \in Nat /\ m - 1 \notin X
  OBVIOUS
<1>4. <<m - 1, m>> \in OpToRel(<, Nat)
  BY <1>3 DEF OpToRel
<1> QED
  BY <1>2, <1>3, <1>4, Zenon

(* Ball's recursive function exists, by the length of its domain.          *)
BallStep(h, a, i) == IF i = 0 THEN {a} ELSE h[i - 1] \cup UNION {graph[t] : t \in h[i - 1]}

LEMMA BallExists ==
    ASSUME NEW a, NEW n \in Nat
    PROVE  \E h : h = [i \in 0..n |-> BallStep(h, a, i)]
<1> DEFINE X == {m \in Nat : \E h : h = [i \in 0..m |-> BallStep(h, a, i)]}
<1>1. 0 \in X
  <2>1. [i \in 0..0 |-> {a}] = [i \in 0..0 |-> BallStep([k \in 0..0 |-> {a}], a, i)]
    BY DEF BallStep
  <2> QED
    BY <2>1
<1>2. ASSUME NEW m \in X PROVE m + 1 \in X
  <2>1. PICK h : h = [i \in 0..m |-> BallStep(h, a, i)]
    OBVIOUS
  <2> DEFINE g == [i \in 0..(m + 1) |-> IF i \in 0..m THEN h[i] ELSE BallStep(h, a, i)]
  <2>2. ASSUME NEW i \in 0..(m + 1)
        PROVE  g[i] = BallStep(g, a, i)
    <3>1. g[i] = BallStep(h, a, i)
      BY <2>1
    <3>2. CASE i = 0
      BY <3>1, <3>2 DEF BallStep
    <3>3. CASE i # 0
      <4>1. i - 1 \in 0..m /\ i - 1 \in 0..(m + 1)
        BY <3>3
      <4>2. g[i - 1] = h[i - 1]
        BY <4>1
      <4> QED
        BY <3>1, <4>2 DEF BallStep
    <3> QED
      BY <3>2, <3>3
  <2> HIDE DEF g
  <2>3. g = [i \in 0..(m + 1) |-> g[i]]
    BY DEF g
  <2>4. g = [i \in 0..(m + 1) |-> BallStep(g, a, i)]
    BY <2>2, <2>3
  <2>5. \E k : k = [i \in 0..(m + 1) |-> BallStep(k, a, i)]
    BY <2>4
  <2>6. m + 1 \in Nat
    OBVIOUS
  <2> QED
    BY <2>5, <2>6, Zenon
<1>3. X \in SUBSET Nat
  OBVIOUS
<1> HIDE DEF X
<1>4. n \in X
  BY <1>1, <1>2, <1>3, NatByInduction
<1> QED
  BY <1>4 DEF X

(* Layers that hold the join partners of the layer before hold the balls.  *)
LEMMA BallWithin ==
    ASSUME NEW a, NEW n \in Nat, NEW W, a \in W[0],
           \A k \in 0..(n - 1) : \A t \in W[k] : t \in W[k + 1] /\ graph[t] \subseteq W[k + 1]
    PROVE  Ball(a, n) \subseteq W[n]
<1> DEFINE B == CHOOSE h : h = [i \in 0..n |-> BallStep(h, a, i)]
           Y == {k \in Nat : k <= n => B[k] \subseteq W[k]}
<1>1. B = [i \in 0..n |-> BallStep(B, a, i)]
  BY BallExists, Zenon
<1>2. Ball(a, n) = B[n]
  BY DEF Ball, BallStep
<1> HIDE DEF B
<1>3. 0 \in Y
  BY <1>1 DEF BallStep
<1>4. ASSUME NEW k \in Y PROVE k + 1 \in Y
  <2>1. CASE k + 1 <= n
    <3>1. B[k] \subseteq W[k] /\ k \in 0..(n - 1) /\ k + 1 \in 0..n
      BY <2>1
    <3>2. B[k + 1] = BallStep(B, a, k + 1)
      BY <1>1, <3>1
    <3>3. B[k + 1] = B[k] \cup UNION {graph[t] : t \in B[k]}
      BY <3>2 DEF BallStep
    <3> QED
      BY <3>1, <3>3
  <2>2. CASE ~(k + 1 <= n)
    BY <2>2
  <2> QED
    BY <2>1, <2>2
<1>5. Y \in SUBSET Nat
  OBVIOUS
<1> HIDE DEF Y
<1>6. n \in Y
  BY <1>3, <1>4, <1>5, NatByInduction
<1> QED
  BY <1>2, <1>6 DEF Y

(* PathIsShortest: up to the level before the target's, the balls around   *)
(* the first seed lie within the reached tables of those levels.           *)
LEMMA LevelsAreDistances == RetrieverInv /\ LevelInv => PathIsShortest
<1> SUFFICES ASSUME RetrieverInv, LevelInv, pc = "back", Head(path) = Src
             PROVE  /\ Last(path) = Dst
                    /\ \A i \in 1..(Len(path) - 1) : path[i + 1] \in graph[path[i]]
                    /\ Len(path) > 1 => Dst \notin Ball(Src, Len(path) - 2)
  BY DEF PathIsShortest
<1>1. TypeOK /\ TreeInv /\ BackInv
  BY DEF RetrieverInv
<1>2. PICK lev \in [Tables -> Nat] : TreeLevels(lev) /\ PathLevels(lev)
  BY DEF LevelInv
<1>3. lev[Src] = 0 /\ lev[Dst] \in Nat /\ Len(path) = lev[Dst] + 1
  <2>1. lev[Src] + Len(path) = lev[Dst] + 1 /\ lev[Src] = 0
    BY <1>2 DEF PathLevels, TreeLevels
  <2>2. Len(path) \in Nat /\ lev[Dst] \in Nat
    BY <1>1, LenProperties, TargetIsATable DEF TypeOK
  <2> QED
    BY <2>1, <2>2
<1>4. ASSUME Len(path) > 1 PROVE Dst \notin Ball(Src, Len(path) - 2)
  <2> DEFINE n == Len(path) - 2
             W == [k \in 0..n |-> {t \in Reached : lev[t] <= k}]
  <2>1. n \in Nat /\ lev[Dst] = n + 1
    BY <1>3, <1>4
  <2>2. Src \in W[0]
    BY <1>1, <1>3, <2>1 DEF TreeInv
  <2>3. ASSUME NEW k \in 0..(n - 1), NEW t \in W[k]
        PROVE  t \in W[k + 1] /\ graph[t] \subseteq W[k + 1]
    <3>1. k \in 0..n /\ k + 1 \in 0..n
      BY <2>1
    <3>2. t \in Reached /\ lev[t] <= k /\ lev[t] \in Nat
      BY <3>1 DEF Reached
    <3>3. k \in Nat /\ k + 1 <= n /\ lev[t] + 1 < lev[Dst]
      BY <2>1, <3>2
    <3>4. \A u \in graph[t] : u \in Reached /\ lev[u] <= lev[t] + 1
      BY <1>2, <3>2, <3>3 DEF PathLevels
    <3>5. \A u \in Reached : lev[u] \in Nat
      BY DEF Reached
    <3>6. ASSUME NEW u \in graph[t] PROVE u \in Reached /\ lev[u] <= k + 1
      BY <3>2, <3>3, <3>4, <3>5, <3>6
    <3>7. lev[t] <= k + 1
      BY <3>2, <3>3
    <3> QED
      BY <3>1, <3>2, <3>6, <3>7
  <2> HIDE DEF W, n
  <2>4. Ball(Src, n) \subseteq W[n]
    BY <2>1, <2>2, <2>3, BallWithin
  <2>5. Dst \notin W[n]
    BY <2>1 DEF W
  <2> QED
    BY <2>4, <2>5 DEF n
<1> QED
  BY <1>2, <1>4 DEF PathLevels

(* A found path is a chain of joins from one seed to the other, and no     *)
(* shorter one exists in the schema's join graph.                          *)
THEOREM PathsAreShortest == Spec => []PathIsShortest
BY LevelsAreDistances, RetrieverSafety, LevelsKept, PTL

=============================================================================
