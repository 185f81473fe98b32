------------------------ MODULE ConnectionPoolProofs ------------------------
(***************************************************************************)
(* Safety of the pool for any number of requests, probes, connections and  *)
(* threads, and any repair budget.                                         *)
(***************************************************************************)
EXTENDS ConnectionPool, FiniteSetTheorems, TLAPS

-----------------------------------------------------------------------------
(* The inductive invariant.  That no connection is lost says nothing about *)
(* who waits for whom; for that, a synchronous connect belongs to the task *)
(* that holds the loop, and a probe never reaches a worker thread.         *)

PhasesInv ==
    /\ phase \in [Actors -> Phases]
    /\ loop \in Actors \cup {Nobody}
    /\ free \in Nat
    /\ rounds \in [Requests -> 0..MaxRepair]

LoopInv == \A a \in Actors : phase[a] \in {"blocked", "connected"} => loop = a

ProbesInv == \A p \in Probes : phase[p] \in {"idle", "blocked", "connected", "done"}

PoolInv == PhasesInv /\ LoopInv /\ ProbesInv /\ NoConnectionIsLost

(* A connection is handed out or given back: one holder more or less.      *)
LEMMA HoldersAreFinite == IsFiniteSet(Holders) /\ Cardinality(Holders) \in Nat
<1>1. Holders \in SUBSET Actors
  BY DEF Holders
<1> QED
  BY <1>1, PoolAssumption, FS_Subset, FS_CardinalityType

LEMMA Taken ==
    ASSUME PoolInv, NEW a \in Actors, NEW to \in {"connected", "running"},
           phase[a] \notin {"connected", "running"}, Move(a, to),
           free > 0, free' = free - 1
    PROVE  free' \in Nat /\ NoConnectionIsLost'
<1>1. Holders' = Holders \cup {a} /\ a \notin Holders
  BY DEF Holders, Move, PoolInv, PhasesInv
<1>2. Cardinality(Holders') = Cardinality(Holders) + 1
  BY <1>1, HoldersAreFinite, FS_AddElement
<1> QED
  BY <1>2, HoldersAreFinite, PoolAssumption DEF NoConnectionIsLost, PoolInv, PhasesInv

LEMMA GivenBack ==
    ASSUME PoolInv, NEW a \in Actors, NEW to,
           phase[a] \in {"connected", "running"},
           to \notin {"connected", "running"}, Move(a, to),
           free' = free + 1
    PROVE  free' \in Nat /\ NoConnectionIsLost'
<1>1. Holders' = Holders \ {a} /\ a \in Holders
  BY DEF Holders, Move, PoolInv, PhasesInv
<1>2. Cardinality(Holders') = Cardinality(Holders) - 1
  BY <1>1, HoldersAreFinite, FS_RemoveElement
<1> QED
  BY <1>2, HoldersAreFinite, PoolAssumption DEF NoConnectionIsLost, PoolInv, PhasesInv

LEMMA Untouched ==
    ASSUME PoolInv, NEW a \in Actors, NEW to,
           phase[a] \notin {"connected", "running"},
           to \notin {"connected", "running"}, Move(a, to),
           free' = free
    PROVE  free' \in Nat /\ NoConnectionIsLost'
<1>1. Holders' = Holders
  BY DEF Holders, Move, PoolInv, PhasesInv
<1> QED
  BY <1>1 DEF NoConnectionIsLost, PoolInv, PhasesInv

-----------------------------------------------------------------------------
LEMMA PoolInit == Init => PoolInv
<1> SUFFICES ASSUME Init PROVE PoolInv
  OBVIOUS
<1>1. Holders = {}
  BY DEF Init, Holders
<1>2. NoConnectionIsLost
  BY <1>1, FS_EmptySet, PoolAssumption DEF Init, NoConnectionIsLost
<1> QED
  BY <1>2, PoolAssumption DEF Init, PoolInv, PhasesInv, LoopInv, ProbesInv, Phases, Actors

(* The actions on the event loop. *)
LEMMA LoopSteps ==
    ASSUME PoolInv, NEW a \in Actors,
           \/ a \in Requests /\ (Arrive(a) \/ RejectCandidate(a) \/ Answer(a))
           \/ ConnectOnLoop(a)
           \/ Unblock(a)
           \/ a \in Requests /\ (FinishExplain(a) \/ ExplainTimesOut(a))
           \/ a \in Probes /\ FinishProbe(a)
    PROVE  PoolInv'
<1> USE PoolAssumption DEF PoolInv, PhasesInv, LoopInv, ProbesInv, LoopIsFree, Phases, Actors
<1>1. CASE a \in Requests /\ Arrive(a)
  <2>1. free' \in Nat /\ NoConnectionIsLost'
    BY <1>1, Untouched DEF Arrive
  <2> QED
    BY <1>1, <2>1 DEF Arrive, Move
<1>2. CASE a \in Requests /\ RejectCandidate(a)
  <2>1. CASE rounds[a] < MaxRepair /\ rounds' = [rounds EXCEPT ![a] = @ + 1] /\ UNCHANGED phase
    <3>1. rounds' \in [Requests -> 0..MaxRepair]
      BY <1>2, <2>1
    <3>2. NoConnectionIsLost' /\ free' \in Nat
      BY <1>2, <2>1 DEF RejectCandidate, NoConnectionIsLost, Holders
    <3> QED
      BY <1>2, <2>1, <3>1, <3>2 DEF RejectCandidate
  <2>2. CASE Move(a, "done") /\ UNCHANGED rounds
    <3>1. free' \in Nat /\ NoConnectionIsLost'
      BY <1>2, <2>2, Untouched DEF RejectCandidate
    <3> QED
      BY <1>2, <2>2, <3>1 DEF RejectCandidate, Move
  <2> QED
    BY <1>2, <2>1, <2>2 DEF RejectCandidate
<1>3. CASE a \in Requests /\ Answer(a)
  <2>1. free' \in Nat /\ NoConnectionIsLost'
    BY <1>3, Untouched DEF Answer
  <2> QED
    BY <1>3, <2>1 DEF Answer, Move
<1>4. CASE ConnectOnLoop(a)
  <2>0. phase[a] \in {"idle", "generating"}
    BY <1>4 DEF ConnectOnLoop
  <2>1. CASE free > 0
    <3>1. free' \in Nat /\ NoConnectionIsLost'
      BY <1>4, <2>0, <2>1, Taken DEF ConnectOnLoop
    <3> QED
      BY <1>4, <2>1, <3>1 DEF ConnectOnLoop, Move
  <2>2. CASE ~(free > 0)
    <3>1. free' \in Nat /\ NoConnectionIsLost'
      BY <1>4, <2>0, <2>2, Untouched DEF ConnectOnLoop
    <3> QED
      BY <1>4, <2>2, <3>1 DEF ConnectOnLoop, Move
  <2> QED
    BY <2>1, <2>2
<1>5. CASE Unblock(a)
  <2>1. free' \in Nat /\ NoConnectionIsLost'
    BY <1>5, Taken DEF Unblock
  <2> QED
    BY <1>5, <2>1 DEF Unblock, Move
<1>6. CASE a \in Requests /\ FinishExplain(a)
  <2>1. free' \in Nat /\ NoConnectionIsLost'
    BY <1>6, GivenBack DEF FinishExplain, FreedByExplain, Accept
  <2> QED
    BY <1>6, <2>1 DEF FinishExplain, Accept, Move
<1>7. CASE a \in Requests /\ ExplainTimesOut(a)
  <2>1. free' \in Nat /\ NoConnectionIsLost'
    BY <1>7, Untouched DEF ExplainTimesOut, FreedByTimeout, Accept
  <2> QED
    BY <1>7, <2>1 DEF ExplainTimesOut, Accept, Move
<1>8. CASE a \in Probes /\ FinishProbe(a)
  <2>1. free' \in Nat /\ NoConnectionIsLost'
    BY <1>8, GivenBack, Untouched DEF FinishProbe
  <2> QED
    BY <1>8, <2>1 DEF FinishProbe, Move
<1> QED
  BY <1>1, <1>2, <1>3, <1>4, <1>5, <1>6, <1>7, <1>8

(* The actions of the worker threads. *)
LEMMA WorkerSteps ==
    ASSUME PoolInv, NEW r \in Requests,
           StartWorker(r) \/ Connect(r) \/ ConnectTimesOut(r) \/ EndStatement(r)
    PROVE  PoolInv'
<1> USE PoolAssumption DEF PoolInv, PhasesInv, LoopInv, ProbesInv, Phases, Actors
<1>1. CASE StartWorker(r)
  <2>1. free' \in Nat /\ NoConnectionIsLost'
    BY <1>1, Untouched DEF StartWorker
  <2> QED
    BY <1>1, <2>1 DEF StartWorker, Move
<1>2. CASE Connect(r)
  <2>1. free' \in Nat /\ NoConnectionIsLost'
    BY <1>2, Taken DEF Connect
  <2> QED
    BY <1>2, <2>1 DEF Connect, Move
<1>3. CASE ConnectTimesOut(r)
  <2>1. free' \in Nat /\ NoConnectionIsLost'
    BY <1>3, Untouched DEF ConnectTimesOut
  <2> QED
    BY <1>3, <2>1 DEF ConnectTimesOut, Move
<1>4. CASE EndStatement(r)
  <2>1. free' \in Nat /\ NoConnectionIsLost'
    BY <1>4, GivenBack DEF EndStatement, FreedBy
  <2> QED
    BY <1>4, <2>1 DEF EndStatement, Move
<1> QED
  BY <1>1, <1>2, <1>3, <1>4

LEMMA PoolStep == PoolInv /\ [Next]_vars => PoolInv'
<1> SUFFICES ASSUME PoolInv, [Next]_vars PROVE PoolInv'
  OBVIOUS
<1>1. ASSUME NEW r \in Requests, Arrive(r)
      PROVE  PoolInv'
  BY <1>1, LoopSteps DEF Actors
<1>2. ASSUME NEW a \in Actors, Proceed(a)
      PROVE  PoolInv'
  BY <1>2, LoopSteps, WorkerSteps DEF Proceed
<1>3. ASSUME NEW a \in Actors, TimeOut(a)
      PROVE  PoolInv'
  BY <1>3, LoopSteps, WorkerSteps DEF TimeOut
<1>4. CASE UNCHANGED vars
  BY <1>4 DEF vars, PoolInv, PhasesInv, LoopInv, ProbesInv, NoConnectionIsLost, Holders
<1> QED
  BY <1>1, <1>2, <1>3, <1>4 DEF Next

(* Every state the pool and its users reach satisfies the invariant. *)
THEOREM PoolSafety == Spec => []PoolInv
BY PoolInit, PoolStep, PTL DEF Spec

(* The variables keep their types: the pool hands out no connection it     *)
(* does not have, and never holds more than it was made with.              *)
THEOREM PoolTypeCorrect == Spec => []TypeOK
<1>1. PoolInv => TypeOK
  BY HoldersAreFinite, PoolAssumption DEF PoolInv, PhasesInv, NoConnectionIsLost, TypeOK
<1> QED
  BY <1>1, PoolSafety, PTL

(* Whatever fails or times out, on the loop or in a thread, each           *)
(* connection is in the pool or with exactly one holder.                   *)
THEOREM NothingLost == Spec => []NoConnectionIsLost
<1>1. PoolInv => NoConnectionIsLost
  BY DEF PoolInv
<1> QED
  BY <1>1, PoolSafety, PTL

(* A blocked event loop waits for statements in worker threads only, never *)
(* for something that needs the loop: no pool size, number of threads or   *)
(* number of requests makes the two wait for each other.                   *)
THEOREM NoMutualWait == Spec => []LoopWaitsForWorkersOnly
<1>1. PoolInv => LoopWaitsForWorkersOnly
  <2> SUFFICES ASSUME PoolInv, NEW a \in Actors, phase[a] = "blocked"
               PROVE  /\ loop = a
                      /\ free = 0 => /\ Holders \subseteq Working
                                     /\ Cardinality(Holders) = PoolSize
    BY DEF LoopWaitsForWorkersOnly
  <2>1. loop = a
    BY DEF PoolInv, LoopInv
  <2>2. Holders \subseteq Working
    <3> SUFFICES ASSUME NEW h \in Holders PROVE h \in Working
      OBVIOUS
    <3>1. h \in Actors /\ phase[h] \in {"connected", "running"}
      BY DEF Holders
    <3>2. phase[h] # "connected"
      BY <2>1, <3>1 DEF PoolInv, LoopInv
    <3>3. h \in Requests
      BY <3>1, <3>2 DEF PoolInv, ProbesInv, Actors
    <3> QED
      BY <3>1, <3>2, <3>3 DEF Working
  <2>3. free = 0 => Cardinality(Holders) = PoolSize
    BY HoldersAreFinite DEF PoolInv, NoConnectionIsLost
  <2> QED
    BY <2>1, <2>2, <2>3
<1> QED
  BY <1>1, PoolSafety, PTL
=============================================================================
