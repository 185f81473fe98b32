------------------- MODULE OpenAICompatibleProviderProofs -------------------
(***************************************************************************)
(* Safety of the provider under the repair loop, for any requests and any  *)
(* number of retries and repairs.                                          *)
(***************************************************************************)
EXTENDS OpenAICompatibleProvider, TLAPS

-----------------------------------------------------------------------------
(* The inductive invariant.  The bounds on attempt and on what is raised   *)
(* rest on what an await was entered with: a request sleeps only while a   *)
(* retry is left, and closes its client only when it has heard something.  *)

AwaitsInv ==
    \A r \in Requests :
        /\ phase[r] = "new" => round[r] = 0 /\ attempt[r] = 0 /\ posts[r] = 0
        /\ phase[r] = "closing" => heard[r] \in Heard
        /\ phase[r] = "sleeping" => attempt[r] < MaxRetries

LoopInv == TypeOK /\ AwaitsInv /\ PostsAreBounded /\ NoEarlySurrender /\ ClientsAreClosed

(* The two ends of the count that PostsAreBounded states. *)
AtMost(r) == round[r] * (MaxRetries + 1) + attempt[r] + 1
AtLeast(r) == round[r] + attempt[r] + 1

(* A round that ends leaves room for the next one's posts. *)
LEMMA RoundsMultiply ==
    ASSUME NEW n \in Nat, NEW a \in 0..MaxRetries
    PROVE  /\ n * (MaxRetries + 1) \in Nat
           /\ (n + 1) * (MaxRetries + 1) = n * (MaxRetries + 1) + (MaxRetries + 1)
           /\ n * (MaxRetries + 1) + a + 2 <= (n + 1) * (MaxRetries + 1) + 1
<1>1. /\ n * (MaxRetries + 1) \in Nat
      /\ (n + 1) * (MaxRetries + 1) = n * (MaxRetries + 1) + (MaxRetries + 1)
  BY ProviderAssumption
<1> QED
  BY <1>1, ProviderAssumption

LEMMA ErrorTypes ==
    ASSUME NEW h \in Heard
    PROVE  ErrorOf(h) \in {"none", "provider_timeout", "provider_error",
                           "provider_output_invalid", "TypeError"}
BY DEF ErrorOf, Heard, Transient, Unusable

LEMMA LoopInit == Init => LoopInv
BY ProviderAssumption
   DEF Init, LoopInv, TypeOK, AwaitsInv, PostsAreBounded, NoEarlySurrender, ClientsAreClosed

(* What all posts do. *)
LEMMA PostStep ==
    ASSUME LoopInv, NEW r \in Requests, Post(r)
    PROVE  /\ phase' \in [Requests -> {"new", "posting", "closing", "sleeping",
                                       "returned", "raised", "ended"}]
           /\ prompted' \in [Requests -> Feedbacks \cup {NoFeedback}]
           /\ posts' \in [Requests -> Nat] /\ posts'[r] = posts[r] + 1
           /\ phase'[r] = "posting"
           /\ \A q \in Requests \ {r} : phase'[q] = phase[q] /\ posts'[q] = posts[q]
           /\ clients' \subseteq Requests
           /\ ClientsAreClosed'
BY DEF LoopInv, TypeOK, ClientsAreClosed, Post, Payload

LEMMA StartSteps ==
    ASSUME LoopInv, NEW r \in Requests, StartLoop(r) \/ Retry(r)
    PROVE  LoopInv'
<1> USE ProviderAssumption DEF LoopInv, TypeOK, AwaitsInv, PostsAreBounded, NoEarlySurrender
<1>1. CASE StartLoop(r)
  <2>0. Post(r) /\ UNCHANGED <<round, repair, attempt, heard, error>>
    BY <1>1 DEF StartLoop
  <2>1. posts'[r] = 1 /\ round[r] = 0 /\ attempt[r] = 0
    BY <1>1, <2>0, PostStep DEF StartLoop
  <2> QED
    BY <2>0, <2>1, PostStep
<1>2. CASE Retry(r)
  <2>0. /\ Post(r) /\ UNCHANGED <<round, repair, heard, error>>
        /\ attempt' = [attempt EXCEPT ![r] = @ + 1]
        /\ phase[r] = "sleeping"
    BY <1>2 DEF Retry
  <2>1. /\ attempt' \in [Requests -> 0..MaxRetries]
        /\ attempt'[r] = attempt[r] + 1
    BY <2>0
  <2>2. /\ posts[r] <= round[r] * (MaxRetries + 1) + attempt[r] + 1
        /\ posts[r] >= round[r] + attempt[r] + 1
        /\ round[r] * (MaxRetries + 1) \in Nat
    BY <2>0, RoundsMultiply
  <2>3. /\ posts'[r] <= round'[r] * (MaxRetries + 1) + attempt'[r] + 1
        /\ posts'[r] >= round'[r] + attempt'[r] + 1
    BY <2>0, <2>1, <2>2, PostStep
  <2> QED
    BY <2>0, <2>1, <2>3, PostStep
<1> QED
  BY <1>1, <1>2

LEMMA RegenerateStep ==
    ASSUME LoopInv, NEW r \in Requests, Regenerate(r)
    PROVE  LoopInv'
<1> USE ProviderAssumption DEF LoopInv, TypeOK, AwaitsInv, PostsAreBounded, NoEarlySurrender
<1>0. /\ Post(r) /\ UNCHANGED <<heard, error>>
      /\ phase[r] = "returned" /\ round[r] < MaxRepair
      /\ round' = [round EXCEPT ![r] = @ + 1]
      /\ attempt' = [attempt EXCEPT ![r] = 0]
      /\ repair' \in [Requests -> Feedbacks \cup {NoFeedback}]
  BY DEF Regenerate
<1>1. /\ round' \in [Requests -> 0..MaxRepair] /\ round'[r] = round[r] + 1
      /\ attempt' \in [Requests -> 0..MaxRetries] /\ attempt'[r] = 0
  BY <1>0
<1>2. posts[r] <= AtMost(r) /\ posts[r] >= AtLeast(r)
  BY <1>0 DEF AtMost, AtLeast
<1>3. posts'[r] <= AtMost(r)' /\ posts'[r] >= AtLeast(r)'
  <2> DEFINE n == round[r]
             a == attempt[r]
  <2>1. n \in Nat /\ a \in 0..MaxRetries /\ posts[r] \in Nat
    OBVIOUS
  <2>2. /\ n * (MaxRetries + 1) \in Nat
        /\ n * (MaxRetries + 1) + a + 2 <= (n + 1) * (MaxRetries + 1) + 1
        /\ (n + 1) * (MaxRetries + 1) \in Nat
    BY <2>1, RoundsMultiply
  <2>3. AtMost(r)' = (n + 1) * (MaxRetries + 1) + 0 + 1 /\ AtLeast(r)' = n + 1 + 0 + 1
    BY <1>1 DEF AtMost, AtLeast
  <2>4. posts[r] <= n * (MaxRetries + 1) + a + 1 /\ posts[r] >= n + a + 1
    BY <1>2 DEF AtMost, AtLeast
  <2>5. posts'[r] = posts[r] + 1
    BY <1>0, PostStep
  <2> HIDE DEF n, a
  <2> QED
    BY <2>1, <2>2, <2>3, <2>4, <2>5
<1> QED
  BY <1>0, <1>1, <1>3, PostStep DEF AtMost, AtLeast

(* The other steps send nothing and count nothing. *)
LEMMA QuietSteps ==
    ASSUME LoopInv, NEW r \in Requests,
           Respond(r) \/ BackOff(r) \/ Raise(r) \/ Return(r) \/ EndLoop(r)
    PROVE  LoopInv'
<1> USE ProviderAssumption
    DEF LoopInv, TypeOK, AwaitsInv, PostsAreBounded, NoEarlySurrender, ClientsAreClosed,
        CloseClient
<1>1. CASE Respond(r)
  BY <1>1 DEF Respond
<1>2. CASE BackOff(r)
  BY <1>2 DEF BackOff, MayRetry
<1>3. CASE Raise(r)
  <2>1. heard[r] \in Transient => attempt[r] = MaxRetries
    BY <1>3 DEF Raise, MayRetry
  <2>2. error' = [error EXCEPT ![r] = ErrorOf(heard[r])]
    BY <1>3 DEF Raise
  <2>3. ErrorOf(heard[r]) \in {"none", "provider_timeout", "provider_error",
                               "provider_output_invalid", "TypeError"}
    BY <1>3, ErrorTypes DEF Raise
  <2> QED
    BY <1>3, <2>1, <2>2, <2>3 DEF Raise
<1>4. CASE Return(r)
  BY <1>4 DEF Return
<1>5. CASE EndLoop(r)
  BY <1>5 DEF EndLoop
<1> QED
  BY <1>1, <1>2, <1>3, <1>4, <1>5

LEMMA LoopStep == LoopInv /\ [Next]_vars => LoopInv'
<1> SUFFICES ASSUME LoopInv, [Next]_vars PROVE LoopInv'
  OBVIOUS
<1>1. ASSUME NEW r \in Requests, StartLoop(r) \/ Generate(r) \/ Loop(r)
      PROVE  LoopInv'
  BY <1>1, StartSteps, RegenerateStep, QuietSteps DEF Generate, Loop
<1>2. CASE UNCHANGED vars
  BY <1>2 DEF vars, LoopInv, TypeOK, AwaitsInv, PostsAreBounded, NoEarlySurrender,
              ClientsAreClosed
<1> QED
  BY <1>1, <1>2 DEF Next, AllEnded

(* Every state of the nested loops satisfies the inductive invariant. *)
THEOREM LoopSafety == Spec => []LoopInv
BY LoopInit, LoopStep, PTL DEF Spec

(* The variables keep their types: in particular no round makes more       *)
(* retries than settings.llm_max_retries.                                  *)
THEOREM ProviderTypes == Spec => []TypeOK
<1>1. LoopInv => TypeOK
  BY DEF LoopInv
<1> QED
  BY <1>1, LoopSafety, PTL

(* A request costs between one post per round and retry, and the product   *)
(* of the two loops' bounds.                                               *)
THEOREM PostsBounded == Spec => []PostsAreBounded
<1>1. LoopInv => PostsAreBounded
  BY DEF LoopInv
<1> QED
  BY <1>1, LoopSafety, PTL

(* A transient failure is raised only after every retry, under its own name. *)
THEOREM NoSurrender == Spec => []NoEarlySurrender
<1>1. LoopInv => NoEarlySurrender
  BY DEF LoopInv
<1> QED
  BY <1>1, LoopSafety, PTL

(* A client is open exactly while its request posts or closes it. *)
THEOREM ClientsClosed == Spec => []ClientsAreClosed
<1>1. LoopInv => ClientsAreClosed
  BY DEF LoopInv
<1> QED
  BY <1>1, LoopSafety, PTL
=============================================================================
