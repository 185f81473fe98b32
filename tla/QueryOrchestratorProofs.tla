----------------------- MODULE QueryOrchestratorProofs -----------------------
(***************************************************************************)
(* Safety of the orchestrator for any number of requests, any submissions, *)
(* candidates and schemas, and any repair budget.                          *)
(***************************************************************************)
EXTENDS QueryOrchestrator, SqlGateProofs, FiniteSetTheorems

LEMMA EffectiveRowsType ==
    ASSUME NEW q \in Submission
    PROVE  EffectiveRows(q) \in Nat /\ EffectiveRows(q) <= MaxRows
BY OrchestratorAssumption DEF EffectiveRows, Submission

(* What a request that passed its first await carries. *)
Captured(r) == req[r] \in Submissions /\ snap[r] \in Snapshots

(* The gate, applied to a captured request. *)
LEMMA GateVerdict ==
    ASSUME NEW r, Captured(r), NEW c \in Candidates, NEW estimate
    PROVE  /\ Gate(r, c, estimate) \in Secured
           /\ Gate(r, c, estimate).ok = (Gate(r, c, estimate).issues = {})
           /\ Gate(r, c, estimate).ok =>
                 SafeStatement(Gate(r, c, estimate).stmt, snap[r], req[r].caller,
                               EffectiveRows(req[r]))
           /\ Gate(r, c, estimate).issues \cap PolicyCodes # {} =>
                 Gate(r, c, estimate).issues \subseteq PolicyCodes
<1>1. /\ c \in Candidate
      /\ snap[r] \in Snapshot
      /\ req[r] \in Submission
      /\ req[r].caller \in Callers
  BY OrchestratorAssumption DEF Captured, Submission
<1>2. EffectiveRows(req[r]) \in Nat
  BY <1>1, EffectiveRowsType
<1>3. Gate(r, c, estimate) \in Secured
  BY <1>1, <1>2, SecuredType DEF Gate
<1>4. Gate(r, c, estimate).ok = (Gate(r, c, estimate).issues = {})
  BY DEF Gate, SecureCandidate
<1>5. Gate(r, c, estimate).ok =>
         SafeStatement(Gate(r, c, estimate).stmt, snap[r], req[r].caller,
                       EffectiveRows(req[r]))
  BY <1>1, <1>2, GateClearsOnlySafe DEF Gate
<1>6. ASSUME Gate(r, c, estimate).issues \cap PolicyCodes # {}
      PROVE  Gate(r, c, estimate).issues \subseteq PolicyCodes
  BY <1>6, <1>1, PolicyFindingsComeAlone DEF Gate, SecureCandidate
<1> QED
  BY <1>3, <1>4, <1>5, <1>6

-----------------------------------------------------------------------------
(* Type correctness. *)


(* TypeOK is not inductive: it does not say that a request at an await has *)
(* captured what it works with, nor that repairs are counted in step with  *)
(* the rounds of the loop, whose bound is what bounds them.                *)
CapturedInv == \A r \in Requests : pc[r] \in {"generating", "executing"} => Captured(r)

RoundsInv == \A r \in Requests : attempts[r] = attempt[r]

TypeInv == TypeOK /\ CapturedInv /\ RoundsInv

LEMMA CountedType ==
    ASSUME NEW m \in [requests: Nat, clarifications: Nat, repair_attempts: Nat,
                      success: Nat, rejected: Nat],
           NEW counter \in {"requests", "clarifications", "repair_attempts",
                            "success", "rejected"}
    PROVE  Counted(m, counter) \in [requests: Nat, clarifications: Nat,
                                    repair_attempts: Nat, success: Nat, rejected: Nat]
BY DEF Counted

LEMMA ExecuteType ==
    ASSUME NEW available \in Nat, NEW limit \in Nat, NEW maxRows \in Nat
    PROVE  Execute(available, limit, maxRows) \in
              [available: Nat, rows: Nat, truncated: BOOLEAN]
BY DEF Execute, Fetched, Least

LEMMA InitTypes == Init => TypeInv
BY OrchestratorAssumption DEF Init, TypeInv, TypeOK, CapturedInv, RoundsInv,
                              NotSecured, NoResult, Secured, Replies

(* Each action keeps the types, what a request at an await has captured,   *)
(* and the two counts of rounds in step.                                   *)
LEMMA ArriveTypes ==
    ASSUME TypeInv, NEW r \in Requests, Arrive(r)
    PROVE  TypeInv'
<1> USE DEF TypeInv, TypeOK, CapturedInv, RoundsInv, Captured, Receive, Answer
<1>1. CASE RejectTenant(r)
  BY <1>1 DEF RejectTenant, Replies
<1>2. CASE AskClarification(r)
  BY <1>2 DEF AskClarification, Replies, Counted
<1>3. CASE SchemaFails(r)
  BY <1>3 DEF SchemaFails, Replies, Counted
<1>4. CASE StartGeneration(r)
  BY <1>4 DEF StartGeneration, Counted
<1> QED
  BY <1>1, <1>2, <1>3, <1>4 DEF Arrive

LEMMA ProviderTypes ==
    ASSUME TypeInv, NEW r \in Requests, ProviderAnswers(r)
    PROVE  TypeInv'
<1> USE DEF TypeInv, TypeOK, CapturedInv, RoundsInv, Answer
<1>1. ASSUME NEW c \in Candidates, NEW estimate
      PROVE  Gate(r, c, estimate) \in Secured
  <2>1. Captured(r)
    BY DEF ProviderAnswers, ProviderFails, Regenerate, Reject, AnswerPreview, StartExecution
  <2> QED
    BY <2>1, GateVerdict
<1>2. CASE ProviderFails(r)
  BY <1>2 DEF ProviderFails, Replies, Captured
<1>3. CASE Regenerate(r)
  <2>1. attempt[r] < MaxRepair /\ secured' \in [Requests -> Secured]
    BY <1>1, <1>3 DEF Regenerate, MayRepair
  <2>2. /\ attempt' \in [Requests -> 0..MaxRepair]
        /\ attempts' \in [Requests -> 0..MaxRepair]
    BY <2>1, <1>3, OrchestratorAssumption DEF Regenerate
  <2> QED
    BY <1>3, <2>1, <2>2 DEF Regenerate, Captured, Counted
<1>4. CASE Reject(r)
  <2>1. secured' \in [Requests -> Secured] /\ reply' \in [Requests -> Replies]
    BY <1>1, <1>4 DEF Reject, FailureOf, Replies, Rejections
  <2> QED
    BY <1>4, <2>1 DEF Reject, Captured, Counted
<1>5. CASE AnswerPreview(r)
  <2>1. secured' \in [Requests -> Secured]
    BY <1>1, <1>5 DEF AnswerPreview
  <2> QED
    BY <1>5, <2>1 DEF AnswerPreview, Captured, Counted, Replies
<1>6. CASE StartExecution(r)
  <2>1. secured' \in [Requests -> Secured]
    BY <1>1, <1>6 DEF StartExecution
  <2> QED
    BY <1>6, <2>1 DEF StartExecution, Captured
<1> QED
  BY <1>2, <1>3, <1>4, <1>5, <1>6 DEF ProviderAnswers

(* A request reaches the executor with a statement, not with None. *)
ClearedInv ==
    \A r \in Requests :
        pc[r] = "executing" \/ reply[r] \in {"preview", "success", "execution_error"} =>
            SafeStatement(secured[r].stmt, snap[r], req[r].caller, EffectiveRows(req[r]))

LEMMA ExecutorTypes ==
    ASSUME TypeInv, ClearedInv, NEW r \in Requests, ExecutorAnswers(r)
    PROVE  TypeInv'
<1> USE DEF TypeInv, TypeOK, CapturedInv, RoundsInv, Captured, Answer
<1>1. CASE ExecutionSucceeds(r)
  <2>1. secured[r].stmt.limit \in Nat
    BY <1>1 DEF ExecutionSucceeds, ClearedInv, SafeStatement, Statement
  <2>2. EffectiveRows(req[r]) \in Nat
    BY <1>1, EffectiveRowsType, OrchestratorAssumption DEF ExecutionSucceeds
  <2>3. \A n \in 0..MaxAvailable :
           Execute(n, secured[r].stmt.limit, EffectiveRows(req[r])) \in
              [available: Nat, rows: Nat, truncated: BOOLEAN]
    <3> TAKE n \in 0..MaxAvailable
    <3>1. n \in Nat
      BY OrchestratorAssumption
    <3> QED
      BY <2>1, <2>2, <3>1, ExecuteType
  <2>4. result' \in [Requests -> [available: Nat, rows: Nat, truncated: BOOLEAN]]
    BY <1>1, <2>3 DEF ExecutionSucceeds
  <2> QED
    BY <1>1, <2>4 DEF ExecutionSucceeds, Counted, Replies
<1>2. CASE ExecutionFails(r)
  BY <1>2 DEF ExecutionFails, Replies
<1> QED
  BY <1>1, <1>2 DEF ExecutorAnswers

-----------------------------------------------------------------------------
(* Safe statements. *)

(* Where each request stands, in terms of what it handed to the executor.  *)
HandedInv ==
    \A r \in Requests :
        /\ pc[r] # "done" => reply[r] = "none"
        /\ IF pc[r] = "executing" \/ reply[r] \in {"success", "execution_error"}
           THEN handed[r] = 1 /\ WantsRows(req[r])
           ELSE handed[r] = 0

(* What a request's last verdict may still be.                             *)
VerdictInv ==
    \A r \in Requests :
        /\ pc[r] = "idle" => secured[r].issues = {}
        /\ pc[r] = "executing" => secured[r].issues = {}
        /\ pc[r] = "generating" => secured[r].issues \cap NonRepairableCodes = {}

(* The inductive invariant of the orchestrator. *)
SafetyInv ==
    TypeInv /\ ClearedInv /\ HandedInv /\ VerdictInv /\ RejectionsAreHonest

LEMMA InitSafe == Init => SafetyInv
<1> SUFFICES ASSUME Init PROVE SafetyInv
  OBVIOUS
<1>1. ClearedInv /\ HandedInv
  BY DEF Init, ClearedInv, HandedInv
<1>2. VerdictInv /\ RejectionsAreHonest
  BY DEF Init, VerdictInv, RejectionsAreHonest, NotSecured
<1> QED
  BY <1>1, <1>2, InitTypes DEF SafetyInv

(* A step of one request leaves the others where they are, so each action  *)
(* has only its own request to answer for.                                 *)
LEMMA OneRequestMoves ==
    ASSUME TypeOK, NEW r \in Requests,
           Arrive(r) \/ ProviderAnswers(r) \/ ExecutorAnswers(r)
    PROVE  \A x \in Requests \ {r} :
               /\ pc'[x] = pc[x] /\ req'[x] = req[x] /\ snap'[x] = snap[x]
               /\ attempts'[x] = attempts[x] /\ secured'[x] = secured[x]
               /\ handed'[x] = handed[x] /\ reply'[x] = reply[x]
<1> USE DEF TypeOK, Answer, Receive
<1>1. CASE Arrive(r)
  BY <1>1 DEF Arrive, RejectTenant, AskClarification, SchemaFails, StartGeneration
<1>2. CASE ProviderAnswers(r)
  BY <1>2 DEF ProviderAnswers, ProviderFails, Regenerate, Reject, AnswerPreview,
              StartExecution
<1>3. CASE ExecutorAnswers(r)
  BY <1>3 DEF ExecutorAnswers, ExecutionSucceeds, ExecutionFails
<1> QED
  BY <1>1, <1>2, <1>3

(* The safety of request x alone. *)
SafeAt(x) ==
    /\ pc[x] = "executing" \/ reply[x] \in {"preview", "success", "execution_error"} =>
          SafeStatement(secured[x].stmt, snap[x], req[x].caller, EffectiveRows(req[x]))
    /\ pc[x] # "done" => reply[x] = "none"
    /\ IF pc[x] = "executing" \/ reply[x] \in {"success", "execution_error"}
       THEN handed[x] = 1 /\ WantsRows(req[x])
       ELSE handed[x] = 0
    /\ pc[x] = "idle" => secured[x].issues = {}
    /\ pc[x] = "executing" => secured[x].issues = {}
    /\ pc[x] = "generating" => secured[x].issues \cap NonRepairableCodes = {}
    /\ reply[x] = "repair_exhausted" =>
          attempts[x] = MaxRepair /\ IsRepairable(secured[x].issues)
    /\ secured[x].issues \cap NonRepairableCodes # {} =>
          reply[x] \in Rejections \ {"repair_exhausted"}
    /\ reply[x] = "authorization_denied" => secured[x].issues \subseteq PolicyCodes

LEMMA SafetyIsPointwise ==
    ClearedInv /\ HandedInv /\ VerdictInv /\ RejectionsAreHonest
        <=> \A x \in Requests : SafeAt(x)
BY DEF ClearedInv, HandedInv, VerdictInv, RejectionsAreHonest, SafeAt

LEMMA ArriveSafe ==
    ASSUME TypeInv, NEW r \in Requests, SafeAt(r), Arrive(r)
    PROVE  SafeAt(r)'
<1> USE DEF TypeInv, TypeOK, Receive, Answer, SafeAt
<1>0. secured'[r] = secured[r] /\ handed'[r] = handed[r] /\ pc[r] = "idle"
  BY DEF Arrive, RejectTenant, AskClarification, SchemaFails, StartGeneration
<1>1. CASE RejectTenant(r)
  BY <1>0, <1>1 DEF RejectTenant
<1>2. CASE AskClarification(r)
  BY <1>0, <1>2 DEF AskClarification
<1>3. CASE SchemaFails(r)
  BY <1>0, <1>3 DEF SchemaFails
<1>4. CASE StartGeneration(r)
  BY <1>0, <1>4 DEF StartGeneration
<1> QED
  BY <1>1, <1>2, <1>3, <1>4 DEF Arrive

(* The planner repairs nothing that is on the never-repair list. *)
LEMMA VerdictCodes ==
    ASSUME NEW r, Captured(r), NEW c \in Candidates, NEW estimate,
           ~Gate(r, c, estimate).ok
    PROVE  LET issues == Gate(r, c, estimate).issues
           IN  /\ FailureOf(issues) \in Rejections
               /\ FailureOf(issues) = "repair_exhausted" <=> IsRepairable(issues)
               /\ FailureOf(issues) = "authorization_denied" => issues \subseteq PolicyCodes
<1> DEFINE issues == Gate(r, c, estimate).issues
<1>1. issues \in SUBSET GateCodes /\ issues # {}
  BY GateVerdict DEF Secured
<1>2. FailureOf(issues) \in Rejections
  BY DEF FailureOf, Rejections
<1>3. FailureOf(issues) = "repair_exhausted" <=> IsRepairable(issues)
  BY <1>1, FailureIsHonest
<1>4. ASSUME FailureOf(issues) = "authorization_denied"
      PROVE  issues \subseteq PolicyCodes
  <2>1. issues \cap AuthCodes # {}
    BY <1>4 DEF FailureOf
  <2>2. AuthCodes = PolicyCodes
    BY DEF AuthCodes, PolicyCodes
  <2> QED
    BY <2>1, <2>2, GateVerdict
<1> QED
  BY <1>2, <1>3, <1>4

LEMMA ProviderSafe ==
    ASSUME TypeInv, NEW r \in Requests, SafeAt(r), ProviderAnswers(r)
    PROVE  SafeAt(r)'
<1> USE DEF TypeInv, TypeOK, Answer
<1>0. /\ pc[r] = "generating" /\ Captured(r)
      /\ handed[r] = 0 /\ reply[r] = "none"
      /\ req'[r] = req[r] /\ snap'[r] = snap[r]
  BY DEF SafeAt, CapturedInv, ProviderAnswers, ProviderFails, Regenerate, Reject,
         AnswerPreview, StartExecution
<1>1. CASE ProviderFails(r)
  BY <1>0, <1>1 DEF ProviderFails, SafeAt
<1>2. CASE Regenerate(r)
  <2>1. /\ pc'[r] = "generating" /\ reply'[r] = "none" /\ handed'[r] = 0
    BY <1>0, <1>2 DEF Regenerate
  <2>2. secured'[r].issues \cap NonRepairableCodes = {}
    BY <1>2 DEF Regenerate, MayRepair, IsRepairable
  <2> QED
    BY <2>1, <2>2 DEF SafeAt
<1>3. CASE Reject(r)
  <2>1. PICK c \in Candidates, estimate \in EstimatesFor(req[r]) :
           /\ ~Gate(r, c, estimate).ok
           /\ ~MayRepair(r, Gate(r, c, estimate).issues)
           /\ secured'[r] = Gate(r, c, estimate)
           /\ reply'[r] = FailureOf(Gate(r, c, estimate).issues)
    BY <1>3 DEF Reject
  <2> DEFINE issues == Gate(r, c, estimate).issues
  <2>2. /\ FailureOf(issues) \in Rejections
        /\ FailureOf(issues) = "repair_exhausted" <=> IsRepairable(issues)
        /\ FailureOf(issues) = "authorization_denied" => issues \subseteq PolicyCodes
    BY <1>0, <2>1, VerdictCodes
  <2>3. /\ pc'[r] = "done" /\ handed'[r] = 0
        /\ attempts'[r] = attempts[r] /\ attempts[r] = attempt[r]
        /\ secured'[r].issues = issues
    BY <1>0, <1>3, <2>1 DEF Reject, RoundsInv
  <2>4. IsRepairable(issues) => attempts[r] = MaxRepair
    <3>1. attempt[r] \in 0..MaxRepair
      OBVIOUS
    <3>2. IsRepairable(issues) => ~(attempt[r] < MaxRepair)
      BY <2>1 DEF MayRepair
    <3>3. attempts[r] = attempt[r]
      BY <2>3
    <3> HIDE DEF issues, TypeInv, TypeOK, Answer
    <3>4. ~(attempt[r] < MaxRepair) => attempt[r] = MaxRepair
      BY <3>1, OrchestratorAssumption
    <3> QED
      BY <3>2, <3>3, <3>4
  <2>5. issues \cap NonRepairableCodes # {} => ~IsRepairable(issues)
    BY DEF IsRepairable
  <2>6. reply'[r] \notin {"preview", "success", "execution_error"}
    BY <2>1, <2>2 DEF Rejections
  <2> QED
    BY <2>1, <2>2, <2>3, <2>4, <2>5, <2>6 DEF SafeAt
<1>4. ASSUME NEW c \in Candidates, NEW estimate \in EstimatesFor(req[r]),
             Gate(r, c, estimate).ok,
             secured' = [secured EXCEPT ![r] = Gate(r, c, estimate)]
      PROVE  /\ secured'[r].issues = {}
             /\ SafeStatement(secured'[r].stmt, snap[r], req[r].caller,
                              EffectiveRows(req[r]))
  BY <1>0, <1>4, GateVerdict
<1>5. (EffectiveRows(req[r]))' = EffectiveRows(req[r])
  BY <1>0 DEF EffectiveRows
<1>6. CASE AnswerPreview(r)
  <2>1. /\ secured'[r].issues = {}
        /\ SafeStatement(secured'[r].stmt, snap[r], req[r].caller,
                         EffectiveRows(req[r]))
    BY <1>4, <1>6 DEF AnswerPreview
  <2>2. pc'[r] = "done" /\ reply'[r] = "preview" /\ handed'[r] = 0
    BY <1>0, <1>6 DEF AnswerPreview
  <2> QED
    BY <1>0, <1>5, <2>1, <2>2 DEF SafeAt
<1>7. CASE StartExecution(r)
  <2>1. /\ secured'[r].issues = {}
        /\ SafeStatement(secured'[r].stmt, snap[r], req[r].caller,
                         EffectiveRows(req[r]))
    BY <1>4, <1>7 DEF StartExecution
  <2>2. pc'[r] = "executing" /\ reply'[r] = "none" /\ handed'[r] = 1
    BY <1>0, <1>7 DEF StartExecution
  <2>3. WantsRows(req[r])
    BY <1>7 DEF StartExecution, DoExecute, WantsRows
  <2> QED
    BY <1>0, <1>5, <2>1, <2>2, <2>3 DEF SafeAt, WantsRows
<1> QED
  BY <1>1, <1>2, <1>3, <1>6, <1>7 DEF ProviderAnswers

LEMMA ExecutorSafe ==
    ASSUME TypeInv, NEW r \in Requests, SafeAt(r), ExecutorAnswers(r)
    PROVE  SafeAt(r)'
<1>1. /\ pc[r] = "executing" /\ pc'[r] = "done"
      /\ reply'[r] \in {"success", "execution_error"}
      /\ req'[r] = req[r] /\ snap'[r] = snap[r] /\ secured'[r] = secured[r]
      /\ handed'[r] = handed[r]
  BY DEF TypeInv, TypeOK, Answer, ExecutorAnswers, ExecutionSucceeds, ExecutionFails
<1> QED
  BY <1>1 DEF SafeAt, EffectiveRows, WantsRows

LEMMA StepSafe == SafetyInv /\ [Next]_vars => SafetyInv'
<1> SUFFICES ASSUME SafetyInv, [Next]_vars PROVE SafetyInv'
  OBVIOUS
<1>1. TypeInv /\ ClearedInv /\ \A x \in Requests : SafeAt(x)
  BY SafetyIsPointwise DEF SafetyInv
<1>2. CASE \E r \in Requests : Arrive(r) \/ ProviderAnswers(r) \/ ExecutorAnswers(r)
  <2>1. PICK r \in Requests : Arrive(r) \/ ProviderAnswers(r) \/ ExecutorAnswers(r)
    BY <1>2
  <2>2. TypeInv'
    BY <1>1, <2>1, ArriveTypes, ProviderTypes, ExecutorTypes
  <2>3. SafeAt(r)'
    BY <1>1, <2>1, ArriveSafe, ProviderSafe, ExecutorSafe
  <2>4. ASSUME NEW x \in Requests \ {r}
        PROVE  SafeAt(x)'
    <3>1. /\ pc'[x] = pc[x] /\ req'[x] = req[x] /\ snap'[x] = snap[x]
          /\ attempts'[x] = attempts[x] /\ secured'[x] = secured[x]
          /\ handed'[x] = handed[x] /\ reply'[x] = reply[x]
      BY <1>1, <2>1, <2>4, OneRequestMoves DEF TypeInv
    <3> QED
      BY <1>1, <2>4, <3>1 DEF SafeAt, EffectiveRows, WantsRows
  <2>5. \A x \in Requests : SafeAt(x)'
    BY <2>3, <2>4
  <2>6. (\A x \in Requests : SafeAt(x))'
    BY <2>5
  <2>7. (ClearedInv /\ HandedInv /\ VerdictInv /\ RejectionsAreHonest)'
    BY <2>6, SafetyIsPointwise, PTL
  <2> QED
    BY <2>2, <2>7 DEF SafetyInv
<1>3. CASE UNCHANGED vars
  BY <1>3 DEF vars, SafetyInv, TypeInv, TypeOK, CapturedInv, RoundsInv, Captured,
              ClearedInv, HandedInv, VerdictInv, RejectionsAreHonest, EffectiveRows,
              WantsRows
<1> QED
  BY <1>2, <1>3 DEF Next, AllAnswered

(* Every state the orchestrator reaches satisfies the inductive invariant, *)
(* in which a statement that is shown or run is a SafeStatement, with what *)
(* that says of columns read plainly and not of others.                    *)
THEOREM Safety == Spec => []SafetyInv
BY InitSafe, StepSafe, PTL DEF Spec, SafetySpec

(* The variables keep their types: in particular the repair counters never *)
(* pass settings.max_repair_attempts.                                      *)
THEOREM TypeCorrect == Spec => []TypeOK
<1>1. SafetyInv => TypeOK
  BY DEF SafetyInv, TypeInv
<1> QED
  BY <1>1, Safety, PTL

(* Whatever the provider answers and however requests interleave, only a   *)
(* statement the whole gate cleared for its own caller is shown or run,    *)
(* and it is run at most once, and only for a caller who wants rows.  Such *)
(* a statement is a SafeStatement: the columns it reads plainly are        *)
(* visible to that caller, its tenants' tables are scoped, its rows capped. *)
THEOREM Safe == Spec => []OnlySafeStatements
<1>1. SafetyInv => OnlySafeStatements
  BY DEF SafetyInv, ClearedInv, HandedInv, OnlySafeStatements
<1> QED
  BY <1>1, Safety, PTL

(* repair_exhausted is told only after every repair was spent on findings  *)
(* worth repairing; what may never be repaired ends the request at once.   *)
THEOREM Honest == Spec => []RejectionsAreHonest
<1>1. SafetyInv => RejectionsAreHonest
  BY DEF SafetyInv
<1> QED
  BY <1>1, Safety, PTL
-----------------------------------------------------------------------------
(* Rows. *)

(* The statement's own LIMIT is within the cap, so the fetch of one row    *)
(* beyond the cap never truncates.                                         *)
LEMMA ExecuteIsExact ==
    ASSUME NEW available \in Nat, NEW maxRows \in Nat, NEW limit \in Nat,
           limit <= maxRows
    PROVE  LET out == Execute(available, limit, maxRows)
           IN  /\ out.available = available
               /\ out.rows <= maxRows
               /\ out.rows \in {available, limit}
               /\ out.rows <= available
BY DEF Execute, Fetched, Least

LEMMA StepRows == SafetyInv /\ RowsAreExact /\ [Next]_vars => RowsAreExact'
<1> SUFFICES ASSUME SafetyInv, RowsAreExact, [Next]_vars,
                    NEW x \in Requests, reply'[x] = "success"
             PROVE  /\ result'[x].rows <= EffectiveRows(req'[x])
                    /\ result'[x].rows \in {result'[x].available, secured'[x].stmt.limit}
                    /\ result'[x].rows <= result'[x].available
  BY DEF RowsAreExact, EffectiveRows
<1>1. TypeOK /\ CapturedInv /\ HandedInv
  BY DEF SafetyInv, TypeInv
<1>2. CASE /\ reply[x] = "success" /\ result'[x] = result[x]
           /\ req'[x] = req[x] /\ secured'[x] = secured[x]
  BY <1>2 DEF RowsAreExact, EffectiveRows
<1>3. CASE ExecutionSucceeds(x)
  <2>1. /\ req'[x] = req[x] /\ secured'[x] = secured[x]
        /\ SafeStatement(secured[x].stmt, snap[x], req[x].caller, EffectiveRows(req[x]))
    BY <1>3 DEF ExecutionSucceeds, SafetyInv, ClearedInv
  <2>2. secured[x].stmt.limit \in Nat /\ secured[x].stmt.limit <= EffectiveRows(req[x])
    BY <2>1 DEF SafeStatement, Statement
  <2>3. EffectiveRows(req[x]) \in Nat
    BY <1>1, <1>3, EffectiveRowsType, OrchestratorAssumption
       DEF ExecutionSucceeds, CapturedInv, Captured
  <2>4. PICK available \in 0..MaxAvailable :
           result'[x] = Execute(available, secured[x].stmt.limit, EffectiveRows(req[x]))
    BY <1>1, <1>3 DEF ExecutionSucceeds, TypeOK
  <2>5. available \in Nat
    BY OrchestratorAssumption
  <2> QED
    BY <2>1, <2>2, <2>3, <2>4, <2>5, ExecuteIsExact
<1>4. ASSUME NEW r \in Requests, Arrive(r) \/ ProviderAnswers(r) \/ ExecutorAnswers(r)
      PROVE  \/ reply[x] = "success" /\ result'[x] = result[x]
                /\ req'[x] = req[x] /\ secured'[x] = secured[x]
             \/ ExecutionSucceeds(x)
  <2>1. CASE r # x
    <3>1. /\ reply'[x] = reply[x] /\ req'[x] = req[x] /\ secured'[x] = secured[x]
      BY <1>1, <1>4, <2>1, OneRequestMoves
    <3>2. result'[x] = result[x]
      BY <1>1, <1>4, <2>1
         DEF TypeOK, Arrive, RejectTenant, AskClarification, SchemaFails, StartGeneration,
             ProviderAnswers, ProviderFails, Regenerate, Reject, AnswerPreview,
             StartExecution, ExecutorAnswers, ExecutionSucceeds, ExecutionFails
    <3> QED
      BY <3>1, <3>2
  <2>2. CASE r = x
    <3>1. reply[x] = "none"
      BY <1>1, <1>4, <2>2
         DEF HandedInv, Arrive, RejectTenant, AskClarification, SchemaFails,
             StartGeneration, Receive, ProviderAnswers, ProviderFails, Regenerate, Reject,
             AnswerPreview, StartExecution, ExecutorAnswers, ExecutionSucceeds, ExecutionFails
    <3>2. ~Arrive(x)
      BY <1>1, <3>1 DEF TypeOK, Answer, Arrive, RejectTenant, AskClarification, SchemaFails,
                        StartGeneration
    <3>3. ~ProviderAnswers(x)
      BY <1>1, <3>1 DEF TypeOK, Answer, ProviderAnswers, ProviderFails, Regenerate, Reject,
                        AnswerPreview, StartExecution, FailureOf
    <3>4. ~ExecutionFails(x)
      BY <1>1 DEF TypeOK, Answer, ExecutionFails
    <3> QED
      BY <1>4, <2>2, <3>2, <3>3, <3>4 DEF ExecutorAnswers
  <2> QED
    BY <2>1, <2>2
<1>5. CASE UNCHANGED vars
  BY <1>2, <1>5 DEF vars
<1> QED
  BY <1>2, <1>3, <1>4, <1>5 DEF Next, AllAnswered

(* An answer holds as many rows as the database had, the statement's LIMIT *)
(* and the request's cap allow: none is lost between them.                 *)
THEOREM RowsExact == Spec => []RowsAreExact
<1>1. Init => RowsAreExact
  BY DEF Init, RowsAreExact
<1> QED
  BY <1>1, Safety, StepRows, PTL DEF Spec, SafetySpec

-----------------------------------------------------------------------------
(* Counters. *)

Admitted == {r \in Requests : pc[r] # "idle" /\ reply[r] # "tenant_mismatch"}
Clarified == {r \in Requests : reply[r] = "clarification_required"}
Succeeded == {r \in Requests : reply[r] \in {"preview", "success"}}
Rejected == {r \in Requests : reply[r] \in Rejections}

LEMMA OneJoins ==
    ASSUME NEW S \in SUBSET Requests, NEW T \in SUBSET Requests,
           NEW r \in Requests, S \ {r} = T \ {r}, r \in S => r \in T
    PROVE  Cardinality(T) = IF r \in T \ S THEN Cardinality(S) + 1 ELSE Cardinality(S)
<1>1. IsFiniteSet(S)
  BY RequestsAreFinite, FS_Subset
<1>2. CASE r \in T \ S
  <2>1. T = S \cup {r}
    BY <1>2
  <2> QED
    BY <1>1, <1>2, <2>1, FS_AddElement
<1>3. CASE r \notin T \ S
  <2>1. T = S
    BY <1>3
  <2> QED
    BY <1>3, <2>1
<1> QED
  BY <1>2, <1>3

(* What the step of request r adds to each counter. *)
LEMMA CountersMove ==
    ASSUME SafetyInv, NEW r \in Requests,
           Arrive(r) \/ ProviderAnswers(r) \/ ExecutorAnswers(r)
    PROVE  /\ metrics'.requests =
                  IF r \in Admitted' \ Admitted THEN metrics.requests + 1
                  ELSE metrics.requests
           /\ metrics'.clarifications =
                  IF r \in Clarified' THEN metrics.clarifications + 1
                  ELSE metrics.clarifications
           /\ metrics'.success =
                  IF r \in Succeeded' THEN metrics.success + 1 ELSE metrics.success
           /\ metrics'.rejected =
                  IF r \in Rejected' THEN metrics.rejected + 1 ELSE metrics.rejected
           /\ reply[r] = "none"
<1> USE DEF Answer, Counted, Admitted, Clarified, Succeeded, Rejected, Rejections
<1>0. TypeOK /\ HandedInv /\ CapturedInv
  BY DEF SafetyInv, TypeInv
<1>1. CASE RejectTenant(r)
  BY <1>0, <1>1 DEF RejectTenant, Receive, TypeOK, HandedInv
<1>2. CASE AskClarification(r)
  BY <1>0, <1>2 DEF AskClarification, Receive, TypeOK, HandedInv
<1>3. CASE SchemaFails(r)
  BY <1>0, <1>3 DEF SchemaFails, Receive, TypeOK, HandedInv
<1>4. CASE StartGeneration(r)
  BY <1>0, <1>4 DEF StartGeneration, Receive, TypeOK, HandedInv
<1>5. CASE ProviderFails(r)
  BY <1>0, <1>5 DEF ProviderFails, TypeOK, HandedInv
<1>6. CASE Regenerate(r)
  BY <1>0, <1>6 DEF Regenerate, TypeOK, HandedInv
<1>7. CASE Reject(r)
  <2>1. /\ pc[r] = "generating" /\ pc'[r] = "done" /\ reply[r] = "none"
        /\ metrics' = [metrics EXCEPT !.rejected = @ + 1]
    BY <1>0, <1>7 DEF Reject, TypeOK, HandedInv
  <2>2. reply'[r] \in Rejections
    BY <1>0, <1>7 DEF Reject, TypeOK, FailureOf
  <2> QED
    BY <1>0, <2>1, <2>2 DEF TypeOK
<1>8. CASE AnswerPreview(r)
  BY <1>0, <1>8 DEF AnswerPreview, TypeOK, HandedInv
<1>9. CASE StartExecution(r)
  BY <1>0, <1>9 DEF StartExecution, TypeOK, HandedInv
<1>10. CASE ExecutionSucceeds(r)
  BY <1>0, <1>10 DEF ExecutionSucceeds, TypeOK, HandedInv
<1>11. CASE ExecutionFails(r)
  BY <1>0, <1>11 DEF ExecutionFails, TypeOK, HandedInv
<1> QED
  BY <1>1, <1>2, <1>3, <1>4, <1>5, <1>6, <1>7, <1>8, <1>9, <1>10, <1>11
     DEF Arrive, ProviderAnswers, ExecutorAnswers

LEMMA StepCounters == SafetyInv /\ CountersAgree /\ [Next]_vars => CountersAgree'
<1> SUFFICES ASSUME SafetyInv, CountersAgree, [Next]_vars PROVE CountersAgree'
  OBVIOUS
<1>1. CASE \E r \in Requests : Arrive(r) \/ ProviderAnswers(r) \/ ExecutorAnswers(r)
  <2>1. PICK r \in Requests : Arrive(r) \/ ProviderAnswers(r) \/ ExecutorAnswers(r)
    BY <1>1
  <2>2. TypeOK /\ HandedInv
    BY DEF SafetyInv, TypeInv
  <2>3. \A x \in Requests \ {r} : pc'[x] = pc[x] /\ reply'[x] = reply[x]
    BY <2>1, <2>2, OneRequestMoves
  <2>4. pc[r] # "done" /\ (pc[r] # "idle" => pc'[r] # "idle" /\ reply'[r] # "tenant_mismatch")
    BY <2>1, <2>2
       DEF TypeOK, Answer, Receive, Arrive, RejectTenant, AskClarification, SchemaFails,
           StartGeneration, ProviderAnswers, ProviderFails, Regenerate, Reject, FailureOf,
           AnswerPreview, StartExecution, ExecutorAnswers, ExecutionSucceeds,
           ExecutionFails, HandedInv
  <2>5. /\ Admitted \ {r} = Admitted' \ {r} /\ (r \in Admitted => r \in Admitted')
        /\ Admitted \in SUBSET Requests /\ Admitted' \in SUBSET Requests
    BY <2>3, <2>4 DEF Admitted
  <2>6. /\ Clarified \ {r} = Clarified' \ {r} /\ r \notin Clarified
        /\ Clarified \in SUBSET Requests /\ Clarified' \in SUBSET Requests
    BY <2>1, <2>3, CountersMove DEF Clarified
  <2>7. /\ Succeeded \ {r} = Succeeded' \ {r} /\ r \notin Succeeded
        /\ Succeeded \in SUBSET Requests /\ Succeeded' \in SUBSET Requests
    BY <2>1, <2>3, CountersMove DEF Succeeded
  <2>8. /\ Rejected \ {r} = Rejected' \ {r} /\ r \notin Rejected
        /\ Rejected \in SUBSET Requests /\ Rejected' \in SUBSET Requests
    BY <2>1, <2>3, CountersMove DEF Rejected, Rejections
  <2>9. /\ metrics.requests = Cardinality(Admitted)
        /\ metrics.clarifications = Cardinality(Clarified)
        /\ metrics.success = Cardinality(Succeeded)
        /\ metrics.rejected = Cardinality(Rejected)
    BY DEF CountersAgree, Admitted, Clarified, Succeeded, Rejected
  <2>10. metrics'.requests = Cardinality(Admitted')
    BY <2>1, <2>5, <2>9, OneJoins, CountersMove
  <2>11. metrics'.clarifications = Cardinality(Clarified')
    BY <2>1, <2>6, <2>9, OneJoins, CountersMove
  <2>12. metrics'.success = Cardinality(Succeeded')
    BY <2>1, <2>7, <2>9, OneJoins, CountersMove
  <2>13. metrics'.rejected = Cardinality(Rejected')
    BY <2>1, <2>8, <2>9, OneJoins, CountersMove
  <2> QED
    BY <2>10, <2>11, <2>12, <2>13
       DEF CountersAgree, Admitted, Clarified, Succeeded, Rejected
<1>2. CASE UNCHANGED vars
  BY <1>2 DEF vars, CountersAgree
<1> QED
  BY <1>1, <1>2 DEF Next, AllAnswered

(* Under every interleaving the process-wide counters are the numbers of   *)
(* requests they are about.                                                *)
THEOREM CountersAlwaysAgree == Spec => []CountersAgree
<1>1. Init => CountersAgree
  <2> SUFFICES ASSUME Init PROVE CountersAgree
    OBVIOUS
  <2>1. Admitted = {} /\ Clarified = {} /\ Succeeded = {} /\ Rejected = {}
    BY DEF Init, Admitted, Clarified, Succeeded, Rejected, Rejections
  <2>2. /\ metrics.requests = 0 /\ metrics.clarifications = 0
        /\ metrics.success = 0 /\ metrics.rejected = 0
    BY DEF Init
  <2>3. Cardinality({}) = 0
    BY FS_EmptySet
  <2> QED
    BY <2>1, <2>2, <2>3 DEF CountersAgree, Admitted, Clarified, Succeeded, Rejected
<1> QED
  BY <1>1, Safety, StepCounters, PTL DEF Spec, SafetySpec

-----------------------------------------------------------------------------
(* Repairs. *)

(* The sum of f over S, and the recursive function that MapThenSumSet      *)
(* unfolds to.  The library's induction theorems take an operator; here    *)
(* the induction runs over the set of the numbers the claim holds for.     *)
SumOver(f, S) == MapThenSumSet(LAMBDA x : f[x], S)

Pick(s) == CHOOSE x \in s : TRUE

Terms(f, h, s) == IF s = {} THEN 0 ELSE f[Pick(s)] + h[s \ {Pick(s)}]

Iter(f, S) == CHOOSE h : h = [s \in SUBSET S |-> Terms(f, h, s)]

LEMMA NatByInduction ==
    ASSUME NEW X \in SUBSET Nat, 0 \in X, \A n \in X : n + 1 \in X
    PROVE  X = Nat
<1> DEFINE Bad == Nat \ X
<1>1. SUFFICES ASSUME Bad # {} PROVE FALSE
  OBVIOUS
<1>2. PICK m \in Bad : \A y \in Bad : ~ (<<y, m>> \in OpToRel(<, Nat))
  BY <1>1, NatLessThanWellFounded, WFMin
<1>3. m \in Nat /\ m \notin X
  OBVIOUS
<1>4. m # 0 /\ m - 1 \in Nat
  BY <1>3
<1>5. <<m - 1, m>> \in OpToRel(<, Nat)
  BY <1>3, <1>4 DEF OpToRel
<1>6. m - 1 \in X
  BY <1>2, <1>3, <1>4, <1>5, Zenon
<1> QED
  BY <1>3, <1>4, <1>6

(* The recursive function exists: it is built up by the size of the sets.  *)
LEMMA IterExists ==
    ASSUME NEW f, NEW S, IsFiniteSet(S)
    PROVE  \E h : h = [s \in SUBSET S |-> Terms(f, h, s)]
<1> DEFINE Upto(n) == {s \in SUBSET S : Cardinality(s) <= n}
           X == {n \in Nat : \E h : h = [s \in Upto(n) |-> Terms(f, h, s)]}
<1>0. ASSUME NEW s \in SUBSET S, s # {}
      PROVE  /\ s \ {Pick(s)} \in SUBSET S
             /\ Cardinality(s \ {Pick(s)}) = Cardinality(s) - 1
             /\ Cardinality(s) \in Nat
  <2>1. IsFiniteSet(s) /\ Pick(s) \in s
    BY <1>0, FS_Subset DEF Pick
  <2> QED
    BY <2>1, FS_RemoveElement, FS_CardinalityType
<1>e. Cardinality({}) = 0
  BY FS_EmptySet
<1>1. 0 \in X
  <2>1. Upto(0) = {{}}
    <3>1. ASSUME NEW s \in SUBSET S, Cardinality(s) <= 0 PROVE s = {}
      BY <3>1, FS_Subset, FS_EmptySet, FS_CardinalityType
    <3> QED
      BY <3>1, <1>e
  <2>2. [s \in Upto(0) |-> 0] = [s \in Upto(0) |-> Terms(f, [u \in Upto(0) |-> 0], s)]
    BY <2>1 DEF Terms
  <2> QED
    BY <2>2
<1>2. ASSUME NEW n \in X PROVE n + 1 \in X
  <2>1. PICK h : h = [s \in Upto(n) |-> Terms(f, h, s)]
    OBVIOUS
  <2> DEFINE g == [s \in Upto(n + 1) |-> IF s \in Upto(n) THEN h[s] ELSE Terms(f, h, s)]
  <2>2. ASSUME NEW s \in Upto(n + 1)
        PROVE  g[s] = Terms(f, g, s)
    <3>1. g[s] = Terms(f, h, s)
      BY <2>1
    <3>2. CASE s = {}
      BY <3>1, <3>2 DEF Terms
    <3>3. CASE s # {}
      <4>1. s \ {Pick(s)} \in Upto(n) /\ s \ {Pick(s)} \in Upto(n+1)
        BY <3>3, <1>0
      <4>2. g[s \ {Pick(s)}] = h[s \ {Pick(s)}]
        BY <4>1
      <4> QED
        BY <3>1, <4>2 DEF Terms
    <3> QED
      BY <3>2, <3>3
  <2> HIDE DEF g
  <2>3. g = [s \in Upto(n + 1) |-> g[s]]
    BY DEF g
  <2>4. g = [s \in Upto(n + 1) |-> Terms(f, g, s)]
    BY <2>2, <2>3
  <2>5. \E k : k = [s \in Upto(n + 1) |-> Terms(f, k, s)]
    BY <2>4
  <2>6. n + 1 \in Nat
    OBVIOUS
  <2> QED
    BY <2>5, <2>6, Zenon
<1>3. X = Nat
  <2> HIDE DEF X
  <2>1. X \in SUBSET Nat
    BY DEF X
  <2> QED
    BY <2>1, <1>1, <1>2, NatByInduction
<1>4. Cardinality(S) \in X
  BY <1>3, FS_CardinalityType
<1>5. Upto(Cardinality(S)) = SUBSET S
  BY FS_Subset
<1> QED
  BY <1>4, <1>5

LEMMA IterTerms ==
    ASSUME NEW f, NEW S, IsFiniteSet(S), NEW s \in SUBSET S
    PROVE  Iter(f, S)[s] = Terms(f, Iter(f, S), s)
<1>1. \E h : h = [t \in SUBSET S |-> Terms(f, h, t)]
  BY IterExists
<1>2. Iter(f, S) = [t \in SUBSET S |-> Terms(f, Iter(f, S), t)]
  BY <1>1 DEF Iter
<1> QED
  BY <1>2

LEMMA SumIter ==
    ASSUME NEW f, NEW S
    PROVE  SumOver(f, S) = Iter(f, S)[S]
BY DEF SumOver, MapThenSumSet, MapThenFoldSet, Iter, Terms, Pick

(* One more in one place is one more in the sum. *)
LEMMA SumMoves ==
    ASSUME NEW S, IsFiniteSet(S), NEW r \in S, NEW f \in [S -> Int]
    PROVE  /\ SumOver(f, S) \in Int
           /\ SumOver([f EXCEPT ![r] = @ + 1], S) = SumOver(f, S) + 1
<1> DEFINE g == [f EXCEPT ![r] = @ + 1]
           F == Iter(f, S)
           G == Iter(g, S)
           Moved(s) == F[s] \in Int /\ G[s] = F[s] + (IF r \in s THEN 1 ELSE 0)
           X == {n \in Nat : \A s \in SUBSET S : Cardinality(s) <= n => Moved(s)}
<1>1. ASSUME NEW s \in SUBSET S
      PROVE  F[s] = Terms(f, F, s) /\ G[s] = Terms(g, G, s)
  BY IterTerms, Zenon
<1> HIDE DEF F, G
<1>2. Moved({})
  <2>1. {} \in SUBSET S
    OBVIOUS
  <2>2. F[{}] = 0 /\ G[{}] = 0
    BY <1>1, <2>1 DEF Terms
  <2> QED
    BY <2>2
<1>3. 0 \in X
  <2>1. ASSUME NEW s \in SUBSET S, Cardinality(s) <= 0 PROVE s = {}
    BY <2>1, FS_Subset, FS_EmptySet, FS_CardinalityType
  <2> QED
    BY <2>1, <1>2
<1>4. ASSUME NEW n \in X PROVE n + 1 \in X
  <2>1. ASSUME NEW s \in SUBSET S, Cardinality(s) <= n + 1, s # {}
        PROVE  Moved(s)
    <3> DEFINE x == Pick(s)
    <3>1. x \in s /\ IsFiniteSet(s)
      BY <2>1, FS_Subset DEF Pick
    <3>2. Cardinality(s \ {x}) = Cardinality(s) - 1 /\ Cardinality(s) \in Nat
      BY <3>1, FS_RemoveElement, FS_CardinalityType
    <3>3. Moved(s \ {x})
      BY <2>1, <3>2
    <3>4. F[s] = f[x] + F[s \ {x}] /\ G[s] = g[x] + G[s \ {x}]
      BY <2>1, <1>1 DEF Terms
    <3>5. f[x] \in Int /\ g[x] = IF x = r THEN f[x] + 1 ELSE f[x]
      BY <3>1
    <3> HIDE DEF g, x
    <3> QED
      BY <3>1, <3>3, <3>4, <3>5
  <2>2. n + 1 \in Nat
    OBVIOUS
  <2> HIDE DEF Moved
  <2> QED
    BY <1>2, <2>1, <2>2
<1>5. X = Nat
  <2>1. X \in SUBSET Nat
    OBVIOUS
  <2> HIDE DEF X
  <2> QED
    BY <1>3, <1>4, <2>1, NatByInduction
<1>6. Moved(S)
  BY <1>5, FS_CardinalityType
<1> QED
  BY <1>6, SumIter DEF F, G

LEMMA SumOfZeros ==
    ASSUME NEW S, IsFiniteSet(S), NEW f, \A x \in S : f[x] = 0
    PROVE  SumOver(f, S) = 0
<1> DEFINE F == Iter(f, S)
           X == {n \in Nat : \A s \in SUBSET S : Cardinality(s) <= n => F[s] = 0}
<1>1. ASSUME NEW s \in SUBSET S
      PROVE  F[s] = Terms(f, F, s)
  BY IterTerms, Zenon
<1> HIDE DEF F
<1>2. F[{}] = 0
  <2>1. {} \in SUBSET S
    OBVIOUS
  <2> QED
    BY <1>1, <2>1 DEF Terms
<1>3. 0 \in X
  <2>1. ASSUME NEW s \in SUBSET S, Cardinality(s) <= 0 PROVE s = {}
    BY <2>1, FS_Subset, FS_EmptySet, FS_CardinalityType
  <2> QED
    BY <2>1, <1>2
<1>4. ASSUME NEW n \in X PROVE n + 1 \in X
  <2>1. ASSUME NEW s \in SUBSET S, Cardinality(s) <= n + 1, s # {}
        PROVE  F[s] = 0
    <3>1. Pick(s) \in s /\ IsFiniteSet(s)
      BY <2>1, FS_Subset DEF Pick
    <3>2. Cardinality(s \ {Pick(s)}) = Cardinality(s) - 1 /\ Cardinality(s) \in Nat
      BY <3>1, FS_RemoveElement, FS_CardinalityType
    <3>3. F[s \ {Pick(s)}] = 0
      BY <2>1, <3>2
    <3>4. F[s] = f[Pick(s)] + F[s \ {Pick(s)}]
      BY <2>1, <1>1 DEF Terms
    <3> QED
      BY <3>1, <3>3, <3>4
  <2>2. n + 1 \in Nat
    OBVIOUS
  <2> QED
    BY <1>2, <2>1, <2>2
<1>5. X = Nat
  <2>1. X \in SUBSET Nat
    OBVIOUS
  <2> HIDE DEF X
  <2> QED
    BY <1>3, <1>4, <2>1, NatByInduction
<1>6. F[S] = 0
  BY <1>5, FS_CardinalityType
<1> QED
  BY <1>6, SumIter DEF F

LEMMA StepRepairs ==
    SafetyInv /\ metrics.repair_attempts = SumOver(attempts, Requests) /\ [Next]_vars
        => metrics'.repair_attempts = SumOver(attempts', Requests)
<1> SUFFICES ASSUME SafetyInv, metrics.repair_attempts = SumOver(attempts, Requests),
                    [Next]_vars
             PROVE  metrics'.repair_attempts = SumOver(attempts', Requests)
  OBVIOUS
<1>1. TypeOK
  BY DEF SafetyInv, TypeInv
<1>2. CASE attempts' = attempts /\ metrics'.repair_attempts = metrics.repair_attempts
  BY <1>2
<1>3. ASSUME NEW r \in Requests, Regenerate(r)
      PROVE  metrics'.repair_attempts = SumOver(attempts', Requests)
  <2>1. attempts \in [Requests -> Int]
    BY <1>1, OrchestratorAssumption DEF TypeOK
  <2>2. /\ attempts' = [attempts EXCEPT ![r] = @ + 1]
        /\ metrics'.repair_attempts = metrics.repair_attempts + 1
    BY <1>1, <1>3 DEF Regenerate, Counted, TypeOK
  <2>3. SumOver([attempts EXCEPT ![r] = @ + 1], Requests) = SumOver(attempts, Requests) + 1
    BY <2>1, RequestsAreFinite, SumMoves
  <2> QED
    BY <2>2, <2>3
<1>4. ASSUME NEW r \in Requests, Arrive(r) \/ ProviderAnswers(r) \/ ExecutorAnswers(r),
             ~Regenerate(r)
      PROVE  attempts' = attempts /\ metrics'.repair_attempts = metrics.repair_attempts
  BY <1>1, <1>4
     DEF TypeOK, Counted, Arrive, RejectTenant, AskClarification, SchemaFails,
         StartGeneration, ProviderAnswers, ProviderFails, Reject, AnswerPreview,
         StartExecution, ExecutorAnswers, ExecutionSucceeds, ExecutionFails
<1>5. CASE UNCHANGED vars
  BY <1>2, <1>5 DEF vars
<1> QED
  BY <1>2, <1>3, <1>4, <1>5 DEF Next, AllAnswered

(* t2sql_repair_attempts_total is the sum of the repairs the requests      *)
(* report, and none passes settings.max_repair_attempts.                   *)
THEOREM RepairsAlwaysCounted == Spec => []RepairsAreCounted
<1> DEFINE Summed == metrics.repair_attempts = SumOver(attempts, Requests)
<1>1. Init => Summed
  <2> SUFFICES ASSUME Init PROVE Summed
    OBVIOUS
  <2>1. metrics.repair_attempts = 0 /\ \A r \in Requests : attempts[r] = 0
    BY DEF Init
  <2> QED
    BY <2>1, RequestsAreFinite, SumOfZeros
<1>2. SafetyInv /\ Summed /\ [Next]_vars => Summed'
  BY StepRepairs
<1>3. Spec => []Summed
  BY <1>1, <1>2, Safety, PTL DEF Spec, SafetySpec
<1>4. SafetyInv /\ Summed => RepairsAreCounted
  BY OrchestratorAssumption
     DEF SafetyInv, TypeInv, TypeOK, RoundsInv, RepairsAreCounted, SumOver
<1> HIDE DEF Summed
<1> QED
  BY <1>3, <1>4, Safety, PTL

-----------------------------------------------------------------------------
(* The refinement of GuardedQuery. *)

(* The mapping tells a request that captured a schema from one that did    *)
(* not; SafetyInv does not speak of requests that have not arrived.        *)
ArrivalInv ==
    \A r \in Requests : pc[r] = "idle" => snap[r] = NoSchema /\ attempt[r] = 0

RefinementInv == SafetyInv /\ ArrivalInv

LEMMA InitArrival == Init => ArrivalInv
BY DEF Init, ArrivalInv

LEMMA StepArrival == SafetyInv /\ ArrivalInv /\ [Next]_vars => ArrivalInv'
<1> SUFFICES ASSUME SafetyInv, ArrivalInv, [Next]_vars PROVE ArrivalInv'
  OBVIOUS
<1> USE DEF ArrivalInv, SafetyInv, TypeInv, TypeOK, Answer, Receive
<1>1. ASSUME NEW r \in Requests, Arrive(r)
      PROVE  ArrivalInv'
  BY <1>1 DEF Arrive, RejectTenant, AskClarification, SchemaFails, StartGeneration
<1>2. ASSUME NEW r \in Requests, ProviderAnswers(r)
      PROVE  ArrivalInv'
  BY <1>2 DEF ProviderAnswers, ProviderFails, Regenerate, Reject, AnswerPreview,
              StartExecution
<1>3. ASSUME NEW r \in Requests, ExecutorAnswers(r)
      PROVE  ArrivalInv'
  BY <1>3 DEF ExecutorAnswers, ExecutionSucceeds, ExecutionFails
<1>4. CASE UNCHANGED vars
  BY <1>4 DEF vars
<1> QED
  BY <1>1, <1>2, <1>3, <1>4 DEF Next, AllAnswered

(* The mapped variables, by the names that GuardedQuery gives them. *)
StageBar == [r \in Requests |-> StageOf(r)]
DrawsBar == [r \in Requests |-> IF Started(r) THEN attempt[r] + 1 ELSE 0]
WantedBar == [r \in Requests |-> Started(r) /\ WantsRows(req[r])]
AnswerBar == [r \in Requests |-> AnswerOf(r)]

LEMMA RefinesInit == Init => Promise!Init
BY DEF Init, Promise!Init, StageOf, AnswerOf, ToldAs, Started

LEMMA StartedIsCaptured ==
    ASSUME NEW r, Captured(r)
    PROVE  Started(r) /\ WantsRows(req[r]) \in BOOLEAN
BY OrchestratorAssumption DEF Captured, Started, Submission, WantsRows

LEMMA RefinesArrive ==
    ASSUME RefinementInv, NEW r \in Requests, Arrive(r)
    PROVE  Promise!Open(r) \/ Promise!Refuse(r)
<1> USE DEF RefinementInv, SafetyInv, TypeInv, TypeOK, ArrivalInv, HandedInv, Answer, Receive
<1>0. pc[r] = "idle" /\ snap[r] = NoSchema /\ attempt[r] = 0 /\ reply[r] = "none"
  BY DEF Arrive, RejectTenant, AskClarification, SchemaFails, StartGeneration
<1>1. CASE RejectTenant(r) \/ AskClarification(r) \/ SchemaFails(r)
  <2>1. /\ pc' = [pc EXCEPT ![r] = "done"]
        /\ \E answer \in {"tenant_mismatch", "clarification_required", "internal_error"} :
              reply' = [reply EXCEPT ![r] = answer]
        /\ \E q \in Submissions : req' = [req EXCEPT ![r] = q]
        /\ snap' = snap /\ attempt' = attempt /\ handed' = handed
    BY <1>1 DEF RejectTenant, AskClarification, SchemaFails
  <2>2. /\ StageBar[r] = "new"
        /\ StageBar' = [StageBar EXCEPT ![r] = "closed"]
    BY <1>0, <2>1 DEF StageBar, StageOf
  <2>3. AnswerBar' = [AnswerBar EXCEPT ![r] = "refused"]
    BY <1>0, <2>1 DEF AnswerBar, AnswerOf, ToldAs
  <2>4. DrawsBar' = DrawsBar /\ WantedBar' = WantedBar
    BY <1>0, <2>1 DEF DrawsBar, WantedBar, Started
  <2> QED
    BY <2>1, <2>2, <2>3, <2>4
       DEF Promise!Refuse, Promise!Close, StageBar, AnswerBar, DrawsBar, WantedBar
<1>2. CASE StartGeneration(r)
  <2>1. PICK q \in Submissions, s \in Snapshots :
           /\ req' = [req EXCEPT ![r] = q]
           /\ snap' = [snap EXCEPT ![r] = s]
    BY <1>2 DEF StartGeneration
  <2>2. /\ pc' = [pc EXCEPT ![r] = "generating"]
        /\ attempt' = attempt /\ handed' = handed /\ reply' = reply
    BY <1>2 DEF StartGeneration
  <2>3. s # NoSchema /\ WantsRows(q) \in BOOLEAN
    BY OrchestratorAssumption DEF Submission, WantsRows
  <2>4. /\ StageBar[r] = "new"
        /\ StageBar' = [StageBar EXCEPT ![r] = "open"]
    BY <1>0, <2>2 DEF StageBar, StageOf
  <2>5. DrawsBar' = [DrawsBar EXCEPT ![r] = 1]
    <3>1. DrawsBar' =
             [x \in Requests |-> IF snap'[x] # NoSchema THEN attempt[x] + 1 ELSE 0]
      BY <2>2 DEF DrawsBar, Started
    <3>2. snap'[r] # NoSchema /\ attempt[r] + 1 = 1
      BY <1>0, <2>1, <2>3
    <3>3. \A x \in Requests \ {r} : snap'[x] = snap[x]
      BY <2>1
    <3>4. [DrawsBar EXCEPT ![r] = 1] =
             [x \in Requests |-> IF x = r THEN 1 ELSE DrawsBar[x]]
      BY DEF DrawsBar
    <3>5. ASSUME NEW x \in Requests
          PROVE  (IF snap'[x] # NoSchema THEN attempt[x] + 1 ELSE 0)
                     = IF x = r THEN 1 ELSE DrawsBar[x]
      <4>1. DrawsBar[x] = IF snap[x] # NoSchema THEN attempt[x] + 1 ELSE 0
        BY DEF DrawsBar, Started
      <4> QED
        BY <3>2, <3>3, <4>1
    <3> QED
      BY <3>1, <3>4, <3>5, Zenon
  <2>6. WantedBar' = [WantedBar EXCEPT ![r] = WantsRows(q)]
    <3>1. WantedBar' = [x \in Requests |-> snap'[x] # NoSchema /\ WantsRows(req'[x])]
      BY DEF WantedBar, Started, WantsRows
    <3>2. snap'[r] # NoSchema /\ WantsRows(req'[r]) = WantsRows(q)
      BY <2>1, <2>3
    <3>3. \A x \in Requests \ {r} : snap'[x] = snap[x] /\ req'[x] = req[x]
      BY <2>1
    <3>4. [WantedBar EXCEPT ![r] = WantsRows(q)] =
             [x \in Requests |-> IF x = r THEN WantsRows(q) ELSE WantedBar[x]]
      BY DEF WantedBar
    <3>5. ASSUME NEW x \in Requests
          PROVE  (snap'[x] # NoSchema /\ WantsRows(req'[x]))
                     = IF x = r THEN WantsRows(q) ELSE WantedBar[x]
      BY <2>3, <3>2, <3>3, Zenon DEF WantedBar, Started
    <3> QED
      BY <3>1, <3>4, <3>5, Zenon
  <2>7. AnswerBar' = AnswerBar
    BY <2>2 DEF AnswerBar, AnswerOf
  <2>8. WantedBar' \in {[WantedBar EXCEPT ![r] = w] : w \in BOOLEAN}
    BY <2>3, <2>6
  <2> QED
    BY <2>2, <2>4, <2>5, <2>7, <2>8, Zenon
       DEF Promise!Open, StageBar, AnswerBar, DrawsBar, WantedBar
<1> QED
  BY <1>1, <1>2 DEF Arrive

(* After generation starts, what a request wants is settled. *)
LEMMA WantedIsSettled ==
    ASSUME snap' = snap, req' = req
    PROVE  WantedBar' = WantedBar /\ (attempt' = attempt => DrawsBar' = DrawsBar)
BY DEF WantedBar, DrawsBar, Started, WantsRows

(* A request answered at an await closes with the answer's image. *)
LEMMA AnswerCloses ==
    ASSUME TypeOK, NEW r \in Requests, NEW said, Answer(r, said),
           snap' = snap, req' = req, attempt' = attempt, handed' = handed
    PROVE  Promise!Close(r, ToldAs(said))
<1>1. StageBar' = [StageBar EXCEPT ![r] = "closed"]
  BY DEF TypeOK, Answer, StageBar, StageOf
<1>2. AnswerBar' = [AnswerBar EXCEPT ![r] = ToldAs(said)]
  BY DEF TypeOK, Answer, AnswerBar, AnswerOf
<1>3. WantedBar' = WantedBar /\ DrawsBar' = DrawsBar
  BY WantedIsSettled
<1> QED
  BY <1>1, <1>2, <1>3, Zenon
     DEF Promise!Close, StageBar, AnswerBar, DrawsBar, WantedBar

LEMMA RefinesProvider ==
    ASSUME RefinementInv, NEW r \in Requests, ProviderAnswers(r)
    PROVE  Promise!Draw(r) \/ Promise!Run(r) \/ Promise!Preview(r) \/ Promise!Fail(r)
<1> USE DEF RefinementInv, SafetyInv, TypeInv
<1>0. pc[r] = "generating" /\ Captured(r) /\ handed[r] = 0
  BY DEF CapturedInv, HandedInv, ProviderAnswers, ProviderFails, Regenerate, Reject,
         AnswerPreview, StartExecution
<1>1. StageBar[r] = "open" /\ WantedBar[r] = WantsRows(req[r])
  BY <1>0, StartedIsCaptured DEF StageBar, StageOf, WantedBar
<1>2. CASE ProviderFails(r)
  <2>1. Promise!Close(r, "failed")
    BY <1>2, AnswerCloses DEF ProviderFails, ToldAs
  <2> QED
    BY <1>1, <2>1 DEF Promise!Fail, StageBar
<1>3. CASE Regenerate(r)
  <2>1. /\ attempt[r] \in Nat /\ attempt[r] < MaxRepair
        /\ attempt' = [attempt EXCEPT ![r] = @ + 1]
        /\ pc' = pc /\ req' = req /\ snap' = snap
        /\ handed' = handed /\ reply' = reply
    BY <1>3 DEF Regenerate, MayRepair, TypeOK
  <2>2. DrawsBar[r] = attempt[r] + 1
    BY <1>0, StartedIsCaptured DEF DrawsBar
  <2>3. DrawsBar' = [DrawsBar EXCEPT ![r] = @ + 1]
    <3>1. DrawsBar' = [x \in Requests |-> IF snap[x] # NoSchema THEN attempt'[x] + 1 ELSE 0]
      BY <2>1 DEF DrawsBar, Started
    <3>2. [DrawsBar EXCEPT ![r] = @ + 1] =
             [x \in Requests |-> IF x = r THEN DrawsBar[r] + 1 ELSE DrawsBar[x]]
      BY DEF DrawsBar
    <3>3. ASSUME NEW x \in Requests
          PROVE  (IF snap[x] # NoSchema THEN attempt'[x] + 1 ELSE 0)
                     = IF x = r THEN DrawsBar[r] + 1 ELSE DrawsBar[x]
      <4>1. attempt'[r] = attempt[r] + 1 /\ snap[r] # NoSchema
        BY <1>0, <2>1, StartedIsCaptured DEF TypeOK, Started
      <4>2. x # r => attempt'[x] = attempt[x]
        BY <2>1 DEF TypeOK
      <4>3. DrawsBar[x] = IF snap[x] # NoSchema THEN attempt[x] + 1 ELSE 0
        BY DEF DrawsBar, Started
      <4> QED
        BY <2>2, <4>1, <4>2, <4>3
    <3> QED
      BY <3>1, <3>2, <3>3, Zenon
  <2>4. DrawsBar[r] < MaxRepair + 1
    BY <2>1, <2>2, OrchestratorAssumption
  <2>5. StageBar' = StageBar /\ AnswerBar' = AnswerBar /\ WantedBar' = WantedBar
    BY <2>1, WantedIsSettled DEF StageBar, AnswerBar, StageOf, AnswerOf
  <2> QED
    BY <1>1, <2>1, <2>3, <2>4, <2>5, Zenon
       DEF Promise!Draw, StageBar, AnswerBar, DrawsBar, WantedBar
<1>4. CASE Reject(r)
  <2>1. PICK c \in Candidates, estimate \in EstimatesFor(req[r]) :
           /\ ~Gate(r, c, estimate).ok
           /\ Answer(r, FailureOf(Gate(r, c, estimate).issues))
    BY <1>4 DEF Reject
  <2>2. FailureOf(Gate(r, c, estimate).issues) \in Rejections
    BY <1>0, <2>1, VerdictCodes
  <2>3. Promise!Close(r, "failed")
    BY <1>4, <2>1, <2>2, AnswerCloses DEF Reject, Rejections, ToldAs
  <2> QED
    BY <1>1, <2>3 DEF Promise!Fail, StageBar
<1>5. CASE AnswerPreview(r)
  <2>1. Promise!Close(r, "preview")
    BY <1>5, AnswerCloses DEF AnswerPreview, ToldAs
  <2>2. ~WantsRows(req[r])
    BY <1>5 DEF AnswerPreview, DoExecute, WantsRows
  <2> QED
    BY <1>1, <2>1, <2>2 DEF Promise!Preview, StageBar, WantedBar
<1>6. CASE StartExecution(r)
  <2>1. /\ pc' = [pc EXCEPT ![r] = "executing"]
        /\ handed' = [handed EXCEPT ![r] = 1]
        /\ req' = req /\ snap' = snap /\ attempt' = attempt /\ reply' = reply
    BY <1>0, <1>6 DEF StartExecution, TypeOK
  <2>2. WantsRows(req[r])
    <3>1. req[r] \in Submission
      BY <1>0, OrchestratorAssumption DEF Captured
    <3> QED
      BY <3>1, <1>6 DEF StartExecution, DoExecute, WantsRows, Submission
  <2>3. StageBar' = [StageBar EXCEPT ![r] = "running"]
    BY <2>1 DEF TypeOK, StageBar, StageOf
  <2>4. AnswerBar' = AnswerBar /\ WantedBar' = WantedBar /\ DrawsBar' = DrawsBar
    BY <2>1, WantedIsSettled DEF AnswerBar, AnswerOf
  <2>5. WantedBar[r]
    BY <1>1, <2>2
  <2> QED
    BY <1>1, <2>1, <2>3, <2>4, <2>5, Zenon
       DEF Promise!Run, StageBar, AnswerBar, DrawsBar, WantedBar
<1> QED
  BY <1>2, <1>3, <1>4, <1>5, <1>6 DEF ProviderAnswers

LEMMA RefinesExecutor ==
    ASSUME RefinementInv, NEW r \in Requests, ExecutorAnswers(r)
    PROVE  Promise!ReturnRows(r) \/ Promise!Fail(r)
<1> USE DEF RefinementInv, SafetyInv, TypeInv
<1>1. StageBar[r] = "running"
  BY DEF ExecutorAnswers, ExecutionSucceeds, ExecutionFails, StageBar, StageOf
<1>2. CASE ExecutionSucceeds(r)
  <2>1. Promise!Close(r, "rows")
    BY <1>2, AnswerCloses DEF ExecutionSucceeds, ToldAs
  <2> QED
    BY <1>1, <2>1 DEF Promise!ReturnRows, StageBar
<1>3. CASE ExecutionFails(r)
  <2>1. Promise!Close(r, "failed")
    BY <1>3, AnswerCloses DEF ExecutionFails, ToldAs
  <2> QED
    BY <1>1, <2>1 DEF Promise!Fail, StageBar
<1> QED
  BY <1>2, <1>3 DEF ExecutorAnswers

(* Every step maps to a step of GuardedQuery or leaves its variables alone *)
LEMMA RefinesStep == RefinementInv /\ [Next]_vars => [Promise!Next]_(Promise!gvars)
<1> SUFFICES ASSUME RefinementInv, [Next]_vars
             PROVE  [Promise!Next]_(Promise!gvars)
  OBVIOUS
<1>1. ASSUME NEW r \in Requests, Arrive(r) \/ ProviderAnswers(r) \/ ExecutorAnswers(r)
      PROVE  Promise!Next
  BY <1>1, RefinesArrive, RefinesProvider, RefinesExecutor DEF Promise!Next
<1>2. CASE UNCHANGED vars
  <2>1. /\ pc' = pc /\ snap' = snap /\ req' = req /\ attempt' = attempt
        /\ handed' = handed /\ reply' = reply
    BY <1>2 DEF vars
  <2>2. StageBar' = StageBar /\ AnswerBar' = AnswerBar
    BY <2>1 DEF StageBar, StageOf, AnswerBar, AnswerOf
  <2> QED
    BY <2>1, <2>2, WantedIsSettled, Zenon
       DEF Promise!gvars, StageBar, AnswerBar, DrawsBar, WantedBar
<1> QED
  BY <1>1, <1>2 DEF Next, AllAnswered

(* The endpoints keep the promise of GuardedQuery: at most max_repair + 1  *)
(* candidates are drawn, at most one statement is run, only for a caller   *)
(* who asked for rows, every request gets one answer, and rows are the     *)
(* answer only of a statement that ran.                                    *)
THEOREM KeepsThePromise == Spec => ImplementsGuardedQuery
<1>1. Init => RefinementInv
  BY InitSafe, InitArrival DEF RefinementInv
<1>2. RefinementInv /\ [Next]_vars => RefinementInv'
  BY StepSafe, StepArrival DEF RefinementInv
<1>3. Spec => []RefinementInv
  BY <1>1, <1>2, PTL DEF Spec, SafetySpec
<1> QED
  BY <1>3, RefinesInit, RefinesStep, PTL
     DEF Spec, SafetySpec, ImplementsGuardedQuery, Promise!Spec
=============================================================================
