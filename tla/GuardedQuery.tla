---------------------------- MODULE GuardedQuery ----------------------------
(***************************************************************************)
(* What the query endpoints promise, without gates, repairs or threads: a  *)
(* request draws at most Budget candidates, hands at most one statement to *)
(* the database, and only when its caller asked for an execution, and gets *)
(* exactly one answer; rows are returned only for a statement that ran.    *)
(***************************************************************************)
EXTENDS Naturals

CONSTANTS Requests, Budget

VARIABLES stage,    \* "new", "open", "running", "closed"
          draws,    \* candidates asked of the provider
          wanted,   \* the caller asked for an execution
          ran,      \* statements handed to the database
          answer    \* "none", "refused", "failed", "preview", "rows"

gvars == <<stage, draws, wanted, ran, answer>>

Init ==
    /\ stage = [r \in Requests |-> "new"]
    /\ draws = [r \in Requests |-> 0]
    /\ wanted = [r \in Requests |-> FALSE]
    /\ ran = [r \in Requests |-> 0]
    /\ answer = [r \in Requests |-> "none"]

Open(r) ==
    /\ stage[r] = "new"
    /\ stage' = [stage EXCEPT ![r] = "open"]
    /\ draws' = [draws EXCEPT ![r] = 1]
    /\ wanted' \in {[wanted EXCEPT ![r] = w] : w \in BOOLEAN}
    /\ UNCHANGED <<ran, answer>>

Draw(r) ==
    /\ stage[r] = "open"
    /\ draws[r] < Budget
    /\ draws' = [draws EXCEPT ![r] = @ + 1]
    /\ UNCHANGED <<stage, wanted, ran, answer>>

Run(r) ==
    /\ stage[r] = "open"
    /\ wanted[r]
    /\ stage' = [stage EXCEPT ![r] = "running"]
    /\ ran' = [ran EXCEPT ![r] = 1]
    /\ UNCHANGED <<draws, wanted, answer>>

Close(r, a) ==
    /\ stage' = [stage EXCEPT ![r] = "closed"]
    /\ answer' = [answer EXCEPT ![r] = a]
    /\ UNCHANGED <<draws, wanted, ran>>

Refuse(r) == stage[r] = "new" /\ Close(r, "refused")

Preview(r) == stage[r] = "open" /\ ~wanted[r] /\ Close(r, "preview")

Fail(r) == stage[r] \in {"open", "running"} /\ Close(r, "failed")

ReturnRows(r) == stage[r] = "running" /\ Close(r, "rows")

Next == \E r \in Requests :
    Open(r) \/ Draw(r) \/ Run(r) \/ Refuse(r) \/ Preview(r) \/ Fail(r) \/ ReturnRows(r)

Spec == Init /\ [][Next]_gvars
=============================================================================
