--------------------------- MODULE HttpApiProofs ---------------------------
(***************************************************************************)
(* Correlation ids and spans, for any number of requests in flight, any    *)
(* calls and client ids, and any repair budget.                            *)
(***************************************************************************)
EXTENDS HttpApi, SequenceTheorems, TLAPS

-----------------------------------------------------------------------------
(* Sequences. *)

LEMMA AddSecond ==
    ASSUME NEW S, NEW s \in Seq(S), Len(s) = 1, NEW x \in S
    PROVE  /\ Last(s) = s[1]
           /\ Append(s, x) \in Seq(S)
           /\ Len(Append(s, x)) = 2
           /\ Append(s, x)[1] = s[1]
           /\ Append(s, x)[2] = x
<1>1. Last(s) = s[1]
  BY DEF Last
<1>2. Append(s, x) \in Seq(S)
  OBVIOUS
<1>3. Len(Append(s, x)) = Len(s) + 1
  BY AppendProperties
<1>4. \A i \in 1..Len(s) : Append(s, x)[i] = s[i]
  BY AppendProperties
<1>5. Append(s, x)[Len(s) + 1] = x
  BY AppendProperties
<1> QED
  BY <1>1, <1>2, <1>3, <1>4, <1>5

LEMMA SwapLast ==
    ASSUME NEW S, NEW s \in Seq(S), Len(s) = 2, NEW x \in S
    PROVE  /\ Last(s) = s[2]
           /\ Append(Front(s), x) \in Seq(S)
           /\ Len(Append(Front(s), x)) = 2
           /\ Append(Front(s), x)[1] = s[1]
           /\ Append(Front(s), x)[2] = x
<1>1. /\ Front(s) \in Seq(S) /\ Len(Front(s)) = 1 /\ Front(s)[1] = s[1]
  BY SubSeqProperties, ElementOfSeq DEF Front
<1>2. Last(s) = s[2]
  BY DEF Last
<1> QED
  BY <1>1, <1>2, AddSecond

-----------------------------------------------------------------------------
(* Types and spans. *)

(* How many spans a request has open follows from where it is: the         *)
(* process span, and one child while the provider or the database works.   *)
Depth(p) ==
    CASE p = "process" -> 1
      [] p \in {"generating", "executing"} -> 2
      [] OTHER -> 0

DepthInv == \A r \in Requests : Len(open[r]) = Depth(phase[r])

SpanInv == TypeOK /\ DepthInv /\ SpansNest

LEMMA InitSpans == Init => SpanInv
BY HttpAssumption
   DEF Init, SpanInv, TypeOK, DepthInv, Depth, SpansNest, NoAnswer, Unbound, Absent, Ids

LEMMA SanitizeType ==
    ASSUME TypeOK, NEW raw \in Ids \cup {Absent, Garbage}
    PROVE  /\ Sanitize(raw) \in Ids /\ Mints(raw) \in {0, 1}
           /\ Mints(raw) = 1 => Sanitize(raw) = FirstMinted + minted
           /\ Mints(raw) = 0 => raw \in Ids /\ Sanitize(raw) = raw
BY DEF TypeOK, Sanitize, Mints, Ids, FirstMinted, Absent, Garbage

LEMMA StatusType ==
    ASSUME NEW code \in ProviderCodes \cup RejectionCodes
                        \cup {"invalid_request", "clarification_required",
                              "execution_failed", "engine_error"}
    PROVE  HttpStatus(code) \in Nat
BY DEF HttpStatus, ProviderCodes, RejectionCodes

LEMMA CallTypes ==
    ASSUME NEW c \in Calls
    PROVE  /\ c.header \in ClientIds \cup {Absent, Garbage}
           /\ c.body \in ClientIds \cup {Absent, Garbage}
           /\ \A id \in ClientIds : id \in Ids /\ id < FirstMinted
BY HttpAssumption DEF Call, Ids, FirstMinted

-----------------------------------------------------------------------------
(* The ways out of a handler, in one form: an answer that carries an id,   *)
(* and log lines under the ids of the request's own two contexts.          *)
Answers(r, mine) ==
    /\ \E status \in Nat, bodyId \in {Absent} \cup mine, headerId \in {Absent, outer[r]} :
          /\ bodyId # Absent \/ headerId # Absent
          /\ Send(r, status, bodyId, headerId)
    /\ \E ids \in SUBSET mine : records' = [records EXCEPT ![r] = @ \cup ids]

Ends(r) ==
    /\ phase[r] \in {"routed", "process", "generating", "executing"}
    /\ Answers(r, {inner[r], outer[r]})
    /\ spanCount' \in {spanCount, spanCount + 1}
    /\ UNCHANGED <<call, outer, inner, attempts, minted>>

LEMMA RecordedForm ==
    ASSUME TypeOK, NEW r \in Requests, NEW id, NEW mine, id \in mine,
           UNCHANGED records \/ records' = Recorded(r, id)
    PROVE  \E ids \in SUBSET mine : records' = [records EXCEPT ![r] = @ \cup ids]
<1>1. CASE UNCHANGED records
  <2>1. records' = [records EXCEPT ![r] = @ \cup {}]
    BY <1>1 DEF TypeOK
  <2> QED
    BY <2>1
<1>2. CASE records' = Recorded(r, id)
  <2>1. {id} \in SUBSET mine
    OBVIOUS
  <2> QED
    BY <1>2, <2>1 DEF Recorded
<1> QED
  BY <1>1, <1>2

LEMMA RespondForm ==
    ASSUME TypeOK, NEW r \in Requests, NEW status \in Nat, NEW bodyId \in {Absent, inner[r]},
           Respond(r, status, bodyId),
           UNCHANGED records \/ records' = Recorded(r, inner[r])
    PROVE  Answers(r, {inner[r], outer[r]})
<1>1. outer[r] # Absent
  BY DEF TypeOK, Ids, Absent
<1>2. \E ids \in SUBSET {inner[r], outer[r]} : records' = [records EXCEPT ![r] = @ \cup ids]
  BY RecordedForm
<1> QED
  BY <1>1, <1>2 DEF Answers, Respond

LEMMA UnhandledForm ==
    ASSUME TypeOK, NEW r \in Requests, Unhandled(r), NEW mine, outer[r] \in mine
    PROVE  Answers(r, mine)
<1>1. outer[r] # Absent
  BY DEF TypeOK, Ids, Absent
<1>2. HttpStatus("engine_error") \in Nat
  BY StatusType
<1>3. \E ids \in SUBSET mine : records' = [records EXCEPT ![r] = @ \cup ids]
  BY RecordedForm DEF Unhandled
<1> QED
  BY <1>1, <1>2, <1>3 DEF Answers, Unhandled

LEMMA FailForm ==
    ASSUME TypeOK, NEW r \in Requests,
           NEW code \in ProviderCodes \cup RejectionCodes
                        \cup {"invalid_request", "execution_failed"},
           Fail(r, code)
    PROVE  Answers(r, {inner[r], outer[r]})
BY StatusType, RespondForm DEF Fail

(* Every handler but /validate-sql ends in that form. *)
LEMMA HandlersEnd ==
    ASSUME TypeOK, NEW r \in Requests,
           \/ RejectCall(r) \/ AnswerProbe(r) \/ AnswerSchema(r) \/ StopEarly(r)
           \/ GenerationFails(r) \/ RejectCandidate(r) \/ AnswerPreview(r)
           \/ FinishExecution(r)
    PROVE  Ends(r)
<1>1. CASE RejectCall(r)
  BY <1>1, FailForm DEF RejectCall, Ends, RejectionCodes
<1>2. CASE AnswerProbe(r)
  <2>1. Answers(r, {inner[r], outer[r]})
    <3>1. PICK status \in {200, 404, 503} :
             /\ Respond(r, status, Absent)
             /\ UNCHANGED records \/ records' = Recorded(r, inner[r])
      BY <1>2 DEF AnswerProbe
    <3>2. status \in Nat
      OBVIOUS
    <3> QED
      BY <3>1, <3>2, RespondForm
  <2>2. phase[r] = "routed"
    BY <1>2 DEF AnswerProbe, Admitted
  <2> QED
    BY <1>2, <2>1, <2>2 DEF AnswerProbe, Ends
<1>3. CASE AnswerSchema(r)
  <2>1. Answers(r, {inner[r], outer[r]})
    BY <1>3, RespondForm, UnhandledForm DEF AnswerSchema
  <2> QED
    BY <1>3, <2>1 DEF AnswerSchema, Admitted, Ends
<1>4. CASE StopEarly(r)
  <2>1. Answers(r, {inner[r], outer[r]})
    BY <1>4, RespondForm, UnhandledForm, FailForm, StatusType DEF StopEarly, RejectionCodes
  <2> QED
    BY <1>4, <2>1 DEF StopEarly, Ends
<1>5. CASE GenerationFails(r)
  <2>1. Answers(r, {inner[r], outer[r]})
    BY <1>5, RespondForm, UnhandledForm, FailForm DEF GenerationFails
  <2> QED
    BY <1>5, <2>1 DEF GenerationFails, Ends
<1>6. CASE RejectCandidate(r)
  <2>1. Answers(r, {inner[r], outer[r]})
    BY <1>6, FailForm DEF RejectCandidate
  <2> QED
    BY <1>6, <2>1 DEF RejectCandidate, Ends
<1>7. CASE AnswerPreview(r)
  <2>1. Answers(r, {inner[r], outer[r]})
    BY <1>7, RespondForm DEF AnswerPreview
  <2> QED
    BY <1>7, <2>1 DEF AnswerPreview, Ends
<1>8. CASE FinishExecution(r)
  <2>1. Answers(r, {inner[r], outer[r]})
    BY <1>8, RespondForm, UnhandledForm, FailForm DEF FinishExecution
  <2> QED
    BY <1>8, <2>1 DEF FinishExecution, Ends
<1> QED
  BY <1>1, <1>2, <1>3, <1>4, <1>5, <1>6, <1>7, <1>8
-----------------------------------------------------------------------------
(* Spans nest. *)

(* The spans of request q alone. *)
SpanAt(q) ==
    /\ Len(open[q]) = Depth(phase[q])
    /\ \A i \in DOMAIN open[q] :
          /\ open[q][i].parent = IF i = 1 THEN NoSpan ELSE open[q][i - 1].id
          /\ open[q][i].cid = inner[q]

LEMMA SpansArePointwise == DepthInv /\ SpansNest <=> \A q \in Requests : SpanAt(q)
BY DEF DepthInv, SpansNest, SpanAt

LEMMA AnswersKeep ==
    ASSUME TypeOK, NEW r \in Requests, NEW mine \in SUBSET Ids, Answers(r, mine)
    PROVE  /\ phase' \in [Requests -> {"idle", "routed", "process", "generating",
                                       "executing", "done"}]
           /\ open' \in [Requests -> Seq(Spans)]
           /\ answer' \in [Requests -> [status: Nat, body: Ids \cup {Absent},
                                        header: Ids \cup {Absent}]]
           /\ records' \in [Requests -> SUBSET Ids]
           /\ SpanAt(r)'
           /\ phase'[r] = "done"
           /\ \A q \in Requests \ {r} : phase'[q] = phase[q] /\ open'[q] = open[q]
<1>1. PICK status \in Nat, bodyId \in {Absent} \cup mine, headerId \in {Absent, outer[r]} :
         Send(r, status, bodyId, headerId)
  BY DEF Answers
<1>2. bodyId \in Ids \cup {Absent} /\ headerId \in Ids \cup {Absent}
  BY DEF TypeOK
<1>3. answer' \in [Requests -> [status: Nat, body: Ids \cup {Absent},
                               header: Ids \cup {Absent}]]
  BY <1>1, <1>2 DEF TypeOK, Send
<1>4. /\ phase' = [phase EXCEPT ![r] = "done"]
      /\ open' = [open EXCEPT ![r] = <<>>]
  BY <1>1 DEF Send
<1>5. <<>> \in Seq(Spans) /\ Len(<<>>) = 0
  BY EmptySeq
<1>6. records' \in [Requests -> SUBSET Ids]
  BY DEF Answers, TypeOK
<1>7. /\ phase'[r] = "done" /\ open'[r] = <<>>
      /\ open' \in [Requests -> Seq(Spans)]
  BY <1>4, <1>5 DEF TypeOK
<1>8. SpanAt(r)'
  BY <1>5, <1>7 DEF SpanAt, Depth
<1> QED
  BY <1>3, <1>4, <1>6, <1>7, <1>8 DEF TypeOK

(* A request's spans are its own. *)
LEMMA OthersKeepSpans ==
    ASSUME TypeOK, NEW r \in Requests, NEW q \in Requests \ {r}, SpanAt(q),
           phase'[q] = phase[q], open'[q] = open[q], inner'[q] = inner[q]
    PROVE  SpanAt(q)'
BY DEF SpanAt

LEMMA StepHandlers ==
    ASSUME SpanInv, NEW r \in Requests, Ends(r) \/ AnswerValidate(r)
    PROVE  SpanInv'
<1>1. TypeOK /\ \A q \in Requests : SpanAt(q)
  BY SpansArePointwise DEF SpanInv
<1>2. inner[r] \in Ids /\ outer[r] \in Ids /\ FirstMinted + minted \in Ids
  BY <1>1 DEF TypeOK, Ids, FirstMinted
<1>3. \E mine \in SUBSET Ids : Answers(r, mine)
  <2>1. CASE Ends(r)
    BY <1>2, <2>1 DEF Ends
  <2>2. CASE AnswerValidate(r)
    <3>1. CASE Unhandled(r)
      BY <1>1, <1>2, <3>1, UnhandledForm
    <3>2. CASE Respond(r, 200, Absent) /\ records' = Recorded(r, FirstMinted + minted)
      <4>1. \E ids \in SUBSET {FirstMinted + minted} :
               records' = [records EXCEPT ![r] = @ \cup ids]
        BY <1>1, <3>2, RecordedForm
      <4>2. outer[r] # Absent
        BY <1>2 DEF Ids, Absent
      <4>3. Answers(r, {FirstMinted + minted})
        BY <3>2, <4>1, <4>2 DEF Answers, Respond
      <4> QED
        BY <1>2, <4>3
    <3> QED
      BY <2>2, <3>1, <3>2 DEF AnswerValidate, Sanitize
  <2> QED
    BY <2>1, <2>2
<1>4. PICK mine \in SUBSET Ids : Answers(r, mine)
  BY <1>3
<1>5. /\ inner' \in [Requests -> Ids] /\ minted' \in Nat /\ spanCount' \in Nat
      /\ \A q \in Requests \ {r} : inner'[q] = inner[q]
      /\ call' = call /\ outer' = outer /\ attempts' = attempts
  <2>1. CASE Ends(r)
    BY <1>1, <2>1 DEF Ends, TypeOK
  <2>2. CASE AnswerValidate(r)
    <3>1. inner' = [inner EXCEPT ![r] = FirstMinted + minted]
      BY <2>2 DEF AnswerValidate, Bind, Sanitize
    <3>2. /\ minted' = minted + 1 /\ spanCount' \in {spanCount, spanCount + 1}
          /\ call' = call /\ outer' = outer /\ attempts' = attempts
      BY <2>2 DEF AnswerValidate
    <3> QED
      BY <1>1, <1>2, <3>1, <3>2 DEF TypeOK
  <2> QED
    BY <2>1, <2>2
<1>6. TypeOK'
  BY <1>1, <1>4, <1>5, AnswersKeep DEF TypeOK
<1>7. \A q \in Requests : SpanAt(q)'
  BY <1>1, <1>4, <1>5, AnswersKeep, OthersKeepSpans
<1>8. (\A q \in Requests : SpanAt(q))'
  BY <1>7
<1> QED
  BY <1>6, <1>8, SpansArePointwise, PTL DEF SpanInv

LEMMA NewSpanType ==
    ASSUME TypeOK, NEW n \in Nat, NEW parent \in Nat, NEW id \in Ids
    PROVE  NewSpan(n, parent, id) \in Spans
BY DEF TypeOK, NewSpan, Spans, Ids

LEMMA StepPipeline ==
    ASSUME SpanInv, NEW r \in Requests,
           \/ \E c \in Calls : Arrive(r, c)
           \/ BeginProcess(r) \/ StartGeneration(r) \/ Repair(r) \/ StartExecution(r)
    PROVE  SpanInv'
<1>1. TypeOK /\ \A q \in Requests : SpanAt(q)
  BY SpansArePointwise DEF SpanInv
<1>2. open[r] \in Seq(Spans) /\ inner[r] \in Ids
  BY <1>1 DEF TypeOK
<1>3. SUFFICES /\ TypeOK' /\ SpanAt(r)'
               /\ \A q \in Requests \ {r} :
                     phase'[q] = phase[q] /\ open'[q] = open[q] /\ inner'[q] = inner[q]
  <2>1. \A q \in Requests : SpanAt(q)'
    BY <1>1, <1>3, OthersKeepSpans
  <2>2. (\A q \in Requests : SpanAt(q))'
    BY <2>1
  <2> QED
    BY <1>3, <2>2, SpansArePointwise, PTL DEF SpanInv
<1>4. ASSUME NEW c \in Calls, Arrive(r, c)
      PROVE  /\ TypeOK' /\ SpanAt(r)'
             /\ \A q \in Requests \ {r} :
                   phase'[q] = phase[q] /\ open'[q] = open[q] /\ inner'[q] = inner[q]
  <2>1. c.header \in Ids \cup {Absent, Garbage}
    BY CallTypes
  <2>2. Sanitize(c.header) \in Ids /\ Mints(c.header) \in {0, 1}
    BY <1>1, <2>1, SanitizeType
  <2>3. TypeOK'
    BY <1>1, <1>4, <2>2 DEF TypeOK, Arrive, Bind
  <2>4. open'[r] = open[r] /\ Len(open[r]) = 0 /\ phase'[r] = "routed"
    BY <1>1, <1>4 DEF TypeOK, Arrive, SpanAt, Depth
  <2>5. SpanAt(r)'
    BY <1>2, <2>4 DEF SpanAt, Depth
  <2> QED
    BY <1>1, <1>4, <2>3, <2>5 DEF TypeOK, Arrive, Bind
<1>5. CASE BeginProcess(r)
  <2> DEFINE id == Sanitize(RequestedId(r))
             span == NewSpan(1, Parent(r), id)
  <2>1. phase[r] = "routed" /\ call[r] \in Calls
    BY <1>1, <1>5 DEF BeginProcess, Admitted, TypeOK, NoCall
  <2>2. RequestedId(r) \in Ids \cup {Absent, Garbage}
    BY <1>2, <2>1, CallTypes DEF RequestedId
  <2>3. open[r] = <<>>
    BY <1>1, <1>2, <2>1, EmptySeq DEF SpanAt, Depth
  <2>4. id \in Ids /\ Mints(RequestedId(r)) \in {0, 1}
    BY <1>1, <2>2, SanitizeType
  <2>5. Parent(r) = NoSpan
    BY <2>3 DEF Parent
  <2>6. span \in Spans /\ span.parent = NoSpan /\ span.cid = id
    BY <1>1, <2>4, <2>5, NewSpanType DEF NewSpan, NoSpan
  <2> HIDE DEF id, span
  <2>7. /\ inner' = [inner EXCEPT ![r] = id]
        /\ open' = [open EXCEPT ![r] = <<span>>]
        /\ records' = [records EXCEPT ![r] = @ \cup {id}]
        /\ minted' = minted + Mints(RequestedId(r))
        /\ spanCount' = spanCount + 1
        /\ phase' = [phase EXCEPT ![r] = "process"]
        /\ UNCHANGED <<call, outer, answer, attempts>>
    BY <1>5 DEF BeginProcess, Bind, Recorded, id, span
  <2>8. TypeOK'
    BY <1>1, <2>4, <2>6, <2>7 DEF TypeOK
  <2>9. open'[r] = <<span>> /\ inner'[r] = id /\ phase'[r] = "process"
    BY <1>1, <2>7 DEF TypeOK
  <2>10. SpanAt(r)'
    BY <2>6, <2>9 DEF SpanAt, Depth
  <2> QED
    BY <1>1, <2>7, <2>8, <2>10 DEF TypeOK
<1>6. CASE StartGeneration(r)
  <2> DEFINE span == NewSpan(2, Parent(r), inner[r])
             next == Append(open[r], span)
  <2>1. Len(open[r]) = 1
    BY <1>1, <1>6 DEF StartGeneration, SpanAt, Depth
  <2>2. open[r][1] \in Spans /\ open[r][1].parent = NoSpan /\ open[r][1].cid = inner[r]
    BY <1>1, <1>2, <2>1, ElementOfSeq DEF SpanAt
  <2>3. Parent(r) = open[r][1].id /\ Parent(r) \in Nat
    <3>1. open[r] # <<>>
      BY <2>1, EmptySeq
    <3> QED
      BY <2>1, <2>2, <3>1 DEF Parent, Last, Spans
  <2>4. span \in Spans /\ span.parent = open[r][1].id /\ span.cid = inner[r]
    BY <1>1, <1>2, <2>3, NewSpanType DEF NewSpan
  <2> HIDE DEF span
  <2>5. /\ next \in Seq(Spans) /\ Len(next) = 2
        /\ next[1] = open[r][1] /\ next[2] = span
    BY <1>2, <2>1, <2>4, AddSecond
  <2> HIDE DEF next
  <2>6. /\ open' = [open EXCEPT ![r] = next]
        /\ spanCount' = spanCount + 2
        /\ phase' = [phase EXCEPT ![r] = "generating"]
        /\ UNCHANGED <<call, outer, inner, records, answer, attempts, minted>>
    BY <1>1, <1>6 DEF StartGeneration, TypeOK, next, span
  <2>7. TypeOK'
    BY <1>1, <2>5, <2>6 DEF TypeOK
  <2>8. open'[r] = next /\ inner'[r] = inner[r] /\ phase'[r] = "generating"
    BY <1>1, <2>6 DEF TypeOK
  <2>9. SpanAt(r)'
    BY <2>2, <2>4, <2>5, <2>8 DEF SpanAt, Depth
  <2> QED
    BY <1>1, <2>6, <2>7, <2>9 DEF TypeOK
<1>7. CASE Repair(r) \/ StartExecution(r)
  <2> DEFINE span == NewSpan(2, Last(open[r]).parent, inner[r])
             next == Append(Front(open[r]), span)
  <2>1. Len(open[r]) = 2
    BY <1>1, <1>7 DEF Repair, StartExecution, SpanAt, Depth
  <2>2. /\ open[r][1] \in Spans /\ open[r][2] \in Spans
        /\ open[r][1].parent = NoSpan /\ open[r][1].cid = inner[r]
        /\ open[r][2].parent = open[r][1].id
    BY <1>1, <1>2, <2>1, ElementOfSeq DEF SpanAt
  <2>3. Last(open[r]) = open[r][2]
    BY <2>1 DEF Last
  <2>4. span \in Spans /\ span.parent = open[r][1].id /\ span.cid = inner[r]
    BY <1>1, <1>2, <2>2, <2>3, NewSpanType DEF NewSpan, Spans
  <2> HIDE DEF span
  <2>5. /\ next \in Seq(Spans) /\ Len(next) = 2
        /\ next[1] = open[r][1] /\ next[2] = span
    BY <1>2, <2>1, <2>4, SwapLast
  <2> HIDE DEF next
  <2>6. /\ open' = [open EXCEPT ![r] = next]
        /\ spanCount' = spanCount + 2
        /\ phase' \in {phase, [phase EXCEPT ![r] = "executing"]}
        /\ UNCHANGED <<call, outer, inner, answer, minted>>
    BY <1>1, <1>7 DEF Repair, StartExecution, TypeOK, next, span
  <2>7. attempts' \in [Requests -> 0..MaxRepair] /\ records' \in [Requests -> SUBSET Ids]
    <3>1. CASE Repair(r)
      <4>1. attempts[r] \in 0..MaxRepair /\ attempts[r] < MaxRepair
        BY <1>1, <3>1 DEF Repair, RepairsLeft, TypeOK
      <4>2. attempts[r] + 1 \in 0..MaxRepair
        BY <4>1, HttpAssumption
      <4> QED
        BY <1>1, <1>2, <3>1, <4>2 DEF Repair, Recorded, TypeOK
    <3>2. CASE StartExecution(r)
      BY <1>1, <3>2 DEF StartExecution, TypeOK
    <3> QED
      BY <1>7, <3>1, <3>2
  <2>8. TypeOK'
    <3>1. phase' \in [Requests -> {"idle", "routed", "process", "generating",
                                  "executing", "done"}]
      BY <1>1, <2>6 DEF TypeOK
    <3>2. call' \in [Requests -> Calls \cup {NoCall}]
      BY <1>1, <1>7 DEF Repair, StartExecution, TypeOK
    <3>3. open' \in [Requests -> Seq(Spans)]
      BY <1>1, <2>5, <2>6 DEF TypeOK
    <3>4. /\ outer' \in [Requests -> Ids] /\ inner' \in [Requests -> Ids]
          /\ minted' \in Nat /\ spanCount' \in Nat /\ answer' = answer
      BY <1>1, <2>6 DEF TypeOK
    <3> QED
      BY <1>1, <2>7, <3>1, <3>2, <3>3, <3>4 DEF TypeOK
  <2>9. /\ open'[r] = next /\ inner'[r] = inner[r]
        /\ phase'[r] \in {"generating", "executing"}
    BY <1>1, <1>7, <2>6 DEF Repair, StartExecution, TypeOK
  <2>10. SpanAt(r)'
    BY <2>2, <2>4, <2>5, <2>9 DEF SpanAt, Depth
  <2> QED
    BY <1>1, <2>6, <2>8, <2>10 DEF TypeOK
<1> QED
  BY <1>4, <1>5, <1>6, <1>7

LEMMA StepSpans == SpanInv /\ [Next]_vars => SpanInv'
<1> SUFFICES ASSUME SpanInv, [Next]_vars PROVE SpanInv'
  OBVIOUS
<1>1. TypeOK
  BY DEF SpanInv
<1>2. CASE UNCHANGED vars
  BY <1>2 DEF vars, SpanInv, TypeOK, DepthInv, SpansNest
<1>3. ASSUME NEW r \in Requests, (\E c \in Calls : Arrive(r, c)) \/ Route(r) \/ Process(r)
      PROVE  SpanInv'
  BY <1>1, <1>3, HandlersEnd, StepHandlers, StepPipeline DEF Route, Process
<1> QED
  BY <1>2, <1>3 DEF Next

THEOREM SpansSafe == Spec => []SpanInv
BY InitSpans, StepSpans, PTL DEF Spec

(* The context variables, the id sets and the answers keep their types,    *)
(* and no request regenerates more often than allowed.                     *)
THEOREM HttpTypes == Spec => []TypeOK
<1>1. SpanInv => TypeOK
  BY DEF SpanInv
<1> QED
  BY <1>1, SpansSafe, PTL

(* However tasks interleave at the awaits, a span's parent is the span its *)
(* own request was in, and it carries its own request's id.                *)
THEOREM SpansAlwaysNest == Spec => []SpansNest
<1>1. SpanInv => SpansNest
  BY DEF SpanInv
<1> QED
  BY <1>1, SpansSafe, PTL
-----------------------------------------------------------------------------
(* Ids. *)

Steps(r) == (\E c \in Calls : Arrive(r, c)) \/ Route(r) \/ Process(r)

(* Every id a request has bound, written or sent so far, and what its      *)
(* client sent.                                                            *)
AllIds(r) == IdsOf(r) \cup (IF phase[r] = "idle" THEN {} ELSE {outer[r], inner[r]})

Sent(r) == {call[r].header, call[r].body}

(* IdsStayApart is not inductive: an id becomes visible only after it was  *)
(* bound, and what a task has bound came from its own client or was minted *)
(* for it.  Minted ids lie above all client ids and below the next one.    *)
FreshInv ==
    \A r \in Requests : phase[r] = "idle" => records[r] = {} /\ answer[r] = NoAnswer

OriginInv ==
    \A r \in Requests : \A id \in AllIds(r) :
        id \in Sent(r) \/ id \in FirstMinted..(FirstMinted + minted - 1)

ApartInv ==
    \A r, q \in Requests : r # q =>
        \A id \in AllIds(r) \cap AllIds(q) : id < FirstMinted

(* A traceable query: its client put no id in the body, no "-" in the      *)
(* header.                                                                 *)
Traceable(r) ==
    /\ phase[r] # "idle"
    /\ call[r].endpoint \in {"query", "preview"}
    /\ call[r].body = Absent
    /\ call[r].header # Unbound

(* Both of its contexts hold one id, which is not the default.             *)
TraceAt(r) ==
    Traceable(r) =>
        /\ outer[r] # Unbound /\ inner[r] = outer[r]
        /\ IdsOf(r) \subseteq {outer[r]}
        /\ phase[r] = "done" => IdsOf(r) # {}

IdInv ==
    SpanInv /\ FreshInv /\ OriginInv /\ ApartInv /\ \A r \in Requests : TraceAt(r)

LEMMA InitIds == Init => IdInv
<1> SUFFICES ASSUME Init PROVE IdInv
  OBVIOUS
<1>1. \A r \in Requests : phase[r] = "idle" /\ records[r] = {} /\ answer[r] = NoAnswer
  BY DEF Init
<1>2. \A r \in Requests : AllIds(r) = {}
  BY <1>1 DEF AllIds, IdsOf, NoAnswer
<1> QED
  BY <1>1, <1>2, InitSpans DEF IdInv, FreshInv, OriginInv, ApartInv, TraceAt, Traceable

LEMMA AnswerIds ==
    ASSUME TypeOK, NEW r \in Requests, NEW mine \in SUBSET Ids, outer[r] \in mine,
           Answers(r, mine)
    PROVE  /\ IdsOf(r)' \subseteq IdsOf(r) \cup mine
           /\ IdsOf(r)' # {} /\ phase'[r] = "done"
           /\ \A q \in Requests \ {r} : records'[q] = records[q] /\ answer'[q] = answer[q]
<1>1. PICK status \in Nat, bodyId \in {Absent} \cup mine, headerId \in {Absent, outer[r]} :
         /\ bodyId # Absent \/ headerId # Absent
         /\ Send(r, status, bodyId, headerId)
  BY DEF Answers
<1>2. PICK ids \in SUBSET mine : records' = [records EXCEPT ![r] = @ \cup ids]
  BY DEF Answers
<1>3. /\ answer'[r].body = bodyId /\ answer'[r].header = headerId /\ phase'[r] = "done"
      /\ records'[r] = records[r] \cup ids
  BY <1>1, <1>2 DEF Send, TypeOK
<1>4. \A q \in Requests \ {r} : records'[q] = records[q] /\ answer'[q] = answer[q]
  BY <1>1, <1>2 DEF Send, TypeOK
<1>5. IdsOf(r)' = (records[r] \cup ids \cup {bodyId, headerId}) \ {Absent}
  BY <1>3 DEF IdsOf
<1> QED
  BY <1>1, <1>3, <1>4, <1>5 DEF IdsOf

(* What any step of request r does to ids: the ids it has afterwards it    *)
(* had, or its client sent, or it minted in this step.                     *)
LEMMA IdsMove ==
    ASSUME SpanInv, FreshInv, NEW r \in Requests, Steps(r)
    PROVE  /\ minted' \in {minted, minted + 1}
           /\ \A id \in AllIds(r)' :
                 \/ id \in AllIds(r) \cup Sent(r)'
                 \/ id = FirstMinted + minted /\ minted' = minted + 1
           /\ phase[r] = "idle" \/ Sent(r)' = Sent(r)
           /\ phase'[r] # "idle"
<1>0. TypeOK /\ inner[r] \in Ids /\ outer[r] \in Ids /\ FirstMinted + minted \in Ids
  BY DEF SpanInv, TypeOK, Ids, FirstMinted
<1>1. ASSUME NEW c \in Calls, Arrive(r, c)
      PROVE  /\ minted' \in {minted, minted + 1}
             /\ \A id \in AllIds(r)' :
                   \/ id \in AllIds(r) \cup Sent(r)'
                   \/ id = FirstMinted + minted /\ minted' = minted + 1
             /\ phase[r] = "idle" /\ phase'[r] # "idle"
  <2>1. /\ Sanitize(c.header) \in Ids /\ Mints(c.header) \in {0, 1}
        /\ Mints(c.header) = 1 => Sanitize(c.header) = FirstMinted + minted
        /\ Mints(c.header) = 0 => Sanitize(c.header) = c.header
    BY <1>0, CallTypes, SanitizeType
  <2>2. /\ phase[r] = "idle" /\ phase'[r] = "routed" /\ call'[r] = c
        /\ outer'[r] = Sanitize(c.header) /\ inner'[r] = Sanitize(c.header)
        /\ minted' = minted + Mints(c.header)
        /\ records' = records /\ answer' = answer
    BY <1>0, <1>1 DEF TypeOK, Arrive, Bind
  <2>3. IdsOf(r)' = {}
    BY <2>2 DEF FreshInv, IdsOf, NoAnswer
  <2>4. AllIds(r)' = {Sanitize(c.header)} /\ c.header \in Sent(r)'
    BY <2>2, <2>3 DEF AllIds, Sent
  <2> QED
    BY <1>0, <2>1, <2>2, <2>4 DEF TypeOK
<1>2. CASE Ends(r)
  <2>1. IdsOf(r)' \subseteq IdsOf(r) \cup {inner[r], outer[r]} /\ phase'[r] = "done"
    BY <1>0, <1>2, AnswerIds DEF Ends
  <2>2. /\ phase[r] # "idle" /\ inner' = inner /\ outer' = outer /\ call' = call
        /\ minted' = minted
    BY <1>2 DEF Ends
  <2> QED
    BY <2>1, <2>2 DEF AllIds, Sent
<1>3. CASE AnswerValidate(r)
  <2> DEFINE fresh == FirstMinted + minted
  <2>1. /\ phase[r] = "routed" /\ inner'[r] = fresh /\ outer' = outer /\ call' = call
        /\ minted' = minted + 1
    BY <1>0, <1>3 DEF AnswerValidate, Admitted, Bind, Sanitize, TypeOK
  <2>2. Answers(r, {outer[r], fresh})
    <3>1. CASE Unhandled(r)
      BY <1>0, <3>1, UnhandledForm
    <3>2. CASE Respond(r, 200, Absent) /\ records' = Recorded(r, fresh)
      <4>1. \E ids \in SUBSET {outer[r], fresh} : records' = [records EXCEPT ![r] = @ \cup ids]
        <5>1. {fresh} \in SUBSET {outer[r], fresh}
          OBVIOUS
        <5>2. records' = [records EXCEPT ![r] = @ \cup {fresh}]
          BY <3>2 DEF Recorded
        <5> HIDE DEF fresh
        <5> QED
          BY <5>1, <5>2
      <4>2. outer[r] # Absent
        BY <1>0 DEF Ids, Absent
      <4> QED
        BY <3>2, <4>1, <4>2 DEF Answers, Respond
    <3> QED
      BY <1>3, <3>1, <3>2 DEF AnswerValidate, Sanitize
  <2>3. IdsOf(r)' \subseteq IdsOf(r) \cup {outer[r], fresh} /\ phase'[r] = "done"
    BY <1>0, <2>2, AnswerIds
  <2> QED
    BY <2>1, <2>3 DEF AllIds, Sent
<1>4. CASE BeginProcess(r)
  <2> DEFINE id == Sanitize(RequestedId(r))
  <2>1. phase[r] = "routed" /\ call[r] \in Calls
    BY <1>0, <1>4 DEF BeginProcess, Admitted, TypeOK, NoCall
  <2>2. RequestedId(r) \in {inner[r], call[r].body} /\ RequestedId(r) \in Ids \cup {Absent, Garbage}
    BY <1>0, <2>1, CallTypes DEF RequestedId
  <2>3. /\ Mints(RequestedId(r)) \in {0, 1}
        /\ Mints(RequestedId(r)) = 1 => id = FirstMinted + minted
        /\ Mints(RequestedId(r)) = 0 => id = RequestedId(r)
    BY <1>0, <2>2, SanitizeType
  <2> HIDE DEF id
  <2>4. /\ inner'[r] = id /\ records'[r] = records[r] \cup {id}
        /\ minted' = minted + Mints(RequestedId(r)) /\ phase'[r] = "process"
        /\ call' = call /\ outer' = outer /\ answer' = answer
    BY <1>0, <1>4 DEF BeginProcess, Bind, Recorded, TypeOK, id
  <2>5. AllIds(r)' \subseteq AllIds(r) \cup {id}
    BY <2>1, <2>4 DEF AllIds, IdsOf
  <2> QED
    BY <1>0, <2>1, <2>2, <2>3, <2>4, <2>5 DEF AllIds, Sent, TypeOK
<1>5. CASE StartGeneration(r) \/ Repair(r) \/ StartExecution(r)
  <2>1. /\ phase[r] # "idle" /\ phase'[r] # "idle" /\ minted' = minted
        /\ records'[r] \subseteq records[r] \cup {inner[r]}
        /\ UNCHANGED <<call, inner, outer, answer>>
    BY <1>0, <1>5 DEF StartGeneration, Repair, StartExecution, Recorded, TypeOK
  <2> QED
    BY <2>1 DEF AllIds, IdsOf, Sent
<1> QED
  BY <1>0, <1>1, <1>2, <1>3, <1>4, <1>5, HandlersEnd DEF Steps, Route, Process

(* No step of one request touches another's ids. *)
LEMMA OthersKeepIds ==
    ASSUME SpanInv, NEW r \in Requests, Steps(r), NEW q \in Requests \ {r}
    PROVE  /\ phase'[q] = phase[q] /\ call'[q] = call[q]
           /\ outer'[q] = outer[q] /\ inner'[q] = inner[q]
           /\ records'[q] = records[q] /\ answer'[q] = answer[q]
           /\ AllIds(q)' = AllIds(q) /\ Sent(q)' = Sent(q) /\ IdsOf(q)' = IdsOf(q)
<1>0. TypeOK /\ inner[r] \in Ids /\ outer[r] \in Ids /\ FirstMinted + minted \in Ids
  BY DEF SpanInv, TypeOK, Ids, FirstMinted
<1>1. SUFFICES /\ phase'[q] = phase[q] /\ call'[q] = call[q]
               /\ outer'[q] = outer[q] /\ inner'[q] = inner[q]
               /\ records'[q] = records[q] /\ answer'[q] = answer[q]
  BY <1>1 DEF AllIds, Sent, IdsOf
<1>2. CASE Ends(r)
  <2>1. records'[q] = records[q] /\ answer'[q] = answer[q]
    BY <1>0, <1>2, AnswerIds DEF Ends
  <2>2. phase'[q] = phase[q]
    BY <1>0, <1>2, AnswersKeep DEF Ends
  <2> QED
    BY <1>2, <2>1, <2>2 DEF Ends
<1>3. CASE AnswerValidate(r)
  BY <1>0, <1>3
     DEF AnswerValidate, Bind, Respond, Unhandled, Send, Recorded, TypeOK
<1>4. ASSUME NEW c \in Calls, Arrive(r, c)
      PROVE  /\ phase'[q] = phase[q] /\ call'[q] = call[q]
             /\ outer'[q] = outer[q] /\ inner'[q] = inner[q]
             /\ records'[q] = records[q] /\ answer'[q] = answer[q]
  BY <1>0, <1>4 DEF Arrive, Bind, TypeOK
<1>5. CASE BeginProcess(r)
  BY <1>0, <1>5 DEF BeginProcess, Bind, Recorded, TypeOK
<1>6. CASE StartGeneration(r) \/ Repair(r) \/ StartExecution(r)
  BY <1>0, <1>6 DEF StartGeneration, Repair, StartExecution, Recorded, TypeOK
<1> QED
  BY <1>0, <1>2, <1>3, <1>4, <1>5, <1>6, HandlersEnd DEF Steps, Route, Process

LEMMA StepApart ==
    ASSUME IdInv, NEW r \in Requests, Steps(r)
    PROVE  FreshInv' /\ OriginInv' /\ ApartInv'
<1>1. SpanInv /\ FreshInv /\ OriginInv /\ ApartInv /\ TypeOK
  BY DEF IdInv, SpanInv
<1>2. /\ minted \in Nat /\ minted' \in {minted, minted + 1}
      /\ \A id \in AllIds(r)' :
            \/ id \in AllIds(r) \cup Sent(r)'
            \/ id = FirstMinted + minted /\ minted' = minted + 1
      /\ phase[r] = "idle" \/ Sent(r)' = Sent(r)
      /\ phase'[r] # "idle"
  BY <1>1, IdsMove DEF TypeOK
<1>3. \A q \in Requests \ {r} :
         /\ phase'[q] = phase[q] /\ records'[q] = records[q] /\ answer'[q] = answer[q]
         /\ AllIds(q)' = AllIds(q) /\ Sent(q)' = Sent(q)
  BY <1>1, OthersKeepIds
<1>4. phase[r] = "idle" => AllIds(r) = {}
  BY <1>1 DEF FreshInv, AllIds, IdsOf, NoAnswer
<1>5. FirstMinted + minted \in Int /\ FirstMinted \in Int
  BY <1>2 DEF FirstMinted
<1>6. FreshInv'
  BY <1>1, <1>2, <1>3 DEF FreshInv
<1>7. ASSUME NEW q \in Requests, NEW id \in AllIds(q)'
      PROVE  id \in Sent(q)' \/ id \in FirstMinted..(FirstMinted + minted' - 1)
  <2>1. CASE q # r
    <3>1. id \in Sent(q) \/ id \in FirstMinted..(FirstMinted + minted - 1)
      BY <1>1, <1>3, <1>7, <2>1 DEF OriginInv
    <3> QED
      BY <1>2, <1>3, <1>5, <2>1, <3>1
  <2>2. CASE q = r /\ id \in AllIds(r)
    <3>1. id \in Sent(r) \/ id \in FirstMinted..(FirstMinted + minted - 1)
      BY <1>1, <2>2 DEF OriginInv
    <3>2. Sent(r)' = Sent(r)
      BY <1>2, <1>4, <2>2
    <3> QED
      BY <1>2, <1>5, <2>2, <3>1, <3>2
  <2>3. CASE q = r /\ id \in Sent(r)'
    BY <2>3
  <2>4. CASE q = r /\ id = FirstMinted + minted /\ minted' = minted + 1
    BY <1>2, <1>5, <2>4
  <2> QED
    BY <1>2, <1>7, <2>1, <2>2, <2>3, <2>4
<1>8. OriginInv'
  BY <1>7 DEF OriginInv
(* What clients send lies below all minted ids. *)
<1>9. ASSUME NEW q \in Requests, NEW id \in Sent(q)'
      PROVE  id \in Int /\ id < FirstMinted
  <2>1. call'[q] \in Calls \cup {NoCall}
    <3>1. SpanInv'
      BY <1>1, HandlersEnd, StepHandlers, StepPipeline DEF Steps, Route, Process
    <3> QED
      BY <3>1 DEF SpanInv, TypeOK
  <2>2. CASE call'[q] \in Calls
    BY <1>9, <2>2, CallTypes DEF Sent, Ids, FirstMinted, Absent, Garbage
  <2>3. CASE call'[q] = NoCall
    BY <1>9, <2>3 DEF Sent, NoCall, FirstMinted, Absent
  <2> QED
    BY <2>1, <2>2, <2>3
<1>10. ASSUME NEW q \in Requests \ {r}, NEW id \in AllIds(r)' \cap AllIds(q)'
       PROVE  id < FirstMinted
  <2>1. id \in Sent(q)' \/ id \in FirstMinted..(FirstMinted + minted - 1)
    BY <1>1, <1>3, <1>10 DEF OriginInv
  <2>2. CASE id \in Sent(q)' \cup Sent(r)'
    BY <1>9, <2>2
  <2>3. CASE id \in AllIds(r)
    BY <1>1, <1>3, <1>10, <2>3 DEF ApartInv
  <2>4. CASE id = FirstMinted + minted /\ id \notin Sent(q)'
    BY <1>2, <2>1, <2>4 DEF FirstMinted
  <2> QED
    BY <1>2, <1>10, <2>2, <2>3, <2>4
<1>11. ApartInv'
  <2> SUFFICES ASSUME NEW p \in Requests, NEW q \in Requests, p # q,
                      NEW id \in AllIds(p)' \cap AllIds(q)'
               PROVE  id < FirstMinted
    BY DEF ApartInv
  <2>1. CASE p = r
    BY <1>10, <2>1
  <2>2. CASE q = r
    BY <1>10, <2>2
  <2>3. CASE p # r /\ q # r
    BY <1>1, <1>3, <2>3 DEF ApartInv
  <2> QED
    BY <2>1, <2>2, <2>3
<1> QED
  BY <1>6, <1>8, <1>11

(* The two contexts of a traceable query part only when a handler binds an *)
(* id of its own, and process() prefers the bound id to a new one.         *)
LEMMA StepTrace ==
    ASSUME IdInv, NEW r \in Requests, Steps(r)
    PROVE  TraceAt(r)'
<1>0. /\ SpanInv /\ FreshInv /\ TraceAt(r) /\ TypeOK
      /\ inner[r] \in Ids /\ outer[r] \in Ids
  BY DEF IdInv, SpanInv, TypeOK
<1>1. SUFFICES ASSUME Traceable(r)'
               PROVE  /\ outer'[r] # Unbound /\ inner'[r] = outer'[r]
                      /\ IdsOf(r)' \subseteq {outer'[r]}
                      /\ phase'[r] = "done" => IdsOf(r)' # {}
  BY DEF TraceAt
<1>2. ASSUME NEW c \in Calls, Arrive(r, c)
      PROVE  /\ outer'[r] # Unbound /\ inner'[r] = outer'[r]
             /\ IdsOf(r)' = {} /\ phase'[r] # "done"
  <2>1. /\ phase[r] = "idle" /\ phase'[r] = "routed" /\ call'[r] = c
        /\ outer'[r] = Sanitize(c.header) /\ inner'[r] = Sanitize(c.header)
        /\ records' = records /\ answer' = answer
    BY <1>0, <1>2 DEF TypeOK, Arrive, Bind
  <2>2. c.header # Unbound
    BY <1>1, <2>1 DEF Traceable
  <2>3. Sanitize(c.header) # Unbound
    BY <1>0, <2>2 DEF Sanitize, TypeOK, FirstMinted, Unbound
  <2>4. IdsOf(r)' = {}
    BY <1>0, <2>1 DEF FreshInv, IdsOf, NoAnswer
  <2> QED
    BY <2>1, <2>3, <2>4
<1>3. ASSUME ~(\E c \in Calls : Arrive(r, c))
      PROVE  /\ call'[r] = call[r] /\ outer'[r] = outer[r] /\ phase[r] # "idle"
             /\ Traceable(r) /\ outer[r] # Unbound /\ inner[r] = outer[r]
             /\ IdsOf(r) \subseteq {outer[r]}
  <2>1. call' = call /\ outer' = outer /\ phase[r] # "idle"
    BY <1>0, <1>3, HandlersEnd
       DEF Steps, Route, Process, Ends, AnswerValidate, Admitted, BeginProcess,
           StartGeneration, Repair, StartExecution
  <2> QED
    BY <1>0, <1>1, <2>1 DEF Traceable, TraceAt
<1>4. CASE Ends(r)
  <2>1. /\ call' = call /\ outer' = outer /\ inner' = inner /\ phase[r] # "idle"
    BY <1>4 DEF Ends
  <2>2. outer[r] # Unbound /\ inner[r] = outer[r] /\ IdsOf(r) \subseteq {outer[r]}
    BY <1>0, <1>1, <2>1 DEF Traceable, TraceAt
  <2>3. IdsOf(r)' \subseteq IdsOf(r) \cup {inner[r], outer[r]} /\ IdsOf(r)' # {}
    BY <1>0, <1>4, AnswerIds DEF Ends
  <2> QED
    BY <2>1, <2>2, <2>3
<1>5. CASE AnswerValidate(r)
  <2>1. call'[r].endpoint = "validate"
    BY <1>5 DEF AnswerValidate, Admitted
  <2> QED
    BY <1>1, <2>1 DEF Traceable
<1>6. CASE BeginProcess(r)
  <2>1. ~(\E c \in Calls : Arrive(r, c))
    BY <1>6 DEF BeginProcess, Admitted, Arrive
  <2>2. Sanitize(RequestedId(r)) = inner[r]
    BY <1>0, <1>3, <2>1 DEF Traceable, RequestedId, Sanitize, Ids, Absent, Garbage
  <2>3. /\ inner'[r] = inner[r] /\ records'[r] = records[r] \cup {inner[r]}
        /\ phase'[r] = "process" /\ answer' = answer /\ outer' = outer
    BY <1>0, <1>6, <2>2 DEF BeginProcess, Bind, Recorded, TypeOK
  <2> QED
    BY <1>3, <2>1, <2>3 DEF IdsOf
<1>7. CASE StartGeneration(r) \/ Repair(r) \/ StartExecution(r)
  <2>1. ~(\E c \in Calls : Arrive(r, c))
    BY <1>7 DEF StartGeneration, Repair, StartExecution, Arrive
  <2>2. /\ inner'[r] = inner[r] /\ records'[r] \subseteq records[r] \cup {inner[r]}
        /\ phase'[r] # "done" /\ answer' = answer /\ outer' = outer
    BY <1>0, <1>7 DEF StartGeneration, Repair, StartExecution, Recorded, TypeOK
  <2> QED
    BY <1>3, <2>1, <2>2 DEF IdsOf
<1> QED
  BY <1>0, <1>2, <1>4, <1>5, <1>6, <1>7, HandlersEnd DEF Steps, Route, Process

LEMMA StepIds == IdInv /\ [Next]_vars => IdInv'
<1> SUFFICES ASSUME IdInv, [Next]_vars PROVE IdInv'
  OBVIOUS
<1>1. SpanInv'
  BY StepSpans DEF IdInv
<1>2. CASE UNCHANGED vars
  BY <1>1, <1>2 DEF vars, IdInv, FreshInv, OriginInv, ApartInv, TraceAt, Traceable,
                    AllIds, IdsOf, Sent
<1>3. ASSUME NEW r \in Requests, Steps(r)
      PROVE  IdInv'
  <2>1. FreshInv' /\ OriginInv' /\ ApartInv'
    BY <1>3, StepApart
  <2>2. TraceAt(r)'
    BY <1>3, StepTrace
  <2>3. ASSUME NEW q \in Requests \ {r}
        PROVE  TraceAt(q)'
    <3>1. /\ phase'[q] = phase[q] /\ call'[q] = call[q]
          /\ outer'[q] = outer[q] /\ inner'[q] = inner[q] /\ IdsOf(q)' = IdsOf(q)
      BY <1>3, OthersKeepIds DEF IdInv
    <3> QED
      BY <3>1 DEF IdInv, TraceAt, Traceable
  <2> QED
    BY <1>1, <2>1, <2>2, <2>3 DEF IdInv
<1> QED
  BY <1>2, <1>3 DEF Next, Steps

THEOREM IdsSafe == Spec => []IdInv
BY InitIds, StepIds, PTL DEF Spec

(* Though tasks interleave at every await, an id bound for one request     *)
(* reaches no log line, span or answer of another, unless both clients     *)
(* sent it.                                                                *)
THEOREM IdsAlwaysApart == Spec => []IdsStayApart
<1>1. IdInv => IdsStayApart
  <2> SUFFICES ASSUME IdInv, NEW r \in Requests, NEW q \in Requests, r # q,
                      NEW id \in IdsOf(r) \cap IdsOf(q)
               PROVE  id \in Sent(r) \cap Sent(q)
    BY DEF IdsStayApart, Sent
  <2>1. id \in AllIds(r) /\ id \in AllIds(q)
    BY DEF AllIds
  <2>2. id < FirstMinted
    BY <2>1 DEF IdInv, ApartInv
  <2>3. \/ id \in Sent(r) \/ id \in FirstMinted..(FirstMinted + minted - 1)
    BY <2>1 DEF IdInv, OriginInv
  <2>4. \/ id \in Sent(q) \/ id \in FirstMinted..(FirstMinted + minted - 1)
    BY <2>1 DEF IdInv, OriginInv
  <2>5. id \notin FirstMinted..(FirstMinted + minted - 1)
    BY <2>2 DEF FirstMinted
  <2> QED
    BY <2>3, <2>4, <2>5
<1> QED
  BY <1>1, IdsSafe, PTL

(* One id is in everything a query leaves behind, whichever handler ends   *)
(* it, when its client sends none in the body and no "-" in the header.    *)
THEOREM QueriesAlwaysTraceable == Spec => []QueriesAreTraceable
<1>1. IdInv => QueriesAreTraceable
  BY DEF IdInv, TraceAt, Traceable, QueriesAreTraceable
<1> QED
  BY <1>1, IdsSafe, PTL
=============================================================================
