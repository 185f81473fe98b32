----------------------- MODULE QuestionPipelineProofs -----------------------
(***************************************************************************)
(* What a question comes to, for any questions, scripts, callers and       *)
(* repair budget, whenever the days pass.                                  *)
(***************************************************************************)
EXTENDS QuestionPipeline, SequenceTheorems, NaturalsInduction, WellFoundedInduction,
        TLAPS

-----------------------------------------------------------------------------
(* Words.  A conversation only ever adds words to its question, but for    *)
(* the users that are replaced by customers.                               *)

Users == {"user", "users"}

MetricWords == {"revenue", "gross", "net", "count", "number"}

LEMMA WordsAreElements ==
    ASSUME NEW q \in Seq(STRING)
    PROVE  /\ \A w : HasWord(q, w) <=> w \in ToSet(q)
           /\ \A W : HasAny(q, W) <=> ToSet(q) \cap W # {}
<1>1. DOMAIN q = 1..Len(q)
  BY LenProperties
<1> QED
  BY <1>1 DEF HasWord, HasAny, Contains, ToSet

LEMMA WordsOfConcat ==
    ASSUME NEW q \in Seq(STRING), NEW r \in Seq(STRING)
    PROVE  q \o r \in Seq(STRING) /\ ToSet(q \o r) = ToSet(q) \cup ToSet(r)
<1>1. /\ q \o r \in Seq(STRING)
      /\ Len(q \o r) = Len(q) + Len(r)
      /\ \A i \in 1..(Len(q) + Len(r)) : (q \o r)[i] = IF i <= Len(q) THEN q[i] ELSE r[i - Len(q)]
  BY ConcatProperties
<1>2. /\ Len(q) \in Nat /\ Len(r) \in Nat
      /\ DOMAIN q = 1..Len(q) /\ DOMAIN r = 1..Len(r)
      /\ DOMAIN (q \o r) = 1..(Len(q) + Len(r))
  BY <1>1, LenProperties
<1>3. \A i \in 1..Len(q) : (q \o r)[i] = q[i] /\ i \in DOMAIN (q \o r)
  BY <1>1, <1>2
<1>4. \A i \in 1..Len(r) : (q \o r)[i + Len(q)] = r[i] /\ i + Len(q) \in DOMAIN (q \o r)
  BY <1>1, <1>2
<1>5. ToSet(q) \cup ToSet(r) \subseteq ToSet(q \o r)
  BY <1>2, <1>3, <1>4 DEF ToSet
<1>6. ASSUME NEW i \in DOMAIN (q \o r) PROVE (q \o r)[i] \in ToSet(q) \cup ToSet(r)
  <2>1. CASE i <= Len(q)
    BY <1>1, <1>2, <2>1 DEF ToSet
  <2>2. CASE ~(i <= Len(q))
    <3>1. i - Len(q) \in 1..Len(r) /\ (q \o r)[i] = r[i - Len(q)]
      BY <1>1, <1>2, <2>2
    <3> QED
      BY <1>2, <3>1 DEF ToSet
  <2> QED
    BY <2>1, <2>2
<1>7. ToSet(q \o r) \subseteq ToSet(q) \cup ToSet(r)
  BY <1>6 DEF ToSet
<1> QED
  BY <1>1, <1>5, <1>7

LEMMA WordsOfPart ==
    ASSUME NEW q \in Seq(STRING), NEW r \in SubSeqs(q)
    PROVE  ToSet(r) \subseteq ToSet(q)
<1>1. PICK i \in 0..Len(q), j \in 0..Len(q) : r = SubSeq(q, i + 1, j)
  BY DEF SubSeqs
<1>2. Len(q) \in Nat /\ DOMAIN q = 1..Len(q) /\ \A k \in 1..Len(q) : q[k] \in STRING
  BY LenProperties, ElementOfSeq
<1>3. i + 1 \in Int /\ j \in Int /\ \A k \in (i + 1)..j : q[k] \in STRING
  BY <1>2
<1>4. /\ r \in Seq(STRING)
      /\ Len(r) = IF i + 1 <= j THEN j - (i + 1) + 1 ELSE 0
      /\ \A k \in 1..(j - (i + 1) + 1) : r[k] = q[(i + 1) + k - 1]
  BY <1>1, <1>3, SubSeqProperties
<1>5. DOMAIN r = 1..Len(r)
  BY <1>4, LenProperties
<1>6. ASSUME NEW k \in DOMAIN r PROVE r[k] \in ToSet(q)
  <2>1. k \in 1..(j - (i + 1) + 1) /\ (i + 1) + k - 1 \in 1..Len(q)
    BY <1>2, <1>4, <1>5
  <2> QED
    BY <1>2, <1>4, <2>1 DEF ToSet
<1> QED
  BY <1>6 DEF ToSet

LEMMA ReadingsListed ==
    /\ Interpretations("unknown_term") = {<<"provide", "a", "definition">>}
    /\ Interpretations("metric_definition") =
          {<<"net", "revenue">>, <<"gross", "revenue">>, <<"order", "count">>}
    /\ Interpretations("measure_unspecified") =
          {<<"by", "revenue">>, <<"by", "order", "count">>, <<"by", "mrr">>}
    /\ Interpretations("entity_reference") = {<<"customers">>, <<"application", "users">>}
BY DEF Interpretations

LEMMA TwoWords ==
    ASSUME NEW a, NEW b
    PROVE  ToSet(<<a, b>>) = {a, b}
<1>1. DOMAIN <<a, b>> = {1, 2}
  OBVIOUS
<1> QED
  BY <1>1 DEF ToSet

LEMMA ThreeWords ==
    ASSUME NEW a, NEW b, NEW c
    PROVE  ToSet(<<a, b, c>>) = {a, b, c}
<1>1. DOMAIN <<a, b, c>> = {1, 2, 3}
  OBVIOUS
<1> QED
  BY <1>1 DEF ToSet

LEMMA CustomersIsText == "customers" \in STRING
<1>1. <<"customers">> \in Seq(STRING)
  BY ReadingsAreText, ReadingsListed DEF Clarifications
<1>2. Len(<<"customers">>) = 1 /\ <<"customers">>[1] = "customers"
  OBVIOUS
<1> QED
  BY <1>1, <1>2, ElementOfSeq

LEMMA ReadingWords ==
    ASSUME NEW c \in Clarifications, NEW r \in Interpretations(c)
    PROVE  /\ r \in Seq(STRING)
           /\ c = "metric_definition" => ToSet(r) \cap MetricWords # {}
           /\ c = "measure_unspecified" => ToSet(r) \cap MeasureWords # {}
           /\ c # "entity_reference" => ToSet(r) \cap Users = {}
           /\ c \in {"metric_definition", "measure_unspecified"} =>
                 r # <<"customers">> /\ r # <<"provide", "a", "definition">>
           /\ c = "unknown_term" => r = <<"provide", "a", "definition">>
           /\ c = "entity_reference" => r = <<"customers">> \/ r = <<"application", "users">>
<1>1. r \in Seq(STRING)
  BY ReadingsAreText
<1>2. CASE c = "unknown_term"
  <2>1. r = <<"provide", "a", "definition">>
    BY <1>2, ReadingsListed
  <2>2. ToSet(r) = {"provide", "a", "definition"}
    <3>1. ToSet(<<"provide", "a", "definition">>) = {"provide", "a", "definition"}
      BY ThreeWords
    <3> QED
      BY <2>1, <3>1
  <2> QED
    BY <1>1, <1>2, <2>1, <2>2 DEF Users
<1>3. CASE c = "metric_definition"
  <2>1. r \in {<<"net", "revenue">>, <<"gross", "revenue">>, <<"order", "count">>}
    BY <1>3, ReadingsListed
  <2>2. ToSet(r) \in {{"net", "revenue"}, {"gross", "revenue"}, {"order", "count"}}
    <3>1. /\ ToSet(<<"net", "revenue">>) = {"net", "revenue"}
          /\ ToSet(<<"gross", "revenue">>) = {"gross", "revenue"}
          /\ ToSet(<<"order", "count">>) = {"order", "count"}
      BY TwoWords
    <3> QED
      BY <2>1, <3>1
  <2>3. r # <<"customers">> /\ r # <<"provide", "a", "definition">>
    BY <2>1
  <2> QED
    BY <1>1, <1>3, <2>2, <2>3 DEF Users, MetricWords
<1>4. CASE c = "measure_unspecified"
  <2>1. r \in {<<"by", "revenue">>, <<"by", "order", "count">>, <<"by", "mrr">>}
    BY <1>4, ReadingsListed
  <2>2. ToSet(r) \in {{"by", "revenue"}, {"by", "order", "count"}, {"by", "mrr"}}
    <3>1. /\ ToSet(<<"by", "revenue">>) = {"by", "revenue"}
          /\ ToSet(<<"by", "mrr">>) = {"by", "mrr"}
          /\ ToSet(<<"by", "order", "count">>) = {"by", "order", "count"}
      BY TwoWords, ThreeWords
    <3> QED
      BY <2>1, <3>1
  <2>3. r # <<"customers">> /\ r # <<"provide", "a", "definition">>
    BY <2>1
  <2> QED
    BY <1>1, <1>4, <2>2, <2>3 DEF Users, MeasureWords
<1>5. CASE c = "entity_reference"
  <2>1. r = <<"customers">> \/ r = <<"application", "users">>
    BY <1>5, ReadingsListed
  <2> QED
    BY <1>1, <1>5, <2>1
<1> QED
  BY <1>2, <1>3, <1>4, <1>5 DEF Clarifications

(* What an answer does to the words of the question. *)
LEMMA RephraseWords ==
    ASSUME NEW q \in Seq(STRING), NEW r \in Seq(STRING)
    PROVE  /\ Rephrase(q, r) \in Seq(STRING)
           /\ q # <<>> => Rephrase(q, r) # <<>>
           /\ ToSet(q) \ Users \subseteq ToSet(Rephrase(q, r))
           /\ r = <<"customers">> => ToSet(Rephrase(q, r)) \cap Users = {}
           /\ ToSet(Rephrase(q, r)) \cap Users \subseteq ToSet(q) \cup ToSet(r)
           /\ r # <<"customers">> /\ r # <<"provide", "a", "definition">> =>
                 ToSet(r) \subseteq ToSet(Rephrase(q, r))
<1>1. CASE r = <<"customers">>
  <2> DEFINE s == [i \in DOMAIN q |-> IF q[i] \in Users THEN "customers" ELSE q[i]]
  <2>1. Rephrase(q, r) = s
    BY <1>1 DEF Rephrase, Users
  <2>2. Len(q) \in Nat /\ DOMAIN q = 1..Len(q) /\ \A k \in 1..Len(q) : q[k] \in STRING
    BY LenProperties, ElementOfSeq
  <2>3. s \in [1..Len(q) -> STRING]
    <3>1. \A i \in DOMAIN q : s[i] \in STRING
      BY <2>2, CustomersIsText
    <3> QED
      BY <2>2, <3>1
  <2>4. s \in Seq(STRING) /\ DOMAIN s = DOMAIN q
    BY <2>2, <2>3, SeqDef
  <2>5. \A i \in DOMAIN q : q[i] \notin Users => s[i] = q[i]
    OBVIOUS
  <2>6. \A i \in DOMAIN q : s[i] \notin Users
    BY DEF Users
  <2> HIDE DEF s
  <2>7. ToSet(q) \ Users \subseteq ToSet(s) /\ ToSet(s) \cap Users = {}
    BY <2>4, <2>5, <2>6 DEF ToSet
  <2> QED
    BY <1>1, <2>1, <2>4, <2>7
<1>2. CASE r # <<"customers">> /\ r = <<"provide", "a", "definition">>
  <2>1. Rephrase(q, r) = q
    BY <1>2 DEF Rephrase
  <2> QED
    BY <1>2, <2>1
<1>3. CASE r # <<"customers">> /\ r # <<"provide", "a", "definition">> /\ r \in SubSeqs(q)
  <2>1. Rephrase(q, r) = q
    BY <1>3 DEF Rephrase
  <2> QED
    BY <1>3, <2>1, WordsOfPart
<1>4. CASE r # <<"customers">> /\ r # <<"provide", "a", "definition">> /\ r \notin SubSeqs(q)
  <2>1. Rephrase(q, r) = q \o r
    BY <1>4 DEF Rephrase
  <2> QED
    BY <1>4, <2>1, WordsOfConcat
<1> QED
  BY <1>1, <1>2, <1>3, <1>4

(* A clarification is raised by the words of the question. *)
LEMMA DetectByWords ==
    ASSUME NEW q \in Seq(STRING)
    PROVE  /\ Detect(q) \in Clarifications \cup {NoClarification}
           /\ Detect(q) = "metric_definition" => ToSet(q) \cap MetricWords = {}
           /\ Detect(q) = "measure_unspecified" => ToSet(q) \cap MeasureWords = {}
           /\ Detect(q) = "entity_reference" => ToSet(q) \cap Users # {}
<1>1. /\ AmbiguousMetric(q) => ToSet(q) \cap MetricWords = {}
      /\ UnspecifiedMeasure(q) => ToSet(q) \cap MeasureWords = {}
      /\ EntityReference(q) => ToSet(q) \cap Users # {}
  BY WordsAreElements DEF AmbiguousMetric, UnspecifiedMeasure, EntityReference, MetricWords, Users
<1>2. /\ Detect(q) \in Clarifications \cup {NoClarification}
      /\ Detect(q) = "metric_definition" => AmbiguousMetric(q)
      /\ Detect(q) = "measure_unspecified" => UnspecifiedMeasure(q)
      /\ Detect(q) = "entity_reference" => EntityReference(q)
  BY DEF Detect, Clarifications, NoClarification
<1> QED
  BY <1>1, <1>2

-----------------------------------------------------------------------------
(* The inductive invariant.  That a clarification was answered shows in    *)
(* the words of the question, or the last answer told nothing and the same *)
(* clarification is open again; a script was played as far as its repairs  *)
(* went, each candidate before the present one rejected.                   *)

ConversationInv ==
    /\ question \in Seq(STRING)
    /\ category \in {Detect(question), NoClarification}
    /\ pc = "clarifying" => category \in Clarifications
    /\ answered \subseteq Clarifications
    /\ pc = "idle" => answered = {} /\ last = NoAnswer
    /\ last[2] \in TellNothing => category = last[1] /\ pc = "clarifying"
    /\ "unknown_term" \in answered =>
          last[1] = "unknown_term" /\ last[2] \in TellNothing
    /\ "metric_definition" \in answered => ToSet(question) \cap MetricWords # {}
    /\ "measure_unspecified" \in answered => ToSet(question) \cap MeasureWords # {}
    /\ "entity_reference" \in answered =>
          \/ ToSet(question) \cap Users = {}
          \/ last[1] = "entity_reference" /\ last[2] \in TellNothing

Rejected(n) ==
    \A i \in DOMAIN Scripts[question] : i <= n => ~Clears(Scripts[question][i])

ScriptInv ==
    /\ attempt \in Nat
    /\ question \in DOMAIN Scripts =>
          /\ pc = "generating" => Rejected(attempt)
          /\ pc = "answered" => /\ attempt + 1 \in DOMAIN Scripts[question]
                                /\ Clears(Scripts[question][attempt + 1])
                                /\ Rejected(attempt)
          /\ pc = "failed" => Rejected(attempt + 1)

PipelineInv == ConversationInv /\ ScriptInv /\ StatementsAreScoped

LEMMA EmptyQuestion == <<>> \in Seq(STRING) /\ <<>> \notin DOMAIN Scripts
BY EmptySeq, PipelineAssumption

LEMMA NothingTold == NoAnswer[2] \notin TellNothing
BY DEF NoAnswer, TellNothing

LEMMA IdleIsSafe == Idle => PipelineInv'
<1> SUFFICES ASSUME Idle PROVE PipelineInv'
  OBVIOUS
<1>1. ConversationInv'
  BY EmptyQuestion, NothingTold DEF Idle, ConversationInv, NoClarification
<1>2. ScriptInv'
  BY EmptyQuestion DEF Idle, ScriptInv
<1>3. StatementsAreScoped'
  BY DEF Idle, StatementsAreScoped
<1> QED
  BY <1>1, <1>2, <1>3 DEF PipelineInv

(* A question that is put: by hand or as an answer. *)
LEMMA Put ==
    ASSUME NEW q \in Seq(STRING), NEW by, Process(q, by)
    PROVE  /\ question' = q /\ category' = Detect(q)
           /\ pc' \in {"clarifying", "generating"}
           /\ pc' = "clarifying" <=> category' # NoClarification
           /\ pc' = "clarifying" => category' \in Clarifications
           /\ ScriptInv' /\ StatementsAreScoped'
<1>1. /\ question' = q /\ category' = Detect(q) /\ attempt' = 0
      /\ \/ pc' = "clarifying" /\ Detect(q) # NoClarification
         \/ pc' = "generating" /\ Detect(q) = NoClarification
  BY DEF Process
<1>2. \A i \in DOMAIN Scripts[q] : q \in DOMAIN Scripts => ~(i <= 0)
  BY PipelineAssumption
<1>3. ScriptInv'
  BY <1>1, <1>2 DEF ScriptInv, Rejected
<1> QED
  BY <1>1, <1>3, DetectByWords DEF StatementsAreScoped

LEMMA InvAsk ==
    ASSUME PipelineInv, NEW q \in Questions, NEW by \in Callers, Ask(q, by)
    PROVE  PipelineInv'
<1>1. q \in Seq(STRING)
  BY PipelineAssumption
<1>2. /\ Process(q, by)
      /\ answered = {} /\ answered' = {} /\ last = NoAnswer /\ last' = NoAnswer
  BY DEF Ask, PipelineInv, ConversationInv, conversation
<1>3. ConversationInv'
  BY <1>1, <1>2, Put, NothingTold DEF ConversationInv
<1> QED
  BY <1>1, <1>2, <1>3, Put DEF PipelineInv

LEMMA PartsAreRuns ==
    ASSUME NEW q, NEW p \in SubSeqs(q)
    PROVE  \E i \in 0..Len(q), j \in 0..Len(q) : p = SubSeq(q, i + 1, j)
BY DEF SubSeqs

(* Words added make no term of two words unless the second is added. *)
LEMMA SaysNoMore ==
    ASSUME NEW q \in Seq(STRING), NEW r \in Seq(STRING), NEW p \in SubSeqs(q \o r),
           Len(p) = 2, p[2] \notin ToSet(r)
    PROVE  p \in SubSeqs(q)
<1> DEFINE long == q \o r
<1>1. /\ long \in Seq(STRING) /\ Len(long) = Len(q) + Len(r)
      /\ \A i \in 1..(Len(q) + Len(r)) : long[i] = IF i <= Len(q) THEN q[i] ELSE r[i - Len(q)]
  BY ConcatProperties
<1>2. /\ Len(q) \in Nat /\ Len(r) \in Nat /\ DOMAIN r = 1..Len(r)
      /\ \A k \in 1..Len(q) : q[k] \in STRING
      /\ \A k \in 1..Len(long) : long[k] \in STRING
  BY <1>1, LenProperties, ElementOfSeq
<1>3. PICK i \in 0..Len(long), j \in 0..Len(long) : p = SubSeq(long, i + 1, j)
  BY PartsAreRuns
<1> HIDE DEF long
<1>4. /\ p \in Seq(STRING)
      /\ Len(p) = IF i + 1 <= j THEN j - (i + 1) + 1 ELSE 0
      /\ \A k \in 1..(j - (i + 1) + 1) : p[k] = long[(i + 1) + k - 1]
  <2>1. i + 1 \in Int /\ j \in Int /\ \A k \in (i + 1)..j : long[k] \in STRING
    BY <1>1, <1>2
  <2> QED
    BY <1>3, <2>1, SubSeqProperties
<1>5. i \in Int /\ j = i + 2 /\ i + 2 \in 1..(Len(q) + Len(r))
  BY <1>1, <1>2, <1>3, <1>4
<1>6. p[1] = long[i + 1] /\ p[2] = long[i + 2]
  <2>1. /\ 1 \in 1..(j - (i + 1) + 1) /\ (i + 1) + 1 - 1 = i + 1
        /\ 2 \in 1..(j - (i + 1) + 1) /\ (i + 1) + 2 - 1 = i + 2
    BY <1>5
  <2>2. p[1] = long[(i + 1) + 1 - 1] /\ p[2] = long[(i + 1) + 2 - 1]
    BY <1>4, <2>1
  <2> QED
    BY <2>1, <2>2
<1>7. i + 2 <= Len(q)
  <2> SUFFICES ASSUME ~(i + 2 <= Len(q)) PROVE FALSE
    OBVIOUS
  <2>1. p[2] = r[i + 2 - Len(q)] /\ i + 2 - Len(q) \in 1..Len(r)
    BY <1>1, <1>2, <1>5, <1>6
  <2> QED
    BY <1>2, <2>1 DEF ToSet
<1>8. i + 1 \in 1..Len(q) /\ long[i + 1] = q[i + 1] /\ long[i + 2] = q[i + 2]
  BY <1>1, <1>2, <1>3, <1>5, <1>7
<1> DEFINE t == SubSeq(q, i + 1, j)
<1>9. t \in Seq(STRING) /\ Len(t) = 2 /\ t[1] = q[i + 1] /\ t[2] = q[i + 2]
  <2>1. i + 1 \in Int /\ j \in Int /\ \A k \in (i + 1)..j : q[k] \in STRING
    BY <1>2, <1>3, <1>5, <1>7
  <2>2. /\ t \in Seq(STRING)
        /\ Len(t) = IF i + 1 <= j THEN j - (i + 1) + 1 ELSE 0
        /\ \A k \in 1..(j - (i + 1) + 1) : t[k] = q[(i + 1) + k - 1]
    BY <2>1, SubSeqProperties
  <2> QED
    BY <1>5, <2>2
<1>10. t \in SubSeqs(q)
  BY <1>2, <1>3, <1>5, <1>7 DEF SubSeqs
<1> HIDE DEF t
<1>11. p = t
  <2>1. DOMAIN p = 1..2 /\ DOMAIN t = 1..2
    BY <1>4, <1>9, LenProperties
  <2>2. \A k \in 1..2 : p[k] = t[k]
    BY <1>6, <1>8, <1>9
  <2> QED
    BY <1>4, <1>9, <2>1, <2>2, SeqEqual
<1> QED
  BY <1>10, <1>11

(* The two answers that tell nothing leave the detector where it was: the  *)
(* one does not touch the question, and what the other adds is in no rule's *)
(* list but users, which the question already had.                         *)
LEMMA TellingNothing ==
    ASSUME NEW q \in Seq(STRING), Detect(q) \in Clarifications,
           NEW r \in Interpretations(Detect(q)), r \in TellNothing
    PROVE  Detect(Rephrase(q, r)) = Detect(q)
<1>1. CASE r = <<"provide", "a", "definition">>
  <2>1. Rephrase(q, r) = q
    BY <1>1 DEF Rephrase
  <2> QED
    BY <2>1
<1>2. CASE r = <<"application", "users">> /\ r \in SubSeqs(q)
  <2>1. Rephrase(q, r) = q
    BY <1>2 DEF Rephrase
  <2> QED
    BY <2>1
<1>3. CASE r = <<"application", "users">> /\ r \notin SubSeqs(q)
  <2> DEFINE long == q \o r
  <2>1. Rephrase(q, r) = long
    BY <1>3 DEF Rephrase
  <2>2. Detect(q) = "entity_reference" /\ r \in Seq(STRING)
    <3>1. ToSet(r) = {"application", "users"}
      BY <1>3, TwoWords
    <3> QED
      BY <3>1, ReadingWords DEF Users
  <2>3. long \in Seq(STRING) /\ ToSet(long) = ToSet(q) \cup {"application", "users"}
    <3>1. ToSet(r) = {"application", "users"}
      BY <1>3, TwoWords
    <3> QED
      BY <2>2, <3>1, WordsOfConcat
  <2>4. /\ ~UnknownTerm(q) /\ ~AmbiguousMetric(q) /\ ~UnspecifiedMeasure(q)
        /\ EntityReference(q)
    BY <2>2 DEF Detect, NoClarification
  <2>5. /\ \A w : HasWord(q, w) <=> w \in ToSet(q)
        /\ \A W : HasAny(q, W) <=> ToSet(q) \cap W # {}
        /\ \A w : HasWord(long, w) <=> w \in ToSet(q) \cup {"application", "users"}
        /\ \A W : HasAny(long, W) <=> (ToSet(q) \cup {"application", "users"}) \cap W # {}
    BY <2>3, WordsAreElements
  <2>6. <<"conversion", "rate">> \in SubSeqs(long) => <<"conversion", "rate">> \in SubSeqs(q)
    <3>1. ToSet(r) = {"application", "users"}
      BY <1>3, TwoWords
    <3>2. Len(<<"conversion", "rate">>) = 2 /\ <<"conversion", "rate">>[2] = "rate"
      OBVIOUS
    <3> QED
      BY <2>2, <3>1, <3>2, SaysNoMore
  <2> HIDE DEF long
  <2>7. ToSet(q) \cap {"user", "users"} # {}
    BY <2>4, <2>5 DEF EntityReference
  <2>8. ~UnknownTerm(long)
    <3>1. ({"application", "users"} \cap UndefinedTerms) = {}
      BY DEF UndefinedTerms
    <3>2. ~HasAny(long, UndefinedTerms \ DefinedTerms)
      BY <2>4, <2>5, <3>1 DEF UnknownTerm
    <3> QED
      BY <2>4, <2>6, <3>2 DEF UnknownTerm, Says
  <2>9. ~AmbiguousMetric(long)
    BY <2>4, <2>5 DEF AmbiguousMetric
  <2>10. ~UnspecifiedMeasure(long)
    <3>1. ({"application", "users"} \cap RankWords) = {}
      BY DEF RankWords
    <3>2. ToSet(q) \cap EntityWords # {}
      BY <2>7 DEF EntityWords
    <3> QED
      BY <2>4, <2>5, <3>1, <3>2 DEF UnspecifiedMeasure
  <2>11. EntityReference(long)
    BY <2>4, <2>5 DEF EntityReference
  <2> QED
    BY <2>1, <2>2, <2>8, <2>9, <2>10, <2>11 DEF Detect
<1> QED
  BY <1>1, <1>2, <1>3 DEF TellNothing

LEMMA InvAskAgain ==
    ASSUME PipelineInv, NEW reading, AskAgain(reading)
    PROVE  PipelineInv'
<1> DEFINE q == Rephrase(question, reading)
<1>1. /\ ConversationInv /\ category \in Clarifications /\ category = Detect(question)
      /\ reading \in Interpretations(category) /\ Process(q, caller)
      /\ answered' = answered \cup {category} /\ last' = <<category, reading>>
  BY DEF AskAgain, PipelineInv, ConversationInv, Clarifications, NoClarification
<1>0. last[2] \in TellNothing => category = last[1]
  BY <1>1 DEF ConversationInv
<1>2. question \in Seq(STRING) /\ reading \in Seq(STRING)
  BY <1>1, ReadingWords DEF ConversationInv
<1>3. /\ q \in Seq(STRING)
      /\ ToSet(question) \ Users \subseteq ToSet(q)
      /\ reading = <<"customers">> => ToSet(q) \cap Users = {}
      /\ ToSet(q) \cap Users \subseteq ToSet(question) \cup ToSet(reading)
      /\ reading # <<"customers">> /\ reading # <<"provide", "a", "definition">> =>
            ToSet(reading) \subseteq ToSet(q)
      /\ reading \in TellNothing => Detect(q) = category
  BY <1>1, <1>2, RephraseWords, TellingNothing
<1> HIDE DEF q
<1>4. /\ question' = q /\ category' = Detect(q)
      /\ pc' \in {"clarifying", "generating"}
      /\ pc' = "clarifying" <=> category' # NoClarification
      /\ pc' = "clarifying" => category' \in Clarifications
      /\ ScriptInv' /\ StatementsAreScoped'
  BY <1>1, <1>3, Put
<1>5. last'[1] = category /\ last'[2] = reading
  BY <1>1
<1>6. MetricWords \cap Users = {} /\ MeasureWords \cap Users = {}
  BY DEF MetricWords, MeasureWords, Users
<1>7. "metric_definition" \in answered' => ToSet(q) \cap MetricWords # {}
  <2>1. CASE "metric_definition" \in answered
    BY <1>1, <1>3, <1>6, <2>1 DEF ConversationInv
  <2>2. CASE category = "metric_definition"
    BY <1>1, <1>3, <2>2, ReadingWords
  <2> QED
    BY <1>1, <2>1, <2>2
<1>8. "measure_unspecified" \in answered' => ToSet(q) \cap MeasureWords # {}
  <2>1. CASE "measure_unspecified" \in answered
    BY <1>1, <1>3, <1>6, <2>1 DEF ConversationInv
  <2>2. CASE category = "measure_unspecified"
    BY <1>1, <1>3, <2>2, ReadingWords
  <2> QED
    BY <1>1, <2>1, <2>2
<1>9. "entity_reference" \in answered' =>
          \/ ToSet(q) \cap Users = {}
          \/ category = "entity_reference" /\ reading \in TellNothing
  <2>1. CASE category = "entity_reference"
    BY <1>1, <1>3, <2>1, ReadingWords DEF TellNothing
  <2>2. CASE category # "entity_reference"
    <3>1. ToSet(reading) \cap Users = {}
      BY <1>1, <2>2, ReadingWords
    <3>2. "entity_reference" \in answered => ToSet(question) \cap Users = {}
      BY <1>1, <2>2, <1>0 DEF ConversationInv
    <3> QED
      BY <1>1, <1>3, <2>2, <3>1, <3>2
  <2> QED
    BY <2>1, <2>2
<1>10. "unknown_term" \in answered' => category = "unknown_term" /\ reading \in TellNothing
  <2>1. CASE category = "unknown_term"
    BY <1>1, <2>1, ReadingWords DEF TellNothing
  <2>2. CASE category # "unknown_term"
    BY <1>1, <2>2, <1>0 DEF ConversationInv
  <2> QED
    BY <2>1, <2>2
<1>11. reading \in TellNothing => category' = category /\ pc' = "clarifying"
  BY <1>1, <1>3, <1>4 DEF Clarifications, NoClarification
<1>12. ConversationInv'
  BY <1>1, <1>3, <1>4, <1>5, <1>7, <1>8, <1>9, <1>10, <1>11 DEF ConversationInv
<1> QED
  BY <1>4, <1>12 DEF PipelineInv

-----------------------------------------------------------------------------
(* The rules of the fake provider. *)

(* The least of some numbers. *)
LEMMA Least ==
    ASSUME NEW I \in SUBSET Nat, I # {}
    PROVE  Min(I) \in I /\ \A i \in I : Min(I) <= i
<1>1. PICK x \in I : \A y \in I : ~(<<y, x>> \in OpToRel(<, Nat))
  BY NatLessThanWellFounded, WFMin
<1>2. ASSUME NEW y \in I PROVE x <= y
  <2>1. y < x => <<y, x>> \in OpToRel(<, Nat)
    BY Zenon DEF OpToRel
  <2>2. ~(y < x)
    BY <1>1, <2>1
  <2> QED
    BY <2>2
<1> QED
  BY <1>2 DEF Min

(* One of the rules applies: the last one always does. *)
LEMMA FirstRule ==
    ASSUME NEW q, NEW s, NEW d
    PROVE  \E r \in ToSet(RuleOrder) :
              /\ r = RuleOrder[SelectInSeq(RuleOrder, LAMBDA x : Applies(x, q, s, d))]
              /\ Applies(r, q, s, d)
<1> DEFINE I == {i \in 1..Len(RuleOrder) : Applies(RuleOrder[i], q, s, d)}
<1>1. Len(RuleOrder) = 9 /\ RuleOrder[9] = "fallback" /\ DOMAIN RuleOrder = 1..9
  BY DEF RuleOrder
<1>2. Applies("fallback", q, s, d)
  BY DEF Applies
<1>3. I # {} /\ I \subseteq Nat
  BY <1>1, <1>2
<1>4. Min(I) \in I
  BY <1>3, Least
<1>5. SelectInSeq(RuleOrder, LAMBDA x : Applies(x, q, s, d)) = Min(I)
  BY <1>3 DEF SelectInSeq
<1> QED
  BY <1>1, <1>4, <1>5 DEF ToSet

(* What the rules may write, and the only one to write of the MRR. *)
LEMMA RuleTaken ==
    ASSUME NEW q, NEW s, NEW d
    PROVE  \/ Heuristic(q, s, d) \in {TopProductsByRevenue(q, d), RevenueByDimension(q, d),
                                      CustomersWithoutOrders, ScalarRevenue(d)}
           \/ Heuristic(q, s, d) = MonthlyRecurringRevenue /\ Applies("mrr", q, s, d)
           \/ \E t : Heuristic(q, s, d) \in {Count(t, d), StatusListing(t), Listing(t)}
<1>1. PICK r \in ToSet(RuleOrder) :
              /\ r = RuleOrder[SelectInSeq(RuleOrder, LAMBDA x : Applies(x, q, s, d))]
              /\ Applies(r, q, s, d)
  BY FirstRule
<1>2. r \in {"top_products", "by_dimension", "without_orders", "mrr", "revenue",
               "count", "status_listing", "listing", "fallback"}
  BY <1>1 DEF RuleOrder, ToSet
<1>3. CASE r = "mrr"
  BY <1>1, <1>3 DEF Heuristic
<1>4. CASE r = "fallback"
  BY <1>1, <1>4 DEF Heuristic, Fallback
<1>5. CASE r \in {"top_products", "by_dimension", "without_orders", "revenue",
               "count", "status_listing", "listing"}
  BY <1>1, <1>5 DEF Heuristic
<1> QED
  BY <1>2, <1>3, <1>4, <1>5

(* The rules write statements the gate finds no fault in by themselves, and *)
(* that name every table they read by its own name.                        *)
Clean(c) ==
    /\ "flaws" \in DOMAIN c /\ c.flaws = {} /\ c.shape = {}
    /\ c.names.virtual = {} /\ \A t \in c.tables : <<t, t>> \in c.names.sources

LEMMA SelectIsClean ==
    ASSUME NEW T, NEW J, NEW C, NEW n
    PROVE  Clean(Select(T, J, C, n))
BY DEF Clean, Select

LEMMA RulesAreClean ==
    ASSUME NEW q, NEW s, NEW d
    PROVE  Clean(Heuristic(q, s, d))
<1>1. Clean(TopProductsByRevenue(q, d))
  BY SelectIsClean DEF TopProductsByRevenue
<1>2. Clean(RevenueByDimension(q, d))
  BY SelectIsClean DEF RevenueByDimension
<1>3. Clean(CustomersWithoutOrders)
  BY SelectIsClean DEF CustomersWithoutOrders
<1>4. Clean(ScalarRevenue(d))
  BY SelectIsClean DEF ScalarRevenue
<1>5. Clean(MonthlyRecurringRevenue)
  BY SelectIsClean DEF MonthlyRecurringRevenue
<1>6. \A t : Clean(Count(t, d)) /\ Clean(StatusListing(t)) /\ Clean(Listing(t))
  BY SelectIsClean DEF Count, StatusListing, Listing
<1> QED
  BY <1>1, <1>2, <1>3, <1>4, <1>5, <1>6, RuleTaken

-----------------------------------------------------------------------------
(* The layer knows the tenant column of each table of the schema that      *)
(* belongs to tenants.                                                     *)

TenantOwned(t) == t = "organizations" \/ "organization_id" \in ColumnNames[t]

LEMMA TenantColumnsExist ==
    ASSUME NEW t \in AllTables, TenantOwned(t)
    PROVE  TenantColumn[t] \in ReferenceSchema.columns
<1>1. CASE t = "organizations"
  <2>1. TenantColumn[t] = <<t, "id">>
    BY <1>1 DEF TenantColumn, TenantTables
  <2>2. "id" \in ColumnNames[t]
    BY <1>1 DEF ColumnNames
  <2> QED
    BY <2>1, <2>2 DEF ReferenceSchema, ColumnsOf
<1>2. CASE t # "organizations"
  <2>1. "organization_id" \in ColumnNames[t]
    BY <1>2 DEF TenantOwned
  <2>2. t # "regions"
    BY <2>1 DEF ColumnNames
  <2>3. t \in TenantTables
    BY <1>2, <2>2 DEF AllTables, ColumnNames, TenantTables
  <2>4. TenantColumn[t] = <<t, "organization_id">>
    BY <1>2, <2>3 DEF TenantColumn
  <2> QED
    BY <2>1, <2>4 DEF ReferenceSchema, ColumnsOf
<1> QED
  BY <1>1, <1>2

LEMMA ClearedIsScoped ==
    ASSUME NEW c, NEW verdict,
           verdict = Gate!SecureCandidate(c, ReferenceSchema, caller, MaxRows, "none"),
           verdict.ok, c.tables \subseteq AllTables
    PROVE  \A t \in verdict.stmt.tables : TenantOwned(t) => t \in verdict.stmt.scoped
<1>1. /\ verdict.stmt.tables = c.tables
      /\ verdict.stmt.scoped = c.tables \cap Gate!TenantTables(ReferenceSchema)
  BY DEF Gate!SecureCandidate, Gate!FinalStatement
<1>2. ASSUME NEW t \in c.tables, TenantOwned(t)
      PROVE  t \in Gate!TenantTables(ReferenceSchema)
  BY <1>2, TenantColumnsExist DEF Gate!TenantTables, ReferenceSchema
<1> QED
  BY <1>1, <1>2

(* A statement of the rules that the gate clears names only tables of the  *)
(* schema.                                                                 *)
LEMMA ClearedTables ==
    ASSUME NEW c, Clean(c), Clears(c)
    PROVE  c.tables \subseteq AllTables
<1>1. Gate!GateIssues(c, ReferenceSchema, caller, "none") = {}
  BY DEF Clears, Gate!SecureCandidate
<1>2. Gate!Validate(c, ReferenceSchema) = {}
  BY <1>1 DEF Gate!GateIssues
<1>3. Gate!NameIssues(c.names, ReferenceSchema) = {}
  BY <1>2 DEF Gate!Validate, Gate!ValidateExpression
<1>4. \A t \in c.tables : <<t, t>> \in Gate!BaseSources(c.names)
  BY DEF Clean, Gate!BaseSources
<1>5. \A src \in Gate!BaseSources(c.names) : src[2] \in AllTables
  BY <1>3 DEF Gate!NameIssues, Gate!NameCodes, ReferenceSchema
<1>6. \A t \in c.tables : <<t, t>>[2] \in AllTables
  BY <1>4, <1>5
<1> QED
  BY <1>6

-----------------------------------------------------------------------------
(* The other steps. *)

LEMMA InvInit == Init => PipelineInv
<1> SUFFICES ASSUME Init PROVE PipelineInv
  OBVIOUS
<1>1. ConversationInv
  BY EmptyQuestion, NothingTold DEF Init, ConversationInv, NoClarification
<1>2. ScriptInv
  BY EmptyQuestion DEF Init, ScriptInv
<1>3. StatementsAreScoped
  BY DEF Init, StatementsAreScoped
<1> QED
  BY <1>1, <1>2, <1>3 DEF PipelineInv

(* A day that passes leaves the request alone. *)
LEMMA InvKept ==
    ASSUME PipelineInv,
           UNCHANGED <<pc, question, caller, category, conversation, attempt, secured>>
    PROVE  PipelineInv'
<1>1. ConversationInv'
  BY DEF PipelineInv, ConversationInv, conversation
<1>2. ScriptInv'
  BY DEF PipelineInv, ScriptInv, Rejected, Clears
<1>3. StatementsAreScoped'
  BY DEF PipelineInv, StatementsAreScoped
<1> QED
  BY <1>1, <1>2, <1>3 DEF PipelineInv

(* The candidate played after so many repairs, and where the list ends its *)
(* last one once more.                                                     *)
LEMMA CandidatePlayed ==
    ASSUME NEW q \in DOMAIN Scripts, NEW n \in Nat, NEW s, NEW d
    PROVE  /\ n + 1 \in DOMAIN Scripts[q] => Generate(q, s, d, n) = Scripts[q][n + 1]
           /\ n + 1 \notin DOMAIN Scripts[q] =>
                 \E i \in DOMAIN Scripts[q] :
                    i <= n /\ Generate(q, s, d, n) = Scripts[q][i]
<1>1. Generate(q, s, d, n) = Scripted(Scripts[q], n)
  BY DEF Generate
<1>2. Len(Scripts[q]) \in Nat \ {0} /\ DOMAIN Scripts[q] = 1..Len(Scripts[q])
  BY PipelineAssumption
<1>3. n + 1 \in DOMAIN Scripts[q] <=> n < Len(Scripts[q])
  BY <1>2
<1>4. Len(Scripts[q]) \in DOMAIN Scripts[q]
  BY <1>2
<1>5. ~(n < Len(Scripts[q])) => Len(Scripts[q]) <= n
  BY <1>2
<1> QED
  BY <1>1, <1>3, <1>4, <1>5 DEF Scripted

LEMMA InvAccept ==
    ASSUME PipelineInv, Accept
    PROVE  PipelineInv'
<1>1. /\ pc = "generating" /\ Verdict.ok /\ secured' = Verdict /\ pc' = "answered"
      /\ UNCHANGED <<question, caller, category, conversation, attempt>>
  BY DEF Accept
<1>2. attempt \in Nat /\ (question \in DOMAIN Scripts => Rejected(attempt))
  BY <1>1 DEF PipelineInv, ScriptInv
<1>3. Clears(Candidate)
  BY <1>1 DEF Verdict, Clears
<1>4. ASSUME question \in DOMAIN Scripts
      PROVE  attempt + 1 \in DOMAIN Scripts[question]
             /\ Clears(Scripts[question][attempt + 1])
  BY <1>2, <1>3, <1>4, CandidatePlayed DEF Candidate, Rejected
<1>5. ConversationInv'
  BY <1>1 DEF PipelineInv, ConversationInv, conversation
<1>6. ScriptInv'
  BY <1>1, <1>2, <1>4 DEF ScriptInv, Rejected, Clears
<1>7. Candidate.tables \subseteq AllTables
  <2>1. CASE question \in DOMAIN Scripts
    <3>1. \E i \in DOMAIN Scripts[question] : Candidate = Scripts[question][i]
      BY <1>2, <2>1, CandidatePlayed DEF Candidate
    <3> QED
      BY <2>1, <3>1, PipelineAssumption
  <2>2. CASE question \notin DOMAIN Scripts
    <3>1. Candidate = Heuristic(question, subset, window # NoWindow)
      BY <2>2 DEF Candidate, Generate
    <3> QED
      BY <3>1, <1>3, RulesAreClean, ClearedTables
  <2> QED
    BY <2>1, <2>2
<1>8. StatementsAreScoped'
  BY <1>1, <1>7, ClearedIsScoped DEF StatementsAreScoped, Verdict, TenantOwned
<1> QED
  BY <1>5, <1>6, <1>8 DEF PipelineInv

(* What a candidate that was not cleared adds to those rejected. *)
LEMMA OneMoreRejected ==
    ASSUME question \in DOMAIN Scripts, attempt \in Nat, Rejected(attempt), ~Clears(Candidate)
    PROVE  Rejected(attempt + 1)
<1> SUFFICES ASSUME NEW i \in DOMAIN Scripts[question], i <= attempt + 1
             PROVE  ~Clears(Scripts[question][i])
  BY DEF Rejected
<1>1. i \in Nat
  BY PipelineAssumption
<1>2. CASE i <= attempt
  BY <1>2 DEF Rejected
<1>3. CASE i = attempt + 1
  BY <1>3, CandidatePlayed DEF Candidate
<1> QED
  BY <1>1, <1>2, <1>3

LEMMA InvRepair ==
    ASSUME PipelineInv, Repair
    PROVE  PipelineInv'
<1>1. /\ pc = "generating" /\ MayRepair(Verdict) /\ attempt' = attempt + 1
      /\ UNCHANGED <<pc, question, caller, category, conversation>>
  BY DEF Repair
<1>2. ~Clears(Candidate)
  <2>1. Verdict.issues # {}
    BY <1>1 DEF MayRepair, Gate!IsRepairable
  <2> QED
    BY <2>1 DEF Verdict, Clears, Gate!SecureCandidate
<1>3. attempt \in Nat /\ (question \in DOMAIN Scripts => Rejected(attempt + 1))
  BY <1>1, <1>2, OneMoreRejected DEF PipelineInv, ScriptInv
<1>4. ConversationInv'
  BY <1>1 DEF PipelineInv, ConversationInv, conversation
<1>5. ScriptInv'
  BY <1>1, <1>3 DEF ScriptInv, Rejected, Clears
<1>6. StatementsAreScoped'
  BY <1>1 DEF StatementsAreScoped
<1> QED
  BY <1>4, <1>5, <1>6 DEF PipelineInv

LEMMA InvGiveUp ==
    ASSUME PipelineInv, GiveUp
    PROVE  PipelineInv'
<1>1. /\ pc = "generating" /\ ~Verdict.ok /\ pc' = "failed"
      /\ UNCHANGED <<question, caller, category, conversation, attempt>>
  BY DEF GiveUp
<1>2. ~Clears(Candidate)
  BY <1>1 DEF Verdict, Clears
<1>3. attempt \in Nat /\ (question \in DOMAIN Scripts => Rejected(attempt + 1))
  BY <1>1, <1>2, OneMoreRejected DEF PipelineInv, ScriptInv
<1>4. ConversationInv'
  BY <1>1 DEF PipelineInv, ConversationInv, conversation
<1>5. ScriptInv'
  BY <1>1, <1>3 DEF ScriptInv, Rejected, Clears
<1>6. StatementsAreScoped'
  BY <1>1 DEF StatementsAreScoped
<1> QED
  BY <1>4, <1>5, <1>6 DEF PipelineInv

-----------------------------------------------------------------------------
(* The theorems. *)

(* A conversation, a script and a statement stay as the invariant has them *)
(* through every question, answer, candidate and passing day.              *)
THEOREM PipelineSafety == Spec => []PipelineInv
<1>1. PipelineInv /\ [Next]_vars => PipelineInv'
  <2> SUFFICES ASSUME PipelineInv, [Next]_vars PROVE PipelineInv'
    OBVIOUS
  <2>1. CASE Tick
    BY <2>1, InvKept DEF Tick
  <2>2. ASSUME NEW q \in Questions, NEW by \in Callers, Ask(q, by) PROVE PipelineInv'
    BY <2>2, InvAsk
  <2>3. ASSUME NEW reading, AskAgain(reading) PROVE PipelineInv'
    BY <2>3, InvAskAgain
  <2>4. CASE Drop
    BY <2>4, IdleIsSafe DEF Drop
  <2>5. CASE Accept
    BY <2>5, InvAccept
  <2>6. CASE Repair
    BY <2>6, InvRepair
  <2>7. CASE GiveUp
    BY <2>7, InvGiveUp
  <2>8. CASE Close
    BY <2>8, IdleIsSafe DEF Close
  <2>9. CASE UNCHANGED vars
    BY <2>9, InvKept DEF vars, request, conversation
  <2> QED
    BY <2>1, <2>2, <2>3, <2>4, <2>5, <2>6, <2>7, <2>8, <2>9 DEF Next
<1> QED
  BY <1>1, InvInit, PTL DEF Spec

(* ambiguity.py: though every answer is read as a new question and other   *)
(* clarifications may come between, a clarification that was answered in   *)
(* the words it offered is raised again only right after one of the two    *)
(* answers that tell nothing, and these raise the one they answer and no   *)
(* other.                                                                  *)
THEOREM AnswersAlwaysSettle == Spec => []AnswersSettle
<1>1. ConversationInv => AnswersSettle
  <2> SUFFICES ASSUME ConversationInv PROVE AnswersSettle
    OBVIOUS
  <2>1. ASSUME category \in answered PROVE last[2] \in TellNothing
    <3>1. category \in Clarifications /\ category = Detect(question)
      BY <2>1 DEF ConversationInv, NoClarification, Clarifications
    <3>2. question \in Seq(STRING)
      BY DEF ConversationInv
    <3>3. category \notin {"metric_definition", "measure_unspecified"}
      BY <2>1, <3>1, <3>2, DetectByWords DEF ConversationInv
    <3>4. CASE category = "unknown_term"
      BY <2>1, <3>4 DEF ConversationInv
    <3>5. CASE category = "entity_reference"
      BY <2>1, <3>1, <3>2, <3>5, DetectByWords DEF ConversationInv
    <3> QED
      BY <3>1, <3>3, <3>4, <3>5 DEF Clarifications
  <2> QED
    BY <2>1 DEF AnswersSettle, ConversationInv
<1> QED
  BY <1>1, PipelineSafety, PTL DEF PipelineInv

(* fake.py and the repair loop of query_orchestrator.py: the first of a    *)
(* script's candidates that the gate clears is the answer, and a question  *)
(* fails only when none of those played clears.                            *)
THEOREM FirstClearedAlwaysAnswers == Spec => []FirstClearedAnswers
<1>1. ScriptInv => FirstClearedAnswers
  <2> SUFFICES ASSUME ScriptInv, question \in DOMAIN Scripts PROVE FirstClearedAnswers
    BY DEF FirstClearedAnswers
  <2>1. attempt \in Nat /\ DOMAIN Scripts[question] = 1..Len(Scripts[question])
        /\ Len(Scripts[question]) \in Nat
    BY PipelineAssumption DEF ScriptInv
  <2>2. pc = "answered" => \A i \in 1..attempt : ~Clears(Scripts[question][i])
    <3> SUFFICES ASSUME pc = "answered", NEW i \in 1..attempt
                 PROVE  ~Clears(Scripts[question][i])
      OBVIOUS
    <3>1. Rejected(attempt) /\ attempt + 1 \in DOMAIN Scripts[question]
      BY DEF ScriptInv
    <3>2. i \in DOMAIN Scripts[question] /\ i <= attempt
      BY <2>1, <3>1
    <3> QED
      BY <3>1, <3>2 DEF Rejected
  <2> QED
    BY <2>2 DEF ScriptInv, FirstClearedAnswers, Rejected
<1> QED
  BY <1>1, PipelineSafety, PTL DEF PipelineInv

(* tenant.py with semantic/reference.py: no statement that answers reads a *)
(* table of the tenants that is not confined to the caller's.              *)
THEOREM StatementsAlwaysScoped == Spec => []StatementsAreScoped
BY PipelineSafety, PTL DEF PipelineInv

-----------------------------------------------------------------------------
(* What the rules read and what they join. *)

(* Which columns are sensitive can be told from their names. *)
SensitiveNames == {"email", "full_name", "contact_email", "contact_phone", "card_last4",
                   "password_hash", "payment_token", "amount", "mrr"}

LEMMA SensitiveByName ==
    ASSUME NEW c, IsSensitive(c)
    PROVE  c[2] \in SensitiveNames
<1>1. \E class \in DOMAIN Classified : c \in Classified[class]
  BY DEF IsSensitive, ClassOf
<1>2. c \in Classified.pii \cup Classified.auth_secret \cup Classified.financial
  BY <1>1 DEF Classified
<1> QED
  BY <1>2 DEF Classified, SensitiveNames

(* A foreign key is found by its column. *)
LEMMA KeyIsJoined ==
    ASSUME NEW t \in AllTables, NEW n \in ColumnNames[t], n \in DOMAIN ReferredTable
    PROVE  Joined(<<t, n>>) = <<<<t, n>>, <<ReferredTable[n], "id">>>>
<1>1. <<t, n>> \in ReferenceSchema.columns
  BY DEF ReferenceSchema, ColumnsOf
<1> DEFINE key == <<<<t, n>>, <<ReferredTable[n], "id">>>>
<1>2. key \in ForeignKeys /\ key[1] = <<t, n>>
  BY <1>1 DEF ForeignKeys
<1>3. ASSUME NEW fk \in ForeignKeys, fk[1] = <<t, n>> PROVE fk = key
  <2>1. PICK c \in ReferenceSchema.columns : fk = <<c, <<ReferredTable[c[2]], "id">>>>
    BY DEF ForeignKeys
  <2>2. c = <<t, n>>
    BY <1>3, <2>1
  <2> QED
    BY <2>1, <2>2
<1> QED
  BY <1>2, <1>3 DEF Joined

LEMMA JoinsListed ==
    /\ OrdersOf = {<<<<"order_items", "order_id">>, <<"orders", "id">>>>}
    /\ ProductsOf = {<<<<"order_items", "product_id">>, <<"products", "id">>>>}
    /\ CustomersOf = {<<<<"orders", "customer_id">>, <<"customers", "id">>>>}
    /\ RegionsOf = {<<<<"customers", "region_id">>, <<"regions", "id">>>>}
<1>1. {"order_items", "orders", "customers"} \subseteq AllTables
  BY DEF AllTables, ColumnNames
<1>2. /\ {"order_id", "product_id"} \subseteq ColumnNames["order_items"]
      /\ "customer_id" \in ColumnNames["orders"]
      /\ "region_id" \in ColumnNames["customers"]
  BY DEF ColumnNames
<1>3. /\ {"order_id", "product_id", "customer_id", "region_id"} \subseteq DOMAIN ReferredTable
      /\ ReferredTable["order_id"] = "orders" /\ ReferredTable["product_id"] = "products"
      /\ ReferredTable["customer_id"] = "customers" /\ ReferredTable["region_id"] = "regions"
  BY DEF ReferredTable
<1> QED
  BY <1>1, <1>2, <1>3, KeyIsJoined DEF OrdersOf, ProductsOf, CustomersOf, RegionsOf

Harmless(c) == \A col \in c.columns : ~IsSensitive(col)

(* A statement is harmless whose columns and keys have harmless names. *)
LEMMA HarmlessNames ==
    ASSUME NEW T, NEW J, NEW C, NEW n,
           \A col \in C : ~IsSensitive(col),
           \A j \in J : ~IsSensitive(j[1]) /\ ~IsSensitive(j[2])
    PROVE  Harmless(Select(T, J, C, n))
BY DEF Harmless, Select

LEMMA KeysAreHarmless ==
    \A j \in OrdersOf \cup ProductsOf \cup CustomersOf \cup RegionsOf :
        ~IsSensitive(j[1]) /\ ~IsSensitive(j[2])
<1>1. \A j \in OrdersOf \cup ProductsOf \cup CustomersOf \cup RegionsOf :
         j[1][2] \in {"order_id", "product_id", "customer_id", "region_id"} /\ j[2][2] = "id"
  BY JoinsListed
<1> QED
  BY <1>1, SensitiveByName DEF SensitiveNames

LEMMA DimensionListed ==
    ASSUME NEW q
    PROVE  Dimension(q) \in {<<"regions", "name">>, <<"products", "category">>,
                             <<"products", "name">>, <<"orders", "ordered_at">>,
                             <<"customers", "name">>}
BY DEF Dimension

LEMMA ReportsAreHarmless ==
    ASSUME NEW q, NEW d
    PROVE  /\ Harmless(TopProductsByRevenue(q, d))
           /\ Harmless(RevenueByDimension(q, d))
           /\ Harmless(CustomersWithoutOrders)
           /\ Harmless(ScalarRevenue(d))
<1> DEFINE Plain == {"quantity", "unit_price", "name", "ordered_at", "category", "status", "id"}
<1>1. \A col : col[2] \in Plain => ~IsSensitive(col)
  BY SensitiveByName DEF SensitiveNames
<1>2. \A col \in Amounts : col[2] \in Plain
  BY DEF Amounts
<1>3. \A col \in Dated(<<"orders", "ordered_at">>, d) : col[2] \in Plain
  BY DEF Dated
<1>4. Dimension(q)[2] \in Plain
  BY DimensionListed
<1> HIDE DEF Plain
<1>5. Harmless(TopProductsByRevenue(q, d))
  <2>1. <<"products", "name">>[2] \in Plain
    BY DEF Plain
  <2>2. \A col \in Amounts \cup {<<"products", "name">>}
                      \cup Dated(<<"orders", "ordered_at">>, d) : ~IsSensitive(col)
    BY <1>1, <1>2, <1>3, <2>1
  <2> QED
    BY <2>2, HarmlessNames, KeysAreHarmless DEF TopProductsByRevenue
<1>6. Harmless(RevenueByDimension(q, d))
  <2>1. <<"orders", "status">>[2] \in Plain
    BY DEF Plain
  <2>2. JoinsTo(Dimension(q)[1]) \subseteq ProductsOf \cup CustomersOf \cup RegionsOf
    BY DEF JoinsTo
  <2>3. \A col \in Amounts \cup {Dimension(q)}
                   \cup {c \in {<<"orders", "status">>} :
                            Mentions(q, "exclud") /\ Mentions(q, "refund")}
                   \cup Dated(<<"orders", "ordered_at">>, d) : ~IsSensitive(col)
    BY <1>1, <1>2, <1>3, <1>4, <2>1
  <2> DEFINE joins == OrdersOf \cup JoinsTo(Dimension(q)[1])
  <2>4. \A j \in joins : ~IsSensitive(j[1]) /\ ~IsSensitive(j[2])
    BY <2>2, KeysAreHarmless
  <2> HIDE DEF joins
  <2>5. RevenueByDimension(q, d) =
           Select(UNION {{j[1][1], j[2][1]} : j \in joins}, joins,
                  Amounts \cup {Dimension(q)}
                   \cup {c \in {<<"orders", "status">>} :
                            Mentions(q, "exclud") /\ Mentions(q, "refund")}
                   \cup Dated(<<"orders", "ordered_at">>, d), Unlimited)
    BY DEF RevenueByDimension, joins
  <2> QED
    BY <2>3, <2>4, <2>5, HarmlessNames
<1>7. Harmless(CustomersWithoutOrders)
  <2>1. \A col \in {<<"customers", "id">>, <<"customers", "name">>, <<"orders", "ordered_at">>} :
           ~IsSensitive(col)
    BY <1>1 DEF Plain
  <2> QED
    BY <2>1, HarmlessNames, KeysAreHarmless DEF CustomersWithoutOrders
<1>8. Harmless(ScalarRevenue(d))
  <2>1. \A col \in Amounts \cup Dated(<<"orders", "ordered_at">>, d) : ~IsSensitive(col)
    BY <1>1, <1>2, <1>3
  <2> QED
    BY <2>1, HarmlessNames, KeysAreHarmless DEF ScalarRevenue
<1> QED
  BY <1>5, <1>6, <1>7, <1>8

LEMMA ListingsAreHarmless ==
    ASSUME NEW t, NEW d
    PROVE  /\ Harmless(Count(t, d)) /\ Harmless(StatusListing(t)) /\ Harmless(Listing(t))
<1>1. \A u : ~IsSensitive(<<u, DateField(u)>>)
  <2> SUFFICES ASSUME NEW u PROVE DateField(u) \notin SensitiveNames
    BY SensitiveByName
  <2> QED
    BY DEF DateField, DefaultDateFields, SensitiveNames
<1>2. Harmless(Count(t, d))
  <2> DEFINE u == IF t = NoTable THEN "customers" ELSE t
  <2>1. Count(t, d) = Select({u}, {}, Dated(<<u, DateField(u)>>, d), Unlimited)
    BY DEF Count
  <2>2. \A col \in Dated(<<u, DateField(u)>>, d) : ~IsSensitive(col)
    BY <1>1 DEF Dated
  <2> HIDE DEF u
  <2> QED
    BY <2>1, <2>2, HarmlessNames
<1>3. \A col \in SafeColumns(t) \cup {<<t, "status">>} : ~IsSensitive(col)
  BY SensitiveByName DEF SafeColumns, SensitiveNames
<1>4. Harmless(StatusListing(t)) /\ Harmless(Listing(t))
  BY <1>3, HarmlessNames DEF StatusListing, Listing
<1> QED
  BY <1>2, <1>4

(* A statement with a sensitive column is the one for the MRR. *)
LEMMA SensitiveIsAskedFor ==
    ASSUME NEW q, NEW s, NEW d, ~Harmless(Heuristic(q, s, d))
    PROVE  Mentions(q, "mrr") \/ <<"recurring", "revenue">> \in SubSeqs(q)
<1>1. Applies("mrr", q, s, d)
  BY RuleTaken, ReportsAreHarmless, ListingsAreHarmless
<1> QED
  BY <1>1 DEF Applies

(* The gate leaves the columns of what it clears as they are. *)
LEMMA ClearedColumns ==
    ASSUME NEW c, NEW verdict,
           verdict = Gate!SecureCandidate(c, ReferenceSchema, caller, MaxRows, "none"),
           verdict.ok
    PROVE  verdict.stmt.columns = c.columns
BY DEF Gate!SecureCandidate, Gate!FinalStatement

(* provider.py with semantic/reference.py: of the statements the rules     *)
(* write, only the one for the MRR reads a sensitive column, so none that  *)
(* answers shows one to who did not ask for it.                            *)
THEOREM SensitiveOnlyOnRequest == Spec => []SensitiveOnRequest
<1>1. Init => SensitiveOnRequest
  BY DEF Init, SensitiveOnRequest
<1>2. SensitiveOnRequest /\ [Next]_vars => SensitiveOnRequest'
  <2> SUFFICES ASSUME SensitiveOnRequest, [Next]_vars PROVE SensitiveOnRequest'
    OBVIOUS
  <2>1. CASE UNCHANGED <<pc, question, secured>>
    BY <2>1 DEF SensitiveOnRequest
  <2>2. CASE pc' # "answered"
    BY <2>2 DEF SensitiveOnRequest
  <2>3. CASE Accept
    <3>1. Verdict.ok /\ secured' = Verdict /\ question' = question
      BY <2>3 DEF Accept
    <3>2. secured'.stmt.columns = Candidate.columns
      BY <3>1, ClearedColumns DEF Verdict
    <3> SUFFICES ASSUME question \notin DOMAIN Scripts, NEW col \in Candidate.columns,
                        IsSensitive(col)
                 PROVE  \/ Mentions(question, "mrr")
                        \/ <<"recurring", "revenue">> \in SubSeqs(question)
      BY <3>1, <3>2 DEF SensitiveOnRequest
    <3>3. Candidate = Heuristic(question, subset, window # NoWindow)
      BY DEF Candidate, Generate
    <3> QED
      BY <3>3, SensitiveIsAskedFor DEF Harmless
  <2>4. ASSUME NEW q, NEW by, Process(q, by) PROVE pc' # "answered"
    BY <2>4 DEF Process
  <2> QED
    BY <2>1, <2>2, <2>3, <2>4
       DEF Next, vars, request, Tick, Ask, AskAgain, Drop, Repair, GiveUp, Close, Idle
<1> QED
  BY <1>1, <1>2, PTL DEF Spec

-----------------------------------------------------------------------------

(* No part of the tables of c is without a join to the rest of them. *)
Connects(c) ==
    \A part \in (SUBSET c.tables) \ {{}, c.tables} :
        \E j \in c.joins : (j[1][1] \in part) # (j[2][1] \in part)

LEMMA OneTableConnects ==
    ASSUME NEW t, NEW C, NEW n
    PROVE  Connects(Select({t}, {}, C, n))
BY DEF Connects, Select

(* A chain or a star of joins, written as what each join relates. *)
LEMMA TwoTablesConnect ==
    ASSUME NEW a, NEW b, NEW J, NEW C, NEW n,
           \E j \in J : j[1][1] = a /\ j[2][1] = b
    PROVE  Connects(Select({a, b}, J, C, n))
BY DEF Connects, Select

Relates(J, a, b) == \E j \in J : j[1][1] = a /\ j[2][1] = b

(* Where a and b are related, no part has only one of them. *)
LEMMA ThreeTablesConnect ==
    ASSUME NEW a, NEW b, NEW c, NEW J, NEW C, NEW n,
           Relates(J, a, b), Relates(J, a, c) \/ Relates(J, b, c)
    PROVE  Connects(Select({a, b, c}, J, C, n))
<1> SUFFICES ASSUME NEW part \in SUBSET {a, b, c}, part # {}, part # {a, b, c},
                    \A j \in J : (j[1][1] \in part) = (j[2][1] \in part)
             PROVE  FALSE
  BY DEF Connects, Select
<1>1. \A t, u : Relates(J, t, u) => (t \in part <=> u \in part)
  BY DEF Relates
<1>2. /\ a \in part <=> b \in part
      /\ a \in part <=> c \in part
  BY <1>1
<1> QED
  BY <1>2

LEMMA FourTablesConnect ==
    ASSUME NEW a, NEW b, NEW c, NEW e, NEW J, NEW C, NEW n,
           Relates(J, a, b), Relates(J, b, c), Relates(J, c, e)
    PROVE  Connects(Select({a, b, c, e}, J, C, n))
<1> SUFFICES ASSUME NEW part \in SUBSET {a, b, c, e}, part # {}, part # {a, b, c, e},
                    \A j \in J : (j[1][1] \in part) = (j[2][1] \in part)
             PROVE  FALSE
  BY DEF Connects, Select
<1>1. \A t, u : Relates(J, t, u) => (t \in part <=> u \in part)
  BY DEF Relates
<1>2. /\ a \in part <=> b \in part
      /\ a \in part <=> c \in part
      /\ a \in part <=> e \in part
  BY <1>1
<1> QED
  BY <1>2

TablesOf(J) == UNION {{j[1][1], j[2][1]} : j \in J}

LEMMA TablesOfBoth ==
    ASSUME NEW J, NEW K
    PROVE  TablesOf(J \cup K) = TablesOf(J) \cup TablesOf(K)
BY DEF TablesOf

(* The statements with joins. *)
LEMMA ReportsConnect ==
    ASSUME NEW q, NEW d
    PROVE  /\ Connects(TopProductsByRevenue(q, d))
           /\ Connects(RevenueByDimension(q, d))
           /\ Connects(CustomersWithoutOrders)
           /\ Connects(ScalarRevenue(d))
<1>1. \A J : OrdersOf \subseteq J => Relates(J, "order_items", "orders")
  BY JoinsListed DEF Relates
<1>2. \A J : ProductsOf \subseteq J => Relates(J, "order_items", "products")
  BY JoinsListed DEF Relates
<1>3. \A J : CustomersOf \subseteq J => Relates(J, "orders", "customers")
  BY JoinsListed DEF Relates
<1>4. \A J : RegionsOf \subseteq J => Relates(J, "customers", "regions")
  BY JoinsListed DEF Relates
<1>5. Connects(TopProductsByRevenue(q, d))
  BY <1>1, <1>2, ThreeTablesConnect DEF TopProductsByRevenue
<1>6. Connects(ScalarRevenue(d))
  BY <1>1, TwoTablesConnect DEF ScalarRevenue, Relates
<1>7. Connects(CustomersWithoutOrders)
  <2>1. {"customers", "orders"} = {"orders", "customers"}
    OBVIOUS
  <2> QED
    BY <1>3, <2>1, TwoTablesConnect DEF CustomersWithoutOrders, Relates
<1>8. Connects(RevenueByDimension(q, d))
  <2> DEFINE table == Dimension(q)[1]
  <2>1. PICK joins : joins = OrdersOf \cup JoinsTo(table)
    OBVIOUS
  <2>2. PICK C : RevenueByDimension(q, d) = Select(TablesOf(joins), joins, C, Unlimited)
    BY <2>1 DEF RevenueByDimension, TablesOf
  <2>3. table \in {"regions", "products", "orders", "customers"}
    BY DimensionListed
  <2>4. /\ TablesOf(OrdersOf) = {"order_items", "orders"}
        /\ TablesOf(ProductsOf) = {"order_items", "products"}
        /\ TablesOf(CustomersOf) = {"orders", "customers"}
        /\ TablesOf(RegionsOf) = {"customers", "regions"}
    BY JoinsListed DEF TablesOf
  <2> HIDE DEF table
  <2>5. CASE table = "regions"
    <3>1. joins = OrdersOf \cup (CustomersOf \cup RegionsOf)
      BY <2>1, <2>5 DEF JoinsTo
    <3>2. TablesOf(joins) = {"order_items", "orders", "customers", "regions"}
      <4>1. TablesOf(CustomersOf \cup RegionsOf) = {"orders", "customers", "regions"}
        BY <2>4, TablesOfBoth
      <4>2. TablesOf(joins) = TablesOf(OrdersOf) \cup TablesOf(CustomersOf \cup RegionsOf)
        BY <3>1, TablesOfBoth
      <4> QED
        BY <2>4, <4>1, <4>2
    <3>3. Connects(Select({"order_items", "orders", "customers", "regions"}, joins, C, Unlimited))
      BY <1>1, <1>3, <1>4, <3>1, FourTablesConnect
    <3> QED
      BY <2>2, <3>2, <3>3
  <2>6. CASE table = "customers"
    <3>1. joins = OrdersOf \cup CustomersOf
      BY <2>1, <2>6 DEF JoinsTo
    <3>2. TablesOf(joins) = {"order_items", "orders", "customers"}
      BY <2>4, <3>1, TablesOfBoth
    <3>3. Connects(Select({"order_items", "orders", "customers"}, joins, C, Unlimited))
      BY <1>1, <1>3, <3>1, ThreeTablesConnect
    <3> QED
      BY <2>2, <3>2, <3>3
  <2>7. CASE table = "products"
    <3>1. joins = OrdersOf \cup ProductsOf
      BY <2>1, <2>7 DEF JoinsTo
    <3>2. TablesOf(joins) = {"order_items", "orders", "products"}
      BY <2>4, <3>1, TablesOfBoth
    <3>3. Connects(Select({"order_items", "orders", "products"}, joins, C, Unlimited))
      BY <1>1, <1>2, <3>1, ThreeTablesConnect
    <3> QED
      BY <2>2, <3>2, <3>3
  <2>8. CASE table = "orders"
    <3>1. joins = OrdersOf
      BY <2>1, <2>8 DEF JoinsTo
    <3>2. TablesOf(joins) = {"order_items", "orders"}
      BY <2>4, <3>1, TablesOfBoth
    <3>3. Connects(Select({"order_items", "orders"}, joins, C, Unlimited))
      BY <1>1, <3>1, TwoTablesConnect DEF Relates
    <3> QED
      BY <2>2, <3>2, <3>3
  <2> QED
    BY <2>3, <2>5, <2>6, <2>7, <2>8
<1> QED
  BY <1>5, <1>6, <1>7, <1>8

LEMMA RulesConnect ==
    ASSUME NEW q, NEW s, NEW d
    PROVE  Connects(Heuristic(q, s, d))
<1>1. Connects(MonthlyRecurringRevenue)
  BY OneTableConnects DEF MonthlyRecurringRevenue
<1>2. \A t : Connects(Count(t, d)) /\ Connects(StatusListing(t)) /\ Connects(Listing(t))
  BY OneTableConnects DEF Count, StatusListing, Listing
<1> QED
  BY <1>1, <1>2, RuleTaken, ReportsConnect

(* provider.py: whatever tables were retrieved, the joins of the statement *)
(* the rules write hold its tables together.                               *)
THEOREM JoinsAlwaysConnect == Spec => []JoinsConnect
<1>1. JoinsConnect
  <2> SUFFICES ASSUME question \notin DOMAIN Scripts PROVE Connects(Candidate)
    BY DEF JoinsConnect, Connects
  <2> QED
    BY RulesConnect DEF Candidate, Generate
<1> QED
  BY <1>1, PTL

-----------------------------------------------------------------------------
(* The calendar. *)

(* Day numbers: a year and a month are as long as their days. *)
LEMMA YearGrows ==
    ASSUME NEW y \in Nat
    PROVE  DaysBeforeYear(y + 1) = DaysBeforeYear(y) + (IF IsLeap(y) THEN 366 ELSE 365)
<1>1. y \div 4 = (y - 1) \div 4 + (IF y % 4 = 0 THEN 1 ELSE 0)
  OBVIOUS
<1>2. y \div 100 = (y - 1) \div 100 + (IF y % 100 = 0 THEN 1 ELSE 0)
  OBVIOUS
<1>3. y \div 400 = (y - 1) \div 400 + (IF y % 400 = 0 THEN 1 ELSE 0)
  OBVIOUS
<1>4. (y % 400 = 0 => y % 100 = 0) /\ (y % 100 = 0 => y % 4 = 0)
  OBVIOUS
<1> QED
  BY <1>1, <1>2, <1>3, <1>4 DEF DaysBeforeYear, IsLeap

LEMMA MonthGrows ==
    ASSUME NEW y \in Nat, NEW m \in 1..11
    PROVE  DaysBeforeMonth(y, m + 1) = DaysBeforeMonth(y, m) + DaysInMonth(y, m)
BY DEF DaysBeforeMonth, DaysInMonth

LEMMA December ==
    ASSUME NEW y \in Nat
    PROVE  DaysBeforeMonth(y, 12) + DaysInMonth(y, 12) = IF IsLeap(y) THEN 366 ELSE 365
BY DEF DaysBeforeMonth, DaysInMonth

LEMMA FirstOrdinal == Ordinal(2024, 1, 1) = 738886
BY DEF Ordinal, DaysBeforeYear, DaysBeforeMonth

Dates == {c \in [year: Nat, month: 1..12, day: 1..31] :
             c.day <= DaysInMonth(c.year, c.month)}

(* One month and three months back, across the year where need be. *)
LEMMA MonthBack ==
    ASSUME NEW y \in Nat, NEW m \in 1..12
    PROVE  MonthsBefore(y, m, 1) = IF m = 1 THEN Midnight(y - 1, 12, 1)
                                            ELSE Midnight(y, m - 1, 1)
<1>1. AddMonth(y, m, -1) = IF m = 1 THEN <<y - 1, 12>> ELSE <<y, m - 1>>
  BY DEF AddMonth
<1> QED
  BY <1>1 DEF MonthsBefore

LEMMA QuarterBack ==
    ASSUME NEW y \in Nat, NEW m \in {1, 4, 7, 10}
    PROVE  MonthsBefore(y, m, 3) = IF m = 1 THEN Midnight(y - 1, 10, 1)
                                            ELSE Midnight(y, m - 3, 1)
<1>1. AddMonth(y, m, -3) = IF m = 1 THEN <<y - 1, 10>> ELSE <<y, m - 3>>
  BY DEF AddMonth
<1> QED
  BY <1>1 DEF MonthsBefore

LEMMA Quarters ==
    ASSUME NEW m \in 1..12
    PROVE  QuarterOf(m) * 3 + 1 = CASE m \in 1..3 -> 1
                                    [] m \in 4..6 -> 4
                                    [] m \in 7..9 -> 7
                                    [] m \in 10..12 -> 10
<1>1. m \in 1..3 => QuarterOf(m) = 0
  BY DEF QuarterOf
<1>2. m \in 4..6 => QuarterOf(m) = 1
  BY DEF QuarterOf
<1>3. m \in 7..9 => QuarterOf(m) = 2
  BY DEF QuarterOf
<1>4. m \in 10..12 => QuarterOf(m) = 3
  BY DEF QuarterOf
<1> QED
  BY <1>1, <1>2, <1>3, <1>4

LEMMA DayTypes ==
    ASSUME NEW y \in Nat, NEW m \in 1..12
    PROVE  /\ DaysBeforeYear(y) \in Int /\ DaysBeforeMonth(y, m) \in Nat
           /\ DaysInMonth(y, m) \in 28..31
BY DEF DaysBeforeYear, DaysBeforeMonth, DaysInMonth

(* The three ways a day ends: within a month, with one, with the year.     *)
LEMMA NextDayCases ==
    ASSUME NEW c \in Dates
    PROVE  /\ c.year \in Nat /\ c.month \in 1..12 /\ c.day \in 1..31
           /\ NextDay(c) \in Dates
           /\ \/ NextDay(c) = [year |-> c.year, month |-> c.month, day |-> c.day + 1]
              \/ /\ c.day = DaysInMonth(c.year, c.month) /\ c.month < 12
                 /\ NextDay(c) = [year |-> c.year, month |-> c.month + 1, day |-> 1]
              \/ /\ c.day = DaysInMonth(c.year, c.month) /\ c.month = 12
                 /\ NextDay(c) = [year |-> c.year + 1, month |-> 1, day |-> 1]
<1>1. /\ c.year \in Nat /\ c.month \in 1..12 /\ c.day \in 1..31
      /\ c = [year |-> c.year, month |-> c.month, day |-> c.day]
      /\ c.day <= DaysInMonth(c.year, c.month)
  BY DEF Dates
<1>2. DaysInMonth(c.year, c.month) \in 28..31
  BY <1>1, DayTypes
<1>3. CASE c.day < DaysInMonth(c.year, c.month)
  <2>1. NextDay(c) = [year |-> c.year, month |-> c.month, day |-> c.day + 1]
    BY <1>1, <1>3 DEF NextDay
  <2> QED
    BY <1>1, <1>2, <1>3, <2>1 DEF Dates
<1>4. CASE c.day = DaysInMonth(c.year, c.month) /\ c.month < 12
  <2>1. NextDay(c) = [year |-> c.year, month |-> c.month + 1, day |-> 1]
    BY <1>1, <1>2, <1>4 DEF NextDay
  <2>2. DaysInMonth(c.year, c.month + 1) \in 28..31
    BY <1>1, <1>4, DayTypes
  <2> QED
    BY <1>1, <1>4, <2>1, <2>2 DEF Dates
<1>5. CASE c.day = DaysInMonth(c.year, c.month) /\ c.month = 12
  <2>1. NextDay(c) = [year |-> c.year + 1, month |-> 1, day |-> 1]
    BY <1>1, <1>2, <1>5 DEF NextDay
  <2>2. DaysInMonth(c.year + 1, 1) \in 28..31
    BY <1>1, DayTypes
  <2> QED
    BY <1>1, <1>5, <2>1, <2>2 DEF Dates
<1> QED
  BY <1>1, <1>2, <1>3, <1>4, <1>5

DayNumber(c) == Ordinal(c.year, c.month, c.day)

(* The day after has the number after. *)
LEMMA NextDayNumber ==
    ASSUME NEW c \in Dates
    PROVE  DayNumber(c) \in Int /\ DayNumber(NextDay(c)) = DayNumber(c) + 1
<1>1. c.year \in Nat /\ c.month \in 1..12 /\ c.day \in 1..31
  BY NextDayCases
<1>2. DaysBeforeYear(c.year) \in Int /\ DaysBeforeMonth(c.year, c.month) \in Nat
  BY <1>1, DayTypes
<1>3. CASE NextDay(c) = [year |-> c.year, month |-> c.month, day |-> c.day + 1]
  BY <1>1, <1>2, <1>3 DEF DayNumber, Ordinal
<1>4. CASE /\ c.day = DaysInMonth(c.year, c.month) /\ c.month < 12
           /\ NextDay(c) = [year |-> c.year, month |-> c.month + 1, day |-> 1]
  <2>1. DaysBeforeMonth(c.year, c.month + 1) = DaysBeforeMonth(c.year, c.month) + c.day
    BY <1>1, <1>4, MonthGrows
  <2> QED
    BY <1>1, <1>2, <1>4, <2>1 DEF DayNumber, Ordinal
<1>5. CASE /\ c.day = DaysInMonth(c.year, c.month) /\ c.month = 12
           /\ NextDay(c) = [year |-> c.year + 1, month |-> 1, day |-> 1]
  <2>1. DaysBeforeMonth(c.year, c.month) + c.day = IF IsLeap(c.year) THEN 366 ELSE 365
    BY <1>1, <1>5, December
  <2>2. DaysBeforeMonth(c.year + 1, 1) = 0
    BY DEF DaysBeforeMonth
  <2>3. DaysBeforeYear(c.year + 1) = DaysBeforeYear(c.year) + (DaysBeforeMonth(c.year, c.month) + c.day)
    BY <1>1, <2>1, YearGrows
  <2> QED
    BY <1>1, <1>2, <1>5, <2>2, <2>3 DEF DayNumber, Ordinal
<1> QED
  BY <1>1, <1>2, <1>3, <1>4, <1>5, NextDayCases DEF DayNumber, Ordinal

(* Where the last period started and where this one did, by the           *)
(* arithmetic of dates.py on the one clock reading c.                      *)
Bounds(p, c) ==
    CASE p = "day" -> <<Today(c) - DaysOf(1), Today(c)>>
      [] p = "week" -> <<ThisWeek(c) - DaysOf(7), ThisWeek(c)>>
      [] p = "month" -> <<MonthsBefore(c.year, c.month, 1), MonthStart(c)>>
      [] p = "quarter" ->
            <<MonthsBefore(c.year, QuarterOf(c.month) * 3 + 1, 3), QuarterStart(c)>>
      [] p = "year" -> <<Midnight(c.year - 1, 1, 1), Midnight(c.year, 1, 1)>>

(* The inductive invariant: what was counted is what is computed. *)
CalendarInv ==
    /\ clock \in Dates
    /\ midnight = Today(clock)
    /\ \A p \in Periods : starts[p] = Bounds(p, clock)

(* Each kind of period turns as its bounds do. *)
LEMMA DayTurns ==
    ASSUME NEW c \in Dates, NEW m, m = Today(NextDay(c))
    PROVE  Bounds("day", NextDay(c)) = IF Begins("day", NextDay(c), m)
                                       THEN <<Bounds("day", c)[2], m>>
                                       ELSE Bounds("day", c)
<1>1. DayNumber(c) \in Int /\ DayNumber(NextDay(c)) = DayNumber(c) + 1
  BY NextDayNumber
<1>2. Today(c) = 2 * DayNumber(c) /\ m = 2 * DayNumber(NextDay(c))
  BY DEF Today, Midnight, DayNumber
<1>3. m - 2 * 1 = Today(c)
  BY <1>1, <1>2
<1> QED
  BY <1>3 DEF Begins, Bounds, DaysOf

LEMMA WeekTurns ==
    ASSUME NEW c \in Dates, NEW m, m = Today(NextDay(c))
    PROVE  Bounds("week", NextDay(c)) = IF Begins("week", NextDay(c), m)
                                        THEN <<Bounds("week", c)[2], m>>
                                        ELSE Bounds("week", c)
<1> DEFINE d == DayNumber(c)
<1>1. d \in Int /\ DayNumber(NextDay(c)) = d + 1
  BY NextDayNumber
<1>2. Today(c) = 2 * d /\ m = 2 * (d + 1)
  BY <1>1 DEF Today, Midnight, DayNumber
<1>3. Weekday(c) = (d + 6) % 7 /\ Weekday(NextDay(c)) = (d + 7) % 7
  BY <1>1 DEF Weekday, DayNumber
<1>4. Begins("week", NextDay(c), m) <=> (2 * (d + 1) - 2 * 738886) % 14 = 0
  BY <1>2, FirstOrdinal DEF Begins, FirstMidnight, Midnight, DaysOf
<1> HIDE DEF d
<1>5. (2 * (d + 1) - 2 * 738886) % 14 = 0 <=> (d + 7) % 7 = 0
  BY <1>1
<1>6. ThisWeek(c) = 2 * d - 2 * ((d + 6) % 7)
  BY <1>2, <1>3 DEF ThisWeek, DaysOf
<1>7. ThisWeek(NextDay(c)) = 2 * (d + 1) - 2 * ((d + 7) % 7)
  BY <1>2, <1>3 DEF ThisWeek, DaysOf
<1>8. CASE (d + 7) % 7 = 0
  <2>1. ThisWeek(NextDay(c)) = m /\ ThisWeek(NextDay(c)) - 2 * 7 = ThisWeek(c)
    BY <1>1, <1>2, <1>6, <1>7, <1>8
  <2> QED
    BY <1>4, <1>5, <1>8, <2>1 DEF Bounds, DaysOf
<1>9. CASE (d + 7) % 7 # 0
  <2>1. ThisWeek(NextDay(c)) = ThisWeek(c)
    BY <1>1, <1>6, <1>7, <1>9
  <2> QED
    BY <1>4, <1>5, <1>9, <2>1 DEF Bounds
<1> QED
  BY <1>8, <1>9

LEMMA MonthTurns ==
    ASSUME NEW c \in Dates, NEW m, m = Today(NextDay(c))
    PROVE  Bounds("month", NextDay(c)) = IF Begins("month", NextDay(c), m)
                                         THEN <<Bounds("month", c)[2], m>>
                                         ELSE Bounds("month", c)
<1>1. c.year \in Nat /\ c.month \in 1..12 /\ c.day \in 1..31
  BY NextDayCases
<1>2. CASE NextDay(c) = [year |-> c.year, month |-> c.month, day |-> c.day + 1]
  <2>1. NextDay(c).day # 1 /\ NextDay(c).year = c.year /\ NextDay(c).month = c.month
    BY <1>1, <1>2
  <2> QED
    BY <2>1 DEF Begins, Bounds, MonthStart
<1>3. CASE /\ c.month < 12
           /\ NextDay(c) = [year |-> c.year, month |-> c.month + 1, day |-> 1]
  <2>1. c.month + 1 \in 1..12 /\ c.month + 1 # 1 /\ (c.month + 1) - 1 = c.month
    BY <1>1, <1>3
  <2>2. MonthsBefore(c.year, c.month + 1, 1) = MonthStart(c)
    BY <1>1, <2>1, MonthBack DEF MonthStart
  <2> QED
    BY <1>3, <2>2 DEF Begins, Bounds, MonthStart, Today
<1>4. CASE /\ c.month = 12
           /\ NextDay(c) = [year |-> c.year + 1, month |-> 1, day |-> 1]
  <2>1. c.year + 1 \in Nat /\ (c.year + 1) - 1 = c.year
    BY <1>1
  <2>2. MonthsBefore(c.year + 1, 1, 1) = MonthStart(c)
    BY <1>4, <2>1, MonthBack DEF MonthStart
  <2> QED
    BY <1>4, <2>2 DEF Begins, Bounds, MonthStart, Today
<1> QED
  BY <1>2, <1>3, <1>4, NextDayCases

LEMMA QuarterTurns ==
    ASSUME NEW c \in Dates, NEW m, m = Today(NextDay(c))
    PROVE  Bounds("quarter", NextDay(c)) = IF Begins("quarter", NextDay(c), m)
                                           THEN <<Bounds("quarter", c)[2], m>>
                                           ELSE Bounds("quarter", c)
<1>1. c.year \in Nat /\ c.month \in 1..12 /\ c.day \in 1..31
  BY NextDayCases
<1> DEFINE first(k) == QuarterOf(k) * 3 + 1
<1>2. CASE NextDay(c) = [year |-> c.year, month |-> c.month, day |-> c.day + 1]
  <2>1. NextDay(c).day # 1 /\ NextDay(c).year = c.year /\ NextDay(c).month = c.month
    BY <1>1, <1>2
  <2> QED
    BY <2>1 DEF Begins, Bounds, QuarterStart
<1>3. CASE /\ c.month < 12
           /\ NextDay(c) = [year |-> c.year, month |-> c.month + 1, day |-> 1]
  <2>1. c.month + 1 \in 1..12
    BY <1>1, <1>3
  <2>2. CASE c.month + 1 \in {4, 7, 10}
    <3>1. first(c.month + 1) = c.month + 1 /\ first(c.month) = (c.month + 1) - 3
          /\ c.month + 1 # 1
      BY <1>1, <2>1, <2>2, Quarters
    <3>2. MonthsBefore(c.year, first(c.month + 1), 3) = QuarterStart(c)
      BY <1>1, <2>2, <3>1, QuarterBack DEF QuarterStart
    <3>3. QuarterStart(NextDay(c)) = m
      BY <1>3, <3>1 DEF QuarterStart, Today
    <3> QED
      BY <1>3, <2>2, <3>2, <3>3 DEF Begins, Bounds
  <2>3. CASE c.month + 1 \notin {4, 7, 10}
    <3>1. first(c.month + 1) = first(c.month) /\ c.month + 1 # 1
      BY <1>1, <2>1, <2>3, Quarters
    <3> QED
      BY <1>3, <2>3, <3>1 DEF Begins, Bounds, QuarterStart
  <2> QED
    BY <2>2, <2>3
<1>4. CASE /\ c.month = 12
           /\ NextDay(c) = [year |-> c.year + 1, month |-> 1, day |-> 1]
  <2>1. c.year + 1 \in Nat /\ (c.year + 1) - 1 = c.year
    BY <1>1
  <2>2. first(1) = 1 /\ first(12) = 10
    BY Quarters
  <2>3. MonthsBefore(c.year + 1, 1, 3) = QuarterStart(c)
    BY <1>4, <2>1, <2>2, QuarterBack DEF QuarterStart
  <2>4. QuarterStart(NextDay(c)) = m
    BY <1>4, <2>2 DEF QuarterStart, Today
  <2> QED
    BY <1>4, <2>2, <2>3, <2>4 DEF Begins, Bounds
<1> QED
  BY <1>2, <1>3, <1>4, NextDayCases

LEMMA YearTurns ==
    ASSUME NEW c \in Dates, NEW m, m = Today(NextDay(c))
    PROVE  Bounds("year", NextDay(c)) = IF Begins("year", NextDay(c), m)
                                        THEN <<Bounds("year", c)[2], m>>
                                        ELSE Bounds("year", c)
<1>1. c.year \in Nat /\ c.month \in 1..12 /\ c.day \in 1..31
  BY NextDayCases
<1>2. CASE NextDay(c) = [year |-> c.year, month |-> c.month, day |-> c.day + 1]
  <2>1. NextDay(c).day # 1 /\ NextDay(c).year = c.year
    BY <1>1, <1>2
  <2> QED
    BY <2>1 DEF Begins, Bounds
<1>3. CASE /\ c.month < 12
           /\ NextDay(c) = [year |-> c.year, month |-> c.month + 1, day |-> 1]
  <2>1. NextDay(c).month # 1 /\ NextDay(c).year = c.year
    BY <1>1, <1>3
  <2> QED
    BY <2>1 DEF Begins, Bounds
<1>4. CASE NextDay(c) = [year |-> c.year + 1, month |-> 1, day |-> 1]
  <2>1. (c.year + 1) - 1 = c.year
    BY <1>1
  <2> QED
    BY <1>4, <2>1 DEF Begins, Bounds, Today
<1> QED
  BY <1>2, <1>3, <1>4, NextDayCases

LEMMA CalendarTurns == CalendarInv /\ Tick => CalendarInv'
<1> SUFFICES ASSUME CalendarInv, Tick PROVE CalendarInv'
  OBVIOUS
<1>1. /\ clock \in Dates /\ midnight = Today(clock)
      /\ clock' = NextDay(clock) /\ midnight' = midnight + 2
      /\ starts' = [p \in Periods |-> IF Begins(p, clock', midnight')
                                      THEN <<starts[p][2], midnight'>>
                                      ELSE starts[p]]
  BY DEF CalendarInv, Tick, DaysOf
<1>2. clock' \in Dates /\ midnight' = Today(clock')
  <2>1. Today(clock) = 2 * DayNumber(clock) /\ Today(clock') = 2 * DayNumber(clock')
    BY DEF Today, Midnight, DayNumber
  <2>2. DayNumber(clock) \in Int /\ DayNumber(clock') = DayNumber(clock) + 1
    BY <1>1, NextDayNumber
  <2> QED
    BY <1>1, <2>1, <2>2, NextDayCases
<1>3. ASSUME NEW p \in Periods PROVE starts'[p] = Bounds(p, clock')
  <2>1. starts[p] = Bounds(p, clock)
    BY DEF CalendarInv
  <2>2. starts'[p] = IF Begins(p, clock', midnight')
                     THEN <<Bounds(p, clock)[2], midnight'>> ELSE Bounds(p, clock)
    BY <1>1, <2>1
  <2>3. p \in {"day", "week", "month", "quarter", "year"}
    BY DEF Periods
  <2> QED
    BY <1>1, <1>2, <2>2, <2>3, DayTurns, WeekTurns, MonthTurns, QuarterTurns, YearTurns
<1> QED
  BY <1>2, <1>3 DEF CalendarInv

LEMMA CalendarInit == Init => CalendarInv
<1> SUFFICES ASSUME Init PROVE CalendarInv
  OBVIOUS
<1>1. clock = [year |-> 2024, month |-> 1, day |-> 1]
  BY DEF Init, FirstDay
<1>2. clock \in Dates /\ midnight = Today(clock)
  BY <1>1 DEF Init, FirstMidnight, Today, Dates, DaysInMonth
<1>3. midnight = 2 * 738886 /\ FirstMidnight = midnight
  BY FirstOrdinal DEF Init, FirstMidnight, Midnight
<1>4. \A p \in Periods : starts[p] = <<FirstMidnight - 2 * LengthBefore[p], FirstMidnight>>
  BY DEF Init, DaysOf
<1>5. /\ LengthBefore["day"] = 1 /\ LengthBefore["week"] = 7 /\ LengthBefore["month"] = 31
      /\ LengthBefore["quarter"] = 92 /\ LengthBefore["year"] = 365
  BY DEF LengthBefore
<1>6. Bounds("day", clock) = <<FirstMidnight - 2 * 1, FirstMidnight>>
  BY <1>2, <1>3 DEF Bounds, DaysOf
<1>7. Bounds("week", clock) = <<FirstMidnight - 2 * 7, FirstMidnight>>
  <2>1. Weekday(clock) = (738886 + 6) % 7
    BY <1>1, FirstOrdinal DEF Weekday
  <2>2. ThisWeek(clock) = midnight
    BY <1>2, <1>3, <2>1 DEF ThisWeek, DaysOf
  <2> QED
    BY <1>3, <2>2 DEF Bounds, DaysOf
<1>8. Bounds("month", clock) = <<FirstMidnight - 2 * 31, FirstMidnight>>
  <2>1. MonthsBefore(2024, 1, 1) = Midnight(2023, 12, 1)
    BY MonthBack
  <2>2. Midnight(2023, 12, 1) = FirstMidnight - 2 * 31
    BY <1>3 DEF Midnight, Ordinal, DaysBeforeYear, DaysBeforeMonth, IsLeap
  <2> QED
    BY <1>1, <2>1, <2>2 DEF Bounds, MonthStart, FirstMidnight
<1>9. Bounds("quarter", clock) = <<FirstMidnight - 2 * 92, FirstMidnight>>
  <2>1. QuarterOf(1) * 3 + 1 = 1
    BY Quarters
  <2>2. MonthsBefore(2024, 1, 3) = Midnight(2023, 10, 1)
    BY QuarterBack
  <2>3. Midnight(2023, 10, 1) = FirstMidnight - 2 * 92
    BY <1>3 DEF Midnight, Ordinal, DaysBeforeYear, DaysBeforeMonth, IsLeap
  <2> QED
    BY <1>1, <2>1, <2>2, <2>3 DEF Bounds, QuarterStart, FirstMidnight
<1>10. Bounds("year", clock) = <<FirstMidnight - 2 * 365, FirstMidnight>>
  <2>1. Midnight(2023, 1, 1) = FirstMidnight - 2 * 365
    BY <1>3 DEF Midnight, Ordinal, DaysBeforeYear, DaysBeforeMonth, IsLeap
  <2> QED
    BY <1>1, <2>1 DEF Bounds, FirstMidnight
<1> QED
  BY <1>2, <1>4, <1>5, <1>6, <1>7, <1>8, <1>9, <1>10 DEF CalendarInv, Periods

-----------------------------------------------------------------------------
(* Each period's start and the last one's are days gone by, in this order. *)
OrderedInv ==
    /\ midnight \in Int
    /\ \A p \in Periods : /\ starts[p][1] \in Int /\ starts[p][2] \in Int
                          /\ starts[p][1] <= starts[p][2] /\ starts[p][2] <= midnight

LEMMA OrderedInit == Init => OrderedInv
<1> SUFFICES ASSUME Init PROVE OrderedInv
  OBVIOUS
<1>1. midnight = 2 * 738886 /\ FirstMidnight = midnight
  BY FirstOrdinal DEF Init, FirstMidnight, Midnight
<1>2. ASSUME NEW p \in Periods
      PROVE  LengthBefore[p] \in Nat
             /\ starts[p] = <<FirstMidnight - 2 * LengthBefore[p], FirstMidnight>>
  BY DEF Init, DaysOf, LengthBefore, Periods
<1> QED
  BY <1>1, <1>2 DEF OrderedInv

LEMMA OrderedTurns == OrderedInv /\ Tick => OrderedInv'
<1> SUFFICES ASSUME OrderedInv, Tick PROVE OrderedInv'
  OBVIOUS
<1>1. /\ midnight \in Int /\ midnight' = midnight + 2
      /\ \A p \in Periods : starts'[p] = <<starts[p][2], midnight'>> \/ starts'[p] = starts[p]
  BY DEF Tick, OrderedInv, DaysOf
<1>2. ASSUME NEW p \in Periods
      PROVE  /\ starts'[p][1] \in Int /\ starts'[p][2] \in Int
             /\ starts'[p][1] <= starts'[p][2] /\ starts'[p][2] <= midnight'
  <2>1. /\ starts[p][1] \in Int /\ starts[p][2] \in Int
        /\ starts[p][1] <= starts[p][2] /\ starts[p][2] <= midnight
    BY DEF OrderedInv
  <2> QED
    BY <1>1, <2>1
<1> QED
  BY <1>1, <1>2 DEF OrderedInv

(* A number of days that a question mentions is one. *)
LEMMA NumbersOfDays ==
    ASSUME NEW q, DayCounts(q) # {}
    PROVE  Number[CHOOSE n \in DayCounts(q) : TRUE] \in Nat
<1>1. \A n \in DOMAIN Number : Number[n] \in Nat
  BY DEF Number
<1> QED
  BY <1>1 DEF DayCounts

LEMMA PhrasesFound ==
    ASSUME NEW q, NEW p \in Found(q)
    PROVE  /\ p \in {"last_n_days", "last_quarter", "this_quarter", "last_month",
                     "this_month", "last_year", "this_year", "last_week", "yesterday",
                     "today"}
           /\ p = "last_n_days" => DayCounts(q) # {}
BY DEF Found, Spellings

(* The calendar, turned page by page, gives what the arithmetic gives. *)
LEMMA MeaningIsCounted ==
    ASSUME CalendarInv, NEW q, NEW p \in Found(q)
    PROVE  Meaning(p, q, clock) = ByCounting(p, q)
<1>1. Instant(clock) = midnight + 1 /\ Today(clock) = midnight
  BY DEF CalendarInv, Instant, Today
<1>2. /\ starts["day"] = Bounds("day", clock) /\ starts["week"] = Bounds("week", clock)
      /\ starts["month"] = Bounds("month", clock)
      /\ starts["quarter"] = Bounds("quarter", clock)
      /\ starts["year"] = Bounds("year", clock)
  BY DEF CalendarInv, Periods
<1>3. p \in {"last_n_days", "last_quarter", "this_quarter", "last_month",
             "this_month", "last_year", "this_year", "last_week", "yesterday", "today"}
  BY PhrasesFound
<1>4. CASE p = "last_n_days"
  <2>1. PICK n : n = Number[CHOOSE k \in DayCounts(q) : TRUE]
    OBVIOUS
  <2>2. Meaning(p, q, clock) = Window(Instant(clock) - DaysOf(n), Instant(clock))
    BY <1>4, <2>1 DEF Meaning
  <2>3. ByCounting(p, q) = Window(midnight + 1 - DaysOf(n), midnight + 1)
    BY <1>4, <2>1 DEF ByCounting
  <2>4. n \in Nat /\ midnight \in Int
    <3>1. midnight = 2 * DayNumber(clock) /\ clock \in Dates
      BY DEF CalendarInv, Today, Midnight, DayNumber
    <3> QED
      BY <1>4, <2>1, <3>1, NumbersOfDays, PhrasesFound, NextDayNumber
  <2>5. Instant(clock) - DaysOf(n) = midnight + 1 - DaysOf(n)
    BY <1>1, <2>4 DEF DaysOf
  <2> QED
    BY <1>1, <2>2, <2>3, <2>5
<1>5. CASE p \in {"yesterday", "today", "last_week"}
  BY <1>1, <1>2, <1>5 DEF Meaning, ByCounting, Lasting, Bounds
<1>6. CASE p \in {"last_month", "this_month"}
  BY <1>1, <1>2, <1>6 DEF Meaning, ByCounting, Lasting, SoFar, Bounds
<1>7. CASE p \in {"last_quarter", "this_quarter"}
  BY <1>1, <1>2, <1>7 DEF Meaning, ByCounting, Lasting, SoFar, Bounds
<1>8. CASE p \in {"last_year", "this_year"}
  BY <1>1, <1>2, <1>8 DEF Meaning, ByCounting, Lasting, SoFar, Bounds
<1> QED
  BY <1>3, <1>4, <1>5, <1>6, <1>7, <1>8

LEMMA CountedIsOrdered ==
    ASSUME OrderedInv, NEW q, NEW p \in Found(q)
    PROVE  ByCounting(p, q).start <= ByCounting(p, q).end
<1>1. /\ midnight \in Int
      /\ \A period \in Periods :
            /\ Lasting(period).start <= Lasting(period).end
            /\ SoFar(period).start <= SoFar(period).end
  BY DEF OrderedInv, Lasting, SoFar, Window
<1>2. {"day", "week", "month", "quarter", "year"} \subseteq Periods
  BY DEF Periods
<1>3. CASE p = "last_n_days"
  <2>1. Number[CHOOSE n \in DayCounts(q) : TRUE] \in Nat
    BY <1>3, PhrasesFound, NumbersOfDays
  <2> QED
    BY <1>1, <1>3, <2>1 DEF ByCounting, Window, DaysOf
<1>4. CASE p = "today"
  BY <1>1, <1>4 DEF ByCounting, Window, DaysOf
<1>5. CASE p \notin {"last_n_days", "today"}
  BY <1>1, <1>2, <1>5, PhrasesFound DEF ByCounting
<1> QED
  BY <1>3, <1>4, <1>5

-----------------------------------------------------------------------------
(* The windows. *)

(* The window is the meaning of one of the phrases found, if any was. *)
LEMMA WindowTaken ==
    ASSUME NEW q, NEW now
    PROVE  /\ Found(q) = {} => ResolveRelativeDate(q, now) = NoWindow
           /\ Found(q) # {} =>
                 \E p \in Found(q) : ResolveRelativeDate(q, now) = Meaning(p, q, now)
<1> DEFINE first == SelectInSeq(Priority, LAMBDA p : p \in Found(q))
           I == {i \in 1..Len(Priority) : Priority[i] \in Found(q)}
<1>1. first = IF I # {} THEN Min(I) ELSE 0
  BY DEF SelectInSeq
<1>2. I \in SUBSET Nat
  <2>1. Len(Priority) \in Nat
    BY DEF Priority
  <2> QED
    BY <2>1
<1>3. ResolveRelativeDate(q, now) =
         IF first = 0 THEN NoWindow ELSE Meaning(Priority[first], q, now)
  BY DEF ResolveRelativeDate
<1>4. CASE Found(q) = {}
  <2>1. first = 0
    BY <1>1, <1>4
  <2> QED
    BY <1>3, <1>4, <2>1
<1>5. CASE Found(q) # {}
  <2>1. \A p \in Found(q) : \E i \in 1..10 : Priority[i] = p
    BY PhrasesFound DEF Priority
  <2>2. Len(Priority) = 10
    BY DEF Priority
  <2>3. I # {}
    BY <1>5, <2>1, <2>2
  <2>4. first \in I /\ first # 0
    BY <1>1, <1>2, <2>3, Least
  <2>5. Priority[first] \in Found(q)
    BY <2>4
  <2>6. ResolveRelativeDate(q, now) = Meaning(Priority[first], q, now)
    BY <1>3, <2>4
  <2> QED
    BY <1>5, <2>5, <2>6
<1> QED
  BY <1>4, <1>5

WindowInv == CalendarInv /\ OrderedInv /\ WindowsFollowTheCalendar

(* A question that is put gets the window its day's calendar gives. *)
LEMMA WindowPut ==
    ASSUME CalendarInv, OrderedInv, NEW q, NEW by, Process(q, by)
    PROVE  WindowsFollowTheCalendar' /\ window'.start <= window'.end
<1>1. CASE window' = NoWindow /\ expected' = {}
  BY <1>1 DEF WindowsFollowTheCalendar, NoWindow
<1>2. CASE /\ window' = ResolveRelativeDate(q, clock)
           /\ expected' = {ByCounting(p, q) : p \in Found(q)}
  <2>1. CASE Found(q) = {}
    BY <1>1, <1>2, <2>1, WindowTaken
  <2>2. CASE Found(q) # {}
    <3>1. PICK p \in Found(q) : window' = Meaning(p, q, clock)
      BY <1>2, <2>2, WindowTaken
    <3>2. window' = ByCounting(p, q)
      BY <3>1, MeaningIsCounted
    <3>3. window' \in expected' /\ window'.start <= window'.end
      BY <1>2, <3>2, CountedIsOrdered
    <3> QED
      BY <3>3 DEF WindowsFollowTheCalendar
  <2> QED
    BY <2>1, <2>2
<1> QED
  BY <1>1, <1>2 DEF Process

LEMMA WindowKept == WindowInv /\ [Next]_vars => WindowInv'
<1> SUFFICES ASSUME WindowInv, [Next]_vars PROVE WindowInv'
  OBVIOUS
<1>1. CalendarInv /\ OrderedInv /\ WindowsFollowTheCalendar
  BY DEF WindowInv
<1>2. CASE Tick
  <2>1. UNCHANGED <<window, expected>>
    BY <1>2 DEF Tick
  <2> QED
    BY <1>1, <1>2, <2>1, CalendarTurns, OrderedTurns
       DEF WindowInv, WindowsFollowTheCalendar
<1>3. ASSUME UNCHANGED dates PROVE CalendarInv' /\ OrderedInv'
  BY <1>1, <1>3 DEF dates, CalendarInv, OrderedInv
<1>4. CASE UNCHANGED <<dates, window, expected>>
  BY <1>1, <1>3, <1>4 DEF WindowInv, WindowsFollowTheCalendar
<1>5. CASE UNCHANGED dates /\ Idle
  BY <1>3, <1>5 DEF WindowInv, Idle, WindowsFollowTheCalendar
<1>6. ASSUME UNCHANGED dates, NEW q, NEW by, Process(q, by) PROVE WindowInv'
  BY <1>1, <1>3, <1>6, WindowPut DEF WindowInv
<1> QED
  BY <1>2, <1>4, <1>5, <1>6
     DEF Next, vars, request, Ask, AskAgain, Drop, Accept, Repair, GiveUp, Close

(* dates.py: whatever the phrase and whenever it is said, across the turns *)
(* of months, quarters, years and leap days, the arithmetic on one reading *)
(* of the clock gives the window that counting the days gives; and no day  *)
(* that passes before the provider answers moves it.                       *)
THEOREM WindowsAlwaysFollow == Spec => []WindowsFollowTheCalendar
<1>1. Init => WindowInv
  <2>1. Init => WindowsFollowTheCalendar
    BY DEF Init, WindowsFollowTheCalendar
  <2> QED
    BY <2>1, CalendarInit, OrderedInit DEF WindowInv
<1>2. WindowInv => WindowsFollowTheCalendar
  BY DEF WindowInv
<1> QED
  BY <1>1, <1>2, WindowKept, PTL DEF Spec

-----------------------------------------------------------------------------
(* Types. *)

(* Retrieval finds tables of the schema, and never none. *)
LEMMA RetrievedTables ==
    ASSUME NEW q, NEW s \in Retrieved(q)
    PROVE  s \subseteq AllTables /\ s # {}
<1>1. \A i \in DOMAIN Entities : Entities[i][2] \in AllTables
  BY DEF Entities, AllTables, ColumnNames
<1> QED
  BY <1>1 DEF Retrieved

(* The gate reports codes of its list, and clears when it has none. *)
LEMMA VerdictTypes ==
    ASSUME attempt \in Nat
    PROVE  Verdict.issues \subseteq Gate!GateCodes /\ (Verdict.ok <=> Verdict.issues = {})
<1> DEFINE c == Candidate
<1>1. /\ "flaws" \in DOMAIN c
      /\ c.flaws \subseteq Gate!FlawCodes /\ c.shape \subseteq Gate!ShapeCodes
  <2>1. CASE question \in DOMAIN Scripts
    <3>1. \E i \in DOMAIN Scripts[question] : c = Scripts[question][i]
      BY <2>1, CandidatePlayed DEF Candidate
    <3> QED
      BY <2>1, <3>1, PipelineAssumption
  <2>2. CASE question \notin DOMAIN Scripts
    <3>1. c = Heuristic(question, subset, window # NoWindow)
      BY <2>2 DEF Candidate, Generate
    <3> QED
      BY <3>1, RulesAreClean DEF Clean
  <2> QED
    BY <2>1, <2>2
<1> HIDE DEF c
<1> DEFINE s == ReferenceSchema
<1>2. Gate!NameIssues(c.names, s) \subseteq Gate!GateCodes /\ c.flaws \subseteq Gate!GateCodes
      /\ c.shape \subseteq Gate!GateCodes
  BY <1>1 DEF Gate!NameIssues, Gate!GateCodes
<1>3. Gate!Validate(c, s) \subseteq Gate!GateCodes
  BY <1>2 DEF Gate!Validate, Gate!ValidateExpression, Gate!GateCodes
<1>4. Gate!EnforcePolicy(c, s, caller) \subseteq Gate!GateCodes
  BY DEF Gate!EnforcePolicy, Gate!GateCodes
<1>5. Gate!ValidateExpression(Gate!Rewrite(c, s), s) \subseteq Gate!GateCodes
  <2>1. Gate!Rewrite(c, s).flaws = c.flaws
    <3>1. PICK mentions : Gate!Rewrite(c, s) = [c EXCEPT !.names.mentions = mentions]
      BY DEF Gate!Rewrite
    <3> QED
      BY <1>1, <3>1
  <2>2. Gate!NameIssues(Gate!Rewrite(c, s).names, s) \subseteq Gate!GateCodes
    BY DEF Gate!NameIssues, Gate!GateCodes
  <2> QED
    BY <1>2, <2>1, <2>2 DEF Gate!ValidateExpression
<1>6. Gate!CostIssues(c, "none") \subseteq Gate!GateCodes
  BY <1>2 DEF Gate!CostIssues
<1>7. Gate!GateIssues(c, s, caller, "none") \subseteq Gate!GateCodes
  BY <1>3, <1>4, <1>5, <1>6 DEF Gate!GateIssues
<1> QED
  BY <1>7 DEF Verdict, Gate!SecureCandidate, c

TypeInv == TypeOK /\ WindowInv

LEMMA ClockTypes ==
    ASSUME NEW c \in Dates
    PROVE  c.month \in 1..12 /\ c.day \in 1..31
BY NextDayCases

LEMMA NothingAsked ==
    /\ NoAnswer \in {NoClarification} \X Seq(STRING)
    /\ <<>> \in Seq(STRING) /\ 0 \in 0..MaxRepair /\ NoWindow.start <= NoWindow.end
    /\ NotSecured.issues = {} /\ NotSecured.ok = FALSE /\ NoClarification \notin Clarifications
<1>1. MaxRepair \in Nat
  BY PipelineAssumption
<1>2. NoAnswer \in {NoClarification} \X Seq(STRING)
  <2>1. \A s \in Seq(STRING) : <<NoClarification, s>> \in {NoClarification} \X Seq(STRING)
    OBVIOUS
  <2> QED
    BY <2>1, EmptySeq DEF NoAnswer
<1> QED
  BY <1>1, <1>2, EmptySeq DEF NoWindow, NotSecured, NoClarification, Clarifications

LEMMA TypesInit == Init => TypeOK
<1> SUFFICES ASSUME Init PROVE TypeOK
  OBVIOUS
<1>1. clock.month \in 1..12 /\ clock.day \in 1..31
  BY DEF Init, FirstDay
<1> QED
  BY <1>1, NothingAsked DEF Init, TypeOK, Phases

LEMMA TypesIdle ==
    ASSUME TypeOK, Idle, clock' = clock
    PROVE  TypeOK'
BY NothingAsked DEF Idle, TypeOK, Phases

LEMMA TypesPut ==
    ASSUME TypeOK, WindowInv, NEW q \in Seq(STRING), q # <<>>, NEW by \in Callers,
           Process(q, by), clock' = clock, answered' \subseteq Clarifications,
           last' \in (Clarifications \cup {NoClarification}) \X Seq(STRING)
    PROVE  TypeOK'
<1>1. window'.start <= window'.end
  BY WindowPut DEF WindowInv
<1>2. Detect(q) \in Clarifications \cup {NoClarification}
  BY DetectByWords
<1>3. /\ question' = q /\ caller' = by /\ attempt' = 0 /\ secured' = NotSecured
      /\ late' = FALSE /\ category' = Detect(q)
  BY DEF Process
<1>4. \/ /\ category' # NoClarification /\ pc' = "clarifying" /\ subset' = {}
      \/ /\ category' = NoClarification /\ pc' = "generating"
         /\ subset' \subseteq AllTables /\ subset' # {}
  BY <1>3, RetrievedTables DEF Process
<1>5. by # Nobody
  BY PipelineAssumption
<1> QED
  BY <1>1, <1>2, <1>3, <1>4, <1>5, NothingAsked DEF TypeOK, Phases

LEMMA TypesKept == TypeInv /\ [Next]_vars => TypeOK'
<1> SUFFICES ASSUME TypeOK, WindowInv, [Next]_vars PROVE TypeOK'
  BY DEF TypeInv
<1>1. CASE Tick
  <2>1. clock'.month \in 1..12 /\ clock'.day \in 1..31
    <3>1. CalendarInv'
      BY <1>1, CalendarTurns DEF WindowInv
    <3> QED
      BY <3>1, ClockTypes DEF CalendarInv
  <2> QED
    BY <1>1, <2>1 DEF Tick, TypeOK, conversation
<1>2. ASSUME NEW q \in Questions, NEW by \in Callers, Ask(q, by) PROVE TypeOK'
  <2>1. q \in Seq(STRING) /\ q # <<>>
    BY PipelineAssumption
  <2> QED
    BY <1>2, <2>1, TypesPut DEF Ask, dates, conversation, TypeOK
<1>3. ASSUME NEW reading, AskAgain(reading) PROVE TypeOK'
  <2>1. /\ pc = "clarifying" /\ reading \in Interpretations(category)
        /\ Process(Rephrase(question, reading), caller)
        /\ answered' = answered \cup {category} /\ last' = <<category, reading>>
        /\ clock' = clock
    BY <1>3 DEF AskAgain, dates
  <2>2. /\ category \in Clarifications /\ question \in Seq(STRING) /\ question # <<>>
        /\ answered' \subseteq Clarifications
    BY <2>1 DEF TypeOK
  <2>3. reading \in Seq(STRING)
    BY <2>1, <2>2, ReadingsAreText
  <2>4. Rephrase(question, reading) \in Seq(STRING) /\ Rephrase(question, reading) # <<>>
    BY <2>2, <2>3, RephraseWords
  <2>5. caller \in Callers
    BY <2>1, PipelineAssumption DEF TypeOK
  <2> QED
    BY <2>1, <2>2, <2>3, <2>4, <2>5, TypesPut
<1>4. CASE Drop \/ Close
  BY <1>4, TypesIdle DEF Drop, Close, dates
<1>5. CASE Accept \/ Repair \/ GiveUp
  <2>1. pc = "generating" /\ attempt \in Nat /\ ~secured.ok
    BY <1>5, PipelineAssumption DEF Accept, Repair, GiveUp, TypeOK
  <2>2. Verdict.issues \subseteq Gate!GateCodes /\ (Verdict.ok <=> Verdict.issues = {})
    BY <2>1, VerdictTypes
  <2>3. CASE Accept
    BY <2>1, <2>2, <2>3 DEF Accept, TypeOK, Phases, dates, conversation
  <2>4. CASE GiveUp
    BY <2>1, <2>2, <2>4 DEF GiveUp, TypeOK, Phases, dates, conversation
  <2>5. CASE Repair
    <3>1. Verdict.issues # {} /\ attempt + 1 \in 0..MaxRepair
      BY <2>1, <2>5, PipelineAssumption DEF Repair, MayRepair, RepairsLeft, Gate!IsRepairable
    <3> QED
      BY <2>1, <2>2, <2>5, <3>1 DEF Repair, TypeOK, Phases, dates, conversation
  <2> QED
    BY <1>5, <2>3, <2>4, <2>5
<1>6. CASE UNCHANGED vars
  BY <1>6 DEF vars, request, dates, conversation, TypeOK
<1> QED
  BY <1>1, <1>2, <1>3, <1>4, <1>5, <1>6 DEF Next

(* Every variable keeps its type, and the phase of a request tells whether *)
(* there is a question, a clarification, a subset and a cleared statement. *)
THEOREM PipelineTypes == Spec => []TypeOK
<1>1. Init => TypeInv
  BY TypesInit, CalendarInit, OrderedInit DEF TypeInv, WindowInv, WindowsFollowTheCalendar, Init
<1>2. TypeInv /\ [Next]_vars => TypeInv'
  BY TypesKept, WindowKept DEF TypeInv
<1>3. TypeInv => TypeOK
  BY DEF TypeInv
<1> QED
  BY <1>1, <1>2, <1>3, PTL DEF Spec
=============================================================================
