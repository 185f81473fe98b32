------------------------- MODULE AmbiguityDetector -------------------------
(***************************************************************************)
(* AmbiguityDetector.detect: whether a question has readings that differ   *)
(* enough to ask back, and how it asks.  A question is its sequence of     *)
(* lower-case words; HasWord is the search for a whole word.  "conversion  *)
(* rate" is the one term of two words.                                     *)
(***************************************************************************)
EXTENDS Integers, Sequences, SequencesExt

CONSTANT DefinedTerms       \* terms and metrics that the semantic layer resolves

NoClarification == "none"

Clarifications == {"unknown_term", "metric_definition", "measure_unspecified",
                   "entity_reference"}

UndefinedTerms == {"churn", "ltv", "cac", "arr", "retention", "nps"}

(* Faulty: a measure the clarification itself offers is not recognized. *)
MeasureWordsWithoutMrr ==
    {"revenue", "sales", "orders", "order", "count", "margin", "profit",
     "quantity", "spend", "amount", "tickets", "value", "number"}

MeasureWords == {"revenue", "sales", "orders", "order", "count", "margin", "profit",
                 "quantity", "spend", "amount", "mrr", "tickets", "value", "number"}

RankWords == {"top", "best", "highest", "largest", "most", "biggest", "leading"}

EntityWords == {"customer", "customers", "product", "products", "region", "regions",
                "account", "accounts", "user", "users"}

HasWord(q, word) == Contains(q, word)

HasAny(q, words) == \E word \in words : HasWord(q, word)

(* Words said one after the other. *)
Says(q, phrase) == phrase \in SubSeqs(q)

-----------------------------------------------------------------------------
(* The rules *)

UnknownTerm(q) ==
    \/ HasAny(q, UndefinedTerms \ DefinedTerms)
    \/ Says(q, <<"conversion", "rate">>) /\ "conversion rate" \notin DefinedTerms

AmbiguousMetric(q) ==
    /\ HasWord(q, "sales")
    /\ ~HasAny(q, {"revenue", "gross", "net", "count", "number"})

UnspecifiedMeasure(q) ==
    /\ HasAny(q, RankWords)
    /\ HasAny(q, EntityWords)
    /\ ~HasAny(q, MeasureWords)

EntityReference(q) ==
    /\ HasAny(q, {"revenue", "orders", "order", "sales", "spend", "mrr"})
    /\ HasAny(q, {"user", "users"})

Detect(q) ==
    CASE UnknownTerm(q) -> "unknown_term"
      [] ~UnknownTerm(q) /\ AmbiguousMetric(q) -> "metric_definition"
      [] /\ ~(UnknownTerm(q) \/ AmbiguousMetric(q))
         /\ UnspecifiedMeasure(q) -> "measure_unspecified"
      [] /\ ~(UnknownTerm(q) \/ AmbiguousMetric(q) \/ UnspecifiedMeasure(q))
         /\ EntityReference(q) -> "entity_reference"
      [] OTHER -> NoClarification

(* The readings a clarification offers, as the words of their labels. *)
Interpretations(category) ==
    CASE category = "unknown_term" -> {<<"provide", "a", "definition">>}
      [] category = "metric_definition" ->
            {<<"net", "revenue">>, <<"gross", "revenue">>, <<"order", "count">>}
      [] category = "measure_unspecified" ->
            {<<"by", "revenue">>, <<"by", "order", "count">>, <<"by", "mrr">>}
      [] category = "entity_reference" ->
            {<<"customers">>, <<"application", "users">>}
=============================================================================
