------------------------- MODULE MCQuestionPipeline -------------------------
(***************************************************************************)
(* The reference deployment with an analyst and a viewer, the questions of *)
(* the golden set and of the scenarios, some that reach each rule and each *)
(* clarification, and two scripted ones.                                   *)
(***************************************************************************)
EXTENDS QuestionPipeline

MCTenants == {"1", "2"}
MCCallers == {"analyst", "viewer"}
MCRolesOf == [c \in MCCallers |-> {c}]
MCTenantOf == [analyst |-> "1", viewer |-> "2"]

(* One phrase each: asked every day of the run. *)
DatedQuestions ==
    {<<"top", "five", "products", "by", "revenue", "last", "quarter">>,
     <<"how", "many", "orders", "last", "month">>,
     <<"how", "many", "customers", "this", "quarter">>,
     <<"customers", "that", "have", "not", "placed", "an", "order", "in", "the",
       "past", "90", "days">>,
     <<"what", "is", "our", "total", "revenue", "last", "year">>,
     <<"revenue", "by", "category", "year", "to", "date">>,
     <<"count", "payments", "last", "week">>,
     <<"how", "many", "refunds", "this", "month">>,
     <<"show", "revenue", "by", "month", "yesterday">>,
     <<"number", "of", "regions", "today">>,
     <<"revenue", "by", "customer", "last", "7", "days", "and", "this", "year">>}

OtherQuestions ==
    {<<"show", "revenue", "by", "region", "excluding", "refunded", "orders">>,
     <<"revenue", "by", "product">>,
     <<"what", "is", "our", "mrr">>,
     <<"list", "all", "payments">>,
     <<"show", "all", "open", "support", "tickets">>,
     <<"subscriptions">>,
     <<"show", "active", "customers">>,
     <<"wibble", "wobble">>,
     <<"how", "many", "users">>}

UnclearQuestions ==
    {<<"who", "are", "our", "top", "customers">>,
     <<"best", "users", "by", "sales">>,
     <<"what", "is", "our", "churn">>,
     <<"top", "users">>}

Columns == ReferenceSchema.columns \cup (AllTables \X {"status", "created_at", "title"})

Titles == Select({"products"}, {}, {<<"products", "title">>}, Unlimited)
Names == Select({"products"}, {}, {<<"products", "name">>}, 5)
Emails == Select({"customers"}, {}, {<<"customers", "contact_email">>}, Unlimited)
Dropping == [Select({"users"}, {}, {}, Unlimited)
                EXCEPT !.flaws = {"non_read_only_statement"}]

MCScripts == <<"show", "product", "names", "please">> :> <<Titles, Names>>
          @@ <<"give", "me", "broken", "sql">> :> <<Titles, Titles, Titles, Names>>
          @@ <<"eval", "drop">> :> <<Dropping, Names>>
          @@ <<"eval", "email">> :> <<Titles, Emails, Names>>

MCQuestions == DatedQuestions \cup OtherQuestions \cup UnclearQuestions
                   \cup DOMAIN MCScripts
=============================================================================
