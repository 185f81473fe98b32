---------------------------- MODULE FakeProvider ----------------------------
(***************************************************************************)
(* DeterministicFakeProvider.generate: the provider of tests and demos.    *)
(* A scripted question plays its candidates in order, one per repair; any  *)
(* other goes through nine rules written for the reference schema.         *)
(*                                                                         *)
(* A question is its sequence of words.  What the code finds as a          *)
(* substring, a plural or a participle included, is found by Mentions.  A  *)
(* statement is a candidate of SqlGate with the joins it makes and the     *)
(* column to which it applies the resolved dates.                          *)
(***************************************************************************)
EXTENDS ReferenceDeployment, SequencesExt, TLC

CONSTANTS
    Scripts,        \* the scripted questions and their candidates
    MaxRows         \* the request's max_rows

NoTable == "none"

Entities == <<<<"product", "products">>, <<"customer", "customers">>,
              <<"account", "customers">>, <<"order", "orders">>,
              <<"user", "users">>, <<"region", "regions">>,
              <<"payment", "payments">>, <<"refund", "refunds">>,
              <<"subscription", "subscriptions">>, <<"ticket", "support_tickets">>,
              <<"organization", "organizations">>>>

StatusValues == {"open", "pending", "closed", "paid", "shipped", "refunded",
                 "cancelled", "active", "canceled", "past_due", "succeeded", "failed"}

Plurals == [products |-> "product", customers |-> "customer", accounts |-> "account",
            orders |-> "order", users |-> "user", regions |-> "region",
            payments |-> "payment", refunds |-> "refund",
            subscriptions |-> "subscription", tickets |-> "ticket",
            organizations |-> "organization"]

Singular(word) == IF word \in DOMAIN Plurals THEN Plurals[word] ELSE word

Stems == [refunded |-> "refund", excluding |-> "exclud"] @@ Plurals

(* s in q *)
Mentions(q, s) ==
    \E word \in ToSet(q) : word = s \/ (word \in DOMAIN Stems /\ Stems[word] = s)

MentionsAny(q, words) == \E s \in words : Mentions(q, s)

Numerals == "one" :> 1 @@ "two" :> 2 @@ "three" :> 3 @@ "four" :> 4 @@ "five" :> 5
            @@ "1" :> 1 @@ "2" :> 2 @@ "3" :> 3 @@ "4" :> 4 @@ "5" :> 5

ExtractLimit(q, default) ==
    LET said == {n \in DOMAIN Numerals : <<"top", n>> \in SubSeqs(q)}
    IN  IF said = {} THEN default ELSE Numerals[CHOOSE n \in said : TRUE]

(* Keyword order decides, and the table must be in the retrieved subset.   *)
DetectEntityTable(q, subset) ==
    LET first == SelectInSeq(Entities,
                    LAMBDA e : /\ \E word \in ToSet(q) : Singular(word) = e[1]
                               /\ e[2] \in subset)
    IN  IF first = 0 THEN NoTable ELSE Entities[first][2]

(* Faulty: financial columns pass for safe. *)
SafeColumnsWithFinancial(table) ==
    {c \in ColumnsOf({table}) : ClassOf(c) \notin {"pii", "auth_secret"}}

SafeColumns(table) == {c \in ColumnsOf({table}) : ~IsSensitive(c)}

-----------------------------------------------------------------------------
(* Statements *)

Joined(key) == CHOOSE fk \in ForeignKeys : fk[1] = key

(* The rules qualify every column they read by its table; the aliases they *)
(* give to their results, and may order by, are not among the names.       *)
Select(tables, joins, columns, limit) ==
    LET read == columns \cup UNION {{j[1], j[2]} : j \in joins}
    IN  [parses |-> TRUE, statements |-> 1, flaws |-> {}, shape |-> {},
         names |-> [sources |-> {<<t, t>> : t \in tables}, mentions |-> read,
                    virtual |-> {}, outputs |-> {}],
         tables |-> tables, columns |-> read, limit |-> limit, joins |-> joins]

Unlimited == -1

OrdersOf == {Joined(<<"order_items", "order_id">>)}
ProductsOf == {Joined(<<"order_items", "product_id">>)}
CustomersOf == {Joined(<<"orders", "customer_id">>)}
RegionsOf == {Joined(<<"customers", "region_id">>)}

Amounts == {<<"order_items", "quantity">>, <<"order_items", "unit_price">>}

Dated(column, isDated) == IF isDated THEN {column} ELSE {}

TopProductsByRevenue(q, isDated) ==
    Select({"order_items", "orders", "products"}, OrdersOf \cup ProductsOf,
           Amounts \cup {<<"products", "name">>}
               \cup Dated(<<"orders", "ordered_at">>, isDated),
           ExtractLimit(q, 5))

Dimension(q) ==
    CASE Mentions(q, "region") -> <<"regions", "name">>
      [] ~Mentions(q, "region") /\ Mentions(q, "category") -> <<"products", "category">>
      [] ~MentionsAny(q, {"region", "category"}) /\ Mentions(q, "product") ->
            <<"products", "name">>
      [] ~MentionsAny(q, {"region", "category", "product"}) /\ Mentions(q, "month") ->
            <<"orders", "ordered_at">>
      [] OTHER -> <<"customers", "name">>

(* Faulty: a region is reached without the customer it belongs to. *)
JoinsToDirectly(table) ==
    CASE table = "regions" -> RegionsOf
      [] table = "customers" -> CustomersOf
      [] table = "products" -> ProductsOf
      [] OTHER -> {}

JoinsTo(table) ==
    CASE table = "regions" -> CustomersOf \cup RegionsOf
      [] table = "customers" -> CustomersOf
      [] table = "products" -> ProductsOf
      [] OTHER -> {}

RevenueByDimension(q, isDated) ==
    LET dim == Dimension(q)
        joins == OrdersOf \cup JoinsTo(dim[1])
    IN  Select(UNION {{j[1][1], j[2][1]} : j \in joins}, joins,
               Amounts \cup {dim}
                   \cup {c \in {<<"orders", "status">>} :
                            Mentions(q, "exclud") /\ Mentions(q, "refund")}
                   \cup Dated(<<"orders", "ordered_at">>, isDated),
               Unlimited)

CustomersWithoutOrders ==
    Select({"customers", "orders"}, CustomersOf,
           {<<"customers", "id">>, <<"customers", "name">>, <<"orders", "ordered_at">>},
           Unlimited)

MonthlyRecurringRevenue ==
    Select({"subscriptions"}, {},
           {<<"subscriptions", "mrr">>, <<"subscriptions", "status">>}, Unlimited)

ScalarRevenue(isDated) ==
    Select({"order_items", "orders"}, OrdersOf,
           Amounts \cup Dated(<<"orders", "ordered_at">>, isDated), Unlimited)

DateField(table) ==
    IF table \in DOMAIN DefaultDateFields THEN DefaultDateFields[table] ELSE "created_at"

Count(entity, isDated) ==
    LET table == IF entity = NoTable THEN "customers" ELSE entity
    IN  Select({table}, {}, Dated(<<table, DateField(table)>>, isDated), Unlimited)

StatusListing(table) ==
    Select({table}, {}, SafeColumns(table) \cup {<<table, "status">>}, MaxRows)

Listing(table) == Select({table}, {}, SafeColumns(table), MaxRows)

Fallback(entity, subset) ==
    Listing(IF entity # NoTable THEN entity
            ELSE TableOrder[SelectInSeq(TableOrder, LAMBDA t : t \in subset)])

-----------------------------------------------------------------------------
(* The rules, tried in this order. *)

RuleOrder == <<"top_products", "by_dimension", "without_orders", "mrr", "revenue",
               "count", "status_listing", "listing", "fallback">>

Applies(rule, q, subset, isDated) ==
    LET entity == DetectEntityTable(q, subset)
    IN  CASE rule = "top_products" ->
                /\ MentionsAny(q, {"top", "best", "highest"})
                /\ Mentions(q, "revenue") /\ Mentions(q, "product")
          [] rule = "by_dimension" -> Mentions(q, "revenue") /\ Mentions(q, "by")
          [] rule = "without_orders" ->
                MentionsAny(q, {"not", "haven't", "without"}) /\ Mentions(q, "order")
                    /\ isDated
          [] rule = "mrr" -> \/ Mentions(q, "mrr")
                             \/ <<"recurring", "revenue">> \in SubSeqs(q)
          [] rule = "revenue" -> \/ Mentions(q, "revenue")
                                 \/ <<"gross", "sales">> \in SubSeqs(q)
          [] rule = "count" -> \/ <<"how", "many">> \in SubSeqs(q)
                               \/ <<"number", "of">> \in SubSeqs(q)
                               \/ Head(q) = "count"
          [] rule = "status_listing" ->
                ToSet(q) \cap StatusValues # {} /\ entity # NoTable
          [] rule = "listing" ->
                /\ entity # NoTable
                /\ MentionsAny(q, {"list", "show", "all"}) \/ Head(q) = "what"
          [] rule = "fallback" -> TRUE

Heuristic(q, subset, isDated) ==
    LET entity == DetectEntityTable(q, subset)
        rule == RuleOrder[SelectInSeq(RuleOrder, LAMBDA r : Applies(r, q, subset, isDated))]
    IN  CASE rule = "top_products" -> TopProductsByRevenue(q, isDated)
          [] rule = "by_dimension" -> RevenueByDimension(q, isDated)
          [] rule = "without_orders" -> CustomersWithoutOrders
          [] rule = "mrr" -> MonthlyRecurringRevenue
          [] rule = "revenue" -> ScalarRevenue(isDated)
          [] rule = "count" -> Count(entity, isDated)
          [] rule = "status_listing" -> StatusListing(entity)
          [] rule = "listing" -> Listing(entity)
          [] rule = "fallback" -> Fallback(entity, subset)

(* Faulty: the first repair is counted as the first attempt again. *)
ScriptedFromOne(script, attempt) ==
    script[IF attempt \in {0, 1} THEN 1
           ELSE IF attempt > Len(script) THEN Len(script) ELSE attempt]

(* scripted[min(attempt_index, len(scripted) - 1)] *)
Scripted(script, attempt) ==
    script[IF attempt < Len(script) THEN attempt + 1 ELSE Len(script)]

Generate(q, subset, isDated, attempt) ==
    IF q \in DOMAIN Scripts
    THEN Scripted(Scripts[q], attempt)
    ELSE Heuristic(q, subset, isDated)
=============================================================================
