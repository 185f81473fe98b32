------------------------ MODULE ReferenceDeployment ------------------------
(***************************************************************************)
(* The reference commerce schema and the semantic layer written for it:    *)
(* two files that are kept in step by hand.  The schema says which columns *)
(* and foreign keys there are; the layer says, by name, which column holds *)
(* the tenant, which columns are sensitive and which one dates a row.      *)
(* A column is the pair of its table's name and its own.                   *)
(***************************************************************************)
EXTENDS Integers, Sequences, FiniteSets

-----------------------------------------------------------------------------
(* infrastructure/reference_schema.py *)

ColumnNames ==
    [organizations   |-> {"id", "name", "plan", "created_at", "deleted_at"},
     regions         |-> {"id", "name", "code"},
     users           |-> {"id", "organization_id", "email", "full_name",
                          "password_hash", "role", "created_at", "deleted_at"},
     customers       |-> {"id", "organization_id", "region_id", "name",
                          "contact_email", "contact_phone", "segment",
                          "created_at", "deleted_at"},
     products        |-> {"id", "organization_id", "sku", "name", "category",
                          "unit_price", "active", "created_at"},
     orders          |-> {"id", "organization_id", "customer_id", "status",
                          "ordered_at", "created_at", "deleted_at"},
     order_items     |-> {"id", "organization_id", "order_id", "product_id",
                          "quantity", "unit_price"},
     payments        |-> {"id", "organization_id", "order_id", "amount", "method",
                          "card_last4", "payment_token", "status", "paid_at"},
     refunds         |-> {"id", "organization_id", "order_id", "payment_id",
                          "amount", "reason", "refunded_at"},
     subscriptions   |-> {"id", "organization_id", "customer_id", "plan", "status",
                          "mrr", "started_at", "canceled_at"},
     support_tickets |-> {"id", "organization_id", "customer_id", "subject",
                          "status", "priority", "created_at", "resolved_at"}]

AllTables == DOMAIN ColumnNames

ColumnsOf(tables) == UNION {{t} \X ColumnNames[t] : t \in tables}

(* The database, as the catalog serves it. *)
ReferenceSchema == [tables |-> AllTables, columns |-> ColumnsOf(AllTables)]

(* Every column named like a table's key refers to that table's id. *)
ReferredTable == [organization_id |-> "organizations", region_id |-> "regions",
                  customer_id |-> "customers", order_id |-> "orders",
                  product_id |-> "products", payment_id |-> "payments"]

ForeignKeys == {<<c, <<ReferredTable[c[2]], "id">>>> :
                   c \in {d \in ReferenceSchema.columns :
                             d[2] \in DOMAIN ReferredTable}}

(* The introspector reads tables in the order of their names. *)
TableOrder == <<"customers", "order_items", "orders", "organizations", "payments",
                "products", "refunds", "regions", "subscriptions",
                "support_tickets", "users">>

-----------------------------------------------------------------------------
(* semantic/reference.py *)

NoColumn == <<"", "">>

TenantTables == {"users", "customers", "products", "orders", "order_items",
                 "payments", "refunds", "subscriptions", "support_tickets"}

(* Faulty: a table was added to the schema and not to the list. *)
TenantColumnForgotten ==
    [t \in AllTables |->
        CASE t \in TenantTables \ {"support_tickets"} -> <<t, "organization_id">>
          [] t = "organizations" -> <<t, "id">>
          [] OTHER -> NoColumn]

TenantColumn ==
    [t \in AllTables |->
        CASE t \in TenantTables -> <<t, "organization_id">>
          [] t = "organizations" -> <<t, "id">>
          [] OTHER -> NoColumn]

Classified ==
    [pii         |-> {<<"users", "email">>, <<"users", "full_name">>,
                      <<"customers", "contact_email">>,
                      <<"customers", "contact_phone">>, <<"payments", "card_last4">>},
     auth_secret |-> {<<"users", "password_hash">>, <<"payments", "payment_token">>},
     financial   |-> {<<"payments", "amount">>, <<"refunds", "amount">>,
                      <<"subscriptions", "mrr">>}]

(* What no annotation mentions stays INTERNAL. *)
ClassOf(column) ==
    IF \E class \in DOMAIN Classified : column \in Classified[class]
    THEN CHOOSE class \in DOMAIN Classified : column \in Classified[class]
    ELSE "internal"

IsSensitive(column) ==
    ClassOf(column) \in {"pii", "financial", "auth_secret", "highly_restricted"}

DefaultDateFields ==
    [orders |-> "ordered_at", order_items |-> "ordered_at", payments |-> "paid_at",
     refunds |-> "refunded_at", subscriptions |-> "started_at",
     support_tickets |-> "created_at", users |-> "created_at",
     customers |-> "created_at"]

(* Every surface form of a metric or a term that is a single word. *)
DefinedTerms ==
    {"revenue", "mrr", "customer", "customers", "account", "accounts", "client",
     "clients", "user", "users", "login", "logins", "region", "regions",
     "geography", "geo", "refund", "refunds", "subscription", "subscriptions"}
=============================================================================
