------------------------- MODULE MCQueryOrchestrator -------------------------
(***************************************************************************)
(* A small deployment for TLC: users and orders, orders owned by a tenant, *)
(* one personal, one financial and one secret column, one name in both     *)
(* tables; an analyst and an admin of two organizations; two schema        *)
(* versions, before and after a migration that adds the tenant column and  *)
(* drops orders.note.                                                      *)
(***************************************************************************)
EXTENDS QueryOrchestrator

CONSTANTS analyst, admin, org1, org2

MCTables == {"orders", "users", "audit"}

MCColumns == {"password_hash", "total", "note", "organization_id", "users_note"}

MCTableOf == [c \in MCColumns |->
    IF c \in {"password_hash", "users_note"} THEN "users" ELSE "orders"]

MCNameOf == [c \in MCColumns |-> IF c = "users_note" THEN "note" ELSE c]

MCClassification == [c \in MCColumns |->
    CASE c = "note" -> "pii"
      [] c = "password_hash" -> "auth_secret"
      [] c = "total" -> "financial"
      [] OTHER -> "internal"]

MCTenantColumn == [t \in MCTables |->
    IF t = "orders" THEN "organization_id" ELSE NoColumn]

MCCallers == {analyst, admin}

MCRolesOf == [c \in MCCallers |-> IF c = admin THEN {"admin"} ELSE {"analyst"}]

MCTenantOf == [c \in MCCallers |-> IF c = admin THEN org2 ELSE org1]

MCSnapshots == {
    [tables |-> MCTables, columns |-> MCColumns \ {"organization_id"}],
    [tables |-> MCTables, columns |-> MCColumns \ {"note"}]}

(* Every table under its own name, every column qualified by it. *)
Qualified(tables, columns) ==
    [sources |-> {<<t, t>> : t \in tables},
     mentions |-> {<<MCTableOf[c], MCNameOf[c]>> : c \in columns},
     virtual |-> {}, outputs |-> {}]

Unqualified(tables, columns) ==
    [Qualified(tables, columns) EXCEPT !.mentions = {<<Bare, MCNameOf[c]>> : c \in columns}]

Query(tables, columns, limit) ==
    [parses |-> TRUE, statements |-> 1, flaws |-> {}, names |-> Qualified(tables, columns),
     tables |-> tables, columns |-> columns, limit |-> limit, shape |-> {}]

Totals == Query({"orders"}, {"total"}, NoLimit)

Hashes == Query({"users"}, {"password_hash"}, NoLimit)

Notes == Query({"users", "orders"}, {"note", "users_note"}, NoLimit)

Both == Query({"users", "orders"}, {"total", "note"}, NoLimit)

(* x.note, where x is users in one scope and orders in another *)
Reused == [sources |-> {<<"x", "users">>, <<"x", "orders">>},
           mentions |-> {<<"x", "note">>}, virtual |-> {}, outputs |-> {}]

(* note with two owners, total also the name of an output *)
Loose == [Unqualified({"users", "orders"}, {"total", "note"})
             EXCEPT !.outputs = {"total"}]

(* password_hash, returned as password_hash *)
Renamed == [Unqualified({"users"}, {"password_hash"}) EXCEPT !.outputs = {"password_hash"}]

(* A CTE named orders, made from orders under another name. *)
Shadowed == [sources |-> {<<"o", "orders">>, <<"orders", "orders">>},
             mentions |-> {<<"o", "total">>, <<"orders", "total">>},
             virtual |-> {"orders"}, outputs |-> {}]

MCCandidates == {
    [Totals EXCEPT !.names = Shadowed, !.limit = 1],
    Query({"orders"}, {"note"}, NoLimit),
    [Notes EXCEPT !.names = Reused, !.limit = 9],
    [Both EXCEPT !.names = Loose],
    [Hashes EXCEPT !.names = Unqualified({"users"}, {"password_hash"})],
    [Hashes EXCEPT !.names = Renamed],
    Query({"audit"}, {}, NoLimit),
    [Totals EXCEPT !.parses = FALSE],
    [Totals EXCEPT !.statements = 2],
    [Totals EXCEPT !.flaws = {"select_star_forbidden"}],
    [Totals EXCEPT !.flaws = {"denied_function", "comment_present"}],
    [Totals EXCEPT !.shape = {"cartesian_product"}]}

Ask(caller, execute, maxRows, dialect) ==
    [caller |-> caller, tenant |-> NoTenant, execute |-> execute,
     dry_run |-> FALSE, sql_only |-> FALSE, max_rows |-> maxRows,
     dialect |-> dialect, ambiguous |-> FALSE]

MCSubmissions == {
    Ask(analyst, TRUE, 0, "postgres"),
    Ask(admin, TRUE, 1, "sqlite"),
    [Ask(analyst, TRUE, 9, "sqlite") EXCEPT !.sql_only = TRUE],
    [Ask(admin, TRUE, 0, "sqlite") EXCEPT !.dry_run = TRUE],
    [Ask(admin, TRUE, 0, "sqlite") EXCEPT !.tenant = org1],
    [Ask(analyst, FALSE, 0, "sqlite") EXCEPT !.ambiguous = TRUE]}
=============================================================================
