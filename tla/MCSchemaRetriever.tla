------------------------- MODULE MCSchemaRetriever -------------------------
(* Five tables, one of which a schema may lack, over every join graph that *)
(* eight possible foreign keys make: two cycles, a chain of four joins, a  *)
(* key into the missing table, and tables nothing joins.                   *)
EXTENDS SchemaRetriever

MCTables == 1..5

MCSchemas == {1..5, {1, 2, 3, 5}}

MCForeignKeys ==
    {<<1, 2>>, <<3, 2>>, <<3, 4>>, <<5, 4>>, <<2, 4>>, <<4, 1>>, <<1, 5>>, <<3, 3>>}

NoHit == [name |-> FALSE, columns |-> 0, comment |-> FALSE, terms |-> 0, metrics |-> 0]

MCHits == {NoHit, [NoHit EXCEPT !.columns = 4], [NoHit EXCEPT !.terms = 1, !.comment = TRUE]}
=============================================================================
