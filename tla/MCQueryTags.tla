---------------------------- MODULE MCQueryTags ----------------------------
(* Small instances of QueryTags. *)
EXTENDS QueryTags

CONSTANTS c, d

Full(id, cols) == [id |-> id, cols |-> cols, pred |-> Rows]

Schema(byval, indexes) == [rel |-> 1, byval |-> byval, indexes |-> indexes]

(* No index; one; one per column; two columns, the second by reference and *)
(* by value; a partial index.                                              *)
MCSchemas ==
    {Schema({c, d}, {}),
     Schema({c}, {Full(1, <<c>>)}),
     Schema({c}, {Full(1, <<c>>), Full(2, <<d>>)}),
     Schema({c}, {Full(1, <<c, d>>)}),
     Schema({c, d}, {Full(1, <<c, d>>)}),
     Schema({c}, {[id |-> 1, cols |-> <<c>>, pred |-> {r \in Rows : r[d] = 1}]})}

(* One index of one column. *)
MCOneIndex == {Schema({c}, {Full(1, <<c>>)})}
=============================================================================
