--------------------------- MODULE MCCacheServer ---------------------------
(* Small instances of CacheServer. *)
EXTENDS CacheServer

CONSTANTS a, b, k, k2

(* One table with two index keys, and a second table.  The result a of     *)
(* call k reads one index key, b reads the other and the second table; k2  *)
(* scans the first table.                                                  *)
MCTagsOf ==
    [key \in Keys |-> [v \in Values |->
        CASE key = k /\ v = a -> {<<1, 1>>}
          [] key = k /\ v # a -> {<<1, 2>>, <<2>>}
          [] key # k -> {<<1>>}]]

MCNotices == {<<>>, <<(<<1, 1>>)>>, <<(<<1>>)>>, <<(<<2>>)>>}

MCNoticesOneTable == {<<(<<1, 1>>)>>, <<(<<1>>)>>}

(* Null notices and one notice for each of the tables. *)
MCNoticesLate == {<<>>, <<(<<1>>)>>, <<(<<2>>)>>}

MCDataBytes == [v \in Values |-> IF v = a THEN 1 ELSE 2]

(* While MaxBytes is never reached the eviction list decides nothing. *)
WithoutLRU == <<[store EXCEPT !.lru = <<>>], clock, snap, invals>>
=============================================================================
