---------------------------- MODULE ReadOnlyTxn ----------------------------
(***************************************************************************)
(* What a read-only transaction promises the application: although its     *)
(* results come from the database and from the cache, computed at one time *)
(* or another, there is one snapshot that explains all of them.            *)
(***************************************************************************)
EXTENDS Naturals, Sequences

CONSTANTS Items, Values

VARIABLES snap,     \* the database: the results at each snapshot
          seen      \* what the running transaction has read

vars == <<snap, seen>>

Explains(p, reads) == \A r \in reads : snap[p][r.item] = r.value

Init ==
    /\ \E s \in [Items -> Values] : snap = <<s, s>>
    /\ seen = {}

Commit ==
    /\ \E new \in [Items -> Values] : snap' = Append(snap, new)
    /\ UNCHANGED seen

\* One result more, such that some snapshot explains all of them.
Read(item, value) ==
    /\ seen' = seen \union {[item |-> item, value |-> value]}
    /\ \E p \in 1..Len(snap) : Explains(p, seen')
    /\ UNCHANGED snap

\* The transaction ends or its process dies.
End ==
    /\ seen' = {}
    /\ UNCHANGED snap

Next ==
    \/ Commit
    \/ \E item \in Items, value \in Values : Read(item, value)
    \/ End

Spec == Init /\ [][Next]_vars
=============================================================================
