------------------------------ MODULE PinLease ------------------------------
(***************************************************************************)
(* What the pincushion promises its clients: a snapshot that a transaction *)
(* may still begin on is not given up.                                     *)
(***************************************************************************)
CONSTANTS Hosts,   \* the client connections
          Pins     \* the database snapshots

VARIABLES kept,    \* the snapshots nobody has decided to give up
          held     \* per client, the snapshots its transaction may use

vars == <<kept, held>>

Init == kept = {} /\ held = [h \in Hosts |-> {}]

\* The client has a new snapshot pinned, and its transaction stays on it.
Pin(h, p) ==
    /\ kept' = kept \union {p}
    /\ held' = [held EXCEPT ![h] = {p}]

\* A beginning transaction is offered snapshots.
Grant(h, S) ==
    /\ held[h] = {}
    /\ S \subseteq kept
    /\ held' = [held EXCEPT ![h] = S]
    /\ UNCHANGED kept

\* The transaction ends, or its client goes away.
Return(h) ==
    /\ held' = [held EXCEPT ![h] = {}]
    /\ UNCHANGED kept

\* Snapshots are given up, none of them in use.
GiveUp(S) ==
    /\ \A h \in Hosts : held[h] \intersect S = {}
    /\ kept' = kept \ S
    /\ UNCHANGED held

Next ==
    \/ \E h \in Hosts, p \in Pins : Pin(h, p)
    \/ \E h \in Hosts : Return(h) \/ \E S \in SUBSET Pins : Grant(h, S)
    \/ \E S \in SUBSET Pins : GiveUp(S)

Spec == Init /\ [][Next]_vars
=============================================================================
