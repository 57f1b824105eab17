------------------------------ MODULE MCClient ------------------------------
(* A client whose items have their tags in common. *)
EXTENDS Client, TLC

MCTagsOf == [i \in Items |-> Tags]

(* No definition tells the values apart. *)
Symmetry == Permutations(Values)

(* What changes nothing any more: the content of the root frame, which is    *)
(* never put, and what becomes of snapshots that have left the pin set.      *)
View == <<snap, saved \intersect pinSet.pins, lease \intersect pinSet.pins,
          lease = {}, session, mode, pinSet, activePin, Len(stack),
          IF stack = <<>> THEN stack ELSE Tail(stack), seen, panic>>
=============================================================================
