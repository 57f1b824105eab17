------------------------------ MODULE InvalTag ------------------------------
(***************************************************************************)
(* Invalidation tags.  A tag string "a:b:" is modelled by the sequence of  *)
(* its colon-terminated components <<a, b>>, a component by a number that  *)
(* fixes its place in strcmp order.  A tag that is a prefix of another     *)
(* covers it: "t:" names a table and "t:i.k:" one index key of it.         *)
(***************************************************************************)
EXTENDS Naturals, Sequences, SequencesExt

Tags == Seq(Nat) \ {<<>>}

(* strcmp(a, b) <= 0: a prefix comes before its extensions. *)
TagLE(a, b) ==
    \/ IsPrefix(a, b)
    \/ \E i \in 1..Len(a) :
        /\ i <= Len(b)
        /\ a[i] < b[i]
        /\ \A j \in 1..(i - 1) : a[j] = b[j]

(* Mutant: the descendants of a tag are not matched. *)
TagMatchesExactly(tag, descendants, t) == tag = t

(* The test one (tag, descendants) invalidation applies to a tag t: strcmp *)
(* without descendants, strncmp over the length of tag with them.          *)
TagMatches(tag, descendants, t) ==
    IF descendants THEN IsPrefix(tag, t) ELSE tag = t

(* The calls one notice makes: call <<i, j>> is for the first j components *)
(* of tag i, with descendants only when that is the whole tag.             *)
Calls(tags) ==
    UNION {{<<i, j>> : j \in 1..Len(tags[i])} : i \in 1..Len(tags)}

CallTag(tags, c) == SubSeq(tags[c[1]], 1, c[2])

CallDescendants(tags, c) == c[2] = Len(tags[c[1]])

CallBefore(c, d) == c[1] < d[1] \/ (c[1] = d[1] /\ c[2] < d[2])

-----------------------------------------------------------------------------
(* What a dependency is, whatever the code does: one tag covers the other. *)
Related(u, v) == IsPrefix(u, v) \/ IsPrefix(v, u)

(* Some tag of the sequence `notice' bears on some tag of the set `deps'.  *)
Bears(notice, deps) ==
    \E i \in 1..Len(notice) : \E t \in deps : Related(notice[i], t)
=============================================================================
