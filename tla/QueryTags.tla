----------------------------- MODULE QueryTags -----------------------------
(***************************************************************************)
(* The invalidation tags of the database (pgsql/.../commands/inval.c and   *)
(* the executor's calls to it): what a SELECT says its result depends on,  *)
(* and what an INSERT, DELETE or UPDATE says it has changed.               *)
(*                                                                         *)
(* One table, one result held by a cache.  A write commits and its tags    *)
(* reach the cache in one step (Invald has the way in between); the cache  *)
(* drops a result when one tag covers the other (InvalTag).  Hashes are    *)
(* taken as free of collisions: a collision can only invalidate more.      *)
(* System tables, which have no tags, are left out.                        *)
(***************************************************************************)
EXTENDS InvalTag, FiniteSets

CONSTANTS Columns,
          Vals,         \* values of a column
          Schemas,      \* tables: [rel, byval, indexes], see ASSUME
          NoIndex,      \* the plan is a sequential scan
          NoResult      \* the cache holds nothing

Rows == [Columns -> Vals]

\* rel is the table's OID; byval are the columns whose type is passed by
\* value; an index has its OID, its columns in order and, if it is partial,
\* the rows its predicate admits.
ASSUME QueryTagsAssumption ==
    /\ Vals \subseteq Nat
    /\ \A s \in Schemas :
        /\ s.rel \in Nat /\ s.byval \subseteq Columns
        /\ \A i \in s.indexes :
            /\ i.id \in Nat /\ i.pred \subseteq Rows
            /\ i.cols \in Seq(Columns) /\ Len(i.cols) > 0

VARIABLES schema,   \* the table's definition
          rows,     \* its contents
          cached    \* a result marked still valid, or NoResult

vars == <<schema, rows, cached>>

-----------------------------------------------------------------------------
(* Queries.  A WHERE clause compares some columns with constants.          *)

Quals ==
    UNION {[cs -> [strategy : {"=", ">="}, argument : Vals]] :
           cs \in SUBSET Columns}

Satisfies(row, quals) ==
    \A c \in DOMAIN quals :
        IF quals[c].strategy = "=" THEN row[c] = quals[c].argument
                                   ELSE row[c] >= quals[c].argument

Result(quals) == {r \in rows : Satisfies(r, quals)}

MakeInvalTagFromRelation == <<schema.rel>>

\* The keys of an index scan are the conditions on the index's columns.
ScanKeys(index, quals) ==
    SelectSeq(index.cols, LAMBDA c : c \in DOMAIN quals)

MakeInvalTagFromScanKey(index, quals) ==
    LET keys == ScanKeys(index, quals) IN
    IF \A n \in 1 .. Len(keys) : quals[keys[n]].strategy = "="
    THEN <<schema.rel,
           <<index.id>> \o [n \in 1 .. Len(keys) |-> quals[keys[n]].argument]>>
    ELSE MakeInvalTagFromRelation

\* Mutant: an index scan on some of the index's columns names its key.
ScanTagOfPrefix(index, quals) ==
    IF index # NoIndex /\ ScanKeys(index, quals) # <<>>
    THEN MakeInvalTagFromScanKey(index, quals)
    ELSE MakeInvalTagFromRelation

\* InitScanRelation and ExecInitIndexScan: only a scan that has a key for
\* every column of the index is tagged with the key.
ScanTag(index, quals) ==
    IF index # NoIndex /\ Len(ScanKeys(index, quals)) = Len(index.cols)
    THEN MakeInvalTagFromScanKey(index, quals)
    ELSE MakeInvalTagFromRelation

\* The planner takes a partial index only when the query implies its
\* predicate, and an index at all only with a condition on it.
Usable(index, quals) ==
    index # NoIndex =>
        /\ ScanKeys(index, quals) # <<>>
        /\ \A r \in Rows : Satisfies(r, quals) => r \in index.pred

-----------------------------------------------------------------------------
(* Writes.                                                                 *)

\* Sic values[0]: every by-value column of an index is tagged with the first
\* column's value.
MakeInvalTagFromValues(index, row) ==
    <<schema.rel,
      <<index.id>> \o
      [n \in 1 .. Len(index.cols) |->
          IF index.cols[n] \in schema.byval THEN row[index.cols[1]]
                                            ELSE row[index.cols[n]]]>>

\* ExecInsertIndexTuples, as far as tags go.
ExecInsertIndexTuples(row) ==
    {MakeInvalTagFromValues(i, row) :
        i \in {j \in schema.indexes : row \in j.pred}}
    \union (IF schema.indexes = {} THEN {MakeInvalTagFromRelation} ELSE {})

\* Only a table with an index gets that far.
ExecInsert(row) ==
    IF schema.indexes # {} THEN ExecInsertIndexTuples(row) ELSE {}

\* Mutant: a deleted row is not fetched again to invalidate its keys.
ExecDeleteSilent(row) == {}

ExecDelete(row) == ExecInsertIndexTuples(row)

\* The new row's keys; the old row's are not touched.
ExecUpdate(old, new) == ExecInsert(new)

\* InvalidateTag ignores transactions below SERIALIZABLE.
InvalidateTag(serializable, tags) == IF serializable THEN tags ELSE {}

Invalidated(tags) ==
    cached # NoResult /\ \E t \in tags : Related(t, cached.tag)

-----------------------------------------------------------------------------
(* Why a write's tags may not tell what it has changed.                    *)

KeyOf(index, row) == [n \in 1 .. Len(index.cols) |-> row[index.cols[n]]]

\* A column by value that is not the first of its index.
WideByValue ==
    \E i \in schema.indexes :
        \E n \in 2 .. Len(i.cols) : i.cols[n] \in schema.byval

InNoIndex(row) == \A i \in schema.indexes : row \notin i.pred

MovesKey(old, new) ==
    \E i \in schema.indexes :
        \/ KeyOf(i, old) # KeyOf(i, new)
        \/ old \in i.pred /\ new \notin i.pred

When(condition, reason) == IF condition THEN {reason} ELSE {}

InsertUntold(row) ==
    When(WideByValue, "wide") \union When(InNoIndex(row), "unindexed")

DeleteUntold(row) ==
    When(WideByValue, "wide")
    \union When(schema.indexes # {} /\ InNoIndex(row), "unindexed")

UpdateUntold(old, new) ==
    InsertUntold(new) \union When(MovesKey(old, new), "moved")

-----------------------------------------------------------------------------
Init ==
    /\ schema \in Schemas
    /\ rows \in SUBSET Rows
    /\ cached = NoResult

Select(index, quals) ==
    /\ cached = NoResult
    /\ Usable(index, quals)
    /\ cached' = [quals |-> quals, tag |-> ScanTag(index, quals),
                  result |-> Result(quals), untold |-> {}]
    /\ UNCHANGED <<schema, rows>>

Write(newRows, serializable, tags, untold) ==
    /\ rows' = newRows
    /\ cached' = IF Invalidated(InvalidateTag(serializable, tags)) THEN NoResult
                 ELSE IF cached = NoResult THEN NoResult
                 ELSE [cached EXCEPT !.untold =
                          @ \union untold \union When(~serializable, "isolation")]
    /\ UNCHANGED schema

Insert(row, serializable) ==
    /\ row \notin rows
    /\ Write(rows \union {row}, serializable, ExecInsert(row),
             InsertUntold(row))

Delete(row, serializable) ==
    /\ row \in rows
    /\ Write(rows \ {row}, serializable, ExecDelete(row), DeleteUntold(row))

Update(old, new, serializable) ==
    /\ old \in rows /\ new \notin rows
    /\ Write((rows \ {old}) \union {new}, serializable, ExecUpdate(old, new),
             UpdateUntold(old, new))

Next ==
    \/ \E quals \in Quals : \E index \in schema.indexes \union {NoIndex} :
        Select(index, quals)
    \/ \E s \in BOOLEAN, row \in Rows : Insert(row, s) \/ Delete(row, s)
    \/ \E s \in BOOLEAN, old, new \in Rows : Update(old, new, s)

Spec == Init /\ [][Next]_vars

-----------------------------------------------------------------------------
(* The tags of a SELECT and of the writes after it meet: while a result is *)
(* not invalidated it is what the query would return now.  Not so after a  *)
(* write below SERIALIZABLE, an UPDATE of an index key, a write to a table *)
(* with a second by-value column in an index, or one to a row that no      *)
(* index holds: there the executor's tags fall short (ExecUpdate and       *)
(* ExecInsert in execMain.c, values[0] in inval.c).                        *)
CurrentUnlessUntold ==
    cached # NoResult /\ cached.untold = {} =>
        cached.result = Result(cached.quals)

(* README.TXCACHE: "The database produces invalidations indicating which   *)
(* invalidation tags are affected by the changes made by a read/write      *)
(* transaction."  A result that no tag of a serializable write has         *)
(* invalidated is still what the query returns.                            *)
CurrentUnlessInvalidated ==
    cached # NoResult /\ "isolation" \notin cached.untold =>
        cached.result = Result(cached.quals)
=============================================================================
