------------------------------ MODULE Validity ------------------------------
(***************************************************************************)
(* The multiversion side of the database: commit timestamps (xstamps),     *)
(* saved snapshots, the map from transactions to their xstamps             *)
(* (pgsql/.../utils/time/ssnap.c, xstamp.c), the validity interval that a  *)
(* SELECT on a saved snapshot returns (valint.c, execTuples.c, execMain.c) *)
(* and what VACUUM may remove (tqual.c).                                   *)
(*                                                                         *)
(* Writers commit in the steps of CommitTransaction (xact.c): the commit   *)
(* is logged, the transaction leaves the list of running ones, it gets its *)
(* xstamp, the xstamp enters the map.  One reader runs queries on a saved  *)
(* snapshot, one tuple at a time.  The query matches every tuple of the    *)
(* heap: those it does not match have no part in its interval.             *)
(*                                                                         *)
(* A saved snapshot's id is the next xstamp, so pin p of the cache is the  *)
(* snapshot p + 1, which sees the xstamps up to p.                         *)
(***************************************************************************)
EXTENDS Naturals, Sequences, SequencesExt, FiniteSets, FiniteSetsExt

CONSTANTS XStampInfinity,   \* 2^32 - 1 in the code
          MaxXid,           \* bound on the number of writers
          MaxTuples         \* bound on the number of tuples

InvalidXStamp == 0
XStampMinusInfinity == 1
FirstXStamp == 2

XStamps == 0 .. XStampInfinity

\* Transaction 0 wrote the first tuple before anyone's memory.
Bootstrap == 0
Xids == 1 .. MaxXid

\* t_infomask without HEAP_XMAX_INVALID is an xmax other than NoXid.
NoXid == MaxXid + 1

ASSUME ValidityAssumption ==
    /\ MaxXid \in Nat /\ MaxTuples \in Nat \ {0}
    /\ XStampInfinity \in Nat /\ XStampInfinity > FirstXStamp + MaxXid

VARIABLES
    stage,      \* per writer, how far it is
    stamp,      \* per writer, its xstamp once assigned (history)
    next,       \* SSnapShared->NextXStamp
    lastSSnap,  \* SSnapShared->LastSSnapXStamp
    earliest,   \* SSnapShared->EarliestSSnapXStamp
    saved,      \* SSnapHash: id -> the transactions the snapshot sees
    map,        \* TheCommitMap: writer -> xstamp
    heap,       \* the tuples: [xmin, xmax, slot]
    reader,     \* the read-only transaction
    vacuum      \* a running VACUUM

vars == <<stage, stamp, next, lastSSnap, earliest, saved, map, heap, reader,
          vacuum>>

shared == <<next, lastSSnap, earliest, saved, map>>

-----------------------------------------------------------------------------
(* Transactions.                                                           *)

\* The writer is out of the list of running transactions, its xstamp is not
\* in the map yet; it holds SSnapHashLock.
Committing(w) == stage[w] \in {"cleared", "stamped"}

DidCommit(x) ==
    x = Bootstrap
    \/ (x \in Xids /\ stage[x] \in {"cleared", "stamped", "done"})
InProgress(x) == x \in Xids /\ stage[x] \in {"running", "wrote", "logged"}
DidAbort(x) == x \in Xids /\ stage[x] = "aborted"

\* Mutant: the committing transaction does not take the lock.
SSnapHashLockNeverHeld == TRUE

SSnapHashLockFree == \A w \in Xids : ~Committing(w)

\* A new snapshot: the transactions that have left the list.
GetTransactionSnapshot == {x \in {Bootstrap} \union Xids : DidCommit(x)}

StartTransaction(w) ==
    /\ stage[w] = "idle"
    /\ \A v \in Xids : v < w => stage[v] # "idle"
    /\ stage' = [stage EXCEPT ![w] = "running"]
    /\ UNCHANGED <<stamp, shared, heap, reader, vacuum>>

heap_insert(w) ==
    /\ stage[w] \in {"running", "wrote"}
    /\ Len(heap) < MaxTuples
    /\ heap' = Append(heap, [xmin |-> w, xmax |-> NoXid, slot |-> "used"])
    /\ stage' = [stage EXCEPT ![w] = "wrote"]
    /\ UNCHANGED <<stamp, shared, reader, vacuum>>

\* The deleter waits for a running one before it.
heap_delete(w, i) ==
    /\ stage[w] \in {"running", "wrote"}
    /\ heap[i].slot = "used"
    /\ DidCommit(heap[i].xmin)
    /\ heap[i].xmax = NoXid \/ DidAbort(heap[i].xmax)
    /\ heap' = [heap EXCEPT ![i].xmax = w]
    /\ stage' = [stage EXCEPT ![w] = "wrote"]
    /\ UNCHANGED <<stamp, shared, reader, vacuum>>

AbortTransaction(w) ==
    /\ stage[w] = "wrote"
    /\ stage' = [stage EXCEPT ![w] = "aborted"]
    /\ UNCHANGED <<stamp, shared, heap, reader, vacuum>>

RecordTransactionCommit(w) ==
    /\ stage[w] = "wrote"
    /\ stage' = [stage EXCEPT ![w] = "logged"]
    /\ UNCHANGED <<stamp, shared, heap, reader, vacuum>>

\* PrepareCommitXStamp takes the lock, then MyProc->xid is cleared.
PrepareCommitXStamp(w) ==
    /\ stage[w] = "logged"
    /\ SSnapHashLockFree
    /\ stage' = [stage EXCEPT ![w] = "cleared"]
    /\ UNCHANGED <<stamp, shared, heap, reader, vacuum>>

GetCommitXStamp(w) ==
    /\ stage[w] = "cleared"
    /\ stamp' = [stamp EXCEPT ![w] = next]
    /\ next' = next + 1
    /\ stage' = [stage EXCEPT ![w] = "stamped"]
    /\ UNCHANGED <<lastSSnap, earliest, saved, map, heap, reader, vacuum>>

\* The rest of GetCommitXStamp: the map, and the end of the lock.  Without
\* a saved snapshot nobody asks for the xstamp.
CommitMapAdd(w) ==
    /\ stage[w] = "stamped"
    /\ map' = IF earliest # InvalidXStamp
              THEN [x \in DOMAIN map \union {w} |->
                       IF x = w THEN stamp[w] ELSE map[x]]
              ELSE map
    /\ stage' = [stage EXCEPT ![w] = "done"]
    /\ UNCHANGED <<stamp, next, lastSSnap, earliest, saved, heap, reader,
                   vacuum>>

\* XidToXStamp
CommitMapLookup(x) == IF x \in DOMAIN map THEN map[x] ELSE InvalidXStamp

-----------------------------------------------------------------------------
(* Saved snapshots.  All of this runs under SSnapHashLock.                 *)

\* SaveSnapshot; a snapshot that is saved already is returned again.
SaveSnapshot ==
    /\ SSnapHashLockFree
    /\ lastSSnap' = next
    /\ IF lastSSnap = next
       THEN UNCHANGED <<earliest, saved>>
       ELSE /\ earliest' = IF earliest = InvalidXStamp THEN next ELSE earliest
            /\ saved' = [id \in DOMAIN saved \union {next} |->
                            IF id = next THEN GetTransactionSnapshot
                                         ELSE saved[id]]
    /\ UNCHANGED <<next, map>>

\* Mutant: the map forgets what the earliest saved snapshot cannot see.
CommitMapExpireThrough(earliestToKeep) ==
    [x \in {y \in DOMAIN map : map[y] > earliestToKeep} |-> map[x]]

\* The entries every saved snapshot sees are dropped.
CommitMapExpire(earliestToKeep) ==
    [x \in {y \in DOMAIN map : map[y] >= earliestToKeep} |-> map[x]]

\* Mutant: nothing is reset when the last snapshot goes.
EarliestOfNothing(ids) == IF ids = {} THEN XStampInfinity ELSE Min(ids)

EarliestOf(ids) == IF ids = {} THEN InvalidXStamp ELSE Min(ids)

RemoveSavedSnapshot(id) ==
    LET rest == DOMAIN saved \ {id}
    IN  /\ SSnapHashLockFree
        /\ saved' = [s \in rest |-> saved[s]]
        /\ lastSSnap' = IF lastSSnap = id THEN InvalidXStamp ELSE lastSSnap
        /\ IF earliest = id
           THEN /\ map' = CommitMapExpire(Min(rest \union {XStampInfinity}))
                /\ earliest' = EarliestOf(rest)
           ELSE UNCHANGED <<map, earliest>>
        /\ UNCHANGED next

\* Another client's PIN and the pincushion's UNPIN.  The pincushion keeps
\* the snapshots that are in use (PinLease).
Pin ==
    /\ SaveSnapshot
    /\ UNCHANGED <<stage, stamp, heap, reader, vacuum>>

Unpin(id) ==
    /\ id # reader.xstamp
    /\ RemoveSavedSnapshot(id)
    /\ UNCHANGED <<stage, stamp, heap, reader, vacuum>>

-----------------------------------------------------------------------------
(* Validity intervals.                                                     *)

Infinite == [start |-> XStampMinusInfinity, end |-> XStampInfinity]

ValidityIntervalIntersect(a, b) ==
    [start |-> Max({a.start, b.start}), end |-> Min({a.end, b.end})]

ValidityIntervalExclude(orig, x, now) ==
    IF x < now THEN [orig EXCEPT !.start = Max({@, x})]
               ELSE [orig EXCEPT !.end = Min({@, x})]

\* HeapTupleSatisfiesSnapshot and its LastHTSSReason.
Visibility(tuple, snapshot) ==
    IF ~DidCommit(tuple.xmin) THEN "invalid"
    ELSE IF tuple.xmin \notin snapshot THEN "not inserted yet"
    ELSE IF tuple.xmax = NoXid \/ ~DidCommit(tuple.xmax) THEN "visible"
    ELSE IF tuple.xmax \notin snapshot THEN "visible"
    ELSE "already deleted"

ValidityIntervalExcludeInvisibleTuple(inv, tuple, reason, now) ==
    LET xstamp == CommitMapLookup(IF reason = "not inserted yet"
                                  THEN tuple.xmin ELSE tuple.xmax)
    IN  IF xstamp # InvalidXStamp
        THEN ValidityIntervalExclude(inv, xstamp, now)
        ELSE inv

GetHeapTupleValidity(tuple) ==
    LET xmin == CommitMapLookup(tuple.xmin)
        xmax == CommitMapLookup(tuple.xmax)
    IN  [start |-> IF xmin # InvalidXStamp THEN xmin ELSE XStampMinusInfinity,
         end |-> IF xmax # InvalidXStamp THEN xmax ELSE XStampInfinity]

-----------------------------------------------------------------------------
(* The reader.                                                             *)

NoReader ==
    [phase |-> "none", xstamp |-> InvalidXStamp, latest |-> InvalidXStamp,
     torn |-> FALSE, pos |-> 1, until |-> 0, reason |-> "none",
     validity |-> Infinite, rows |-> {}, unbounded |-> FALSE]

BeginAt(id) == [NoReader EXCEPT !.phase = "begun", !.xstamp = id]

\* BEGIN; PIN
AssignAndPinTransactionSnapshot ==
    /\ reader.phase = "none"
    /\ SaveSnapshot
    /\ reader' = BeginAt(next)
    /\ UNCHANGED <<stage, stamp, heap, vacuum>>

\* BEGIN SNAPSHOTID id - 1
SetTransactionXStamp(id) ==
    /\ reader.phase = "none"
    /\ SSnapHashLockFree
    /\ reader' = BeginAt(id)
    /\ UNCHANGED <<stage, stamp, shared, heap, vacuum>>

\* SetLatestXStampAtTransactionStartIfUnset
LatestAtStart ==
    IF reader.latest = InvalidXStamp THEN next ELSE reader.latest

\* GetNextXStamp takes no lock: torn remembers that it was read between a
\* committer's NextXStamp++ and its CommitMapAdd.
ExecutorStart ==
    /\ reader.phase \in {"begun", "answered"}
    /\ reader' = [reader EXCEPT
           !.phase = "scan", !.latest = LatestAtStart, !.pos = 1,
           !.until = Len(heap), !.validity = Infinite, !.rows = {},
           !.torn = @ \/ (reader.latest = InvalidXStamp
                          /\ \E w \in Xids : stage[w] = "stamped")]
    /\ UNCHANGED <<stage, stamp, shared, heap, vacuum>>

Snapshot == saved[reader.xstamp]

\* index_getnext or heapgettup: the next tuple, and whether the snapshot
\* sees it.  Tuples added behind the end of the scan may be missed.
FetchTuple ==
    /\ reader.phase = "scan"
    /\ reader.pos <= Len(heap)
    /\ LET tuple == heap[reader.pos] IN
       IF tuple.slot # "used" \/ Visibility(tuple, Snapshot) = "invalid"
       THEN reader' = [reader EXCEPT !.pos = @ + 1]
       ELSE reader' = [reader EXCEPT !.phase = "look",
                           !.reason = Visibility(tuple, Snapshot)]
    /\ UNCHANGED <<stage, stamp, shared, heap, vacuum>>

\* What the tuple says about the interval; es_tupleValidity and
\* es_invalidityMask are only ever intersected, so one interval holds both.
LookUpTuple ==
    LET tuple == heap[reader.pos] IN
    /\ reader.phase = "look"
    /\ reader' = [reader EXCEPT
           !.phase = "scan", !.reason = "none", !.pos = @ + 1,
           !.rows = IF reader.reason = "visible" THEN @ \union {reader.pos}
                                                 ELSE @,
           !.validity =
               IF reader.reason = "visible"
               THEN ValidityIntervalIntersect(@, GetHeapTupleValidity(tuple))
               ELSE ValidityIntervalExcludeInvisibleTuple(
                        @, tuple, reader.reason, reader.xstamp)]
    /\ UNCHANGED <<stage, stamp, shared, heap, vacuum>>

\* Mutant: a result without a known end is valid up to the present.
FinalValidityNow(v) ==
    [start |-> IF v.start = XStampMinusInfinity THEN earliest - 1 ELSE v.start,
     end |-> IF v.end = XStampInfinity THEN next ELSE v.end]

\* The end of ExecutorRun.
FinalValidity(v) ==
    [start |-> IF v.start = XStampMinusInfinity THEN earliest - 1 ELSE v.start,
     end |-> IF v.end = XStampInfinity THEN reader.latest ELSE v.end]

ExecutorRunEnds ==
    /\ reader.phase = "scan"
    /\ reader.pos > reader.until
    /\ reader' = [reader EXCEPT
           !.phase = "answered", !.validity = FinalValidity(@),
           !.unbounded = reader.validity.end = XStampInfinity]
    /\ UNCHANGED <<stage, stamp, shared, heap, vacuum>>

EndTransaction ==
    /\ reader.phase \in {"begun", "answered"}
    /\ reader' = NoReader
    /\ UNCHANGED <<stage, stamp, shared, heap, vacuum>>

-----------------------------------------------------------------------------
(* VACUUM.                                                                 *)

NoVacuum == [running |-> FALSE, oldestXmin |-> 0, torn |-> FALSE]

\* GetOldestXmin: the oldest running transaction.  Transactions on saved
\* snapshots do not hold it back.
OldestXmin ==
    Min({w \in Xids : InProgress(w) \/ stage[w] = "idle"} \union {NoXid})

VacuumStarts ==
    /\ ~vacuum.running
    /\ vacuum' = [running |-> TRUE, oldestXmin |-> OldestXmin,
                  torn |-> \E w \in Xids : Committing(w)]
    /\ UNCHANGED <<stage, stamp, shared, heap, reader>>

XidIsInvisibleToSomeSavedSnapshot(xid) ==
    CommitMapLookup(xid) # InvalidXStamp

\* HeapTupleSatisfiesVacuum says HEAPTUPLE_DEAD.
Dead(tuple) ==
    \/ DidAbort(tuple.xmin)
    \/ /\ DidCommit(tuple.xmin)
       /\ tuple.xmax # NoXid /\ DidCommit(tuple.xmax)
       /\ tuple.xmax < vacuum.oldestXmin
       /\ ~XidIsInvisibleToSomeSavedSnapshot(tuple.xmax)

VacuumTuple(i) ==
    /\ vacuum.running
    /\ heap[i].slot = "used"
    /\ Dead(heap[i])
    /\ ~(reader.phase = "look" /\ reader.pos = i)   \* its buffer is pinned
    /\ heap' = [heap EXCEPT ![i].slot =
                    IF vacuum.torn THEN "lost" ELSE "freed"]
    /\ UNCHANGED <<stage, stamp, shared, reader, vacuum>>

VacuumEnds ==
    /\ vacuum.running
    /\ vacuum' = NoVacuum
    /\ UNCHANGED <<stage, stamp, shared, heap, reader>>

-----------------------------------------------------------------------------
Init ==
    /\ stage = [w \in Xids |-> "idle"]
    /\ stamp = [w \in Xids |-> InvalidXStamp]
    /\ next = FirstXStamp
    /\ lastSSnap = InvalidXStamp
    /\ earliest = InvalidXStamp
    /\ saved = <<>>
    /\ map = <<>>
    /\ heap = <<[xmin |-> Bootstrap, xmax |-> NoXid, slot |-> "used"]>>
    /\ reader = NoReader
    /\ vacuum = NoVacuum

Writer(w) ==
    \/ StartTransaction(w) \/ heap_insert(w)
    \/ \E i \in DOMAIN heap : heap_delete(w, i)
    \/ AbortTransaction(w) \/ RecordTransactionCommit(w)
    \/ PrepareCommitXStamp(w) \/ GetCommitXStamp(w) \/ CommitMapAdd(w)

Reader ==
    \/ AssignAndPinTransactionSnapshot
    \/ \E id \in DOMAIN saved : SetTransactionXStamp(id)
    \/ ExecutorStart \/ FetchTuple \/ LookUpTuple \/ ExecutorRunEnds
    \/ EndTransaction

Vacuum ==
    \/ VacuumStarts \/ VacuumEnds
    \/ \E i \in DOMAIN heap : VacuumTuple(i)

Next ==
    \/ \E w \in Xids : Writer(w)
    \/ Pin
    \/ \E id \in DOMAIN saved : Unpin(id)
    \/ Reader
    \/ Vacuum

Spec == Init /\ [][Next]_vars

-----------------------------------------------------------------------------
TypeOK ==
    /\ stage \in [Xids -> {"idle", "running", "wrote", "logged", "cleared",
                           "stamped", "done", "aborted"}]
    /\ stamp \in [Xids -> XStamps]
    /\ {next, lastSSnap, earliest} \subseteq XStamps
    /\ DOMAIN saved \subseteq XStamps
    /\ DOMAIN map \subseteq Xids
    /\ \A x \in DOMAIN map : map[x] = stamp[x] /\ map[x] # InvalidXStamp
    /\ earliest = IF saved = <<>> THEN InvalidXStamp ELSE Min(DOMAIN saved)
    /\ reader.xstamp \in DOMAIN saved \union {InvalidXStamp}

\* Whether transaction x is in the snapshot of pin p, by xstamps.
Before(x, p) == x = Bootstrap \/ (x \in Xids /\ stamp[x] \in FirstXStamp .. p)

\* The tuples the query would return at pin p.
RowsAt(p) ==
    {i \in DOMAIN heap : Before(heap[i].xmin, p) /\ ~Before(heap[i].xmax, p)}

NothingLost == \A i \in DOMAIN heap : heap[i].slot # "lost"

\* What is left out below: the present was read in the middle of a commit
\* (ssnap.c GetCommitXStamp, GetNextXStamp), or VACUUM started there and
\* removed a tuple.
Orderly == ~reader.torn /\ NothingLost

\* The pins that the result is promised for and that a transaction can still
\* have: snapshots older than the earliest saved one are gone.
Promised ==
    Max({reader.validity.start, earliest - 1}) .. reader.validity.end - 1

\* An end that the scan found may lie beyond the transaction's start.
PromisedAtStart ==
    {p \in Promised : reader.unbounded \/ p < reader.latest}

(* "SELECT VALIDITY a b" is true up to the transaction's start: at every   *)
(* pin from a the query returns the same tuples, and the transaction's own *)
(* pin is one of them, however commits, PINs, UNPINs and VACUUM interleave *)
(* with the scan.                                                          *)
ValidityTrue ==
    reader.phase = "answered" /\ Orderly =>
        /\ reader.xstamp - 1 \in reader.validity.start .. reader.validity.end - 1
        /\ reader.validity.end <= next
        /\ \A p \in PromisedAtStart : RowsAt(p) = reader.rows

(* "SELECT VALIDITY a b" is true up to b, as README.TXCACHE says: "known   *)
(* to be valid for all snapshots after the commit of transaction 2 but     *)
(* before transaction 5".                                                  *)
ValidityTrueToItsEnd ==
    reader.phase = "answered" /\ Orderly =>
        \A p \in Promised : RowsAt(p) = reader.rows

(* SSnapHashLock makes a saved snapshot and its id agree: it sees exactly  *)
(* the transactions with xstamps below its id, although a transaction      *)
(* leaves the list of running ones before it has its xstamp.               *)
SnapshotsMatchStamps ==
    \A id \in DOMAIN saved : \A w \in Xids :
        w \in saved[id] <=> stamp[w] \in FirstXStamp .. id - 1

(* VACUUM removes no tuple that a saved snapshot sees: the commit map      *)
(* keeps an entry as long as a snapshot is saved that does not see the     *)
(* transaction.  Except when VACUUM started in the middle of a commit.     *)
SavedTuplesKept ==
    \A i \in DOMAIN heap : heap[i].slot = "freed" =>
        \A id \in DOMAIN saved :
            ~(heap[i].xmin \in saved[id] /\ heap[i].xmax \notin saved[id])
=============================================================================
