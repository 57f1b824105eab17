----------------------------- MODULE InvalQueue -----------------------------
(***************************************************************************)
(* The database's side of the invalidation stream: the tags a transaction  *)
(* collects, the shared queue they enter when it commits                   *)
(* (pgsql/.../commands/inval.c), and the NOTIFY that tells the daemon      *)
(* about them (commands/async.c, called from access/transam/xact.c).       *)
(*                                                                         *)
(* AtCommit_Notify signals the listener before the transaction commits and *)
(* keeps pg_listener locked until its end; the listener's backend reads    *)
(* pg_listener under the same lock.                                        *)
(***************************************************************************)
EXTENDS Naturals, Sequences, SequencesExt, FiniteSets

CONSTANTS
    Backends,                   \* sessions that write or PIN
    Tags,                       \* invalidation tags
    TagSets,                    \* what a transaction may invalidate
    NullTag,                    \* the tag column of a null invalidation
    Nobody,                     \* no backend
    MAX_PENDING_INVALIDATIONS,  \* 16384 in the code
    MaxXStamp                   \* bound: NextXStamp at the end

XStampMinusInfinity == 1
FirstXStamp == 2
XStamps == FirstXStamp .. MaxXStamp - 1

ASSUME InvalQueueAssumption ==
    /\ IsFiniteSet(Tags) /\ TagSets \subseteq SUBSET Tags
    /\ NullTag \notin Tags /\ Nobody \notin Backends
    /\ MAX_PENDING_INVALIDATIONS \in Nat
    /\ MaxXStamp \in Nat /\ FirstXStamp < MaxXStamp

VARIABLES
    next,               \* SSnapShared->NextXStamp
    lastInvalidation,
    queue,              \* invalQueue->queue
    txn,                \* the backends' transactions
    listener,           \* the daemon's row of pg_listener, and its lock
    database,           \* "up", or "panic" after it
    committed           \* history: xstamp -> tags

queueVars == <<next, lastInvalidation, queue, txn, listener, database,
               committed>>

Rows == [xstamp : XStamps, tag : Tags \union {NullTag}]

Txns == [phase : {"idle", "active", "pinned", "notified", "committed"},
         wrote : BOOLEAN,               \* XactWrote
         pending : SUBSET Tags,         \* pendingInvalidations
         notify : BOOLEAN,              \* pendingNotifies
         ssnap : 0 .. MaxXStamp]        \* the snapshot it PINned

Idle == [phase |-> "idle", wrote |-> FALSE, pending |-> {}, notify |-> FALSE,
         ssnap |-> 0]

NotListening == [listening |-> FALSE, notification |-> FALSE,
                 signalled |-> FALSE, lock |-> Nobody]

Init ==
    /\ next = FirstXStamp
    /\ lastInvalidation = XStampMinusInfinity
    /\ queue = <<>>
    /\ txn = [b \in Backends |-> Idle]
    /\ listener = NotListening
    /\ database = "up"
    /\ committed = <<>>

Writers == {b \in Backends : txn[b].wrote}

-----------------------------------------------------------------------------
(* A transaction up to its COMMIT.                                         *)

InPhase(b, phase) == database = "up" /\ txn[b].phase = phase

\* The statements of a transaction: what it changes, or invalidates with
\* INVALIDATE, which does not make it a writing one, is its own until it
\* commits (EnqueueInvalidate).  One that does neither is left out.
Statements(b, writes, tags) ==
    /\ InPhase(b, "idle")
    /\ writes \/ tags # {}
    /\ writes => next + Cardinality(Writers) < MaxXStamp    \* bound
    /\ txn' = [txn EXCEPT ![b] = [Idle EXCEPT
                   !.phase = "active", !.wrote = writes,
                   !.pending = tags, !.notify = tags # {}]]
    /\ UNCHANGED <<next, lastInvalidation, queue, listener, database,
                   committed>>

\* The first half of PIN: SaveSnapshot, under SSnapHashLock.
AssignAndPinTransactionSnapshot(b) ==
    /\ InPhase(b, "idle")
    /\ txn' = [txn EXCEPT ![b] = [Idle EXCEPT !.phase = "pinned",
                                              !.ssnap = next]]
    /\ UNCHANGED <<next, lastInvalidation, queue, listener, database,
                   committed>>

\* Mutant: the free list is taken to be endless.
FullNever(n) == FALSE

Full(n) == Len(queue) + n > MAX_PENDING_INVALIDATIONS

\* Mutant: a null invalidation is sent whatever was sent before.
NullNeededAlways(xstamp) == TRUE

NullNeeded(xstamp) == lastInvalidation < xstamp

\* The second half of PIN; when the queue is full PIN fails, with
\* lastInvalidation set already.  Without a null invalidation the rest of
\* the transaction does nothing here.
SendNullInvalidation(b) ==
    LET xstamp == txn[b].ssnap - 1
        sends == xstamp >= FirstXStamp /\ NullNeeded(xstamp)
    IN  /\ InPhase(b, "pinned")
        /\ lastInvalidation' = IF sends THEN xstamp ELSE lastInvalidation
        /\ IF sends /\ ~Full(1)
           THEN queue' = Append(queue, [xstamp |-> xstamp, tag |-> NullTag])
           ELSE UNCHANGED queue
        /\ txn' = [txn EXCEPT ![b] =
                      IF ~sends \/ Full(1) THEN Idle
                      ELSE [Idle EXCEPT !.phase = "active", !.notify = TRUE]]
        /\ UNCHANGED <<next, listener, database, committed>>

-----------------------------------------------------------------------------
(* COMMIT.                                                                 *)

\* Mutant: pg_listener is unlocked once the listener is signalled.
LockedByNobody(b) == Nobody

\* The lock that AtCommit_Notify leaves behind.
LockedBy(b) == b

\* The listener is signalled; that it has a notification becomes visible
\* with the commit.
AtCommit_Notify(b) ==
    /\ InPhase(b, "active") /\ txn[b].notify
    /\ listener.lock = Nobody
    /\ txn' = [txn EXCEPT ![b].phase = "notified"]
    /\ listener' = [listener EXCEPT
           !.lock = LockedBy(b), !.signalled = @ \/ listener.listening]
    /\ UNCHANGED <<next, lastInvalidation, queue, database, committed>>

Unlocked(b) == IF listener.lock = b THEN Nobody ELSE listener.lock

\* AtAbort_Notify drops the notification; the tags go with the transaction.
AbortTransaction(b) ==
    /\ database = "up"
    /\ txn[b].phase \in {"active", "pinned", "notified"}
    /\ txn' = [txn EXCEPT ![b] = Idle]
    /\ listener' = [listener EXCEPT !.lock = Unlocked(b)]
    /\ UNCHANGED <<next, lastInvalidation, queue, database, committed>>

RowsOf(xstamp, tags) ==
    LET order == SetToSeq(tags)
    IN  [i \in 1 .. Len(order) |-> [xstamp |-> xstamp, tag |-> order[i]]]

\* A full queue is an error after the commit record, and a panic.
AtCommit_Invalidate(b) ==
    IF txn[b].pending = {}
    THEN UNCHANGED <<lastInvalidation, queue, database>>
    ELSE /\ lastInvalidation' = next
         /\ IF Full(Cardinality(txn[b].pending))
            THEN database' = "panic" /\ UNCHANGED queue
            ELSE /\ queue' = queue \o RowsOf(next, txn[b].pending)
                 /\ UNCHANGED database

\* RecordTransactionCommit and GetCommitXStamp, the latter under
\* SSnapHashLock; the tags of a transaction that wrote nothing are dropped.
CommitTransaction(b) ==
    /\ InPhase(b, IF txn[b].notify THEN "notified" ELSE "active")
    /\ IF txn[b].wrote
       THEN /\ next' = next + 1
            /\ committed' = Append(committed, txn[b].pending)
            /\ AtCommit_Invalidate(b)
       ELSE UNCHANGED <<next, committed, lastInvalidation, queue, database>>
    /\ txn' = [txn EXCEPT ![b] = IF txn[b].notify
                                 THEN [Idle EXCEPT !.phase = "committed"]
                                 ELSE Idle]
    /\ UNCHANGED listener

\* The rest of CommitTransaction: the end of the lock, with which the
\* listener's row becomes visible.
ReleaseLocks(b) ==
    /\ InPhase(b, "committed")
    /\ txn' = [txn EXCEPT ![b] = Idle]
    /\ listener' = [listener EXCEPT
           !.lock = Unlocked(b),
           !.notification = @ \/ listener.listening]
    /\ UNCHANGED <<next, lastInvalidation, queue, database, committed>>

Backend(b) ==
    \/ \E writes \in BOOLEAN, tags \in TagSets : Statements(b, writes, tags)
    \/ AssignAndPinTransactionSnapshot(b) \/ SendNullInvalidation(b)
    \/ AtCommit_Notify(b) \/ AbortTransaction(b)
    \/ CommitTransaction(b) \/ ReleaseLocks(b)

\* The tags of the transaction with this xstamp.
TagsAt(xstamp) == committed[xstamp - FirstXStamp + 1]
=============================================================================
