---------------------------- MODULE InvaldProofs ----------------------------
(***************************************************************************)
(* That the daemon loses no wakeup, for any number of backends, tags and   *)
(* cache servers and any bounds.                                           *)
(***************************************************************************)
EXTENDS Invald, FiniteSetTheorems, TLAPS

\* More time than the default, which some of the leaves come close to.
USE SMTT(60)

AnyRow == [xstamp : Nat, tag : Tags \union {NullTag}]

\* What the argument needs to know about types.
DatabaseTypes ==
    /\ next \in Nat
    /\ txn \in [Backends -> [phase : {"idle", "active", "pinned", "notified",
                                      "committed"},
                             wrote : BOOLEAN, pending : SUBSET Tags,
                             notify : BOOLEAN, ssnap : Nat]]
    /\ listener \in [listening : BOOLEAN, notification : BOOLEAN,
                     signalled : BOOLEAN, lock : Backends \union {Nobody}]

DaemonTypes ==
    /\ DOMAIN daemon = {"up", "inbox", "outbox", "nodes", "todo", "skipped"}
    /\ daemon.up \in BOOLEAN /\ daemon.inbox \in Nat /\ daemon.skipped \in Nat

WakeupTypes == DatabaseTypes /\ DaemonTypes /\ queue \in Seq(AnyRow)

\* The lock on pg_listener is its holder's from AtCommit_Notify to the end
\* of the transaction.
LockHeld ==
    /\ listener.lock # Nobody =>
           txn[listener.lock].phase \in {"notified", "committed"}
    /\ \A b \in Backends :
           txn[b].phase \in {"notified", "committed"} => listener.lock = b

\* A daemon that is told of a notification, now or when the lock is
\* released, has been signalled and has not looked yet.
SignalKept ==
    /\ daemon.up = listener.listening
    /\ daemon.up /\ (listener.lock # Nobody \/ listener.notification) =>
           listener.signalled

TagsAnnounced == \A b \in Backends : txn[b].pending # {} => txn[b].notify

WakeupInv ==
    WakeupTypes /\ LockHeld /\ SignalKept /\ TagsAnnounced /\ NoLostWakeup

-----------------------------------------------------------------------------
(* The rows that AtCommit_Invalidate queues are a sequence of rows.        *)
LEMMA RowsOfType ==
    ASSUME NEW x \in Nat, NEW tags \in SUBSET Tags
    PROVE  RowsOf(x, tags) \in Seq(AnyRow)
<1> DEFINE order == SetToSeq(tags)
           Orders == {f \in [1 .. Cardinality(tags) -> tags] : IsInjective(f)}
<1>1. IsFiniteSet(tags)
  BY FS_Subset, InvalQueueAssumption
<1>2. Cardinality(tags) \in Nat /\ ExistsBijection(1 .. Cardinality(tags), tags)
  BY <1>1, FS_CardinalityType
<1>3. \E f \in [1 .. Cardinality(tags) -> tags] : IsInjective(f)
  BY <1>2, ZenonT(60) DEF ExistsBijection, Bijection, Injection
<1>4. order \in [1 .. Cardinality(tags) -> tags]
  BY <1>3, ZenonT(60) DEF SetToSeq
<1>5. order \in Seq(tags)
  BY <1>2, <1>4
<1> QED
  BY <1>5 DEF RowsOf, AnyRow

(* Appending rows to the queue.                                            *)
LEMMA CatType ==
    ASSUME NEW S, NEW s \in Seq(S), NEW t \in Seq(S)
    PROVE  s \o t \in Seq(S)
OBVIOUS

(* The initial state: no daemon, nothing queued.                           *)
LEMMA WakeupInit == InvaldInit => WakeupInv
BY DEF InvaldInit, Init, WakeupInv, WakeupTypes, DatabaseTypes, DaemonTypes,
    LockHeld, SignalKept,
       TagsAnnounced, NoLostWakeup, Idle, NotListening, NoDaemon, AnyRow,
       FirstXStamp

(* A backend's step that leaves the queue, the listener and the daemon     *)
(* alone, and other backends too, need only keep its own transaction in    *)
(* order.                                                                  *)
LEMMA OwnStep ==
    ASSUME WakeupInv, NEW b \in Backends,
           UNCHANGED <<listener, database, daemonVars>>,
           next' \in Nat,
           queue' = queue
               \/ \E row \in AnyRow : row.tag = NullTag
                                      /\ queue' = Append(queue, row),
           NEW t \in [phase : {"idle", "active", "pinned"}, wrote : BOOLEAN,
                      pending : SUBSET Tags, notify : BOOLEAN, ssnap : Nat],
           t.pending # {} => t.notify,
           txn[b].phase \in {"idle", "active", "pinned"},
           txn' = [txn EXCEPT ![b] = t]
    PROVE  WakeupInv'
<1> USE DEF WakeupInv, WakeupTypes
<1>1. WakeupTypes'
  <2>1. DatabaseTypes' /\ DaemonTypes'
    BY DEF DatabaseTypes, DaemonTypes, daemonVars
  <2>2. queue' \in Seq(AnyRow)
    OBVIOUS
  <2> QED
    BY <2>1, <2>2
<1>2. LockHeld'
  BY InvalQueueAssumption DEF DatabaseTypes, DaemonTypes, LockHeld
<1>3. SignalKept' /\ TagsAnnounced'
  BY DEF SignalKept, TagsAnnounced, DatabaseTypes, DaemonTypes, daemonVars
<1>4. Waiting' => Waiting
  <2>1. CASE queue' = queue
    BY <2>1 DEF Waiting, daemonVars
  <2>2. CASE queue' # queue
    <3>1. PICK row \in AnyRow : row.tag = NullTag /\ queue' = Append(queue, row)
      BY <2>2
    <3>2. queue \in Seq(AnyRow) /\ daemon.skipped \in Nat /\ daemon' = daemon
      BY DEF DatabaseTypes, DaemonTypes, daemonVars
    <3> QED
      BY <3>1, <3>2 DEF Waiting
  <2> QED
    BY <2>1, <2>2
<1>5. Announced => Announced'
  BY DEF Announced, daemonVars, DatabaseTypes, DaemonTypes
<1> QED
  BY <1>1, <1>2, <1>3, <1>4, <1>5 DEF NoLostWakeup, daemonVars

(* The steps of a backend.                                                 *)
LEMMA BackendStep ==
    ASSUME WakeupInv, NEW b \in Backends, Backend(b), UNCHANGED daemonVars
    PROVE  WakeupInv'
<1> USE DEF WakeupInv, WakeupTypes
<1>1. ASSUME NEW writes \in BOOLEAN, NEW tags \in TagSets,
             Statements(b, writes, tags)
      PROVE  WakeupInv'
  <2> DEFINE t == [Idle EXCEPT !.phase = "active", !.wrote = writes,
                               !.pending = tags, !.notify = tags # {}]
  <2>1. t \in [phase : {"idle", "active", "pinned"}, wrote : BOOLEAN,
               pending : SUBSET Tags, notify : BOOLEAN, ssnap : Nat]
        /\ (t.pending # {} => t.notify)
    BY InvalQueueAssumption, ZenonT(60) DEF Idle
  <2>2. txn' = [txn EXCEPT ![b] = t] /\ txn[b].phase = "idle"
        /\ UNCHANGED <<next, queue, listener, database>>
    BY <1>1 DEF Statements, InPhase
  <2> HIDE DEF t
  <2> QED
    BY <2>1, <2>2, OwnStep, ZenonT(60) DEF DatabaseTypes, DaemonTypes
<1>2. CASE AssignAndPinTransactionSnapshot(b)
  <2> DEFINE t == [Idle EXCEPT !.phase = "pinned", !.ssnap = next]
  <2>1. t \in [phase : {"idle", "active", "pinned"}, wrote : BOOLEAN,
               pending : SUBSET Tags, notify : BOOLEAN, ssnap : Nat]
        /\ (t.pending # {} => t.notify)
    BY ZenonT(60) DEF Idle, DatabaseTypes, DaemonTypes
  <2>2. txn' = [txn EXCEPT ![b] = t] /\ txn[b].phase = "idle"
        /\ UNCHANGED <<next, queue, listener, database>>
    BY <1>2 DEF AssignAndPinTransactionSnapshot, InPhase
  <2> HIDE DEF t
  <2> QED
    BY <2>1, <2>2, OwnStep, ZenonT(60) DEF DatabaseTypes, DaemonTypes
<1>3. CASE SendNullInvalidation(b)
  <2> DEFINE xstamp == txn[b].ssnap - 1
             sends == xstamp >= FirstXStamp /\ NullNeeded(xstamp)
             t == IF ~sends \/ Full(1) THEN Idle
                  ELSE [Idle EXCEPT !.phase = "active", !.notify = TRUE]
             row == [xstamp |-> xstamp, tag |-> NullTag]
  <2>1. t \in [phase : {"idle", "active", "pinned"}, wrote : BOOLEAN,
               pending : SUBSET Tags, notify : BOOLEAN, ssnap : Nat]
        /\ (t.pending # {} => t.notify)
    BY ZenonT(60) DEF Idle
  <2>2. txn' = [txn EXCEPT ![b] = t] /\ txn[b].phase = "pinned"
        /\ UNCHANGED <<next, listener, database>>
    BY <1>3 DEF SendNullInvalidation, InPhase
  <2>3. queue' = queue \/ (sends /\ queue' = Append(queue, row))
    BY <1>3 DEF SendNullInvalidation
  <2>4. sends => row \in AnyRow
    BY DEF AnyRow, DatabaseTypes, DaemonTypes, FirstXStamp
  <2>5. row.tag = NullTag
    OBVIOUS
  <2> HIDE DEF t, sends, row
  <2> QED
    BY <2>1, <2>2, <2>3, <2>4, <2>5, OwnStep, ZenonT(60)
    DEF DatabaseTypes, DaemonTypes
<1>4. CASE AtCommit_Notify(b)
  <2>1. /\ txn[b].phase = "active" /\ txn[b].notify /\ listener.lock = Nobody
        /\ txn' = [txn EXCEPT ![b].phase = "notified"]
        /\ listener' = [listener EXCEPT !.lock = b,
                            !.signalled = @ \/ listener.listening]
        /\ UNCHANGED <<next, queue, database, daemonVars>>
    BY <1>4 DEF AtCommit_Notify, InPhase, LockedBy
  <2>2. WakeupTypes'
    <3>1. DatabaseTypes'
      <4>1. txn' \in [Backends -> [phase : {"idle", "active", "pinned",
                                            "notified", "committed"},
                                   wrote : BOOLEAN, pending : SUBSET Tags,
                                   notify : BOOLEAN, ssnap : Nat]]
        BY <2>1, ZenonT(60) DEF DatabaseTypes
      <4>2. listener' \in [listening : BOOLEAN, notification : BOOLEAN,
                           signalled : BOOLEAN, lock : Backends \union {Nobody}]
        BY <2>1, Zenon DEF DatabaseTypes
      <4> QED
        BY <2>1, <4>1, <4>2, ZenonT(60) DEF DatabaseTypes
    <3>2. DaemonTypes'
      BY <2>1 DEF DaemonTypes, daemonVars
    <3>3. queue' \in Seq(AnyRow)
      BY <2>1
    <3> QED
      BY <3>1, <3>2, <3>3
  <2>3. LockHeld'
    BY <2>1, InvalQueueAssumption DEF DatabaseTypes, DaemonTypes, LockHeld
  <2>4. SignalKept' /\ TagsAnnounced'
    BY <2>1
    DEF SignalKept, TagsAnnounced, DatabaseTypes, DaemonTypes, daemonVars
  <2>5. (Waiting' <=> Waiting) /\ (Announced => Announced')
    BY <2>1, InvalQueueAssumption
    DEF Waiting, Announced, daemonVars, DatabaseTypes, DaemonTypes
  <2> QED
    BY <2>1, <2>2, <2>3, <2>4, <2>5 DEF NoLostWakeup, daemonVars
<1>5. CASE AbortTransaction(b)
  <2>1. /\ txn[b].phase \in {"active", "pinned", "notified"}
        /\ txn' = [txn EXCEPT ![b] = Idle]
        /\ listener' = [listener EXCEPT !.lock = Unlocked(b)]
        /\ UNCHANGED <<next, queue, database, daemonVars>>
    BY <1>5 DEF AbortTransaction
  <2>2. WakeupTypes'
    <3>1. DatabaseTypes'
      BY <2>1, ZenonT(60) DEF DatabaseTypes, daemonVars, Idle, Unlocked
    <3>2. DaemonTypes'
      BY <2>1 DEF DaemonTypes, daemonVars, Idle, Unlocked
    <3>3. queue' \in Seq(AnyRow)
      BY <2>1
    <3> QED
      BY <3>1, <3>2, <3>3
  <2>3. LockHeld'
    BY <2>1, InvalQueueAssumption
    DEF DatabaseTypes, DaemonTypes, LockHeld, Idle, Unlocked
  <2>4. SignalKept' /\ TagsAnnounced'
    BY <2>1
    DEF SignalKept, TagsAnnounced, DatabaseTypes, DaemonTypes, daemonVars,
        Idle, Unlocked
  <2>5. (Waiting' <=> Waiting) /\ (Announced => Announced')
    BY <2>1, InvalQueueAssumption
    DEF Waiting, Announced, daemonVars, DatabaseTypes, DaemonTypes, Unlocked,
        LockHeld
  <2> QED
    BY <2>1, <2>2, <2>3, <2>4, <2>5 DEF NoLostWakeup, daemonVars
<1>6. CASE CommitTransaction(b)
  <2> DEFINE rows == RowsOf(next, txn[b].pending)
  <2>1. /\ txn[b].phase = (IF txn[b].notify THEN "notified" ELSE "active")
        /\ txn' = [txn EXCEPT ![b] = IF txn[b].notify
                                     THEN [Idle EXCEPT !.phase = "committed"]
                                     ELSE Idle]
        /\ UNCHANGED <<listener, daemonVars>>
        /\ next' = next \/ next' = next + 1
    BY <1>6 DEF CommitTransaction, InPhase
  <2>2. /\ database = "up"
        /\ database' \in {database, "panic"}
        /\ queue' = queue \/ (txn[b].pending # {} /\ queue' = queue \o rows)
    BY <1>6 DEF CommitTransaction, AtCommit_Invalidate, InPhase
  <2>3. rows \in Seq(AnyRow)
    BY RowsOfType DEF DatabaseTypes, DaemonTypes
  <2> HIDE DEF rows
  <2>4. WakeupTypes'
    <3>1. queue' \in Seq(AnyRow)
      <4>1. queue \in Seq(AnyRow)
        OBVIOUS
      <4> QED
        BY <2>2, <2>3, <4>1, ZenonT(60), CatType
    <3>2. DatabaseTypes'
      <4> DEFINE t == IF txn[b].notify THEN [Idle EXCEPT !.phase = "committed"]
                      ELSE Idle
      <4>1. t \in [phase : {"idle", "active", "pinned", "notified",
                            "committed"},
                   wrote : BOOLEAN, pending : SUBSET Tags,
                   notify : BOOLEAN, ssnap : Nat]
        BY ZenonT(60) DEF Idle
      <4>2. txn' = [txn EXCEPT ![b] = t] /\ listener' = listener
        BY <2>1
      <4>3. next' \in Nat
        BY <2>1 DEF DatabaseTypes
      <4> HIDE DEF t
      <4> QED
        BY <4>1, <4>2, <4>3 DEF DatabaseTypes
    <3>3. DaemonTypes'
      BY <2>1 DEF DaemonTypes, daemonVars
    <3> QED
      BY <3>1, <3>2, <3>3
  <2>5. LockHeld'
    BY <2>1, InvalQueueAssumption
    DEF DatabaseTypes, DaemonTypes, LockHeld, Idle
  <2>6. SignalKept' /\ TagsAnnounced'
    BY <2>1
    DEF SignalKept, TagsAnnounced, DatabaseTypes, DaemonTypes, daemonVars, Idle
  <2>7. NoLostWakeup'
    <3>1. CASE txn[b].notify
      <4>1. listener'.lock = b /\ txn'[b].phase = "committed"
        BY <2>1, <3>1 DEF LockHeld, DatabaseTypes, DaemonTypes, Idle
      <4>2. daemon'.up => listener'.signalled
        BY <2>1, <4>1, InvalQueueAssumption DEF SignalKept, daemonVars
      <4> QED
        BY <4>1, <4>2 DEF NoLostWakeup, Announced
    <3>2. CASE ~txn[b].notify
      <4>1. queue' = queue
        BY <2>2, <3>2 DEF TagsAnnounced
      <4>2. (Waiting' <=> Waiting) /\ (Announced => Announced')
        BY <2>1, <3>2, <4>1
        DEF Waiting, Announced, daemonVars, DatabaseTypes, DaemonTypes
      <4> QED
        BY <2>1, <2>2, <4>2 DEF NoLostWakeup, daemonVars
    <3> QED
      BY <3>1, <3>2 DEF DatabaseTypes, DaemonTypes
  <2> QED
    BY <2>4, <2>5, <2>6, <2>7
<1>7. CASE ReleaseLocks(b)
  <2>1. /\ txn[b].phase = "committed"
        /\ txn' = [txn EXCEPT ![b] = Idle]
        /\ listener' = [listener EXCEPT !.lock = Unlocked(b),
                            !.notification = @ \/ listener.listening]
        /\ UNCHANGED <<next, queue, database, daemonVars>>
    BY <1>7 DEF ReleaseLocks, InPhase
  <2>2. WakeupTypes'
    <3>1. DatabaseTypes'
      BY <2>1, ZenonT(60) DEF DatabaseTypes, daemonVars, Idle, Unlocked
    <3>2. DaemonTypes'
      BY <2>1 DEF DaemonTypes, daemonVars, Idle, Unlocked
    <3>3. queue' \in Seq(AnyRow)
      BY <2>1
    <3> QED
      BY <3>1, <3>2, <3>3
  <2>3. LockHeld'
    BY <2>1, InvalQueueAssumption
    DEF DatabaseTypes, DaemonTypes, LockHeld, Idle, Unlocked
  <2>4. SignalKept' /\ TagsAnnounced'
    BY <2>1, InvalQueueAssumption
    DEF SignalKept, TagsAnnounced, DatabaseTypes, DaemonTypes, daemonVars,
        Idle, Unlocked, LockHeld
  <2>5. (Waiting' <=> Waiting) /\ (daemon.up /\ Announced => Announced')
    BY <2>1, InvalQueueAssumption
    DEF Waiting, Announced, daemonVars, DatabaseTypes, DaemonTypes, Unlocked,
        LockHeld, SignalKept
  <2> QED
    BY <2>1, <2>2, <2>3, <2>4, <2>5 DEF NoLostWakeup, daemonVars
<1> QED
  BY <1>1, <1>2, <1>3, <1>4, <1>5, <1>6, <1>7 DEF Backend

(* The daemon starts: all there is in the queue was notified of before.    *)
LEMMA SetupStep ==
    ASSUME WakeupInv, NEW reached \in SUBSET Nodes, Invald_Setup(reached)
    PROVE  WakeupInv'
<1> USE DEF WakeupInv, WakeupTypes
<1>1. /\ listener.lock = Nobody
      /\ listener' = [NotListening EXCEPT !.listening = TRUE]
      /\ daemon' = [NoDaemon EXCEPT !.up = TRUE, !.nodes = reached,
                                    !.skipped = Len(queue)]
      /\ UNCHANGED <<next, queue, txn, database>>
  BY DEF Invald_Setup
<1>2. /\ DOMAIN daemon' = {"up", "inbox", "outbox", "nodes", "todo", "skipped"}
      /\ daemon'.up = TRUE /\ daemon'.up \in BOOLEAN
      /\ daemon'.inbox = 0 /\ daemon'.skipped = Len(queue)
  BY <1>1 DEF NoDaemon
<1>3. listener' = [listening |-> TRUE, notification |-> FALSE,
                   signalled |-> FALSE, lock |-> Nobody]
  BY <1>1, ZenonT(60) DEF NotListening
<1>4. queue' = queue /\ txn' = txn /\ next' = next /\ listener.lock = Nobody
  BY <1>1
<1> HIDE <1>1
<1>5. DaemonTypes'
  <2>1. Len(queue) \in Nat
    OBVIOUS
  <2> QED
    BY <1>2, <2>1 DEF DaemonTypes
<1>6. DatabaseTypes'
  BY <1>3, <1>4 DEF DatabaseTypes
<1>7. LockHeld' /\ SignalKept' /\ TagsAnnounced'
  BY <1>2, <1>3, <1>4, ZenonT(60) DEF LockHeld, SignalKept, TagsAnnounced
<1>8. ~Waiting'
  BY <1>2, <1>4 DEF Waiting
<1> QED
  BY <1>4, <1>5, <1>6, <1>7, <1>8 DEF NoLostWakeup

(* The daemon's backend looks at pg_listener: the lock is free, so nobody  *)
(* is between the signal and the end of the transaction.                   *)
LEMMA NotifyStep ==
    ASSUME WakeupInv, ProcessIncomingNotify
    PROVE  WakeupInv'
<1> USE DEF WakeupInv, WakeupTypes
<1> DEFINE inbox == IF listener.notification THEN daemon.inbox + 1
                    ELSE daemon.inbox
<1>1. /\ daemon.up /\ listener.lock = Nobody
      /\ listener' = [listener EXCEPT !.signalled = FALSE,
                                      !.notification = FALSE]
      /\ daemon' = [daemon EXCEPT !.inbox = inbox]
      /\ next' = next /\ queue' = queue /\ txn' = txn /\ database' = database
  BY DEF ProcessIncomingNotify
<1>2. inbox \in Nat /\ (inbox = daemon.inbox \/ inbox > 0)
      /\ (listener.notification => inbox > 0)
  BY DEF DaemonTypes
<1> HIDE DEF inbox
<1>3. /\ DOMAIN daemon' = {"up", "inbox", "outbox", "nodes", "todo", "skipped"}
      /\ daemon'.up = daemon.up /\ daemon'.inbox = inbox
      /\ daemon'.skipped = daemon.skipped
  BY <1>1, ZenonT(60) DEF DaemonTypes
<1>4. /\ listener' \in [listening : BOOLEAN, notification : BOOLEAN,
                        signalled : BOOLEAN, lock : Backends \union {Nobody}]
      /\ listener'.listening = listener.listening /\ listener'.lock = Nobody
      /\ ~listener'.notification
  BY <1>1, ZenonT(60) DEF DatabaseTypes
<1>5. DaemonTypes'
  BY <1>2, <1>3 DEF DaemonTypes
<1>6. DatabaseTypes'
  BY <1>1, <1>4 DEF DatabaseTypes
<1>7. LockHeld' /\ SignalKept' /\ TagsAnnounced'
  BY <1>1, <1>3, <1>4, ZenonT(60) DEF LockHeld, SignalKept, TagsAnnounced
<1>8. (Waiting' <=> Waiting) /\ (Announced => Announced')
  BY <1>1, <1>2, <1>3, InvalQueueAssumption DEF Waiting, Announced
<1> QED
  BY <1>1, <1>3, <1>5, <1>6, <1>7, <1>8 DEF NoLostWakeup

(* The daemon reads the queue and clears it.                               *)
LEMMA ReadQueueStep ==
    ASSUME WakeupInv, InvaldProcessNotification
    PROVE  WakeupInv'
<1> USE DEF WakeupInv, WakeupTypes
<1>1. /\ daemon.inbox > 0
      /\ daemon' = [daemon EXCEPT !.inbox = @ - 1, !.outbox = Grouped(queue),
                                  !.todo = daemon.nodes, !.skipped = 0]
      /\ queue' = <<>> /\ next' = next /\ txn' = txn /\ listener' = listener
  BY DEF InvaldProcessNotification
<1>2. /\ DOMAIN daemon' = {"up", "inbox", "outbox", "nodes", "todo", "skipped"}
      /\ daemon'.up = daemon.up /\ daemon'.inbox = daemon.inbox - 1
      /\ daemon'.skipped = 0
  BY <1>1, ZenonT(60) DEF DaemonTypes
<1>3. daemon.inbox > 0 /\ queue' = <<>> /\ next' = next /\ txn' = txn
      /\ listener' = listener
  BY <1>1
<1> HIDE <1>1
<1>4. DaemonTypes'
  BY <1>2, <1>3 DEF DaemonTypes
<1>5. DatabaseTypes' /\ LockHeld' /\ SignalKept' /\ TagsAnnounced'
  BY <1>2, <1>3 DEF DatabaseTypes, LockHeld, SignalKept, TagsAnnounced
<1>6. ~Waiting'
  BY <1>2, <1>3 DEF Waiting
<1> QED
  BY <1>3, <1>4, <1>5, <1>6 DEF NoLostWakeup

(* The daemon's death takes its row of pg_listener with it.                *)
LEMMA DeathStep ==
    ASSUME WakeupInv, NEW arrives \in SUBSET Nodes, Dies(arrives)
    PROVE  WakeupInv'
<1> USE DEF WakeupInv, WakeupTypes
<1>1. /\ DOMAIN daemon' = {"up", "inbox", "outbox", "nodes", "todo", "skipped"}
      /\ daemon'.up = FALSE /\ daemon'.up \in BOOLEAN
      /\ daemon'.inbox = 0 /\ daemon'.skipped = 0
  BY DEF Dies, NoDaemon
<1>2. /\ listener' = [listening |-> FALSE, notification |-> FALSE,
                      signalled |-> FALSE, lock |-> listener.lock]
      /\ queue' = queue /\ txn' = txn /\ next' = next
  BY ZenonT(60) DEF Dies, NotListening
<1>3. DaemonTypes' /\ DatabaseTypes'
  <2>1. DaemonTypes'
    BY <1>1 DEF DaemonTypes
  <2>2. DatabaseTypes'
    BY <1>2 DEF DatabaseTypes
  <2> QED
    BY <2>1, <2>2
<1>4. LockHeld' /\ SignalKept' /\ TagsAnnounced' /\ NoLostWakeup'
  BY <1>1, <1>2, ZenonT(60)
     DEF LockHeld, SignalKept, TagsAnnounced, NoLostWakeup
<1> QED
  BY <1>2, <1>3, <1>4

(* Sending, the network's steps and stuttering ones touch nothing of it.   *)
LEMMA QuietStep ==
    ASSUME WakeupInv, UNCHANGED queueVars,
           DOMAIN daemon' = DOMAIN daemon, daemon'.up = daemon.up,
           daemon'.inbox = daemon.inbox, daemon'.skipped = daemon.skipped
    PROVE  WakeupInv'
BY DEF WakeupInv, WakeupTypes, DatabaseTypes, DaemonTypes, LockHeld,
       SignalKept, TagsAnnounced, NoLostWakeup, Waiting, Announced, queueVars

(* The daemon misses no change that was queued while it listened: between  *)
(* the signal of AtCommit_Notify and the rows of AtCommit_Invalidate the   *)
(* lock on pg_listener keeps it from looking too early.                    *)
THEOREM WakeupsKept == Spec => []NoLostWakeup
<1>1. WakeupInv /\ [Next]_vars => WakeupInv'
  <2> SUFFICES ASSUME WakeupInv, [Next]_vars
               PROVE  WakeupInv'
    OBVIOUS
  <2>1. ASSUME NEW b \in Backends, Backend(b), UNCHANGED daemonVars
        PROVE  WakeupInv'
    BY <2>1, BackendStep
  <2>2. ASSUME NEW n \in Nodes, SendTo(n)
        PROVE  WakeupInv'
    <3>1. daemon' = [daemon EXCEPT !.todo = @ \ {n}] /\ UNCHANGED queueVars
      BY <2>2 DEF SendTo
    <3> QED
      BY <3>1, QuietStep DEF WakeupInv, WakeupTypes, DaemonTypes
  <2>3. CASE NoticeSent
    <3>1. daemon' = [daemon EXCEPT !.outbox = Tail(@), !.todo = daemon.nodes]
          /\ UNCHANGED queueVars
      BY <2>3 DEF NoticeSent
    <3> QED
      BY <3>1, QuietStep DEF WakeupInv, WakeupTypes, DaemonTypes
  <2>4. ASSUME NEW n \in Nodes, Deliver(n) \/ Break(n)
        PROVE  WakeupInv'
    BY <2>4, QuietStep DEF Deliver, Break
  <2>5. CASE UNCHANGED vars
    BY <2>5, QuietStep DEF vars, daemonVars
  <2>6. ASSUME NEW n \in Nodes, NEW arrives \in SUBSET Nodes,
               SendPanics(n, arrives)
        PROVE  WakeupInv'
    BY <2>6, DeathStep DEF SendPanics
  <2>7. ASSUME NEW arrives \in SUBSET Nodes, Killed(arrives)
        PROVE  WakeupInv'
    BY <2>7, DeathStep DEF Killed
  <2> QED
    BY <2>1, <2>2, <2>3, <2>4, <2>5, <2>6, <2>7, SetupStep, NotifyStep,
       ReadQueueStep DEF Next
<1>2. WakeupInv => NoLostWakeup
  BY DEF WakeupInv
<1> QED
  BY WakeupInit, <1>1, <1>2, PTL DEF Spec
=============================================================================
