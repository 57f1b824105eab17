------------------------------- MODULE Invald -------------------------------
(***************************************************************************)
(* The invalidation daemon (invald/invald.c) between the database's queue  *)
(* and the cache servers: it waits for notifications, reads and clears the *)
(* queue, and sends one notice per transaction to every server it has      *)
(* connected to (server/proxy.c ServerProxy_Invalidate).                   *)
(***************************************************************************)
EXTENDS InvalQueue

CONSTANTS
    Nodes,          \* cache servers in the nodes file
    MaxInbox        \* bound: notifications that wait for the daemon

ASSUME InvaldAssumption == MaxInbox \in Nat

VARIABLES
    daemon,         \* the process
    conn,           \* per server, the daemon's connection to it
    wire,           \* per server, notices on their way
    got,            \* per server, the notices it was given (history)
    cleared,        \* history: the last xstamp read from the queue
    since           \* history, per server: cleared when it was connected

daemonVars == <<daemon, conn, wire, got, cleared, since>>
vars == <<queueVars, daemonVars>>

NoDaemon == [up |-> FALSE, inbox |-> 0, outbox |-> <<>>, nodes |-> {},
             todo |-> {}, skipped |-> 0]

InvaldInit ==
    /\ Init
    /\ daemon = NoDaemon
    /\ conn = [n \in Nodes |-> "closed"]
    /\ wire = [n \in Nodes |-> <<>>]
    /\ got = [n \in Nodes |-> <<>>]
    /\ cleared = XStampMinusInfinity
    /\ since = [n \in Nodes |-> XStampMinusInfinity]

-----------------------------------------------------------------------------
\* LISTEN, and a connection to every server that answers; without one the
\* daemon gives up.  What the queue holds (skipped) has been notified of.
Invald_Setup(reached) ==
    /\ database = "up" /\ ~daemon.up /\ listener.lock = Nobody
    /\ reached # {}
    /\ listener' = [NotListening EXCEPT !.listening = TRUE]
    /\ daemon' = [NoDaemon EXCEPT !.up = TRUE, !.nodes = reached,
                                  !.skipped = Len(queue)]
    /\ conn' = [n \in Nodes |-> IF n \in reached THEN "open" ELSE "closed"]
    /\ since' = [n \in Nodes |-> IF n \in reached THEN cleared ELSE since[n]]
    /\ UNCHANGED <<next, lastInvalidation, queue, txn, database, committed,
                   wire, got, cleared>>

\* The daemon's backend, which needs pg_listener's lock, passes a
\* notification on.
ProcessIncomingNotify ==
    /\ database = "up" /\ daemon.up
    /\ listener.signalled /\ listener.lock = Nobody
    /\ daemon.inbox < MaxInbox      \* bound
    /\ listener' = [listener EXCEPT !.signalled = FALSE,
                                    !.notification = FALSE]
    /\ daemon' = [daemon EXCEPT
           !.inbox = IF listener.notification THEN @ + 1 ELSE @]
    /\ UNCHANGED <<next, lastInvalidation, queue, txn, database, committed,
                   conn, wire, got, cleared, since>>

TagSet(row) == IF row.tag = NullTag THEN {} ELSE {row.tag}

\* Mutant: every row is a notice of its own.
AddRowAlone(notices, row) ==
    Append(notices, [pin |-> row.xstamp, tags |-> TagSet(row)])

\* Consecutive rows of one xstamp make one notice.
AddRow(notices, row) ==
    IF notices # <<>> /\ Last(notices).pin = row.xstamp
    THEN [notices EXCEPT ![Len(notices)].tags = @ \union TagSet(row)]
    ELSE Append(notices, [pin |-> row.xstamp, tags |-> TagSet(row)])

\* Mutant: a notice is not sent when the next one begins.
GroupedLastOnly(rows) ==
    IF rows = <<>> THEN <<>> ELSE <<Last(FoldLeft(AddRow, <<>>, rows))>>

Grouped(rows) == FoldLeft(AddRow, <<>>, rows)

\* SELECT ... FROM pg_invalidations (pg_get_and_clear_invalidations).  No
\* rows is "perfectly fine".
InvaldProcessNotification ==
    /\ database = "up" /\ daemon.up
    /\ daemon.inbox > 0 /\ daemon.outbox = <<>>
    /\ daemon' = [daemon EXCEPT !.inbox = @ - 1, !.outbox = Grouped(queue),
                                !.todo = daemon.nodes, !.skipped = 0]
    /\ queue' = <<>>
    /\ cleared' = IF queue = <<>> THEN cleared ELSE Last(queue).xstamp
    /\ UNCHANGED <<next, lastInvalidation, txn, listener, database,
                   committed, conn, wire, got, since>>

\* The process ends; what it wrote to the sockets of some servers arrives.
Dies(arrives) ==
    /\ daemon' = NoDaemon
    /\ listener' = [NotListening EXCEPT !.lock = listener.lock]
    /\ conn' = [n \in Nodes |-> "closed"]
    /\ wire' = [n \in Nodes |-> IF n \in arrives THEN wire[n] ELSE <<>>]
    /\ UNCHANGED <<next, lastInvalidation, queue, txn, database, committed,
                   got, cleared, since>>

\* Mutant: the notice stays in the connection's buffer.
SendToUnsent(n) ==
    /\ daemon.up /\ daemon.outbox # <<>> /\ n \in daemon.todo
    /\ conn[n] = "open"
    /\ daemon' = [daemon EXCEPT !.todo = @ \ {n}]
    /\ UNCHANGED <<queueVars, conn, wire, got, cleared, since>>

\* SendInvalidationNotice: the next notice to one of the servers; a send
\* that fails releases the connection, and the next notice for a released
\* one panics.
SendTo(n) ==
    /\ daemon.up /\ daemon.outbox # <<>> /\ n \in daemon.todo
    /\ \/ /\ conn[n] = "open"
          /\ wire' = [wire EXCEPT ![n] = Append(@, Head(daemon.outbox))]
          /\ UNCHANGED conn
       \/ /\ conn[n] = "broken"
          /\ conn' = [conn EXCEPT ![n] = "closed"]
          /\ UNCHANGED wire
    /\ daemon' = [daemon EXCEPT !.todo = @ \ {n}]
    /\ UNCHANGED <<queueVars, got, cleared, since>>

SendPanics(n, arrives) ==
    /\ daemon.up /\ daemon.outbox # <<>> /\ n \in daemon.todo
    /\ conn[n] = "closed"
    /\ Dies(arrives)

NoticeSent ==
    /\ daemon.up /\ daemon.outbox # <<>> /\ daemon.todo = {}
    /\ daemon' = [daemon EXCEPT !.outbox = Tail(@), !.todo = daemon.nodes]
    /\ UNCHANGED <<queueVars, conn, wire, got, cleared, since>>

Killed(arrives) == daemon.up /\ Dies(arrives)

-----------------------------------------------------------------------------
Deliver(n) ==
    /\ wire[n] # <<>>
    /\ got' = [got EXCEPT ![n] = Append(@, Head(wire[n]))]
    /\ wire' = [wire EXCEPT ![n] = Tail(@)]
    /\ UNCHANGED <<queueVars, daemon, conn, cleared, since>>

\* The connection breaks with what is on its way.
Break(n) ==
    /\ conn[n] = "open"
    /\ conn' = [conn EXCEPT ![n] = "broken"]
    /\ wire' = [wire EXCEPT ![n] = <<>>]
    /\ UNCHANGED <<queueVars, daemon, got, cleared, since>>

Next ==
    \/ \E b \in Backends : Backend(b) /\ UNCHANGED daemonVars
    \/ \E reached \in SUBSET Nodes : Invald_Setup(reached)
    \/ ProcessIncomingNotify
    \/ InvaldProcessNotification
    \/ \E n \in Nodes : SendTo(n)
    \/ \E n \in Nodes, arrives \in SUBSET Nodes : SendPanics(n, arrives)
    \/ NoticeSent
    \/ \E arrives \in SUBSET Nodes : Killed(arrives)
    \/ \E n \in Nodes : Deliver(n) \/ Break(n)

Spec == InvaldInit /\ [][Next]_vars

\* A COMMIT under way goes on, and so do the daemon and the network; the
\* lock manager serves those who wait in turn.
Fairness ==
    /\ \A b \in Backends :
           WF_vars((CommitTransaction(b) \/ ReleaseLocks(b))
                   /\ UNCHANGED daemonVars)
    /\ SF_vars(ProcessIncomingNotify)
    /\ WF_vars(InvaldProcessNotification)
    /\ \A n \in Nodes : WF_vars(SendTo(n)) /\ WF_vars(Deliver(n))
    /\ WF_vars(NoticeSent)
    /\ WF_vars(\E n \in Nodes, arrives \in SUBSET Nodes : SendPanics(n, arrives))

FairSpec == Spec /\ Fairness

-----------------------------------------------------------------------------
Notices == [pin : XStamps, tags : SUBSET Tags]

TypeOK ==
    /\ next \in FirstXStamp .. MaxXStamp
    /\ lastInvalidation \in XStampMinusInfinity .. MaxXStamp - 1
    /\ queue \in Seq(Rows) /\ Len(queue) <= MAX_PENDING_INVALIDATIONS
    /\ txn \in [Backends -> Txns]
    /\ listener \in [listening : BOOLEAN, notification : BOOLEAN,
                     signalled : BOOLEAN, lock : Backends \union {Nobody}]
    /\ database \in {"up", "panic"}
    /\ committed \in Seq(SUBSET Tags) /\ Len(committed) = next - FirstXStamp
    /\ daemon \in [up : BOOLEAN, inbox : 0 .. MaxInbox,
                   outbox : Seq(Notices), nodes : SUBSET Nodes,
                   todo : SUBSET Nodes, skipped : Nat]
    /\ conn \in [Nodes -> {"open", "broken", "closed"}]
    /\ wire \in [Nodes -> Seq(Notices)] /\ got \in [Nodes -> Seq(Notices)]
    /\ cleared \in XStampMinusInfinity .. MaxXStamp - 1
    /\ since \in [Nodes -> XStampMinusInfinity .. MaxXStamp - 1]

(* A notice carries all the tags of its transaction and no other's: the    *)
(* tags enter the queue and leave it together, a null invalidation stands  *)
(* for a transaction without tags, although PIN computes its xstamp before *)
(* it takes InvalidationLock.                                              *)
NoticesWhole ==
    \A n \in Nodes : \A i \in 1 .. Len(got[n]) :
        LET notice == got[n][i]
        IN  notice.pin < next /\ notice.tags = TagsAt(notice.pin)

(* Every server gets its notices in the order of their pins and none       *)
(* twice, whatever happens to daemons and connections in between.          *)
NoticesInOrder ==
    \A n \in Nodes : \A i, j \in 1 .. Len(got[n]) :
        i < j => got[n][i].pin < got[n][j].pin

(* A server that is connected has missed nothing since it was: once it     *)
(* knows of some pin, it has been given every earlier notice with tags.    *)
NoGaps ==
    \A n \in Nodes : conn[n] = "open" =>
        \A i \in 1 .. Len(got[n]) : \A x \in since[n] + 1 .. got[n][i].pin - 1 :
            TagsAt(x) # {} => \E j \in 1 .. Len(got[n]) : got[n][j].pin = x

\* A tag that a transaction queued since the daemon has been listening.
Waiting == \E i \in daemon.skipped + 1 .. Len(queue) : queue[i].tag # NullTag

\* The daemon is about to hear of the queue.
Announced ==
    \/ daemon.inbox > 0
    \/ listener.signalled /\ listener.notification
    \/ \E b \in Backends : listener.lock = b /\ txn[b].phase = "committed"
                            /\ listener.signalled

(* No wakeup is lost: although the daemon is signalled before the tags are *)
(* in the queue, it reads the queue after them, thanks to the lock on      *)
(* pg_listener.                                                            *)
NoLostWakeup == daemon.up /\ database = "up" /\ Waiting => Announced

InQueue(x) ==
    \E i \in daemon.skipped + 1 .. Len(queue) :
        queue[i].xstamp = x /\ queue[i].tag # NullTag

Has(n, x) == \E i \in 1 .. Len(got[n]) : got[n][i].pin = x

(* A committed change reaches every connected server, or the connection,   *)
(* the daemon or the database fails first.                                 *)
ChangesDelivered ==
    \A n \in Nodes, x \in XStamps :
        daemon.up /\ conn[n] = "open" /\ InQueue(x)
            ~> Has(n, x) \/ conn[n] # "open" \/ ~daemon.up \/ database = "panic"
=============================================================================
