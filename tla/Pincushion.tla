----------------------------- MODULE Pincushion -----------------------------
(***************************************************************************)
(* The pincushion daemon (pincushion/pincushion.c over PinTable), between  *)
(* the cache clients that pin database snapshots and register them with it *)
(* and the database that keeps a snapshot from PIN to UNPIN                *)
(* (pgsql/.../ssnap.c).                                                    *)
(*                                                                         *)
(* A client talks to the daemon over one connection: its messages arrive   *)
(* in order, later than they were sent, and a suffix of them is lost when  *)
(* it dies.  UNPINs travel over the daemon's own connection and are        *)
(* executed by the database one by one, later than they were queued.       *)
(***************************************************************************)
EXTENDS PinTable

CONSTANTS Hosts,        \* client connections
          Freshness,    \* ages a client may ask for
          NoPin,        \* the reference of a connection without one
          BusyDB,       \* a transaction commits between any two PINs
          Flushes,      \* the operator may send SIGUSR2
          MaxPin,       \* bound on commits
          MaxTime       \* bound on the clock

Pins == 1 .. MaxPin
Times == 0 .. MaxTime

ASSUME PincushionAssumption ==
    /\ Freshness \subseteq Nat
    /\ NoPin \notin Pins
    /\ {BusyDB, Flushes} \subseteq BOOLEAN
    /\ MaxPin \in Nat \ {0} /\ MaxTime \in Nat

VARIABLES
    pt,         \* the pin table
    ref,        \* per connection, the pin it references (PC_hostinfo_t)
    client,     \* per connection, the client's transaction
    chan,       \* per connection, the messages not handled yet
    db,         \* the database's saved snapshots
    batch,      \* the UNPINs the database has still to execute
    clock,
    lost        \* snapshots whose registration a dying client did not send

vars == <<pt, ref, client, chan, db, batch, clock, lost>>

IdleClient == [running |-> FALSE, pins |-> {}, star |-> FALSE]

Insert(p, t) == [op |-> "insert", pin |-> p, timestamp |-> t]
Release == [op |-> "release"]
Close == [op |-> "close"]

Init ==
    /\ pt = PT_Init
    /\ ref = [h \in Hosts |-> NoPin]
    /\ client = [h \in Hosts |-> IdleClient]
    /\ chan = [h \in Hosts |-> <<>>]
    /\ db = [latest |-> 1, lastSSnap |-> NoPin, saved |-> {}]
    /\ batch = <<>>
    /\ clock = 0
    /\ lost = {}

Up == pt.panic = "none"

-----------------------------------------------------------------------------
(* The database.                                                           *)

Commit ==
    /\ db.latest < MaxPin
    /\ db' = [db EXCEPT !.latest = @ + 1]
    /\ UNCHANGED <<pt, ref, client, chan, batch, clock, lost>>

\* PIN saves the present snapshot, or reports the one already saved.
SaveSnapshot ==
    [db EXCEPT !.lastSSnap = db.latest, !.saved = @ \union {db.latest}]

RemoveSavedSnapshot(p) ==
    [db EXCEPT !.saved = @ \ {p},
               !.lastSSnap = IF @ = p THEN NoPin ELSE @]

\* The next UNPIN of the batch.  An unknown snapshot is an error, and the
\* database drops the rest of a query string after an error.
ExecUnpin ==
    /\ batch # <<>>
    /\ batch' = IF Head(batch) \in db.saved THEN Tail(batch) ELSE <<>>
    /\ db' = RemoveSavedSnapshot(Head(batch))
    /\ UNCHANGED <<pt, ref, client, chan, clock, lost>>

Tick ==
    /\ clock < MaxTime
    /\ clock' = clock + 1
    /\ UNCHANGED <<pt, ref, client, chan, db, batch, lost>>

-----------------------------------------------------------------------------
(* The clients.                                                            *)

\* Client_Exec on the present: PIN, then register the snapshot.  The pin set
\* has its star until then; PinSet_ReifyStar leaves the new pin alone in it.
\* Assumed of the clock: no two PINs happen in the same microsecond.
ExecNewPin(h) ==
    LET now == clock + 1 IN
    /\ client[h].running /\ client[h].star
    /\ now <= MaxTime
    /\ BusyDB => db.lastSSnap # db.latest
    /\ clock' = now
    /\ db' = SaveSnapshot
    /\ client' = [client EXCEPT ![h].pins = {db.latest}, ![h].star = FALSE]
    /\ chan' = [chan EXCEPT ![h] = Append(@, Insert(db.latest, now))]
    /\ UNCHANGED <<pt, ref, batch, lost>>

Client_Commit(h) ==
    /\ client[h].running
    /\ client' = [client EXCEPT ![h] = IdleClient]
    /\ chan' = [chan EXCEPT ![h] = Append(@, Release)]
    /\ UNCHANGED <<pt, ref, db, batch, clock, lost>>

\* The client or its connection dies; only the first n messages got out.
Disconnect(h) ==
    \E n \in 0 .. Len(chan[h]) :
        /\ client[h].running \/ chan[h] # <<>>
        /\ \A i \in DOMAIN chan[h] : chan[h][i] # Close
        /\ client' = [client EXCEPT ![h] = IdleClient]
        /\ chan' = [chan EXCEPT ![h] = Append(SubSeq(@, 1, n), Close)]
        /\ lost' = lost \union
                   {chan[h][i].pin : i \in {j \in n + 1 .. Len(chan[h]) :
                                              chan[h][j].op = "insert"}}
        /\ UNCHANGED <<pt, ref, db, batch, clock>>

-----------------------------------------------------------------------------
(* The daemon's handlers.                                                  *)

\* The table and the references after the host's reference is dropped.
ReleaseHostPin(h) ==
    /\ pt' = IF ref[h] = NoPin THEN pt
             ELSE IF ~PT_FindPin(pt, ref[h]) THEN Panic(pt, "no entry")
             ELSE PT_RemoveRef(pt, clock, Position(pt, ref[h]))
    /\ ref' = [ref EXCEPT ![h] = NoPin]

\* Client_BeginRO waits for the answer, so asking and answering are a step.
HandleRequest(h) ==
    \E freshness \in Freshness :
        LET found == PT_Find(pt, clock, freshness) IN
        /\ Up /\ ~client[h].running /\ chan[h] = <<>>
        /\ pt' = IF ref[h] # NoPin THEN Panic(pt, "already referencing")
                 ELSE IF found = {} THEN pt
                 ELSE PT_AddRef(pt, Lowest(found))
        /\ ref' = IF found = {} THEN ref
                  ELSE [ref EXCEPT ![h] = At(pt, Lowest(found)).pin]
        /\ client' = [client EXCEPT ![h] =
                        [running |-> TRUE, star |-> TRUE,
                         pins |-> {At(pt, i).pin : i \in found}]]
        /\ UNCHANGED <<chan, db, batch, clock, lost>>

\* The next message of a connection.
Receive(h, op) ==
    /\ Up /\ chan[h] # <<>>
    /\ Head(chan[h]).op = op
    /\ chan' = [chan EXCEPT ![h] = Tail(@)]

HandleInsert(h) ==
    LET m == Head(chan[h])
        inserted == PT_Insert(pt, clock, m.timestamp, m.pin)
        refer == inserted.panic = "none" /\ ref[h] = NoPin
    IN  /\ Receive(h, "insert")
        /\ pt' = IF refer THEN PT_AddRef(inserted, Position(inserted, m.pin))
                 ELSE inserted
        /\ ref' = IF refer THEN [ref EXCEPT ![h] = m.pin] ELSE ref
        /\ UNCHANGED <<client, db, batch, clock, lost>>

HandleRelease(h) ==
    /\ Receive(h, "release")
    /\ ReleaseHostPin(h)
    /\ UNCHANGED <<client, db, batch, clock, lost>>

HandleConnectionClosed(h) ==
    /\ Receive(h, "close")
    /\ ReleaseHostPin(h)
    /\ UNCHANGED <<client, db, batch, clock, lost>>

HandleSigFlush ==
    /\ Up /\ Flushes
    /\ pt' = PT_Flush(pt)
    /\ UNCHANGED <<ref, client, chan, db, batch, clock, lost>>

\* The reactor calls back for the database connection.
OnWrite ==
    /\ Up /\ pt.writable
    /\ pt' = PTOnWrite(pt)
    /\ batch' = pt.pendingUnpins
    /\ UNCHANGED <<ref, client, chan, db, clock, lost>>

OnRead ==
    /\ Up /\ pt.unpinInFlight /\ batch = <<>>
    /\ pt' = PTOnRead(pt)
    /\ UNCHANGED <<ref, client, chan, db, batch, clock, lost>>

\* The connection to the database breaks: PTOnRead panics.
LostDatabase ==
    /\ Up
    /\ pt' = Panic(pt, "lost database")
    /\ UNCHANGED <<ref, client, chan, db, batch, clock, lost>>

Next ==
    \/ Commit \/ ExecUnpin \/ Tick
    \/ HandleSigFlush \/ OnWrite \/ OnRead \/ LostDatabase
    \/ \E h \in Hosts :
          \/ ExecNewPin(h) \/ Client_Commit(h) \/ Disconnect(h)
          \/ HandleRequest(h) \/ HandleInsert(h) \/ HandleRelease(h)
          \/ HandleConnectionClosed(h)

Spec == Init /\ [][Next]_vars

\* The reactor serves the database connection whenever it is ready, and the
\* database executes the commands it has received.  Nothing is assumed of the
\* clients.
FairSpec == Spec /\ WF_vars(OnWrite) /\ WF_vars(OnRead) /\ WF_vars(ExecUnpin)

-----------------------------------------------------------------------------
(* Properties.                                                             *)

Queued == {pt.pendingUnpins[i] : i \in DOMAIN pt.pendingUnpins}
Sent == {batch[i] : i \in DOMAIN batch}
Tabled == {At(pt, i).pin : i \in Entries(pt)}
Inserting == {m \in UNION {{chan[h][i] : i \in DOMAIN chan[h]} : h \in Hosts} :
                m.op = "insert"}

\* The fields of the table, the clients and the messages have their types.
TypeOK ==
    /\ pt.table \in [Slots -> [pin : Pins \union {0}, timestamp : Times,
                               ref : Nat]]
    /\ {pt.head, pt.tail, pt.last_ref} \subseteq Slots
    /\ Queued \union Sent \subseteq Pins
    /\ {pt.unpinInFlight, pt.writable} \subseteq BOOLEAN
    /\ ref \in [Hosts -> Pins \union {NoPin}]
    /\ client \in [Hosts -> [running : BOOLEAN, pins : SUBSET Pins,
                             star : BOOLEAN]]
    /\ Inserting \subseteq [op : {"insert"}, pin : Pins, timestamp : Times]
    /\ db \in [latest : Pins, lastSSnap : Pins \union {NoPin},
               saved : SUBSET Pins]
    /\ clock \in Times /\ lost \subseteq Pins

\* No Assert of pintable.c and pincushion.c fails, however the handlers of
\* the connections interleave: the table stays ordered when an old pin is
\* registered again, a connection that asks for pins holds none, what it
\* holds is in the table, and no referenced pin is removed.  The exception is
\* the operator's flush, which fails while any pin is referenced.
AssertsHold ==
    pt.panic \notin {"order", "referenced", "no entry", "already referencing"}

\* The entries between tail and head are strictly ordered by pin as well as
\* by timestamp, whatever the order in which the clients' PT_Inserts arrive
\* and wherever the buffer wraps.
TableOrdered ==
    Up => \A i, j \in Entries(pt) :
             i < j => /\ At(pt, i).pin < At(pt, j).pin
                      /\ At(pt, i).timestamp < At(pt, j).timestamp

\* The reference count of an entry is the number of connections that have it
\* as their referencedPin, and each of these pins has an entry: no reference
\* is lost or counted twice over inserts, releases and closed connections.
RefsExact ==
    Up => /\ \A i \in Entries(pt) :
                At(pt, i).ref = Cardinality({h \in Hosts :
                                               ref[h] = At(pt, i).pin})
          /\ \A h \in Hosts : ref[h] # NoPin => ref[h] \in Tabled

\* Every snapshot saved in the database has somebody who will UNPIN it: it is
\* in the table, queued, sent or about to be registered, unless a client died
\* between its PIN and its PT_Insert.
NothingLeaks ==
    Up => db.saved \subseteq Tabled \union Queued \union Sent \union lost
                             \union {m.pin : m \in Inserting}

\* A snapshot queued by PT_RemoveTail is eventually UNPINned, or the daemon
\* goes down: the one-shot write mark of the reactor is never lost, although
\* pins are queued both while the connection is idle and while a batch is in
\* flight.
QueuedUnpinsHappen ==
    \A p \in Pins : p \in Queued ~> (p \notin db.saved \/ ~Up)

\* The daemon keeps the promise of PinLease: queueing a snapshot for UNPIN is
\* giving it up, and never happens to one that a client may use.
Lease == INSTANCE PinLease
            WITH kept <- db.saved \ (Queued \union Sent),
                 held <- [h \in Hosts |-> client[h].pins]

KeepsLease == Lease!Spec

\* PT_Clean: "if there is a reference to the pin, we must keep it and
\* everything newer": no UNPIN of such a pin is under way or done.
ReferencedPinsKept ==
    Up => \A i \in Referenced(pt) : \A j \in i .. Size(pt) :
             At(pt, j).pin \in db.saved \ (Queued \union Sent)
=============================================================================
