------------------------------ MODULE PinTable ------------------------------
(***************************************************************************)
(* The pin table of the pincushion daemon (pincushion/pintable.c): a       *)
(* circular buffer of pinned database snapshots ordered by the time they   *)
(* were pinned, with reference counts, and the queue of snapshots to be    *)
(* UNPINned over the daemon's asynchronous database connection.            *)
(*                                                                         *)
(* Every operator maps a table to the table the C function leaves behind.  *)
(* A failed Assert or a Panic is recorded in the field panic.              *)
(***************************************************************************)
EXTENDS Integers, Sequences, FiniteSets

CONSTANTS MAX_PINS,      \* slots of the circular buffer, one of them unused
          maxStaleness   \* age after which an unreferenced pin is dropped

ASSUME PinTableAssumption == MAX_PINS \in Nat \ {0, 1} /\ maxStaleness \in Nat

Slots == 0 .. MAX_PINS - 1

\* Pointers into the table are slot numbers, and wrap around.
add(a, b) == (a + b) % MAX_PINS

ptr_sub(a, b) == IF a >= b THEN a - b ELSE a + MAX_PINS - b

PT_Init ==
    [table |-> [s \in Slots |-> [pin |-> 0, timestamp |-> 0, ref |-> 0]],
     head |-> 0, tail |-> 0, last_ref |-> 0,
     pendingUnpins |-> <<>>, unpinInFlight |-> FALSE,
     writable |-> FALSE,        \* the reactor will call PTOnWrite
     panic |-> "none"]

Panic(pt, why) == [pt EXCEPT !.panic = why]

\* The entries from the oldest, right after tail, to head, counted from 1.
Size(pt) == ptr_sub(pt.head, pt.tail)

Entries(pt) == 1 .. Size(pt)

Slot(pt, i) == add(pt.tail, i)

At(pt, i) == pt.table[Slot(pt, i)]

Position(pt, pin) == CHOOSE i \in Entries(pt) : At(pt, i).pin = pin

PT_FindPin(pt, pin) == \E i \in Entries(pt) : At(pt, i).pin = pin

Referenced(pt) == {i \in Entries(pt) : At(pt, i).ref > 0}

Lowest(S) == CHOOSE i \in S : \A j \in S : i <= j

Highest(S) == CHOOSE i \in S : \A j \in S : i >= j

\* PT_RemoveTail called k times: the k oldest entries leave the table and are
\* queued for UNPIN, and an idle connection is marked writable.
PT_RemoveTail(pt, k) ==
    LET idle == pt.pendingUnpins = <<>> /\ ~pt.unpinInFlight IN
    IF k = 0 THEN pt
    ELSE IF \E i \in 1 .. k : At(pt, i).ref # 0 THEN Panic(pt, "referenced")
    ELSE IF Len(pt.pendingUnpins) + k > MAX_PINS THEN Panic(pt, "queue full")
    ELSE [pt EXCEPT !.tail = Slot(pt, k),
                    !.writable = @ \/ idle,
                    !.pendingUnpins = @ \o [i \in 1 .. k |-> At(pt, i).pin]]

\* Mutant: the walk does not end at a referenced entry.
PT_CleanPastReferences(pt, now) ==
    LET stale == {i \in Entries(pt) : At(pt, i).timestamp < now - maxStaleness}
    IN  IF stale # 1 .. Cardinality(stale) THEN Panic(pt, "order")
        ELSE PT_RemoveTail(pt, Cardinality(stale))

\* Mutant: the pointer to the first referenced entry does not wrap.
PT_CleanUnwrapped(pt, now) ==
    LET stop  == Lowest(Referenced(pt) \union {Size(pt) + 1})
        stale == {i \in 1 .. stop - 1 :
                      At(pt, i).timestamp < now - maxStaleness}
        kept  == IF stop <= Size(pt) THEN pt.tail + stop ELSE pt.last_ref
    IN  IF stale # 1 .. Cardinality(stale) THEN Panic(pt, "order")
        ELSE [PT_RemoveTail(pt, Cardinality(stale)) EXCEPT !.last_ref = kept]

\* The walk from the oldest entry ends at the first referenced one; each
\* stale entry it meets must be the oldest of the table at that moment.
PT_Clean(pt, now) ==
    LET stop  == Lowest(Referenced(pt) \union {Size(pt) + 1})
        stale == {i \in 1 .. stop - 1 :
                      At(pt, i).timestamp < now - maxStaleness}
        kept  == IF stop <= Size(pt) THEN Slot(pt, stop) ELSE pt.last_ref
    IN  IF stale # 1 .. Cardinality(stale) THEN Panic(pt, "order")
        ELSE [PT_RemoveTail(pt, Cardinality(stale)) EXCEPT !.last_ref = kept]

\* The newest entry that is older than a bound, 0 if there is none.
OlderThan(pt, bound) ==
    Highest({0} \union {i \in Entries(pt) : At(pt, i).timestamp < bound})

Full(pt) == Size(pt) = MAX_PINS - 1

\* What PT_Insert does when there is no room.
MakeRoom(pt, now) ==
    LET cleaned == IF Full(pt) THEN PT_Clean(pt, now) ELSE pt IN
    IF ~Full(cleaned) \/ cleaned.panic # "none" THEN cleaned
    ELSE IF At(cleaned, 1).ref > 0 THEN Panic(cleaned, "table full")
    ELSE PT_RemoveTail(cleaned, 1)

\* A pin already in the table only gets the new timestamp, which must leave
\* the order alone.
Refresh(pt, timestamp, r) ==
    IF \/ r > 1 /\ At(pt, r - 1).timestamp > timestamp
       \/ r < Size(pt) /\ At(pt, r + 1).timestamp < timestamp
    THEN Panic(pt, "order")
    ELSE [pt EXCEPT !.table[Slot(pt, r)].timestamp = timestamp]

\* Mutant: the new entry stays at the head.
BubbleNot(pt, timestamp, pin) ==
    [pt EXCEPT !.head = add(@, 1),
               !.table[add(pt.head, 1)] =
                   [pin |-> pin, timestamp |-> timestamp, ref |-> 0]]

\* A new pin bubbles down from the head past every entry that is not older,
\* those with its own timestamp included.
Bubble(pt, timestamp, pin) ==
    LET place == OlderThan(pt, timestamp) + 1
        entry == [pin |-> pin, timestamp |-> timestamp, ref |-> 0]
    IN  [pt EXCEPT
           !.head = add(@, 1),
           !.table = [s \in Slots |->
                        LET i == ptr_sub(s, pt.tail) IN
                        CASE i = place -> entry
                          [] i \in place + 1 .. Size(pt) + 1 -> At(pt, i - 1)
                          [] OTHER -> @[s]]]

PT_Insert(pt, now, timestamp, pin) ==
    LET room == MakeRoom(pt, now) IN
    IF room.panic # "none" THEN room
    ELSE IF PT_FindPin(room, pin)
    THEN Refresh(room, timestamp, Position(room, pin))
    ELSE Bubble(room, timestamp, pin)

\* The entries young enough for a request, oldest first.
PT_Find(pt, now, freshness) ==
    OlderThan(pt, now - freshness) + 1 .. Size(pt)

\* Mutant: references are not counted.
PT_AddRefOnce(pt, i) == [pt EXCEPT !.table[Slot(pt, i)].ref = 1]

PT_AddRef(pt, i) ==
    [pt EXCEPT !.table[Slot(pt, i)].ref = @ + 1,
               !.last_ref = IF i < ptr_sub(@, pt.tail) THEN Slot(pt, i) ELSE @]

PT_RemoveRef(pt, now, i) ==
    PT_Clean([pt EXCEPT !.table[Slot(pt, i)].ref = IF @ < 1 THEN @ ELSE @ - 1],
             now)

\* PT_RemoveTail's assertion does not allow for references here.
PT_Flush(pt) ==
    IF Referenced(pt) # {} THEN Panic(pt, "flushed in use")
    ELSE [PT_RemoveTail(pt, Size(pt)) EXCEPT !.last_ref = pt.head]

\* The reactor clears the mark, then the whole queue leaves as one batch.
PTOnWrite(pt) ==
    [pt EXCEPT !.writable = FALSE, !.unpinInFlight = TRUE,
               !.pendingUnpins = <<>>]

\* Mutant: pins queued while a batch was in flight are not marked.
PTOnReadUnmarked(pt) == [pt EXCEPT !.unpinInFlight = FALSE]

\* Mutant: the queue is reset when a batch completes, not when it is sent.
PTOnReadResets(pt) ==
    [pt EXCEPT !.unpinInFlight = FALSE, !.pendingUnpins = <<>>]

\* The last result of a batch has been read.
PTOnRead(pt) ==
    [pt EXCEPT !.unpinInFlight = FALSE,
               !.writable = @ \/ pt.pendingUnpins # <<>>]
=============================================================================
