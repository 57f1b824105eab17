------------------------------- MODULE Store -------------------------------
(***************************************************************************)
(* The cache server's versioned store (server/store.c with the LRU         *)
(* eviction policy and the two lookup policies).  A store is a record s of *)
(* the fields of Store_t that the behaviour depends on; every function of  *)
(* store.c that changes it is an operator from a store to a store.         *)
(*                                                                         *)
(*   lines            keys that have a version set (never freed)           *)
(*   entries          all entry_t; a version set is the entries of a key   *)
(*   entryBytes       the byte counter of the entries                      *)
(*   lastInvalTime    timestamp of the last invalidation notice            *)
(*   invalMap         the tag index: pairs <<tag, entry>>                  *)
(*   invalBuffer      recent invalidations, for puts that arrive late      *)
(*   bufferValidFrom  newest timestamp expired from the buffer             *)
(*   lru              the eviction list, most recently used first          *)
(*                                                                         *)
(* An entry pointer is modelled by <<key, lower>>, the place of the entry  *)
(* in its version set.  invTimeOrder lists the entries whose               *)
(* timeInvalidated is set, in that order, so the field stands for it.      *)
(***************************************************************************)
EXTENDS Interval, InvalTag, Integers, FiniteSets, FiniteSetsExt

CONSTANTS
    Keys,               \* cache keys
    Values,             \* results of cacheable functions
    MaxBytes,           \* store.maxBytes
    KeyBytes,           \* footprint of a key and its version set
    ElemBytes,          \* footprint of an entry without data and tags
    DataBytes,          \* DataBytes[v]: footprint of the data v
    UselessBound,       \* store.uselessBound
    INVAL_BUFFER_TIME   \* seconds an invalidation stays buffered

ASSUME StoreAssumption ==
    /\ {MaxBytes, KeyBytes, UselessBound, INVAL_BUFFER_TIME} \subseteq Nat
    /\ ElemBytes \in Nat \ {0}
    /\ DataBytes \in [Values -> Nat]

NotInvalidated == -1

EntryAt(e) == <<e.key, e.interval.lower>>

Entry(key, interval, data, invalTags, timeInvalidated, missed) ==
    [key |-> key, interval |-> interval, data |-> data,
     invalTags |-> invalTags, timeInvalidated |-> timeInvalidated,
     missed |-> missed]

Store_EntryFootprint(data, invalTags) ==
    ElemBytes + DataBytes[data] + Cardinality(invalTags)

FootprintOf(e) == Store_EntryFootprint(e.data, e.invalTags)

BytesOf(entries) == MapThenSumSet(FootprintOf, entries)

Store_Footprint(s) == KeyBytes * Cardinality(s.lines) + s.entryBytes

Store_Init ==
    [lines |-> {}, entries |-> {}, entryBytes |-> 0,
     lastInvalTime |-> PIN_NEG_INF, invalMap |-> {}, invalBuffer |-> {},
     bufferValidFrom |-> PIN_NEG_INF, lru |-> <<>>]

(* StoreVSetTree_Find(versions, upper, LT): the latest version of key that *)
(* starts before upper; the set is empty when there is none.               *)
LatestBefore(s, key, upper) ==
    LET before == {e \in s.entries : e.key = key /\ e.interval.lower < upper}
    IN  {e \in before :
            \A f \in before : f.interval.lower <= e.interval.lower}

-----------------------------------------------------------------------------
(* Eviction list. *)

LRUEviction_Remove(lru, gone) ==
    SelectSeq(lru, LAMBDA at : \A e \in gone : EntryAt(e) # at)

LRUEviction_Hit(lru, e) == <<EntryAt(e)>> \o Remove(lru, EntryAt(e))

LRUEviction_Put(lru, e, extension) ==
    <<EntryAt(e)>> \o (IF extension THEN Remove(lru, EntryAt(e)) ELSE lru)

-----------------------------------------------------------------------------
(* Truncation, removal and eviction. *)

TagPairs(e) == e.invalTags \X {EntryAt(e)}

(* Mutant: the pin that invalidates the entry is counted in. *)
TruncatedInclusive(e, now, t) ==
    [e EXCEPT !.interval = [lower |-> e.interval.lower,
                            upper |-> MAX(e.interval.upper, now + 1),
                            stillValid |-> FALSE],
              !.timeInvalidated = t]

(* The entry after Store_TruncateUnboundedInterval at pin now, time t. *)
Truncated(e, now, t) ==
    [e EXCEPT !.interval = [lower |-> e.interval.lower,
                            upper |-> MAX(e.interval.upper, now),
                            stillValid |-> FALSE],
              !.timeInvalidated = t]

Store_TruncateUnboundedInterval(s, e, now, t) ==
    [s EXCEPT !.entries = (@ \ {e}) \cup {Truncated(e, now, t)},
              !.invalMap = @ \ TagPairs(e)]

(* Mutant: the tags stay registered. *)
RemoveEntriesKeepTags(s, gone) ==
    [s EXCEPT !.entries = @ \ gone,
              !.entryBytes = @ - BytesOf(gone),
              !.lru = LRUEviction_Remove(@, gone)]

(* Mutant: the bytes stay counted. *)
RemoveEntriesKeepBytes(s, gone) ==
    [s EXCEPT !.entries = @ \ gone,
              !.invalMap = @ \ UNION {TagPairs(e) : e \in gone},
              !.lru = LRUEviction_Remove(@, gone)]

(* Store_RemoveEntry for each entry of a set. *)
RemoveEntries(s, gone) ==
    [s EXCEPT !.entries = @ \ gone,
              !.entryBytes = @ - BytesOf(gone),
              !.invalMap = @ \ UNION {TagPairs(e) : e \in gone},
              !.lru = LRUEviction_Remove(@, gone)]

Store_RemoveUseless(s, t) ==
    RemoveEntries(s, {e \in s.entries :
                        /\ ~e.interval.stillValid
                        /\ e.timeInvalidated < t - UselessBound})

(* The n least recently used entries. *)
Oldest(s, n) ==
    {e \in s.entries :
        \E i \in (Len(s.lru) - n + 1)..Len(s.lru) : s.lru[i] = EntryAt(e)}

Freed(s, n) == BytesOf(Oldest(s, n))

(* The list is cut from its tail until toFree bytes are free or it is empty. *)
EvictCount(s, toFree) ==
    Min({n \in 0..Len(s.lru) : Freed(s, n) >= toFree} \cup {Len(s.lru)})

Store_Evict(s, toFree) == RemoveEntries(s, Oldest(s, EvictCount(s, toFree)))

EvictSucceeds(s, toFree) == Freed(s, Len(s.lru)) >= toFree

Store_Flush(s) == Store_Evict(s, s.entryBytes)

-----------------------------------------------------------------------------
(* Lookup.  Both policies yield a set with the entry found, or no entry. *)

LatestAcceptable_Lookup(s, key, interval) ==
    {e \in LatestBefore(s, key, interval.upper) :
        Interval_Overlaps(e.interval, interval, s.lastInvalTime)}

ScrewConsistency_Lookup(s, key, interval, earliestPin) ==
    {e \in LatestBefore(s, key, interval.upper) :
        e.interval.stillValid \/ e.interval.upper >= earliestPin}

Store_Hit(s, e) == [s EXCEPT !.lru = LRUEviction_Hit(@, e)]

-----------------------------------------------------------------------------
(* Invalidation notices. *)

(* Call c of the notice finds entry e through the tag index. *)
CallHits(s, tags, c, e) ==
    \E m \in s.invalMap :
        /\ m[2] = EntryAt(e)
        /\ TagMatches(CallTag(tags, c), CallDescendants(tags, c), m[1])

(* The part of the index that the calls before c have left. *)
MapAtCall(s, tags, c) ==
    {m \in s.invalMap :
        ~\E e \in s.entries : \E d \in Calls(tags) :
            m[2] = EntryAt(e) /\ CallBefore(d, c) /\ CallHits(s, tags, d, e)}

(* The notice's calls that reach the end of Store_InvalidateTag and insert *)
(* into the buffer: the index must hold some tag >= the call's own, and    *)
(* of several calls with one tag the buffer keeps the first.               *)
BufferedCalls(s, tags) ==
    {c \in Calls(tags) :
        /\ \E m \in MapAtCall(s, tags, c) : TagLE(CallTag(tags, c), m[1])
        /\ ~\E d \in Calls(tags) :
                CallBefore(d, c) /\ CallTag(tags, d) = CallTag(tags, c)}

Store_InvalidateTags(s, ts, tags, t) ==
    LET hit == {e \in s.entries : \E c \in Calls(tags) : CallHits(s, tags, c, e)}
    IN  [s EXCEPT
            !.lastInvalTime = ts,
            !.entries = (@ \ hit) \cup {Truncated(e, ts, t) : e \in hit},
            !.invalMap = @ \ UNION {TagPairs(e) : e \in hit},
            !.invalBuffer = @ \cup
                {[pin |-> ts, tag |-> CallTag(tags, c),
                  descendants |-> CallDescendants(tags, c), time |-> t] :
                    c \in BufferedCalls(s, tags)}]

(* Mutant: what expires is forgotten. *)
Store_ExpireBufferForgets(s, t) ==
    [s EXCEPT !.invalBuffer =
        {b \in @ : ~(b.time + INVAL_BUFFER_TIME <= t)}]

Store_ExpireBuffer(s, t) ==
    LET expired == {b \in s.invalBuffer : b.time + INVAL_BUFFER_TIME <= t}
    IN  [s EXCEPT
            !.invalBuffer = @ \ expired,
            !.bufferValidFrom = Max({@} \cup {b.pin : b \in expired})]

Store_Invalidate(s, ts, tags, t) ==
    Store_ExpireBuffer(Store_InvalidateTags(s, ts, tags, t), t)

-----------------------------------------------------------------------------
(* Put. *)

(* The buffered invalidations a late put is compared with: the search for  *)
(* {upper, NULL} starts behind every invalidation at pin upper itself.     *)
Consulted(s, upper) == {b \in s.invalBuffer : b.pin > upper}

(* Mutant: a put from before the buffer's horizon is trusted. *)
Store_TruncateIgnoringHorizon(s, interval, invalTags) ==
    LET hits == {b \in Consulted(s, interval.upper) :
                    \E t \in invalTags : TagMatches(b.tag, b.descendants, t)}
    IN  IF interval.upper > s.lastInvalTime \/ hits = {} THEN interval
        ELSE [interval EXCEPT !.stillValid = FALSE,
                              !.upper = Min({b.pin : b \in hits})]

Store_TruncateIfAlreadyInvalidated(s, interval, invalTags) ==
    LET hits == {b \in Consulted(s, interval.upper) :
                    \E t \in invalTags : TagMatches(b.tag, b.descendants, t)}
    IN  IF interval.upper > s.lastInvalTime THEN interval
        ELSE IF interval.upper <= s.bufferValidFrom
        THEN [interval EXCEPT !.stillValid = FALSE]
        ELSE IF hits = {} THEN interval
        ELSE [interval EXCEPT !.stillValid = FALSE,
                              !.upper = Min({b.pin : b \in hits})]

(* The interval under which a put is stored. *)
PutInterval(s, interval, invalTags) ==
    IF interval.stillValid
    THEN Store_TruncateIfAlreadyInvalidated(s, interval, invalTags)
    ELSE interval

(* Mutant: the keys are left out of the space needed. *)
Store_AddEntryBytesOnly(s, e) ==
    LET need == s.entryBytes + FootprintOf(e) - MaxBytes
        room == IF need > 0 THEN Store_Evict(s, need) ELSE s
    IN  IF \/ need > 0 /\ ~EvictSucceeds(s, need)
           \/ \E f \in room.entries : EntryAt(f) = EntryAt(e)
        THEN room
        ELSE [room EXCEPT
                !.entries = @ \cup {e},
                !.entryBytes = @ + FootprintOf(e),
                !.invalMap = @ \cup TagPairs(e),
                !.lru = LRUEviction_Put(@, e, FALSE)]

Store_Add(s, e) ==
    LET need == Store_Footprint(s) + FootprintOf(e) - MaxBytes
        room == IF need > 0 THEN Store_Evict(s, need) ELSE s
    IN  IF \/ need > 0 /\ ~EvictSucceeds(s, need)
           \/ \E f \in room.entries : EntryAt(f) = EntryAt(e)
        THEN room
        ELSE [room EXCEPT
                !.entries = @ \cup {e},
                !.entryBytes = @ + FootprintOf(e),
                !.invalMap = @ \cup TagPairs(e),
                !.lru = LRUEviction_Put(@, e, FALSE)]

(* Store_TryExtendInterval returns true. *)
CanExtend(s, existing, interval, data) ==
    /\ Interval_Overlaps(existing.interval, interval, s.lastInvalTime)
    /\ data = existing.data
    /\ existing.interval.lower <= interval.lower

Extended(existing, e) ==
    [existing EXCEPT !.interval.upper = e.interval.upper,
                     !.missed = @ \/ e.missed]

Store_ExtendInterval(s, existing, e) ==
    IF existing.interval.upper >= e.interval.upper THEN s
    ELSE [s EXCEPT
            !.entries = (@ \ {existing}) \cup {Extended(existing, e)},
            !.lru = LRUEviction_Put(@, existing, TRUE)]

(* Mutant: an empty remainder is added. *)
PutOverEmpty(s, existing, e) ==
    LET lower == MAX(existing.interval.upper, e.interval.lower)
    IN  IF CanExtend(s, existing, e.interval, e.data)
        THEN Store_ExtendInterval(s, existing, e)
        ELSE IF lower > e.interval.upper THEN s
        ELSE Store_Add(s, [e EXCEPT !.interval.lower = lower])

(* The put meets the version `existing': extend it, or add what does not   *)
(* overlap it.                                                             *)
PutOver(s, existing, e) ==
    LET lower == MAX(existing.interval.upper, e.interval.lower)
    IN  IF CanExtend(s, existing, e.interval, e.data)
        THEN Store_ExtendInterval(s, existing, e)
        ELSE IF lower >= e.interval.upper THEN s
        ELSE Store_Add(s, [e EXCEPT !.interval.lower = lower])

(* "We must have missed an invalidation": the put starts after everything  *)
(* the store has heard of.                                                 *)
ImplicitlyInvalid(s, existing, interval) ==
    existing.interval.stillValid /\ interval.lower >= s.lastInvalTime

(* The store after Store_Put at time t.  `missed' is an auxiliary flag kept *)
(* in the entry: see CacheServer.                                          *)
Store_Put(s, key, interval, data, invalTags, force, t, missed) ==
    LET iv == PutInterval(s, interval, invalTags)
        e == Entry(key, iv, data,
                   IF iv.stillValid THEN invalTags ELSE {},
                   IF iv.stillValid THEN NotInvalidated ELSE t, missed)
        s1 == [Store_RemoveUseless(s, t) EXCEPT !.lines = @ \cup {key}]
        found == LatestBefore(s1, key, iv.upper)
        existing == CHOOSE f \in found : TRUE
    IN  IF interval.stillValid /\ invalTags = {} THEN s
        ELSE IF found = {} THEN Store_Add(s1, e)
        ELSE IF force THEN Store_Add(RemoveEntries(s1, {existing}), e)
        ELSE IF ImplicitlyInvalid(s1, existing, iv)
        THEN PutOver(Store_TruncateUnboundedInterval(s1, existing,
                                                     s1.lastInvalTime, t),
                     Truncated(existing, s1.lastInvalTime, t), e)
        ELSE PutOver(s1, existing, e)
=============================================================================
