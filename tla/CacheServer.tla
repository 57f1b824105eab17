---------------------------- MODULE CacheServer ----------------------------
(***************************************************************************)
(* A cache server between its three peers: the database, whose commits     *)
(* change what a cacheable function would return; the invalidation daemon, *)
(* which passes on the tags of each commit, in commit order and any time   *)
(* later; and the clients, whose puts and lookups arrive in any order and  *)
(* after any delay.                                                        *)
(*                                                                         *)
(* snap[p] is the result of every cacheable call at snapshot p and         *)
(* invals[p] the tags that commit p announces.  A put carries a true fact  *)
(* about some past of the database, as Client_ExitCacheable computes it:   *)
(* key had result data at all pins of the interval.  How long ago that was *)
(* is left open, so every delay between computing and storing a result,    *)
(* and every order of puts and notices, is a behaviour.                    *)
(***************************************************************************)
EXTENDS Store

CONSTANTS
    TagsOf,         \* TagsOf[k][v]: the tags of result v of call k
    Notices,        \* the tag sequences a commit may announce
    Memcached,      \* whether clients in memcached mode are present
    MaxPin,         \* bound: last commit timestamp
    MaxClock        \* bound: the server's clock

ASSUME CacheServerAssumption ==
    /\ TagsOf \in [Keys -> [Values -> (SUBSET Tags) \ {{}}]]
    /\ \A notice \in Notices : notice \in Seq(Tags)
    /\ MaxPin \in Nat \ {0} /\ MaxPin < PIN_INF - 1
    /\ MaxClock \in Nat
    /\ Memcached \in BOOLEAN

VARIABLES store, clock, snap, invals
vars == <<store, clock, snap, invals>>

latest == Len(snap)
L == store.lastInvalTime

Init ==
    /\ store = Store_Init
    /\ clock = 0
    /\ snap \in {<<f>> : f \in [Keys -> Values]}
    /\ invals = <<(<<>>)>>

-----------------------------------------------------------------------------
(* A read/write transaction commits and gets the next timestamp: it may    *)
(* change a result only if it announces a tag that bears on the result.    *)
Commit(new, tags) ==
    /\ latest < MaxPin
    /\ \A k \in Keys :
        new[k] # snap[latest][k] => Bears(tags, TagsOf[k][snap[latest][k]])
    /\ snap' = Append(snap, new)
    /\ invals' = Append(invals, tags)
    /\ UNCHANGED <<store, clock>>

Tick ==
    /\ clock < MaxClock
    /\ clock' = clock + 1
    /\ UNCHANGED <<store, snap, invals>>

(* Mutant: the notice that directly follows the last one is not accepted. *)
HandleInvalOffByOne(ts) ==
    /\ ts > L + 1
    /\ \A p \in (L + 1)..(ts - 1) : invals[p] = <<>>
    /\ store' = Store_Invalidate(store, ts, invals[ts], clock)
    /\ UNCHANGED <<clock, snap, invals>>

(* The next notice of the stream.  A commit that announces nothing reaches *)
(* the stream only as the null notice of a later PIN, or not at all.       *)
HandleInval(ts) ==
    /\ ts > L
    /\ \A p \in (L + 1)..(ts - 1) : invals[p] = <<>>
    /\ store' = Store_Invalidate(store, ts, invals[ts], clock)
    /\ UNCHANGED <<clock, snap, invals>>

(* key had result data at every pin of [lower, upper). *)
Held(key, data, lower, upper) ==
    \A p \in lower..(upper - 1) : snap[p][key] = data

(* Auxiliary: a still-valid put is stored with an interval that runs over  *)
(* an invalidation of one of its tags, so the buffer failed to show it.    *)
Missed(interval, stored, invalTags) ==
    /\ interval.stillValid
    /\ \E ts \in interval.upper..(IF stored.stillValid THEN L
                                  ELSE stored.upper - 1) :
            Bears(invals[ts], invalTags)

HandlePut(key, lower, upper, stillValid) ==
    LET data == snap[lower][key]
        invalTags == IF stillValid THEN TagsOf[key][data] ELSE {}
        interval == [lower |-> lower, upper |-> upper, stillValid |-> stillValid]
        stored == PutInterval(store, interval, invalTags)
    IN  /\ Held(key, data, lower, upper)
        /\ store' = Store_Put(store, key, interval, data, invalTags, FALSE,
                              clock, Missed(interval, stored, invalTags))
        /\ UNCHANGED <<clock, snap, invals>>

(* A client in memcached mode does not track lower bounds and overwrites.  *)
HandleForcedPut(key, upper) ==
    LET data == snap[upper - 1][key]
        interval == [lower |-> PIN_NEG_INF, upper |-> upper, stillValid |-> TRUE]
    IN  /\ Memcached
        /\ store' = Store_Put(store, key, interval, data, TagsOf[key][data],
                              TRUE, clock, TRUE)
        /\ UNCHANGED <<clock, snap, invals>>

Request(lower, upper) ==
    [lower |-> lower, upper |-> upper, stillValid |-> FALSE]

HandleLookup(key, lower, upper) ==
    /\ \E e \in LatestAcceptable_Lookup(store, key, Request(lower, upper)) :
        store' = Store_Hit(store, e)
    /\ UNCHANGED <<clock, snap, invals>>

HandleLookupScrewConsistency(key, lower, upper, earliestPin) ==
    /\ Memcached
    /\ \E e \in ScrewConsistency_Lookup(store, key, Request(lower, upper),
                                        earliestPin) :
        store' = Store_Hit(store, e)
    /\ UNCHANGED <<clock, snap, invals>>

(* Mutant: a bounded interval is extended too. *)
ReplyIntervalUpToNow(s, e) ==
    [e.interval EXCEPT !.upper = MAX(@, s.lastInvalTime)]

(* The interval of the reply to a lookup that found e. *)
ReplyInterval(s, e) ==
    [e.interval EXCEPT !.upper =
        IF e.interval.stillValid /\ e.interval.upper < s.lastInvalTime
        THEN s.lastInvalTime ELSE e.interval.upper]

(* SIGUSR2. *)
HandleSigFlush ==
    /\ store' = Store_Flush(store)
    /\ UNCHANGED <<clock, snap, invals>>

Next ==
    \/ \E new \in [Keys -> Values], tags \in Notices : Commit(new, tags)
    \/ Tick
    \/ \E ts \in 2..latest : HandleInval(ts)
    \/ \E key \in Keys, lower \in 1..latest, stillValid \in BOOLEAN :
        \E upper \in (lower + 1)..(latest + 1) :
            HandlePut(key, lower, upper, stillValid)
    \/ \E key \in Keys, upper \in 2..(latest + 1) : HandleForcedPut(key, upper)
    \/ \E key \in Keys, lower \in 1..latest :
        \E upper \in (lower + 1)..(latest + 1) : HandleLookup(key, lower, upper)
    \/ \E key \in Keys, lower, earliestPin \in 1..latest :
        \E upper \in (lower + 1)..(latest + 1) :
            HandleLookupScrewConsistency(key, lower, upper, earliestPin)
    \/ HandleSigFlush

Spec == Init /\ [][Next]_vars

-----------------------------------------------------------------------------
(* Properties. *)

(* The fields of the store, the histories and the clock keep their types,  *)
(* and every stored interval is one Interval_AssertValid accepts.          *)
TypeOK ==
    /\ store.lines \subseteq Keys
    /\ \A e \in store.entries :
        /\ e.key \in store.lines
        /\ e.interval \in Intervals /\ Interval_AssertValid(e.interval)
        /\ e.interval.lower < e.interval.upper
        /\ e.data \in Values
        /\ e.timeInvalidated \in {NotInvalidated} \cup 0..clock
        /\ e.missed \in BOOLEAN
    /\ store.lastInvalTime \in 1..latest
    /\ store.bufferValidFrom \in 1..store.lastInvalTime
    /\ clock \in 0..MaxClock
    /\ latest \in 1..MaxPin /\ Len(invals) = latest

(* The pins an entry vouches for: its interval and, while it is still      *)
(* valid, every pin the invalidation stream has passed.                    *)
VouchedUpper(e) ==
    IF e.interval.stillValid THEN MAX(e.interval.upper, L + 1)
    ELSE e.interval.upper

(* Every version in the store is the true result at every pin it vouches   *)
(* for, through any order of commits, notices, late puts, extensions,      *)
(* truncations and evictions; the only exceptions are late puts for which  *)
(* the invalidation buffer failed to show an invalidation.                 *)
EntriesCorrect ==
    \A e \in store.entries :
        ~e.missed => Held(e.key, e.data, e.interval.lower, VouchedUpper(e))

(* A reply to a lookup has a pin of the requested interval, promises only  *)
(* pins at which its data is the true result, and carries the tags a       *)
(* client needs to store something computed from it: a reply is again what *)
(* HandlePut may be given.                                                 *)
RepliesTruthful ==
    \A key \in Keys, lower \in 1..latest, upper \in 2..(latest + 1) :
        lower < upper =>
        \A e \in LatestAcceptable_Lookup(store, key, Request(lower, upper)) :
            LET reply == ReplyInterval(store, e)
            IN  /\ reply.lower < upper /\ reply.upper > lower
                /\ ~e.missed => /\ reply.upper <= latest + 1
                                /\ Held(key, e.data, reply.lower, reply.upper)
                /\ reply.stillValid => e.invalTags = TagsOf[key][e.data]

(* The tag index holds exactly the tags of the still-valid entries, so a   *)
(* notice reaches each of them and Store_TruncateUnboundedInterval never   *)
(* meets an entry that is already bounded.                                 *)
IndexExact ==
    /\ store.invalMap =
        UNION {TagPairs(e) : e \in {f \in store.entries : f.interval.stillValid}}
    /\ \A e \in store.entries :
        e.interval.stillValid => e.invalTags # {}

(* Store_AssertSize: the byte counter is the footprint of the entries; and *)
(* the eviction list holds every entry exactly once.                       *)
AccountingExact ==
    /\ store.entryBytes = BytesOf(store.entries)
    /\ Len(store.lru) = Cardinality(store.entries)
    /\ {store.lru[i] : i \in 1..Len(store.lru)} =
            {EntryAt(e) : e \in store.entries}

(* As long as the store holds an entry its footprint is within maxBytes,   *)
(* although the keys it counts are never freed.                            *)
WithinMaxBytes ==
    store.entries # {} => Store_Footprint(store) <= MaxBytes

(* An invalidation leaves the buffer only when bufferValidFrom has reached *)
(* it, so that later puts that would need it are not trusted.              *)
ExpiryRemembered ==
    [][\A b \in store.invalBuffer \ store'.invalBuffer :
            b.pin <= store'.bufferValidFrom]_vars

(* The puts a client may send now, as HandlePut takes them, that claim to  *)
(* be still valid.                                                         *)
StillValidPuts ==
    {put \in [key : Keys, lower : 1..latest, upper : 2..(latest + 1)] :
        /\ put.lower < put.upper
        /\ Held(put.key, snap[put.lower][put.key], put.lower, put.upper)}

TagsOfPut(put) == TagsOf[put.key][snap[put.lower][put.key]]

StoredAs(put) ==
    PutInterval(store, [lower |-> put.lower, upper |-> put.upper,
                        stillValid |-> TRUE], TagsOfPut(put))

(* Notice ts has expired, or the buffer holds all it had to say. *)
Remembered(ts) ==
    \/ ts <= store.bufferValidFrom
    \/ \A c \in Calls(invals[ts]) : \E b \in store.invalBuffer :
        /\ b.pin = ts
        /\ b.tag = CallTag(invals[ts], c)
        /\ b.descendants = CallDescendants(invals[ts], c)

(* A late put is never stored over a notice behind its upper bound that    *)
(* the buffer remembers, or has expired, and that bears on the put's tags: *)
(* the calls made for a tag, its ancestors and its descendants cover every *)
(* way in which one tag can bear on another.                               *)
LatePutsCaught ==
    \A put \in StillValidPuts :
        LET stored == StoredAs(put)
        IN  \A ts \in (put.upper + 1)..(IF stored.stillValid THEN L
                                        ELSE stored.upper - 1) :
                Remembered(ts) => ~Bears(invals[ts], TagsOfPut(put))

-----------------------------------------------------------------------------
(* The invalidation daemon forwards every notice the database queues and   *)
(* the server's event loop handles it; null notices are not promised.      *)
DeliverNotice == \E ts \in 2..latest : invals[ts] # <<>> /\ HandleInval(ts)

FairSpec == Spec /\ WF_vars(DeliverNotice)

Outdated ==
    \E e \in store.entries : /\ e.interval.stillValid /\ ~e.missed
                             /\ snap[latest][e.key] # e.data

(* A result that the database has changed does not stay still valid: the   *)
(* notices it depends on reach the entry through the tag index.            *)
ChangesReachEntries == Outdated ~> ~Outdated
=============================================================================
