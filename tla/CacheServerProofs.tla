------------------------- MODULE CacheServerProofs -------------------------
(*****************************************************************************)
(* The store is correct for any keys, results, tags, sizes and bounds.       *)
(*****************************************************************************)
EXTENDS HistoryProofs

\* More time than the default, which some of the leaves come close to.
USE SMTT(60)

-----------------------------------------------------------------------------
(* Store_TruncateIfAlreadyInvalidated only ends an interval, and never     *)
(* before its upper bound or after the last invalidation.                  *)
LEMMA PutIntervalOK ==
    ASSUME NEW s, NEW sn, NEW c, StoreOK(s, sn, c), Len(sn) \in Nat, Len(sn) <= MaxPin,
           NEW interval \in Intervals, NEW invalTags
    PROVE  LET iv == PutInterval(s, interval, invalTags)
           IN  /\ iv \in Intervals /\ iv.lower = interval.lower
               /\ interval.upper <= iv.upper
               /\ iv.upper <= MAX(interval.upper, s.lastInvalTime)
               /\ iv.stillValid => interval.stillValid /\ iv.upper = interval.upper
               /\ ~interval.stillValid => iv = interval
<1> DEFINE iv == PutInterval(s, interval, invalTags)
           hits == {b \in Consulted(s, interval.upper) :
                        \E t \in invalTags : TagMatches(b.tag, b.descendants, t)}
           pins == {b.pin : b \in hits}
<1>1. /\ interval.lower \in Pins /\ interval.upper \in Pins
      /\ interval.stillValid \in BOOLEAN /\ interval.upper \in Nat
      /\ s.lastInvalTime \in 1..Len(sn) /\ s.lastInvalTime \in Pins
      /\ \A b \in s.invalBuffer : b.pin \in 1..s.lastInvalTime
  BY PinInfAssumption, CacheServerAssumption DEF Intervals, Pins, StoreOK
<1>2. /\ interval.upper \in Nat
      /\ \A b \in hits : /\ b.pin \in Nat /\ b.pin > interval.upper
                         /\ b.pin <= s.lastInvalTime
  BY <1>1 DEF Consulted
<1>3. \/ iv = interval
      \/ interval.stillValid /\ iv = [interval EXCEPT !.stillValid = FALSE]
      \/ /\ interval.stillValid /\ hits # {}
         /\ iv = [interval EXCEPT !.stillValid = FALSE, !.upper = Min(pins)]
  BY DEF PutInterval, Store_TruncateIfAlreadyInvalidated
<1>4. ~interval.stillValid => iv = interval
  BY DEF PutInterval
<1> HIDE DEF hits, iv
<1>5. hits # {} => /\ Min(pins) \in Nat /\ Min(pins) > interval.upper
                   /\ Min(pins) <= s.lastInvalTime
  <2> SUFFICES ASSUME hits # {} PROVE /\ Min(pins) \in Nat /\ Min(pins) > interval.upper
                                      /\ Min(pins) <= s.lastInvalTime
    OBVIOUS
  <2>1. pins \in SUBSET Nat /\ pins # {}
    BY <1>2
  <2>2. \A p \in pins : p > interval.upper /\ p <= s.lastInvalTime
    BY <1>2
  <2> HIDE DEF pins
  <2> QED
    BY <2>1, <2>2, MinInSet, ZenonT(60)
<1> HIDE DEF pins
<1>6. CASE iv = interval
  BY <1>1, <1>4, <1>6 DEF MAX, iv
<1>7. CASE interval.stillValid /\ iv = [interval EXCEPT !.stillValid = FALSE]
  <2>1. iv \in Intervals /\ iv.lower = interval.lower /\ iv.upper = interval.upper
    BY <1>7, ZenonT(60) DEF Intervals
  <2>2. ~iv.stillValid
    BY <1>7 DEF Intervals
  <2> QED
    BY <1>1, <1>7, <2>1, <2>2 DEF MAX, iv
<1>8. CASE /\ interval.stillValid /\ hits # {}
           /\ iv = [interval EXCEPT !.stillValid = FALSE, !.upper = Min(pins)]
  <2> DEFINE m == Min(pins)
  <2>1. m \in Nat /\ m > interval.upper /\ m <= s.lastInvalTime /\ m \in Pins
    BY <1>1, <1>5, <1>8, PinInfAssumption DEF Pins
  <2> HIDE DEF m
  <2>2. iv = [interval EXCEPT !.stillValid = FALSE, !.upper = m]
    BY <1>8 DEF m
  <2>3. iv \in Intervals /\ iv.lower = interval.lower /\ iv.upper = m
    BY <2>1, <2>2, ZenonT(60) DEF Intervals
  <2>4. ~iv.stillValid
    BY <2>2 DEF Intervals
  <2> QED
    BY <1>1, <1>8, <2>1, <2>3, <2>4 DEF MAX, iv
<1> QED
  BY <1>3, <1>6, <1>7, <1>8

LEMMA PutEntryOK ==
    ASSUME NEW sn, NEW iv, HistoryOK(sn, iv), NEW c \in Nat, NEW s, StoreOK(s, sn, c),
           NEW key \in Keys, NEW data \in Values, NEW interval \in Intervals,
           interval.lower \in 1..Len(sn), interval.upper \in 2..(Len(sn) + 1),
           interval.lower < interval.upper,
           NEW invalTags, invalTags = (IF interval.stillValid THEN TagsOf[key][data] ELSE {}),
           NEW missed \in BOOLEAN,
           ~missed => HeldIn(sn, key, data, interval.lower,
                             Vouched(PutInterval(s, interval, invalTags), s.lastInvalTime))
    PROVE  EntryOK(PutEntry(s, key, interval, data, invalTags, c, missed),
                   sn, c, s.lastInvalTime)
<1> DEFINE now == s.lastInvalTime
           stored == PutInterval(s, interval, invalTags)
           tags == IF stored.stillValid THEN invalTags ELSE {}
           t == IF stored.stillValid THEN NotInvalidated ELSE c
           e == Entry(key, stored, data, tags, t, missed)
<1>1. /\ Len(sn) \in Nat /\ Len(sn) <= MaxPin /\ now \in 1..Len(sn)
  BY CacheServerAssumption DEF HistoryOK, StoreOK
<1>2. /\ stored \in Intervals /\ stored.lower = interval.lower
      /\ interval.upper <= stored.upper /\ stored.upper <= MAX(interval.upper, now)
      /\ stored.stillValid => interval.stillValid /\ stored.upper = interval.upper
  BY <1>1, PutIntervalOK
<1>3. e = PutEntry(s, key, interval, data, invalTags, c, missed)
  BY DEF PutEntry
<1> HIDE DEF stored
<1>4. tags \in SUBSET Tags /\ (stored.stillValid => tags = TagsOf[key][data])
  BY <1>2, CacheServerAssumption
<1>5. t \in Int /\ t \in {NotInvalidated} \cup 0..c
  BY DEF NotInvalidated
<1> HIDE DEF tags, t
<1>6. /\ e.key = key /\ e.interval = stored /\ e.data = data
      /\ e.invalTags = tags /\ e.timeInvalidated = t /\ e.missed = missed
  BY EntryFields
<1>7. e \in EntryType
  BY <1>2, <1>4, <1>5 DEF Entry, EntryType
<1> HIDE DEF e
<1>8. stored.upper \in 2..(Len(sn) + 1) /\ stored.lower < stored.upper
  BY <1>1, <1>2 DEF MAX, Intervals, Pins
<1>9. EntryOK(e, sn, c, now)
  BY <1>2, <1>4, <1>5, <1>6, <1>7, <1>8 DEF EntryOK, stored
<1> QED
  BY <1>3, <1>9

LEMMA HandlePutOK ==
    ASSUME IInv, NEW key \in Keys, NEW lower \in 1..latest, NEW stillValid \in BOOLEAN,
           NEW upper \in (lower + 1)..(latest + 1), HandlePut(key, lower, upper, stillValid)
    PROVE  StoreOK(store', snap, clock)
<1> DEFINE data == snap[lower][key]
           invalTags == IF stillValid THEN TagsOf[key][data] ELSE {}
           interval == [lower |-> lower, upper |-> upper, stillValid |-> stillValid]
           stored == PutInterval(store, interval, invalTags)
           missed == Missed(interval, stored, invalTags)
           n == Len(snap)
<1>1. /\ HistoryOK(snap, invals) /\ snap \in Seq([Keys -> Values])
      /\ n \in Nat /\ n <= MaxPin /\ clock \in Nat
      /\ StoreOK(store, snap, clock) /\ L \in 1..n /\ L = store.lastInvalTime
  BY CacheServerAssumption DEF IInv, HistoryOK, StoreOK, L
<1>2. /\ lower \in 1..n /\ upper \in 2..(n + 1) /\ lower < upper
  BY <1>1 DEF latest
<1>3. data \in Values
  BY <1>1, <1>2
<1>4. /\ HeldIn(snap, key, data, lower, upper)
      /\ store' = Store_Put(store, key, interval, data, invalTags, FALSE, clock, missed)
  BY DEF HandlePut, Held, HeldIn
<1> HIDE DEF data
<1>5. /\ interval \in Intervals /\ interval.lower = lower /\ interval.upper = upper
      /\ interval.stillValid = stillValid
  BY <1>1, <1>2, CacheServerAssumption, PinInfAssumption DEF Intervals, Pins
<1> HIDE DEF interval
<1>6. invalTags = IF interval.stillValid THEN TagsOf[key][data] ELSE {}
  BY <1>5
<1> HIDE DEF invalTags
<1>7. /\ stored \in Intervals /\ upper <= stored.upper /\ stored.upper <= MAX(upper, L)
      /\ stored.stillValid => interval.stillValid /\ stored.upper = upper
      /\ ~interval.stillValid => stored = interval
  BY <1>1, <1>5, PutIntervalOK
<1> HIDE DEF stored
<1>8. missed \in BOOLEAN
  BY DEF Missed
<1>9. ~missed => HeldIn(snap, key, data, lower, Vouched(stored, L))
  <2>1. CASE ~interval.stillValid
    <3>1. Vouched(stored, L) = upper
      BY <1>5, <1>7, <2>1 DEF Vouched
    <3> QED
      BY <1>4, <3>1
  <2>2. CASE interval.stillValid
    <3> SUFFICES ASSUME ~missed PROVE HeldIn(snap, key, data, lower, Vouched(stored, L))
      OBVIOUS
    <3>1. \A ts \in upper..(IF stored.stillValid THEN L ELSE stored.upper - 1) :
            ~Bears(invals[ts], TagsOf[key][data])
      BY <1>5, <1>6, <2>2 DEF Missed
    <3>2. Vouched(stored, L) \in 0..(n + 1)
      BY <1>1, <1>2, <1>7 DEF Vouched, MAX, Intervals, Pins
    <3>3. \A ts \in upper..(Vouched(stored, L) - 1) :
            ts \in upper..(IF stored.stillValid THEN L ELSE stored.upper - 1)
      BY <1>1, <1>2, <1>7 DEF Vouched, MAX, Intervals, Pins
    <3> QED
      BY <1>1, <1>2, <1>4, <3>1, <3>2, <3>3, HoldsOn, SMTT(30)
  <2> QED
    BY <2>1, <2>2
<1> HIDE DEF missed
<1>10. EntryOK(PutEntry(store, key, interval, data, invalTags, clock, missed),
               snap, clock, store.lastInvalTime)
  BY <1>1, <1>2, <1>3, <1>5, <1>6, <1>8, <1>9, PutEntryOK, ZenonT(60)
     DEF stored
<1> QED
  BY <1>1, <1>4, <1>10, PutOK, ZenonT(60)

LEMMA HandleForcedPutOK ==
    ASSUME IInv, NEW key \in Keys, NEW upper \in 2..(latest + 1),
           HandleForcedPut(key, upper)
    PROVE  StoreOK(store', snap, clock)
<1> DEFINE data == snap[upper - 1][key]
           invalTags == TagsOf[key][data]
           interval == [lower |-> PIN_NEG_INF, upper |-> upper, stillValid |-> TRUE]
           n == Len(snap)
<1>1. /\ HistoryOK(snap, invals) /\ snap \in Seq([Keys -> Values])
      /\ n \in Nat /\ n >= 1 /\ n <= MaxPin /\ clock \in Nat
      /\ StoreOK(store, snap, clock)
  BY CacheServerAssumption DEF IInv, HistoryOK
<1>2. upper \in 2..(n + 1) /\ upper - 1 \in 1..n
  BY <1>1 DEF latest
<1>3. data \in Values
  BY <1>1, <1>2
<1>4. store' = Store_Put(store, key, interval, data, invalTags, TRUE, clock, TRUE)
  BY DEF HandleForcedPut
<1> HIDE DEF data
<1>5. /\ interval \in Intervals /\ interval.lower = 1 /\ interval.upper = upper
      /\ interval.stillValid
  BY <1>1, <1>2, CacheServerAssumption, PinInfAssumption DEF Intervals, Pins, PIN_NEG_INF
<1> HIDE DEF interval
<1>6. invalTags = IF interval.stillValid THEN TagsOf[key][data] ELSE {}
  BY <1>5
<1> HIDE DEF invalTags
<1>7. /\ interval.lower \in 1..n /\ interval.upper \in 2..(n + 1)
      /\ interval.lower < interval.upper
  BY <1>1, <1>2, <1>5
<1>8. EntryOK(PutEntry(store, key, interval, data, invalTags, clock, TRUE),
              snap, clock, store.lastInvalTime)
  BY <1>1, <1>3, <1>5, <1>6, <1>7, PutEntryOK, ZenonT(60)
<1> QED
  BY <1>1, <1>4, <1>8, PutOK, ZenonT(60)

LEMMA NextOK == IInv /\ [Next]_vars => IInv'
<1> SUFFICES ASSUME IInv, [Next]_vars PROVE IInv'
  OBVIOUS
<1>1. /\ StoreOK(store, snap, clock) /\ HistoryOK(snap, invals)
      /\ clock \in 0..MaxClock /\ clock \in Nat /\ MaxClock \in Nat
  BY CacheServerAssumption DEF IInv
<1>2. ASSUME StoreOK(store', snap, clock), UNCHANGED <<clock, snap, invals>> PROVE IInv'
  BY <1>1, <1>2 DEF IInv
<1>3. ASSUME NEW new \in [Keys -> Values], NEW tags \in Notices, Commit(new, tags)
      PROVE  IInv'
  BY <1>3, CommitOK
<1>4. CASE Tick
  <2>1. /\ clock' = clock + 1 /\ clock < MaxClock /\ store' = store
        /\ snap' = snap /\ invals' = invals
    BY <1>4 DEF Tick
  <2>2. \A e, now : EntryOK(e, snap, clock, now) => EntryOK(e, snap, clock + 1, now)
    <3>1. 0..clock \subseteq 0..(clock + 1)
      BY <1>1
    <3> QED
      BY <3>1 DEF EntryOK
  <2>3. StoreOK(store, snap, clock + 1)
    BY <1>1, <2>2 DEF StoreOK
  <2> QED
    BY <1>1, <2>1, <2>3 DEF IInv
<1>5. ASSUME NEW ts \in 2..latest, HandleInval(ts) PROVE IInv'
  <2>1. /\ ts > store.lastInvalTime
        /\ \A p \in (store.lastInvalTime + 1)..(ts - 1) : invals[p] = <<>>
        /\ store' = Store_Invalidate(store, ts, invals[ts], clock)
        /\ UNCHANGED <<clock, snap, invals>>
    BY <1>5 DEF HandleInval, L
  <2>2. ts \in 2..Len(snap)
    BY DEF latest
  <2>3. StoreOK(Store_Invalidate(store, ts, invals[ts], clock), snap, clock)
    BY <1>1, <2>1, <2>2, InvalidateOK, ZenonT(60)
  <2> QED
    BY <1>2, <2>1, <2>3
<1>6. ASSUME NEW key \in Keys, NEW lower \in 1..latest, NEW stillValid \in BOOLEAN,
             NEW upper \in (lower + 1)..(latest + 1),
             HandlePut(key, lower, upper, stillValid)
      PROVE  IInv'
  <2>1. UNCHANGED <<clock, snap, invals>>
    BY <1>6 DEF HandlePut
  <2> QED
    BY <1>2, <1>6, <2>1, HandlePutOK
<1>7. ASSUME NEW key \in Keys, NEW upper \in 2..(latest + 1), HandleForcedPut(key, upper)
      PROVE  IInv'
  <2>1. UNCHANGED <<clock, snap, invals>>
    BY <1>7 DEF HandleForcedPut
  <2> QED
    BY <1>2, <1>7, <2>1, HandleForcedPutOK
<1>8. ASSUME NEW key, NEW lower, NEW upper, HandleLookup(key, lower, upper) PROVE IInv'
  <2>1. (\E e : store' = Store_Hit(store, e)) /\ UNCHANGED <<clock, snap, invals>>
    BY <1>8 DEF HandleLookup
  <2> QED
    BY <1>1, <1>2, <2>1, HitOK
<1>9. ASSUME NEW key, NEW lower, NEW upper, NEW earliestPin,
             HandleLookupScrewConsistency(key, lower, upper, earliestPin)
      PROVE  IInv'
  <2>1. (\E e : store' = Store_Hit(store, e)) /\ UNCHANGED <<clock, snap, invals>>
    BY <1>9 DEF HandleLookupScrewConsistency
  <2> QED
    BY <1>1, <1>2, <2>1, HitOK
<1>10. CASE HandleSigFlush
  BY <1>1, <1>2, <1>10, EvictOK DEF HandleSigFlush, Store_Flush
<1>11. CASE UNCHANGED vars
  BY <1>1, <1>11 DEF vars, IInv
<1> QED
  BY <1>3, <1>4, <1>5, <1>6, <1>7, <1>8, <1>9, <1>10, <1>11 DEF Next

(* The inductive invariant holds in every behaviour of the server. *)
THEOREM InvariantHolds == Spec => []IInv
<1> QED
  BY InitOK, NextOK, PTL DEF Spec

-----------------------------------------------------------------------------
(* What follows from it. *)

(* Every field of the store keeps its type and every stored interval is    *)
(* one that Interval_AssertValid accepts: the asserts of store.c on        *)
(* intervals never fire.                                                   *)
THEOREM TypeCorrect == Spec => []TypeOK
<1>1. IInv => TypeOK
  <2> SUFFICES ASSUME IInv PROVE TypeOK
    OBVIOUS
  <2>1. /\ StoreOK(store, snap, clock) /\ clock \in 0..MaxClock
        /\ latest \in 1..MaxPin /\ Len(invals) = latest
    BY DEF IInv, HistoryOK, latest
  <2>2. /\ store.lines \subseteq Keys /\ store.lastInvalTime \in 1..latest
        /\ store.bufferValidFrom \in 1..store.lastInvalTime
    BY <2>1 DEF StoreOK, latest
  <2>3. ASSUME NEW e \in store.entries
        PROVE  /\ e.key \in store.lines
               /\ e.interval \in Intervals /\ Interval_AssertValid(e.interval)
               /\ e.interval.lower < e.interval.upper
               /\ e.data \in Values
               /\ e.timeInvalidated \in {NotInvalidated} \cup 0..clock
               /\ e.missed \in BOOLEAN
    <3>1. EntryOK(e, snap, clock, store.lastInvalTime) /\ e.key \in store.lines
      BY <2>1 DEF StoreOK
    <3>2. /\ e.interval \in Intervals /\ e.data \in Values /\ e.missed \in BOOLEAN
      BY <3>1 DEF EntryOK, EntryType
    <3>3. /\ e.interval.lower \in 1..latest /\ e.interval.lower < e.interval.upper
          /\ e.interval.upper \in 2..(latest + 1)
          /\ e.timeInvalidated \in {NotInvalidated} \cup 0..clock
      BY <3>1 DEF EntryOK, latest
    <3>4. Interval_AssertValid(e.interval)
      BY <2>1, <3>3, CacheServerAssumption, PinInfAssumption
         DEF Interval_AssertValid, PIN_INVALID, PIN_NEG_INF
    <3> QED
      BY <3>1, <3>2, <3>3, <3>4
  <2> QED
    BY <2>1, <2>2, <2>3 DEF TypeOK
<1> QED
  BY <1>1, InvariantHolds, PTL

(* No order of commits, notices, late puts, extensions and evictions makes *)
(* the store vouch for a wrong result, unless the invalidation buffer hid  *)
(* an invalidation from a late put.                                        *)
THEOREM StoredResultsCorrect == Spec => []EntriesCorrect
<1>1. IInv => EntriesCorrect
  BY DEF IInv, StoreOK, EntryOK, EntriesCorrect, Held, HeldIn, VouchedUpper, Vouched, L
<1> QED
  BY <1>1, InvariantHolds, PTL

(* The tag index is exactly the tags of the still-valid entries, whatever  *)
(* is put, extended, truncated, removed or evicted.                        *)
THEOREM IndexCorrect == Spec => []IndexExact
<1>1. IInv => IndexExact
  <2> SUFFICES ASSUME IInv PROVE IndexExact
    OBVIOUS
  <2>1. \A m : m \in store.invalMap <=> Indexed(store, m)
    BY DEF IInv, StoreOK
  <2>2. store.invalMap =
          UNION {TagPairs(e) : e \in {f \in store.entries : f.interval.stillValid}}
    BY <2>1 DEF Indexed
  <2>3. ASSUME NEW e \in store.entries, e.interval.stillValid
        PROVE  e.invalTags # {}
    <3>1. /\ e \in EntryType /\ e.invalTags = TagsOf[e.key][e.data]
      BY <2>3 DEF IInv, StoreOK, EntryOK
    <3>2. e.key \in Keys /\ e.data \in Values
      BY <3>1 DEF EntryType
    <3> QED
      BY <3>1, <3>2, CacheServerAssumption
  <2> QED
    BY <2>2, <2>3 DEF IndexExact
<1> QED
  BY <1>1, InvariantHolds, PTL

(* What a lookup returns overlaps the request, is true at every pin it     *)
(* promises, and carries its tags while it is still valid.                 *)
THEOREM RepliesCorrect == Spec => []RepliesTruthful
<1>1. IInv => RepliesTruthful
  <2> SUFFICES ASSUME IInv, NEW key \in Keys, NEW lower \in 1..latest,
                      NEW upper \in 2..(latest + 1), lower < upper,
                      NEW e \in LatestAcceptable_Lookup(store, key, Request(lower, upper)),
                      NEW reply, reply = ReplyInterval(store, e)
               PROVE  /\ reply.lower < upper /\ reply.upper > lower
                      /\ ~e.missed => /\ reply.upper <= latest + 1
                                      /\ Held(key, e.data, reply.lower, reply.upper)
                      /\ reply.stillValid => e.invalTags = TagsOf[key][e.data]
    BY DEF RepliesTruthful
  <2> DEFINE req == Request(lower, upper)
             now == store.lastInvalTime
  <2>1. /\ req.lower = lower /\ req.upper = upper /\ ~req.stillValid
    BY DEF Request
  <2> HIDE DEF req
  <2>2. /\ e \in store.entries /\ e.key = key /\ e.interval.lower < upper
        /\ Interval_Overlaps(e.interval, req, now)
    BY <2>1 DEF LatestAcceptable_Lookup, LatestBefore, req
  <2>3. /\ latest \in Nat /\ latest <= MaxPin /\ now \in 1..latest
        /\ EntryOK(e, snap, clock, now) /\ e \in EntryType
    <3>1. StoreOK(store, snap, clock) /\ HistoryOK(snap, invals)
      BY DEF IInv
    <3>2. latest \in Nat /\ latest <= MaxPin
      BY <3>1, CacheServerAssumption DEF HistoryOK, latest
    <3>3. now \in 1..latest /\ EntryOK(e, snap, clock, now)
      BY <2>2, <3>1 DEF StoreOK, latest
    <3>4. e \in EntryType
      BY <3>3 DEF EntryOK
    <3> QED
      BY <3>2, <3>3, <3>4
  <2>4. /\ e.interval \in Intervals
        /\ e.interval.lower \in 1..latest /\ e.interval.upper \in 2..(latest + 1)
        /\ e.interval.lower < e.interval.upper
        /\ e.interval.stillValid => e.invalTags = TagsOf[key][e.data]
        /\ ~e.missed => HeldIn(snap, key, e.data, e.interval.lower,
                               Vouched(e.interval, now))
    BY <2>2, <2>3 DEF EntryOK, EntryType, latest
  <2>5. /\ reply.lower = e.interval.lower
        /\ reply.upper = EffectiveUpper(e.interval, now)
        /\ reply.stillValid = e.interval.stillValid
    <3>1. reply.lower = e.interval.lower /\ reply.stillValid = e.interval.stillValid
      BY <2>4 DEF ReplyInterval, Intervals
    <3>2. reply.upper = EffectiveUpper(e.interval, now)
      BY <2>4 DEF ReplyInterval, Intervals, EffectiveUpper, MAX
    <3> QED
      BY <3>1, <3>2
  <2>6. /\ EffectiveUpper(e.interval, now) \in 2..(latest + 1)
        /\ EffectiveUpper(e.interval, now) >= e.interval.upper
        /\ EffectiveUpper(e.interval, now) <= Vouched(e.interval, now)
        /\ Vouched(e.interval, now) \in Nat
    BY <2>3, <2>4 DEF EffectiveUpper, Vouched, MAX
  <2>7. reply.upper > lower
    <3>1. e.interval.upper # PIN_INF
      BY <2>3, <2>4, CacheServerAssumption, PinInfAssumption
    <3> QED
      BY <2>1, <2>2, <2>3, <2>4, <2>5, <2>6, <3>1 DEF Interval_Overlaps
  <2>8. ~e.missed => Held(key, e.data, reply.lower, reply.upper)
    BY <2>3, <2>4, <2>5, <2>6 DEF Held, HeldIn
  <2> QED
    BY <2>2, <2>3, <2>4, <2>5, <2>6, <2>7, <2>8
<1> QED
  BY <1>1, InvariantHolds, PTL

(* A notice behind the put's upper bound that bears on its tags, and is    *)
(* wholly in the buffer, ends the put's interval at that notice or before. *)
LEMMA SearchCovers ==
    ASSUME NEW sn, NEW iv, HistoryOK(sn, iv), NEW c, NEW s, StoreOK(s, sn, c),
           NEW interval \in Intervals, interval.stillValid,
           NEW tags \in SUBSET Tags,
           NEW stored, stored = PutInterval(s, interval, tags),
           NEW ts \in Nat, ts > interval.upper, ts <= s.lastInvalTime,
           stored.stillValid \/ ts < stored.upper,
           Bears(iv[ts], tags),
           \/ ts <= s.bufferValidFrom
           \/ \A d \in Calls(iv[ts]) : \E b \in s.invalBuffer :
                /\ b.pin = ts
                /\ b.tag = CallTag(iv[ts], d)
                /\ b.descendants = CallDescendants(iv[ts], d)
    PROVE  FALSE
<1> DEFINE hits == {b \in Consulted(s, interval.upper) :
                        \E t \in tags : TagMatches(b.tag, b.descendants, t)}
           pins == {b.pin : b \in hits}
           notice == iv[ts]
<1>1. /\ s.lastInvalTime \in 1..Len(sn) /\ Len(sn) \in Nat /\ Len(iv) = Len(sn)
      /\ iv \in Seq(Seq(Tags))
      /\ s.bufferValidFrom \in 1..s.lastInvalTime /\ interval.upper \in Nat
      /\ \A b \in s.invalBuffer : b.pin \in 1..s.lastInvalTime
  BY CacheServerAssumption DEF StoreOK, HistoryOK, Intervals, Pins
<1>2. /\ ~(interval.upper > s.lastInvalTime)
      /\ ts \in 1..Len(iv)
  BY <1>1
<1>3. IF interval.upper <= s.bufferValidFrom
      THEN stored = [interval EXCEPT !.stillValid = FALSE]
      ELSE IF hits = {} THEN stored = interval
      ELSE stored = [interval EXCEPT !.stillValid = FALSE, !.upper = Min(pins)]
  BY <1>2 DEF PutInterval, Store_TruncateIfAlreadyInvalidated
<1>4. CASE interval.upper <= s.bufferValidFrom
  <2>1. stored.upper = interval.upper /\ ~stored.stillValid
    BY <1>3, <1>4 DEF Intervals
  <2> QED
    BY <1>1, <2>1
<1>5. CASE ~(interval.upper <= s.bufferValidFrom)
  <2>1. notice \in Seq(Tags)
    BY <1>1, <1>2
  <2>2. PICK i \in 1..Len(notice) : \E t \in tags : Related(notice[i], t)
    BY DEF Bears
  <2>3. PICK t \in tags : Related(notice[i], t)
    BY <2>2
  <2>4. PICK d \in Calls(notice) :
            TagMatches(CallTag(notice, d), CallDescendants(notice, d), t)
    <3> HIDE DEF notice
    <3> QED
      BY <2>1, <2>3, CallsCover
  <2>5. PICK b \in s.invalBuffer :
            /\ b.pin = ts /\ b.tag = CallTag(notice, d)
            /\ b.descendants = CallDescendants(notice, d)
    BY <1>1, <1>5
  <2>6. b \in hits
    BY <2>4, <2>5 DEF Consulted
  <2>7. ts \in pins /\ pins \in SUBSET Nat
    <3>1. \A x \in hits : x.pin \in Nat
      BY <1>1 DEF Consulted
    <3> HIDE DEF hits
    <3> QED
      BY <2>5, <2>6, <3>1
  <2> DEFINE m == Min(pins)
  <2>8. m <= ts /\ m \in Nat
    <3> HIDE DEF pins
    <3> QED
      BY <2>7, MinInSet
  <2>9. stored = [interval EXCEPT !.stillValid = FALSE, !.upper = m]
    BY <1>3, <1>5, <2>6
  <2> HIDE DEF m
  <2>10. stored.upper = m /\ ~stored.stillValid
    BY <2>9 DEF Intervals
  <2> QED
    BY <2>8, <2>10
<1> QED
  BY <1>4, <1>5

(* A late put never overrides an invalidation that the buffer remembers or *)
(* has expired: the calls Store_InvalidateTagAndAncestorsDescendants makes *)
(* for a tag, and the search of Store_TruncateIfAlreadyInvalidated, cover  *)
(* every way in which one tag can bear on another.                         *)
THEOREM BufferSearchCorrect == Spec => []LatePutsCaught
<1>1. IInv => LatePutsCaught
  <2> SUFFICES ASSUME IInv, NEW put \in StillValidPuts
               PROVE  LET stored == StoredAs(put)
                      IN  \A ts \in (put.upper + 1)..(IF stored.stillValid THEN L
                                                      ELSE stored.upper - 1) :
                            Remembered(ts) => ~Bears(invals[ts], TagsOfPut(put))
    BY DEF LatePutsCaught
  <2> DEFINE tags == TagsOfPut(put)
             iv == [lower |-> put.lower, upper |-> put.upper, stillValid |-> TRUE]
             stored == StoredAs(put)
             last == IF stored.stillValid THEN L ELSE stored.upper - 1
  <2>1. /\ StoreOK(store, snap, clock) /\ HistoryOK(snap, invals)
        /\ latest \in Nat /\ latest <= MaxPin /\ latest = Len(snap)
        /\ L \in 1..latest /\ L = store.lastInvalTime
        /\ snap \in Seq([Keys -> Values])
    BY CacheServerAssumption DEF IInv, StoreOK, HistoryOK, L, latest
  <2>2. /\ put.key \in Keys /\ put.lower \in 1..latest
        /\ put.upper \in 2..(latest + 1) /\ put.upper \in Nat
    BY <2>1 DEF StillValidPuts
  <2>3. tags \in SUBSET Tags
    <3>1. snap[put.lower] \in [Keys -> Values]
      BY <2>1, <2>2
    <3>2. snap[put.lower][put.key] \in Values
      BY <2>2, <3>1
    <3> QED
      BY <2>2, <3>2, CacheServerAssumption DEF TagsOfPut
  <2>4. /\ iv \in Intervals /\ iv.upper = put.upper /\ iv.stillValid
    BY <2>1, <2>2, CacheServerAssumption, PinInfAssumption DEF Intervals, Pins
  <2>5. stored = PutInterval(store, iv, tags)
    BY DEF StoredAs
  <2> HIDE DEF tags, iv, stored
  <2>6. stored.upper \in Nat /\ stored.upper <= MAX(put.upper, L)
    <3>1. stored \in Intervals /\ stored.upper <= MAX(put.upper, L)
      BY <2>1, <2>4, <2>5, PutIntervalOK
    <3> QED
      BY <3>1 DEF Intervals, Pins
  <2>7. /\ last \in Int /\ (last <= L \/ last < put.upper)
        /\ stored.stillValid \/ last < stored.upper
    BY <2>1, <2>2, <2>6 DEF MAX
  <2> HIDE DEF last
  <2>8. ASSUME NEW ts \in (put.upper + 1)..last, Remembered(ts), Bears(invals[ts], tags)
        PROVE  FALSE
    <3>1. /\ ts \in Nat /\ ts > iv.upper /\ ts <= store.lastInvalTime
          /\ stored.stillValid \/ ts < stored.upper
      BY <2>1, <2>2, <2>4, <2>6, <2>7
    <3> QED
      BY <2>1, <2>3, <2>4, <2>5, <2>8, <3>1, SearchCovers DEF Remembered
  <2> QED
    BY <2>8 DEF tags, stored, last
<1> QED
  BY <1>1, InvariantHolds, PTL
=============================================================================
