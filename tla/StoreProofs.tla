---------------------------- MODULE StoreProofs ----------------------------
(*****************************************************************************)
(* The inductive invariant of CacheServer, and lemmas saying that removing,  *)
(* evicting, truncating, extending and putting entries keep the store's part *)
(* of it.                                                                    *)
(*****************************************************************************)
EXTENDS CacheServer, WellFoundedInduction, TLAPS

\* More time than the default, which some of the leaves come close to.
USE SMTT(60)

-----------------------------------------------------------------------------
(* Operators on tags and numbers. *)

LEMMA WholeSeq ==
    ASSUME NEW u \in Seq(Nat)
    PROVE  SubSeq(u, 1, Len(u)) = u
  OBVIOUS

(* The calls for a tag, its ancestors and its descendants find every tag   *)
(* that it bears on.                                                       *)
LEMMA CallsCover ==
    ASSUME NEW tags \in Seq(Tags), NEW i \in 1..Len(tags), NEW t \in Tags,
           Related(tags[i], t)
    PROVE  \E c \in Calls(tags) :
               TagMatches(CallTag(tags, c), CallDescendants(tags, c), t)
<1> DEFINE u == tags[i]
<1>1. u \in Seq(Nat) /\ t \in Seq(Nat) /\ Len(u) \in Nat \ {0} /\ Len(t) \in Nat \ {0}
  BY DEF Tags
<1>2. \A j \in 1..Len(u) :
        /\ <<i, j>> \in Calls(tags)
        /\ CallTag(tags, <<i, j>>) = SubSeq(u, 1, j)
        /\ CallDescendants(tags, <<i, j>>) = (j = Len(u))
  BY DEF Calls, CallTag, CallDescendants
<1> HIDE DEF u
<1>3. CASE IsPrefix(u, t)
  <2>1. TagMatches(SubSeq(u, 1, Len(u)), TRUE, t)
    BY <1>1, <1>3, WholeSeq, ZenonT(60) DEF TagMatches
  <2>2. Len(u) \in 1..Len(u)
    BY <1>1
  <2> QED
    BY <1>2, <2>1, <2>2, Zenon
<1>4. CASE IsPrefix(t, u)
  <2>1. Len(t) \in 1..Len(u) /\ SubSeq(u, 1, Len(t)) = t
    BY <1>1, <1>4, WholeSeq DEF IsPrefix
  <2>2. IsPrefix(t, t)
    BY <1>1 DEF IsPrefix
  <2>3. TagMatches(t, Len(t) = Len(u), t)
    BY <2>2 DEF TagMatches
  <2> QED
    BY <1>2, <2>1, <2>3, ZenonT(60)
<1> QED
  BY <1>3, <1>4 DEF Related, u

LEMMA MinInSet ==
    ASSUME NEW S \in SUBSET Nat, S # {}
    PROVE  Min(S) \in S /\ \A y \in S : Min(S) <= y
<1>1. PICK x \in S : \A y \in S : ~(<<y, x>> \in OpToRel(<, Nat))
  BY NatLessThanWellFounded, WFMin, ZenonT(60)
<1>2. \A y \in S : y < x => <<y, x>> \in OpToRel(<, Nat)
  BY ZenonT(60) DEF OpToRel
<1>3. \A y \in S : ~(y < x)
  BY <1>1, <1>2, ZenonT(60)
<1>4. \A y \in S : x <= y
  BY <1>3
<1> QED
  BY <1>4, ZenonT(60) DEF Min

LEMMA MaxInSet ==
    ASSUME NEW n \in Nat, NEW S \in SUBSET (0..n), S # {}
    PROVE  Max(S) \in S /\ \A y \in S : Max(S) >= y
<1> DEFINE T == {n - y : y \in S}
<1>1. T \in SUBSET Nat /\ T # {}
  <2>1. PICK z \in S : TRUE
    BY ZenonT(60)
  <2>2. n - z \in T
    OBVIOUS
  <2>3. \A y \in S : n - y \in Nat
    OBVIOUS
  <2> QED
    BY <2>2, <2>3
<1>2. PICK m \in T : \A y \in T : m <= y
  BY <1>1, MinInSet, ZenonT(60)
<1>3. PICK x \in S : m = n - x
  OBVIOUS
<1>4. \A y \in S : x >= y
  BY <1>2, <1>3
<1> QED
  BY <1>4, ZenonT(60) DEF Max

-----------------------------------------------------------------------------
(* The inductive invariant.  sn, iv and c stand for snap, invals and clock. *)

EntryType ==
    [key : Keys, interval : Intervals, data : Values, invalTags : SUBSET Tags,
     timeInvalidated : Int, missed : BOOLEAN]

(* data is the result of key at every pin of [lower, upper). *)
HeldIn(sn, key, data, lower, upper) ==
    \A p \in lower..(upper - 1) : sn[p][key] = data

(* VouchedUpper, with the last invalidation heard of as a parameter. *)
Vouched(interval, now) ==
    IF interval.stillValid THEN MAX(interval.upper, now + 1) ELSE interval.upper

EntryOK(e, sn, c, now) ==
    /\ e \in EntryType
    /\ e.interval.lower \in 1..Len(sn)
    /\ e.interval.lower < e.interval.upper
    /\ e.interval.upper \in 2..(Len(sn) + 1)
    /\ e.timeInvalidated \in {NotInvalidated} \cup 0..c
    /\ e.interval.stillValid => e.invalTags = TagsOf[e.key][e.data]
    /\ ~e.missed => HeldIn(sn, e.key, e.data, e.interval.lower,
                           Vouched(e.interval, now))

IsStore(s) ==
    s \in [lines : {s.lines}, entries : {s.entries}, entryBytes : {s.entryBytes},
           lastInvalTime : {s.lastInvalTime}, invalMap : {s.invalMap},
           invalBuffer : {s.invalBuffer}, bufferValidFrom : {s.bufferValidFrom},
           lru : {s.lru}]

Indexed(s, m) == \E e \in s.entries : e.interval.stillValid /\ m \in TagPairs(e)

StoreOK(s, sn, c) ==
    /\ IsStore(s)
    /\ s.lines \subseteq Keys
    /\ \A e \in s.entries : EntryOK(e, sn, c, s.lastInvalTime) /\ e.key \in s.lines
    /\ \A e, f \in s.entries : EntryAt(e) = EntryAt(f) => e = f
    /\ \A m : m \in s.invalMap <=> Indexed(s, m)
    /\ s.lastInvalTime \in 1..Len(sn)
    /\ s.bufferValidFrom \in 1..s.lastInvalTime
    /\ \A b \in s.invalBuffer : b.pin \in 1..s.lastInvalTime

(* A result changes only at a commit that announces a tag that bears on it. *)
DBContract(sn, iv) ==
    \A key \in Keys : \A p, q \in 1..Len(sn) :
        /\ p <= q
        /\ \A t \in (p + 1)..q : ~Bears(iv[t], TagsOf[key][sn[p][key]])
        => sn[q][key] = sn[p][key]

HistoryOK(sn, iv) ==
    /\ sn \in Seq([Keys -> Values])
    /\ iv \in Seq(Seq(Tags))
    /\ Len(iv) = Len(sn)
    /\ Len(sn) \in 1..MaxPin
    /\ DBContract(sn, iv)

IInv ==
    /\ StoreOK(store, snap, clock)
    /\ HistoryOK(snap, invals)
    /\ clock \in 0..MaxClock

-----------------------------------------------------------------------------
(* Every operation of the store keeps StoreOK. *)

LEMMA RemoveOK ==
    ASSUME NEW s, NEW sn, NEW c, StoreOK(s, sn, c), NEW gone \in SUBSET s.entries
    PROVE  /\ StoreOK(RemoveEntries(s, gone), sn, c)
           /\ RemoveEntries(s, gone).lines = s.lines
           /\ RemoveEntries(s, gone).entries = s.entries \ gone
           /\ RemoveEntries(s, gone).lastInvalTime = s.lastInvalTime
<1> DEFINE r == RemoveEntries(s, gone)
<1>0. IsStore(s)
  BY DEF StoreOK
<1>1. /\ IsStore(r) /\ r.lines = s.lines /\ r.entries = s.entries \ gone
      /\ r.lastInvalTime = s.lastInvalTime /\ r.invalBuffer = s.invalBuffer
      /\ r.bufferValidFrom = s.bufferValidFrom
      /\ r.invalMap = s.invalMap \ UNION {TagPairs(e) : e \in gone}
  BY <1>0, ZenonT(60) DEF IsStore, RemoveEntries
<1> HIDE DEF r
<1>2. \A m : m \in r.invalMap <=> Indexed(r, m)
  <2> TAKE m
  <2>1. ASSUME m \in r.invalMap PROVE Indexed(r, m)
    <3>1. PICK e \in s.entries : e.interval.stillValid /\ m \in TagPairs(e)
      BY <1>1, <2>1 DEF StoreOK, Indexed
    <3>2. e \notin gone
      BY <1>1, <2>1, <3>1
    <3> QED
      BY <1>1, <3>1, <3>2 DEF Indexed
  <2>2. ASSUME Indexed(r, m) PROVE m \in r.invalMap
    <3>1. PICK e \in s.entries \ gone : e.interval.stillValid /\ m \in TagPairs(e)
      BY <1>1, <2>2 DEF Indexed
    <3>2. m \in s.invalMap
      BY <3>1 DEF StoreOK, Indexed
    <3>3. ASSUME NEW g \in gone, m \in TagPairs(g) PROVE FALSE
      <4>1. EntryAt(e) = EntryAt(g)
        BY <3>1, <3>3 DEF TagPairs
      <4> QED
        BY <3>1, <4>1 DEF StoreOK
    <3> QED
      BY <1>1, <3>2, <3>3
  <2> QED
    BY <2>1, <2>2
<1> QED
  BY <1>1, <1>2 DEF StoreOK, r

LEMMA EvictOK ==
    ASSUME NEW s, NEW sn, NEW c, StoreOK(s, sn, c), NEW n
    PROVE  /\ StoreOK(Store_Evict(s, n), sn, c)
           /\ Store_Evict(s, n).lines = s.lines
           /\ Store_Evict(s, n).lastInvalTime = s.lastInvalTime
<1>1. Oldest(s, EvictCount(s, n)) \in SUBSET s.entries
  BY DEF Oldest
<1> QED
  BY <1>1, RemoveOK DEF Store_Evict

LEMMA AddOK ==
    ASSUME NEW s, NEW sn, NEW c, StoreOK(s, sn, c),
           NEW e, EntryOK(e, sn, c, s.lastInvalTime), e.key \in s.lines,
           e.interval.stillValid \/ e.invalTags = {}
    PROVE  StoreOK(Store_Add(s, e), sn, c)
<1> DEFINE need == Store_Footprint(s) + FootprintOf(e) - MaxBytes
           room == IF need > 0 THEN Store_Evict(s, need) ELSE s
           r == [room EXCEPT
                    !.entries = @ \cup {e},
                    !.entryBytes = @ + FootprintOf(e),
                    !.invalMap = @ \cup TagPairs(e),
                    !.lru = LRUEviction_Put(@, e, FALSE)]
<1>1. /\ StoreOK(room, sn, c)
      /\ room.lines = s.lines /\ room.lastInvalTime = s.lastInvalTime
  <2> HIDE DEF need
  <2> QED
    BY EvictOK
<1>2. \/ Store_Add(s, e) = room
      \/ /\ Store_Add(s, e) = r
         /\ \A f \in room.entries : EntryAt(f) # EntryAt(e)
  <2> HIDE DEF need
  <2> QED
    BY DEF Store_Add, need
<1> HIDE DEF room
<1>3. IsStore(room)
  BY <1>1 DEF StoreOK
<1>4. /\ IsStore(r) /\ r.lines = room.lines /\ r.entries = room.entries \cup {e}
      /\ r.lastInvalTime = room.lastInvalTime /\ r.invalBuffer = room.invalBuffer
      /\ r.bufferValidFrom = room.bufferValidFrom
      /\ r.invalMap = room.invalMap \cup TagPairs(e)
  BY <1>3, ZenonT(60) DEF IsStore
<1> HIDE DEF r
<1>5. ASSUME \A f \in room.entries : EntryAt(f) # EntryAt(e)
      PROVE  StoreOK(r, sn, c)
  <2>1. \A m : m \in r.invalMap <=> Indexed(r, m)
    <3>1. \A m : m \in room.invalMap <=> Indexed(room, m)
      BY <1>1 DEF StoreOK
    <3>2. CASE e.interval.stillValid
      BY <3>1, <3>2, <1>4 DEF Indexed
    <3>3. CASE ~e.interval.stillValid
      <4>1. TagPairs(e) = {}
        BY <3>3 DEF TagPairs
      <4> QED
        BY <3>1, <3>3, <1>4, <4>1 DEF Indexed
    <3> QED
      BY <3>2, <3>3
  <2>2. \A f \in r.entries : EntryOK(f, sn, c, r.lastInvalTime) /\ f.key \in r.lines
    BY <1>1, <1>4 DEF StoreOK
  <2>3. \A f, g \in r.entries : EntryAt(f) = EntryAt(g) => f = g
    BY <1>1, <1>4, <1>5 DEF StoreOK
  <2> QED
    BY <1>1, <1>4, <2>1, <2>2, <2>3 DEF StoreOK
<1> QED
  BY <1>1, <1>2, <1>5

(* An entry gives way to another at the same place. *)
LEMMA ReplaceOK ==
    ASSUME NEW s, NEW sn, NEW c, StoreOK(s, sn, c),
           NEW old \in s.entries, NEW new, NEW r, IsStore(r),
           EntryOK(new, sn, c, s.lastInvalTime), EntryAt(new) = EntryAt(old),
           new.key = old.key,
           r.lines = s.lines, r.entries = (s.entries \ {old}) \cup {new},
           r.lastInvalTime = s.lastInvalTime, r.invalBuffer = s.invalBuffer,
           r.bufferValidFrom = s.bufferValidFrom,
           \/ /\ r.invalMap = s.invalMap
              /\ new.interval.stillValid = old.interval.stillValid
              /\ new.invalTags = old.invalTags
           \/ /\ r.invalMap = s.invalMap \ TagPairs(old)
              /\ ~new.interval.stillValid
    PROVE  StoreOK(r, sn, c)
<1>1. \A f, g \in r.entries : EntryAt(f) = EntryAt(g) => f = g
  BY DEF StoreOK
<1>2. \A m : m \in s.invalMap <=> Indexed(s, m)
  BY DEF StoreOK
<1>3. \A m : m \in r.invalMap <=> Indexed(r, m)
  <2>1. CASE /\ r.invalMap = s.invalMap
             /\ new.interval.stillValid = old.interval.stillValid
             /\ new.invalTags = old.invalTags
    <3>1. TagPairs(new) = TagPairs(old)
      BY <2>1 DEF TagPairs
    <3> QED
      BY <1>2, <2>1, <3>1 DEF Indexed
  <2>2. CASE r.invalMap = s.invalMap \ TagPairs(old) /\ ~new.interval.stillValid
    <3>1. \A e \in s.entries : \A m : m \in TagPairs(e) /\ m \in TagPairs(old) => e = old
      <4> SUFFICES ASSUME NEW e \in s.entries, NEW m \in TagPairs(e), m \in TagPairs(old)
                   PROVE  e = old
        OBVIOUS
      <4>1. EntryAt(e) = EntryAt(old)
        BY DEF TagPairs
      <4> QED
        BY <4>1 DEF StoreOK
    <3> QED
      BY <1>2, <2>2, <3>1 DEF Indexed
  <2> QED
    BY <2>1, <2>2
<1>4. \A f \in r.entries : EntryOK(f, sn, c, r.lastInvalTime) /\ f.key \in r.lines
  BY DEF StoreOK
<1> QED
  BY <1>1, <1>3, <1>4 DEF StoreOK

LEMMA TruncatedFields ==
    ASSUME NEW e \in EntryType, NEW t \in Int, NEW cut,
           MAX(e.interval.upper, cut) \in Pins
    PROVE  LET x == Truncated(e, cut, t)
           IN  /\ x \in EntryType
               /\ x.key = e.key /\ x.data = e.data /\ x.missed = e.missed
               /\ x.timeInvalidated = t
               /\ x.interval.lower = e.interval.lower
               /\ x.interval.upper = MAX(e.interval.upper, cut)
               /\ ~x.interval.stillValid
<1> DEFINE up == MAX(e.interval.upper, cut)
           iv == [lower |-> e.interval.lower, upper |-> up, stillValid |-> FALSE]
           x == [e EXCEPT !.interval = iv, !.timeInvalidated = t]
<1>1. iv \in Intervals /\ iv.lower = e.interval.lower /\ iv.upper = up /\ ~iv.stillValid
  BY DEF EntryType, Intervals
<1>2. x = Truncated(e, cut, t)
  BY DEF Truncated
<1> HIDE DEF iv
<1>3. x \in EntryType
  BY <1>1, ZenonT(60) DEF EntryType
<1>4. x.key = e.key /\ x.data = e.data
  BY DEF EntryType
<1>5. x.missed = e.missed
  BY DEF EntryType
<1>6. x.timeInvalidated = t /\ x.interval = iv
  BY DEF EntryType
<1> HIDE DEF x
<1> QED
  BY <1>1, <1>2, <1>3, <1>4, <1>5, <1>6

(* Cutting a still-valid entry off at a pin it vouches for. *)
LEMMA TruncatedOK ==
    ASSUME NEW sn \in Seq([Keys -> Values]), NEW c \in Nat, Len(sn) <= MaxPin,
           NEW now \in 1..Len(sn), NEW cut \in 1..Len(sn),
           NEW e, e \in EntryType,
           e.interval.lower \in 1..Len(sn), e.interval.lower < e.interval.upper,
           e.interval.upper \in 2..(Len(sn) + 1),
           ~e.missed => HeldIn(sn, e.key, e.data, e.interval.lower,
                               MAX(e.interval.upper, cut))
    PROVE  /\ EntryOK(Truncated(e, cut, c), sn, c, now)
           /\ EntryAt(Truncated(e, cut, c)) = EntryAt(e)
           /\ Truncated(e, cut, c).key = e.key
           /\ ~Truncated(e, cut, c).interval.stillValid
<1> DEFINE x == Truncated(e, cut, c)
           up == MAX(e.interval.upper, cut)
<1>1. up \in 2..(Len(sn) + 1) /\ e.interval.lower < up /\ up \in Pins
  BY CacheServerAssumption, PinInfAssumption, SMTT(30) DEF MAX, Pins
<1>2. /\ x \in EntryType
      /\ x.key = e.key /\ x.data = e.data /\ x.missed = e.missed
      /\ x.timeInvalidated = c
      /\ x.interval.lower = e.interval.lower /\ x.interval.upper = up
      /\ ~x.interval.stillValid
  BY <1>1, TruncatedFields
<1> HIDE DEF x, up
<1>3. Vouched(x.interval, now) = up
  BY <1>2 DEF Vouched
<1>4. EntryOK(x, sn, c, now)
  BY <1>1, <1>2, <1>3 DEF EntryOK, up
<1> QED
  BY <1>2, <1>4 DEF EntryAt, x

LEMMA TruncateOK ==
    ASSUME NEW s, NEW sn \in Seq([Keys -> Values]), NEW c \in Nat, Len(sn) <= MaxPin,
           StoreOK(s, sn, c), NEW e \in s.entries, e.interval.stillValid
    PROVE  LET r == Store_TruncateUnboundedInterval(s, e, s.lastInvalTime, c)
               x == Truncated(e, s.lastInvalTime, c)
           IN  /\ StoreOK(r, sn, c)
               /\ r.lines = s.lines /\ r.lastInvalTime = s.lastInvalTime
               /\ x \in r.entries /\ x.key = e.key
<1> DEFINE r == Store_TruncateUnboundedInterval(s, e, s.lastInvalTime, c)
           x == Truncated(e, s.lastInvalTime, c)
<1>1. IsStore(s) /\ EntryOK(e, sn, c, s.lastInvalTime) /\ s.lastInvalTime \in 1..Len(sn)
  BY DEF StoreOK
<1>2. ~e.missed => HeldIn(sn, e.key, e.data, e.interval.lower,
                          MAX(e.interval.upper, s.lastInvalTime))
  BY <1>1 DEF EntryOK, EntryType, Intervals, Pins, HeldIn, Vouched, MAX
<1>3. /\ EntryOK(x, sn, c, s.lastInvalTime) /\ EntryAt(x) = EntryAt(e)
      /\ x.key = e.key /\ ~x.interval.stillValid
  <2>1. /\ e \in EntryType
        /\ e.interval.lower \in 1..Len(sn) /\ e.interval.lower < e.interval.upper
        /\ e.interval.upper \in 2..(Len(sn) + 1)
    BY <1>1 DEF EntryOK
  <2> QED
    BY <1>1, <1>2, <2>1, TruncatedOK
<1> HIDE DEF x
<1>4. /\ IsStore(r) /\ r.lines = s.lines /\ r.entries = (s.entries \ {e}) \cup {x}
      /\ r.lastInvalTime = s.lastInvalTime /\ r.invalBuffer = s.invalBuffer
      /\ r.bufferValidFrom = s.bufferValidFrom
      /\ r.invalMap = s.invalMap \ TagPairs(e)
  BY <1>1, ZenonT(60) DEF IsStore, Store_TruncateUnboundedInterval, x
<1> HIDE DEF r
<1>5. StoreOK(r, sn, c)
  BY <1>3, <1>4, ReplaceOK
<1> QED
  BY <1>3, <1>4, <1>5 DEF r, x

LEMMA ExtendedFields ==
    ASSUME NEW x \in EntryType, NEW e \in EntryType
    PROVE  LET r == Extended(x, e)
           IN  /\ r \in EntryType
               /\ r.key = x.key /\ r.data = x.data /\ r.invalTags = x.invalTags
               /\ r.timeInvalidated = x.timeInvalidated
               /\ r.missed = (x.missed \/ e.missed)
               /\ r.interval.lower = x.interval.lower
               /\ r.interval.upper = e.interval.upper
               /\ r.interval.stillValid = x.interval.stillValid
<1> DEFINE iv == [x.interval EXCEPT !.upper = e.interval.upper]
           m == x.missed \/ e.missed
           r == [x EXCEPT !.interval = iv, !.missed = m]
<1>1. /\ iv \in Intervals /\ iv.lower = x.interval.lower
      /\ iv.upper = e.interval.upper /\ iv.stillValid = x.interval.stillValid
  BY DEF EntryType, Intervals
<1>2. m \in BOOLEAN
  OBVIOUS
<1>3. r = Extended(x, e)
  BY DEF Extended
<1> HIDE DEF iv, m
<1>4. r \in EntryType
  BY <1>1, <1>2, ZenonT(60) DEF EntryType
<1>5. r.key = x.key /\ r.data = x.data
  BY DEF EntryType
<1>6. r.invalTags = x.invalTags /\ r.timeInvalidated = x.timeInvalidated
  BY DEF EntryType
<1>7. r.missed = m /\ r.interval = iv
  BY DEF EntryType
<1> HIDE DEF r
<1> QED
  BY <1>1, <1>3, <1>4, <1>5, <1>6, <1>7 DEF m

(* Two versions with one result that overlap vouch for all between them. *)
LEMMA ExtendedOK ==
    ASSUME NEW sn \in Seq([Keys -> Values]), NEW c \in Nat, Len(sn) <= MaxPin,
           NEW now \in 1..Len(sn), NEW s, s.lastInvalTime = now,
           NEW x, EntryOK(x, sn, c, now), NEW e, EntryOK(e, sn, c, now),
           x.key = e.key, CanExtend(s, x, e.interval, e.data),
           ~(x.interval.upper >= e.interval.upper)
    PROVE  EntryOK(Extended(x, e), sn, c, now)
<1> DEFINE r == Extended(x, e)
<1>1. x \in EntryType /\ e \in EntryType
  BY DEF EntryOK
<1>2. /\ r \in EntryType
      /\ r.key = x.key /\ r.data = x.data /\ r.invalTags = x.invalTags
      /\ r.timeInvalidated = x.timeInvalidated
      /\ r.missed = (x.missed \/ e.missed)
      /\ r.interval.lower = x.interval.lower
      /\ r.interval.upper = e.interval.upper
      /\ r.interval.stillValid = x.interval.stillValid
  BY <1>1, ExtendedFields
<1> HIDE DEF r
<1>3. /\ x.interval.lower \in Nat /\ x.interval.upper \in Nat
      /\ e.interval.lower \in Nat /\ e.interval.upper \in Nat
      /\ e.interval.lower < e.interval.upper /\ e.interval.upper <= Len(sn) + 1
      /\ x.interval.lower \in 1..Len(sn) /\ x.interval.upper <= Len(sn) + 1
      /\ x.interval.lower < x.interval.upper
  BY <1>1 DEF EntryOK, EntryType, Intervals, Pins
<1>4. /\ e.data = x.data /\ x.interval.lower <= e.interval.lower
      /\ Interval_Overlaps(x.interval, e.interval, now)
  BY DEF CanExtend
<1>5. e.interval.lower <= Vouched(x.interval, now)
  <2>1. x.interval.upper # PIN_INF /\ Len(sn) \in Nat
    BY <1>3, CacheServerAssumption, PinInfAssumption
  <2>2. \/ EffectiveUpper(x.interval, now) > e.interval.lower
        \/ x.interval.lower = e.interval.lower
    BY <1>3, <1>4, <2>1 DEF Interval_Overlaps
  <2>3. CASE x.interval.stillValid
    BY <1>3, <2>1, <2>2, <2>3 DEF EffectiveUpper, Vouched, MAX
  <2>4. CASE ~x.interval.stillValid
    BY <1>3, <2>1, <2>2, <2>4 DEF EffectiveUpper, Vouched
  <2> QED
    BY <2>3, <2>4
<1>6. ~r.missed => HeldIn(sn, r.key, r.data, r.interval.lower,
                          Vouched(r.interval, now))
  <2> SUFFICES ASSUME ~r.missed,
                      NEW p \in r.interval.lower..(Vouched(r.interval, now) - 1)
               PROVE  sn[p][x.key] = x.data
    BY <1>2 DEF HeldIn
  <2>1. ~x.missed /\ ~e.missed
    BY <1>2, ZenonT(60)
  <2>2. /\ HeldIn(sn, x.key, x.data, x.interval.lower, Vouched(x.interval, now))
        /\ HeldIn(sn, e.key, e.data, e.interval.lower, Vouched(e.interval, now))
    BY <2>1 DEF EntryOK
  <2>3. \/ p \in x.interval.lower..(Vouched(x.interval, now) - 1)
        \/ p \in e.interval.lower..(Vouched(e.interval, now) - 1)
    <3>1. CASE x.interval.stillValid
      <4>1. /\ Vouched(r.interval, now) = MAX(e.interval.upper, now + 1)
            /\ Vouched(x.interval, now) = MAX(x.interval.upper, now + 1)
        BY <1>2, <3>1 DEF Vouched
      <4>2. Vouched(e.interval, now) \in Int /\ Vouched(e.interval, now) >= e.interval.upper
        BY <1>3 DEF Vouched, MAX
      <4> QED
        BY <1>2, <1>3, <1>4, <1>5, <4>1, <4>2, SMTT(30) DEF MAX
    <3>2. CASE ~x.interval.stillValid
      <4>1. /\ Vouched(r.interval, now) = e.interval.upper
            /\ Vouched(x.interval, now) = x.interval.upper
        BY <1>2, <3>2 DEF Vouched
      <4>2. Vouched(e.interval, now) \in Int /\ Vouched(e.interval, now) >= e.interval.upper
        BY <1>3 DEF Vouched, MAX
      <4> QED
        BY <1>2, <1>3, <1>4, <1>5, <4>1, <4>2, SMTT(30)
    <3> QED
      BY <3>1, <3>2
  <2> QED
    BY <1>4, <2>2, <2>3 DEF HeldIn
<1>7. r.interval.stillValid => r.invalTags = TagsOf[r.key][r.data]
  BY <1>2 DEF EntryOK
<1>8. /\ r.interval.lower < r.interval.upper
      /\ r.interval.upper \in 2..(Len(sn) + 1)
  BY <1>2, <1>3, <1>4
<1>9. r.timeInvalidated \in {NotInvalidated} \cup 0..c
  BY <1>2 DEF EntryOK
<1> QED
  BY <1>2, <1>3, <1>6, <1>7, <1>8, <1>9 DEF EntryOK, r

LEMMA PutOverOK ==
    ASSUME NEW sn \in Seq([Keys -> Values]), NEW c \in Nat, Len(sn) <= MaxPin,
           NEW s, StoreOK(s, sn, c),
           NEW x \in s.entries, NEW e, EntryOK(e, sn, c, s.lastInvalTime),
           x.key = e.key, e.interval.stillValid \/ e.invalTags = {}
    PROVE  StoreOK(PutOver(s, x, e), sn, c)
<1>1. /\ IsStore(s) /\ EntryOK(x, sn, c, s.lastInvalTime)
      /\ s.lastInvalTime \in 1..Len(sn) /\ x.key \in s.lines
  BY DEF StoreOK
<1>2. ASSUME CanExtend(s, x, e.interval, e.data)
      PROVE  StoreOK(Store_ExtendInterval(s, x, e), sn, c)
  <2>1. CASE x.interval.upper >= e.interval.upper
    BY <2>1 DEF Store_ExtendInterval
  <2>2. CASE ~(x.interval.upper >= e.interval.upper)
    <3> DEFINE n == Extended(x, e)
               r == Store_ExtendInterval(s, x, e)
    <3>1. EntryOK(n, sn, c, s.lastInvalTime)
      BY <1>1, <1>2, <2>2, ExtendedOK
    <3>2. x \in EntryType /\ e \in EntryType
      BY <1>1 DEF EntryOK
    <3>3. /\ n.key = x.key /\ n.invalTags = x.invalTags
          /\ n.interval.lower = x.interval.lower
          /\ n.interval.stillValid = x.interval.stillValid
      BY <3>2, ExtendedFields
    <3>4. EntryAt(n) = EntryAt(x)
      BY <3>3 DEF EntryAt
    <3> HIDE DEF n
    <3>5. /\ IsStore(r) /\ r.lines = s.lines /\ r.entries = (s.entries \ {x}) \cup {n}
          /\ r.lastInvalTime = s.lastInvalTime /\ r.invalBuffer = s.invalBuffer
          /\ r.bufferValidFrom = s.bufferValidFrom /\ r.invalMap = s.invalMap
      BY <1>1, <2>2, ZenonT(60) DEF IsStore, Store_ExtendInterval, n
    <3> HIDE DEF r
    <3>6. StoreOK(r, sn, c)
      BY <3>1, <3>3, <3>4, <3>5, ReplaceOK
    <3> QED
      BY <3>6 DEF r
  <2> QED
    BY <2>1, <2>2
<1>3. ASSUME NEW lower, lower = MAX(x.interval.upper, e.interval.lower),
             ~(lower >= e.interval.upper)
      PROVE  StoreOK(Store_Add(s, [e EXCEPT !.interval.lower = lower]), sn, c)
  <2> DEFINE iv == [e.interval EXCEPT !.lower = lower]
             n == [e EXCEPT !.interval = iv]
  <2>1. e \in EntryType /\ x \in EntryType
    BY <1>1 DEF EntryOK
  <2>2. /\ e.interval.lower \in 1..Len(sn) /\ e.interval.upper \in 2..(Len(sn) + 1)
        /\ x.interval.upper \in Nat /\ e.interval.lower < e.interval.upper
        /\ e.interval \in Intervals
    BY <1>1, <2>1 DEF EntryOK, EntryType, Intervals, Pins
  <2>3. lower \in 1..Len(sn) /\ e.interval.lower <= lower /\ lower < e.interval.upper
    BY <1>3, <2>2 DEF MAX
  <2>4. lower \in Pins
    BY <2>3, CacheServerAssumption, PinInfAssumption DEF Pins
  <2>5. /\ iv \in Intervals /\ iv.lower = lower /\ iv.upper = e.interval.upper
        /\ iv.stillValid = e.interval.stillValid
    BY <2>2, <2>4 DEF Intervals
  <2> HIDE DEF iv
  <2>6. n \in EntryType
    BY <2>1, <2>5 DEF EntryType
  <2>7. /\ n.key = e.key /\ n.data = e.data /\ n.invalTags = e.invalTags
        /\ n.timeInvalidated = e.timeInvalidated
    BY <2>1 DEF EntryType
  <2>8. n.interval = iv /\ n.missed = e.missed
    BY <2>1 DEF EntryType
  <2>9. n = [e EXCEPT !.interval.lower = lower]
    BY DEF iv
  <2> HIDE DEF n
  <2>10. Vouched(n.interval, s.lastInvalTime) = Vouched(e.interval, s.lastInvalTime)
    BY <2>5, <2>8 DEF Vouched
  <2>11. EntryOK(n, sn, c, s.lastInvalTime)
    <3>1. ~n.missed => HeldIn(sn, n.key, n.data, n.interval.lower,
                              Vouched(n.interval, s.lastInvalTime))
      <4>1. ~e.missed => HeldIn(sn, e.key, e.data, e.interval.lower,
                                Vouched(e.interval, s.lastInvalTime))
        BY DEF EntryOK
      <4>2. Vouched(e.interval, s.lastInvalTime) \in Int
        BY <1>1, <2>2 DEF Vouched, MAX
      <4> QED
        BY <2>2, <2>3, <2>5, <2>7, <2>8, <2>10, <4>1, <4>2 DEF HeldIn
    <3>2. n.interval.stillValid => n.invalTags = TagsOf[n.key][n.data]
      BY <2>5, <2>7, <2>8 DEF EntryOK
    <3>3. n.timeInvalidated \in {NotInvalidated} \cup 0..c
      BY <2>7 DEF EntryOK
    <3> QED
      BY <2>2, <2>3, <2>5, <2>6, <2>8, <3>1, <3>2, <3>3 DEF EntryOK
  <2>12. n.interval.stillValid \/ n.invalTags = {}
    BY <2>5, <2>7, <2>8
  <2>13. StoreOK(Store_Add(s, n), sn, c)
    BY <1>1, <2>7, <2>11, <2>12, AddOK
  <2> QED
    BY <2>9, <2>13
<1> QED
  BY <1>2, <1>3 DEF PutOver

(* The entry that Store_Put makes of its arguments. *)
PutEntry(s, key, interval, data, invalTags, t, missed) ==
    LET iv == PutInterval(s, interval, invalTags)
    IN  Entry(key, iv, data, IF iv.stillValid THEN invalTags ELSE {},
              IF iv.stillValid THEN NotInvalidated ELSE t, missed)

LEMMA EntryFields ==
    ASSUME NEW key, NEW iv, NEW data, NEW tags, NEW t, NEW missed
    PROVE  LET e == Entry(key, iv, data, tags, t, missed)
           IN  /\ e.key = key /\ e.interval = iv /\ e.data = data
               /\ e.invalTags = tags /\ e.timeInvalidated = t /\ e.missed = missed
  BY DEF Entry

LEMMA PutOK ==
    ASSUME NEW sn \in Seq([Keys -> Values]), NEW c \in Nat, Len(sn) <= MaxPin,
           NEW s, StoreOK(s, sn, c), NEW key \in Keys, NEW interval, NEW data,
           NEW invalTags, NEW force, NEW missed,
           EntryOK(PutEntry(s, key, interval, data, invalTags, c, missed),
                   sn, c, s.lastInvalTime)
    PROVE  StoreOK(Store_Put(s, key, interval, data, invalTags, force, c, missed),
                   sn, c)
<1> DEFINE iv == PutInterval(s, interval, invalTags)
           e == PutEntry(s, key, interval, data, invalTags, c, missed)
           u == Store_RemoveUseless(s, c)
           s1 == [u EXCEPT !.lines = @ \cup {key}]
           found == LatestBefore(s1, key, iv.upper)
           x == CHOOSE f \in found : TRUE
           now == s1.lastInvalTime
           cut == Store_TruncateUnboundedInterval(s1, x, now, c)
           xcut == Truncated(x, now, c)
           put == Store_Put(s, key, interval, data, invalTags, force, c, missed)
<1>1. /\ e.key = key /\ e.interval = iv
      /\ e.interval.stillValid \/ e.invalTags = {}
  <2> HIDE DEF iv
  <2>1. e = Entry(key, iv, data, IF iv.stillValid THEN invalTags ELSE {},
                  IF iv.stillValid THEN NotInvalidated ELSE c, missed)
    BY DEF PutEntry, iv
  <2>2. /\ e.key = key /\ e.interval = iv
        /\ e.invalTags = IF iv.stillValid THEN invalTags ELSE {}
    BY <2>1, EntryFields
  <2> QED
    BY <2>2
<1>2. \/ put = s
      \/ put = Store_Add(s1, e)
      \/ found # {} /\ put = Store_Add(RemoveEntries(s1, {x}), e)
      \/ found # {} /\ x.interval.stillValid /\ put = PutOver(cut, xcut, e)
      \/ found # {} /\ put = PutOver(s1, x, e)
  BY ZenonT(60) DEF Store_Put, PutEntry, ImplicitlyInvalid
<1> HIDE DEF e, put
<1>3. StoreOK(u, sn, c) /\ u.lastInvalTime = s.lastInvalTime
  <2> DEFINE gone == {f \in s.entries : /\ ~f.interval.stillValid
                                        /\ f.timeInvalidated < c - UselessBound}
  <2>1. gone \in SUBSET s.entries
    OBVIOUS
  <2>2. u = RemoveEntries(s, gone)
    BY DEF Store_RemoveUseless
  <2> HIDE DEF gone, u
  <2> QED
    BY <2>1, <2>2, RemoveOK
<1> HIDE DEF u
<1>4. IsStore(u)
  BY <1>3 DEF StoreOK
<1>5. /\ IsStore(s1) /\ s1.lines = u.lines \cup {key} /\ s1.entries = u.entries
      /\ s1.lastInvalTime = u.lastInvalTime /\ s1.invalMap = u.invalMap
      /\ s1.invalBuffer = u.invalBuffer /\ s1.bufferValidFrom = u.bufferValidFrom
  BY <1>4, ZenonT(60) DEF IsStore
<1> HIDE DEF s1, iv
<1>6. StoreOK(s1, sn, c) /\ EntryOK(e, sn, c, s1.lastInvalTime) /\ e.key \in s1.lines
  <2>1. \A m : Indexed(s1, m) <=> Indexed(u, m)
    BY <1>5 DEF Indexed
  <2>2. StoreOK(s1, sn, c)
    BY <1>3, <1>5, <2>1 DEF StoreOK
  <2> QED
    BY <1>1, <1>3, <1>5, <2>2 DEF e
<1>7. found # {} => x \in s1.entries /\ x.key = e.key
  BY <1>1 DEF LatestBefore
<1> HIDE DEF found, x
<1>8. CASE put = Store_Add(s1, e)
  BY <1>1, <1>6, <1>8, AddOK DEF put
<1>9. CASE found # {} /\ put = Store_Add(RemoveEntries(s1, {x}), e)
  <2> DEFINE w == RemoveEntries(s1, {x})
  <2>1. StoreOK(w, sn, c) /\ w.lines = s1.lines /\ w.lastInvalTime = s1.lastInvalTime
    BY <1>6, <1>7, <1>9, RemoveOK
  <2> HIDE DEF w
  <2>2. StoreOK(Store_Add(w, e), sn, c)
    BY <1>1, <1>6, <2>1, AddOK
  <2> QED
    BY <1>9, <2>2 DEF w, put
<1>10. CASE found # {} /\ x.interval.stillValid /\ put = PutOver(cut, xcut, e)
  <2>1. /\ StoreOK(cut, sn, c) /\ cut.lines = s1.lines
        /\ cut.lastInvalTime = s1.lastInvalTime
        /\ xcut \in cut.entries /\ xcut.key = x.key
    BY <1>6, <1>7, <1>10, TruncateOK
  <2> HIDE DEF cut, xcut
  <2>2. EntryOK(e, sn, c, cut.lastInvalTime) /\ e.key \in cut.lines /\ xcut.key = e.key
    BY <1>6, <1>7, <1>10, <2>1, Zenon
  <2>3. e.interval.stillValid \/ e.invalTags = {}
    BY <1>1
  <2>4. StoreOK(PutOver(cut, xcut, e), sn, c)
    BY <2>1, <2>2, <2>3, PutOverOK, ZenonT(60)
  <2> QED
    BY <1>10, <2>4 DEF put
<1>11. CASE found # {} /\ put = PutOver(s1, x, e)
  <2>1. StoreOK(PutOver(s1, x, e), sn, c)
    BY <1>1, <1>6, <1>7, <1>11, PutOverOK
  <2> QED
    BY <1>11, <2>1 DEF put
<1> QED
  BY <1>2, <1>8, <1>9, <1>10, <1>11 DEF put
=============================================================================
