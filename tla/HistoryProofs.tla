--------------------------- MODULE HistoryProofs ---------------------------
(*****************************************************************************)
(* Lemmas on the steps that move the database's history and the store's view *)
(* of it: notices and commits.  They keep the inductive invariant of         *)
(* StoreProofs.                                                              *)
(*****************************************************************************)
EXTENDS StoreProofs

\* More time than the default, which some of the leaves come close to.
USE SMTT(60)

-----------------------------------------------------------------------------
(* What held up to some pin still holds at later pins, as long as no commit *)
(* announces a tag that bears on it.                                       *)
LEMMA HoldsOn ==
    ASSUME NEW sn, NEW iv, HistoryOK(sn, iv), NEW key \in Keys, NEW data,
           NEW lower \in 1..Len(sn), NEW upper \in 2..(Len(sn) + 1), lower < upper,
           NEW upto \in 0..(Len(sn) + 1), HeldIn(sn, key, data, lower, upper),
           \A t \in upper..(upto - 1) : ~Bears(iv[t], TagsOf[key][data])
    PROVE  HeldIn(sn, key, data, lower, upto)
<1> SUFFICES ASSUME NEW p \in lower..(upto - 1), ~(p < upper)
             PROVE  sn[p][key] = data
  BY DEF HeldIn, HistoryOK
<1>1. Len(sn) \in Nat
  BY DEF HistoryOK
<1>2. sn[upper - 1][key] = data
  BY <1>1 DEF HeldIn
<1>3. upper - 1 \in 1..Len(sn) /\ p \in 1..Len(sn) /\ upper - 1 <= p
  BY <1>1
<1>4. \A t \in (upper - 1 + 1)..p : ~Bears(iv[t], TagsOf[key][sn[upper - 1][key]])
  BY <1>1, <1>2
<1>5. DBContract(sn, iv)
  BY DEF HistoryOK
<1> QED
  BY <1>2, <1>3, <1>4, <1>5, ZenonT(60) DEF DBContract

(* A notice is a step of the stream: it comes after the last one, and the  *)
(* commits in between announced nothing.                                   *)
LEMMA InvalidateTagsOK ==
    ASSUME NEW sn, NEW iv, HistoryOK(sn, iv), NEW c \in Nat, NEW s, StoreOK(s, sn, c),
           NEW ts \in 2..Len(sn), ts > s.lastInvalTime,
           \A p \in (s.lastInvalTime + 1)..(ts - 1) : iv[p] = <<>>
    PROVE  LET r == Store_InvalidateTags(s, ts, iv[ts], c)
           IN  StoreOK(r, sn, c) /\ r.lastInvalTime = ts
<1> DEFINE tags == iv[ts]
           hit == {e \in s.entries : \E d \in Calls(tags) : CallHits(s, tags, d, e)}
           added == {[pin |-> ts, tag |-> CallTag(tags, d),
                      descendants |-> CallDescendants(tags, d), time |-> c] :
                          d \in BufferedCalls(s, tags)}
           r == Store_InvalidateTags(s, ts, tags, c)
           now == s.lastInvalTime
<1>1. /\ sn \in Seq([Keys -> Values]) /\ Len(sn) \in Nat /\ Len(sn) <= MaxPin
      /\ tags \in Seq(Tags) /\ now \in 1..Len(sn) /\ IsStore(s)
  BY CacheServerAssumption DEF HistoryOK, StoreOK
<1>2. /\ IsStore(r) /\ r.lines = s.lines
      /\ r.entries = (s.entries \ hit) \cup {Truncated(e, ts, c) : e \in hit}
      /\ r.lastInvalTime = ts /\ r.invalBuffer = s.invalBuffer \cup added
      /\ r.bufferValidFrom = s.bufferValidFrom
      /\ r.invalMap = s.invalMap \ UNION {TagPairs(e) : e \in hit}
  <2> HIDE DEF hit, added
  <2>1. r = [s EXCEPT
              !.lastInvalTime = ts,
              !.entries = (@ \ hit) \cup {Truncated(e, ts, c) : e \in hit},
              !.invalMap = @ \ UNION {TagPairs(e) : e \in hit},
              !.invalBuffer = @ \cup added]
    BY DEF Store_InvalidateTags, hit, added
  <2> HIDE DEF r
  <2> QED
    BY <1>1, <2>1, ZenonT(60) DEF IsStore
<1>3. hit \subseteq s.entries
  OBVIOUS
<1>4. \A e \in hit : e.interval.stillValid
  <2> SUFFICES ASSUME NEW e \in s.entries, NEW d \in Calls(tags), CallHits(s, tags, d, e)
               PROVE  e.interval.stillValid
    OBVIOUS
  <2>1. PICK m \in s.invalMap : m[2] = EntryAt(e)
    BY DEF CallHits
  <2>2. PICK f \in s.entries : f.interval.stillValid /\ m \in TagPairs(f)
    BY DEF StoreOK, Indexed
  <2>3. EntryAt(f) = EntryAt(e)
    BY <2>1, <2>2 DEF TagPairs
  <2> QED
    BY <2>2, <2>3 DEF StoreOK
<1>5. \A e \in s.entries \ hit : e.interval.stillValid =>
            ~Bears(tags, TagsOf[e.key][e.data])
  <2> SUFFICES ASSUME NEW e \in s.entries, e.interval.stillValid,
                      Bears(tags, TagsOf[e.key][e.data])
               PROVE  e \in hit
    OBVIOUS
  <2>1. EntryOK(e, sn, c, now)
    BY DEF StoreOK
  <2>2. e.invalTags = TagsOf[e.key][e.data] /\ e.invalTags \subseteq Tags
    BY <2>1 DEF EntryOK, EntryType
  <2>3. PICK i \in 1..Len(tags) : \E t \in e.invalTags : Related(tags[i], t)
    BY <2>2 DEF Bears
  <2>4. PICK t \in e.invalTags : Related(tags[i], t)
    BY <2>3
  <2> HIDE DEF tags
  <2>5. PICK d \in Calls(tags) : TagMatches(CallTag(tags, d), CallDescendants(tags, d), t)
    BY <1>1, <2>2, <2>4, CallsCover
  <2>6. <<t, EntryAt(e)>> \in s.invalMap
    <3>1. <<t, EntryAt(e)>> \in TagPairs(e)
      BY DEF TagPairs
    <3> QED
      BY <3>1 DEF StoreOK, Indexed
  <2>7. CallHits(s, tags, d, e)
    BY <2>5, <2>6 DEF CallHits
  <2> QED
    BY <2>7
<1> HIDE DEF hit
<1>6. ASSUME NEW e \in s.entries, e.interval.stillValid, ~e.missed
      PROVE  /\ HeldIn(sn, e.key, e.data, e.interval.lower, MAX(e.interval.upper, ts))
             /\ ~Bears(tags, TagsOf[e.key][e.data]) =>
                    HeldIn(sn, e.key, e.data, e.interval.lower,
                           MAX(e.interval.upper, ts + 1))
  <2> DEFINE v == MAX(e.interval.upper, now + 1)
  <2>1. EntryOK(e, sn, c, now) /\ e \in EntryType
    BY DEF StoreOK, EntryOK
  <2>2. /\ HeldIn(sn, e.key, e.data, e.interval.lower, v)
        /\ e.key \in Keys /\ e.interval.lower \in 1..Len(sn)
        /\ e.interval.lower < e.interval.upper /\ e.interval.upper \in 2..(Len(sn) + 1)
    BY <1>6, <2>1 DEF EntryOK, EntryType, Vouched
  <2>3. v \in 2..(Len(sn) + 1) /\ e.interval.lower < v /\ v > now
    BY <1>1, <2>2 DEF MAX
  <2>4. \A t \in v..(ts - 1) : ~Bears(iv[t], TagsOf[e.key][e.data])
    <3> SUFFICES ASSUME NEW t \in v..(ts - 1) PROVE ~Bears(iv[t], TagsOf[e.key][e.data])
      OBVIOUS
    <3> HIDE DEF v
    <3>1. iv[t] = <<>>
      BY <1>1, <2>3
    <3> QED
      BY <3>1 DEF Bears
  <2>5. HeldIn(sn, e.key, e.data, e.interval.lower, MAX(e.interval.upper, ts))
    <3>1. MAX(e.interval.upper, ts) \in 0..(Len(sn) + 1)
      BY <1>1, <2>2, SMTT(30) DEF MAX
    <3>2. \A t \in v..(MAX(e.interval.upper, ts) - 1) : t \in v..(ts - 1)
      BY <1>1, <2>2, SMTT(30) DEF MAX
    <3> HIDE DEF v
    <3> QED
      BY <2>2, <2>3, <2>4, <3>1, <3>2, HoldsOn, ZenonT(60)
  <2>6. ASSUME ~Bears(tags, TagsOf[e.key][e.data])
        PROVE  HeldIn(sn, e.key, e.data, e.interval.lower, MAX(e.interval.upper, ts + 1))
    <3>1. MAX(e.interval.upper, ts + 1) \in 0..(Len(sn) + 1)
      BY <1>1, <2>2, SMTT(30) DEF MAX
    <3>2. \A t \in v..(MAX(e.interval.upper, ts + 1) - 1) : t \in v..(ts - 1) \/ t = ts
      BY <1>1, <2>2, SMTT(30) DEF MAX
    <3> HIDE DEF v
    <3>3. \A t \in v..(MAX(e.interval.upper, ts + 1) - 1) :
                ~Bears(iv[t], TagsOf[e.key][e.data])
      BY <2>4, <2>6, <3>2
    <3> QED
      BY <2>2, <2>3, <3>1, <3>3, HoldsOn, ZenonT(30)
  <2> QED
    BY <2>5, <2>6
<1>7. \A e \in hit : /\ EntryOK(Truncated(e, ts, c), sn, c, ts)
                     /\ EntryAt(Truncated(e, ts, c)) = EntryAt(e)
                     /\ Truncated(e, ts, c).key = e.key
                     /\ ~Truncated(e, ts, c).interval.stillValid
  <2> SUFFICES ASSUME NEW e \in hit
               PROVE  /\ EntryOK(Truncated(e, ts, c), sn, c, ts)
                      /\ EntryAt(Truncated(e, ts, c)) = EntryAt(e)
                      /\ Truncated(e, ts, c).key = e.key
                      /\ ~Truncated(e, ts, c).interval.stillValid
    OBVIOUS
  <2>1. /\ e \in EntryType
        /\ e.interval.lower \in 1..Len(sn) /\ e.interval.lower < e.interval.upper
        /\ e.interval.upper \in 2..(Len(sn) + 1)
    BY <1>3 DEF StoreOK, EntryOK
  <2>2. ~e.missed => HeldIn(sn, e.key, e.data, e.interval.lower,
                            MAX(e.interval.upper, ts))
    BY <1>3, <1>4, <1>6
  <2>3. ts \in 1..Len(sn)
    BY <1>1
  <2> QED
    BY <1>1, <2>1, <2>2, <2>3, TruncatedOK, ZenonT(60)
<1>8. \A e \in s.entries \ hit : EntryOK(e, sn, c, ts)
  <2> SUFFICES ASSUME NEW e \in s.entries \ hit PROVE EntryOK(e, sn, c, ts)
    OBVIOUS
  <2>1. EntryOK(e, sn, c, now)
    BY DEF StoreOK
  <2>2. ~e.missed => HeldIn(sn, e.key, e.data, e.interval.lower, Vouched(e.interval, ts))
    <3>1. CASE e.interval.stillValid
      BY <1>5, <1>6, <3>1 DEF Vouched
    <3>2. CASE ~e.interval.stillValid
      BY <2>1, <3>2 DEF Vouched, EntryOK
    <3> QED
      BY <3>1, <3>2
  <2> QED
    BY <2>1, <2>2 DEF EntryOK
<1>9. \A f \in r.entries : EntryOK(f, sn, c, r.lastInvalTime) /\ f.key \in r.lines
  BY <1>2, <1>3, <1>7, <1>8 DEF StoreOK
<1>10. \A f, g \in r.entries : EntryAt(f) = EntryAt(g) => f = g
  BY <1>2, <1>3, <1>7 DEF StoreOK
<1>11. \A m : m \in r.invalMap <=> Indexed(r, m)
  <2>1. \A e, f \in s.entries : \A m : m \in TagPairs(e) /\ m \in TagPairs(f) => e = f
    <3> SUFFICES ASSUME NEW e \in s.entries, NEW f \in s.entries,
                        NEW m \in TagPairs(e), m \in TagPairs(f)
                 PROVE  e = f
      OBVIOUS
    <3>1. EntryAt(e) = EntryAt(f)
      BY DEF TagPairs
    <3> QED
      BY <3>1 DEF StoreOK
  <2>2. \A m : m \in s.invalMap <=> Indexed(s, m)
    BY DEF StoreOK
  <2> QED
    BY <1>2, <1>3, <1>7, <2>1, <2>2 DEF Indexed
<1>12. \A b \in r.invalBuffer : b.pin \in 1..r.lastInvalTime
  <2>1. \A b \in added : b.pin = ts
    OBVIOUS
  <2>2. \A b \in s.invalBuffer : b.pin \in 1..now
    BY DEF StoreOK
  <2> HIDE DEF added
  <2> QED
    BY <1>1, <1>2, <2>1, <2>2
<1>13. r.bufferValidFrom \in 1..r.lastInvalTime /\ r.lastInvalTime \in 1..Len(sn)
  <2>1. s.bufferValidFrom \in 1..now
    BY DEF StoreOK
  <2> QED
    BY <1>1, <1>2, <2>1
<1>14. r.lines \subseteq Keys
  BY <1>2 DEF StoreOK
<1> HIDE DEF r
<1>15. StoreOK(r, sn, c)
  BY <1>2, <1>9, <1>10, <1>11, <1>12, <1>13, <1>14, SMTT(30) DEF StoreOK
<1> QED
  BY <1>2, <1>15 DEF r

LEMMA InvalidateOK ==
    ASSUME NEW sn, NEW iv, HistoryOK(sn, iv), NEW c \in Nat, NEW s, StoreOK(s, sn, c),
           NEW ts \in 2..Len(sn), ts > s.lastInvalTime,
           \A p \in (s.lastInvalTime + 1)..(ts - 1) : iv[p] = <<>>
    PROVE  StoreOK(Store_Invalidate(s, ts, iv[ts], c), sn, c)
<1> DEFINE w == Store_InvalidateTags(s, ts, iv[ts], c)
           expired == {b \in w.invalBuffer : b.time + INVAL_BUFFER_TIME <= c}
           pins == {w.bufferValidFrom} \cup {b.pin : b \in expired}
           r == Store_ExpireBuffer(w, c)
<1>1. StoreOK(w, sn, c) /\ w.lastInvalTime = ts
  BY InvalidateTagsOK
<1>2. r = Store_Invalidate(s, ts, iv[ts], c)
  BY DEF Store_Invalidate
<1> HIDE DEF w
<1>3. /\ IsStore(w) /\ w.bufferValidFrom \in 1..ts
      /\ \A b \in w.invalBuffer : b.pin \in 1..ts
  BY <1>1 DEF StoreOK
<1>4. Max(pins) \in 1..ts
  <2>1. ts \in Nat
    BY CacheServerAssumption DEF HistoryOK
  <2>2. expired \subseteq w.invalBuffer
    OBVIOUS
  <2> HIDE DEF expired
  <2>3. pins \subseteq 1..ts /\ pins # {}
    BY <1>3, <2>2
  <2> HIDE DEF pins
  <2>4. pins \in SUBSET (0..ts)
    BY <2>1, <2>3
  <2> QED
    BY <2>1, <2>3, <2>4, MaxInSet, ZenonT(60)
<1>5. /\ IsStore(r) /\ r.lines = w.lines /\ r.entries = w.entries
      /\ r.lastInvalTime = w.lastInvalTime /\ r.invalMap = w.invalMap
      /\ r.invalBuffer = w.invalBuffer \ expired /\ r.bufferValidFrom = Max(pins)
  <2> HIDE DEF expired
  <2>1. r = [w EXCEPT !.invalBuffer = @ \ expired,
                      !.bufferValidFrom = Max({@} \cup {b.pin : b \in expired})]
    BY DEF Store_ExpireBuffer, expired
  <2> HIDE DEF r
  <2> QED
    BY <1>3, <2>1, ZenonT(60) DEF IsStore
<1> HIDE DEF r, pins, expired
<1>6. \A m : Indexed(r, m) <=> Indexed(w, m)
  BY <1>5 DEF Indexed
<1>7. StoreOK(r, sn, c)
  BY <1>1, <1>3, <1>4, <1>5, <1>6 DEF StoreOK
<1> QED
  BY <1>2, <1>7

LEMMA HitOK ==
    ASSUME NEW s, NEW sn, NEW c, StoreOK(s, sn, c), NEW e
    PROVE  StoreOK(Store_Hit(s, e), sn, c)
<1> DEFINE r == Store_Hit(s, e)
<1>1. IsStore(s)
  BY DEF StoreOK
<1>2. /\ IsStore(r) /\ r.lines = s.lines /\ r.entries = s.entries
      /\ r.lastInvalTime = s.lastInvalTime /\ r.invalMap = s.invalMap
      /\ r.invalBuffer = s.invalBuffer /\ r.bufferValidFrom = s.bufferValidFrom
  BY <1>1 DEF IsStore, Store_Hit
<1> HIDE DEF r
<1>3. \A m : Indexed(r, m) <=> Indexed(s, m)
  BY <1>2 DEF Indexed
<1>4. StoreOK(r, sn, c)
  BY <1>2, <1>3 DEF StoreOK
<1> QED
  BY <1>4 DEF r

-----------------------------------------------------------------------------
(* IInv is inductive. *)

LEMMA InitOK == Init => IInv
<1> SUFFICES ASSUME Init PROVE IInv
  OBVIOUS
<1>1. PICK f \in [Keys -> Values] : snap = <<f>>
  BY DEF Init
<1>2. HistoryOK(snap, invals)
  <2>1. snap \in Seq([Keys -> Values]) /\ Len(snap) = 1
    BY <1>1
  <2>2. invals \in Seq(Seq(Tags)) /\ Len(invals) = 1
    BY DEF Init
  <2>3. DBContract(snap, invals)
    BY <2>1 DEF DBContract
  <2> QED
    BY <2>1, <2>2, <2>3, CacheServerAssumption DEF HistoryOK
<1>3. StoreOK(store, snap, clock)
  <2>1. /\ IsStore(store) /\ store.lines = {} /\ store.entries = {}
        /\ store.invalMap = {} /\ store.invalBuffer = {}
        /\ store.lastInvalTime = 1 /\ store.bufferValidFrom = 1
    BY DEF Init, Store_Init, IsStore, PIN_NEG_INF
  <2>2. Len(snap) = 1
    BY <1>1
  <2>3. \A m : ~Indexed(store, m)
    BY <2>1 DEF Indexed
  <2> QED
    BY <2>1, <2>2, <2>3 DEF StoreOK
<1> QED
  BY <1>2, <1>3, CacheServerAssumption DEF IInv, Init

LEMMA EntryGrows ==
    ASSUME NEW sn, NEW sn2, Len(sn) \in Nat, Len(sn2) = Len(sn) + 1,
           \A p \in 1..Len(sn) : sn2[p] = sn[p],
           NEW c, NEW now \in 1..Len(sn), NEW e, EntryOK(e, sn, c, now)
    PROVE  EntryOK(e, sn2, c, now)
<1>1. /\ e.interval.lower \in 1..Len(sn) /\ e.interval.upper \in 2..(Len(sn) + 1)
  BY DEF EntryOK
<1>2. Vouched(e.interval, now) \in 0..(Len(sn) + 1)
  BY <1>1 DEF Vouched, MAX
<1>3. HeldIn(sn, e.key, e.data, e.interval.lower, Vouched(e.interval, now))
      => HeldIn(sn2, e.key, e.data, e.interval.lower, Vouched(e.interval, now))
  <2> DEFINE v == Vouched(e.interval, now)
  <2>1. \A p \in e.interval.lower..(v - 1) : sn2[p] = sn[p]
    BY <1>1, <1>2
  <2> HIDE DEF v
  <2> QED
    BY <2>1 DEF HeldIn, v
<1> QED
  BY <1>1, <1>3 DEF EntryOK

LEMMA CommitOK ==
    ASSUME IInv, NEW new \in [Keys -> Values], NEW tags \in Notices, Commit(new, tags)
    PROVE  IInv'
<1> DEFINE n == Len(snap)
<1>1. /\ snap \in Seq([Keys -> Values]) /\ invals \in Seq(Seq(Tags))
      /\ Len(invals) = n /\ n \in 1..MaxPin /\ n \in Nat
      /\ DBContract(snap, invals)
  BY CacheServerAssumption DEF IInv, HistoryOK
<1>2. /\ n < MaxPin /\ snap' = Append(snap, new) /\ invals' = Append(invals, tags)
      /\ store' = store /\ clock' = clock
      /\ \A key \in Keys :
            new[key] # snap[n][key] => Bears(tags, TagsOf[key][snap[n][key]])
  BY DEF Commit, latest
<1>3. tags \in Seq(Tags)
  BY CacheServerAssumption
<1>4. /\ snap' \in Seq([Keys -> Values]) /\ invals' \in Seq(Seq(Tags))
      /\ Len(snap') = n + 1 /\ Len(invals') = n + 1
      /\ \A p \in 1..n : snap'[p] = snap[p] /\ invals'[p] = invals[p]
      /\ snap'[n + 1] = new /\ invals'[n + 1] = tags
  BY <1>1, <1>2, <1>3
<1> HIDE DEF n
<1>5. DBContract(snap', invals')
  <2> SUFFICES ASSUME NEW key \in Keys, NEW p \in 1..(n + 1), NEW q \in 1..(n + 1), p <= q,
                      \A t \in (p + 1)..q : ~Bears(invals'[t], TagsOf[key][snap'[p][key]])
               PROVE  snap'[q][key] = snap'[p][key]
    BY <1>4, ZenonT(30) DEF DBContract
  <2>1. CASE p = n + 1
    BY <1>1, <2>1
  <2>2. CASE p \in 1..n
    <3>1. \A t \in (p + 1)..q : t \in 1..n => ~Bears(invals[t], TagsOf[key][snap[p][key]])
      BY <1>1, <1>4, <2>2
    <3>2. CASE q \in 1..n
      <4>1. snap[q][key] = snap[p][key]
        <5>1. \A t \in (p + 1)..q : t \in 1..n
          BY <1>1, <2>2, <3>2
        <5> QED
          BY <1>1, <2>2, <3>1, <3>2, <5>1 DEF DBContract, n
      <4> QED
        BY <1>4, <2>2, <3>2, <4>1
    <3>3. CASE q = n + 1
      <4>1. \A t \in (p + 1)..n : t \in (p + 1)..q /\ t \in 1..n
        BY <1>1, <2>2, <3>3
      <4>2. n \in 1..n /\ p <= n
        BY <1>1, <2>2
      <4>3. snap[n][key] = snap[p][key]
        BY <1>1, <2>2, <3>1, <4>1, <4>2, ZenonT(60) DEF DBContract, n
      <4>4. ~Bears(tags, TagsOf[key][snap[p][key]])
        <5>1. n + 1 \in (p + 1)..q
          BY <1>1, <2>2, <3>3
        <5> QED
          BY <1>4, <2>2, <5>1
      <4>5. new[key] = snap[n][key]
        BY <1>2, <4>3, <4>4
      <4> QED
        BY <1>4, <2>2, <3>3, <4>3, <4>5
    <3> QED
      BY <1>1, <3>2, <3>3
  <2> QED
    BY <1>1, <2>1, <2>2
<1>6. HistoryOK(snap', invals')
  BY <1>1, <1>2, <1>4, <1>5, CacheServerAssumption DEF HistoryOK
<1>7. StoreOK(store', snap', clock')
  <2> SUFFICES StoreOK(store, snap', clock)
    BY <1>2
  <2>1. /\ StoreOK(store, snap, clock) /\ store.lastInvalTime \in 1..n
    BY DEF IInv, StoreOK, n
  <2>2. ASSUME NEW e \in store.entries
        PROVE  EntryOK(e, snap', clock, store.lastInvalTime)
    <3>1. EntryOK(e, snap, clock, store.lastInvalTime)
      BY <2>1 DEF StoreOK
    <3> QED
      BY <1>1, <1>4, <2>1, <3>1, EntryGrows, ZenonT(60) DEF n
  <2> QED
    BY <1>1, <1>4, <2>1, <2>2 DEF StoreOK
<1> QED
  BY <1>2, <1>6, <1>7 DEF IInv
=============================================================================
