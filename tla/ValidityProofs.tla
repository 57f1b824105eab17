--------------------------- MODULE ValidityProofs ---------------------------
(***************************************************************************)
(* That saved snapshots agree with the xstamps and keep their tuples, for  *)
(* any number of transactions, tuples and snapshots.                       *)
(***************************************************************************)
EXTENDS Validity, WellFoundedInduction, TLAPS

\* More time than the default, which some of the leaves come close to.
USE SMTT(60)

Stages == {"idle", "running", "wrote", "logged", "cleared", "stamped", "done",
           "aborted"}

Tuples == [xmin : {Bootstrap} \union Xids, xmax : Xids \union {NoXid},
           slot : {"used", "freed", "lost"}]

\* What the argument needs to know about types.
Types ==
    /\ stage \in [Xids -> Stages]
    /\ stamp \in [Xids -> Nat]
    /\ next \in Nat /\ FirstXStamp <= next
    /\ \A id \in DOMAIN saved : id \in Nat /\ FirstXStamp <= id /\ id <= next
    /\ heap \in Seq(Tuples)
    /\ vacuum \in [running : BOOLEAN, oldestXmin : Nat, torn : BOOLEAN]

\* A transaction has its xstamp from GetCommitXStamp on.
StampsAssigned ==
    \A w \in Xids :
        IF stage[w] \in {"stamped", "done"}
        THEN FirstXStamp <= stamp[w] /\ stamp[w] < next
        ELSE stamp[w] = InvalidXStamp

\* The commit map knows every transaction that some saved snapshot does not
\* see, and its xstamp.
MapCovers ==
    /\ DOMAIN saved # {} => earliest # InvalidXStamp
    /\ \A x \in DOMAIN map : x \in Xids /\ stage[x] = "done" /\ map[x] = stamp[x]
    /\ \A id \in DOMAIN saved, w \in Xids :
           stage[w] = "done" /\ id <= stamp[w] => w \in DOMAIN map

\* A VACUUM that did not start in mid-commit looks at transactions that are
\* over.
VacuumLooksBack ==
    vacuum.running /\ ~vacuum.torn =>
        \A w \in Xids : w < vacuum.oldestXmin => stage[w] \in {"done", "aborted"}

\* What VACUUM removes was never there, or is gone for good.
FreedForGood ==
    \A i \in DOMAIN heap : heap[i].slot = "freed" =>
        \/ DidAbort(heap[i].xmin)
        \/ heap[i].xmax \in Xids /\ stage[heap[i].xmax] = "done"

SnapshotInv ==
    /\ Types /\ StampsAssigned /\ MapCovers /\ VacuumLooksBack /\ FreedForGood
    /\ SnapshotsMatchStamps /\ SavedTuplesKept
-----------------------------------------------------------------------------
(* A set of naturals has a least member (EarliestOf, CommitMapExpire).     *)
LEMMA LeastXStamp ==
    ASSUME NEW S \in SUBSET Nat, S # {}
    PROVE  Min(S) \in S /\ \A y \in S : Min(S) <= y
<1>1. PICK x \in S : \A y \in S : <<y, x>> \notin OpToRel(<, Nat)
  BY NatLessThanWellFounded, WFMin, ZenonT(60)
<1>2. \A y \in S : y < x => <<y, x>> \in OpToRel(<, Nat)
  BY ZenonT(60) DEF OpToRel
<1>3. \A y \in S : ~(y < x)
  BY <1>1, <1>2, ZenonT(60)
<1>4. \A y \in S : x <= y
  BY <1>3
<1> QED
  BY <1>4, ZenonT(60) DEF Min

(* The initial state.                                                      *)
LEMMA SnapshotInit == Init => SnapshotInv
<1> SUFFICES ASSUME Init
             PROVE  SnapshotInv
  OBVIOUS
<1>1. DOMAIN saved = {} /\ DOMAIN map = {}
  BY DEF Init
<1>2. Types
  BY <1>1, ValidityAssumption DEF Init, Types, Stages, Tuples, Bootstrap, NoXid, NoVacuum,
                 FirstXStamp, InvalidXStamp
<1>3. StampsAssigned /\ VacuumLooksBack /\ FreedForGood
  BY DEF Init, StampsAssigned, VacuumLooksBack, FreedForGood, NoVacuum
<1> QED
  BY <1>1, <1>2, <1>3
  DEF SnapshotInv, MapCovers, SnapshotsMatchStamps, SavedTuplesKept

-----------------------------------------------------------------------------
(* A step of a transaction that has no xstamp yet and gets none, and that  *)
(* leaves the tuples that VACUUM freed alone.                              *)
LEMMA EarlyStep ==
    ASSUME SnapshotInv, NEW w \in Xids, NEW s \in Stages,
           stage[w] \notin {"stamped", "done", "aborted"},
           s \notin {"stamped", "done"},
           stage' = [stage EXCEPT ![w] = s],
           heap' \in Seq(Tuples),
           \A i \in DOMAIN heap' : heap'[i].slot = "freed" =>
               i \in DOMAIN heap /\ heap'[i] = heap[i],
           UNCHANGED <<stamp, shared, vacuum>>
    PROVE  SnapshotInv'
<1> USE DEF SnapshotInv
<1>1. stage' \in [Xids -> Stages] /\ \A v \in Xids : v # w => stage'[v] = stage[v]
  BY DEF Types
<1>2. stage'[w] = s
  BY DEF Types
<1>3. Types'
  BY <1>1 DEF Types, shared
<1>4. StampsAssigned'
  BY <1>1, <1>2 DEF StampsAssigned, shared
<1>5. MapCovers'
  BY <1>1, <1>2 DEF MapCovers, shared
<1>6. VacuumLooksBack'
  BY <1>1, <1>2 DEF VacuumLooksBack
<1>7. FreedForGood'
  BY <1>1, <1>2 DEF FreedForGood, DidAbort
<1>8. SnapshotsMatchStamps' /\ SavedTuplesKept'
  BY DEF SnapshotsMatchStamps, SavedTuplesKept, shared
<1> QED
  BY <1>3, <1>4, <1>5, <1>6, <1>7, <1>8

(* A transaction gets the next xstamp: no saved snapshot sees it.          *)
LEMMA StampStep ==
    ASSUME SnapshotInv, NEW w \in Xids, GetCommitXStamp(w)
    PROVE  SnapshotInv'
<1> USE DEF SnapshotInv
<1>1. /\ stage[w] = "cleared"
      /\ stamp' = [stamp EXCEPT ![w] = next]
      /\ next' = next + 1
      /\ stage' = [stage EXCEPT ![w] = "stamped"]
      /\ UNCHANGED <<earliest, saved, map, heap, vacuum>>
  BY DEF GetCommitXStamp
<1>2. /\ stage' \in [Xids -> Stages] /\ stage'[w] = "stamped"
      /\ \A v \in Xids : v # w => stage'[v] = stage[v]
  BY <1>1 DEF Types, Stages
<1>3. /\ stamp' \in [Xids -> Nat] /\ stamp'[w] = next /\ stamp[w] = InvalidXStamp
      /\ \A v \in Xids : v # w => stamp'[v] = stamp[v]
  BY <1>1 DEF Types, StampsAssigned
<1>4. Types'
  <2>1. next' \in Nat /\ FirstXStamp <= next'
        /\ \A id \in DOMAIN saved' : id \in Nat /\ FirstXStamp <= id /\ id <= next'
    BY <1>1 DEF Types, FirstXStamp
  <2>2. heap' \in Seq(Tuples)
        /\ vacuum' \in [running : BOOLEAN, oldestXmin : Nat, torn : BOOLEAN]
    BY <1>1 DEF Types
  <2> QED
    BY <1>2, <1>3, <2>1, <2>2 DEF Types
<1>5. StampsAssigned'
  BY <1>1, <1>2, <1>3 DEF StampsAssigned, Types
<1>6. MapCovers'
  BY <1>1, <1>2, <1>3 DEF MapCovers
<1>7. VacuumLooksBack' /\ FreedForGood'
  BY <1>1, <1>2 DEF VacuumLooksBack, FreedForGood, DidAbort
<1>8. SnapshotsMatchStamps'
  BY <1>1, <1>3 DEF SnapshotsMatchStamps, Types, InvalidXStamp, FirstXStamp
<1>9. SavedTuplesKept'
  BY <1>1 DEF SavedTuplesKept
<1> QED
  BY <1>4, <1>5, <1>6, <1>7, <1>8, <1>9

(* The xstamp enters the map, if a snapshot is saved.                      *)
LEMMA MapStep ==
    ASSUME SnapshotInv, NEW w \in Xids, CommitMapAdd(w)
    PROVE  SnapshotInv'
<1> USE DEF SnapshotInv
<1>1. /\ stage[w] = "stamped"
      /\ stage' = [stage EXCEPT ![w] = "done"]
      /\ UNCHANGED <<stamp, next, earliest, saved, heap, vacuum>>
  BY DEF CommitMapAdd
<1>2. /\ stage' \in [Xids -> Stages] /\ stage'[w] = "done"
      /\ \A v \in Xids : v # w => stage'[v] = stage[v]
  BY <1>1 DEF Types, Stages
<1>3. Types' /\ StampsAssigned'
  BY <1>1, <1>2 DEF Types, StampsAssigned
<1>4. MapCovers'
  <2>1. CASE earliest # InvalidXStamp
    <3>1. /\ DOMAIN map' = DOMAIN map \union {w}
          /\ \A x \in DOMAIN map' : map'[x] = IF x = w THEN stamp[w] ELSE map[x]
      BY <2>1 DEF CommitMapAdd
    <3> QED
      BY <1>1, <1>2, <3>1 DEF MapCovers
  <2>2. CASE earliest = InvalidXStamp
    <3>1. map' = map /\ DOMAIN saved = {}
      BY <2>2, ZenonT(60) DEF CommitMapAdd, MapCovers
    <3> QED
      BY <1>1, <1>2, <3>1 DEF MapCovers
  <2> QED
    BY <2>1, <2>2
<1>5. VacuumLooksBack' /\ FreedForGood'
  BY <1>1, <1>2 DEF VacuumLooksBack, FreedForGood, DidAbort
<1>6. SnapshotsMatchStamps' /\ SavedTuplesKept'
  BY <1>1 DEF SnapshotsMatchStamps, SavedTuplesKept
<1> QED
  BY <1>3, <1>4, <1>5, <1>6

(* A saved snapshot: nobody is in the middle of a commit, so the           *)
(* transactions it sees are those with xstamps.                            *)
LEMMA SaveStep ==
    ASSUME SnapshotInv, SaveSnapshot, UNCHANGED <<stage, stamp, heap, vacuum>>
    PROVE  SnapshotInv'
<1> USE DEF SnapshotInv
<1>1. UNCHANGED <<stage, stamp, heap, vacuum, next, map>>
  BY DEF SaveSnapshot
<1>2. CASE lastSSnap = next
  <2>1. UNCHANGED <<earliest, saved>>
    BY <1>2 DEF SaveSnapshot
  <2> QED
    BY <1>1, <2>1
    DEF Types, StampsAssigned, MapCovers, VacuumLooksBack, FreedForGood,
        DidAbort, SnapshotsMatchStamps, SavedTuplesKept
<1>3. CASE lastSSnap # next
  <2>1. /\ earliest' = IF earliest = InvalidXStamp THEN next ELSE earliest
        /\ saved' = [id \in DOMAIN saved \union {next} |->
                        IF id = next THEN GetTransactionSnapshot ELSE saved[id]]
    BY <1>3 DEF SaveSnapshot
  <2>2. /\ DOMAIN saved' = DOMAIN saved \union {next}
        /\ saved'[next] = GetTransactionSnapshot
        /\ \A id \in DOMAIN saved : id # next => saved'[id] = saved[id]
    BY <2>1
  <2>3. \A w \in Xids : /\ w \in GetTransactionSnapshot <=> stage[w] = "done"
                        /\ stage[w] # "stamped"
    BY ValidityAssumption DEF SaveSnapshot, SSnapHashLockFree, Committing,
       GetTransactionSnapshot, DidCommit, Xids, Bootstrap
  <2>4. Types'
    BY <1>1, <2>2 DEF Types
  <2>5. StampsAssigned' /\ VacuumLooksBack' /\ FreedForGood'
    BY <1>1 DEF StampsAssigned, VacuumLooksBack, FreedForGood, DidAbort
  <2>6. MapCovers'
    <3>1. earliest' # InvalidXStamp
      BY <2>1 DEF Types, FirstXStamp, InvalidXStamp
    <3>2. \A w \in Xids : stage[w] = "done" => stamp[w] \in Nat /\ stamp[w] < next
      BY DEF StampsAssigned, Types
    <3>3. ASSUME NEW id \in DOMAIN saved', NEW w \in Xids,
                 stage[w] = "done", id <= stamp[w]
          PROVE  w \in DOMAIN map
      <4>1. id \in DOMAIN saved
        BY <2>2, <3>2, <3>3 DEF Types
      <4> QED
        BY <3>3, <4>1 DEF MapCovers
    <3> QED
      BY <1>1, <3>1, <3>3 DEF MapCovers
  <2>7. SnapshotsMatchStamps'
    <3>1. \A w \in Xids : stage[w] = "done" <=> stamp[w] \in FirstXStamp .. next - 1
      BY <2>3 DEF StampsAssigned, Types, FirstXStamp, InvalidXStamp
    <3> QED
      BY <1>1, <2>2, <2>3, <3>1 DEF SnapshotsMatchStamps
  <2>8. SavedTuplesKept'
    <3> SUFFICES ASSUME NEW i \in DOMAIN heap, heap[i].slot = "freed"
                 PROVE  ~(heap[i].xmin \in saved'[next]
                          /\ heap[i].xmax \notin saved'[next])
      BY <1>1, <2>2 DEF SavedTuplesKept
    <3> QED
      BY <2>2, <2>3 DEF FreedForGood, DidAbort
  <2> QED
    BY <2>4, <2>5, <2>6, <2>7, <2>8
<1> QED
  BY <1>2, <1>3

(* A snapshot is dropped, and the map forgets what every other one sees.   *)
LEMMA RemoveStep ==
    ASSUME SnapshotInv, NEW id \in DOMAIN saved, RemoveSavedSnapshot(id),
           UNCHANGED <<stage, stamp, heap, vacuum>>
    PROVE  SnapshotInv'
<1> USE DEF SnapshotInv
<1> DEFINE rest == DOMAIN saved \ {id}
<1>1. /\ DOMAIN saved' = rest /\ \A s \in rest : saved'[s] = saved[s]
      /\ UNCHANGED <<stage, stamp, heap, vacuum, next>>
  BY DEF RemoveSavedSnapshot
<1>2. rest \in SUBSET Nat
  BY DEF Types
<1>3. Types'
  BY <1>1 DEF Types
<1>4. StampsAssigned' /\ VacuumLooksBack' /\ FreedForGood'
  BY <1>1 DEF StampsAssigned, VacuumLooksBack, FreedForGood, DidAbort
<1>5. SnapshotsMatchStamps' /\ SavedTuplesKept'
  BY <1>1 DEF SnapshotsMatchStamps, SavedTuplesKept
<1>6. MapCovers'
  <2>1. CASE earliest # id
    <3>1. UNCHANGED <<map, earliest>>
      BY <2>1 DEF RemoveSavedSnapshot
    <3> QED
      BY <1>1, <3>1 DEF MapCovers
  <2>2. CASE earliest = id
    <3> DEFINE keep == Min(rest \union {XStampInfinity})
    <3>1. map' = CommitMapExpire(keep) /\ earliest' = EarliestOf(rest)
      BY <2>2 DEF RemoveSavedSnapshot
    <3>2. keep \in Nat /\ \A s \in rest : keep <= s
      <4>1. rest \union {XStampInfinity} \in SUBSET Nat
        BY <1>2, ValidityAssumption
      <4> QED
        BY <4>1, LeastXStamp
    <3>3. rest # {} => earliest' # InvalidXStamp
      <4> SUFFICES ASSUME rest # {}
                   PROVE  Min(rest) # InvalidXStamp
        BY <3>1 DEF EarliestOf
      <4>1. Min(rest) \in rest
        BY <1>2, LeastXStamp
      <4> QED
        BY <4>1 DEF Types, FirstXStamp, InvalidXStamp
    <3> HIDE DEF keep
    <3>4. /\ \A x \in DOMAIN map' : x \in DOMAIN map /\ map'[x] = map[x]
          /\ \A x \in DOMAIN map : map[x] >= keep => x \in DOMAIN map'
      BY <3>1 DEF CommitMapExpire
    <3>5. ASSUME NEW s \in rest, NEW w \in Xids, stage[w] = "done", s <= stamp[w]
          PROVE  w \in DOMAIN map'
      <4>1. w \in DOMAIN map /\ map[w] = stamp[w]
        BY <3>5 DEF MapCovers
      <4>2. stamp[w] >= keep
        BY <3>2, <3>5, <1>2 DEF Types
      <4> QED
        BY <4>1, <4>2, <3>4
    <3> QED
      BY <1>1, <3>3, <3>4, <3>5 DEF MapCovers
  <2> QED
    BY <2>1, <2>2
<1> QED
  BY <1>3, <1>4, <1>5, <1>6

-----------------------------------------------------------------------------
(* VACUUM.                                                                 *)
LEMMA VacuumStep ==
    ASSUME SnapshotInv, Vacuum
    PROVE  SnapshotInv'
<1> USE DEF SnapshotInv
<1>1. CASE VacuumStarts
  <2>1. /\ vacuum' = [running |-> TRUE, oldestXmin |-> OldestXmin,
                      torn |-> \E w \in Xids : Committing(w)]
        /\ UNCHANGED <<stage, stamp, shared, heap>>
    BY <1>1 DEF VacuumStarts
  <2> DEFINE S == {w \in Xids : InProgress(w) \/ stage[w] = "idle"} \union {NoXid}
  <2>2. OldestXmin \in S /\ \A w \in S : OldestXmin <= w
    <3>1. S \in SUBSET Nat
      BY ValidityAssumption DEF Xids, NoXid
    <3> QED
      BY <3>1, LeastXStamp DEF OldestXmin
  <2>3. OldestXmin \in Nat
    BY <2>2, ValidityAssumption DEF Xids, NoXid
  <2>4. Types'
    BY <2>1, <2>3 DEF Types, shared
  <2>5. VacuumLooksBack'
    <3> SUFFICES ASSUME ~(\E w \in Xids : Committing(w)),
                        NEW w \in Xids, w < OldestXmin
                 PROVE  stage[w] \in {"done", "aborted"}
      BY <2>1 DEF VacuumLooksBack
    <3>1. w \notin S
      BY <2>2, <2>3, ValidityAssumption DEF Xids
    <3> QED
      BY <3>1 DEF InProgress, Committing, Types, Stages
  <2> QED
    BY <2>1, <2>4, <2>5
    DEF StampsAssigned, MapCovers, FreedForGood, DidAbort,
        SnapshotsMatchStamps, SavedTuplesKept, shared
<1>2. ASSUME NEW i \in DOMAIN heap, VacuumTuple(i)
      PROVE  SnapshotInv'
  <2>1. /\ vacuum.running /\ heap[i].slot = "used" /\ Dead(heap[i])
        /\ heap' = [heap EXCEPT ![i].slot =
                        IF vacuum.torn THEN "lost" ELSE "freed"]
        /\ UNCHANGED <<stage, stamp, shared, vacuum>>
    BY <1>2 DEF VacuumTuple
  <2>2. /\ heap' \in Seq(Tuples) /\ DOMAIN heap' = DOMAIN heap
        /\ \A j \in DOMAIN heap : heap'[j].xmin = heap[j].xmin
                                  /\ heap'[j].xmax = heap[j].xmax
        /\ \A j \in DOMAIN heap : j # i => heap'[j] = heap[j]
        /\ vacuum.torn => heap'[i].slot # "freed"
    <3> DEFINE t == [heap[i] EXCEPT
                        !.slot = IF vacuum.torn THEN "lost" ELSE "freed"]
    <3>1. heap \in Seq(Tuples) /\ heap[i] \in Tuples
      BY DEF Types
    <3>2. /\ t \in Tuples /\ t.xmin = heap[i].xmin /\ t.xmax = heap[i].xmax
          /\ vacuum.torn => t.slot # "freed"
      BY <3>1 DEF Tuples
    <3>3. heap' = [heap EXCEPT ![i] = t]
      BY <2>1
    <3> HIDE DEF t
    <3>4. heap' \in Seq(Tuples)
      BY <3>1, <3>2, <3>3
    <3>5. /\ DOMAIN heap' = DOMAIN heap /\ heap'[i] = t
          /\ \A j \in DOMAIN heap : j # i => heap'[j] = heap[j]
      BY <3>3
    <3> QED
      BY <3>2, <3>4, <3>5
  <2>3. ASSUME ~vacuum.torn, ~DidAbort(heap[i].xmin)
        PROVE  /\ heap[i].xmax \in Xids /\ stage[heap[i].xmax] = "done"
               /\ \A id \in DOMAIN saved : heap[i].xmax \in saved[id]
    <3> DEFINE x == heap[i].xmax
    <3>1. /\ DidCommit(x) /\ x # NoXid /\ x < vacuum.oldestXmin
          /\ ~XidIsInvisibleToSomeSavedSnapshot(x)
      BY <2>1, <2>3 DEF Dead
    <3>2. x \in Xids
      <4>1. heap[i] \in Tuples
        BY DEF Types
      <4> QED
        BY <3>1, <4>1 DEF Tuples
    <3>3. stage[x] = "done"
      BY <2>1, <2>3, <3>1, <3>2, ValidityAssumption
      DEF VacuumLooksBack, DidCommit, Xids, Bootstrap
    <3>4. stamp[x] \in Nat /\ FirstXStamp <= stamp[x]
      BY <3>2, <3>3 DEF StampsAssigned, Types
    <3>5. x \notin DOMAIN map
      BY <3>1, <3>4 DEF XidIsInvisibleToSomeSavedSnapshot, CommitMapLookup,
         MapCovers, FirstXStamp, InvalidXStamp
    <3>6. ASSUME NEW id \in DOMAIN saved
          PROVE  x \in saved[id]
      <4>1. ~(id <= stamp[x])
        BY <3>2, <3>3, <3>5 DEF MapCovers
      <4>2. stamp[x] \in FirstXStamp .. id - 1
        BY <3>4, <4>1 DEF Types, FirstXStamp
      <4> QED
        BY <3>2, <4>2 DEF SnapshotsMatchStamps
    <3> QED
      BY <3>2, <3>3, <3>6
  <2>4. ASSUME DidAbort(heap[i].xmin), NEW id \in DOMAIN saved
        PROVE  heap[i].xmin \notin saved[id]
    <3>1. heap[i].xmin \in Xids /\ stamp[heap[i].xmin] = InvalidXStamp
      BY <2>4 DEF DidAbort, StampsAssigned
    <3> QED
      BY <3>1 DEF SnapshotsMatchStamps, FirstXStamp, InvalidXStamp
  <2>5. Types'
    BY <2>1, <2>2 DEF Types, shared
  <2>6. StampsAssigned' /\ MapCovers' /\ VacuumLooksBack' /\ SnapshotsMatchStamps'
    BY <2>1 DEF StampsAssigned, MapCovers, VacuumLooksBack,
                SnapshotsMatchStamps, shared
  <2>7. FreedForGood'
    BY <2>1, <2>2, <2>3 DEF FreedForGood, DidAbort
  <2>8. SavedTuplesKept'
    BY <2>1, <2>2, <2>3, <2>4 DEF SavedTuplesKept, shared
  <2> QED
    BY <2>5, <2>6, <2>7, <2>8
<1>3. CASE VacuumEnds
  <2>1. vacuum' = NoVacuum /\ UNCHANGED <<stage, stamp, shared, heap>>
    BY <1>3 DEF VacuumEnds
  <2> QED
    BY <2>1
    DEF Types, StampsAssigned, MapCovers, VacuumLooksBack, FreedForGood,
        DidAbort, SnapshotsMatchStamps, SavedTuplesKept, shared, NoVacuum
<1> QED
  BY <1>1, <1>2, <1>3 DEF Vacuum

(* The reader and stuttering steps change nothing here.                    *)
LEMMA ReadStep ==
    ASSUME SnapshotInv, UNCHANGED <<stage, stamp, shared, heap, vacuum>>
    PROVE  SnapshotInv'
BY DEF SnapshotInv, Types, StampsAssigned, MapCovers, VacuumLooksBack,
       FreedForGood, DidAbort, SnapshotsMatchStamps, SavedTuplesKept, shared

-----------------------------------------------------------------------------
(* The steps of a writer.                                                  *)
LEMMA WriterStep ==
    ASSUME SnapshotInv, NEW w \in Xids, Writer(w)
    PROVE  SnapshotInv'
<1> heap \in Seq(Tuples)
  BY DEF SnapshotInv, Types
<1>1. CASE \/ StartTransaction(w) \/ AbortTransaction(w)
           \/ RecordTransactionCommit(w) \/ PrepareCommitXStamp(w)
  <2>1. PICK s \in Stages \ {"stamped", "done"} :
            stage' = [stage EXCEPT ![w] = s]
    BY <1>1 DEF StartTransaction, AbortTransaction, RecordTransactionCommit,
                PrepareCommitXStamp, Stages
  <2>2. /\ stage[w] \notin {"stamped", "done", "aborted"}
        /\ UNCHANGED <<stamp, shared, heap, vacuum>>
    BY <1>1 DEF StartTransaction, AbortTransaction, RecordTransactionCommit,
                PrepareCommitXStamp
  <2> QED
    BY <2>1, <2>2, EarlyStep, ZenonT(60)
<1>2. CASE heap_insert(w)
  <2> DEFINE t == [xmin |-> w, xmax |-> NoXid, slot |-> "used"]
  <2>1. /\ stage[w] \in {"running", "wrote"} /\ heap' = Append(heap, t)
        /\ stage' = [stage EXCEPT ![w] = "wrote"]
        /\ UNCHANGED <<stamp, shared, vacuum>>
    BY <1>2 DEF heap_insert
  <2>2. t \in Tuples /\ t.slot = "used"
    BY DEF Tuples
  <2> HIDE DEF t
  <2>3. /\ heap' \in Seq(Tuples)
        /\ \A i \in DOMAIN heap' : heap'[i] = t
                                   \/ (i \in DOMAIN heap /\ heap'[i] = heap[i])
    BY <2>1, <2>2
  <2> QED
    BY <2>1, <2>2, <2>3, EarlyStep, ZenonT(60) DEF Stages
<1>3. ASSUME NEW i \in DOMAIN heap, heap_delete(w, i)
      PROVE  SnapshotInv'
  <2> DEFINE t == [heap[i] EXCEPT !.xmax = w]
  <2>1. /\ stage[w] \in {"running", "wrote"} /\ heap[i].slot = "used"
        /\ heap' = [heap EXCEPT ![i] = t]
        /\ stage' = [stage EXCEPT ![w] = "wrote"]
        /\ UNCHANGED <<stamp, shared, vacuum>>
    BY <1>3 DEF heap_delete
  <2>2. t \in Tuples /\ t.slot = "used"
    <3>1. heap[i] \in Tuples
      OBVIOUS
    <3> QED
      BY <2>1, <3>1, ZenonT(60) DEF Tuples
  <2> HIDE DEF t
  <2>3. /\ heap' \in Seq(Tuples) /\ heap'[i] = t /\ DOMAIN heap' = DOMAIN heap
        /\ \A j \in DOMAIN heap : j # i => heap'[j] = heap[j]
    BY <2>1, <2>2
  <2> QED
    BY <2>1, <2>2, <2>3, EarlyStep, Zenon DEF Stages
<1> QED
  BY <1>1, <1>2, <1>3, StampStep, MapStep DEF Writer

(* The invariant is inductive.                                             *)
LEMMA SnapshotNext == SnapshotInv /\ [Next]_vars => SnapshotInv'
<1> SUFFICES ASSUME SnapshotInv, [Next]_vars
             PROVE  SnapshotInv'
  OBVIOUS
<1>1. ASSUME NEW w \in Xids, Writer(w)
      PROVE  SnapshotInv'
  BY <1>1, WriterStep
<1>2. CASE Pin \/ AssignAndPinTransactionSnapshot
  BY <1>2, SaveStep DEF Pin, AssignAndPinTransactionSnapshot
<1>3. ASSUME NEW id \in DOMAIN saved, Unpin(id)
      PROVE  SnapshotInv'
  BY <1>3, RemoveStep DEF Unpin
<1>4. CASE Reader
  <2>1. CASE ~AssignAndPinTransactionSnapshot
    BY <1>4, <2>1, ReadStep
    DEF Reader, SetTransactionXStamp, ExecutorStart, FetchTuple, LookUpTuple,
        ExecutorRunEnds, EndTransaction
  <2> QED
    BY <1>2, <2>1
<1>5. CASE UNCHANGED vars
  BY <1>5, ReadStep DEF vars, shared
<1> QED
  BY <1>1, <1>2, <1>3, <1>4, <1>5, VacuumStep DEF Next

(* A snapshot saved under SSnapHashLock sees exactly the transactions with *)
(* smaller xstamps, however commits and PINs interleave (ssnap.c).         *)
THEOREM SnapshotsAgree == Spec => []SnapshotsMatchStamps
<1>1. SnapshotInv => SnapshotsMatchStamps
  BY DEF SnapshotInv
<1> QED
  BY SnapshotInit, SnapshotNext, <1>1, PTL DEF Spec

(* VACUUM leaves the tuples of saved snapshots alone, although their       *)
(* transactions do not hold GetOldestXmin back: the commit map does it     *)
(* (tqual.c HeapTupleSatisfiesVacuum), unless VACUUM starts in mid-commit. *)
THEOREM TuplesKept == Spec => []SavedTuplesKept
<1>1. SnapshotInv => SavedTuplesKept
  BY DEF SnapshotInv
<1> QED
  BY SnapshotInit, SnapshotNext, <1>1, PTL DEF Spec
=============================================================================
