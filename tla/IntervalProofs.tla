--------------------------- MODULE IntervalProofs ---------------------------
(* Interval arithmetic computes what the sets of pins say, for any PIN_INF. *)
EXTENDS Interval, TLAPS

(* A valid interval is non-empty, and so is the set of pins it promises:   *)
(* its lower bound is one of them at any time.                             *)
LEMMA LowerPromised ==
    ASSUME NEW a \in Intervals, Interval_AssertValid(a), NEW now \in Pins
    PROVE  /\ a.lower < a.upper
           /\ EffectiveUpper(a, now) \in Pins
           /\ a.upper <= EffectiveUpper(a, now)
           /\ a.lower \in PinsOf(a, now)
<1>1. a.lower \in Pins /\ a.upper \in Pins /\ a.stillValid \in BOOLEAN
  BY DEF Intervals
<1>2. PIN_INF \in Nat /\ PIN_INF > 2
  BY PinInfAssumption
<1>3. a.lower < a.upper
  BY <1>1, <1>2 DEF Interval_AssertValid, Pins, PIN_INVALID, PIN_NEG_INF
<1>4. EffectiveUpper(a, now) \in Pins /\ a.upper <= EffectiveUpper(a, now)
  BY <1>1, <1>2 DEF EffectiveUpper, MAX, Pins
<1> QED
  BY <1>1, <1>2, <1>3, <1>4 DEF PinsOf, Pins

(* Interval_Overlaps answers whether two valid intervals promise a common  *)
(* pin at time now.                                                        *)
THEOREM OverlapsCorrect ==
    ASSUME NEW a \in Intervals, Interval_AssertValid(a),
           NEW b \in Intervals, Interval_AssertValid(b),
           NEW now \in Pins
    PROVE  Interval_Overlaps(a, b, now) <=>
               PinsOf(a, now) \cap PinsOf(b, now) # {}
<1> DEFINE A == EffectiveUpper(a, now)
           B == EffectiveUpper(b, now)
<1>1. PIN_INF \in Nat /\ PIN_INF > 2
  BY PinInfAssumption
<1>2. /\ a.lower \in Pins /\ a.upper \in Pins
      /\ b.lower \in Pins /\ b.upper \in Pins
      /\ a.lower >= PIN_NEG_INF /\ b.lower >= PIN_NEG_INF
  BY <1>1 DEF Intervals, Interval_AssertValid, Pins, PIN_INVALID, PIN_NEG_INF
<1>3. /\ A \in Pins /\ a.lower < a.upper /\ a.upper <= A
      /\ B \in Pins /\ b.lower < b.upper /\ b.upper <= B
  BY LowerPromised
<1>4. Interval_Overlaps(a, b, now) <=> (A > b.lower /\ B > a.lower)
  <2>1. CASE a.lower = PIN_NEG_INF \/ a.lower < b.lower
    <3>1. a.upper = PIN_INF => A > b.lower
      BY <1>1, <1>2, <1>3 DEF Pins
    <3>2. B > a.lower
      BY <2>1, <1>1, <1>2, <1>3 DEF Pins, PIN_NEG_INF
    <3> QED
      BY <2>1, <3>1, <3>2 DEF Interval_Overlaps
  <2>2. CASE ~(a.lower = PIN_NEG_INF \/ a.lower < b.lower)
    <3>1. b.upper = PIN_INF => B > a.lower
      BY <1>1, <1>2, <1>3 DEF Pins
    <3>2. A > b.lower
      BY <2>2, <1>1, <1>2, <1>3 DEF Pins
    <3> QED
      BY <2>2, <3>1, <3>2 DEF Interval_Overlaps
  <2> QED
    BY <2>1, <2>2
<1>5. ASSUME A > b.lower, B > a.lower
      PROVE  PinsOf(a, now) \cap PinsOf(b, now) # {}
  <2> DEFINE m == IF a.lower < b.lower THEN b.lower ELSE a.lower
  <2>1. m \in PinsOf(a, now) /\ m \in PinsOf(b, now)
    BY <1>1, <1>2, <1>3, <1>5 DEF PinsOf, Pins
  <2> QED
    BY <2>1
<1>6. ASSUME NEW p \in PinsOf(a, now), p \in PinsOf(b, now)
      PROVE  A > b.lower /\ B > a.lower
  BY <1>1, <1>2, <1>3, <1>6 DEF PinsOf, Pins
<1> QED
  BY <1>4, <1>5, <1>6

(* Interval_Intersect promises exactly the pins both arguments promise.    *)
THEOREM IntersectCorrect ==
    ASSUME NEW a \in Intervals, Interval_AssertValid(a),
           NEW b \in Intervals, Interval_AssertValid(b),
           NEW now \in Pins
    PROVE  PinsOf(Interval_Intersect(a, b, now), now) =
               PinsOf(a, now) \cap PinsOf(b, now)
<1> DEFINE A == EffectiveUpper(a, now)
           B == EffectiveUpper(b, now)
           c == Interval_Intersect(a, b, now)
<1>1. PIN_INF \in Nat /\ PIN_INF > 2
  BY PinInfAssumption
<1>2. /\ a.lower \in Pins /\ b.lower \in Pins
      /\ a.stillValid \in BOOLEAN /\ b.stillValid \in BOOLEAN
  BY DEF Intervals
<1>3. A \in Pins /\ B \in Pins
  BY LowerPromised
<1>4. /\ c.lower = IF a.lower < b.lower THEN b.lower ELSE a.lower
      /\ c.upper = IF A > B THEN B ELSE A
      /\ c.stillValid = (a.stillValid /\ b.stillValid)
  BY DEF Interval_Intersect
<1>5. EffectiveUpper(c, now) = IF A > B THEN B ELSE A
  <2>1. CASE c.stillValid
    <3>1. A >= now /\ B >= now
      BY <2>1, <1>1, <1>2, <1>4 DEF EffectiveUpper, MAX, Pins, Intervals
    <3> QED
      BY <2>1, <3>1, <1>1, <1>3, <1>4 DEF EffectiveUpper, MAX, Pins
  <2>2. CASE ~c.stillValid
    BY <2>2, <1>4 DEF EffectiveUpper
  <2> QED
    BY <2>1, <2>2
<1> QED
  <2> HIDE DEF A, B, c
  <2>1. ASSUME NEW p \in Pins
        PROVE  (c.lower <= p /\ p < EffectiveUpper(c, now)) <=>
                 (a.lower <= p /\ p < A /\ b.lower <= p /\ p < B)
    BY <2>1, <1>1, <1>2, <1>3, <1>4, <1>5 DEF Pins
  <2> QED
    BY <2>1 DEF PinsOf, A, B, c
=============================================================================
