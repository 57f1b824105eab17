------------------------------ MODULE Interval ------------------------------
(***************************************************************************)
(* Pins (database snapshot timestamps) and validity intervals, from        *)
(* lib/interval.h.  An interval [lower, upper) lists the pins at which a   *)
(* cached value is known to be correct; stillValid says that nothing is    *)
(* known to have ended it, so every operation is relative to `now', the    *)
(* last invalidation heard of.                                             *)
(***************************************************************************)
EXTENDS Naturals

CONSTANT PIN_INF    \* the largest pin_t: 2^32 - 1 in the code

ASSUME PinInfAssumption == PIN_INF \in Nat /\ PIN_INF > 2

PIN_INVALID == 0
PIN_NEG_INF == 1
PIN_MIN == 2

Pins == 0..PIN_INF

PIN_SPECIAL(p) == p \in {PIN_INVALID, PIN_NEG_INF, PIN_INF}

Intervals == [lower : Pins, upper : Pins, stillValid : BOOLEAN]

MAX(x, y) == IF x < y THEN y ELSE x

Interval_AssertValid(a) ==
    /\ a.lower \notin {PIN_INVALID, PIN_INF}
    /\ a.upper \notin {PIN_INVALID, PIN_NEG_INF}
    /\ a.lower = PIN_NEG_INF \/ a.upper = PIN_INF \/ a.lower < a.upper

(* The upper bound an interval has at time now. *)
EffectiveUpper(a, now) == IF a.stillValid THEN MAX(a.upper, now) ELSE a.upper

Interval_Overlaps(a, b, now) ==
    IF a.lower = PIN_NEG_INF \/ a.lower < b.lower
    THEN a.upper = PIN_INF \/ EffectiveUpper(a, now) > b.lower
    ELSE b.upper = PIN_INF \/ EffectiveUpper(b, now) > a.lower

Interval_Intersect(a, b, now) ==
    LET aUpper == EffectiveUpper(a, now)
        bUpper == EffectiveUpper(b, now)
    IN  [lower |-> IF a.lower < b.lower THEN b.lower ELSE a.lower,
         upper |-> IF aUpper > bUpper THEN bUpper ELSE aUpper,
         stillValid |-> a.stillValid /\ b.stillValid]

-----------------------------------------------------------------------------
(* The reference meaning of an interval: the set of pins it promises. *)
PinsOf(a, now) == {p \in Pins : a.lower <= p /\ p < EffectiveUpper(a, now)}
=============================================================================
