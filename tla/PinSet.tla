------------------------------- MODULE PinSet -------------------------------
(***************************************************************************)
(* The snapshots a transaction may still run at (lib/pinset.c): pins the   *)
(* pincushion granted and, as the star, a snapshot yet to be pinned.  The  *)
(* code keeps the pins in an ascending array and trims it at both ends, so *)
(* it is a set here; and the pin choice policies of client/policy.c.       *)
(***************************************************************************)
EXTENDS Interval, FiniteSets, FiniteSetsExt

PinSets == [pins : SUBSET Pins, andStar : BOOLEAN]

PinSet_Init(pins, andStar) == [pins |-> pins, andStar |-> andStar]

(* Mutant: the star outlives a result that ends. *)
PinSet_IntersectWithKeepsStar(ps, interval) ==
    [pins |-> {p \in ps.pins : interval.lower <= p /\ p < interval.upper},
     andStar |-> ps.andStar]

(* Mutant: the upper bound is taken as inclusive. *)
PinSet_IntersectWithInclusive(ps, interval) ==
    [pins |-> {p \in ps.pins : interval.lower <= p /\ p <= interval.upper},
     andStar |-> ps.andStar /\ interval.upper = PIN_INF]

PinSet_IntersectWith(ps, interval) ==
    [pins |-> {p \in ps.pins : interval.lower <= p /\ p < interval.upper},
     andStar |-> ps.andStar /\ interval.upper = PIN_INF]

(* The assertion of PinSet_IntersectWith. *)
PinSet_IntersectWithAssert(ps, interval) ==
    ps.andStar \/ PinSet_IntersectWith(ps, interval).pins # {}

PinSet_Contains(ps, pin) == IF pin = PIN_INF THEN ps.andStar ELSE pin \in ps.pins

PinSet_ReifyStar(pin) == [pins |-> {pin}, andStar |-> FALSE]

PinSet_JustStar(ps) == ps.pins = {} /\ ps.andStar

PinSet_BoundsWithoutStar(ps) ==
    [lower |-> Min(ps.pins), upper |-> Max(ps.pins) + 1, stillValid |-> FALSE]

-----------------------------------------------------------------------------
(* The pins a policy may choose.  How old the latest pin is decides        *)
(* between it and the star, and is left open; a policy that finds neither  *)
(* reads past an empty array.                                              *)

ChooseLargestBoundedPin(ps) ==
    IF PinSet_JustStar(ps) THEN {PIN_INF} ELSE {Max(ps.pins)}

ChooseLargestPin(ps) == IF ps.andStar THEN {PIN_INF} ELSE {Max(ps.pins)}

(* Mutant: the star is chosen whether or not the set has it. *)
ChooseVarietyAnyway(ps) == {PIN_INF}

ChooseVariety(ps) == IF ps.andStar THEN {PIN_INF} ELSE {}

MiddlePin(ps) ==
    CHOOSE p \in ps.pins :
        Cardinality({q \in ps.pins : q < p}) = Cardinality(ps.pins) \div 2

ChooseMiddlePinWithVariety(ps) ==
    ChooseVariety(ps) \union
    (IF ps.pins = {} THEN {} ELSE {MiddlePin(ps)})

ChooseLatestBoundedPinWithVariety(ps) ==
    ChooseVariety(ps) \union
    (IF ps.pins = {} THEN {} ELSE {Max(ps.pins)})

(* Every choice of some policy. *)
ChoosePin(ps) ==
    ChooseLargestBoundedPin(ps) \union ChooseLargestPin(ps)
        \union ChooseMiddlePinWithVariety(ps)
        \union ChooseLatestBoundedPinWithVariety(ps)
=============================================================================
