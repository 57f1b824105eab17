---------------------------- MODULE ClientProofs ----------------------------
(***************************************************************************)
(* That a read-only transaction reads one snapshot in a session that is    *)
(* where the client believes it to be, and that what the client puts into  *)
(* the cache is true, for any items, values, tags and snapshots and any    *)
(* nesting of cacheable calls.                                             *)
(***************************************************************************)
EXTENDS Client, TLAPS

\* More time than the default, which some of the leaves come close to.
USE SMTT(60)

\* Frames, with bounds that may be any numbers.
FrameTypes ==
    [interval : [lower : Nat, upper : Nat \ {0}, stillValid : BOOLEAN],
     invalTags : SUBSET Tags, reads : SUBSET Reads, tainted : BOOLEAN]

\* What a frame read holds in its interval, and the interval is of the past.
Truthful(frame) ==
    /\ \A p \in Snapshots :
           frame.interval.lower <= p /\ p < frame.interval.upper =>
               ReadsHoldAt(frame.reads, p)
    /\ frame.reads # {} => frame.interval.upper <= latest + 1
    /\ frame.interval.stillValid =>
           \A r \in frame.reads : TagsOf[r.item] \subseteq frame.invalTags

TrueFrames ==
    {f \in FrameTypes : mode = "normal" /\ ~f.tainted => Truthful(f)}

\* What the argument needs to know about types.
Types ==
    /\ snap \in Seq([Items -> Values])
    /\ PIN_MIN <= latest /\ latest <= MaxPin
    /\ mode \in {"normal", "bypass"}
    /\ pinSet \in [pins : SUBSET Nat, andStar : BOOLEAN]
    /\ \A p \in pinSet.pins : 1 <= p /\ p <= latest
    /\ seen \in SUBSET Reads

\* The star goes with the first read.
ReadsExplained ==
    mode = "normal" =>
        /\ \A p \in pinSet.pins : ReadsHoldAt(seen, p)
        /\ pinSet.andStar => seen = {}

\* In bypass mode the pin set stays as it began, and all reads are made in
\* one transaction of the session.
BypassReads ==
    mode = "bypass" /\ running =>
        /\ pinSet = NoPins
        /\ \/ activePin = PIN_INVALID /\ seen = {}
           \/ /\ activePin = PIN_INF
              /\ \/ session \in {Gone, FailedTxn}
                 \/ \E p \in 1 .. latest :
                        session = OpenAt(p) /\ ReadsHoldAt(seen, p)

ClientInv ==
    Types /\ stack \in Seq(TrueFrames) /\ ReadsExplained /\ BypassReads

-----------------------------------------------------------------------------
(* Frames.                                                                 *)

(* A frame that has read nothing is truthful.                              *)
LEMMA EmptyFrameTrue == EmptyFrame \in TrueFrames
<1>1. EmptyFrame \in FrameTypes
  BY PinInfAssumption DEF EmptyFrame, FrameTypes, PIN_NEG_INF
<1>2. Truthful(EmptyFrame)
  BY DEF Truthful, ReadsHoldAt, EmptyFrame
<1> QED
  BY <1>1, <1>2 DEF TrueFrames

(* What Interval_Intersect does when `now' is -infinity.                   *)
LEMMA Intersected ==
    ASSUME NEW a \in [lower : Nat, upper : Nat \ {0}, stillValid : BOOLEAN],
           NEW b \in [lower : Nat, upper : Nat \ {0}, stillValid : BOOLEAN],
           NEW c, c = Interval_Intersect(a, b, PIN_NEG_INF)
    PROVE  /\ c \in [lower : Nat, upper : Nat \ {0}, stillValid : BOOLEAN]
           /\ \A p \in Nat : c.lower <= p /\ p < c.upper =>
                  /\ a.lower <= p /\ p < a.upper
                  /\ b.lower <= p /\ p < b.upper
           /\ c.upper <= a.upper /\ c.upper <= b.upper
           /\ c.stillValid => a.stillValid /\ b.stillValid
<1>1. EffectiveUpper(a, PIN_NEG_INF) = a.upper
      /\ EffectiveUpper(b, PIN_NEG_INF) = b.upper
  BY DEF EffectiveUpper, MAX, PIN_NEG_INF
<1>2. c = [lower |-> IF a.lower < b.lower THEN b.lower ELSE a.lower,
           upper |-> IF a.upper > b.upper THEN b.upper ELSE a.upper,
           stillValid |-> a.stillValid /\ b.stillValid]
  BY <1>1 DEF Interval_Intersect
<1>3. c.lower \in Nat /\ c.upper \in Nat \ {0} /\ c.stillValid \in BOOLEAN
  BY <1>2
<1>4. c \in [lower : Nat, upper : Nat \ {0}, stillValid : BOOLEAN]
  BY <1>2, <1>3
<1> QED
  BY <1>2, <1>4

(* A frame that takes over reads of another truthful source, with its      *)
(* interval and its tags, stays truthful.                                  *)
LEMMA JoinTrue ==
    ASSUME Types, mode = "normal",
           NEW f \in FrameTypes, Truthful(f),
           NEW g \in FrameTypes, Truthful(g),
           NEW h \in FrameTypes,
           h.interval = Interval_Intersect(f.interval, g.interval, PIN_NEG_INF),
           h.invalTags = f.invalTags \union g.invalTags,
           h.reads = f.reads \union g.reads
    PROVE  Truthful(h)
<1>1. /\ f.interval \in [lower : Nat, upper : Nat \ {0}, stillValid : BOOLEAN]
      /\ g.interval \in [lower : Nat, upper : Nat \ {0}, stillValid : BOOLEAN]
      /\ h.interval \in [lower : Nat, upper : Nat \ {0}, stillValid : BOOLEAN]
  BY DEF FrameTypes
<1>2. /\ \A p \in Nat : h.interval.lower <= p /\ p < h.interval.upper =>
             /\ f.interval.lower <= p /\ p < f.interval.upper
             /\ g.interval.lower <= p /\ p < g.interval.upper
      /\ h.interval.upper <= f.interval.upper
      /\ h.interval.upper <= g.interval.upper
      /\ h.interval.stillValid => f.interval.stillValid /\ g.interval.stillValid
  BY <1>1, Intersected
<1>3. \A p \in Snapshots : p \in Nat
  BY DEF Snapshots, PIN_MIN
<1>4. ASSUME NEW p \in Snapshots,
             h.interval.lower <= p, p < h.interval.upper
      PROVE  ReadsHoldAt(h.reads, p)
  <2>1. ReadsHoldAt(f.reads, p) /\ ReadsHoldAt(g.reads, p)
    BY <1>2, <1>3, <1>4 DEF Truthful
  <2> QED
    BY <2>1 DEF ReadsHoldAt
<1>5. ASSUME h.reads # {}
      PROVE  h.interval.upper <= latest + 1
  <2>1. latest \in Nat
    BY DEF Types, latest
  <2>2. CASE f.reads # {}
    BY <1>1, <1>2, <2>1, <2>2 DEF Truthful
  <2>3. CASE g.reads # {}
    BY <1>1, <1>2, <2>1, <2>3 DEF Truthful
  <2> QED
    BY <1>5, <2>2, <2>3
<1>6. ASSUME h.interval.stillValid, NEW r \in h.reads
      PROVE  TagsOf[r.item] \subseteq h.invalTags
  <2>1. f.interval.stillValid /\ g.interval.stillValid
    BY <1>2, <1>6
  <2> QED
    BY <1>6, <2>1 DEF Truthful
<1> QED
  BY <1>4, <1>5, <1>6, ZenonT(60) DEF Truthful

(* A reply as a frame of its own: the reads it vouches for.                *)
ReplyFrame(read, reply) ==
    [interval |-> reply.interval, invalTags |-> reply.invalTags,
     reads |-> {read}, tainted |-> FALSE]

(* A frame that reads an answer that Held stays truthful.                  *)
LEMMA WithReadTrue ==
    ASSUME Types, NEW f \in TrueFrames, NEW item \in Items, NEW value \in Values,
           NEW lower \in Snapshots, NEW upper \in (lower + 1) .. (latest + 1),
           NEW stillValid \in BOOLEAN, Held(item, value, lower, upper)
    PROVE  WithRead(f, [item |-> item, value |-> value],
                    ReplyOf(item, lower, upper, stillValid)) \in TrueFrames
<1> DEFINE read == [item |-> item, value |-> value]
           reply == ReplyOf(item, lower, upper, stillValid)
           g == ReplyFrame(read, reply)
           h == WithRead(f, read, reply)
<1>1. /\ reply = [interval |-> [lower |-> lower, upper |-> upper,
                                stillValid |-> stillValid],
                  invalTags |-> IF stillValid THEN TagsOf[item] ELSE {}]
      /\ reply.invalTags \in SUBSET Tags
  BY ClientAssumption DEF ReplyOf
<1>2. lower \in Nat /\ upper \in Nat \ {0} /\ latest \in Nat /\ upper <= latest + 1
  BY DEF Types, Snapshots, PIN_MIN, latest
<1>3. read \in Reads
  BY DEF Reads
<1>4. g \in FrameTypes /\ g.reads = {read} /\ g.interval = reply.interval
      /\ g.invalTags = reply.invalTags
  BY <1>1, <1>2, <1>3 DEF ReplyFrame, FrameTypes
<1>5. f \in FrameTypes /\ (mode = "normal" /\ ~f.tainted => Truthful(f))
  BY DEF TrueFrames
<1> DEFINE interval == IF mode = "bypass" THEN f.interval
                       ELSE Interval_Intersect(f.interval, reply.interval,
                                               PIN_NEG_INF)
<1>6. h = [f EXCEPT !.interval = interval,
                    !.invalTags = f.invalTags \union reply.invalTags,
                    !.reads = f.reads \union {read}]
  BY <1>5 DEF WithRead, UpdatedFrame, FrameTypes
<1> HIDE DEF g, h, read, reply
<1>7. reply.interval = [lower |-> lower, upper |-> upper, stillValid |-> stillValid]
  BY <1>1
<1>8. Truthful(g)
  <2>1. ASSUME NEW p \in Snapshots, lower <= p, p < upper
        PROVE  snap[p][item] = value
    <3>1. p \in lower .. (upper - 1)
      BY <1>2, <2>1 DEF Snapshots, PIN_MIN
    <3> QED
      BY <3>1 DEF Held
  <2>2. stillValid => TagsOf[item] \subseteq g.invalTags
    BY <1>1, <1>4
  <2>3. read.item = item /\ read.value = value
    BY DEF read
  <2> QED
    BY <1>2, <1>4, <1>7, <2>1, <2>2, <2>3 DEF Truthful, ReadsHoldAt
<1>9. /\ f.interval \in [lower : Nat, upper : Nat \ {0}, stillValid : BOOLEAN]
      /\ reply.interval \in [lower : Nat, upper : Nat \ {0}, stillValid : BOOLEAN]
      /\ f.invalTags \in SUBSET Tags /\ f.reads \in SUBSET Reads
      /\ f.tainted \in BOOLEAN
  BY <1>2, <1>5, <1>7 DEF FrameTypes
<1>10. interval \in [lower : Nat, upper : Nat \ {0}, stillValid : BOOLEAN]
  BY <1>9, Intersected
<1> HIDE DEF interval
<1>11. /\ h \in FrameTypes /\ h.interval = interval
       /\ h.invalTags = f.invalTags \union g.invalTags
       /\ h.reads = f.reads \union g.reads
       /\ h.tainted = f.tainted
  BY <1>1, <1>3, <1>4, <1>5, <1>6, <1>9, <1>10, ZenonT(60) DEF FrameTypes
<1>12. ASSUME mode = "normal", ~h.tainted
       PROVE  Truthful(h)
  <2>1. h.interval = Interval_Intersect(f.interval, g.interval, PIN_NEG_INF)
    BY <1>4, <1>11, <1>12 DEF interval
  <2> QED
    BY <1>4, <1>5, <1>8, <1>11, <1>12, <2>1, JoinTrue
<1> QED
  BY <1>11, <1>12 DEF TrueFrames, h, read, reply

(* A cacheable call's frame merged into its caller's.                      *)
LEMMA MergeTrue ==
    ASSUME Types, NEW f \in TrueFrames, NEW g \in TrueFrames
    PROVE  MergedInto(g, f) \in TrueFrames
<1> DEFINE h == MergedInto(g, f)
           interval == IF mode = "bypass" THEN f.interval
                       ELSE Interval_Intersect(f.interval, g.interval,
                                               PIN_NEG_INF)
<1>1. /\ f \in FrameTypes /\ (mode = "normal" /\ ~f.tainted => Truthful(f))
      /\ g \in FrameTypes /\ (mode = "normal" /\ ~g.tainted => Truthful(g))
  BY DEF TrueFrames
<1>2. h = [f EXCEPT !.interval = interval,
                    !.invalTags = f.invalTags \union g.invalTags,
                    !.reads = f.reads \union g.reads,
                    !.tainted = f.tainted \/ g.tainted]
  BY <1>1 DEF MergedInto, UpdatedFrame, FrameTypes
<1>3. /\ f.interval \in [lower : Nat, upper : Nat \ {0}, stillValid : BOOLEAN]
      /\ g.interval \in [lower : Nat, upper : Nat \ {0}, stillValid : BOOLEAN]
      /\ f.invalTags \in SUBSET Tags /\ f.reads \in SUBSET Reads
      /\ g.invalTags \in SUBSET Tags /\ g.reads \in SUBSET Reads
      /\ f.tainted \in BOOLEAN /\ g.tainted \in BOOLEAN
  BY <1>1 DEF FrameTypes
<1> HIDE DEF h
<1>4. interval \in [lower : Nat, upper : Nat \ {0}, stillValid : BOOLEAN]
  BY <1>3, Intersected
<1> HIDE DEF interval
<1>5. /\ h \in FrameTypes /\ h.interval = interval
      /\ h.invalTags = f.invalTags \union g.invalTags
      /\ h.reads = f.reads \union g.reads
      /\ h.tainted = (f.tainted \/ g.tainted)
  BY <1>1, <1>2, <1>3, <1>4, ZenonT(60) DEF FrameTypes
<1>6. ASSUME mode = "normal", ~h.tainted
      PROVE  Truthful(h)
  <2>1. h.interval = Interval_Intersect(f.interval, g.interval, PIN_NEG_INF)
    BY <1>5, <1>6 DEF interval
  <2>2. Truthful(f) /\ Truthful(g)
    BY <1>1, <1>5, <1>6, Zenon
  <2> QED
    BY <1>1, <1>5, <1>6, <2>1, <2>2, JoinTrue
<1> QED
  BY <1>5, <1>6 DEF TrueFrames, h

(* More tags do no harm.                                                   *)
LEMMA TagTrue ==
    ASSUME NEW f \in TrueFrames, NEW tag \in Tags
    PROVE  [f EXCEPT !.invalTags = @ \union {tag}] \in TrueFrames
<1> DEFINE h == [f EXCEPT !.invalTags = @ \union {tag}]
<1>1. f \in FrameTypes /\ (mode = "normal" /\ ~f.tainted => Truthful(f))
  BY DEF TrueFrames
<1>2. /\ h \in FrameTypes /\ h.interval = f.interval /\ h.reads = f.reads
      /\ h.tainted = f.tainted /\ f.invalTags \subseteq h.invalTags
  BY <1>1 DEF FrameTypes
<1> HIDE DEF h
<1>3. Truthful(f) => Truthful(h)
  BY <1>2 DEF Truthful
<1> QED
  BY <1>1, <1>2, <1>3, Zenon DEF TrueFrames, h

(* A frame whose reads are not vouched for promises nothing.               *)
LEMMA TaintTrue ==
    ASSUME NEW f \in TrueFrames
    PROVE  [f EXCEPT !.tainted = TRUE] \in TrueFrames
BY Zenon DEF TrueFrames, FrameTypes

(* A commit makes no frame false: its interval ends before the new         *)
(* snapshot.                                                               *)
LEMMA CommitKeepsFrames ==
    ASSUME Types, NEW new \in [Items -> Values], Commit(new)
    PROVE  TrueFrames \subseteq TrueFrames'
<1> SUFFICES ASSUME NEW f \in FrameTypes, Truthful(f)
             PROVE  Truthful(f)'
  BY DEF TrueFrames, Commit, UnchangedClient
<1>1. /\ snap' = Append(snap, new) /\ latest \in Nat /\ latest' = latest + 1
      /\ \A p \in 1 .. latest : snap'[p] = snap[p]
  BY DEF Commit, Types, latest
<1>2. Snapshots' = Snapshots \union {latest + 1}
      /\ \A p \in Snapshots : p \in 1 .. latest
  BY <1>1 DEF Snapshots, Types, PIN_MIN
<1>3. f.interval.upper \in Nat
  BY DEF FrameTypes
<1>4. ASSUME NEW p \in Snapshots', f.interval.lower <= p, p < f.interval.upper
      PROVE  ReadsHoldAt(f.reads, p)'
  <2>1. CASE p \in Snapshots
    BY <1>1, <1>2, <1>4, <2>1, ZenonT(60) DEF Truthful, ReadsHoldAt
  <2>2. CASE p = latest + 1
    BY <1>1, <1>3, <1>4, <2>2 DEF Truthful, ReadsHoldAt
  <2> QED
    BY <1>2, <2>1, <2>2
<1> QED
  BY <1>1, <1>3, <1>4 DEF Truthful

-----------------------------------------------------------------------------
(* Steps.                                                                  *)

(* The initial state.                                                      *)
LEMMA ClientInit == Init => ClientInv
<1> SUFFICES ASSUME Init
             PROVE  ClientInv
  OBVIOUS
<1>1. PICK v \in Values : snap = <<[i \in Items |-> v], [i \in Items |-> v]>>
  BY DEF Init, SameResult
<1>2. snap \in Seq([Items -> Values]) /\ latest = 2
  BY <1>1 DEF latest
<1>3. Types
  BY <1>2, ClientAssumption
  DEF Init, Types, PIN_MIN, NoPins, PinSet_Init
<1> QED
  BY <1>3 DEF Init, ClientInv, ReadsExplained, BypassReads, ReadsHoldAt,
              running, NoPins, PinSet_Init

(* A step that leaves the reads alone and the session, in bypass mode, at  *)
(* its snapshot or unusable.                                               *)
LEMMA QuietStep ==
    ASSUME ClientInv, UNCHANGED <<snap, mode, pinSet, stack, seen>>,
           BypassReads'
    PROVE  ClientInv'
<1>1. Types' /\ ReadsExplained'
  BY DEF ClientInv, Types, ReadsExplained, ReadsHoldAt, latest
<1>2. TrueFrames' = TrueFrames
  BY DEF TrueFrames, Truthful, ReadsHoldAt, Snapshots, latest
<1> QED
  BY <1>1, <1>2 DEF ClientInv

(* The transaction begins, ends, or dies with the process.                 *)
LEMMA ResetStep ==
    ASSUME ClientInv, UNCHANGED <<snap, mode>>, seen' = {},
           stack' \in {<<>>, <<EmptyFrame>>}, activePin' = PIN_INVALID,
           pinSet' \in [pins : SUBSET Nat, andStar : BOOLEAN],
           \A p \in pinSet'.pins : 1 <= p /\ p <= latest,
           mode = "bypass" /\ stack' # <<>> => pinSet' = NoPins
    PROVE  ClientInv'
<1>1. Types'
  BY DEF ClientInv, Types, latest
<1>2. TrueFrames' = TrueFrames
  BY DEF TrueFrames, Truthful, ReadsHoldAt, Snapshots, latest
<1>3. stack' \in Seq(TrueFrames)
  <2>1. <<>> \in Seq(TrueFrames)
    OBVIOUS
  <2>2. <<EmptyFrame>> \in Seq(TrueFrames)
    BY EmptyFrameTrue
  <2> QED
    BY <2>1, <2>2, Zenon
<1> QED
  BY <1>1, <1>2, <1>3
  DEF ClientInv, ReadsExplained, BypassReads, ReadsHoldAt, running

(* The process dies.                                                       *)
LEMMA DiesStep ==
    ASSUME ClientInv, NEW why, Dies(why)
    PROVE  ClientInv'
BY ResetStep DEF Dies, NoPins, PinSet_Init

(* What PinSet_IntersectWith leaves is part of the set.                    *)
LEMMA Narrowed ==
    ASSUME NEW ps \in [pins : SUBSET Nat, andStar : BOOLEAN],
           NEW interval \in [lower : Nat, upper : Nat \ {0},
                             stillValid : BOOLEAN]
    PROVE  /\ UpdatedPinSet(ps, interval)
                  \in [pins : SUBSET Nat, andStar : BOOLEAN]
           /\ UpdatedPinSet(ps, interval).pins \subseteq ps.pins
           /\ UpdatedPinSet(ps, interval).andStar => ps.andStar
           /\ mode # "normal" => UpdatedPinSet(ps, interval) = ps
           /\ mode = "normal" =>
                 /\ \A p \in UpdatedPinSet(ps, interval).pins :
                        interval.lower <= p /\ p < interval.upper
                 /\ UpdatedPinSet(ps, interval).andStar =>
                        interval.upper = PIN_INF
BY Zenon DEF UpdatedPinSet, PinSet_IntersectWith

(* A cacheable call begins or ends, or a tag is added.                     *)
LEMMA StackStep ==
    ASSUME ClientInv, running,
           UNCHANGED <<snap, mode, session, activePin, seen>>,
           stack' \in Seq(TrueFrames),
           NEW interval \in [lower : Nat, upper : Nat \ {0},
                             stillValid : BOOLEAN],
           pinSet' \in {pinSet, UpdatedPinSet(pinSet, interval)}
    PROVE  ClientInv'
<1>1. /\ pinSet' \in [pins : SUBSET Nat, andStar : BOOLEAN]
      /\ pinSet'.pins \subseteq pinSet.pins /\ (pinSet'.andStar => pinSet.andStar)
      /\ mode # "normal" => pinSet' = pinSet
  BY Narrowed DEF ClientInv, Types
<1>2. Types' /\ ReadsExplained'
  BY <1>1 DEF ClientInv, Types, ReadsExplained, ReadsHoldAt, latest
<1>3. TrueFrames' = TrueFrames
  BY DEF TrueFrames, Truthful, ReadsHoldAt, Snapshots, latest
<1>4. BypassReads'
  BY <1>1 DEF ClientInv, BypassReads, ReadsHoldAt, running, latest
<1> QED
  BY <1>2, <1>3, <1>4 DEF ClientInv

(* A commit in the database adds a snapshot that the transaction does not  *)
(* know.                                                                   *)
LEMMA CommitStep ==
    ASSUME ClientInv, NEW new \in [Items -> Values], Commit(new)
    PROVE  ClientInv'
<1>1. /\ snap' = Append(snap, new) /\ snap \in Seq([Items -> Values])
      /\ latest \in Nat /\ latest' = latest + 1 /\ latest < MaxPin
      /\ snap' \in Seq([Items -> Values])
      /\ \A p \in 1 .. latest : snap'[p] = snap[p]
      /\ UNCHANGED <<mode, pinSet, session, activePin, stack, seen>>
  BY DEF Commit, UnchangedClient, ClientInv, Types, latest
<1>2. Types'
  <2>1. PIN_MIN <= latest' /\ latest' <= MaxPin
    BY <1>1, ClientAssumption DEF ClientInv, Types, PIN_MIN
  <2>2. \A p \in pinSet'.pins : 1 <= p /\ p <= latest'
    BY <1>1 DEF ClientInv, Types
  <2> QED
    BY <1>1, <2>1, <2>2 DEF ClientInv, Types
<1>3. ReadsExplained'
  <2>1. \A p \in pinSet.pins : p \in 1 .. latest
    BY <1>1 DEF ClientInv, Types
  <2>2. ASSUME NEW p \in pinSet.pins, ReadsHoldAt(seen, p)
        PROVE  ReadsHoldAt(seen, p)'
    BY <1>1, <2>1, <2>2, Zenon DEF ReadsHoldAt
  <2> QED
    BY <1>1, <2>2 DEF ClientInv, ReadsExplained
<1>4. BypassReads'
  <2>1. 1 .. latest \subseteq 1 .. latest'
    BY <1>1
  <2>2. ASSUME NEW p \in 1 .. latest, ReadsHoldAt(seen, p)
        PROVE  ReadsHoldAt(seen, p)'
    BY <1>1, <2>2, ZenonT(60) DEF ReadsHoldAt
  <2> QED
    BY <1>1, <2>1, <2>2 DEF ClientInv, BypassReads, running
<1>5. stack' \in Seq(TrueFrames')
  <2>1. TrueFrames \subseteq TrueFrames'
    BY CommitKeepsFrames DEF ClientInv
  <2> QED
    BY <1>1, <2>1 DEF ClientInv
<1> QED
  BY <1>2, <1>3, <1>4, <1>5 DEF ClientInv

(* The pin set a query runs with: the transaction's own, or, in place of   *)
(* the star, a new snapshot, which is for a transaction without reads.     *)
LEMMA PinSetAtGood ==
    ASSUME ClientInv, NEW pin \in Choosable, MayExec(pin)
    PROVE  /\ PinSetAt(pin) \in [pins : SUBSET Nat, andStar : BOOLEAN]
           /\ \A p \in PinSetAt(pin).pins : 1 <= p /\ p <= latest
           /\ mode = "normal" =>
                 /\ \A p \in PinSetAt(pin).pins : ReadsHoldAt(seen, p)
                 /\ PinSetAt(pin).andStar => seen = {}
           /\ mode # "normal" => PinSetAt(pin) = pinSet
<1>1. CASE ~NeedNewPin(pin)
  BY <1>1 DEF ClientInv, Types, ReadsExplained, PinSetAt, NeedNewPin
<1>2. CASE NeedNewPin(pin)
  <2>1. mode = "normal" /\ pinSet.andStar
    BY <1>2 DEF NeedNewPin, NeedBegin, MayExec, ChosenOutside, PinSet_Contains,
                ClientInv, Types
  <2>2. seen = {}
    BY <2>1 DEF ClientInv, ReadsExplained
  <2>3. PinSetAt(pin) = [pins |-> {latest}, andStar |-> FALSE]
    BY <1>2 DEF PinSetAt, PinSet_ReifyStar
  <2>4. latest \in Nat /\ 1 <= latest
    BY DEF ClientInv, Types, latest, PIN_MIN
  <2> QED
    BY <2>1, <2>2, <2>3, <2>4 DEF ReadsHoldAt
<1> QED
  BY <1>1, <1>2

(* In bypass mode every policy chooses the star.                           *)
LEMMA BypassChoice ==
    ASSUME ClientInv, mode = "bypass", NEW pin \in Choosable
    PROVE  pin = PIN_INF /\ running /\ ~NeedNewPin(pin)
<1>1. running
  BY DEF Choosable
<1>2. pinSet = [pins |-> {}, andStar |-> TRUE]
  BY <1>1 DEF ClientInv, BypassReads, NoPins, PinSet_Init
<1>3. pin = PIN_INF
  BY <1>1, <1>2
  DEF Choosable, NothingToChoose, ChoosePin, ChooseLargestBoundedPin,
      ChooseLargestPin, ChooseMiddlePinWithVariety, ChooseVariety,
      ChooseLatestBoundedPinWithVariety, PinSet_JustStar
<1> QED
  BY <1>1, <1>3 DEF NeedNewPin

(* A result reaches the application.  Whatever snapshot is left in the pin *)
(* set explains all that was read; if none is, this is the first read.     *)
LEMMA DeliverStep ==
    ASSUME ClientInv, running, UNCHANGED <<snap, mode>>,
           NEW ps \in [pins : SUBSET Nat, andStar : BOOLEAN],
           \A p \in ps.pins : 1 <= p /\ p <= latest,
           mode = "normal" => /\ \A p \in ps.pins : ReadsHoldAt(seen, p)
                              /\ ps.andStar => seen = {},
           mode # "normal" => ps = pinSet,
           NEW item \in Items, NEW value \in Values,
           NEW lower \in Snapshots, NEW upper \in (lower + 1) .. (latest + 1),
           NEW stillValid \in BOOLEAN, Held(item, value, lower, upper),
           Deliver(item, value, ReplyOf(item, lower, upper, stillValid), ps)
    PROVE  /\ Types' /\ stack' \in Seq(TrueFrames') /\ ReadsExplained'
           /\ running' /\ (mode # "normal" => pinSet' = pinSet)
           /\ seen' = seen \union {[item |-> item, value |-> value]}
           /\ mode = "normal" => \E p \in 1 .. latest : ReadsHoldAt(seen', p)
<1> DEFINE read == [item |-> item, value |-> value]
           reply == ReplyOf(item, lower, upper, stillValid)
           I == [lower |-> lower, upper |-> upper, stillValid |-> stillValid]
<1>1. /\ UpdateIntervalAssert(ps, I)
      /\ stack' = [stack EXCEPT ![Len(stack)] =
                       WithRead(stack[Len(stack)], read, reply)]
      /\ pinSet' = UpdatedPinSet(ps, I)
      /\ seen' = seen \union {read}
  BY DEF Deliver, ReplyOf, SetBottom, bottom
<1>2. /\ latest \in Nat /\ lower \in Nat /\ lower \in 1 .. latest
      /\ upper \in Nat \ {0} /\ lower < upper /\ upper <= latest + 1
      /\ upper # PIN_INF
  BY ClientAssumption, PinInfAssumption
  DEF ClientInv, Types, Snapshots, latest, PIN_MIN
<1>3. /\ pinSet' \in [pins : SUBSET Nat, andStar : BOOLEAN]
      /\ pinSet'.pins \subseteq ps.pins
      /\ mode # "normal" => pinSet' = pinSet
      /\ mode = "normal" => /\ \A p \in pinSet'.pins : lower <= p /\ p < upper
                            /\ ~pinSet'.andStar
  <2>1. I \in [lower : Nat, upper : Nat \ {0}, stillValid : BOOLEAN]
        /\ I.lower = lower /\ I.upper = upper
    BY <1>2
  <2> QED
    BY <1>1, <1>2, <2>1, Narrowed
<1>4. read \in Reads /\ read.item = item /\ read.value = value
  BY DEF Reads
<1>5. latest' = latest
  BY DEF latest
<1>6. Types'
  BY <1>1, <1>3, <1>4, <1>5 DEF ClientInv, Types
<1>7. ASSUME mode = "normal", NEW p \in pinSet'.pins
      PROVE  ReadsHoldAt(seen', p) /\ ReadsHoldAt(seen, p)'
  <2>1. ReadsHoldAt(seen, p)
    BY <1>3, <1>7
  <2>2. p \in lower .. (upper - 1)
    BY <1>2, <1>3, <1>7
  <2>3. snap[p][item] = value
    BY <2>2 DEF Held
  <2> QED
    BY <1>1, <1>4, <2>1, <2>3 DEF ReadsHoldAt
<1>8. ReadsExplained'
  BY <1>3, <1>7 DEF ReadsExplained
<1>9. ASSUME mode = "normal"
      PROVE  \E p \in 1 .. latest : ReadsHoldAt(seen', p)
  <2>1. CASE pinSet'.pins # {}
    BY <1>3, <1>7, <1>9, <2>1, <1>2
  <2>2. CASE pinSet'.pins = {}
    <3>1. seen = {}
      BY <1>1, <1>9, <2>2 DEF UpdateIntervalAssert, PinSet_IntersectWithAssert,
                              UpdatedPinSet
    <3>2. snap[lower][item] = value
      BY <1>2 DEF Held
    <3> QED
      BY <1>1, <1>2, <1>4, <3>1, <3>2 DEF ReadsHoldAt
  <2> QED
    BY <2>1, <2>2
<1>10. TrueFrames' = TrueFrames
  BY DEF TrueFrames, Truthful, ReadsHoldAt, Snapshots, latest
<1>11. stack' \in Seq(TrueFrames) /\ running'
  <2> DEFINE h == WithRead(stack[Len(stack)], read, reply)
  <2>1. stack \in Seq(TrueFrames) /\ Len(stack) \in 1 .. Len(stack)
        /\ stack[Len(stack)] \in TrueFrames
    BY DEF ClientInv, running
  <2>2. h \in TrueFrames
    BY <2>1, WithReadTrue DEF ClientInv
  <2> HIDE DEF h
  <2>3. stack' = [stack EXCEPT ![Len(stack)] = h]
    BY <1>1 DEF h
  <2> QED
    BY <2>1, <2>2, <2>3 DEF running
<1> QED
  BY <1>1, <1>3, <1>6, <1>8, <1>9, <1>10, <1>11, Zenon

(* In bypass mode a query that is reached runs in the transaction of the   *)
(* reads before it, unless that failed.                                    *)
LEMMA BypassExec ==
    ASSUME ClientInv, mode = "bypass", NEW pin \in Choosable, Reached(pin)
    PROVE  /\ ActivePinAt(pin) = PIN_INF
           /\ SessionAt(pin).txn \in {"open", "failed"}
           /\ SessionAt(pin).txn = "open" =>
                 \E p \in 1 .. latest : /\ SessionAt(pin) = OpenAt(p)
                                        /\ ReadsHoldAt(seen, p)
<1>1. pin = PIN_INF /\ running /\ ~NeedNewPin(pin)
  BY BypassChoice
<1>2. PIN_INF # PIN_INVALID
  BY PinInfAssumption DEF PIN_INVALID
<1>3. latest \in 1 .. latest
  BY DEF ClientInv, Types, latest, PIN_MIN
<1>4. CASE activePin = PIN_INVALID /\ seen = {}
  BY <1>1, <1>2, <1>3, <1>4, ZenonT(60)
  DEF NeedBegin, ActivePinAt, SessionAt, BegunAt, OpenAt, SessionOf,
      ReadsHoldAt
<1>5. CASE activePin = PIN_INF
  <2>1. ActivePinAt(pin) = PIN_INF /\ SessionAt(pin) = session
    BY <1>1, <1>5 DEF ActivePinAt, SessionAt, NeedBegin
  <2>2. \/ session = FailedTxn
        \/ \E p \in 1 .. latest : session = OpenAt(p) /\ ReadsHoldAt(seen, p)
    BY <1>1, <1>2, <1>5 DEF ClientInv, BypassReads, Reached, MayExec
  <2> QED
    BY <2>1, <2>2 DEF FailedTxn, OpenAt, SessionOf
<1> QED
  BY <1>1, <1>4, <1>5 DEF ClientInv, BypassReads

(* A query that succeeds reads one result more, which some snapshot        *)
(* explains together with all before it.                                   *)
LEMMA ExecStep ==
    ASSUME ClientInv, NEW pin \in Choosable, NEW item \in Items,
           NEW lower \in Snapshots, NEW stillValid \in BOOLEAN,
           NEW upper \in (lower + 1) .. (latest + 1),
           Exec(pin, item, lower, upper, stillValid)
    PROVE  ClientInv' /\ ReadOnly!Next
<1> DEFINE value == snap[SessionAt(pin).pin][item]
           ps == PinSetAt(pin)
           reply == ReplyOf(item, lower, upper, stillValid)
<1>1. CASE NoPinLeft(lower, upper, ps)
  BY <1>1, DiesStep, Zenon DEF NoPinLeft, Dies, ReadOnly!Next, ReadOnly!End
<1>2. CASE ~NoPinLeft(lower, upper, ps)
  <2>1. /\ Reached(pin) /\ SessionAt(pin).txn = "open"
        /\ Held(item, value, lower, upper)
        /\ Deliver(item, value, reply, ps)
        /\ session' = SessionAt(pin) /\ activePin' = ActivePinAt(pin)
        /\ UNCHANGED <<snap, mode>>
    BY <1>2 DEF Exec
  <2>2. value \in Values
    <3>1. /\ lower \in lower .. (upper - 1) /\ lower \in 1 .. Len(snap)
          /\ snap \in Seq([Items -> Values])
      BY DEF ClientInv, Types, Snapshots, PIN_MIN, latest
    <3>2. snap[lower][item] \in Values
      BY <3>1
    <3> QED
      BY <2>1, <3>1, <3>2 DEF Held
  <2> HIDE DEF value
  <2>3. running
    BY DEF Choosable
  <2>4. /\ Types' /\ stack' \in Seq(TrueFrames') /\ ReadsExplained'
        /\ running' /\ (mode # "normal" => pinSet' = pinSet)
        /\ seen' = seen \union {[item |-> item, value |-> value]}
        /\ mode = "normal" => \E p \in 1 .. latest : ReadsHoldAt(seen', p)
    <3>1. /\ ps \in [pins : SUBSET Nat, andStar : BOOLEAN]
          /\ \A p \in ps.pins : 1 <= p /\ p <= latest
          /\ mode = "normal" => /\ \A p \in ps.pins : ReadsHoldAt(seen, p)
                                /\ ps.andStar => seen = {}
          /\ mode # "normal" => ps = pinSet
      BY <2>1, PinSetAtGood DEF Reached
    <3> HIDE DEF ps
    <3> QED
      BY <2>1, <2>2, <2>3, <3>1, DeliverStep
  <2>5. ASSUME mode = "bypass"
        PROVE  \E p \in 1 .. latest :
                   session' = OpenAt(p) /\ ReadsHoldAt(seen', p)
    <3>1. PICK p \in 1 .. latest : /\ SessionAt(pin) = OpenAt(p)
                                   /\ ReadsHoldAt(seen, p)
      BY <2>1, <2>5, BypassExec
    <3>2. ReadsHoldAt(seen', p)
      BY <2>4, <3>1 DEF ReadsHoldAt, value, OpenAt, SessionOf
    <3> QED
      BY <2>1, <3>1, <3>2
  <2>6. BypassReads'
    <3> SUFFICES ASSUME mode = "bypass"
                 PROVE  /\ pinSet' = NoPins /\ activePin' = PIN_INF
                        /\ \E p \in 1 .. latest' :
                               session' = OpenAt(p) /\ ReadsHoldAt(seen, p)'
      BY <2>1 DEF BypassReads
    <3>1. pinSet' = NoPins
      BY <2>3, <2>4 DEF ClientInv, BypassReads
    <3>2. activePin' = PIN_INF
      BY <2>1, BypassExec
    <3> QED
      BY <2>1, <2>5, <3>1, <3>2, ZenonT(60) DEF ReadsHoldAt, latest
  <2>7. ReadOnly!Read(item, value)
    <3>1. \E p \in 1 .. latest : ReadsHoldAt(seen', p)
      BY <2>4, <2>5, ZenonT(60) DEF ClientInv, Types
    <3> QED
      BY <2>1, <2>4, <3>1
      DEF ReadOnly!Read, ReadOnly!Explains, ReadsHoldAt, latest
  <2> QED
    BY <2>2, <2>4, <2>6, <2>7 DEF ClientInv, ReadOnly!Next
<1> QED
  BY <1>1, <1>2

(* So does a lookup that hits.                                             *)
LEMMA LookupStep ==
    ASSUME ClientInv, NEW item \in Items, NEW lower \in Snapshots,
           NEW stillValid \in BOOLEAN,
           NEW upper \in (lower + 1) .. (latest + 1),
           LookupHits(item, lower, upper, stillValid)
    PROVE  ClientInv' /\ ReadOnly!Next
<1> DEFINE value == snap[lower][item]
           reply == ReplyOf(item, lower, upper, stillValid)
<1>1. CASE NoPinLeft(lower, upper, pinSet)
  BY <1>1, DiesStep, Zenon DEF NoPinLeft, Dies, ReadOnly!Next, ReadOnly!End
<1>2. CASE ~NoPinLeft(lower, upper, pinSet)
  <2>1. /\ running /\ mode = "normal" /\ Held(item, value, lower, upper)
        /\ Deliver(item, value, reply, pinSet)
        /\ UNCHANGED <<snap, mode>>
    BY <1>2 DEF LookupHits, ClientInv, Types, dbVars
  <2>2. value \in Values
    BY DEF ClientInv, Types, Snapshots, PIN_MIN, latest
  <2> HIDE DEF value
  <2>3. /\ Types' /\ stack' \in Seq(TrueFrames') /\ ReadsExplained'
        /\ seen' = seen \union {[item |-> item, value |-> value]}
        /\ \E p \in 1 .. latest : ReadsHoldAt(seen', p)
    BY <2>1, <2>2, DeliverStep, SMTT(30) DEF ClientInv, Types, ReadsExplained
  <2>4. BypassReads'
    BY <2>1 DEF BypassReads
  <2>5. ReadOnly!Read(item, value)
    BY <2>1, <2>3 DEF ReadOnly!Read, ReadOnly!Explains, ReadsHoldAt, latest
  <2> QED
    BY <2>2, <2>3, <2>4, <2>5, Zenon DEF ClientInv, ReadOnly!Next
<1> QED
  BY <1>1, <1>2

(* A query string that fails, at COMMIT, BEGIN, PIN or the query itself,   *)
(* reads nothing.                                                          *)
LEMMA ExecFailsStep ==
    ASSUME ClientInv, NEW pin \in Choosable,
           ExecBeginFails(pin) \/ ExecPinFails(pin) \/ ExecQueryFails(pin)
    PROVE  ClientInv' /\ UNCHANGED <<snap, seen>>
<1>1. CASE ExecBeginFails(pin)
  <2>1. /\ NeedBegin(pin)
        /\ UNCHANGED <<snap, mode, pinSet, activePin, stack, seen>>
    BY <1>1 DEF ExecBeginFails, dbVars
  <2>2. BypassReads'
    <3>1. CASE mode = "bypass"
      <4>1. pin = PIN_INF /\ PIN_INF # PIN_INVALID
        BY <3>1, BypassChoice, PinInfAssumption DEF PIN_INVALID
      <4>2. activePin # PIN_INF
        BY <2>1, <4>1 DEF NeedBegin
      <4> QED
        BY <2>1, <4>2 DEF ClientInv, BypassReads, running
    <3>2. CASE mode # "bypass"
      BY <2>1, <3>2 DEF BypassReads
    <3> QED
      BY <3>1, <3>2
  <2> QED
    BY <2>1, <2>2, QuietStep
<1>2. CASE ExecPinFails(pin)
  <2>1. mode # "bypass" /\ UNCHANGED <<snap, mode, pinSet, stack, seen>>
    BY <1>2 DEF ExecPinFails, NeedNewPin, dbVars
  <2> QED
    BY <2>1, QuietStep DEF BypassReads
<1>3. CASE ExecQueryFails(pin)
  <2>1. /\ Reached(pin) /\ pinSet' = PinSetAt(pin)
        /\ session' = FailedTxn
        /\ activePin' = ActivePinAt(pin)
        /\ UNCHANGED <<snap, mode, stack, seen>>
    BY <1>3 DEF ExecQueryFails
  <2>2. /\ pinSet' \in [pins : SUBSET Nat, andStar : BOOLEAN]
        /\ \A p \in pinSet'.pins : 1 <= p /\ p <= latest
        /\ mode = "normal" => /\ \A p \in pinSet'.pins : ReadsHoldAt(seen, p)
                              /\ pinSet'.andStar => seen = {}
        /\ mode # "normal" => pinSet' = pinSet
    BY <2>1, PinSetAtGood DEF Reached
  <2>3. Types' /\ ReadsExplained'
    BY <2>1, <2>2 DEF ClientInv, Types, ReadsExplained, ReadsHoldAt, latest
  <2>4. TrueFrames' = TrueFrames
    BY <2>1 DEF TrueFrames, Truthful, ReadsHoldAt, Snapshots, latest
  <2>5. BypassReads'
    <3> SUFFICES ASSUME mode = "bypass", running
                 PROVE  /\ pinSet' = NoPins /\ activePin' = PIN_INF
                        /\ session' = FailedTxn
      BY <2>1 DEF BypassReads, running
    <3>1. pinSet' = NoPins
      BY <2>2 DEF ClientInv, BypassReads
    <3>2. activePin' = PIN_INF
      BY <2>1, BypassExec
    <3> QED
      BY <2>1, <3>1, <3>2
  <2> QED
    BY <2>1, <2>3, <2>4, <2>5 DEF ClientInv
<1> QED
  BY <1>1, <1>2, <1>3

(* Cacheable calls.                                                        *)
LEMMA FrameStep ==
    ASSUME ClientInv,
           \/ EnterCacheable
           \/ \E tag \in Tags : Client_AddExplicitInvalTag(tag)
           \/ Client_ExitCacheableAbort
           \/ \E willing \in BOOLEAN : Client_ExitCacheable(willing)
    PROVE  ClientInv' /\ (UNCHANGED <<snap, seen>> \/ ReadOnly!End)
<1> DEFINE n == Len(stack)
<1> stack \in Seq(TrueFrames) /\ n \in Nat
  BY DEF ClientInv
<1>1. ASSUME n > 0
      PROVE  running /\ stack[n] \in TrueFrames
             /\ \A f \in TrueFrames : [stack EXCEPT ![n] = f] \in Seq(TrueFrames)
  BY <1>1 DEF running
<1>2. ASSUME n > 1, NEW f \in TrueFrames
      PROVE  Append(SubSeq(stack, 1, n - 2), f) \in Seq(TrueFrames)
             /\ stack[n - 1] \in TrueFrames
  <2>1. SubSeq(stack, 1, n - 2) \in Seq(TrueFrames)
    BY <1>2
  <2> QED
    BY <1>2, <2>1
<1>3. CASE EnterCacheable
  <2>1. /\ running /\ stack' = Append(stack, EmptyFrame) /\ pinSet' = pinSet
        /\ UNCHANGED <<snap, mode, session, activePin, seen>>
    BY <1>3 DEF EnterCacheable, dbVars
  <2>2. stack' \in Seq(TrueFrames)
    BY <2>1, EmptyFrameTrue
  <2>3. EmptyFrame.interval
            \in [lower : Nat, upper : Nat \ {0}, stillValid : BOOLEAN]
    BY PinInfAssumption DEF EmptyFrame, PIN_NEG_INF
  <2> QED
    BY <2>1, <2>2, <2>3, StackStep
<1>4. ASSUME NEW tag \in Tags, Client_AddExplicitInvalTag(tag)
      PROVE  ClientInv' /\ UNCHANGED <<snap, seen>>
  <2> DEFINE f == [bottom EXCEPT !.invalTags = @ \union {tag}]
  <2>1. /\ running /\ stack' = [stack EXCEPT ![n] = f] /\ pinSet' = pinSet
        /\ UNCHANGED <<snap, mode, session, activePin, seen>>
    BY <1>4 DEF Client_AddExplicitInvalTag, SetBottom, dbVars
  <2>2. n > 0
    BY <2>1 DEF running
  <2>3. bottom \in TrueFrames
    BY <1>1, <2>2 DEF bottom
  <2>4. f \in TrueFrames
    BY <2>3, TagTrue
  <2>5. stack' \in Seq(TrueFrames)
    BY <1>1, <2>1, <2>2, <2>4
  <2>6. bottom.interval
            \in [lower : Nat, upper : Nat \ {0}, stillValid : BOOLEAN]
    BY <2>3 DEF TrueFrames, FrameTypes
  <2> HIDE DEF f
  <2> QED
    BY <2>1, <2>5, <2>6, StackStep
<1>5. CASE Client_ExitCacheableAbort
  <2> DEFINE f == [Parent EXCEPT !.tainted = TRUE]
  <2>1. /\ n > 1 /\ stack' = Append(SubSeq(stack, 1, n - 2), f)
        /\ pinSet' = pinSet
        /\ UNCHANGED <<snap, mode, session, activePin, seen>>
    BY <1>5 DEF Client_ExitCacheableAbort, Popped, dbVars
  <2>2. running /\ stack[n] \in TrueFrames
    BY <1>1, <2>1
  <2>3. Parent \in TrueFrames
    BY <1>2, <2>1, <2>2 DEF Parent
  <2>4. f \in TrueFrames
    BY <2>3, TaintTrue
  <2>5. stack' \in Seq(TrueFrames)
    BY <1>2, <2>1, <2>4
  <2>6. Parent.interval
            \in [lower : Nat, upper : Nat \ {0}, stillValid : BOOLEAN]
    BY <2>3 DEF TrueFrames, FrameTypes
  <2> HIDE DEF f
  <2> QED
    BY <2>1, <2>2, <2>5, <2>6, StackStep
<1>6. ASSUME NEW willing \in BOOLEAN, Client_ExitCacheable(willing)
      PROVE  ClientInv' /\ (UNCHANGED <<snap, seen>> \/ ReadOnly!End)
  <2>1. CASE \E why : Dies(why)
    BY <2>1, DiesStep DEF Dies, ReadOnly!End
  <2>2. CASE ~\E why : Dies(why)
    <3> DEFINE f == MergedInto(bottom, Parent)
    <3>1. /\ n > 1 /\ stack' = Append(SubSeq(stack, 1, n - 2), f)
          /\ pinSet' = UpdatedPinSet(pinSet, bottom.interval)
          /\ UNCHANGED <<snap, mode, session, activePin, seen>>
      BY <1>6, <2>2, ZenonT(60) DEF Client_ExitCacheable, Popped, dbVars
    <3>2. running /\ bottom \in TrueFrames
      BY <1>1, <3>1 DEF bottom
    <3>3. Parent \in TrueFrames
      BY <1>2, <3>1, <3>2 DEF Parent
    <3>4. f \in TrueFrames
      BY <3>2, <3>3, MergeTrue DEF ClientInv
    <3>5. stack' \in Seq(TrueFrames)
      BY <1>2, <3>1, <3>4
    <3>6. bottom.interval
              \in [lower : Nat, upper : Nat \ {0}, stillValid : BOOLEAN]
      BY <3>2 DEF TrueFrames, FrameTypes
    <3> HIDE DEF f
    <3> QED
      BY <3>1, <3>2, <3>5, <3>6, StackStep
  <2> QED
    BY <2>1, <2>2
<1> QED
  BY <1>3, <1>4, <1>5, <1>6

-----------------------------------------------------------------------------
(* Every step keeps the invariant, and is a step of ReadOnlyTxn or none.   *)
LEMMA ClientNext ==
    ClientInv /\ [Next]_vars => ClientInv' /\ [ReadOnly!Next]_(ReadOnly!vars)
<1> SUFFICES ASSUME ClientInv, [Next]_vars
             PROVE  /\ ClientInv'
                    /\ \/ ReadOnly!Next \/ ReadOnly!End
                       \/ UNCHANGED <<snap, seen>>
  BY DEF ReadOnly!Next, ReadOnly!vars
<1>1. ASSUME NEW new \in [Items -> Values], Commit(new)
      PROVE  ClientInv' /\ ReadOnly!Next
  BY <1>1, CommitStep
  DEF Commit, UnchangedClient, ReadOnly!Next, ReadOnly!Commit
<1>2. CASE (\E p \in saved : Unpin(p)) \/ LosePincushion \/ Restart
  <2>1. UNCHANGED <<snap, mode, pinSet, stack, seen, session, activePin>>
    BY <1>2 DEF Unpin, LosePincushion, Restart, UnchangedClient, dbVars
  <2>2. BypassReads'
    BY <2>1 DEF ClientInv, BypassReads, running, ReadsHoldAt, latest
  <2> QED
    BY <2>1, <2>2, QuietStep
<1>3. CASE LoseSession \/ Client_ReleasePG \/ ExecRW
  <2>1. /\ UNCHANGED <<snap, mode, pinSet, stack, seen, activePin>>
        /\ session' = Gone \/ ~running
    BY <1>3 DEF LoseSession, Client_ReleasePG, ExecRW, UnchangedClient, dbVars
  <2>2. BypassReads'
    BY <2>1 DEF ClientInv, BypassReads, running
  <2> QED
    BY <2>1, <2>2, QuietStep
<1>4. ASSUME NEW granted \in SUBSET Snapshots, Client_BeginRO(granted)
      PROVE  ClientInv' /\ ReadOnly!End
  <2>1. \A p \in granted : p \in Nat /\ 1 <= p /\ p <= latest
    BY DEF Snapshots, PIN_MIN, ClientInv, Types, latest
  <2>2. pinSet' = [pins |-> granted, andStar |-> TRUE]
        /\ (mode = "bypass" => pinSet' = NoPins)
    BY <1>4, ZenonT(60) DEF Client_BeginRO, PinSet_Init, NoPins
  <2>3. pinSet' \in [pins : SUBSET Nat, andStar : BOOLEAN]
        /\ \A p \in pinSet'.pins : 1 <= p /\ p <= latest
    BY <2>1, <2>2
  <2> QED
    BY <1>4, <2>2, <2>3, ResetStep, Zenon DEF Client_BeginRO, ReadOnly!End
<1>5. CASE Client_Commit
  <2>1. pinSet' \in [pins : SUBSET Nat, andStar : BOOLEAN]
        /\ \A p \in pinSet'.pins : 1 <= p /\ p <= latest
    BY <1>5 DEF Client_Commit, ClientInv, Types
  <2> QED
    BY <1>5, <2>1, ResetStep DEF Client_Commit, ReadOnly!End
<1>6. CASE ExecPanics \/ LookupPanics \/ Killed
  BY <1>6, DiesStep, ZenonT(60)
  DEF ExecPanics, LookupPanics, Killed, Dies, ReadOnly!End
<1>7. CASE UNCHANGED vars
  <2>1. UNCHANGED <<snap, mode, pinSet, stack, seen, session, activePin>>
    BY <1>7 DEF vars
  <2>2. BypassReads'
    BY <2>1 DEF ClientInv, BypassReads, running, ReadsHoldAt, latest
  <2> QED
    BY <2>1, <2>2, QuietStep
<1> QED
  BY <1>1, <1>2, <1>3, <1>4, <1>5, <1>6, <1>7, ExecStep, LookupStep,
     ExecFailsStep, FrameStep DEF Next

-----------------------------------------------------------------------------
\* The session agrees with the client, and a transaction has a snapshot.
SessionInv ==
    /\ session \in [txn : {"none", "open", "failed", "gone"}, pin : Nat,
                    busy : BOOLEAN]
    /\ session.txn = "open" => session.pin # PIN_INVALID
    /\ SessionAgrees

(* What the four constructors make.                                        *)
LEMMA SessionTypes ==
    /\ \A s \in {NoTxn, FailedTxn, Gone} :
          /\ s \in [txn : {"none", "open", "failed", "gone"}, pin : Nat,
                    busy : BOOLEAN]
          /\ s.txn # "open"
    /\ FailedTxn.txn = "failed"
    /\ \A p \in Nat :
          /\ OpenAt(p) \in [txn : {"none", "open", "failed", "gone"},
                            pin : Nat, busy : BOOLEAN]
          /\ OpenAt(p).txn = "open" /\ OpenAt(p).pin = p
BY DEF NoTxn, FailedTxn, Gone, OpenAt, SessionOf, PIN_INVALID

(* A query that is reached is in the transaction that the client believes. *)
LEMMA SessionReached ==
    ASSUME ClientInv, SessionInv, NEW pin \in Choosable, Reached(pin),
           NeedBegin(pin)
    PROVE  \E p \in Nat \ {PIN_INVALID} :
              /\ SessionAt(pin) = OpenAt(p)
              /\ p = ActivePinAt(pin)
                 \/ (mode = "bypass" /\ ActivePinAt(pin) = PIN_INF)
<1>1. latest \in Nat \ {PIN_INVALID}
  BY DEF ClientInv, Types, latest, PIN_MIN, PIN_INVALID
<1>2. CASE pin = PIN_INF
  BY <1>1, <1>2 DEF SessionAt, BegunAt, ActivePinAt, NeedNewPin
<1>3. CASE pin # PIN_INF
  <2>1. pin \in pinSet.pins
    BY <1>3 DEF Reached, MayExec, ChosenOutside, PinSet_Contains
  <2>2. pin \in Nat \ {PIN_INVALID}
    BY <2>1 DEF ClientInv, Types, PIN_INVALID
  <2> QED
    BY <1>3, <2>2 DEF SessionAt, BegunAt, ActivePinAt, NeedNewPin
<1> QED
  BY <1>2, <1>3

(* The session only leaves the client's snapshot to become unusable.       *)
LEMMA SessionExec ==
    ASSUME ClientInv, SessionInv, NEW pin \in Choosable,
           \/ ExecBeginFails(pin) \/ ExecPinFails(pin) \/ ExecQueryFails(pin)
           \/ /\ Reached(pin) /\ running'
              /\ session' = SessionAt(pin) /\ activePin' = ActivePinAt(pin)
              /\ mode' = mode
    PROVE  SessionInv'
<1>1. CASE ExecBeginFails(pin)
  <2> DEFINE s == AfterOldCommit(pin)
  <2>1. /\ s \in [txn : {"none", "open", "failed", "gone"}, pin : Nat,
                  busy : BOOLEAN]
        /\ s.txn # "open"
    <3>1. CASE activePin = PIN_INVALID
      BY <3>1, PinInfAssumption
      DEF SessionInv, SessionAgrees, AfterOldCommit, PIN_INVALID
    <3>2. CASE activePin # PIN_INVALID
      BY <1>1, <3>2, SessionTypes, ZenonT(60)
      DEF AfterOldCommit, AfterCommit, ExecBeginFails
    <3> QED
      BY <3>1, <3>2
  <2>2. session' = [s EXCEPT !.busy = TRUE]
    BY <1>1 DEF ExecBeginFails, Abandoned
  <2> HIDE DEF s
  <2>3. /\ session' \in [txn : {"none", "open", "failed", "gone"}, pin : Nat,
                         busy : BOOLEAN]
        /\ session'.txn # "open" /\ session'.busy
    BY <2>1, <2>2, Zenon
  <2> QED
    BY <2>3 DEF SessionInv, SessionAgrees
<1>2. CASE ExecPinFails(pin)
  <2>1. session' = [FailedTxn EXCEPT !.busy = TRUE]
    BY <1>2 DEF ExecPinFails, Abandoned
  <2>2. /\ session' \in [txn : {"none", "open", "failed", "gone"}, pin : Nat,
                         busy : BOOLEAN]
        /\ session'.txn # "open" /\ session'.busy
    BY <2>1, SessionTypes, ZenonT(60)
  <2> QED
    BY <2>2 DEF SessionInv, SessionAgrees
<1>3. CASE ExecQueryFails(pin)
  BY <1>3, SessionTypes DEF ExecQueryFails, SessionInv, SessionAgrees
<1>4. CASE /\ Reached(pin) /\ running'
           /\ session' = SessionAt(pin) /\ activePin' = ActivePinAt(pin)
           /\ mode' = mode
  <2>1. CASE NeedBegin(pin)
    <3>1. PICK p \in Nat \ {PIN_INVALID} :
             /\ SessionAt(pin) = OpenAt(p)
             /\ p = ActivePinAt(pin)
                \/ (mode = "bypass" /\ ActivePinAt(pin) = PIN_INF)
      BY <1>4, <2>1, SessionReached
    <3>2. /\ session' \in [txn : {"none", "open", "failed", "gone"}, pin : Nat,
                           busy : BOOLEAN]
          /\ session'.txn = "open" /\ session'.pin = p
      BY <1>4, <3>1, SessionTypes
    <3> QED
      BY <1>4, <3>1, <3>2 DEF SessionInv, SessionAgrees
  <2>2. CASE ~NeedBegin(pin)
    <3>1. session' = session /\ activePin' = activePin
      BY <1>4, <2>2 DEF SessionAt, ActivePinAt, NeedNewPin
    <3>2. running
      BY DEF Choosable
    <3> QED
      BY <1>4, <3>1, <3>2 DEF SessionInv, SessionAgrees
  <2> QED
    BY <2>1, <2>2
<1> QED
  BY <1>1, <1>2, <1>3, <1>4

(* A stack whose bottom frame changes stays a stack of frames.             *)
LEMMA BottomKept ==
    ASSUME stack \in Seq(TrueFrames), running, NEW f, stack' = SetBottom(f)
    PROVE  running'
<1>1. stack # <<>> /\ Len(stack) \in Nat /\ 1 \in DOMAIN stack
  BY DEF running
<1>2. DOMAIN stack' = DOMAIN stack
  BY <1>1 DEF SetBottom
<1>3. DOMAIN << >> = {}
  OBVIOUS
<1> QED
  BY <1>1, <1>2, <1>3, Zenon DEF running

(* A transaction that ends takes the session's transaction with it.        *)
LEMMA SessionNext ==
    ClientInv /\ SessionInv /\ [Next]_vars => SessionInv'
<1> SUFFICES ASSUME ClientInv, SessionInv, [Next]_vars
             PROVE  SessionInv'
  OBVIOUS
<1> DEFINE Same == /\ running' = running
                   /\ UNCHANGED <<session, mode, activePin>>
<1>1. ASSUME Same
      PROVE  SessionInv'
  BY <1>1 DEF SessionInv, SessionAgrees
<1>2. ASSUME NEW why, Dies(why)
      PROVE  SessionInv'
  BY <1>2, SessionTypes DEF Dies, SessionInv, SessionAgrees
<1>3. ASSUME NEW new, Commit(new)
      PROVE  Same
  BY <1>3 DEF Commit, UnchangedClient, running
<1>4. CASE (\E p \in saved : Unpin(p)) \/ LosePincushion \/ Restart
  <2>1. Same
    BY <1>4 DEF Unpin, LosePincushion, Restart, UnchangedClient, running
  <2> QED
    BY <1>1, <2>1
<1>5. CASE LoseSession
  BY <1>5, SessionTypes DEF LoseSession, SessionInv, SessionAgrees
<1>6. CASE Client_ReleasePG
  BY <1>6, SessionTypes
  DEF Client_ReleasePG, UnchangedClient, SessionInv, SessionAgrees, running
<1>7. CASE ExecRW
  <2>1. ~running /\ ~running' /\ session.txn # "open"
    BY <1>7 DEF ExecRW, UnchangedClient, running, SessionInv, SessionAgrees
  <2>2. CASE session' = NoTxn
    BY <2>1, <2>2, SessionTypes DEF SessionInv, SessionAgrees
  <2>3. CASE session' = [session EXCEPT !.busy = FALSE]
    <3>1. /\ session' \in [txn : {"none", "open", "failed", "gone"}, pin : Nat,
                           busy : BOOLEAN]
          /\ session'.txn # "open"
      BY <2>1, <2>3, ZenonT(60) DEF SessionInv
    <3> QED
      BY <2>1, <3>1 DEF SessionInv, SessionAgrees
  <2> QED
    BY <1>7, <2>2, <2>3 DEF ExecRW
<1>8. ASSUME NEW granted, Client_BeginRO(granted)
      PROVE  SessionInv'
  <2>1. /\ activePin' = PIN_INVALID /\ session' = session
        /\ session.txn # "open"
    BY <1>8 DEF Client_BeginRO, SessionInv, SessionAgrees
  <2> QED
    BY <2>1 DEF SessionInv, SessionAgrees
<1>9. CASE Client_Commit
  <2>1. /\ activePin' = PIN_INVALID
        /\ session' = IF activePin # PIN_INVALID THEN AfterCommit(session)
                      ELSE session
    BY <1>9 DEF Client_Commit
  <2>2. CASE activePin # PIN_INVALID
    BY <2>1, <2>2, SessionTypes DEF AfterCommit, SessionInv, SessionAgrees
  <2>3. CASE activePin = PIN_INVALID
    <3>1. session' = session /\ session.txn # "open"
      BY <2>1, <2>3, PinInfAssumption DEF SessionInv, SessionAgrees, PIN_INVALID
    <3> QED
      BY <2>1, <3>1 DEF SessionInv, SessionAgrees
  <2> QED
    BY <2>2, <2>3
<1>10. CASE ExecPanics \/ LookupPanics \/ Killed
  BY <1>2, <1>10, ZenonT(60) DEF ExecPanics, LookupPanics, Killed
<1>11. ASSUME NEW pin \in Choosable, NEW item, NEW lower, NEW upper,
              NEW stillValid, Exec(pin, item, lower, upper, stillValid)
       PROVE  SessionInv'
  <2>1. CASE NoPinLeft(lower, upper, PinSetAt(pin))
    BY <1>2, <2>1, ZenonT(60) DEF NoPinLeft
  <2>2. CASE ~NoPinLeft(lower, upper, PinSetAt(pin))
    <3>1. /\ Reached(pin) /\ session' = SessionAt(pin)
          /\ activePin' = ActivePinAt(pin) /\ mode' = mode
          /\ stack' = SetBottom(WithRead(bottom,
                 [item |-> item, value |-> snap[SessionAt(pin).pin][item]],
                 ReplyOf(item, lower, upper, stillValid)))
      BY <1>11, <2>2 DEF Exec, Deliver
    <3>2. running'
      <4>1. running
        BY DEF Choosable
      <4> QED
        BY <3>1, <4>1, BottomKept, Zenon DEF ClientInv
    <3> QED
      BY <3>1, <3>2, SessionExec, ZenonT(60)
  <2> QED
    BY <2>1, <2>2
<1>12. ASSUME NEW item, NEW lower, NEW upper, NEW stillValid,
              LookupHits(item, lower, upper, stillValid)
       PROVE  SessionInv'
  <2>1. CASE NoPinLeft(lower, upper, pinSet)
    BY <1>2, <2>1, Zenon DEF NoPinLeft
  <2>2. CASE ~NoPinLeft(lower, upper, pinSet)
    <3>1. /\ running /\ UNCHANGED <<session, mode, activePin>>
          /\ stack' = SetBottom(WithRead(bottom,
                 [item |-> item, value |-> snap[lower][item]],
                 ReplyOf(item, lower, upper, stillValid)))
      BY <1>12, <2>2, ZenonT(60) DEF LookupHits, Deliver
    <3>2. running'
      BY <3>1, BottomKept, Zenon DEF ClientInv
    <3> QED
      BY <1>1, <3>1, <3>2
  <2> QED
    BY <2>1, <2>2
<1>13. ASSUME /\ UNCHANGED <<session, mode, activePin>> /\ running
              /\ \/ \E f : stack' = SetBottom(f)
                 \/ \E f, q : stack' = Append(q, f) /\ q \in Seq(TrueFrames)
       PROVE  SessionInv'
  <2>1. CASE \E f : stack' = SetBottom(f)
    <3>1. running'
      BY <1>13, <2>1, BottomKept, Zenon DEF ClientInv
    <3> QED
      BY <1>1, <1>13, <3>1
  <2>2. CASE \E f, q : stack' = Append(q, f) /\ q \in Seq(TrueFrames)
    BY <1>1, <1>13, <2>2 DEF running
  <2> QED
    BY <1>13, <2>1, <2>2
<1>14. CASE EnterCacheable
  BY <1>13, <1>14 DEF EnterCacheable, ClientInv
<1>15. ASSUME NEW tag, Client_AddExplicitInvalTag(tag)
       PROVE  SessionInv'
  BY <1>13, <1>15 DEF Client_AddExplicitInvalTag
<1>16. ASSUME Len(stack) > 1
       PROVE  running /\ SubSeq(stack, 1, Len(stack) - 2) \in Seq(TrueFrames)
  BY <1>16 DEF running, ClientInv
<1>17. CASE Client_ExitCacheableAbort
  BY <1>13, <1>16, <1>17, Zenon DEF Client_ExitCacheableAbort, Popped
<1>18. ASSUME NEW willing, Client_ExitCacheable(willing)
       PROVE  SessionInv'
  <2>1. \/ \E why : Dies(why)
        \/ /\ Len(stack) > 1 /\ UNCHANGED <<session, mode, activePin>>
           /\ stack' = Popped(MergedInto(bottom, Parent))
    BY <1>18, Zenon DEF Client_ExitCacheable
  <2> QED
    BY <1>2, <1>13, <1>16, <2>1, ZenonT(60) DEF Popped
<1>19. CASE UNCHANGED vars
  BY <1>1, <1>19 DEF vars, running
<1> QED
  BY <1>1, <1>3, <1>4, <1>5, <1>6, <1>7, <1>8, <1>9, <1>10, <1>11, <1>12,
     <1>14, <1>15, <1>17, <1>18, <1>19, SessionExec DEF Next

(* What every snapshot left in the pin set agrees with: all the reads,     *)
(* from the database and from the cache (Client_UpdateInterval).           *)
THEOREM PinSetExplains == Spec => []PinsExplainReads
<1>1. ClientInv => PinsExplainReads
  BY DEF ClientInv, ReadsExplained, PinsExplainReads
<1> QED
  BY ClientInit, ClientNext, <1>1, PTL DEF Spec

(* The star is in the pin set of transactions without reads only, as       *)
(* policy.c assumes.                                                       *)
THEOREM StarUnread == Spec => []StarMeansNothingRead
<1>1. ClientInv => StarMeansNothingRead
  BY DEF ClientInv, ReadsExplained, StarMeansNothingRead
<1> QED
  BY ClientInit, ClientNext, <1>1, PTL DEF Spec

(* Client_ExitCacheable puts only what is true, however calls are nested:  *)
(* CacheServer's assumption about its clients.                             *)
THEOREM PutsAreTrue == Spec => []PutsTrue
<1>1. ClientInv => PutsTrue
  <2> SUFFICES ASSUME ClientInv, mode = "normal", NEW i \in 2 .. Len(stack),
                      ~stack[i].tainted
               PROVE  LET frame == stack[i]
                      IN  /\ \A p \in Snapshots :
                              p \in PinsOf(frame.interval, PIN_NEG_INF)
                                  => ReadsHoldAt(frame.reads, p)
                          /\ frame.reads # {} => frame.interval.upper <= latest + 1
                          /\ frame.interval.stillValid =>
                              \A r \in frame.reads :
                                  TagsOf[r.item] \subseteq frame.invalTags
    BY DEF PutsTrue
  <2>1. stack[i] \in TrueFrames
    BY DEF ClientInv
  <2>2. stack[i] \in FrameTypes /\ Truthful(stack[i])
    BY <2>1 DEF TrueFrames
  <2>3. EffectiveUpper(stack[i].interval, PIN_NEG_INF) = stack[i].interval.upper
    BY <2>2 DEF FrameTypes, EffectiveUpper, MAX, PIN_NEG_INF
  <2> QED
    BY <2>2, <2>3 DEF Truthful, PinsOf
<1> QED
  BY ClientInit, ClientNext, <1>1, PTL DEF Spec

(* The client implements ReadOnlyTxn: although its results come from the   *)
(* cache and from the database at one snapshot or another, one snapshot    *)
(* explains all that a transaction has read, in bypass mode too.           *)
THEOREM ReadsOneSnapshot == Spec => OneSnapshot
<1>1. Init => ReadOnly!Init
  BY DEF Init, ReadOnly!Init, SameResult
<1> QED
  BY ClientInit, ClientNext, <1>1, PTL DEF Spec, OneSnapshot, ReadOnly!Spec

(* A query that Client_Exec gets through runs at the snapshot activePin    *)
(* says, although a query string that fails half way leaves activePin as   *)
(* it was: the results left unread keep the session from being used.       *)
THEOREM SessionFollowsClient == Spec => []SessionAgrees
<1>1. Init => SessionInv
  BY SessionTypes DEF Init, SessionInv, SessionAgrees, running
<1>2. SessionInv => SessionAgrees
  BY DEF SessionInv
<1> QED
  BY ClientInit, ClientNext, SessionNext, <1>1, <1>2, PTL DEF Spec
=============================================================================
