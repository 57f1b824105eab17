------------------------------- MODULE Client -------------------------------
(***************************************************************************)
(* The client library (client/client.c) as the wrapper of a PHP request    *)
(* (phpclient/txcache.c) drives it: read-only transactions that read the   *)
(* database and the cache, and cacheable calls nested in them.             *)
(*                                                                         *)
(* Its peers are modelled by what they promise.  The database answers a    *)
(* query with the result at the session's snapshot and an interval around  *)
(* that snapshot in which it is the same; the cache answers with a true    *)
(* result and interval that overlaps the bounds asked for (RepliesTruthful *)
(* of CacheServer); the pincushion keeps the snapshots it granted until    *)
(* the transaction returns them (PinLease).  Any of them may go away.      *)
(*                                                                         *)
(* snap[p][i] is the result of reading item i, a query or a cacheable call *)
(* alike, at snapshot p, PIN_MIN being the first.  A frame records what    *)
(* was read in it (reads), and seen is everything the transaction handed   *)
(* to the application.                                                     *)
(***************************************************************************)
EXTENDS PinSet, Sequences

CONSTANTS
    Items,          \* what a transaction may read
    Values,         \* the results
    Tags,           \* invalidation tags
    TagsOf,         \* TagsOf[i]: the tags of a result of i that still holds
    Modes,          \* subset of {"normal", "bypass"}
    MaxPin,         \* bound: last commit timestamp
    MaxDepth        \* bound: cacheable calls nested in each other

ASSUME ClientAssumption ==
    /\ TagsOf \in [Items -> (SUBSET Tags) \ {{}}]
    /\ Modes \subseteq {"normal", "bypass"}
    /\ MaxPin \in Nat /\ PIN_MIN <= MaxPin /\ MaxPin < PIN_INF - 1
    /\ MaxDepth \in Nat

VARIABLES
    snap,           \* the database: the results at each snapshot
    saved,          \* the snapshots it keeps of those the transaction knows
    session,        \* the client's database session
    lease,          \* the snapshots the pincushion keeps for this client
    mode,           \* bypassMode
    pinSet,
    activePin,      \* the snapshot the session is believed to be at
    stack,          \* the root frame and the frames of cacheable calls
    seen,           \* auxiliary: all reads of the transaction
    panic           \* the assertion that ended the process, or "none"

vars == <<snap, saved, session, lease, mode, pinSet, activePin,
          stack, seen, panic>>

dbVars == <<snap, saved>>

latest == Len(snap)
Snapshots == PIN_MIN..latest

Reads == [item : Items, value : Values]
Frames == [interval : Intervals, invalTags : SUBSET Tags, reads : SUBSET Reads,
           tainted : BOOLEAN]

EmptyFrame ==
    [interval |-> [lower |-> PIN_NEG_INF, upper |-> PIN_INF, stillValid |-> TRUE],
     invalTags |-> {}, reads |-> {}, tainted |-> FALSE]

(* A session has no transaction, has one open at a snapshot, has one that  *)
(* failed and waits for its COMMIT, or is disconnected.  It is busy while  *)
(* results of a query string are left unread.                              *)
Sessions == [txn : {"none", "open", "failed", "gone"}, pin : Pins,
             busy : BOOLEAN]
SessionOf(txn, pin) == [txn |-> txn, pin |-> pin, busy |-> FALSE]
NoTxn == SessionOf("none", PIN_INVALID)
OpenAt(pin) == SessionOf("open", pin)
FailedTxn == SessionOf("failed", PIN_INVALID)
Gone == SessionOf("gone", PIN_INVALID)

NoPins == PinSet_Init({}, TRUE)

running == stack # <<>>
bottom == stack[Len(stack)]
Alive == panic = "none"

(* Results of different items are never compared, so that they may be the  *)
(* same at first.                                                          *)
SameResult == {[i \in Items |-> v] : v \in Values}

Init ==
    /\ snap \in {<<s, s>> : s \in SameResult}
    /\ saved = {} /\ session = NoTxn
    /\ lease = {}
    /\ mode \in Modes
    /\ pinSet = NoPins /\ activePin = PIN_INVALID
    /\ stack = <<>> /\ seen = {}
    /\ panic = "none"

-----------------------------------------------------------------------------
(* The other processes.                                                    *)

UnchangedClient == UNCHANGED <<mode, pinSet, activePin, stack, seen, panic>>

Commit(new) ==
    /\ latest < MaxPin
    /\ snap' = Append(snap, new)
    /\ UNCHANGED <<saved, session, lease>> /\ UnchangedClient

(* The pincushion gives up a snapshot nobody holds. *)
Unpin(p) ==
    /\ p \in saved \ lease
    /\ saved' = saved \ {p}
    /\ UNCHANGED <<snap, session, lease>> /\ UnchangedClient

(* The pincushion or its connection goes away, and with it the lease. *)
LosePincushion ==
    /\ lease # {}
    /\ lease' = {}
    /\ UNCHANGED <<dbVars, session>> /\ UnchangedClient

LoseSession ==
    /\ session # Gone
    /\ session' = Gone
    /\ UNCHANGED <<dbVars, lease>> /\ UnchangedClient

(* The process dies of an assertion, a panic or otherwise, and all its     *)
(* connections with it.                                                    *)
Dies(why) ==
    /\ session' = NoTxn
    /\ lease' = {} /\ saved' = {}
    /\ pinSet' = NoPins /\ activePin' = PIN_INVALID
    /\ stack' = <<>> /\ seen' = {}
    /\ panic' = why
    /\ UNCHANGED <<snap, mode>>

-----------------------------------------------------------------------------
(* The pincushion grants snapshots that clients pinned before, or none;    *)
(* without an answer, or in bypass mode, the transaction starts with the   *)
(* star alone.                                                             *)
Client_BeginRO(granted) ==
    /\ Alive /\ ~running
    /\ mode = "bypass" => granted = {}
    /\ pinSet' = PinSet_Init(granted, TRUE)
    /\ activePin' = PIN_INVALID
    /\ stack' = <<EmptyFrame>>
    /\ seen' = {}
    /\ saved' = granted /\ lease' = granted
    /\ UNCHANGED <<snap, session, mode, panic>>

(* The session after a COMMIT: a failed transaction is rolled back.        *)
AfterCommit(s) == IF s = Gone THEN Gone ELSE NoTxn

(* Mutant: a COMMIT that fails leaves the lease to the pincushion. *)
Client_CommitReturnsEarly ==
    /\ Alive /\ Len(stack) = 1
    /\ stack' = <<>> /\ seen' = {}
    /\ session' = IF activePin # PIN_INVALID THEN AfterCommit(session) ELSE session
    /\ activePin' = PIN_INVALID
    /\ lease' = IF activePin # PIN_INVALID /\ session = Gone THEN lease ELSE {}
    /\ saved' = {}
    /\ UNCHANGED <<snap, mode, pinSet, panic>>

(* Client_Commit ends the session's transaction if one was begun and       *)
(* returns the lease even if that fails.                                   *)
Client_Commit ==
    /\ Alive /\ Len(stack) = 1
    /\ stack' = <<>> /\ seen' = {}
    /\ session' = IF activePin # PIN_INVALID THEN AfterCommit(session) ELSE session
    /\ activePin' = PIN_INVALID
    /\ lease' = {} /\ saved' = {}
    /\ UNCHANGED <<snap, mode, pinSet, panic>>

(* Between transactions the application drops its database connection; the *)
(* next query acquires a new one.                                          *)
Client_ReleasePG ==
    /\ Alive /\ ~running /\ session # NoTxn
    /\ session' = NoTxn
    /\ UNCHANGED <<dbVars, lease>> /\ UnchangedClient

(* Between transactions Client_Exec passes a statement through with        *)
(* PQexec, which reads what was left unread; it may end a transaction.     *)
ExecRW ==
    /\ Alive /\ ~running /\ session \notin {Gone, NoTxn}
    /\ session' \in {[session EXCEPT !.busy = FALSE], NoTxn}
    /\ UNCHANGED <<dbVars, lease>> /\ UnchangedClient

-----------------------------------------------------------------------------
(* Client_UpdateInterval on a frame and on the pin set. *)

UpdatedFrame(frame, interval) ==
    [frame EXCEPT !.interval =
        IF mode = "bypass" THEN @ ELSE Interval_Intersect(@, interval, PIN_NEG_INF)]

UpdatedPinSet(ps, interval) ==
    IF mode = "normal" THEN PinSet_IntersectWith(ps, interval) ELSE ps

UpdateIntervalAssert(ps, interval) ==
    mode = "normal" => PinSet_IntersectWithAssert(ps, interval)

(* The stack after its bottom frame read item with this reply. *)
WithRead(frame, read, reply) ==
    [UpdatedFrame(frame, reply.interval) EXCEPT
        !.invalTags = @ \union reply.invalTags,
        !.reads = @ \union {read}]

SetBottom(frame) == [stack EXCEPT ![Len(stack)] = frame]

(* The true answers about item that promise pin or, for the cache, some    *)
(* pin of the bounds: tags come with an interval that still holds.         *)
Held(item, value, lower, upper) ==
    \A p \in lower..(upper - 1) : snap[p][item] = value

ReplyOf(item, lower, upper, stillValid) ==
    [interval |-> [lower |-> lower, upper |-> upper, stillValid |-> stillValid],
     invalTags |-> IF stillValid THEN TagsOf[item] ELSE {}]

(* The application gets the value that the reply vouches for. *)
Deliver(item, value, reply, ps) ==
    LET read == [item |-> item, value |-> value]
    IN  /\ UpdateIntervalAssert(ps, reply.interval)
        /\ stack' = SetBottom(WithRead(bottom, read, reply))
        /\ pinSet' = UpdatedPinSet(ps, reply.interval)
        /\ seen' = seen \union {read}
        /\ UNCHANGED panic

(* The assertion of PinSet_IntersectWith fails. *)
NoPinLeft(lower, upper, ps) ==
    /\ ~UpdateIntervalAssert(ps, [lower |-> lower, upper |-> upper,
                                  stillValid |-> FALSE])
    /\ Dies("no pin left")

-----------------------------------------------------------------------------
(* Client_Exec.  One query string carries COMMIT, BEGIN, PIN and the query *)
(* itself; the database stops at the first of them that fails.             *)

(* Mutant: the star always asks for a new transaction. *)
NeedBeginAtStar(pin) == pin # activePin \/ pin = PIN_INF

NeedBegin(pin) == pin # activePin
NeedNewPin(pin) == NeedBegin(pin) /\ pin = PIN_INF /\ mode # "bypass"

AfterOldCommit(pin) ==
    IF NeedBegin(pin) /\ activePin # PIN_INVALID THEN AfterCommit(session)
    ELSE session

(* BEGIN is refused in a failed transaction and for a lost snapshot. *)
BeginFails(s, pin) ==
    \/ s.txn = "failed"
    \/ pin # PIN_INF /\ pin \notin saved

(* What a policy makes of a pin set that holds nothing, or Client_Exec of  *)
(* a choice that the set does not hold.                                    *)
NothingToChoose == pinSet.pins = {} /\ ~pinSet.andStar
ChosenOutside(pin) == NeedBegin(pin) /\ ~PinSet_Contains(pinSet, pin)

Choosable == IF running /\ ~NothingToChoose THEN ChoosePin(pinSet) ELSE {}

ExecPanics ==
    /\ Alive /\ running
    /\ NothingToChoose \/ \E pin \in Choosable : ChosenOutside(pin)
    /\ Dies(IF NothingToChoose THEN "no pin to choose" ELSE "pin not in set")

(* PQsendQuery refuses a session that is gone or busy: then Client_Exec    *)
(* returns an error and nothing changes.                                   *)
MayExec(pin) ==
    Alive /\ ~ChosenOutside(pin) /\ session # Gone /\ ~session.busy

(* Mutant: the results that are left are read, as PQexec would. *)
AbandonedDrained(s) == s

(* Client_Exec returns at the first error without reading the rest.        *)
Abandoned(s) == [s EXCEPT !.busy = TRUE]

(* BEGIN fails after the COMMIT: the client keeps activePin, although the  *)
(* session has left that snapshot.                                         *)
ExecBeginFails(pin) ==
    LET s == AfterOldCommit(pin)
    IN  /\ MayExec(pin)
        /\ NeedBegin(pin) /\ BeginFails(s, pin)
        /\ session' = Abandoned(s)
        /\ UNCHANGED <<dbVars, lease, mode, pinSet, activePin, stack, seen, panic>>

(* PIN fails after BEGIN: the session is left in a failed transaction that *)
(* the client does not know of.                                            *)
ExecPinFails(pin) ==
    /\ MayExec(pin) /\ NeedNewPin(pin)
    /\ ~BeginFails(AfterOldCommit(pin), pin)
    /\ session' = Abandoned(FailedTxn)
    /\ UNCHANGED <<dbVars, lease, mode, pinSet, activePin, stack, seen, panic>>

(* The query is reached, in the transaction begun before or just now. *)
Reached(pin) ==
    /\ MayExec(pin)
    /\ NeedBegin(pin) => ~BeginFails(AfterOldCommit(pin), pin)

BegunAt(pin) == IF pin = PIN_INF THEN latest ELSE pin
SessionAt(pin) == IF NeedBegin(pin) THEN OpenAt(BegunAt(pin)) ELSE session

PinSetAt(pin) == IF NeedNewPin(pin) THEN PinSet_ReifyStar(latest) ELSE pinSet

(* Mutant: the id of the saved snapshot is not turned into the pin. *)
RegisterPinOffByOne(pin) ==
    IF NeedNewPin(pin)
    THEN /\ saved' = saved \union {latest + 1}
         /\ lease' \in {lease \union {latest + 1}, {}}
    ELSE UNCHANGED <<saved, lease>>

(* A new pin is registered with the pincushion, over a new connection if   *)
(* the old one is known to be broken; if that fails the lease is gone too. *)
RegisterPin(pin) ==
    IF NeedNewPin(pin)
    THEN /\ saved' = saved \union {latest}
         /\ lease' \in {lease \union {latest}, {}}
    ELSE UNCHANGED <<saved, lease>>

(* Mutant: activePin stays the star after it was pinned. *)
ActivePinAtStar(pin) == IF NeedBegin(pin) THEN pin ELSE activePin

ActivePinAt(pin) ==
    IF NeedNewPin(pin) THEN latest ELSE IF NeedBegin(pin) THEN pin ELSE activePin

(* The query itself fails, and the transaction with it. *)
ExecQueryFails(pin) ==
    /\ Reached(pin)
    /\ RegisterPin(pin)
    /\ session' = FailedTxn
    /\ pinSet' = PinSetAt(pin)
    /\ activePin' = ActivePinAt(pin)
    /\ UNCHANGED <<snap, mode, stack, seen, panic>>

(* The query succeeds, with an interval around the snapshot it ran at. *)
Exec(pin, item, lower, upper, stillValid) ==
    LET at == SessionAt(pin).pin
        value == snap[at][item]
    IN  /\ Reached(pin) /\ SessionAt(pin).txn = "open"
        /\ lower <= at /\ at < upper
        /\ Held(item, value, lower, upper)
        /\ \/ /\ Deliver(item, value, ReplyOf(item, lower, upper, stillValid),
                         PinSetAt(pin))
              /\ RegisterPin(pin)
              /\ session' = SessionAt(pin)
              /\ activePin' = ActivePinAt(pin)
              /\ UNCHANGED <<snap, mode>>
           \/ NoPinLeft(lower, upper, PinSetAt(pin))

-----------------------------------------------------------------------------
(* Cacheable calls.                                                        *)

Overlapping(lower, upper, bounds) == lower < bounds.upper /\ bounds.lower < upper

(* A lookup that hits: it asks for the bounds of the pin set. *)
LookupHits(item, lower, upper, stillValid) ==
    LET value == snap[lower][item]
    IN  /\ Alive /\ running /\ mode # "bypass"
        /\ pinSet.pins # {}
        /\ Overlapping(lower, upper, PinSet_BoundsWithoutStar(pinSet))
        /\ Held(item, value, lower, upper)
        /\ \/ /\ Deliver(item, value, ReplyOf(item, lower, upper, stillValid),
                         pinSet)
              /\ UNCHANGED <<dbVars, session, lease, mode, activePin>>
           \/ NoPinLeft(lower, upper, pinSet)

(* The bounds of an empty set cannot be asked for. *)
LookupPanics ==
    /\ Alive /\ running /\ NothingToChoose
    /\ Dies("no bounds")

(* A miss, no pin to look up at, or no connection to the node. *)
EnterCacheable ==
    /\ Alive /\ running
    /\ Len(stack) <= MaxDepth
    /\ stack' = Append(stack, EmptyFrame)
    /\ UNCHANGED <<dbVars, session, lease, mode, pinSet, activePin, seen, panic>>

Client_AddExplicitInvalTag(tag) ==
    /\ Alive /\ running
    /\ stack' = SetBottom([bottom EXCEPT !.invalTags = @ \union {tag}])
    /\ UNCHANGED <<dbVars, session, lease, mode, pinSet, activePin, seen, panic>>

Parent == stack[Len(stack) - 1]
Popped(parent) == Append(SubSeq(stack, 1, Len(stack) - 2), parent)

(* The assertion of Client_ExitCacheable: what is put as still valid, which  *)
(* takes a willing caller, has tags.                                         *)
WillingWithoutTags(frame, willing) ==
    /\ willing /\ mode # "bypass"
    /\ frame.interval.stillValid /\ frame.invalTags = {}

(* Mutant: the parent's interval is not updated. *)
MergedIntoForgetful(frame, parent) ==
    [parent EXCEPT !.invalTags = @ \union frame.invalTags,
                   !.reads = @ \union frame.reads,
                   !.tainted = @ \/ frame.tainted]

MergedInto(frame, parent) ==
    [UpdatedFrame(parent, frame.interval) EXCEPT
        !.invalTags = @ \union frame.invalTags,
        !.reads = @ \union frame.reads,
        !.tainted = @ \/ frame.tainted]

(* The frame's result is put (see PutsTrue) and its interval and tags      *)
(* carry over to the caller.                                               *)
Client_ExitCacheable(willing) ==
    /\ Alive /\ Len(stack) > 1
    /\ \/ /\ UpdateIntervalAssert(pinSet, bottom.interval)
          /\ ~WillingWithoutTags(bottom, willing)
          /\ stack' = Popped(MergedInto(bottom, Parent))
          /\ pinSet' = UpdatedPinSet(pinSet, bottom.interval)
          /\ UNCHANGED <<dbVars, session, lease, mode, activePin, seen, panic>>
       \/ /\ ~UpdateIntervalAssert(pinSet, bottom.interval)
          /\ Dies("no pin left")
       \/ /\ UpdateIntervalAssert(pinSet, bottom.interval)
          /\ WillingWithoutTags(bottom, willing)
          /\ Dies("willing without tags")

(* The frame is dropped with its interval and tags.  The caller may go on  *)
(* with the result all the same, when it was only that it could not be     *)
(* marshalled or that the output nesting changed, and is taken to do so:   *)
(* from here on the caller's interval does not vouch for what it read.     *)
Client_ExitCacheableAbort ==
    /\ Alive /\ Len(stack) > 1
    /\ stack' = Popped([Parent EXCEPT !.tainted = TRUE])
    /\ UNCHANGED <<dbVars, session, lease, mode, pinSet, activePin, seen, panic>>

-----------------------------------------------------------------------------
Killed == Alive /\ Dies("killed")

(* Another process takes the place of one that died. *)
Restart ==
    /\ ~Alive
    /\ panic' = "none"
    /\ UNCHANGED <<dbVars, session, lease, mode, pinSet, activePin, stack, seen>>

Next ==
    \/ \E new \in [Items -> Values] : Commit(new)
    \/ \E p \in saved : Unpin(p)
    \/ LosePincushion
    \/ LoseSession
    \/ \E granted \in SUBSET Snapshots : Client_BeginRO(granted)
    \/ Client_Commit
    \/ Client_ReleasePG
    \/ ExecRW
    \/ ExecPanics
    \/ \E pin \in Choosable :
        \/ ExecBeginFails(pin)
        \/ ExecPinFails(pin)
        \/ ExecQueryFails(pin)
        \/ \E item \in Items, lower \in Snapshots, stillValid \in BOOLEAN :
            \E upper \in (lower + 1)..(latest + 1) :
                Exec(pin, item, lower, upper, stillValid)
    \/ \E item \in Items, lower \in Snapshots, stillValid \in BOOLEAN :
        \E upper \in (lower + 1)..(latest + 1) :
            LookupHits(item, lower, upper, stillValid)
    \/ LookupPanics
    \/ EnterCacheable
    \/ \E tag \in Tags : Client_AddExplicitInvalTag(tag)
    \/ \E willing \in BOOLEAN : Client_ExitCacheable(willing)
    \/ Client_ExitCacheableAbort
    \/ Killed
    \/ Restart

Spec == Init /\ [][Next]_vars

-----------------------------------------------------------------------------
(* Properties. *)

TypeOK ==
    /\ snap \in Seq([Items -> Values]) /\ latest \in PIN_MIN..MaxPin
    /\ saved \subseteq Snapshots
    /\ session \in Sessions
    /\ lease \subseteq Snapshots
    /\ mode \in Modes
    /\ pinSet \in PinSets
    /\ activePin \in {PIN_INVALID, PIN_INF} \union Snapshots
    /\ stack \in Seq(Frames)
    /\ seen \subseteq Reads
    /\ panic \in {"none", "killed", "no pin left", "no pin to choose", "no bounds",
                  "pin not in set", "willing without tags"}

ReadsHoldAt(reads, p) == \A r \in reads : snap[p][r.item] = r.value

(* Whatever a transaction has read from the database, at one snapshot or   *)
(* another, and from the cache is what the database held at each snapshot  *)
(* left in its pin set.                                                    *)
PinsExplainReads ==
    mode = "normal" => \A p \in pinSet.pins : ReadsHoldAt(seen, p)

(* policy.c:45 "* can only be in the pin set if this transaction hasn't    *)
(* done anything yet": a new snapshot can contradict nothing that was read.*)
StarMeansNothingRead ==
    mode = "normal" /\ running /\ pinSet.andStar => seen = {}

(* What Client_ExitCacheable puts for a frame is a true fact: all that was *)
(* read in it, by nested calls included, holds at every snapshot of its    *)
(* interval, none of them in the future, and an interval that still holds  *)
(* has the tags of all that was read.  This is what CacheServer assumes of *)
(* a put.                                                                  *)
PutsTrue ==
    mode = "normal" =>
    \A i \in 2..Len(stack) :
        LET frame == stack[i]
        IN  ~frame.tainted =>
            /\ \A p \in Snapshots :
                p \in PinsOf(frame.interval, PIN_NEG_INF)
                    => ReadsHoldAt(frame.reads, p)
            /\ frame.reads # {} => frame.interval.upper <= latest + 1
            /\ frame.interval.stillValid =>
                \A r \in frame.reads : TagsOf[r.item] \subseteq frame.invalTags

(* A query never runs at another snapshot than the client believes, nor    *)
(* outside a transaction, where its result would come without an interval: *)
(* the COMMIT and BEGIN of a query string that fails leave activePin wrong *)
(* (client.c:649), but also the session unusable until Client_Commit.  And *)
(* no transaction stays open behind the client's back.                     *)
SessionAgrees ==
    /\ session.txn = "open" =>
        /\ running
        /\ session.pin = activePin \/ (mode = "bypass" /\ activePin = PIN_INF)
    /\ running /\ activePin # PIN_INVALID =>
        session = Gone \/ session.busy \/ session.txn \in {"open", "failed"}

(* As long as the pincushion remembers the client, the database still has  *)
(* every snapshot of the pin set, so that a BEGIN on one succeeds; and the *)
(* pincushion keeps nothing for a client that runs no transaction.         *)
PinsKept ==
    /\ running /\ lease # {} => pinSet.pins \subseteq (lease \intersect saved)
    /\ ~running => lease = {}

(* The chosen pin is always one of the set: the panic of Client_Exec is    *)
(* for no policy.                                                          *)
ChoiceInSet == panic # "pin not in set"

-----------------------------------------------------------------------------
(* The promise to the application. *)
ReadOnly == INSTANCE ReadOnlyTxn

(* Every transaction reads one snapshot of the database. *)
OneSnapshot == ReadOnly!Spec
=============================================================================
