------------------------------- MODULE Replay -------------------------------
(***************************************************************************)
(* exg-matching-engine/src/replay.rs: the engine a reboot would rebuild.   *)
(* The replica applies every event the live engine has emitted, in order,  *)
(* so at any moment it is what replaying the log so far gives.  It never   *)
(* matches and never triggers.  Or it starts from a snapshot of the live   *)
(* engine and applies the events that follow.                              *)
(***************************************************************************)
EXTENDS MatchingEngine

CONSTANT MaxSnapshots   \* bound: snapshots taken

VARIABLES
    replica,    \* the engine under replay, the ids it has seen, its error
    inPlace,    \* history: orders amended in their place since the snapshot
    shuffled,   \* history: orders the snapshot held
    snapshots   \* snapshots taken

replayVars == <<vars, replica, inPlace, shuffled, snapshots>>

NewReplica == [e |-> NewEngine, seen |-> {}, error |-> None]

\* Booting aborts on the first error; the replica stays as it was.
Failed(r, error) == [r EXCEPT !.error = error]

Resting(e, o) == [e EXCEPT !.book = InsertOrder(@, o)]

\* Mutant: replay does not put the order into the expiry heap.
UntrackedMutant(expiry, o) == expiry
\* Conditional orders too, which the live engine does not track.
ReplayedExpiry(expiry, o) ==
    IF o.expire = None THEN expiry ELSE expiry \cup {<<o.expire, o.id>>}

\* The order is rebuilt whole: the fills that follow reduce it.
ApplyAccepted(r, event) ==
    LET terms == event.terms
        o == terms @@ [orig   |-> event.qty,
                       rem    |-> OrElse(terms.vis, event.qty),
                       hidden |-> IF terms.vis = None THEN 0 ELSE event.qty - terms.vis,
                       expire |-> IF terms.tif = "GTD" THEN event.ts + GtdLife ELSE None]
        placed == IF Conditional(o.type) THEN [r.e EXCEPT !.stops = Append(@, o)]
                  ELSE Resting(r.e, o)
    IN  IF OnBook(r.e.book, o.id) THEN Failed(r, "DuplicateOrder")
        ELSE [r EXCEPT !.seen = @ \cup {o.id},
                       !.e = [placed EXCEPT !.expiry = ReplayedExpiry(@, o)]]

ApplyCanceled(r, event) ==
    LET i == StopPosition(r.e, event.id)
    IN  IF OnBook(r.e.book, event.id)
        THEN [r EXCEPT !.e.book = RemoveOrder(@, event.id)]
        ELSE IF i # 0 THEN [r EXCEPT !.e.stops = RemoveAt(@, i)]
        ELSE Failed(r, "UnknownOrder")

\* Mutant: a partial fill takes the order out and puts it back.
RequeueFillMutant(r, event) ==
    LET o == r.e.book.orders[event.id]
    IN  IF event.qty > o.rem THEN Failed(r, "OverFill")
        ELSE [r EXCEPT !.e.book =
                IF event.rem = 0 THEN RemoveOrder(@, event.id)
                ELSE InsertOrder(RemoveOrder(@, event.id), [o EXCEPT !.rem = event.rem])]
\* The order rests on the book.
FillResting(r, event) ==
    IF event.qty > r.e.book.orders[event.id].rem THEN Failed(r, "OverFill")
    ELSE [r EXCEPT !.e.book = IF event.rem = 0 THEN RemoveOrder(@, event.id)
                              ELSE UpdateQty(@, event.id, event.rem)]

\* Mutant: a promoted limit order's leftover is not put on the book.
DropPromotedMutant(r, event) ==
    [r EXCEPT !.e.stops = SwapRemove(@, StopPosition(r.e, event.id))]
\* The order still waits for its trigger, which replay does not pull: its
\* first fill promotes it as the trigger did.
FillStop(r, event) ==
    LET i == StopPosition(r.e, event.id)
        o == Converted(r.e.stops[i])
        waiting == [r.e EXCEPT !.stops = SwapRemove(@, i)]
    IN  IF event.qty > o.rem THEN Failed(r, "OverFill")
        ELSE [r EXCEPT !.e = IF event.rem # 0 /\ IsLimit(o.type)
                             THEN Resting(waiting, [o EXCEPT !.rem = event.rem])
                             ELSE waiting]

\* A later leg of an order whose first leg was its last is a no-op.
ApplyFilled(r, event) ==
    IF OnBook(r.e.book, event.id) THEN FillResting(r, event)
    ELSE IF StopPosition(r.e, event.id) # 0 THEN FillStop(r, event)
    ELSE IF event.id \in r.seen THEN r
    ELSE Failed(r, "UnknownOrder")

\* Mutant: the mark price is stored but the trailing peaks are not followed.
PeaklessMutant(r, event) ==
    [r EXCEPT !.e.mark = event.mark, !.e.index = event.index]
ApplyMarkEvent(r, event) == [r EXCEPT !.e = ApplyMark(@, event.mark, event.index)]

ApplyEvent(r, event) ==
    IF r.error # None THEN r
    ELSE CASE event.kind = "Accepted" -> ApplyAccepted(r, event)
           [] event.kind = "Canceled" -> ApplyCanceled(r, event)
           [] event.kind = "Filled"   -> ApplyFilled(r, event)
           [] event.kind = "Mark"     -> ApplyMarkEvent(r, event)
           [] event.kind = "Funding"  -> [r EXCEPT !.e.premium = event.premium]
           [] event.kind \in {"Rejected", "Trade"} -> r

\* An amendment in place, or of nothing, is answered by a second OrderAccepted
\* with no OrderCanceled before it.
ReacceptedIds ==
    IF out' # << >> /\ out'[1].kind = "Accepted" /\ nextId' = nextId
    THEN {out'[1].terms.id} ELSE {}

-----------------------------------------------------------------------------
(* Snapshots.                                                              *)

\* take_snapshot: the orders as the hash map that holds them lists them, in
\* any order, and not level by level.
Snapshots(e) ==
    {[e EXCEPT !.book = [i \in DOMAIN ids |-> e.book.orders[ids[i]]]] :
        ids \in SetToSeqs(DOMAIN e.book.orders)}

\* Mutant: orders are restored without their expiry.
ForgetExpiryMutant(snapshot) ==
    [snapshot EXCEPT !.book = FoldLeft(InsertOrder, EmptyBook, snapshot.book), !.expiry = {}]
\* restore_from_snapshot.  The set of ids seen is not part of a snapshot.
Restored(snapshot) ==
    [snapshot EXCEPT !.book = FoldLeft(InsertOrder, EmptyBook, snapshot.book)]

\* A snapshot is taken, and is where the next reboot starts from.
TakeSnapshot ==
    /\ snapshots < MaxSnapshots
    /\ snapshots' = snapshots + 1
    /\ \E snapshot \in Snapshots(engine) :
          replica' = [e |-> Restored(snapshot), seen |-> {}, error |-> None]
    /\ inPlace' = {}
    /\ shuffled' = DOMAIN engine.book.orders
    /\ UNCHANGED vars

Replayed ==
    /\ Next
    /\ replica' = FoldLeft(ApplyEvent, replica, out')
    /\ inPlace' = inPlace \cup ReacceptedIds
    /\ UNCHANGED <<shuffled, snapshots>>

ReplayInit == Init /\ replica = NewReplica /\ inPlace = {} /\ shuffled = {} /\ snapshots = 0
ReplayNext == Replayed \/ TakeSnapshot
ReplaySpec == ReplayInit /\ [][ReplayNext]_replayVars

-----------------------------------------------------------------------------
Booted == replica.error = None
Same(o, r) == [o EXCEPT !.expire = None] = [r EXCEPT !.expire = None]

\* A reboot that succeeds has every resting order, with its price, quantities
\* and owner, either on the book or, if a trigger put it there and nothing has
\* filled it yet, still among the stops; it has no other resting order; and
\* its book has kept their time priority.  Orders amended in place are not
\* held to it; to priority neither those a trigger put on the book nor, against
\* each other, those that went through a snapshot.
RestingRebuilt ==
    LET book == replica.e.book
        placed == {id \in DOMAIN book.orders \ inPlace : book.orders[id].stop = None}
    IN  Booted =>
          /\ \A id \in DOMAIN book.orders \ inPlace :
                OnBook(engine.book, id) /\ Same(engine.book.orders[id], book.orders[id])
          /\ \A id \in DOMAIN engine.book.orders \ inPlace :
                OnBook(book, id) \/
                   \E s \in Range(replica.e.stops) : Same(engine.book.orders[id], Converted(s))
          /\ ConsistentBook(book)
          /\ \A a, b \in placed :
                Ahead(book, a, b) /\ ~({a, b} \subseteq shuffled) => Ahead(engine.book, a, b)

\* Every conditional order still waiting is rebuilt, its trailing peak
\* included, and so are the prices that decide its trigger; every order due to
\* expire is still due, at the same time.
WaitingRebuilt ==
    Booted =>
        /\ \A o \in Range(engine.stops) : \E s \in Range(replica.e.stops) : Same(o, s)
        /\ replica.e.mark = engine.mark /\ replica.e.index = engine.index
        /\ replica.e.premium = engine.premium
        /\ \A entry \in engine.expiry :
              OnBook(engine.book, entry[2]) => entry \in replica.e.expiry

\* Replaying the log of a live engine succeeds.
ReplaySucceeds == Booted
=============================================================================
