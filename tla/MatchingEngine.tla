--------------------------- MODULE MatchingEngine ---------------------------
(***************************************************************************)
(* exg-matching-engine/src/engine.rs: the matching engine of one symbol.   *)
(* process_command handles one command to its end on the matching thread,  *)
(* so a command is one step; a handler is an operator from the engine to   *)
(* the engine it leaves and the events it returns, in order.               *)
(*                                                                         *)
(* Order ids are drawn fresh, as the gateway's snowflake draws them, and   *)
(* commands are stamped with the engine's own command counter.             *)
(***************************************************************************)
EXTENDS Matcher

CONSTANTS
    Requests,       \* what NewOrder may ask for
    Amendments,     \* new price and quantity of AmendOrder, None if absent
    MarkPrices,     \* mark and index price of UpdateMarkPrice
    Users,          \* users of the commands
    OwnersOnly,     \* are cancel and amend sent by the order's owner only?
    MinVisible,     \* lot_size * 10, the smallest iceberg slice
    GtdLife,        \* 24 hours, in commands
    MaxOrders,      \* bound: orders ever sent
    MaxCommands     \* bound: commands ever processed

OrderTypes ==
    {"Limit", "Market", "StopMarket", "StopLimit", "TakeProfitMarket", "TakeProfitLimit",
     "TrailingStop", "Iceberg"}
TimesInForce == {"GTC", "GTD", "IOC", "FOK", "PostOnly"}
Optional(S) == S \cup {None}

\* A request may ask for any number, the engine checks it.
ASSUME EngineAssumption ==
    /\ Requests \subseteq [user : Users, side : Sides, type : OrderTypes, tif : TimesInForce,
                           price : Optional(Int), qty : Int, stop : Optional(Int),
                           delta : Optional(Int), vis : Optional(Int)]
    /\ Amendments \subseteq [price : Optional(Int), qty : Optional(Int)]
    /\ MarkPrices \subseteq [mark : Int, index : Int]
    /\ MinVisible \in Nat /\ GtdLife \in Nat
    /\ MaxOrders \in Nat /\ MaxCommands \in Nat

VARIABLES
    engine,     \* the MatchingEngine
    out,        \* the events of the last command
    nextId,     \* the next fresh order id
    owed        \* history: per order, quantity accepted and not yet executed

vars == <<engine, out, nextId, owed>>

OrderIds == 1 .. MaxOrders
Conditional(type) ==
    type \in {"StopMarket", "StopLimit", "TakeProfitMarket", "TakeProfitLimit", "TrailingStop"}

NewEngine ==
    [book |-> EmptyBook, stops |-> << >>, mark |-> 0, index |-> 0,
     premium |-> <<0, 1>>,      \* last_funding_rate before its clamp, a fraction
     expiry |-> {},             \* expiry_heap: <<expire_time, order_id>>
     seq |-> 0]

-----------------------------------------------------------------------------
(* Events.                                                                 *)

TermNames == {"id", "user", "side", "type", "tif", "price", "stop", "vis", "delta", "peak"}

Accepted(o, ts) ==
    [kind |-> "Accepted", terms |-> Restrict(o, TermNames), qty |-> o.orig, ts |-> ts]
Rejected(id) == [kind |-> "Rejected", id |-> id]
Canceled(o) == [kind |-> "Canceled", id |-> o.id, rem |-> o.rem]
Filled(id, maker, qty, rem) ==
    [kind |-> "Filled", id |-> id, maker |-> maker, qty |-> qty, rem |-> rem]
Trade(fill, taker) ==
    [kind |-> "Trade", price |-> fill.price, qty |-> fill.qty,
     buyer  |-> IF taker.side = "buy" THEN taker.user ELSE fill.makerUser,
     seller |-> IF taker.side = "buy" THEN fill.makerUser ELSE taker.user]

\* Maker leg, taker leg and trade of every fill.  The remaining quantities
\* are read after the whole match, not after the fill.
FillEvents(m) ==
    FlattenSeq([i \in DOMAIN m.fills |->
        LET f == m.fills[i]
        IN  <<Filled(f.maker, TRUE, f.qty,
                     IF OnBook(m.book, f.maker) THEN m.book.orders[f.maker].rem ELSE 0),
              Filled(m.taker.id, FALSE, f.qty, m.taker.rem),
              Trade(f, m.taker)>>])

Reply(e, events) == [engine |-> e, events |-> events]

-----------------------------------------------------------------------------
(* NewOrder.                                                               *)

SentinelPrice(side) == IF side = "buy" THEN MaxPrice ELSE 0

InvalidRequest(r) ==
    \/ r.qty <= 0
    \/ IsLimit(r.type) /\ (r.price = None \/ r.price <= 0)
    \/ r.type = "Iceberg" /\ (r.vis = None \/ r.vis < MinVisible)

BookOrder(e, id, r) ==
    LET visible == IF r.type = "Iceberg" THEN Min({r.vis, r.qty}) ELSE r.qty
    IN  [id |-> id, user |-> r.user, side |-> r.side, type |-> r.type, tif |-> r.tif,
         price |-> IF IsLimit(r.type) THEN r.price ELSE SentinelPrice(r.side),
         stop |-> r.stop, vis |-> r.vis, delta |-> r.delta,
         peak |-> IF r.delta # None THEN e.mark ELSE None,
         orig |-> r.qty, rem |-> visible, hidden |-> r.qty - visible,
         expire |-> IF r.tif = "GTD" THEN e.seq + GtdLife ELSE None]

\* Mutant: the slice shown next stays in the hidden quantity too.
RefillTwiceMutant(o) ==
    IF o.type = "Iceberg" /\ o.rem = 0 /\ o.hidden # 0
    THEN [o EXCEPT !.rem = Min({IF o.vis = None THEN o.orig ELSE o.vis, o.hidden})]
    ELSE o
\* An iceberg whose visible slice was taken shows its next slice; it is not
\* matched again.
Refilled(o) ==
    IF o.type = "Iceberg" /\ o.rem = 0 /\ o.hidden # 0
    THEN LET slice == Min({IF o.vis = None THEN o.orig ELSE o.vis, o.hidden})
         IN  [o EXCEPT !.rem = slice, !.hidden = @ - slice]
    ELSE o

Rested(e, book, o) ==
    [e EXCEPT !.book = InsertOrder(book, o),
              !.expiry = IF o.expire = None THEN @ ELSE @ \cup {<<o.expire, o.id>>}]

NeverRests(o) == o.tif \in {"IOC", "FOK"} \/ ~IsLimit(o.type)

HandleNewOrder(e, id, r) ==
    LET o == BookOrder(e, id, r)
        m == MatchOrder(e.book, o)
        left == Refilled(m.taker)
        events == <<Accepted(o, e.seq)>> \o FillEvents(m)
    IN  IF InvalidRequest(r) \/ OnBook(e.book, id) THEN Reply(e, <<Rejected(id)>>)
        ELSE IF Conditional(r.type)
        THEN Reply([e EXCEPT !.stops = Append(@, o)], <<Accepted(o, e.seq)>>)
        ELSE IF m.rejected THEN Reply(e, <<Rejected(id)>>)
        ELSE IF left.rem = 0 THEN Reply([e EXCEPT !.book = m.book], events)
        ELSE IF NeverRests(o)
        THEN Reply([e EXCEPT !.book = m.book], Append(events, Canceled(left)))
        ELSE Reply(Rested(e, m.book, left), events)

-----------------------------------------------------------------------------
(* CancelOrder, AmendOrder, CancelAllOrders.                               *)

StopPosition(e, id) == SelectInSeq(e.stops, LAMBDA o : o.id = id)

\* Somebody else's order is taken out and put back, behind all others.
HandleCancelOrder(e, id, user) ==
    LET o == e.book.orders[id]
        i == StopPosition(e, id)
    IN  IF OnBook(e.book, id)
        THEN IF o.user = user
             THEN Reply([e EXCEPT !.book = RemoveOrder(@, id)], <<Canceled(o)>>)
             ELSE Reply([e EXCEPT !.book = InsertOrder(RemoveOrder(@, id), o)], <<Rejected(id)>>)
        ELSE IF i = 0 THEN Reply(e, <<Rejected(id)>>)
        ELSE IF e.stops[i].user = user
        THEN Reply([e EXCEPT !.stops = RemoveAt(@, i)], <<Canceled(e.stops[i])>>)
        ELSE Reply([e EXCEPT !.stops = Append(RemoveAt(@, i), e.stops[i])], <<Rejected(id)>>)

OrElse(option, default) == IF option = None THEN default ELSE option

\* A better price or more quantity: out of the book, matched, back in.
AmendByReplacement(e, old, a) ==
    LET book == RemoveOrder(e.book, old.id)
        p == OrElse(a.price, old.price)
        q == OrElse(a.qty, old.rem)
        amended == [old EXCEPT !.price = p, !.rem = q, !.orig = q]
        m == MatchOrder(book, amended)
        canceled == [e EXCEPT !.book = book]
    IN  IF q <= 0 \/ p <= 0 \/ m.rejected
        THEN Reply(canceled, <<Canceled(old), Rejected(old.id)>>)
        ELSE Reply([e EXCEPT !.book = IF m.taker.rem # 0 /\ IsLimit(amended.type)
                                      THEN InsertOrder(m.book, m.taker) ELSE m.book],
                   <<Canceled(old), Accepted(amended, e.seq)>> \o FillEvents(m))

\* Does the amendment keep the order's place, reducing it at most?
PriceChanged(o, a) == a.price # None /\ a.price # o.price
QtyUp(o, a) == a.qty # None /\ a.qty > o.rem
QtyDown(o, a) == a.qty # None /\ a.qty < o.rem

HandleAmendOrder(e, id, user, a) ==
    LET o == e.book.orders[id]
    IN  IF ~OnBook(e.book, id) THEN Reply(e, <<Rejected(id)>>)
        ELSE IF o.user # user THEN Reply(e, <<Rejected(id)>>)
        ELSE IF PriceChanged(o, a) \/ QtyUp(o, a) THEN AmendByReplacement(e, o, a)
        ELSE IF ~QtyDown(o, a) THEN Reply(e, <<Accepted(o, e.seq)>>)
        ELSE IF a.qty <= 0 THEN Reply(e, <<Rejected(id)>>)
        ELSE Reply([e EXCEPT !.book = UpdateQty(@, id, a.qty)], <<Accepted(o, e.seq)>>)

\* The index loop over a Vec that takes elements out by swap_remove: the last
\* element moves into the gap and is looked at next.  chosen holds order ids.
SwapRemove(s, i) ==
    IF i = Len(s) THEN Front(s) ELSE Front([s EXCEPT ![i] = Last(s)])
\* Mutant: the index advances past the element swapped into the gap.
SkippingScanMutant(scan, turn) ==
    IF scan.i > Len(scan.kept) THEN scan
    ELSE IF scan.kept[scan.i].id \in scan.chosen
    THEN [scan EXCEPT !.i = @ + 1, !.kept = SwapRemove(@, scan.i),
                      !.taken = Append(@, scan.kept[scan.i])]
    ELSE [scan EXCEPT !.i = @ + 1]
\* One turn of the loop; every turn passes one element or takes one out.
ScanOne(scan, turn) ==
    IF scan.kept[scan.i].id \in scan.chosen
    THEN [scan EXCEPT !.kept = SwapRemove(@, scan.i), !.taken = Append(@, scan.kept[scan.i])]
    ELSE [scan EXCEPT !.i = @ + 1]
Scan(s, chosen) ==
    FoldLeft(ScanOne, [i |-> 1, kept |-> s, taken |-> << >>, chosen |-> chosen], s)

HandleCancelAll(e, user) ==
    LET ids == UserOrders(e.book, user)
        scan == Scan(e.stops, {o.id : o \in {p \in Range(e.stops) : p.user = user}})
        resting == [i \in DOMAIN ids |-> e.book.orders[ids[i]]]
    IN  Reply([e EXCEPT !.book = CancelAllUserOrders(@, user), !.stops = scan.kept],
              LET gone == resting \o scan.taken
              IN  [i \in DOMAIN gone |-> Canceled(gone[i])])

-----------------------------------------------------------------------------
(* UpdateMarkPrice, ComputeFunding and the expiry of GTD orders.           *)

Peaked(o, mark) ==
    IF o.type # "TrailingStop" \/ o.peak = None THEN o
    ELSE [o EXCEPT !.peak = IF o.side = "sell" THEN Max({@, mark}) ELSE Min({@, mark})]

\* apply_mark_index_passive, the half that replay shares.
ApplyMark(e, mark, index) ==
    [e EXCEPT !.mark = mark, !.index = index,
              !.stops = [i \in DOMAIN @ |-> Peaked(@[i], mark)]]

Reached(side, mark, level) == IF side = "buy" THEN mark >= level ELSE mark <= level

ShouldTrigger(o, mark) ==
    CASE o.type \in {"StopMarket", "StopLimit"} ->
            Reached(o.side, mark, OrElse(o.stop, 0))
      [] o.type \in {"TakeProfitMarket", "TakeProfitLimit"} ->
            Reached(Opposite(o.side), mark, OrElse(o.stop, 0))
      [] o.type = "TrailingStop" ->
            /\ o.delta # None /\ o.peak # None
            /\ Reached(o.side, mark, IF o.side = "sell" THEN o.peak - o.delta
                                     ELSE o.peak + o.delta)
      [] OTHER -> FALSE

\* The order a triggered conditional turns into.
Converted(o) ==
    IF IsLimit(o.type) THEN [o EXCEPT !.type = "Limit"]
    ELSE [o EXCEPT !.type = "Market", !.price = SentinelPrice(o.side)]

\* Mutant: a triggered limit order is placed without being matched.
UnmatchedTriggerMutant(run, conditional) ==
    IF IsLimit(conditional.type)
    THEN [run EXCEPT !.book = InsertOrder(@, Converted(conditional))]
    ELSE run
\* What is left of a limit order rests, whatever its time in force; a
\* rejected order, and what is left of a market order, is gone.
RunTriggered(run, conditional) ==
    LET m == MatchOrder(run.book, Converted(conditional))
    IN  IF m.rejected THEN run
        ELSE [book |-> IF m.taker.rem # 0 /\ IsLimit(m.taker.type)
                       THEN InsertOrder(m.book, m.taker) ELSE m.book,
              events |-> run.events \o FillEvents(m)]

HandleUpdateMark(e, mark, index) ==
    LET marked == ApplyMark(e, mark, index)
        due == {o \in Range(marked.stops) : ShouldTrigger(o, mark)}
        scan == Scan(marked.stops, {o.id : o \in due})
        run == FoldLeft(RunTriggered, [book |-> e.book, events |-> << >>], scan.taken)
    IN  Reply([marked EXCEPT !.stops = scan.kept, !.book = run.book],
              <<[kind |-> "Mark", mark |-> mark, index |-> index]>> \o run.events)

\* The clamp of calc_funding_rate is a function of the premium alone.
HandleComputeFunding(e) ==
    LET premium == IF e.index = 0 THEN <<0, 1>> ELSE <<e.mark - e.index, e.index>>
    IN  Reply([e EXCEPT !.premium = premium], <<[kind |-> "Funding", premium |-> premium]>>)

\* Entries of orders that have left the book meanwhile are popped for nothing.
PopExpired(run, entry) ==
    IF ~OnBook(run.book, entry[2]) THEN run
    ELSE [book |-> RemoveOrder(run.book, entry[2]),
          events |-> Append(run.events, Canceled(run.book.orders[entry[2]]))]

\* The heap gives up what is due in order.
Due(e, now) == {entry \in e.expiry : entry[1] <= now}
HeapOrders(entries) ==
    {order \in SetToSeqs(entries) :
        \A i, j \in DOMAIN order :
            i < j => \/ order[i][1] < order[j][1]
                     \/ order[i][1] = order[j][1] /\ order[i][2] < order[j][2]}
CheckExpirations(e, order) ==
    LET run == FoldLeft(PopExpired, [book |-> e.book, events |-> << >>], order)
    IN  Reply([e EXCEPT !.expiry = @ \ Range(order), !.book = run.book], run.events)

-----------------------------------------------------------------------------
(* The history of what each order may still execute.                       *)

Tally(quantities, event) ==
    CASE event.kind = "Accepted" /\ quantities[event.terms.id] = 0 ->
            [quantities EXCEPT ![event.terms.id] = event.qty]
      [] event.kind = "Canceled" -> [quantities EXCEPT ![event.id] = 0]
      [] event.kind = "Filled" -> [quantities EXCEPT ![event.id] = @ - event.qty]
      [] OTHER -> quantities

Init ==
    /\ engine = NewEngine
    /\ out = << >>
    /\ nextId = 1
    /\ owed = [id \in OrderIds |-> 0]

\* process_command counts the command, then runs its handler.
Counted == [engine EXCEPT !.seq = @ + 1]
Process(reply) ==
    /\ engine.seq < MaxCommands
    /\ engine' = reply.engine
    /\ out' = reply.events

Untallied == UNCHANGED <<nextId, owed>>
Tallied == owed' = FoldLeft(Tally, owed, out')

\* The orders waiting, on the book and among the stops.
Live(e) == Range(e.book.orders) \cup Range(e.stops)

MayAsk(user, id) ==
    OwnersOnly => (\A o \in Live(engine) : o.id = id => o.user = user)

NewOrder(r) ==
    /\ nextId <= MaxOrders
    /\ Process(HandleNewOrder(Counted, nextId, r))
    /\ nextId' = nextId + 1
    /\ Tallied

CancelOrder(id, user) ==
    /\ MayAsk(user, id)
    /\ Process(HandleCancelOrder(Counted, id, user))
    /\ Tallied /\ UNCHANGED nextId

\* What an amended order owes: an amendment is about the quantity that shows,
\* and leaves what an iceberg hides.  No event tells of a reduction in place.
TalliedAmendment(id, user, a) ==
    LET o == engine.book.orders[id]
        owns == OnBook(engine.book, id) /\ o.user = user
        tallied == FoldLeft(Tally, owed, out')
    IN  IF ~owns THEN owed' = tallied
        ELSE IF PriceChanged(o, a) \/ QtyUp(o, a)
        THEN owed' = [tallied EXCEPT ![id] = @ + o.hidden]
        ELSE IF QtyDown(o, a) /\ a.qty > 0 THEN owed' = [owed EXCEPT ![id] = a.qty + o.hidden]
        ELSE owed' = tallied

AmendOrder(id, user, a) ==
    /\ MayAsk(user, id)
    /\ Process(HandleAmendOrder(Counted, id, user, a))
    /\ TalliedAmendment(id, user, a)
    /\ UNCHANGED nextId

CancelAllOrders(user) ==
    /\ Process(HandleCancelAll(Counted, user))
    /\ Tallied /\ UNCHANGED nextId

UpdateMarkPrice(mark, index) ==
    /\ Process(HandleUpdateMark(Counted, mark, index))
    /\ Tallied /\ UNCHANGED nextId

ComputeFunding == Process(HandleComputeFunding(Counted)) /\ Untallied

\* Not a command: a sweeper's call with its own clock.
ExpireOrders ==
    /\ Due(engine, engine.seq) # {}
    /\ \E order \in HeapOrders(Due(engine, engine.seq)) : Process(CheckExpirations(engine, order))
    /\ Tallied /\ UNCHANGED nextId

Next ==
    \/ \E r \in Requests : NewOrder(r)
    \/ \E id \in OrderIds, user \in Users :
          id < nextId /\ (CancelOrder(id, user) \/ \E a \in Amendments : AmendOrder(id, user, a))
    \/ \E user \in Users : CancelAllOrders(user)
    \/ \E m \in MarkPrices : UpdateMarkPrice(m.mark, m.index)
    \/ ComputeFunding
    \/ ExpireOrders

Spec == Init /\ [][Next]_vars

-----------------------------------------------------------------------------
\* The book's three copies of each fact agree after every command, so the
\* totals fill-or-kill trusts are the quantities really there.
BookConsistent == ConsistentBook(engine.book)

\* No buy order rests at or above a sell order: whatever could have traded has.
\* An iceberg may, because the slice it shows next is not matched.
BookUncrossed ==
    \A b, s \in Range(engine.book.orders) :
        b.side = "buy" /\ s.side = "sell" /\ "Iceberg" \notin {b.type, s.type}
            => b.price < s.price

\* An order is executed for what was accepted, neither more nor less: what it
\* shows and hides is what it still owes, through fills, amendments, refills
\* and triggers.
QuantityConserved == \A o \in Live(engine) : o.rem + o.hidden = owed[o.id]

\* A maker is filled only when every order with priority over it has gone.
PriceTimePriority ==
    [][\A i \in DOMAIN out' :
          out'[i].kind = "Filled" /\ out'[i].maker
            => \A a \in DOMAIN engine.book.orders :
                  HasPriority(engine.book, a, out'[i].id) => ~OnBook(engine'.book, a)]_vars

\* Two orders queued in one level stay in that order while both stay in the
\* level, unless a command named the one that was ahead.
PlaceKept ==
    [][\A a, b \in OrderIds :
          Ahead(engine.book, a, b) /\ Ahead(engine'.book, b, a)
            => \E i \in DOMAIN out' : out'[i].kind \in {"Canceled", "Rejected"} /\ out'[i].id = a]_vars

TakerFills(events, id) ==
    SumFunction([i \in {j \in DOMAIN events : /\ events[j].kind = "Filled" /\ ~events[j].maker
                                             /\ events[j].id = id}
                    |-> events[i].qty])

\* The new order a command placed at once, if it did.
PlacedAtOnce(event) ==
    nextId' # nextId /\ event.kind = "Accepted" /\ ~Conditional(event.terms.type)

\* A new fill-or-kill order that is accepted is executed completely at once, a
\* post-only order takes nothing and an immediate-or-cancel order never waits.
\* A fill-or-kill iceberg is one of the last kind only: the check before the
\* match looks at the slice it shows, so it may be executed in part.
TimeInForceHonoured ==
    [][\A i \in DOMAIN out' :
          PlacedAtOnce(out'[i])
            => LET o == out'[i].terms
                   taken == TakerFills(out', o.id)
               IN  /\ o.tif = "FOK" /\ o.type # "Iceberg" => taken = out'[i].qty
                   /\ o.tif = "PostOnly" => taken = 0
                   /\ o.tif \in {"IOC", "FOK"} => ~OnBook(engine'.book, o.id)]_vars

\* A mark price leaves no conditional order behind whose condition it meets.
AllTriggered ==
    [][out' # << >> /\ out'[1].kind = "Mark"
          => \A o \in Range(engine'.stops) : ~ShouldTrigger(o, engine'.mark)]_vars
=============================================================================
