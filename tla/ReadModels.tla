----------------------------- MODULE ReadModels -----------------------------
(***************************************************************************)
(* The engine's events on their way to the two services that answer        *)
(* queries, exg-order-service and exg-market-data.                         *)
(*                                                                         *)
(* The engine is here what its handlers write to the log of one symbol and *)
(* what they leave open (MatchingEngine says which orders match; here any  *)
(* two of opposite sides may).  Order ids are distinct, and no order is an *)
(* iceberg: the gateway passes no visible quantity on. The order service   *)
(* reads the log at its own pace, may be handed an event again right after *)
(* it, and may be restarted from a snapshot: the events after it come      *)
(* again, the commands do not. The market data service reads only the      *)
(* trades, with levels and prices of other feeds; it shares nothing with   *)
(* the order service, and a run picks in Bounds how much it wants to see   *)
(* of either.                                                              *)
(***************************************************************************)
EXTENDS OrderService, MarketData

CONSTANTS
    Commands,       \* [id, user, symbol, cid, side, conditional, market, tif, qty, price]
    Batches,        \* sequences of commands that come together
    Amendments,     \* what a request may ask for: [price, qty]
    Moves,          \* from one trade to the next: the clock's tick and the price
    Updates,        \* of the depth feed: sequences of [side, price, qty]
    IndexPrices,
    Bounds          \* bound: [batches, events, requests, restarts, feeds]; a run picks one

ASSUME ReadModelsAssumption ==
    /\ \A c, d \in Commands : (c.id = d.id \/ <<c.user, c.cid>> = <<d.user, d.cid>>) => c = d
    /\ \A c \in Commands : c.qty > 0 /\ c.cid # NoClientId
    /\ \A b \in Batches : ToSet(b) \subseteq Commands
    /\ \A a \in Amendments : a.price \in Nat /\ a.qty \in Nat
    /\ \A b \in Bounds : /\ b.batches \subseteq Batches
                         /\ {b.events, b.requests, b.restarts, b.feeds} \subseteq Nat

VARIABLES
    log,        \* the engine's events
    resting,    \* the engine's open orders: command, remaining, filled, stop
    dropped,    \* history: orders the engine gave up without an event
    submitted,  \* commands handed to create_order and to the engine
    service,    \* OrderService
    position,   \* events the order service has applied
    snapshot,   \* its last snapshot and the position it was taken at
    astray,     \* history: orders about which the view was told otherwise
    clock,      \* the engine's, as its trades show it
    market,     \* MarketDataService with its MarkPriceCalculator
    traded,     \* history: the trades it was given
    baseline,   \* history: its depth when the last baseline was marked
    left        \* what is left of the bound

engineVars == <<log, resting, dropped, submitted>>
serviceVars == <<service, position, snapshot>>
marketVars == <<clock, market, traded, baseline>>
vars == <<engineVars, serviceVars, marketVars, astray, left>>

Depth == [bid |-> market.bid, ask |-> market.ask, id |-> market.updateId]

Init ==
    /\ log = << >> /\ resting = << >> /\ dropped = {} /\ clock = 2 * Window /\ submitted = {}
    /\ service = NewService /\ position = 0 /\ astray = {}
    /\ snapshot = [at |-> 0, of |-> TakeSnapshot(NewService)]
    /\ market = NewMarket /\ traded = << >> /\ left \in Bounds
    /\ baseline = [bid |-> << >>, ask |-> << >>, id |-> 0]

-----------------------------------------------------------------------------
(* The engine's handlers, as the events they write.                        *)

Undecided == {c \in submitted : \A i \in 1 .. Len(log) : log[i].id # c.id}

Accepted(c) == [type |-> "OrderAccepted", id |-> c.id, user |-> c.user,
                symbol |-> c.symbol, cid |-> c.cid]
Rejected(id, user) == [type |-> "OrderRejected", id |-> id, user |-> user]
Canceled(c) == [type |-> "OrderCanceled", id |-> c.id, user |-> c.user]

Opposite(c) == {id \in DOMAIN resting : resting[id].command.side # c.side /\ ~resting[id].stop}

\* Orders of the other side in turn, until the taker has no more to ask of them.
\* Which of them its limit reaches is left open; a market order reaches all.
Sweep(c, makers) ==
    FoldLeft(LAMBDA s, id :
                LET qty == Min({s.rest, resting[id].remaining})
                IN  [rest |-> s.rest - qty, fills |-> Append(s.fills, [maker |-> id, qty |-> qty])],
             [rest |-> c.qty, fills |-> << >>], makers)

Sweeps(c) ==
    {sweep \in {Sweep(c, makers) : makers \in
                    {m \in UNION {[1 .. n -> Opposite(c)] : n \in 0 .. c.qty} : IsInjective(m)}} :
        /\ \A i \in 1 .. Len(sweep.fills) : sweep.fills[i].qty > 0
        /\ c.market /\ sweep.rest > 0 => Len(sweep.fills) = Cardinality(Opposite(c))}

\* What match_order may do with a taker it does not reject, and when it may reject.
Matches(c) ==
    CASE c.tif = "PostOnly" -> {Sweep(c, << >>)}
      [] c.tif = "Fok"      -> {sweep \in Sweeps(c) : sweep.rest = 0}
      [] OTHER              -> Sweeps(c)

MatchRejects(c) ==
    \/ c.tif = "PostOnly" /\ Opposite(c) # {}
    \/ c.tif = "Fok" /\ (c.market => Matches(c) = {})

\* A trade is numbered by where the log was, and its place in the match.
Filled(c, trade, fill, remaining) ==
    [type |-> "OrderFilled", id |-> c.id, trade |-> trade, qty |-> fill.qty,
     price |-> resting[fill.maker].command.price, remaining |-> remaining]

\* emit_fill_events: every fill of the taker carries what the taker has left
\* when all of them are done.
FillEvents(c, sweep) ==
    FlattenSeq([i \in 1 .. Len(sweep.fills) |->
        LET fill == sweep.fills[i]
            maker == resting[fill.maker]
            trade == <<Len(log), i>>
        IN  <<Filled(maker.command, trade, fill, maker.remaining - fill.qty),
              Filled(c, trade, fill, sweep.rest)>>])

\* The makers after it; those with nothing left are off the book.
MakersAfter(sweep) ==
    LET qty(id) == FoldLeft(LAMBDA n, fill : IF fill.maker = id THEN n + fill.qty ELSE n, 0, sweep.fills)
        reduced == [id \in DOMAIN resting |->
                        [resting[id] EXCEPT !.remaining = @ - qty(id), !.filled = @ + qty(id)]]
    IN  Without(reduced, {id \in DOMAIN resting : reduced[id].remaining = 0})

\* The open orders after it: a taker with a rest is among them if it may rest.
OpenAfter(c, sweep, mayRest) ==
    IF sweep.rest > 0 /\ mayRest
    THEN (c.id :> [command |-> c, remaining |-> sweep.rest, filled |-> c.qty - sweep.rest,
                   stop |-> FALSE]) @@ MakersAfter(sweep)
    ELSE Without(MakersAfter(sweep), {c.id})

Answered(events, requests) ==
    /\ Len(events) <= left.events /\ requests <= left.requests
    /\ left' = [left EXCEPT !.events = @ - Len(events), !.requests = @ - requests]
    /\ log' = log \o events

Logged(events) == Answered(events, 0)

\* The commands go to create_order before they go to the engine.
Submit(commands) ==
    /\ ToSet(commands) \subseteq Commands \ submitted
    /\ submitted' = submitted \cup ToSet(commands)
    /\ service' = BatchCreateOrders(service, commands)
    /\ UNCHANGED <<log, resting, dropped, position, snapshot, astray, marketVars, left>>

\* A stop order is accepted and waits.
Await(c) ==
    /\ c \in Undecided /\ c.conditional
    /\ Logged(<<Accepted(c)>>)
    /\ resting' = (c.id :> [command |-> c, remaining |-> c.qty, filled |-> 0, stop |-> TRUE]) @@ resting
    /\ UNCHANGED <<dropped, submitted, serviceVars, astray, marketVars>>

\* Any other matches at once, and a rest that may not stay is canceled.
Accept(c, sweep) ==
    LET mayRest == ~c.market /\ c.tif \notin {"Ioc", "Fok"}
        closing == IF sweep.rest > 0 /\ ~mayRest THEN <<Canceled(c)>> ELSE << >> IN
    /\ c \in Undecided /\ ~c.conditional
    /\ Logged(<<Accepted(c)>> \o FillEvents(c, sweep) \o closing)
    /\ resting' = OpenAfter(c, sweep, mayRest)
    /\ UNCHANGED <<dropped, submitted, serviceVars, astray, marketVars>>

\* A new order that is invalid, or that the match rejects.
RejectOrder(c) ==
    /\ c \in Undecided
    /\ Logged(<<Rejected(c.id, c.user)>>)
    /\ UNCHANGED <<resting, dropped, submitted, serviceVars, astray, marketVars>>

\* A triggered order with a limit rests, whatever its time in force.  What a
\* market-type one has left is neither put on the book nor canceled.
Trigger(id, sweep) ==
    LET c == resting[id].command IN
    /\ resting[id].stop
    /\ Logged(FillEvents(c, sweep))
    /\ resting' = OpenAfter(c, sweep, ~c.market)
    /\ dropped' = IF c.market /\ sweep.rest > 0 THEN dropped \cup {id} ELSE dropped
    /\ UNCHANGED <<submitted, serviceVars, astray, marketVars>>

\* A triggered order that the match rejects is gone, and no event says so.
TriggerRejected(id) ==
    /\ resting[id].stop /\ MatchRejects(resting[id].command)
    /\ Logged(<< >>)
    /\ resting' = Without(resting, {id})
    /\ dropped' = dropped \cup {id}
    /\ UNCHANGED <<submitted, serviceVars, astray, marketVars>>

\* By request, by a cancel-all or by the expiry sweep: one event for each order.
CancelOrder(id) ==
    /\ Logged(<<Canceled(resting[id].command)>>)
    /\ resting' = Without(resting, {id})
    /\ UNCHANGED <<dropped, submitted, serviceVars, astray, marketVars>>

\* The answer to a refused request has the type of a refused order and names
\* the order.  If the view has it, it drops it, and the client id from the map
\* of the user who asked.
ToldRejected(id, user) ==
    LET cid == (CHOOSE c \in Commands : c.id = id).cid
    IN  IF id \in DOMAIN resting \cup dropped
        THEN {id} \cup {c.id : c \in {d \in Commands : d.user = user /\ d.cid = cid}}
        ELSE {}

\* A cancel or an amendment of an order that is not open or not the user's, or
\* an amendment of a waiting stop, its owner's included.
RefuseRequest(id, user) ==
    /\ id \in DOMAIN resting => user # resting[id].command.user \/ resting[id].stop
    /\ Answered(<<Rejected(id, user)>>, 1)
    /\ astray' = astray \cup ToldRejected(id, user)
    /\ UNCHANGED <<resting, dropped, submitted, serviceVars, marketVars>>

Amended(id, a) == [resting[id].command EXCEPT !.price = a.price, !.qty = a.qty]

\* Another price or more quantity: the order leaves the book and comes back.
Replaces(id, a) ==
    /\ ~resting[id].stop
    /\ a.price # resting[id].command.price \/ a.qty > resting[id].remaining

Replace(id, a, sweep) ==
    LET c == Amended(id, a) IN
    /\ Replaces(id, a) /\ a.price > 0 /\ a.qty > 0
    /\ Answered(<<Canceled(c), Accepted(c)>> \o FillEvents(c, sweep), 1)
    /\ resting' = OpenAfter(c, sweep, TRUE)
    /\ UNCHANGED <<dropped, submitted, serviceVars, astray, marketVars>>

\* It does not come back.
ReplaceRejected(id, a) ==
    LET c == Amended(id, a) IN
    /\ Replaces(id, a)
    /\ a.price = 0 \/ a.qty = 0 \/ MatchRejects(c)
    /\ Answered(<<Canceled(c), Rejected(id, c.user)>>, 1)
    /\ resting' = Without(resting, {id})
    /\ UNCHANGED <<dropped, submitted, serviceVars, astray, marketVars>>

\* Less quantity, or the same: the order keeps its place.  A reduction to
\* nothing is refused like a request of a stranger.
AmendInPlace(id, a) ==
    LET c == resting[id].command IN
    /\ ~resting[id].stop /\ ~Replaces(id, a)
    /\ Answered(<<IF a.qty = 0 THEN Rejected(id, c.user) ELSE Accepted(c)>>, 1)
    /\ resting' = IF a.qty = 0 THEN resting ELSE [resting EXCEPT ![id].remaining = a.qty]
    /\ astray' = IF a.qty = 0 THEN astray \cup ToldRejected(id, c.user) ELSE astray
    /\ UNCHANGED <<dropped, submitted, serviceVars, marketVars>>

-----------------------------------------------------------------------------
(* The order service.                                                      *)

Deliver ==
    LET e == log[position + 1] IN
    /\ position < Len(log)
    /\ position' = position + 1
    /\ service' = ApplyEvent(service, e)
    /\ UNCHANGED <<engineVars, snapshot, astray, marketVars, left>>

DeliverAgain ==
    /\ position > 0
    /\ service' = ApplyEvent(service, log[position])
    /\ service' # service
    /\ UNCHANGED <<engineVars, position, snapshot, astray, marketVars, left>>

\* The view finishes the orders before the engine has.
CancelAll(user, symbol) ==
    LET gone == {o.id : o \in {p \in GetUserActiveOrders(service, user) : p.symbol = symbol}} IN
    /\ gone # {} /\ left.requests > 0
    /\ left' = [left EXCEPT !.requests = @ - 1]
    /\ service' = CancelUserSymbolOrders(service, user, symbol)
    /\ astray' = astray \cup gone
    /\ UNCHANGED <<engineVars, position, snapshot, marketVars>>

SaveView ==
    /\ snapshot.at # position /\ left.restarts > 0
    /\ snapshot' = [at |-> position, of |-> TakeSnapshot(service)]
    /\ UNCHANGED <<engineVars, service, position, marketVars, astray, left>>

Restart ==
    /\ left.restarts > 0
    /\ left' = [left EXCEPT !.restarts = @ - 1]
    /\ service' = RestoreFromSnapshot(snapshot.of)
    /\ position' = snapshot.at
    /\ UNCHANGED <<engineVars, snapshot, marketVars, astray>>

-----------------------------------------------------------------------------
(* The feeds of the market data service.                                   *)

Fed == left.feeds > 0 /\ left' = [left EXCEPT !.feeds = @ - 1]

TradeExecuted(move) ==
    LET t == [trade |-> Len(traded) + 1, price |-> move.price, qty |-> 1, ts |-> clock + move.tick] IN
    /\ Fed
    /\ clock' = t.ts
    /\ traded' = Append(traded, t)
    /\ market' = UpdateLastPrice(OnTrade(market, t), t.price)
    /\ UNCHANGED <<engineVars, serviceVars, baseline, astray>>

DepthUpdate(updates) ==
    /\ Fed
    /\ market' = OnDepthUpdate(market, updates)
    /\ UNCHANGED <<engineVars, serviceVars, clock, traded, baseline, astray>>

Baseline ==
    /\ Fed /\ market.updateId > market.snapshotId
    /\ market' = MarkSnapshot(market)
    /\ baseline' = Depth
    /\ UNCHANGED <<engineVars, serviceVars, clock, traded, astray>>

PriceFeed(index, fair) ==
    /\ Fed
    /\ market' = Recalculate(UpdateFairPrice(UpdateIndexPrice(market, index, clock), fair), clock)
    /\ UNCHANGED <<engineVars, serviceVars, clock, traded, baseline, astray>>

Next ==
    \/ \E commands \in left.batches : Submit(commands)
    \/ \E c \in Undecided :
          \/ Await(c)
          \/ \E sweep \in Matches(c) : Accept(c, sweep)
          \/ RejectOrder(c)
    \/ \E id \in DOMAIN resting :
          \/ \E sweep \in Matches(resting[id].command) : Trigger(id, sweep)
          \/ TriggerRejected(id)
          \/ CancelOrder(id)
          \/ \E a \in Amendments :
                \/ \E sweep \in Matches(Amended(id, a)) : Replace(id, a, sweep)
                \/ ReplaceRejected(id, a)
                \/ AmendInPlace(id, a)
    \/ \E c \in submitted \ Undecided : \E d \in Commands : RefuseRequest(c.id, d.user)
    \/ Deliver \/ DeliverAgain \/ SaveView \/ Restart
    \/ \E c \in Commands : CancelAll(c.user, c.symbol)
    \/ \E move \in Moves : TradeExecuted(move)
    \/ \E updates \in Updates : DepthUpdate(updates)
    \/ Baseline
    \/ \E index, fair \in IndexPrices : PriceFeed(index, fair)

Spec == Init /\ [][Next]_vars

-----------------------------------------------------------------------------
(* Properties.                                                             *)

\* When the order service has read the whole log, what it shows is what the
\* engine has, after events delivered twice and after a restart from any
\* snapshot.  It shows no order that is neither open nor still to be decided,
\* but for those the engine gave up without an event: triggered stops that the
\* match rejected, and what triggered market orders had left.  Those it goes on
\* showing.  It shows every open order, under its client id and listed once,
\* with the quantity that was executed since it was entered and no less open
\* than is, but for those the view was told otherwise about: orders that a
\* cancel-all finished before the engine; orders a refused request named, be
\* it a stranger's or the owner's (the engine's answer is the rejection of the
\* order itself), and the asking user's order of the same client id.  The same
\* two kinds of request may take a dropped order off.
\* (OrderService::apply_event, create_order, restore_from_snapshot.)
ViewMatchesEngine ==
    position = Len(log) =>
        \A user \in {c.user : c \in submitted} :
            LET shown == GetUserActiveOrders(service, user)
                listed == {o.id : o \in shown}
                own(ids) == {c.id : c \in {d \in submitted : d.user = user}} \cap ids IN
            /\ listed \subseteq own(DOMAIN resting \cup {c.id : c \in Undecided} \cup dropped)
            /\ own((DOMAIN resting \cup dropped) \ astray) \subseteq listed
            /\ \A o \in shown : o.id \notin astray =>
                  /\ GetOrderByClientId(service, user, o.cid) = {o}
                  /\ Cardinality({i \in 1 .. Len(service.active[user]) :
                                    service.active[user][i] = o.id}) = 1
                  /\ o.id \in DOMAIN resting =>
                        /\ o.executed = resting[o.id].filled
                        /\ o.fills # {} => o.remaining >= resting[o.id].remaining

\* The runs of consecutive trades of one period: where each begins and ends.
BarBounds(interval) ==
    LET period(i) == AlignTimestamp(interval, traded[i].ts)
        n == Len(traded) IN
    {<<i, j>> \in (1 .. n) \X (1 .. n) :
        /\ i <= j
        /\ \A k \in i .. j : period(k) = period(i)
        /\ i = 1 \/ period(i - 1) # period(i)
        /\ j = n \/ period(j + 1) # period(i)}

ClockForward == \A i \in 2 .. Len(traded) : traded[i].ts >= traded[i - 1].ts

\* The side of a book that increments turn the baseline into.
Replayed(levels, diff) == FoldLeft(LAMBDA side, d : WithLevel(side, d[1], d[2]), levels, diff)

\* Market data accounts for every trade and every level.  Of each interval the
\* open bar and the completed ones not yet evicted are the newest of the runs
\* of trades that fall in one period, and if the clock never went back no two
\* of them are of the same period; then too the ticker covers the trades of
\* the last Window and no others.  The increments since the baseline turn it
\* into the depth now, and their numbers follow on from its number; the
\* ticker's best prices are the depth's.  (KlineAggregator, TickerAggregator,
\* DepthTracker and MarketDataService.)
MarketAccountsForFeed ==
    /\ \A interval \in DOMAIN market.bars :
          LET shown == Append(RecentKlines(market, interval, MaxBars), market.bars[interval])
              bounds == SetToSortSeq(BarBounds(interval), LAMBDA a, b : a[1] < b[1])
              skipped == Len(bounds) - Len(shown) IN
          /\ \A k \in 1 .. Len(shown) :
                LET first == bounds[skipped + k][1]
                    last == bounds[skipped + k][2]
                    prices == {traded[i].price : i \in first .. last} IN
                /\ shown[k].opens = AlignTimestamp(interval, traded[first].ts)
                /\ shown[k].open = traded[first].price /\ shown[k].close = traded[last].price
                /\ shown[k].high = Max(prices) /\ shown[k].low = Min(prices)
                /\ shown[k].count = last - first + 1
          /\ ClockForward => \A j, k \in 1 .. Len(shown) :
                                shown[j].opens = shown[k].opens => j = k
    /\ traded # << >> /\ ClockForward =>
          LET now == Last(traded).ts
              inside == {i \in 1 .. Len(traded) : traded[i].ts >= Cutoff(now)} IN
          /\ market.ticker.count = Cardinality(inside)
          /\ market.ticker.high = Max({traded[i].price : i \in inside})
          /\ market.ticker.open = traded[Min(inside)].price
    /\ Replayed(baseline.bid, DiffSinceSnapshot(market).bids) = market.bid
    /\ Replayed(baseline.ask, DiffSinceSnapshot(market).asks) = market.ask
    /\ DiffSinceSnapshot(market).first = baseline.id + 1
    /\ \A p \in market.bestBid : \A q \in DOMAIN market.bid : q <= p
    /\ (market.bestBid = {}) = (DOMAIN market.bid = {})
    /\ \A p \in market.bestAsk : \A q \in DOMAIN market.ask : q >= p
=============================================================================
