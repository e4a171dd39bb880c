----------------------------- MODULE MarketData -----------------------------
(***************************************************************************)
(* exg-market-data, for one symbol: bars, 24-hour ticker, depth with its   *)
(* increments, recent trades, mark price.  A service is a record; each     *)
(* operation is an operator that returns the next one.                     *)
(***************************************************************************)
EXTENDS Integers, Sequences, SequencesExt, FiniteSetsExt, TLC

CONSTANTS
    Intervals,          \* durations of the bars, in the order of ALL
    Window,             \* WINDOW_24H_US
    MaxBars,            \* completed bars kept, of all intervals together
    MaxRecentTrades,
    MaxStale            \* max_stale_us

ASSUME MarketAssumption ==
    /\ \A i \in 1 .. Len(Intervals) : Intervals[i] \in Nat \ {0}
    /\ {Window, MaxBars, MaxRecentTrades, MaxStale} \subseteq Nat

Sum(values) == FoldSeq(LAMBDA a, b : a + b, 0, values)

\* Bounded FIFO: evict the oldest if at capacity, then push.
Pushed(queue, x, bound) ==
    Append(IF Len(queue) >= bound /\ queue # << >> THEN Tail(queue) ELSE queue, x)

NewMarket ==
    [bars |-> << >>, completed |-> << >>, window |-> << >>, ticker |-> [count |-> 0],
     bid |-> << >>, ask |-> << >>, bestBid |-> {}, bestAsk |-> {},
     updateId |-> 0, snapshotId |-> 0, diffBid |-> << >>, diffAsk |-> << >>,
     recent |-> << >>, last |-> 0, index |-> 0, indexTime |-> 0, fair |-> 0,
     mark |-> 0, stale |-> FALSE]

-----------------------------------------------------------------------------
(* kline.rs.                                                               *)

AlignTimestamp(interval, ts) == (ts \div interval) * interval

FirstOf(interval, t) ==
    [interval |-> interval, opens |-> AlignTimestamp(interval, t.ts), open |-> t.price,
     high |-> t.price, low |-> t.price, close |-> t.price, volume |-> t.qty,
     quote |-> t.price * t.qty, count |-> 1]

WithTrade(bar, t) ==
    [bar EXCEPT !.high = IF t.price > @ THEN t.price ELSE @,
                !.low = IF t.price < @ THEN t.price ELSE @,
                !.close = t.price, !.volume = @ + t.qty,
                !.quote = @ + t.price * t.qty, !.count = @ + 1]

\* Mutant: a trade after the boundary is still counted in the bar it ends.
LateRolloverMutant(m, t) ==
    FoldLeft(LAMBDA n, interval :
        IF interval \notin DOMAIN n.bars
        THEN [n EXCEPT !.bars = (interval :> FirstOf(interval, t)) @@ @]
        ELSE IF n.bars[interval].opens + interval >= t.ts
        THEN [n EXCEPT !.bars[interval] = WithTrade(@, t)]
        ELSE [n EXCEPT !.bars[interval] = FirstOf(interval, t),
                       !.completed = Pushed(@, n.bars[interval], MaxBars)],
        m, Intervals)

\* A bar ends when a trade falls in another period, a later or an earlier one.
AddToBars(m, t) ==
    FoldLeft(LAMBDA n, interval :
        IF interval \notin DOMAIN n.bars
        THEN [n EXCEPT !.bars = (interval :> FirstOf(interval, t)) @@ @]
        ELSE IF n.bars[interval].opens = AlignTimestamp(interval, t.ts)
        THEN [n EXCEPT !.bars[interval] = WithTrade(@, t)]
        ELSE [n EXCEPT !.bars[interval] = FirstOf(interval, t),
                       !.completed = Pushed(@, n.bars[interval], MaxBars)],
        m, Intervals)

RecentKlines(m, interval, limit) ==
    LET own == SelectSeq(m.completed, LAMBDA bar : bar.interval = interval)
    IN  SubSeq(own, IF Len(own) > limit THEN Len(own) - limit + 1 ELSE 1, Len(own))

-----------------------------------------------------------------------------
(* ticker.rs.                                                              *)

Cutoff(now) == IF now > Window THEN now - Window ELSE 0

\* Only from the front, and only as far as the first trade still inside.
Prune(trades, now) ==
    LET inside == {i \in 1 .. Len(trades) : trades[i].ts >= Cutoff(now)}
    IN  IF inside = {} THEN << >>
        ELSE SubSeq(trades, Min(inside), Len(trades))

\* prune, then recompute; the window holds at least the trade just added.
AddToTicker(m, t) ==
    LET w == Prune(Append(m.window, t), t.ts)
        prices == {x.price : x \in ToSet(w)}
    IN  [m EXCEPT
          !.window = w,
          !.ticker = [count |-> Len(w), high |-> Max(prices), low |-> Min(prices),
                      volume |-> Sum([i \in 1 .. Len(w) |-> w[i].qty]),
                      quote |-> Sum([i \in 1 .. Len(w) |-> w[i].price * w[i].qty]),
                      open |-> Head(w).price, last |-> Last(w).price,
                      change |-> Last(w).price - Head(w).price, updated |-> t.ts]]

Median3(a, b, c) ==
    IF (a >= b /\ a <= c) \/ (a <= b /\ a >= c) THEN a
    ELSE IF (b >= a /\ b <= c) \/ (b <= a /\ b >= c) THEN b
    ELSE c

UpdateLastPrice(m, price) == [m EXCEPT !.last = price]
UpdateIndexPrice(m, price, ts) == [m EXCEPT !.index = price, !.indexTime = ts]
UpdateFairPrice(m, price) == [m EXCEPT !.fair = price]

Recalculate(m, now) ==
    [m EXCEPT !.stale = now - m.indexTime > MaxStale,
              !.mark = Median3(m.last, m.index, m.fair)]

-----------------------------------------------------------------------------
(* depth.rs.  A side of the book maps prices to quantities.                *)

WithLevel(levels, price, qty) ==
    IF qty = 0 THEN [p \in DOMAIN levels \ {price} |-> levels[p]]
    ELSE (price :> qty) @@ levels

UpdateLevel(m, u) ==
    IF u.side = "Buy"
    THEN [m EXCEPT !.updateId = @ + 1, !.bid = WithLevel(@, u.price, u.qty),
                   !.diffBid = Append(@, <<u.price, u.qty>>)]
    ELSE [m EXCEPT !.updateId = @ + 1, !.ask = WithLevel(@, u.price, u.qty),
                   !.diffAsk = Append(@, <<u.price, u.qty>>)]

UpdateLevels(m, updates) == FoldLeft(UpdateLevel, m, updates)

\* The best n levels of each side.
Snapshot(m, n) ==
    [bids |-> {p \in DOMAIN m.bid : Cardinality({q \in DOMAIN m.bid : q > p}) < n},
     asks |-> {p \in DOMAIN m.ask : Cardinality({q \in DOMAIN m.ask : q < p}) < n}]

DiffSinceSnapshot(m) ==
    [bids |-> m.diffBid, asks |-> m.diffAsk, first |-> m.snapshotId + 1, last |-> m.updateId]

MarkSnapshot(m) ==
    [m EXCEPT !.snapshotId = m.updateId, !.diffBid = << >>, !.diffAsk = << >>]

-----------------------------------------------------------------------------
(* service.rs.                                                             *)

RefreshBbo(m) ==
    [m EXCEPT !.bestBid = Snapshot(m, 1).bids, !.bestAsk = Snapshot(m, 1).asks]

OnTrade(m, t) ==
    RefreshBbo([AddToTicker(AddToBars(m, t), t) EXCEPT
                   !.recent = Pushed(@, t, MaxRecentTrades)])

OnDepthUpdate(m, updates) == RefreshBbo(UpdateLevels(m, updates))
=============================================================================
