------------------------------ MODULE Matcher ------------------------------
(***************************************************************************)
(* exg-matching-engine/src/matcher.rs: match_order, which runs a taker     *)
(* against the book and reports the fills.  Removing filled makers is part *)
(* of it; placing what is left of the taker is its callers' job.           *)
(***************************************************************************)
EXTENDS OrderBook

IsLimit(type) == type \in {"Limit", "StopLimit", "TakeProfitLimit", "Iceberg"}

\* The levels a taker may trade with, best first; a market order's limit is
\* not looked at.
Reachable(book, taker) ==
    {p \in Prices(book, Opposite(taker.side)) :
        IsLimit(taker.type) => Crosses(taker.side, taker.price, p)}
Queues(book, taker) ==
    LET prices == BestFirst(Opposite(taker.side), Reachable(book, taker))
    IN  [i \in DOMAIN prices |-> Queue(book, Opposite(taker.side), prices[i])]

\* Mutant: a level is walked from its newest order.
LifoMutant(book, taker) ==
    FlattenSeq([i \in DOMAIN Queues(book, taker) |-> Reverse(Queues(book, taker)[i])])
\* Mutant: the loops stop after the best level.
OneLevelMutant(book, taker) ==
    FlattenSeq(SubSeq(Queues(book, taker), 1, Min({1, Len(Queues(book, taker))})))
\* The makers in the order the two loops visit them: each level's queue from
\* its oldest order.
Makers(book, taker) == FlattenSeq(Queues(book, taker))

\* One maker's turn, at the maker's price, leaving the given book.
FillQty(m, id) == Min({m.taker.rem, m.book.orders[id].rem})
Traded(m, id, book) ==
    LET maker == m.book.orders[id]
    IN  [book  |-> book,
         taker |-> [m.taker EXCEPT !.rem = @ - FillQty(m, id)],
         fills |-> Append(m.fills, [maker |-> id, makerUser |-> maker.user,
                                    price |-> maker.price, qty |-> FillQty(m, id)])]
MakerLeft(m, id) == m.book.orders[id].rem - FillQty(m, id)

\* Mutant: a partial fill does not reduce the maker.
UnreducedMakerMutant(m, id) ==
    IF m.taker.rem = 0 THEN m
    ELSE Traded(m, id, IF MakerLeft(m, id) = 0 THEN RemoveOrder(m.book, id) ELSE m.book)
FillAgainst(m, id) ==
    IF m.taker.rem = 0 THEN m
    ELSE Traded(m, id, IF MakerLeft(m, id) = 0 THEN RemoveOrder(m.book, id)
                       ELSE UpdateQty(m.book, id, MakerLeft(m, id)))

\* Post-only: would the best opposite price trade?
WouldTake(book, o) ==
    \E p \in Prices(book, Opposite(o.side)) : Crosses(o.side, o.price, p)

\* Mutant: the check counts the whole opposite side, limit or not.
FokIgnoresLimitMutant(book, o) == TotalOppositeQty(book, o.side) < o.rem
\* Fill-or-kill is decided before anything executes.
Unfillable(book, o) ==
    (IF IsLimit(o.type) THEN AvailableQty(book, o.side, o.price)
     ELSE TotalOppositeQty(book, o.side)) < o.rem

Unmatched(book, o, rejected) ==
    [book |-> book, taker |-> o, fills |-> << >>, rejected |-> rejected]
Swept(book, o) ==
    LET m == FoldLeft(FillAgainst, [book |-> book, taker |-> o, fills |-> << >>],
                      Makers(book, o))
    IN  [book |-> m.book, taker |-> m.taker, fills |-> m.fills, rejected |-> FALSE]

MatchOrder(book, o) ==
    IF o.tif = "PostOnly" THEN Unmatched(book, o, WouldTake(book, o))
    ELSE IF o.tif = "FOK" /\ Unfillable(book, o) THEN Unmatched(book, o, TRUE)
    ELSE Swept(book, o)
=============================================================================
