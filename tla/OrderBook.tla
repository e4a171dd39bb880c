----------------------------- MODULE OrderBook -----------------------------
(***************************************************************************)
(* exg-matching-engine/src/orderbook.rs: the book of one symbol, as a pure *)
(* data structure.  A book keeps each fact three times, as the code does:  *)
(* the orders by id, the price levels (FIFO queue of ids and a cached      *)
(* total) and each user's ids.  Operators return the book they leave.      *)
(* Quantities and prices are naturals; the book is keyed by side, so the   *)
(* code's bid and ask branches are one definition.                         *)
(***************************************************************************)
EXTENDS Integers, Sequences, FiniteSets, TLC,
        SequencesExt, FiniteSetsExt, Functions

CONSTANTS
    None,       \* Option::None
    MaxPrice    \* Decimal128::MAX, the price of a market buy

ASSUME PriceAssumption == None \notin Int /\ MaxPrice \in Nat

Sides == {"buy", "sell"}
Opposite(side) == IF side = "buy" THEN "sell" ELSE "buy"

EmptyBook ==
    [orders |-> << >>,                      \* id -> BookOrder
     levels |-> [s \in Sides |-> << >>],    \* price -> [total, ids]
     users  |-> << >>]                      \* user -> ids in placing order

With(f, k, v) == [x \in DOMAIN f \cup {k} |-> IF x = k THEN v ELSE f[x]]
Drop(f, k) == Restrict(f, DOMAIN f \ {k})
Get(f, k, default) == IF k \in DOMAIN f THEN f[k] ELSE default

\* Vec::retain: what is left of ids without id.
Retain(ids, id) == FlattenSeq([i \in DOMAIN ids |-> IF ids[i] = id THEN << >> ELSE <<ids[i]>>])

OnBook(book, id) == id \in DOMAIN book.orders
UserOrders(book, user) == Get(book.users, user, << >>)

InsertOrder(book, o) ==
    LET level == Get(book.levels[o.side], o.price, [total |-> 0, ids |-> << >>])
        joined == [total |-> level.total + o.rem, ids |-> Append(level.ids, o.id)]
    IN  [orders |-> With(book.orders, o.id, o),
         levels |-> [book.levels EXCEPT ![o.side] = With(@, o.price, joined)],
         users  |-> With(book.users, o.user, Append(UserOrders(book, o.user), o.id))]

\* The level's queue without the order, the cached total without its
\* quantity; a level whose queue empties is removed.
LeaveLevel(levels, o) ==
    LET ids == Retain(levels[o.price].ids, o.id)
    IN  IF ids = << >> THEN Drop(levels, o.price)
        ELSE [levels EXCEPT ![o.price] = [total |-> @.total - o.rem, ids |-> ids]]

WithoutOrder(book, o, level) ==
    LET mine == Retain(book.users[o.user], o.id)
    IN  [orders |-> Drop(book.orders, o.id),
         levels |-> [book.levels EXCEPT ![o.side] = level],
         users  |-> IF mine = << >> THEN Drop(book.users, o.user)
                    ELSE [book.users EXCEPT ![o.user] = mine]]

\* Mutant: the level's cached total keeps the quantity of the order removed.
StaleTotalMutant(book, id) ==
    IF ~OnBook(book, id) THEN book
    ELSE LET o == book.orders[id]
         IN  WithoutOrder(book, o, LeaveLevel(book.levels[o.side], [o EXCEPT !.rem = 0]))
RemoveOrder(book, id) ==
    IF ~OnBook(book, id) THEN book
    ELSE LET o == book.orders[id]
         IN  WithoutOrder(book, o, LeaveLevel(book.levels[o.side], o))

\* The user's list is taken as a whole; each order then leaves its level.
CancelAllUserOrders(book, user) ==
    FoldLeft(RemoveOrder, book, UserOrders(book, user))

\* Mutant: an order whose quantity changes goes to the back of its queue.
RequeueMutant(book, id, newRem) ==
    IF ~OnBook(book, id) THEN book
    ELSE InsertOrder(RemoveOrder(book, id), [book.orders[id] EXCEPT !.rem = newRem])
\* In place: the order keeps its position in the queue.
UpdateQty(book, id, newRem) ==
    IF ~OnBook(book, id) THEN book
    ELSE LET o == book.orders[id]
         IN  [book EXCEPT
                !.orders[id].rem = newRem,
                !.levels[o.side][o.price].total = @ - (o.rem - newRem)]

Prices(book, side) == DOMAIN book.levels[side]

\* Best first: asks ascending, bids descending.
Better(side, p, q) == IF side = "sell" THEN p < q ELSE p > q
BestFirst(side, prices) ==
    CHOOSE order \in SetToSeqs(prices) :
        \A i, j \in DOMAIN order : i < j => Better(side, order[i], order[j])

\* Would a taker on this side at this limit trade at price p?
Crosses(side, limit, p) == IF side = "buy" THEN p <= limit ELSE p >= limit

\* What fill-or-kill may count on, read from the cached totals.
Totals(book, side) == [p \in Prices(book, side) |-> book.levels[side][p].total]
AvailableQty(book, side, limit) ==
    SumFunctionOnSet(Totals(book, Opposite(side)),
                     {p \in Prices(book, Opposite(side)) : Crosses(side, limit, p)})
TotalOppositeQty(book, side) == SumFunction(Totals(book, Opposite(side)))

-----------------------------------------------------------------------------
(* What has to hold between the three copies.                              *)

Queue(book, side, price) == book.levels[side][price].ids
Remaining(book) == [id \in DOMAIN book.orders |-> book.orders[id].rem]

\* Every order is queued once, in the level of its side and price, and listed
\* once for its user; nothing else is queued or listed; no level is empty;
\* each level's total is the sum of what its orders have remaining.
ConsistentBook(book) ==
    /\ \A id \in DOMAIN book.orders :
          LET o == book.orders[id]
          IN  /\ o.id = id /\ o.rem > 0
              /\ o.price \in Prices(book, o.side) /\ o.user \in DOMAIN book.users
              /\ id \in Range(Queue(book, o.side, o.price))
              /\ id \in Range(book.users[o.user])
    /\ \A s \in Sides : \A p \in Prices(book, s) :
          /\ Queue(book, s, p) # << >> /\ IsInjective(Queue(book, s, p))
          /\ \A id \in Range(Queue(book, s, p)) :
                OnBook(book, id) /\ book.orders[id].side = s /\ book.orders[id].price = p
          /\ book.levels[s][p].total =
                SumFunctionOnSet(Remaining(book), Range(Queue(book, s, p)))
    /\ \A u \in DOMAIN book.users :
          /\ book.users[u] # << >> /\ IsInjective(book.users[u])
          /\ \A id \in Range(book.users[u]) : OnBook(book, id) /\ book.orders[id].user = u

\* a is queued ahead of b in the same level.
Ahead(book, a, b) ==
    /\ OnBook(book, a) /\ OnBook(book, b)
    /\ \E s \in Sides : \E p \in Prices(book, s) :
          LET ids == Queue(book, s, p)
          IN  \E i, j \in DOMAIN ids : i < j /\ ids[i] = a /\ ids[j] = b

\* a has priority over b: a better price, or the same price and earlier.
HasPriority(book, a, b) ==
    /\ OnBook(book, a) /\ OnBook(book, b)
    /\ book.orders[a].side = book.orders[b].side
    /\ \/ Better(book.orders[a].side, book.orders[a].price, book.orders[b].price)
       \/ Ahead(book, a, b)
=============================================================================
