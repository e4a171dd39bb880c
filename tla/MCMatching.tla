----------------------------- MODULE MCMatching -----------------------------
(***************************************************************************)
(* Three small instances of MatchingEngine in one, with two users and two  *)
(* price levels.  In the first, plain orders of every time in force with   *)
(* their cancels and amendments; in the second, stops, take-profits,       *)
(* trailing stops and icebergs over a mark price that moves both ways; in  *)
(* the third, icebergs that are amended.  Anybody may try to cancel or     *)
(* amend any order.                                                        *)
(***************************************************************************)
EXTENDS MatchingEngine

VARIABLE menu   \* the commands of this behaviour and how many of them

mcVars == <<vars, menu>>

Order(user, side, type, tif, price, qty) ==
    [user |-> user, side |-> side, type |-> type, tif |-> tif, price |-> price,
     qty |-> qty, stop |-> None, delta |-> None, vis |-> None]

MCUsers == {"alice", "bob"}

\* Sellers of one and of two lots in two levels, and takers that need one or
\* several of them, at either limit, in every time in force.
PlainRequests ==
    {Order("alice", "sell", "Limit", "GTC", 1, 1),
     Order("bob",   "sell", "Limit", "GTC", 1, 2),
     Order("alice", "sell", "Limit", "GTD", 2, 1),
     Order("bob",   "buy",  "Limit", "GTC", 2, 3),
     Order("alice", "buy",  "Limit", "FOK", 1, 2),
     Order("bob",   "buy",  "Limit", "IOC", 1, 3),
     Order("alice", "buy",  "Limit", "PostOnly", 1, 2),
     Order("alice", "buy",  "Market", "GTC", None, 3)}

\* A few plain orders for those that wait to trade with.
WaitingRequests ==
    {Order("alice", "sell", "Limit", "GTC", 2, 2),
     Order("bob",   "buy",  "Limit", "GTC", 1, 1),
     [Order("bob",   "buy",  "StopMarket", "GTC", None, 1) EXCEPT !.stop = 2],
     [Order("bob",   "buy",  "StopLimit", "GTD", 2, 3) EXCEPT !.stop = 2],
     [Order("alice", "sell", "TakeProfitLimit", "PostOnly", 1, 1) EXCEPT !.stop = 2],
     [Order("alice", "sell", "TakeProfitMarket", "FOK", None, 2) EXCEPT !.stop = 3],
     [Order("alice", "sell", "TrailingStop", "GTC", None, 1) EXCEPT !.delta = 1],
     [Order("bob",   "buy",  "Iceberg", "GTC", 2, 3) EXCEPT !.vis = 1]}

\* An iceberg on either side, one that trades at once and one that is left
\* alone, a fill-or-kill one, and an order to take what they show.
IcebergRequests ==
    {[Order("bob",   "buy",  "Iceberg", "GTC", 2, 3) EXCEPT !.vis = 1],
     [Order("bob",   "buy",  "Iceberg", "FOK", 2, 3) EXCEPT !.vis = 1],
     [Order("alice", "sell", "Iceberg", "GTD", 1, 4) EXCEPT !.vis = 2],
     Order("alice", "sell", "Limit", "GTC", 2, 2)}

MCAmendments ==
    {[price |-> 2, qty |-> None],       \* a new price: replaced
     [price |-> None, qty |-> 3],       \* more: replaced
     [price |-> None, qty |-> 1],       \* less or the same: in place
     [price |-> 1, qty |-> 0]}          \* canceled, then found invalid

MCMarkPrices == {[mark |-> 1, index |-> 1], [mark |-> 2, index |-> 0], [mark |-> 3, index |-> 2]}

Menus ==
    {[requests |-> PlainRequests, amendments |-> MCAmendments, marks |-> {}, commands |-> 6],
     [requests |-> WaitingRequests, amendments |-> {}, marks |-> MCMarkPrices, commands |-> 5],
     [requests |-> IcebergRequests, amendments |-> MCAmendments, marks |-> {}, commands |-> 5]}

MCRequests == PlainRequests \cup WaitingRequests \cup IcebergRequests

MCInit == Init /\ menu \in Menus

\* Next, from the menu.
MCNext ==
    /\ engine.seq < menu.commands
    /\ UNCHANGED menu
    /\ \/ \E r \in menu.requests : NewOrder(r)
       \/ \E id \in OrderIds, user \in Users :
             /\ id < nextId
             /\ CancelOrder(id, user) \/ \E a \in menu.amendments : AmendOrder(id, user, a)
       \/ \E user \in Users : CancelAllOrders(user)
       \/ \E m \in menu.marks : UpdateMarkPrice(m.mark, m.index)
       \/ ComputeFunding
       \/ ExpireOrders

MCSpec == MCInit /\ [][MCNext]_mcVars
=============================================================================
