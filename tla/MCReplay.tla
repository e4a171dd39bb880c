------------------------------ MODULE MCReplay ------------------------------
(***************************************************************************)
(* A small instance of Replay: sweeps that leave the taker resting; stops, *)
(* take-profits and trailing stops that rest, execute or find nothing over *)
(* a mark price that moves both ways; amendments and expiries; a snapshot. *)
(* The gateway passes no visible quantity on, so no iceberg is accepted.   *)
(***************************************************************************)
EXTENDS Replay

Order(user, side, type, tif, price, qty) ==
    [user |-> user, side |-> side, type |-> type, tif |-> tif, price |-> price,
     qty |-> qty, stop |-> None, delta |-> None, vis |-> None]

MCUsers == {"alice", "bob"}

MCRequests ==
    {Order("alice", "sell", "Limit", "GTC", 1, 1),
     Order("bob",   "sell", "Limit", "GTC", 1, 2),
     Order("alice", "sell", "Limit", "GTD", 2, 1),
     Order("bob",   "buy",  "Limit", "GTC", 2, 4),
     Order("bob",   "buy",  "Limit", "IOC", 1, 3),
     Order("alice", "buy",  "Market", "GTC", None, 2),
     [Order("bob",   "buy",  "StopLimit", "GTC", 1, 3) EXCEPT !.stop = 2],
     [Order("alice", "sell", "TakeProfitLimit", "PostOnly", 1, 1) EXCEPT !.stop = 2],
     [Order("alice", "buy",  "StopMarket", "GTC", None, 2) EXCEPT !.stop = 2],
     [Order("alice", "sell", "TrailingStop", "GTC", None, 1) EXCEPT !.delta = 1]}

MCAmendments ==
    {[price |-> 2, qty |-> None],
     [price |-> None, qty |-> 3],
     [price |-> None, qty |-> 1]}

MCMarkPrices == {[mark |-> 1, index |-> 1], [mark |-> 2, index |-> 0]}
=============================================================================
