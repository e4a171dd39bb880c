---------------------------- MODULE MCPostTrade ----------------------------
(***************************************************************************)
(* A small instance of PostTrade: three users who open, average, reduce,   *)
(* close and flip positions, poor enough for losses and funding to be      *)
(* capped.                                                                 *)
(***************************************************************************)
EXTENDS PostTrade

Leg(maker, qty, price) == [maker |-> maker, qty |-> qty, price |-> price]

MCUsers == {"alice", "bob", "carol"}

MCSweeps ==
    {[user |-> "alice", side |-> "Buy",  legs |-> <<Leg("bob", 1, 1), Leg("carol", 1, 4)>>],
     [user |-> "alice", side |-> "Sell", legs |-> <<Leg("bob", 3, 2)>>],
     [user |-> "carol", side |-> "Buy",  legs |-> <<Leg("alice", 1, 6), Leg("carol", 1, 6)>>]}

MCMarkPrices == {1}
MCRates == {1, -1}
MCCredits == {[user |-> "alice", amount |-> 3], [user |-> "bob", amount |-> 1]}
=============================================================================
