----------------------------- MODULE MCClearing -----------------------------
(***************************************************************************)
(* A small instance of Clearing: one user at leverage against two, and     *)
(* prices that ruin either side.                                           *)
(***************************************************************************)
EXTENDS Clearing

Trade(buyer, seller, qty, price, fee, leverage) ==
    [buyer |-> buyer, seller |-> seller, qty |-> qty, price |-> price,
     fee |-> fee, leverage |-> leverage]

MCTraders == {"alice", "bob", "carol"}
MCOpening == <<Trade("alice", "carol", 1, 4, 1, 2)>>
MCTradeTerms == {Trade("alice", "bob", 4, 4, 0, 4), Trade("bob", "alice", 5, 6, 5, 5)}
MCPairs ==
    {[user |-> "alice", counterparty |-> "bob",   pnl |-> 1],
     [user |-> "bob",   counterparty |-> "carol", pnl |-> -2]}
MCPrices == {1, 2, 6}
MCRates == {100, -100}
MCTiers == <<[floor |-> 0, cap |-> 8, rate |-> 25, amount |-> 0],
             [floor |-> 8, cap |-> 100, rate |-> 50, amount |-> 2]>>
=============================================================================
