----------------------------- MODULE MCReadModels -----------------------------
(***************************************************************************)
(* A small instance of ReadModels: two sellers' orders, one of them        *)
(* post-only, and buyers that may sweep both: a market stop, a limit stop  *)
(* that fills all or nothing, an order that fills at once or never.        *)
(* Amendments that raise, reprice, reduce to one, reduce to nothing.       *)
(* Three trades around the end of a period and of the window.              *)
(***************************************************************************)
EXTENDS ReadModels

Sell(id, cid, tif, qty, price) ==
    [id |-> id, user |-> "u1", symbol |-> "BTC", cid |-> cid, side |-> "Sell",
     conditional |-> FALSE, market |-> FALSE, tif |-> tif, qty |-> qty, price |-> price]
Buy(id, cid, tif, waits, unpriced) ==
    [id |-> id, user |-> "u2", symbol |-> "BTC", cid |-> cid, side |-> "Buy",
     conditional |-> waits, market |-> unpriced, tif |-> tif, qty |-> 2, price |-> 3]

MCCommands ==
    {Sell("o1", 1, "Gtc", 1, 1), Sell("o2", 2, "PostOnly", 2, 2),
     Buy("o3", 1, "Gtc", TRUE, TRUE), Buy("o4", 2, "Fok", TRUE, FALSE),
     Buy("o5", 3, "Ioc", FALSE, FALSE)}
Alone(ids) == {<<c>> : c \in {d \in MCCommands : d.id \in ids}}
Together == {SetToSeq({c \in MCCommands : c.side = "Sell"})}
MCBatches == Alone({"o1", "o2", "o3", "o4", "o5"}) \cup Together
MCAmendments == {[price |-> 1, qty |-> 1], [price |-> 2, qty |-> 3], [price |-> 2, qty |-> 0],
                 [price |-> 2, qty |-> 1]}
MCIntervals == <<2, 4>>
MCMoves == {[tick |-> -1, price |-> 1], [tick |-> 2, price |-> 2]}
Bid(price, qty) == [side |-> "Buy", price |-> price, qty |-> qty]
Ask(price, qty) == [side |-> "Sell", price |-> price, qty |-> qty]
MCUpdates == {<<Bid(1, 1), Ask(3, 1)>>, <<Bid(1, 0), Bid(2, 2)>>, <<Ask(2, 1), Ask(3, 0)>>}
MCBounds ==
    {[batches |-> Alone({"o1", "o2", "o3"}) \cup Together,
      events |-> 7, requests |-> 1, restarts |-> 0, feeds |-> 0],
     [batches |-> Alone({"o2", "o4", "o5"}),
      events |-> 6, requests |-> 1, restarts |-> 0, feeds |-> 0],
     [batches |-> Alone({"o1", "o2", "o3"}),
      events |-> 6, requests |-> 0, restarts |-> 1, feeds |-> 0],
     [batches |-> {}, events |-> 0, requests |-> 0, restarts |-> 0, feeds |-> 6]}
=============================================================================
