------------------------------ MODULE MCWallet ------------------------------
(***************************************************************************)
(* A small instance of Wallet: users 1 and 11, whose addresses may be the  *)
(* same, two transfers of one transaction, two crediting workers.          *)
(***************************************************************************)
EXTENDS Wallet

MCUserNumber == [one |-> 1, eleven |-> 11]
MCRequiredConfirmations == [ETH |-> 12]
MCTransfers ==
    {[chain |-> "ETH", tx |-> "t1", log |-> 0, user |-> "eleven", amount |-> 2],
     [chain |-> "ETH", tx |-> "t1", log |-> 1, user |-> "one", amount |-> 3]}
MCRequests == {[user |-> "one", amount |-> 4], [user |-> "eleven", amount |-> 5]}
=============================================================================
