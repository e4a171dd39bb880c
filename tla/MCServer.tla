------------------------------ MODULE MCServer ------------------------------
(***************************************************************************)
(* Two requests of a client that retries under one clientOrderId and one   *)
(* request of the operator; a ring of one slot, so the second command may  *)
(* find it full; commands with no event or two and a flush every third     *)
(* record, so a flush falls inside a command; one restart.                 *)
(***************************************************************************)
EXTENDS Server

CONSTANTS first, retry, admin, id

MCRequests == {first, retry, admin}
MCAdmin == {admin}
MCCoid == [r \in MCRequests |-> IF r = admin THEN None ELSE id]
=============================================================================
