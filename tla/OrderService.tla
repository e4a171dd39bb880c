---------------------------- MODULE OrderService ----------------------------
(***************************************************************************)
(* exg-order-service: the view of the orders that the engine's events and  *)
(* the users' commands build (service.rs, order.rs).  A service is a       *)
(* record of its maps; each operation is an operator that returns the next *)
(* service.  Of an order the fields kept are those the view's readers      *)
(* decide by; prices appear in the quote total, which avg_fill_price is    *)
(* divided from.                                                           *)
(***************************************************************************)
EXTENDS Integers, Sequences, SequencesExt, FiniteSetsExt, TLC

CONSTANTS
    NoClientId,     \* an order without a clientOrderId
    MaxCompleted    \* max_completed_history

ASSUME OrderServiceAssumption == MaxCompleted \in Nat

NewService == [orders |-> << >>, active |-> << >>, client |-> << >>, completed |-> << >>]

\* `of` is the user whose orders a function of lists holds, in any case.
ListOf(lists, user) == IF user \in DOMAIN lists THEN lists[user] ELSE << >>

Without(f, keys) == [k \in DOMAIN f \ keys |-> f[k]]

-----------------------------------------------------------------------------
(* Records.                                                                *)

OrderOf(command) ==
    [id |-> command.id, user |-> command.user, symbol |-> command.symbol,
     cid |-> command.cid, conditional |-> command.conditional,
     executed |-> 0, remaining |-> command.qty, quote |-> 0,
     status |-> "New", fills |-> {}]

\* What an event alone tells of an order: neither its type nor its quantity.
MinimalOrder(id, user, symbol, cid, status) ==
    [id |-> id, user |-> user, symbol |-> symbol, cid |-> cid, conditional |-> FALSE,
     executed |-> 0, remaining |-> 0, quote |-> 0, status |-> status, fills |-> {}]

\* Enter an order in the three maps.
Inserted(s, order) ==
    [s EXCEPT !.orders = (order.id :> order) @@ @,
              !.active = (order.user :> Append(ListOf(@, order.user), order.id)) @@ @,
              !.client = IF order.cid = NoClientId THEN @
                         ELSE (<<order.user, order.cid>> :> order.id) @@ @]

\* Evict the oldest if at capacity, then push.
PushCompleted(s, order) ==
    [s EXCEPT !.completed =
        Append(IF Len(@) >= MaxCompleted /\ @ # << >> THEN Tail(@) ELSE @, order)]

\* The lists searched are those of `user`, whom the caller names.
MoveToCompleted(s, id, user) ==
    IF id \notin DOMAIN s.orders THEN s
    ELSE LET order == s.orders[id]
             rest == SelectSeq(ListOf(s.active, user), LAMBDA other : other # id)
         IN  PushCompleted(
                [s EXCEPT !.orders = Without(@, {id}),
                          !.active = IF rest = << >> THEN Without(@, {user})
                                     ELSE [@ EXCEPT ![user] = rest],
                          !.client = IF order.cid = NoClientId THEN @
                                     ELSE Without(@, {<<user, order.cid>>})],
                order)

-----------------------------------------------------------------------------
(* Commands.                                                               *)

CreateOrder(s, command) ==
    IF command.id \in DOMAIN s.orders THEN s ELSE Inserted(s, OrderOf(command))

BatchCreateOrders(s, commands) == FoldLeft(CreateOrder, s, commands)

\* Finish a user's orders of a symbol, without a word to the engine.
CancelUserSymbolOrders(s, user, symbol) ==
    LET chosen == SelectSeq(ListOf(s.active, user),
                            LAMBDA id : id \in DOMAIN s.orders /\ s.orders[id].symbol = symbol)
    IN  FoldLeft(LAMBDA t, id :
                    MoveToCompleted(IF id \in DOMAIN t.orders
                                    THEN [t EXCEPT !.orders[id].status = "Canceled"] ELSE t,
                                    id, user),
                 s, chosen)

-----------------------------------------------------------------------------
(* Events.                                                                 *)

HandleOrderAccepted(s, e) ==
    IF e.id \notin DOMAIN s.orders
    THEN Inserted(s, MinimalOrder(e.id, e.user, e.symbol, e.cid, "New"))
    ELSE IF s.orders[e.id].status = "New" /\ s.orders[e.id].fills = {} /\ s.orders[e.id].conditional
         THEN [s EXCEPT !.orders[e.id].status = "PendingTrigger"]
         ELSE s

\* The user is the event's: of an order refused, or of a request refused.
HandleOrderRejected(s, e) ==
    IF e.id \in DOMAIN s.orders
    THEN MoveToCompleted([s EXCEPT !.orders[e.id].status = "Rejected"], e.id, e.user)
    ELSE IF \E i \in 1 .. Len(s.completed) : s.completed[i].id = e.id
         THEN s
         ELSE PushCompleted(s, MinimalOrder(e.id, e.user, "unknown", NoClientId, "Rejected"))

WithFill(order, e) ==
    [order EXCEPT !.fills = @ \cup {e.trade},
                  !.executed = @ + e.qty,
                  !.remaining = e.remaining,
                  !.quote = @ + e.price * e.qty,
                  !.status = IF e.remaining = 0 THEN "Filled" ELSE "PartiallyFilled"]

\* Mutant: a fill that comes again is counted again.
CountAgainMutant(s, e) ==
    IF e.id \notin DOMAIN s.orders THEN s
    ELSE LET filled == [s EXCEPT !.orders[e.id] = WithFill(@, e)]
         IN  IF e.remaining = 0 THEN MoveToCompleted(filled, e.id, s.orders[e.id].user) ELSE filled

HandleOrderFilled(s, e) ==
    IF e.id \notin DOMAIN s.orders THEN s
    ELSE IF e.trade \in s.orders[e.id].fills THEN s
    ELSE LET filled == [s EXCEPT !.orders[e.id] = WithFill(@, e)]
         IN  IF e.remaining = 0 THEN MoveToCompleted(filled, e.id, s.orders[e.id].user) ELSE filled

HandleOrderCanceled(s, e) ==
    IF e.id \notin DOMAIN s.orders THEN s
    ELSE MoveToCompleted([s EXCEPT !.orders[e.id].status = "Canceled"], e.id, s.orders[e.id].user)

ApplyEvent(s, e) ==
    CASE e.type = "OrderAccepted" -> HandleOrderAccepted(s, e)
      [] e.type = "OrderRejected" -> HandleOrderRejected(s, e)
      [] e.type = "OrderFilled"   -> HandleOrderFilled(s, e)
      [] e.type = "OrderCanceled" -> HandleOrderCanceled(s, e)
      [] OTHER                    -> s

-----------------------------------------------------------------------------
(* Snapshots and lookups.                                                  *)

TakeSnapshot(s) ==
    [orders |-> {s.orders[id] : id \in DOMAIN s.orders}, completed |-> s.completed]

\* The maps are rebuilt in the order of a hash map's values; one order stands
\* for all, since client ids are unique and lists are read as sets.
RestoreFromSnapshot(snapshot) ==
    FoldLeft(Inserted, [NewService EXCEPT !.completed = snapshot.completed],
             SetToSeq(snapshot.orders))

GetUserActiveOrders(s, user) ==
    {s.orders[id] : id \in {i \in ToSet(ListOf(s.active, user)) : i \in DOMAIN s.orders}}

GetOrderByClientId(s, user, cid) ==
    IF <<user, cid>> \in DOMAIN s.client /\ s.client[<<user, cid>>] \in DOMAIN s.orders
    THEN {s.orders[s.client[<<user, cid>>]]} ELSE {}
=============================================================================
