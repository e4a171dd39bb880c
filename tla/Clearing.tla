------------------------------ MODULE Clearing ------------------------------
(***************************************************************************)
(* exg-clearing/src/clearing.rs and position.rs with margins, over the     *)
(* ledger and the risk monitor: trades, funding, liquidation and           *)
(* auto-deleveraging.  Every call makes several changes, any of which may  *)
(* be refused; what was done before stays done.                            *)
(*                                                                         *)
(* No service calls this yet.  The caller here is the one its interface is *)
(* made for: it funds accounts, freezes money for orders, hands in each    *)
(* trade under its number and may hand it in again, settles funding period *)
(* by period, and turns scans into liquidations and those the insurance    *)
(* fund cannot pay for into auto-deleveraging.  There is one symbol.       *)
(***************************************************************************)
EXTENDS Ledger, Risk

CONSTANTS
    Traders,
    TradeTerms,     \* [buyer, seller, qty, price, fee, leverage]
    Opening,        \* the trades of the past: a sequence of terms
    Prices,         \* mark prices and the prices liquidations get
    Rates,          \* funding rates
    Pairs,          \* settlements between two users: [user, counterparty, pnl]
    Purse,          \* what each user brings
    MaxCalls        \* bound: calls to the service

\* What the callers hand in: sizes, prices and leverages are positive.
Terms ==
    [buyer : Traders, seller : Traders, qty : Nat \ {0}, price : Nat \ {0}, fee : Nat,
     leverage : Nat \ {0}]

ASSUME ClearingAssumption ==
    /\ IsFiniteSet(Traders) /\ SYSTEM \notin Traders
    /\ Purse \in Nat \ {0}
    /\ \A p \in Pairs : p.user \in Traders /\ p.counterparty \in Traders /\ p.pnl \in Int
    /\ \A t \in TradeTerms : t \in Terms
    /\ Opening \in Seq(Terms)
    /\ \A p \in Prices : p \in Nat \ {0}
    /\ \A r \in Rates : r \in Int

VARIABLES
    service,    \* ClearingService: positions per user, ledger
    mark,       \* the mark price
    trades,     \* the trades handed in so far
    period,     \* the last funding period settled
    requests,   \* users the last scan wants liquidated
    shortfall,  \* what the insurance fund could not pay: [user, side, deficit]
    astray,     \* history: users of whom the ledger refused or skipped a step
    calls,
    halted      \* a failed expect ended the process

clearingVars == <<service, mark, trades, period, requests, shortfall, astray, calls, halted>>

\* Money frozen for orders and some left, as the operations leave it.
Funded(l, u) ==
    LET deposited == Deposit(l, u, 2 * Purse + 1, <<"deposit", u>>)
        moved == Transfer(deposited, u, "Funding", "Futures", 2 * Purse, <<"transfer", u>>).ledger
    IN  FreezeForOrder(moved, u, "Futures", Purse, <<"freeze", u>>).ledger

-----------------------------------------------------------------------------
(* Positions.                                                              *)

OpenOrIncrease(positions, user, side, qty, price, leverage) ==
    LET old == IF user \in DOMAIN positions THEN positions[user]
               ELSE [size |-> 0, entry |-> 0, margin |-> 0]
        size == old.size + qty
    IN  With(positions, user,
             [side   |-> side,
              size   |-> size,
              entry  |-> (old.size * old.entry + qty * price) \div size,
              margin |-> old.margin + (qty * price) \div leverage])

MarginReleased(position, qty) == (position.margin * qty) \div position.size

ReduceOrClose(positions, user, qty) ==
    IF qty = positions[user].size THEN Restrict(positions, DOMAIN positions \ {user})
    ELSE [positions EXCEPT ![user].size = @ - qty,
                           ![user].margin = @ - MarginReleased(positions[user], qty)]

ForceClose(positions, user) == Restrict(positions, DOMAIN positions \ {user})

-----------------------------------------------------------------------------
(* A call in progress: the service, the first error, and who went astray.  *)

Begun == [positions |-> service.positions, ledger |-> service.ledger,
          error |-> "none", astray |-> astray]

\* The rest of a call is not run after an error.
Continue(s, next) == IF s.error = "none" THEN next ELSE s

\* Positions and ledger part when a key was used before, or when the ledger
\* refuses a step whose position has moved.
Settled(s, positions, outcome, user, skipped) ==
    [positions |-> positions, ledger |-> outcome.ledger, error |-> outcome.error,
     astray |-> IF skipped \/ (outcome.error # "none" /\ positions # s.positions)
                THEN s.astray \cup {user} ELSE s.astray]

\* The position first, then the ledger.
CloseStep(s, user, qty, price, fee, key) ==
    LET position == s.positions[user]
    IN  Settled(s, ReduceOrClose(s.positions, user, qty),
                ClosePositionSettled(s.ledger, user, MarginReleased(position, qty),
                                     Pnl(position, qty, price), fee, key),
                user, Used(s.ledger, key))

\* The ledger first, then the position.
OpenStep(s, user, side, qty, price, fee, leverage, key) ==
    LET outcome == OpenPosition(s.ledger, user, (qty * price) \div leverage, fee, key)
    IN  Settled(s, IF outcome.error # "none" THEN s.positions
                   ELSE OpenOrIncrease(s.positions, user, side, qty, price, leverage),
                outcome, user, Used(s.ledger, key))

\* What is opposite to the position closes, the rest opens; the fee is shared.
ProcessSide(s, user, side, t, key) ==
    LET opposite == user \in DOMAIN s.positions /\ s.positions[user].side = Opposite(side)
        closeQty == IF opposite THEN Min({t.qty, s.positions[user].size}) ELSE 0
        openQty == t.qty - closeQty
        closed == IF closeQty = 0 THEN s
                  ELSE CloseStep(s, user, closeQty, t.price, (t.fee * closeQty) \div t.qty,
                                 key \o <<"close">>)
    IN  Continue(closed,
                 IF openQty = 0 THEN closed
                 ELSE OpenStep(closed, user, side, openQty, t.price, (t.fee * openQty) \div t.qty,
                               t.leverage, key \o <<"open">>))

\* The buyer's side, then the seller's: an error in between leaves half a trade.
TradeProcessed(s, t, number) ==
    LET bought == ProcessSide(s, t.buyer, "Long", t, <<"trade", number, "buyer">>)
    IN  Continue(bought,
                 ProcessSide(bought, t.seller, "Short", t, <<"trade", number, "seller">>))

\* Mutant: the position's margin is not brought down to the wallet's.
UnadjustedMutant(position, payment, walletMargin) == position
AfterFunding(position, payment, walletMargin) ==
    IF payment > 0 /\ walletMargin < position.margin
    THEN [position EXCEPT !.margin = walletMargin] ELSE position

\* due: a user, and the rate, the number and the mark price of the period.
FundingOf(s, due) ==
    LET user == due.user
        payment == FundingFee(s.positions[user], due.mark, due.rate)
        outcome == PayFunding(s.ledger, user, payment, <<"funding", due.number, user>>)
        left == Balance(outcome.ledger, Futures(user, "margin"))
    IN  IF s.error # "none" \/ payment = 0 THEN s
        ELSE [s EXCEPT !.ledger = outcome.ledger,
                       !.error = outcome.error,
                       !.positions[user] = IF outcome.error # "none" THEN @
                                           ELSE AfterFunding(@, payment, left)]

\* One reduction of auto-deleveraging, at the mark price and without a fee.
\* adl: the call so far, what is still to be covered, and what does not change.
DeleverageOne(adl, user) ==
    LET s == adl.call
        qty == Min({adl.remaining \div adl.mark, s.positions[user].size})
        reduced == CloseStep(s, user, qty, adl.mark, 0,
                             <<"adl", adl.bankrupt, user, adl.number>>)
    IN  IF s.error # "none" \/ adl.remaining <= 0 \/ qty = 0 THEN adl
        ELSE [adl EXCEPT !.call = reduced,
                         !.remaining = IF reduced.error = "none" THEN @ - qty * adl.mark ELSE @]

OpeningProcessed(s, number) == TradeProcessed(s, Opening[number], number)

\* Accounts funded and the past trades processed, all without an error.
Past ==
    LET funded == FoldLeft(Funded, NewLedger, SetToSeq(Traders))
    IN  FoldLeft(OpeningProcessed,
                 [positions |-> << >>, ledger |-> funded, error |-> "none", astray |-> {}],
                 [i \in 1 .. Len(Opening) |-> i])

ClearingInit ==
    /\ service = [positions |-> Past.positions, ledger |-> Past.ledger]
    /\ mark \in Prices
    /\ trades = Opening /\ period = 0
    /\ requests = {} /\ shortfall = {}
    /\ astray = Past.astray /\ calls = 0 /\ halted = (Past.error = "Panic")

-----------------------------------------------------------------------------
(* The calls.                                                              *)

Call ==
    /\ ~halted /\ calls < MaxCalls
    /\ calls' = calls + 1

Finish(s) ==
    /\ service' = [positions |-> s.positions, ledger |-> s.ledger]
    /\ astray' = s.astray
    /\ halted' = (s.error = "Panic")

\* Calls that concern the ledger alone.
LedgerCall(outcome) ==
    /\ Call
    /\ service' = [service EXCEPT !.ledger = outcome.ledger]
    /\ UNCHANGED <<mark, trades, period, requests, shortfall, astray, halted>>

Withdrawal(u) ==
    LedgerCall(Withdraw(service.ledger, u, 1, <<"withdraw", calls, u>>))
BackToFunding(u) ==
    LedgerCall(Transfer(service.ledger, u, "Futures", "Funding", 1, <<"back", calls, u>>))
CancelOrder(u) ==
    LedgerCall(UnfreezeOrder(service.ledger, u, "Futures", 1, <<"unfreeze", calls, u>>))

\* close_position, which settles between two users and touches no position.
ClosePair(p) ==
    /\ Call
    /\ service' = [service EXCEPT !.ledger =
                     ClosePosition(@, p.user, 1, p.pnl, 1, p.counterparty,
                                   <<"pair", calls, p.user>>).ledger]
    /\ astray' = astray \cup {p.user, p.counterparty}
    /\ UNCHANGED <<mark, trades, period, requests, shortfall, halted>>

ProcessTrade(t) ==
    /\ Call
    /\ trades' = Append(trades, t)
    /\ Finish(TradeProcessed(Begun, t, Len(trades) + 1))
    /\ UNCHANGED <<mark, period, requests, shortfall>>

\* The caller hands in the last trade once more.
RepeatTrade ==
    /\ Call
    /\ trades # << >>
    /\ Finish(TradeProcessed(Begun, Last(trades), Len(trades)))
    /\ UNCHANGED <<mark, trades, period, requests, shortfall>>

UpdateMark(price) ==
    /\ Call
    /\ mark' = price
    /\ UNCHANGED <<service, trades, period, requests, shortfall, astray, halted>>

\* A new period, or the last one once more after an error.
SettleFunding(rate, number) ==
    /\ Call
    /\ number \in {period, period + 1} \ {0}
    /\ period' = number
    /\ \E order \in SetToSeqs({[user |-> u, rate |-> rate, number |-> number, mark |-> mark] :
                                   u \in DOMAIN service.positions}) :
          Finish(FoldLeft(FundingOf, Begun, order))
    /\ UNCHANGED <<mark, trades, requests, shortfall>>

\* The balance handed to the monitor is the whole Futures wallet.
WalletBalance(u) == MapThenSumSet(LAMBDA f : Balance(service.ledger, Futures(u, f)), Fields)

Scan ==
    /\ Call
    /\ requests' = ScanPositions(service.positions, [u \in Traders |-> WalletBalance(u)],
                                 mark).liquidate
    /\ UNCHANGED <<service, mark, trades, period, shortfall, astray, halted>>

\* The position goes first.  The key has no number: it serves a user's first
\* liquidation only.
Liquidated(s, u, price) ==
    LET position == s.positions[u]
        key == <<"liq", u>>
    IN  Settled(s, ForceClose(s.positions, u),
                Liquidate(s.ledger, u, position.margin,
                          position.margin + Pnl(position, position.size, price), key),
                u, Used(s.ledger, key))

\* The market order of a request found its price; the position may have
\* changed since the scan, or be gone.
ProcessLiquidation(u, price) ==
    /\ Call
    /\ u \in requests
    /\ requests' = requests \ {u}
    /\ IF u \notin DOMAIN service.positions
       THEN UNCHANGED <<service, astray, halted, shortfall>>
       ELSE LET s == Liquidated(Begun, u, price)
                position == service.positions[u]
            IN  /\ Finish(s)
                /\ shortfall' = IF s.error # "InsuranceFundDepleted" THEN shortfall
                                ELSE {[user |-> u, side |-> position.side,
                                       deficit |-> -(position.margin
                                                     + Pnl(position, position.size, price))]}
    /\ UNCHANGED <<mark, trades, period>>

Counterparties(bankrupt, side) ==
    {u \in DOMAIN service.positions \ {bankrupt} : service.positions[u].side = Opposite(side)}

ExecuteAdl(d) ==
    /\ Call
    /\ d \in shortfall
    /\ shortfall' = {}
    /\ \E order \in AdlRankings(service.positions, Counterparties(d.user, d.side), mark) :
          Finish(FoldLeft(DeleverageOne,
                          [call |-> Begun, remaining |-> d.deficit, mark |-> mark,
                           bankrupt |-> d.user, number |-> calls],
                          order).call)
    /\ UNCHANGED <<mark, trades, period, requests>>

ClearingNext ==
    \/ \E u \in Traders : Withdrawal(u) \/ BackToFunding(u) \/ CancelOrder(u)
    \/ \E p \in Pairs : ClosePair(p)
    \/ \E t \in TradeTerms : ProcessTrade(t)
    \/ RepeatTrade
    \/ \E p \in Prices : UpdateMark(p)
    \/ \E r \in Rates, n \in 1 .. MaxCalls : SettleFunding(r, n)
    \/ Scan
    \/ \E u \in Traders, p \in Prices : ProcessLiquidation(u, p)
    \/ \E d \in shortfall : ExecuteAdl(d)

ClearingSpec == ClearingInit /\ [][ClearingNext]_clearingVars

-----------------------------------------------------------------------------
(* Properties.                                                             *)

\* What the entries numbered in S say a place has received.
BookedIn(journal, S, place) ==
    SumFunctionOnSet(Amounts(journal), {i \in S : journal[i].credit = place})
        - SumFunctionOnSet(Amounts(journal), {i \in S : journal[i].debit = place})
Booked(journal, place) == BookedIn(journal, DOMAIN journal, place)

\* The ledger's global invariant of docs/architecture.md, as far as it holds: a
\* profit or loss settled against the escrow is written to the journal and
\* never to the escrow's balance.  Apart from that no money appears or is lost,
\* whatever call is repeated or fails half-way, SYSTEM is never overdrawn, and
\* nobody has less than nothing frozen.
MoneyAccountedFor ==
    LET l == service.ledger
        settled == BookedIn(l.journal, OfType(l.journal, "PositionClose"), OfSystem("Escrow"))
    IN  /\ UsersTotal(l) + Total(l.system) = NetExternal(l) - settled
        /\ \A w \in NonNegativeSystemWallets : l.system[w] >= 0
        /\ \A p \in Places(l) : p.field = "frozen" => Balance(l, p) >= 0

\* Each key moves money once: a trade, a funding period or a liquidation that
\* is handed in again, or after it failed half-way, does not pay twice.
KeysBookedOnce ==
    \A i, j \in DOMAIN service.ledger.journal :
        i # j => service.ledger.journal[i].key # service.ledger.journal[j].key

\* Positions and wallets are two books that every call changes one after the
\* other.  They agree on the margin of every user of whom the ledger has not
\* refused or skipped a step whose position had moved.
MarginBacked ==
    \A u \in Traders \ astray :
        Balance(service.ledger, Futures(u, "margin"))
            = IF u \in DOMAIN service.positions THEN service.positions[u].margin ELSE 0

\* What the entries that m has more than l tell of users' balances.  (Except of
\* users already overdrawn who pay funding: their debt is quietly made up for
\* out of their margin.)
ChangesTold(l, m) ==
    LET new == SubSeq(m.journal, Len(l.journal) + 1, Len(m.journal))
        PaysOverdrawn(u) == /\ Balance(l, Futures(u, "available")) < 0
                            /\ \E i \in DOMAIN new : /\ new[i].type = "FundingPayment"
                                                    /\ new[i].debit.owner = u
    IN  \A p \in Places(l) :
           ~PaysOverdrawn(p.owner) => Balance(m, p) - Balance(l, p) = Booked(new, p)

\* The journal tells every change of every user's balance.
JournalTellsAll == [][ChangesTold(service.ledger, service'.ledger)]_clearingVars

\* The sizes of which the users of old are relieved in new.
Relieved(old, new) ==
    [u \in DOMAIN old |-> old[u].size - (IF u \in DOMAIN new THEN new[u].size ELSE 0)]

\* d is the deficit, old and new the positions, m the mark price and gone who
\* is astray afterwards.
TakenByRank(d, old, new, m, gone) ==
    LET taken == Relieved(old, new)
        hit == {u \in DOMAIN old : taken[u] # 0}
        targets == {u \in DOMAIN old \ {d.user} : old[u].side = Opposite(d.side) /\ old[u].margin # 0}
    IN  /\ hit \subseteq targets
        /\ \A u \in hit, v \in targets : HigherAdlScore(old[v], old[u], m) => v \notin DOMAIN new
        /\ hit \cap gone = {} => \/ SumFunctionOnSet(taken, DOMAIN old) * m > d.deficit - m
                                \/ targets \cap DOMAIN new = {}

\* Auto-deleveraging takes from the other side only, whoever ranks higher first
\* and wholly, even when it fails half-way.  If the ledger refuses none of the
\* reductions it stops only when the deficit is covered to less than one unit or
\* nobody is left.
AdlByRank ==
    [][\A d \in shortfall :
          shortfall' = {} =>
              TakenByRank(d, service.positions, service'.positions, mark, astray')]_clearingVars
=============================================================================
