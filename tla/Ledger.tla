------------------------------- MODULE Ledger -------------------------------
(***************************************************************************)
(* exg-ledger/src/operations.rs: the double-entry ledger, as operators on  *)
(* a ledger record.  Money lies in places: a user's are a wallet and one   *)
(* of its three fields, SYSTEM's a wallet.  Every operation carries an     *)
(* idempotency key and does nothing when the key has been used.            *)
(*                                                                         *)
(* An operation returns the ledger it leaves and an error, "none" if it    *)
(* succeeds.                                                               *)
(***************************************************************************)
EXTENDS Integers, Sequences, FiniteSetsExt, Functions, TLC

SYSTEM == "SYSTEM"

UserWallets == {"Spot", "Futures", "Funding"}
Fields == {"available", "frozen", "margin"}
NonNegativeSystemWallets == {"InsuranceFund", "FeeCollection", "Escrow"}
SystemWallets == NonNegativeSystemWallets \cup {"Funding"}

NewLedger ==
    [accounts |-> << >>,                    \* per user, wallet and field
     system   |-> [w \in SystemWallets |-> 0],
     journal  |-> << >>,
     keys     |-> {}]

EmptyAccount == [w \in UserWallets |-> [f \in Fields |-> 0]]

\* A map with one entry more, or another one.
With(f, key, value) ==
    [k \in DOMAIN f \cup {key} |-> IF k = key THEN value ELSE f[k]]

GetOrCreateAccount(l, user) ==
    IF user \in DOMAIN l.accounts THEN l
    ELSE [l EXCEPT !.accounts = With(@, user, EmptyAccount)]

Place(owner, wallet, field) == [owner |-> owner, wallet |-> wallet, field |-> field]
OfSystem(wallet) == Place(SYSTEM, wallet, "available")

Balance(l, place) ==
    CASE place.owner = SYSTEM -> l.system[place.wallet]
      [] place.owner \in DOMAIN l.accounts ->
            l.accounts[place.owner][place.wallet][place.field]
      [] OTHER -> 0

Available(l, user) == Balance(l, Place(user, "Funding", "available"))

Credit(l, place, amount) ==
    IF place.owner = SYSTEM THEN [l EXCEPT !.system[place.wallet] = @ + amount]
    ELSE [l EXCEPT !.accounts[place.owner][place.wallet][place.field] = @ + amount]

JournalEntry(debit, credit, amount, type, key) ==
    [debit |-> debit, credit |-> credit, amount |-> amount, type |-> type, key |-> key]

\* An entry about nothing is not written.
Noted(l, from, to, amount, type, key) ==
    IF amount <= 0 THEN l
    ELSE [l EXCEPT !.journal = Append(@, JournalEntry(from, to, amount, type, key))]

\* Double entry: what one place gains the other loses, and the journal says so.
Transferred(l, from, to, amount, type, key) ==
    Noted(Credit(Credit(l, from, -amount), to, amount), from, to, amount, type, key)

-----------------------------------------------------------------------------
(* The frame all operations share.                                         *)

Succeeded(l) == [ledger |-> l, error |-> "none"]
Refused(l, error) == [ledger |-> l, error |-> error]

\* Mutant: a key is not looked up, so a repeated call moves money again.
AlwaysNewMutant(l, key) == FALSE
Used(l, key) == key \in l.keys

\* A used key is a success that does nothing.  The key stays used when there
\* is no such account, and is taken back when there is too little money.
Once(l, key, user, enough, done) ==
    IF Used(l, key) THEN Succeeded(l)
    ELSE IF user \notin DOMAIN l.accounts
    THEN Refused([l EXCEPT !.keys = @ \cup {key}], "AccountNotFound")
    ELSE IF ~enough THEN Refused(l, "InsufficientBalance")
    ELSE Succeeded([done EXCEPT !.keys = @ \cup {key}])

Checked(l, valid, result) == IF valid THEN result ELSE Refused(l, "InvalidQuantity")

MoveOnce(l, user, from, to, amount, type, key) ==
    Checked(l, amount > 0,
            Once(l, key, user, Balance(l, from) >= amount,
                 Transferred(l, from, to, amount, type, key)))

-----------------------------------------------------------------------------
(* Money of one user.                                                      *)

\* The money comes from outside: SYSTEM's wallet is named in the journal but
\* its balance does not change.  The caller has checked that amount > 0.
Deposit(l, user, amount, key) ==
    LET at == Place(user, "Funding", "available")
    IN  IF Used(l, key) THEN l
        ELSE [Noted(Credit(GetOrCreateAccount(l, user), at, amount),
                    OfSystem("Funding"), at, amount, "Deposit", key)
                EXCEPT !.keys = @ \cup {key}]

Withdraw(l, user, amount, key) ==
    LET at == Place(user, "Funding", "available")
    IN  Checked(l, amount > 0,
                Once(l, key, user, Balance(l, at) >= amount,
                     Noted(Credit(l, at, -amount),
                           at, OfSystem("Funding"), amount, "Withdrawal", key)))

Transfer(l, user, from, to, amount, key) ==
    MoveOnce(l, user, Place(user, from, "available"), Place(user, to, "available"),
             amount, "Transfer", key)

FreezeForOrder(l, user, wallet, amount, key) ==
    MoveOnce(l, user, Place(user, wallet, "available"), Place(user, wallet, "frozen"),
             amount, "OrderFreeze", key)

UnfreezeOrder(l, user, wallet, amount, key) ==
    MoveOnce(l, user, Place(user, wallet, "frozen"), Place(user, wallet, "available"),
             amount, "OrderUnfreeze", key)

-----------------------------------------------------------------------------
(* Positions, all in the Futures wallet.                                   *)

Futures(user, field) == Place(user, "Futures", field)

MarginBack(l, user, released, key) ==
    Transferred(l, Futures(user, "margin"), Futures(user, "available"), released,
                "PositionClose", key)
\* Mutant: the fee is taken and not noted.
UnnotedFeeMutant(l, user, field, fee, key) ==
    Credit(Credit(l, Futures(user, field), -fee), OfSystem("FeeCollection"), fee)
FeePaid(l, user, field, fee, key) ==
    Transferred(l, Futures(user, field), OfSystem("FeeCollection"), fee, "TradeFee", key \o <<"fee">>)

\* Frozen money becomes margin, and pays the fee.
OpenPosition(l, user, margin, fee, key) ==
    LET frozen == Futures(user, "frozen")
    IN  Checked(l, margin > 0 /\ fee >= 0,
                Once(l, key, user, Balance(l, frozen) >= margin + fee,
                     FeePaid(Transferred(l, frozen, Futures(user, "margin"), margin,
                                         "PositionOpen", key),
                             user, "frozen", fee, key)))

\* A profit comes from the other place, a loss goes there.
PnlBetween(l, user, other, pnl, key) ==
    CASE pnl = 0 -> l
      [] pnl > 0 -> Transferred(l, other, Futures(user, "available"), pnl,
                                "PositionClose", key \o <<"pnl">>)
      [] OTHER -> Transferred(l, Futures(user, "available"), other, -pnl,
                              "PositionClose", key \o <<"pnl">>)

\* The counterparty's margin is the other side of the profit or loss.
ClosePosition(l, user, released, pnl, fee, counterparty, key) ==
    LET other == Futures(counterparty, "margin")
        enough == Balance(l, Futures(user, "margin")) >= released
        known == IF pnl < 0 THEN GetOrCreateAccount(l, counterparty) ELSE l
        done == FeePaid(PnlBetween(MarginBack(known, user, released, key), user, other, pnl, key),
                        user, "available", fee, key)
    IN  Checked(l, released > 0 /\ fee >= 0,
            IF ~Used(l, key) /\ user \in DOMAIN l.accounts /\ enough /\ pnl > 0
            THEN Once(l, key, counterparty, Balance(l, other) >= pnl, done)
            ELSE Once(l, key, user, enough, done))

\* Mutant: the journal records the loss, the balance does not.
LossOnPaperMutant(l, user, pnl, key) ==
    IF pnl > 0 THEN Noted(Credit(l, Futures(user, "available"), pnl), OfSystem("Escrow"),
                          Futures(user, "available"), pnl, "PositionClose", key \o <<"pnl">>)
    ELSE Noted(l, Futures(user, "available"), OfSystem("Escrow"), -pnl,
               "PositionClose", key \o <<"pnl">>)
\* The journal names the escrow, whose balance does not change; a loss may
\* leave the user with less than nothing.
PnlAgainstEscrow(l, user, pnl, key) ==
    LET at == Futures(user, "available")
        settled == Credit(l, at, pnl)
    IN  IF pnl > 0
        THEN Noted(settled, OfSystem("Escrow"), at, pnl, "PositionClose", key \o <<"pnl">>)
        ELSE Noted(settled, at, OfSystem("Escrow"), -pnl, "PositionClose", key \o <<"pnl">>)

ClosePositionSettled(l, user, released, pnl, fee, key) ==
    Checked(l, released > 0 /\ fee >= 0,
            Once(l, key, user, Balance(l, Futures(user, "margin")) >= released,
                 FeePaid(PnlAgainstEscrow(MarginBack(l, user, released, key), user, pnl, key),
                         user, "available", fee, key)))

\* The margin goes to the escrow; what is left of it after the loss goes on
\* to the insurance fund, which pays what is missing.  A surplus beyond what
\* the escrow holds fails an expect.
Liquidate(l, user, seized, surplus, key) ==
    LET escrow == OfSystem("Escrow")
        fund == OfSystem("InsuranceFund")
        taken == Transferred(l, Futures(user, "margin"), escrow, seized, "Liquidation", key)
        done == IF surplus > 0
                THEN Transferred(taken, escrow, fund, surplus,
                                 "InsuranceFundContribution", key \o <<"surplus">>)
                ELSE Transferred(taken, fund, escrow, -surplus,
                                 "Liquidation", key \o <<"deficit">>)
        outcome == Once(l, key, user, Balance(l, Futures(user, "margin")) >= seized, done)
        runs == outcome.error = "none" /\ ~Used(l, key)
    IN  Checked(l, seized > 0,
            IF runs /\ Balance(l, fund) < -surplus THEN Refused(l, "InsuranceFundDepleted")
            ELSE IF runs /\ Balance(taken, escrow) < surplus THEN Refused(l, "Panic")
            ELSE outcome)

-----------------------------------------------------------------------------
(* Funding.                                                                *)

\* The pool is SYSTEM's Funding wallet; the journal names its Futures wallet.
PoolAccount == OfSystem("Futures")

\* settle_funding.  A payment is taken from the available money first, then from the margin.
PayFunding(l, user, payment, key) ==
    LET available == Futures(user, "available")
        margin == Futures(user, "margin")
        fromAvailable == Min({payment, Balance(l, available)})
        fromMargin == payment - fromAvailable
        pooled == Credit(l, OfSystem("Funding"), payment)
        paid == Noted(Credit(Credit(pooled, available, -fromAvailable), margin, -fromMargin),
                      available, PoolAccount, fromAvailable, "FundingPayment", key)
    IN  CASE payment = 0 -> Succeeded(l)
          [] payment > 0 ->
                Once(l, key, user, fromMargin <= 0 \/ Balance(l, margin) >= fromMargin,
                     Noted(paid, margin, PoolAccount, fromMargin,
                           "FundingPayment", key \o <<"margin">>))
          [] OTHER ->
                Once(l, key, user, TRUE,
                     Noted(Credit(pooled, available, -payment),
                           PoolAccount, available, -payment, "FundingPayment", key))

\* Mutant: SYSTEM's pool moves with the user instead of against it.
SameSignMutant(pool, moved) == pool + moved
\* Double entry: what the user receives the pool pays.
PoolAfter(pool, moved) == pool - moved

\* Mutant: the journal names what was owed, not what was moved.
JournalOwedMutant(l, user, signed, moved, key) ==
    IF signed > 0
    THEN Noted(l, OfSystem("Funding"), Place(user, "Funding", "available"), signed,
               "FundingPayment", key)
    ELSE Noted(l, Place(user, "Funding", "available"), OfSystem("Funding"), -signed,
               "FundingPayment", key)
\* Nothing is noted when nothing moved.
SettlementNoted(l, user, signed, moved, key) ==
    IF moved > 0
    THEN Noted(l, OfSystem("Funding"), Place(user, "Funding", "available"), moved,
               "FundingPayment", key)
    ELSE Noted(l, Place(user, "Funding", "available"), OfSystem("Funding"), -moved,
               "FundingPayment", key)

\* settle_realized_pnl_capped: the user receives signed, or pays what it can
\* of -signed; SYSTEM's Funding pool is the other side and may go negative.
\* The key is used up even when nothing moves.
SettleCapped(l, user, signed, key) ==
    LET moved == IF signed > 0 THEN signed ELSE -Min({-signed, Available(l, user)})
        paid == Credit(l, Place(user, "Funding", "available"), moved)
    IN  IF signed = 0 \/ Used(l, key) THEN [ledger |-> l, moved |-> 0]
        ELSE [moved  |-> moved,
              ledger |-> [SettlementNoted(paid, user, signed, moved, key) EXCEPT
                            !.keys = @ \cup {key},
                            !.system["Funding"] = PoolAfter(@, moved)]]

-----------------------------------------------------------------------------
(* exg-ledger/src/invariant.rs.                                            *)

Total(f) == SumFunctionOnSet(f, DOMAIN f)

Amounts(journal) == [i \in DOMAIN journal |-> journal[i].amount]

OfType(journal, type) == {i \in DOMAIN journal : journal[i].type = type}
NetExternal(l) ==
    SumFunctionOnSet(Amounts(l.journal), OfType(l.journal, "Deposit"))
        - SumFunctionOnSet(Amounts(l.journal), OfType(l.journal, "Withdrawal"))

Places(l) == {Place(u, w, f) : u \in DOMAIN l.accounts, w \in UserWallets, f \in Fields}
UsersTotal(l) == Total([p \in Places(l) |-> Balance(l, p)])

VerifyAllInvariants(l) ==
    /\ \A p \in Places(l) : Balance(l, p) >= 0
    /\ \A w \in NonNegativeSystemWallets : l.system[w] >= 0
    /\ UsersTotal(l) + Total(l.system) = NetExternal(l)
=============================================================================
