------------------------------- MODULE Wallet -------------------------------
(***************************************************************************)
(* exg-wallet-service: deposit addresses, deposits from detection to the   *)
(* credit in the ledger, withdrawals from request to confirmation.  All of *)
(* it is kept in memory and called from outside.                           *)
(*                                                                         *)
(* The callers are external: a scanner that reports what it sees on chain, *)
(* again and again and in any order; crediting workers that take a deposit *)
(* from confirmed_uncredited, update the ledger and then mark it; people   *)
(* who review; one worker that broadcasts.                                 *)
(***************************************************************************)
EXTENDS Ledger, SequencesExt

CONSTANTS
    UserNumber,         \* the number of each user
    Strangers,          \* how many other users may take an address at a time
    RequiredConfirmations,  \* per chain
    Transfers,          \* what happens on chain: [chain, tx, log, user, amount]
    ConfirmationCounts, \* the counts a scanner reports
    Requests,           \* withdrawals users ask for: [user, amount]
    AutoApproveThreshold,
    Workers,            \* crediting workers
    MaxWithdrawals,     \* bound: withdrawals submitted
    MaxIndex,           \* bound: addresses handed out on a chain
    MaxReports          \* bound: changes of a confirmation count

Chains == DOMAIN RequiredConfirmations
Users == DOMAIN UserNumber

ASSUME WalletAssumption ==
    /\ \A u \in Users : UserNumber[u] \in Nat
    /\ \A c \in Chains : RequiredConfirmations[c] \in Nat \ {0}
    /\ \A t \in Transfers : t.chain \in Chains /\ t.user \in Users /\ t.amount \in Nat \ {0}
    /\ \A r \in Requests : r.user \in Users /\ r.amount \in Nat \ {0}
    /\ AutoApproveThreshold \in Nat

VARIABLES
    addresses,      \* per user and chain: address and derivation index
    lookup,         \* per address: user and chain
    nextIndex,      \* per chain
    deposits,       \* per idempotency key
    ledger,
    worker,         \* per busy crediting worker: what it has read and not yet marked
    withdrawals,    \* by id
    reports,
    evidence        \* history: deposits once seen with enough confirmations,
                    \* and those that were Confirmed when reorged

wallet == <<addresses, lookup, nextIndex>>
walletVars == <<wallet, deposits, ledger, worker, withdrawals, reports, evidence>>

WalletInit ==
    /\ addresses = << >> /\ lookup = << >>
    /\ nextIndex = [c \in Chains |-> 0]
    /\ deposits = << >>
    /\ ledger = NewLedger
    /\ worker = << >>
    /\ withdrawals = << >>
    /\ reports = 0
    /\ evidence = [confirmed |-> {}, unmarked |-> {}]

-----------------------------------------------------------------------------
(* Addresses.                                                              *)

Digits[n \in Nat] == IF n < 10 THEN <<n>> ELSE Append(Digits[n \div 10], n % 10)

\* Name, user and index run together without a separator: user 1 with index
\* 11 has the address of user 11 with index 1.
AddressOf(chain, user, index) == <<chain>> \o Digits[UserNumber[user]] \o Digits[index]

GetOrCreateAddress(user, chain) ==
    LET address == AddressOf(chain, user, nextIndex[chain])
    IN  /\ nextIndex[chain] < MaxIndex
        /\ <<user, chain>> \notin DOMAIN addresses
        /\ addresses' = With(addresses, <<user, chain>>,
                             [address |-> address, index |-> nextIndex[chain]])
        /\ lookup' = With(lookup, address, [user |-> user, chain |-> chain])
        /\ nextIndex' = [nextIndex EXCEPT ![chain] = @ + 1]
        /\ UNCHANGED <<deposits, ledger, worker, withdrawals, reports, evidence>>

\* Others, whom nothing else here is about, get theirs.
StrangersJoin(chain) ==
    /\ nextIndex[chain] + Strangers < MaxIndex
    /\ nextIndex' = [nextIndex EXCEPT ![chain] = @ + Strangers]
    /\ UNCHANGED <<addresses, lookup, deposits, ledger, worker, withdrawals, reports, evidence>>

-----------------------------------------------------------------------------
(* Deposits.                                                               *)

KeyOf(t) == <<t.chain, t.tx, t.log>>

\* A transfer to a user's address, found by the address it went to.
RecordDeposit(t) ==
    /\ <<t.user, t.chain>> \in DOMAIN addresses
    /\ KeyOf(t) \notin DOMAIN deposits
    /\ LET address == addresses[<<t.user, t.chain>>].address
       IN  deposits' = With(deposits, KeyOf(t),
                            [user |-> lookup[address].user, to |-> address,
                             amount |-> t.amount, confirmations |-> 0, status |-> "Pending"])
    /\ UNCHANGED <<wallet, ledger, worker, withdrawals, reports, evidence>>

Enough(key, count) == count >= RequiredConfirmations[key[1]]

\* Counts may fall as well as rise; only a Pending deposit changes its status.
UpdateConfirmations(key, count) ==
    /\ reports < MaxReports
    /\ deposits[key].confirmations # count
    /\ reports' = reports + 1
    /\ deposits' = [deposits EXCEPT
                      ![key].confirmations = count,
                      ![key].status = IF @ = "Pending" /\ Enough(key, count)
                                      THEN "Confirmed" ELSE @]
    /\ evidence' = [evidence EXCEPT !.confirmed = IF Enough(key, count) THEN @ \cup {key} ELSE @]
    /\ UNCHANGED <<wallet, ledger, worker, withdrawals>>

\* Mutant: a deposit is reorged whatever became of it.
ReorgAnythingMutant(status) == TRUE
Reorgable(status) == status \in {"Pending", "Confirmed"}

MarkReorged(key) ==
    /\ Reorgable(deposits[key].status)
    /\ deposits' = [deposits EXCEPT ![key].status = "Reorged"]
    /\ evidence' = [evidence EXCEPT !.unmarked = IF deposits[key].status = "Confirmed"
                                                 THEN @ \cup {key} ELSE @]
    /\ UNCHANGED <<wallet, ledger, worker, withdrawals, reports>>

\* A worker takes one of confirmed_uncredited; another may have taken it too.
TakeConfirmed(w, key) ==
    /\ w \notin DOMAIN worker
    /\ deposits[key].status = "Confirmed"
    /\ worker' = With(worker, w, [key |-> key, user |-> deposits[key].user,
                                  amount |-> deposits[key].amount, paid |-> FALSE])
    /\ UNCHANGED <<wallet, deposits, ledger, withdrawals, reports, evidence>>

UpdateLedger(w) ==
    /\ ~worker[w].paid
    /\ ledger' = Deposit(ledger, worker[w].user, worker[w].amount, worker[w].key)
    /\ worker' = [worker EXCEPT ![w].paid = TRUE]
    /\ UNCHANGED <<wallet, deposits, withdrawals, reports, evidence>>

\* mark_credited does nothing to a deposit that is no longer Confirmed.
MarkCredited(w) ==
    /\ worker[w].paid
    /\ deposits' = [deposits EXCEPT ![worker[w].key].status =
                      IF @ = "Confirmed" THEN "Credited" ELSE @]
    /\ worker' = Restrict(worker, DOMAIN worker \ {w})
    /\ UNCHANGED <<wallet, ledger, withdrawals, reports, evidence>>

\* The worker dies between any two of its steps.
WorkerDies(w) ==
    /\ worker' = Restrict(worker, DOMAIN worker \ {w})
    /\ UNCHANGED <<wallet, deposits, ledger, withdrawals, reports, evidence>>

-----------------------------------------------------------------------------
(* Withdrawals.                                                            *)

\* Mutant: the threshold itself needs no review.
LenientMutant(amount) == IF amount <= AutoApproveThreshold THEN "Approved" ELSE "PendingReview"
FirstStatus(amount) == IF amount < AutoApproveThreshold THEN "Approved" ELSE "PendingReview"

Submit(r) ==
    /\ Len(withdrawals) < MaxWithdrawals
    /\ withdrawals' = Append(withdrawals, [user |-> r.user, amount |-> r.amount,
                                           status |-> FirstStatus(r.amount),
                                           reviewed |-> FALSE, sent |-> 0])
    /\ UNCHANGED <<wallet, deposits, ledger, worker, reports, evidence>>

Transition(id, from, to) ==
    /\ withdrawals[id].status = from
    /\ withdrawals' = [withdrawals EXCEPT ![id].status = to,
                         ![id].reviewed = @ \/ from = "PendingReview",
                         ![id].sent = IF to = "Processing" THEN @ + 1 ELSE @]
    /\ UNCHANGED <<wallet, deposits, ledger, worker, reports, evidence>>

Approve(id) == Transition(id, "PendingReview", "Approved")
Reject(id) == Transition(id, "PendingReview", "Rejected")
MarkProcessing(id) == Transition(id, "Approved", "Processing")
MarkCompleted(id) == Transition(id, "Processing", "Completed")
MarkFailed(id) == Transition(id, "Processing", "Failed")

WalletNext ==
    \/ \E u \in Users, c \in Chains : GetOrCreateAddress(u, c)
    \/ \E c \in Chains : StrangersJoin(c)
    \/ \E t \in Transfers : RecordDeposit(t)
    \/ \E k \in DOMAIN deposits, n \in ConfirmationCounts : UpdateConfirmations(k, n)
    \/ \E k \in DOMAIN deposits : MarkReorged(k)
    \/ \E w \in Workers, k \in DOMAIN deposits : TakeConfirmed(w, k)
    \/ \E w \in DOMAIN worker : UpdateLedger(w) \/ MarkCredited(w) \/ WorkerDies(w)
    \/ \E r \in Requests : Submit(r)
    \/ \E id \in DOMAIN withdrawals :
          \/ Approve(id) \/ Reject(id)
          \/ MarkProcessing(id) \/ MarkCompleted(id) \/ MarkFailed(id)

WalletSpec == WalletInit /\ [][WalletNext]_walletVars

-----------------------------------------------------------------------------
(* Properties.                                                             *)

PaidFor(key) == {i \in DOMAIN ledger.journal : ledger.journal[i].key = key}
Holders(address) == {o \in DOMAIN addresses : addresses[o].address = address}

\* A deposit is paid at most once, with two workers on it and one of them
\* dying; only after it once had its confirmations; to a user who holds the
\* address it was sent to.  One marked Credited was paid, one still Pending
\* was not, and one reorged was paid only between its confirmation and its
\* mark: from Credited there is no way back.
DepositsPaidOnce ==
    \A key \in DOMAIN deposits :
        LET d == deposits[key]
            paid == PaidFor(key)
        IN  /\ \A i, j \in paid : i = j
            /\ \A i \in paid :
                  /\ ledger.journal[i].amount = d.amount
                  /\ key \in evidence.confirmed
                  /\ \E o \in Holders(d.to) : o[1] = ledger.journal[i].credit.owner
            /\ d.status = "Credited" => paid # {}
            /\ d.status = "Pending" => paid = {}
            /\ d.status = "Reorged" /\ paid # {} => key \in evidence.unmarked

\* Nothing of the threshold or above leaves without a review, nothing is
\* sent twice, and what ended stays ended.
WithdrawalsReviewed ==
    [][\A id \in DOMAIN withdrawals :
          LET w == withdrawals'[id]
          IN  /\ w.sent > 0 /\ w.amount >= AutoApproveThreshold => w.reviewed
              /\ w.sent <= 1
              /\ withdrawals[id].status \in {"Completed", "Rejected", "Failed"}
                    => w = withdrawals[id]]_walletVars
=============================================================================
