------------------------- MODULE WalletClearingProofs -------------------------
(***************************************************************************)
(* The two services that write to the ledger, the wallet service and the   *)
(* clearing service, for every set of users and all that they are handed.  *)
(*                                                                         *)
(* The wallet: a deposit is paid once and rightly, a withdrawal leaves     *)
(* once and reviewed.  What a crediting worker has read may be out of      *)
(* date, but a deposit that was Confirmed once never goes back to Pending, *)
(* and the ledger's key is the deposit's, so that a second worker pays     *)
(* nothing.  WorkerInv says what a worker may still rely on, PaidInv what  *)
(* an entry of the journal says of its deposit.                            *)
(*                                                                         *)
(* Clearing: the books balance, no key moves money twice, positions and    *)
(* wallets agree on the margin, and the journal tells all.  A ledger is    *)
(* Tidy when its books balance and each entry has a key of its own, of the *)
(* families that keys already used make; every operation of the ledger     *)
(* leaves it so, and says which margins it moves.  A call in progress      *)
(* (CallOK) has Tidy books that back the positions of all who did not go   *)
(* astray in it, and folds over users or trades keep that.                 *)
(* Auto-deleveraging goes by rank: Ranked is what holds after any number   *)
(* of its turns.                                                           *)
(***************************************************************************)
EXTENDS Wallet, Clearing, LedgerProofs

-----------------------------------------------------------------------------
(* THE WALLET SERVICE.                                                     *)

Statuses == {"Pending", "Confirmed", "Credited", "Reorged"}

\* Who holds an address: the map from addresses back to users names one of
\* its holders, although it may have named another before.
AddressInv ==
    /\ \A o \in DOMAIN addresses : addresses[o].address \in DOMAIN lookup
    /\ \A a \in DOMAIN lookup :
          \E o \in DOMAIN addresses : addresses[o].address = a /\ o[1] = lookup[a].user

DepositTypes ==
    \A key \in DOMAIN deposits :
        /\ DOMAIN deposits[key] = {"user", "to", "amount", "confirmations", "status"}
        /\ deposits[key].amount \in Nat \ {0}
        /\ deposits[key].status \in Statuses

DepositInv ==
    /\ DepositTypes
    /\ \A key \in DOMAIN deposits :
          /\ \E o \in Holders(deposits[key].to) : o[1] = deposits[key].user
          /\ deposits[key].status \in {"Confirmed", "Credited"} => key \in evidence.confirmed
          /\ deposits[key].status = "Credited" => PaidFor(key) # {}

IsLedger(l) == DOMAIN l = {"accounts", "system", "journal", "keys"}
Positive(n) == n \in Nat \ {0}

KeysDistinct ==
    \A i, j \in DOMAIN ledger.journal : ledger.journal[i].key = ledger.journal[j].key => i = j

\* The ledger's keys are those of its entries, each of which has its own.
LedgerInv ==
    /\ IsLedger(ledger)
    /\ IsSeq(ledger.journal)
    /\ \A i \in DOMAIN ledger.journal : ledger.journal[i].key \in ledger.keys
    /\ \A key \in ledger.keys : PaidFor(key) # {}
    /\ KeysDistinct

\* Deposits that were Confirmed once: what is known of them for good.
Due(key) ==
    /\ key \in DOMAIN deposits
    /\ key \in evidence.confirmed
    /\ deposits[key].status # "Pending"
    /\ deposits[key].status = "Reorged" => key \in evidence.unmarked

WorkerInv ==
    \A w \in DOMAIN worker :
        /\ DOMAIN worker[w] = {"key", "user", "amount", "paid"}
        /\ Due(worker[w].key)
        /\ worker[w].user = deposits[worker[w].key].user
        /\ worker[w].amount = deposits[worker[w].key].amount
        /\ worker[w].paid => PaidFor(worker[w].key) # {}

PaidInv ==
    \A i \in DOMAIN ledger.journal :
        LET entry == ledger.journal[i]
        IN  /\ Due(entry.key)
            /\ entry.amount = deposits[entry.key].amount
            /\ entry.credit.owner = deposits[entry.key].user

EvidenceTypes == DOMAIN evidence = {"confirmed", "unmarked"}

PaymentInv ==
    AddressInv /\ DepositInv /\ LedgerInv /\ WorkerInv /\ PaidInv /\ EvidenceTypes

-----------------------------------------------------------------------------
\* The invariant says that no deposit is paid twice.
LEMMA PaymentInvEnough == PaymentInv => DepositsPaidOnce
<1> SUFFICES ASSUME PaymentInv, NEW key \in DOMAIN deposits
             PROVE  LET d == deposits[key]
                        paid == PaidFor(key)
                    IN  /\ \A i, j \in paid : i = j
                        /\ \A i \in paid :
                              /\ ledger.journal[i].amount = d.amount
                              /\ key \in evidence.confirmed
                              /\ \E o \in Holders(d.to) : o[1] = ledger.journal[i].credit.owner
                        /\ d.status = "Credited" => paid # {}
                        /\ d.status = "Pending" => paid = {}
                        /\ d.status = "Reorged" /\ paid # {} => key \in evidence.unmarked
  BY DEF DepositsPaidOnce
<1>1. \A i, j \in PaidFor(key) : i = j BY DEF PaymentInv, LedgerInv, KeysDistinct, PaidFor
<1>2. \A i \in PaidFor(key) :
         /\ Due(key)
         /\ ledger.journal[i].amount = deposits[key].amount
         /\ ledger.journal[i].credit.owner = deposits[key].user
  BY DEF PaymentInv, PaidInv, PaidFor
<1>3. \E o \in Holders(deposits[key].to) : o[1] = deposits[key].user
  BY DEF PaymentInv, DepositInv
<1>4. deposits[key].status = "Credited" => PaidFor(key) # {}
  BY DEF PaymentInv, DepositInv
<1> QED BY <1>1, <1>2, <1>3, <1>4 DEF Due

\* A service without deposits satisfies the invariant.
LEMMA InitPaymentInv == WalletInit => PaymentInv
<1> SUFFICES ASSUME WalletInit PROVE PaymentInv OBVIOUS
<1>1. DOMAIN addresses = {} /\ DOMAIN lookup = {} /\ DOMAIN deposits = {} /\ DOMAIN worker = {}
  BY DEF WalletInit
<1>2. ledger.journal = << >> /\ ledger.keys = {}
  BY DEF WalletInit, NewLedger
<1>3. LedgerInv
  <2>1. IsSeq(ledger.journal) BY <1>2 DEF IsSeq
  <2> QED BY <1>2, <2>1 DEF WalletInit, NewLedger, LedgerInv, KeysDistinct, IsLedger
<1> QED BY <1>1, <1>2, <1>3
  DEF WalletInit, PaymentInv, AddressInv, DepositInv, DepositTypes, WorkerInv, PaidInv, EvidenceTypes

-----------------------------------------------------------------------------
(* One lemma per operation.                                                *)

\* The variables PaymentInv speaks of.
paymentVars == <<addresses, lookup, deposits, ledger, worker, evidence>>

\* Handing out an address keeps the invariant (get_or_create_address).
LEMMA AddressKeeps ==
    ASSUME PaymentInv, NEW u \in Users, NEW c \in Chains, GetOrCreateAddress(u, c)
    PROVE  PaymentInv'
<1> DEFINE address == AddressOf(c, u, nextIndex[c])
<1>1. /\ addresses' = With(addresses, <<u, c>>, [address |-> address, index |-> nextIndex[c]])
      /\ lookup' = With(lookup, address, [user |-> u, chain |-> c])
      /\ <<u, c>> \notin DOMAIN addresses
      /\ UNCHANGED <<deposits, ledger, worker, evidence>>
  BY DEF GetOrCreateAddress
<1> HIDE DEF address
<1>2. /\ DOMAIN addresses' = DOMAIN addresses \cup {<<u, c>>}
      /\ addresses'[<<u, c>>].address = address
      /\ \A o \in DOMAIN addresses : addresses'[o] = addresses[o]
  BY <1>1 DEF With
<1>3. /\ DOMAIN lookup' = DOMAIN lookup \cup {address}
      /\ lookup'[address].user = u
      /\ \A a \in DOMAIN lookup : a # address => lookup'[a] = lookup[a]
  BY <1>1 DEF With
<1>4. AddressInv'
  <2>1. \A o \in DOMAIN addresses' : addresses'[o].address \in DOMAIN lookup'
    BY <1>2, <1>3 DEF PaymentInv, AddressInv
  <2>2. ASSUME NEW a \in DOMAIN lookup'
        PROVE  \E o \in DOMAIN addresses' : addresses'[o].address = a /\ o[1] = lookup'[a].user
    <3>1. CASE a = address
      <4>1. <<u, c>>[1] = u OBVIOUS
      <4> QED BY <1>2, <1>3, <3>1, <4>1
    <3>2. CASE a # address
      <4>1. PICK o \in DOMAIN addresses : addresses[o].address = a /\ o[1] = lookup[a].user
        BY <1>3, <3>2 DEF PaymentInv, AddressInv
      <4> QED BY <1>2, <1>3, <3>2, <4>1
    <3> QED BY <3>1, <3>2
  <2> QED BY <2>1, <2>2 DEF AddressInv
<1>5. \A a : Holders(a) \subseteq Holders(a)' BY <1>2 DEF Holders
<1>6. DepositInv' BY <1>1, <1>5 DEF PaymentInv, DepositInv, DepositTypes, PaidFor
<1>7. LedgerInv' /\ WorkerInv' /\ PaidInv' /\ EvidenceTypes'
  BY <1>1 DEF PaymentInv, LedgerInv, KeysDistinct, WorkerInv, PaidInv, EvidenceTypes, PaidFor, Due
<1> QED BY <1>4, <1>6, <1>7 DEF PaymentInv

\* Recording a deposit keeps the invariant (record_deposit).
LEMMA RecordKeeps ==
    ASSUME PaymentInv, NEW t \in Transfers, RecordDeposit(t)
    PROVE  PaymentInv'
<1> DEFINE key == KeyOf(t)
           address == addresses[<<t.user, t.chain>>].address
           new == [user |-> lookup[address].user, to |-> address, amount |-> t.amount,
                   confirmations |-> 0, status |-> "Pending"]
<1>1. /\ <<t.user, t.chain>> \in DOMAIN addresses
      /\ key \notin DOMAIN deposits
      /\ deposits' = With(deposits, key, new)
      /\ UNCHANGED <<addresses, lookup, ledger, worker, evidence>>
  BY DEF RecordDeposit, wallet
<1>2. /\ DOMAIN new = {"user", "to", "amount", "confirmations", "status"}
      /\ new.amount \in Nat \ {0} /\ new.status = "Pending" /\ new.to = address
      /\ new.user = lookup[address].user
  BY WalletAssumption
<1>3. \E o \in Holders(address) : o[1] = lookup[address].user
  BY <1>1 DEF PaymentInv, AddressInv, Holders
<1> HIDE DEF key, address, new
<1>4. /\ DOMAIN deposits' = DOMAIN deposits \cup {key}
      /\ deposits'[key] = new
      /\ \A k \in DOMAIN deposits : deposits'[k] = deposits[k]
  BY <1>1 DEF With
<1>5. DepositTypes' BY <1>2, <1>4 DEF PaymentInv, DepositInv, DepositTypes, Statuses
<1>6. DepositInv'
  BY <1>1, <1>2, <1>3, <1>4, <1>5 DEF PaymentInv, DepositInv, PaidFor, Holders
<1>7. \A k : Due(k) => Due(k)' BY <1>1, <1>4 DEF Due
<1>8. \A k : Due(k) => k \in DOMAIN deposits BY DEF Due
<1>9. WorkerInv' /\ PaidInv'
  BY <1>1, <1>4, <1>7, <1>8 DEF PaymentInv, WorkerInv, PaidInv, PaidFor
<1>10. AddressInv' /\ LedgerInv' /\ EvidenceTypes'
  BY <1>1 DEF PaymentInv, AddressInv, LedgerInv, KeysDistinct, EvidenceTypes, PaidFor
<1> QED BY <1>6, <1>9, <1>10 DEF PaymentInv

\* What a step may do to one deposit, and to the workers that leave.
LEMMA DepositStepKeeps ==
    ASSUME PaymentInv, NEW key \in DOMAIN deposits, UNCHANGED <<addresses, lookup, ledger>>,
           DOMAIN deposits' = DOMAIN deposits,
           \A k \in DOMAIN deposits : k # key => deposits'[k] = deposits[k],
           DOMAIN deposits'[key] = DOMAIN deposits[key],
           deposits'[key].user = deposits[key].user, deposits'[key].to = deposits[key].to,
           deposits'[key].amount = deposits[key].amount, deposits'[key].status \in Statuses,
           EvidenceTypes', evidence.confirmed \subseteq evidence'.confirmed,
           evidence.unmarked \subseteq evidence'.unmarked,
           deposits'[key].status \in {"Confirmed", "Credited"} => key \in evidence'.confirmed,
           deposits'[key].status = "Credited" => PaidFor(key) # {},
           Due(key) => Due(key)',
           DOMAIN worker' \subseteq DOMAIN worker,
           \A w \in DOMAIN worker' : worker'[w] = worker[w]
    PROVE  PaymentInv'
<1>1. DepositTypes' BY DEF PaymentInv, DepositInv, DepositTypes
<1>2. DepositInv' BY <1>1 DEF PaymentInv, DepositInv, PaidFor, Holders
<1>3. \A k : Due(k) => Due(k)' BY DEF Due
<1>4. \A k : Due(k) => /\ k \in DOMAIN deposits
                       /\ deposits'[k].user = deposits[k].user
                       /\ deposits'[k].amount = deposits[k].amount
  BY DEF Due
<1>5. WorkerInv' BY <1>3, <1>4 DEF PaymentInv, WorkerInv, PaidFor
<1>6. PaidInv' BY <1>3, <1>4 DEF PaymentInv, PaidInv
<1>7. AddressInv' /\ LedgerInv' BY DEF PaymentInv, AddressInv, LedgerInv, KeysDistinct, PaidFor
<1> QED BY <1>2, <1>5, <1>6, <1>7 DEF PaymentInv

\* Counting confirmations keeps the invariant (update_confirmations).
LEMMA UpdateConfirmationsKeeps ==
    ASSUME PaymentInv, NEW key \in DOMAIN deposits, NEW count, UpdateConfirmations(key, count)
    PROVE  PaymentInv'
<1>1. /\ DOMAIN deposits[key] = {"user", "to", "amount", "confirmations", "status"}
      /\ deposits[key].status \in Statuses
  BY DEF PaymentInv, DepositInv, DepositTypes
<1>2. /\ UNCHANGED <<addresses, lookup, ledger, worker>>
      /\ deposits' = [deposits EXCEPT
                        ![key].confirmations = count,
                        ![key].status = IF @ = "Pending" /\ Enough(key, count)
                                        THEN "Confirmed" ELSE @]
      /\ evidence' = [evidence EXCEPT
                        !.confirmed = IF Enough(key, count) THEN @ \cup {key} ELSE @]
  BY DEF UpdateConfirmations, wallet
<1>3. /\ DOMAIN deposits' = DOMAIN deposits
      /\ \A k \in DOMAIN deposits : k # key => deposits'[k] = deposits[k]
  BY <1>2
<1>4. /\ DOMAIN deposits'[key] = DOMAIN deposits[key]
      /\ deposits'[key].user = deposits[key].user /\ deposits'[key].to = deposits[key].to
      /\ deposits'[key].amount = deposits[key].amount
      /\ deposits'[key].status = IF deposits[key].status = "Pending" /\ Enough(key, count)
                                 THEN "Confirmed" ELSE deposits[key].status
  BY <1>1, <1>2
<1>5. /\ EvidenceTypes' /\ evidence'.unmarked = evidence.unmarked
      /\ evidence'.confirmed = IF Enough(key, count) THEN evidence.confirmed \cup {key}
                               ELSE evidence.confirmed
  BY <1>2 DEF PaymentInv, EvidenceTypes
<1>6. deposits[key].status \in {"Confirmed", "Credited"} => key \in evidence.confirmed
  BY DEF PaymentInv, DepositInv
<1>7. deposits[key].status = "Credited" => PaidFor(key) # {}
  BY DEF PaymentInv, DepositInv
<1>8. Due(key) => Due(key)' BY <1>3, <1>4, <1>5 DEF Due
<1>9. /\ deposits'[key].status \in Statuses
      /\ deposits'[key].status \in {"Confirmed", "Credited"} => key \in evidence'.confirmed
      /\ deposits'[key].status = "Credited" => PaidFor(key) # {}
  BY <1>1, <1>4, <1>5, <1>6, <1>7 DEF Statuses
<1>10. /\ evidence.confirmed \subseteq evidence'.confirmed
       /\ evidence.unmarked \subseteq evidence'.unmarked
       /\ DOMAIN worker' \subseteq DOMAIN worker
       /\ \A w \in DOMAIN worker' : worker'[w] = worker[w]
       /\ UNCHANGED <<addresses, lookup, ledger>>
  BY <1>2, <1>5
<1> QED BY <1>3, <1>4, <1>5, <1>8, <1>9, <1>10, DepositStepKeeps

\* Dropping a deposit that was reorganised away keeps the invariant (mark_reorged).
LEMMA MarkReorgedKeeps ==
    ASSUME PaymentInv, NEW key \in DOMAIN deposits, MarkReorged(key)
    PROVE  PaymentInv'
<1>1. DOMAIN deposits[key] = {"user", "to", "amount", "confirmations", "status"}
  BY DEF PaymentInv, DepositInv, DepositTypes
<1>2. /\ UNCHANGED <<addresses, lookup, ledger, worker>>
      /\ deposits[key].status \in {"Pending", "Confirmed"}
      /\ deposits' = [deposits EXCEPT ![key].status = "Reorged"]
      /\ evidence' = [evidence EXCEPT !.unmarked = IF deposits[key].status = "Confirmed"
                                                   THEN @ \cup {key} ELSE @]
  BY DEF MarkReorged, Reorgable, wallet
<1>3. /\ DOMAIN deposits' = DOMAIN deposits
      /\ \A k \in DOMAIN deposits : k # key => deposits'[k] = deposits[k]
  BY <1>2
<1>4. /\ DOMAIN deposits'[key] = DOMAIN deposits[key]
      /\ deposits'[key].user = deposits[key].user /\ deposits'[key].to = deposits[key].to
      /\ deposits'[key].amount = deposits[key].amount /\ deposits'[key].status = "Reorged"
  BY <1>1, <1>2
<1>5. /\ EvidenceTypes' /\ evidence'.confirmed = evidence.confirmed
      /\ evidence.unmarked \subseteq evidence'.unmarked
      /\ deposits[key].status = "Confirmed" => key \in evidence'.unmarked
  BY <1>2 DEF PaymentInv, EvidenceTypes
<1>6. Due(key) => Due(key)' BY <1>2, <1>3, <1>4, <1>5 DEF Due
<1> QED BY <1>2, <1>3, <1>4, <1>5, <1>6, DepositStepKeeps DEF Statuses

\* Marking a deposit credited, once it is paid, keeps the invariant.
LEMMA MarkCreditedKeeps ==
    ASSUME PaymentInv, NEW w \in DOMAIN worker, MarkCredited(w)
    PROVE  PaymentInv'
<1> SUFFICES ASSUME NEW key, key = worker[w].key PROVE PaymentInv' OBVIOUS
<1>1. Due(key) /\ PaidFor(key) # {}
  BY DEF MarkCredited, PaymentInv, WorkerInv
<1>2. /\ UNCHANGED <<addresses, lookup, ledger, evidence>>
      /\ deposits' = [deposits EXCEPT ![key].status =
                        IF @ = "Confirmed" THEN "Credited" ELSE @]
      /\ DOMAIN worker' \subseteq DOMAIN worker
      /\ \A v \in DOMAIN worker' : worker'[v] = worker[v]
  BY DEF MarkCredited, wallet, Restrict
<1>3. key \in DOMAIN deposits BY <1>1 DEF Due
<1>4. /\ DOMAIN deposits[key] = {"user", "to", "amount", "confirmations", "status"}
      /\ deposits[key].status \in Statuses
  BY <1>3 DEF PaymentInv, DepositInv, DepositTypes
<1>5. /\ DOMAIN deposits' = DOMAIN deposits
      /\ \A k \in DOMAIN deposits : k # key => deposits'[k] = deposits[k]
  BY <1>2
<1>6. /\ DOMAIN deposits'[key] = DOMAIN deposits[key]
      /\ deposits'[key].user = deposits[key].user /\ deposits'[key].to = deposits[key].to
      /\ deposits'[key].amount = deposits[key].amount
      /\ deposits'[key].status = IF deposits[key].status = "Confirmed" THEN "Credited"
                                 ELSE deposits[key].status
  BY <1>2, <1>3, <1>4
<1>7. key \in evidence.confirmed BY <1>1 DEF Due
<1>8. Due(key)' BY <1>1, <1>2, <1>3, <1>5, <1>6 DEF Due
<1>9. /\ EvidenceTypes' /\ key \in evidence'.confirmed
      /\ evidence.confirmed \subseteq evidence'.confirmed
      /\ evidence.unmarked \subseteq evidence'.unmarked
  BY <1>2, <1>7 DEF PaymentInv, EvidenceTypes
<1>10. deposits'[key].status \in Statuses BY <1>4, <1>6 DEF Statuses
<1> QED BY <1>1, <1>2, <1>3, <1>5, <1>6, <1>8, <1>9, <1>10, DepositStepKeeps

\* A worker that reads a confirmed deposit holds what is due.
LEMMA TakeKeeps ==
    ASSUME PaymentInv, NEW w \in Workers, NEW key \in DOMAIN deposits, TakeConfirmed(w, key)
    PROVE  PaymentInv'
<1> DEFINE new == [key |-> key, user |-> deposits[key].user,
                   amount |-> deposits[key].amount, paid |-> FALSE]
<1>1. /\ worker' = With(worker, w, new)
      /\ deposits[key].status = "Confirmed"
      /\ UNCHANGED <<addresses, lookup, deposits, ledger, evidence>>
  BY DEF TakeConfirmed, wallet
<1>2. /\ DOMAIN new = {"key", "user", "amount", "paid"}
      /\ new.key = key /\ new.user = deposits[key].user
      /\ new.amount = deposits[key].amount /\ ~new.paid
  OBVIOUS
<1>3. Due(key) BY <1>1 DEF PaymentInv, DepositInv, Due
<1> HIDE DEF new
<1>4. \A v \in DOMAIN worker' : worker'[v] = new \/ (v \in DOMAIN worker /\ worker'[v] = worker[v])
  BY <1>1 DEF With
<1>5. \A k : Due(k) => Due(k)' BY <1>1 DEF Due
<1>6. WorkerInv' BY <1>1, <1>2, <1>3, <1>4, <1>5 DEF PaymentInv, WorkerInv, PaidFor
<1>7. AddressInv' /\ LedgerInv' /\ EvidenceTypes' /\ DepositInv' /\ PaidInv'
  BY <1>1, <1>5 DEF PaymentInv, AddressInv, LedgerInv, KeysDistinct, EvidenceTypes,
                    DepositInv, DepositTypes, PaidInv, PaidFor, Holders
<1> QED BY <1>6, <1>7 DEF PaymentInv

\* A worker that dies leaves the deposit as it was.
LEMMA WorkerDiesKeeps ==
    ASSUME PaymentInv, NEW w \in DOMAIN worker, WorkerDies(w)
    PROVE  PaymentInv'
<1>1. /\ UNCHANGED <<addresses, lookup, deposits, ledger, evidence>>
      /\ DOMAIN worker' \subseteq DOMAIN worker
      /\ \A v \in DOMAIN worker' : worker'[v] = worker[v]
  BY DEF WorkerDies, wallet, Restrict
<1>2. \A k : Due(k) => Due(k)' BY <1>1 DEF Due
<1>3. WorkerInv' BY <1>1, <1>2 DEF PaymentInv, WorkerInv, PaidFor
<1>4. AddressInv' /\ LedgerInv' /\ EvidenceTypes' /\ DepositInv' /\ PaidInv'
  BY <1>1, <1>2 DEF PaymentInv, AddressInv, LedgerInv, KeysDistinct, EvidenceTypes,
                    DepositInv, DepositTypes, PaidInv, PaidFor, Holders
<1> QED BY <1>3, <1>4 DEF PaymentInv

-----------------------------------------------------------------------------
(* The payment itself: exg-ledger's deposit.                               *)

\* The entry a deposit leaves.
Payment(user, amount, key) ==
    JournalEntry(OfSystem("Funding"), Place(user, "Funding", "available"), amount, "Deposit", key)

\* One entry more, and the key.
Pays(l, paid, user, amount, key) ==
    /\ IsLedger(paid)
    /\ paid.journal = Append(l.journal, Payment(user, amount, key))
    /\ \A k : Used(paid, k) <=> Used(l, k) \/ k = key

\* A deposit into the ledger with a fresh key pays once.
LEMMA DepositPays ==
    ASSUME NEW l, IsLedger(l),
           NEW user, NEW amount, Positive(amount), NEW key, ~Used(l, key),
           NEW paid, paid = Deposit(l, user, amount, key)
    PROVE  Pays(l, paid, user, amount, key)
<1> DEFINE at == Place(user, "Funding", "available")
           known == GetOrCreateAccount(l, user)
           credited == Credit(known, at, amount)
           entry == Payment(user, amount, key)
           noted == Noted(credited, OfSystem("Funding"), at, amount, "Deposit", key)
<1>1. DOMAIN l = {"accounts", "system", "journal", "keys"} BY DEF IsLedger
<1>2. DOMAIN known = DOMAIN l /\ known.journal = l.journal /\ known.keys = l.keys
  BY <1>1 DEF GetOrCreateAccount
<1> HIDE DEF known, at
<1>3. /\ DOMAIN credited = DOMAIN l
      /\ credited.journal = l.journal /\ credited.keys = l.keys
  BY <1>1, <1>2 DEF Credit
<1> HIDE DEF credited, entry
<1>4. noted = [credited EXCEPT !.journal = Append(@, entry)]
  <2>1. ~(amount <= 0) BY DEF Positive
  <2> QED BY <2>1 DEF Noted, entry, Payment, at
<1>5. /\ DOMAIN noted = DOMAIN l
      /\ noted.journal = Append(l.journal, entry) /\ noted.keys = l.keys
  BY <1>1, <1>3, <1>4
<1>6. paid = [noted EXCEPT !.keys = @ \cup {key}]
  BY DEF Deposit, Used, at, known, credited
<1> HIDE DEF noted
<1>7. /\ DOMAIN paid = DOMAIN l
      /\ paid.journal = Append(l.journal, entry)
      /\ paid.keys = l.keys \cup {key}
  BY <1>1, <1>5, <1>6
<1> QED BY <1>1, <1>7 DEF entry, IsLedger, Used, Pays

\* A sequence and the one it becomes by an entry more.
Grown(s, e, t) ==
    /\ IsSeq(t)
    /\ DOMAIN t = DOMAIN s \cup {Len(s) + 1} /\ Len(s) + 1 \notin DOMAIN s
    /\ t[Len(s) + 1] = e
    /\ \A i \in DOMAIN s : t[i] = s[i]

\* A journal grows at its end.
LEMMA AppendGrows ==
    ASSUME NEW s, IsSeq(s), NEW e, NEW t, t = Append(s, e)
    PROVE  Grown(s, e, t)
<1>1. PICK S : s \in Seq(S) BY DEF IsSeq
<1>2. s \in Seq(S \cup {e}) BY <1>1
<1>3. /\ t \in Seq(S \cup {e}) /\ Len(t) = Len(s) + 1
      /\ Len(s) \in Nat /\ DOMAIN s = 1..Len(s) /\ DOMAIN t = 1..Len(t)
      /\ \A i \in 1..Len(s) : t[i] = s[i]
      /\ t[Len(s) + 1] = e
  BY <1>2
<1> QED BY <1>3 DEF IsSeq, Grown

\* The credit worker's ledger step pays a deposit once.
LEMMA UpdateLedgerKeeps ==
    ASSUME PaymentInv, NEW w \in DOMAIN worker, UpdateLedger(w)
    PROVE  PaymentInv'
<1> SUFFICES ASSUME NEW key, key = worker[w].key,
                    NEW user, user = worker[w].user,
                    NEW amount, amount = worker[w].amount
             PROVE  PaymentInv'
  OBVIOUS
<1>1. /\ UNCHANGED <<addresses, lookup, deposits, evidence>>
      /\ ledger' = Deposit(ledger, user, amount, key)
      /\ worker' = [worker EXCEPT ![w].paid = TRUE]
  BY DEF UpdateLedger, wallet
<1>2. /\ Due(key) /\ key \in DOMAIN deposits
      /\ user = deposits[key].user /\ amount = deposits[key].amount
      /\ amount \in Nat \ {0}
  BY DEF PaymentInv, WorkerInv, DepositInv, DepositTypes, Due
<1>3. \A k : Due(k) => Due(k)' BY <1>1 DEF Due
<1>4. AddressInv' /\ EvidenceTypes' BY <1>1 DEF PaymentInv, AddressInv, EvidenceTypes
<1>5. /\ DOMAIN worker' = DOMAIN worker
      /\ \A v \in DOMAIN worker :
            /\ DOMAIN worker'[v] = DOMAIN worker[v] /\ worker'[v].key = worker[v].key
            /\ worker'[v].user = worker[v].user /\ worker'[v].amount = worker[v].amount
            /\ worker'[v].paid => worker[v].paid \/ v = w
  BY <1>1 DEF PaymentInv, WorkerInv
\* What the rest rests on: the ledger has paid, and forgets no payment.
<1>6. /\ LedgerInv' /\ PaidInv' /\ PaidFor(key)' # {}
      /\ \A k : PaidFor(k) \subseteq PaidFor(k)'
  <2>1. CASE key \in ledger.keys
    <3>1. ledger' = ledger BY <1>1, <2>1 DEF Deposit, Used
    <3> QED BY <1>1, <1>3, <2>1, <3>1 DEF PaymentInv, LedgerInv, KeysDistinct, PaidInv, PaidFor
  <2>2. CASE key \notin ledger.keys
    <3> DEFINE entry == Payment(user, amount, key)
               last == Len(ledger.journal) + 1
    <3>1. /\ IsLedger(ledger')
          /\ ledger'.journal = Append(ledger.journal, entry)
          /\ \A k : Used(ledger', k) <=> Used(ledger, k) \/ k = key
      <4>1. IsLedger(ledger) /\ Positive(amount) /\ ~Used(ledger, key)
        BY <1>2, <2>2 DEF PaymentInv, LedgerInv, Positive, Used
      <4>2. Pays(ledger, ledger', user, amount, key) BY <1>1, <4>1, DepositPays
      <4> QED BY <4>2 DEF Pays
    <3>2. entry.key = key /\ entry.amount = amount /\ entry.credit.owner = user
      BY DEF Payment, JournalEntry, Place
    <3> HIDE DEF entry, last
    <3>3. /\ IsSeq(ledger'.journal)
          /\ DOMAIN ledger'.journal = DOMAIN ledger.journal \cup {last}
          /\ last \notin DOMAIN ledger.journal
          /\ ledger'.journal[last] = entry
          /\ \A i \in DOMAIN ledger.journal : ledger'.journal[i] = ledger.journal[i]
      <4>1. IsSeq(ledger.journal) BY DEF PaymentInv, LedgerInv
      <4>2. Grown(ledger.journal, entry, ledger'.journal) BY <3>1, <4>1, AppendGrows
      <4> QED BY <4>2 DEF Grown, last
    <3>4. \A i \in DOMAIN ledger.journal : ledger.journal[i].key # key
      BY <2>2 DEF PaymentInv, LedgerInv
    <3>5. (\A k : PaidFor(k) \subseteq PaidFor(k)') /\ last \in PaidFor(key)'
      BY <3>2, <3>3 DEF PaidFor
    <3>6. LedgerInv'
      <4>1. \A i \in DOMAIN ledger'.journal : ledger'.journal[i].key \in ledger'.keys
        BY <3>1, <3>2, <3>3 DEF PaymentInv, LedgerInv, Used
      <4>2. \A k \in ledger'.keys : PaidFor(k)' # {}
        BY <3>1, <3>5 DEF PaymentInv, LedgerInv, Used
      <4>3. KeysDistinct'
        <5>1. \A i \in DOMAIN ledger'.journal : ledger'.journal[i].key = key <=> i = last
          BY <3>2, <3>3, <3>4
        <5>2. KeysDistinct BY SMTT(40) DEF PaymentInv, LedgerInv
        <5> QED BY <3>2, <3>3, <5>1, <5>2 DEF KeysDistinct
      <4> QED BY <3>1, <3>3, <4>1, <4>2, <4>3 DEF LedgerInv
    <3>7. PaidInv' BY <1>1, <1>2, <1>3, <3>2, <3>3 DEF PaymentInv, PaidInv
    <3> QED BY <3>5, <3>6, <3>7
  <2> QED BY <2>1, <2>2
<1>7. DepositInv' BY <1>1, <1>6 DEF PaymentInv, DepositInv, DepositTypes, Holders
<1>8. WorkerInv' BY <1>1, <1>3, <1>5, <1>6 DEF PaymentInv, WorkerInv
<1> QED BY <1>4, <1>6, <1>7, <1>8 DEF PaymentInv

-----------------------------------------------------------------------------
\* A step of the withdrawals leaves the deposits alone.
LEMMA UnchangedKeeps == PaymentInv /\ UNCHANGED paymentVars => PaymentInv'
BY DEF PaymentInv, AddressInv, DepositInv, DepositTypes, LedgerInv, KeysDistinct, WorkerInv,
       PaidInv, EvidenceTypes, Due, PaidFor, Holders, paymentVars

\* Every step keeps deposits paid at most once.
LEMMA NextPaymentInv == PaymentInv /\ [WalletNext]_walletVars => PaymentInv'
<1> SUFFICES ASSUME PaymentInv, [WalletNext]_walletVars PROVE PaymentInv' OBVIOUS
<1>1. CASE \E u \in Users, c \in Chains : GetOrCreateAddress(u, c)
  BY <1>1, AddressKeeps
<1>2. CASE \E c \in Chains : StrangersJoin(c)
  BY <1>2, UnchangedKeeps DEF StrangersJoin, paymentVars
<1>3. CASE \E t \in Transfers : RecordDeposit(t)
  BY <1>3, RecordKeeps
<1>4. CASE \E k \in DOMAIN deposits, n \in ConfirmationCounts : UpdateConfirmations(k, n)
  BY <1>4, UpdateConfirmationsKeeps
<1>5. CASE \E k \in DOMAIN deposits : MarkReorged(k)
  BY <1>5, MarkReorgedKeeps
<1>6. CASE \E w \in Workers, k \in DOMAIN deposits : TakeConfirmed(w, k)
  BY <1>6, TakeKeeps
<1>7. CASE \E w \in DOMAIN worker : UpdateLedger(w) \/ MarkCredited(w) \/ WorkerDies(w)
  BY <1>7, UpdateLedgerKeeps, MarkCreditedKeeps, WorkerDiesKeeps
<1>8. CASE \E r \in Requests : Submit(r)
  BY <1>8, UnchangedKeeps DEF Submit, wallet, paymentVars
<1>9. CASE \E id \in DOMAIN withdrawals :
             \/ Approve(id) \/ Reject(id)
             \/ MarkProcessing(id) \/ MarkCompleted(id) \/ MarkFailed(id)
  BY <1>9, UnchangedKeeps
  DEF Approve, Reject, MarkProcessing, MarkCompleted, MarkFailed, Transition, wallet, paymentVars
<1>10. CASE UNCHANGED walletVars
  BY <1>10, UnchangedKeeps DEF walletVars, wallet, paymentVars
<1> QED BY <1>1, <1>2, <1>3, <1>4, <1>5, <1>6, <1>7, <1>8, <1>9, <1>10 DEF WalletNext

\* Every deposit is paid at most once, after its confirmations, to a holder of
\* its address: exg-wallet-service's deposits with exg-ledger's keys, whatever
\* the workers do.
THEOREM DepositsAlwaysPaidOnce == WalletSpec => []DepositsPaidOnce
<1>1. WalletInit => PaymentInv BY InitPaymentInv
<1>2. PaymentInv /\ [WalletNext]_walletVars => PaymentInv' BY NextPaymentInv
<1>3. PaymentInv => DepositsPaidOnce BY PaymentInvEnough
<1> QED BY <1>1, <1>2, <1>3, PTL DEF WalletSpec

-----------------------------------------------------------------------------
(* Withdrawals.                                                            *)

Fine(w) ==
    /\ DOMAIN w = {"user", "amount", "status", "reviewed", "sent"}
    /\ w.amount \in Nat
    /\ w.status \in {"Approved", "Processing", "Completed", "Failed"}
          => w.reviewed \/ w.amount < AutoApproveThreshold
    /\ w.sent = IF w.status \in {"Processing", "Completed", "Failed"} THEN 1 ELSE 0

ReviewInv == IsSeq(withdrawals) /\ \A id \in DOMAIN withdrawals : Fine(withdrawals[id])

\* What the property says of one withdrawal and what it becomes.
Rightly(old, new) ==
    /\ new.sent > 0 /\ new.amount >= AutoApproveThreshold => new.reviewed
    /\ new.sent <= 1
    /\ old.status \in {"Completed", "Rejected", "Failed"} => new = old

\* A withdrawal that does not move moves rightly.
LEMMA FineIsRight == ASSUME NEW w, Fine(w) PROVE Rightly(w, w)
BY WalletAssumption DEF Fine, Rightly

\* A status transition of a withdrawal is one the review allows.
LEMMA TransitionKeeps ==
    ASSUME ReviewInv, NEW id \in DOMAIN withdrawals, NEW from, NEW to, Transition(id, from, to),
           <<from, to>> \in {<<"PendingReview", "Approved">>, <<"PendingReview", "Rejected">>,
                             <<"Approved", "Processing">>, <<"Processing", "Completed">>,
                             <<"Processing", "Failed">>}
    PROVE  ReviewInv' /\ \A i \in DOMAIN withdrawals : Rightly(withdrawals[i], withdrawals'[i])
<1> SUFFICES ASSUME NEW old, old = withdrawals[id], NEW new, new = withdrawals'[id]
             PROVE  /\ ReviewInv'
                    /\ \A i \in DOMAIN withdrawals : Rightly(withdrawals[i], withdrawals'[i])
  OBVIOUS
<1>1. /\ old.status = from
      /\ withdrawals' = [withdrawals EXCEPT ![id].status = to,
                           ![id].reviewed = @ \/ from = "PendingReview",
                           ![id].sent = IF to = "Processing" THEN @ + 1 ELSE @]
  BY DEF Transition
<1>2. /\ Fine(old) /\ DOMAIN old = {"user", "amount", "status", "reviewed", "sent"}
  BY DEF ReviewInv, Fine
<1>3. /\ IsSeq(withdrawals') /\ DOMAIN withdrawals' = DOMAIN withdrawals
      /\ \A i \in DOMAIN withdrawals : i # id => withdrawals'[i] = withdrawals[i]
  <2>1. PICK S : withdrawals \in Seq(S) BY DEF ReviewInv, IsSeq
  <2>2. withdrawals \in Seq(S \cup {new}) BY <2>1
  <2>3. DOMAIN withdrawals' = DOMAIN withdrawals
        /\ \A i \in DOMAIN withdrawals : i # id => withdrawals'[i] = withdrawals[i]
    BY <1>1
  <2>4. withdrawals' = [withdrawals EXCEPT ![id] = new] BY <1>1
  <2>5. withdrawals' \in Seq(S \cup {new}) BY <2>2, <2>4
  <2> QED BY <2>3, <2>5 DEF IsSeq
<1>4. /\ DOMAIN new = DOMAIN old /\ new.amount = old.amount /\ new.status = to
      /\ new.reviewed = (old.reviewed \/ from = "PendingReview")
      /\ new.sent = IF to = "Processing" THEN old.sent + 1 ELSE old.sent
  BY <1>1, <1>2
<1>5. Fine(new)
  <2>1. DOMAIN new = {"user", "amount", "status", "reviewed", "sent"} /\ new.amount \in Nat
    BY <1>2, <1>4 DEF Fine
  <2>2. new.status \in {"Approved", "Processing", "Completed", "Failed"}
           => new.reviewed \/ new.amount < AutoApproveThreshold
    BY <1>1, <1>2, <1>4 DEF Fine
  <2>3. new.sent = IF new.status \in {"Processing", "Completed", "Failed"} THEN 1 ELSE 0
    BY <1>1, <1>2, <1>4 DEF Fine
  <2> QED BY <2>1, <2>2, <2>3 DEF Fine
<1>6. Rightly(old, new)
  <2>1. from \notin {"Completed", "Rejected", "Failed"} OBVIOUS
  <2> QED BY <1>1, <1>5, <2>1, FineIsRight DEF Rightly
<1>7. ReviewInv' BY <1>3, <1>5 DEF ReviewInv
<1>8. ASSUME NEW i \in DOMAIN withdrawals PROVE Rightly(withdrawals[i], withdrawals'[i])
  BY <1>3, <1>6, FineIsRight DEF ReviewInv
<1> QED BY <1>7, <1>8

\* A new withdrawal waits for its review.
LEMMA SubmitKeeps ==
    ASSUME ReviewInv, NEW r \in Requests, Submit(r)
    PROVE  ReviewInv' /\ \A i \in DOMAIN withdrawals : Rightly(withdrawals[i], withdrawals'[i])
<1> DEFINE new == [user |-> r.user, amount |-> r.amount, status |-> FirstStatus(r.amount),
                   reviewed |-> FALSE, sent |-> 0]
<1>1. withdrawals' = Append(withdrawals, new) BY DEF Submit
<1>2. Fine(new) BY WalletAssumption DEF Fine, FirstStatus
<1> HIDE DEF new
<1>3. /\ IsSeq(withdrawals')
      /\ DOMAIN withdrawals' = DOMAIN withdrawals \cup {Len(withdrawals) + 1}
      /\ withdrawals'[Len(withdrawals) + 1] = new
      /\ \A i \in DOMAIN withdrawals : withdrawals'[i] = withdrawals[i]
  <2>1. Grown(withdrawals, new, withdrawals') BY <1>1, AppendGrows DEF ReviewInv
  <2> QED BY <2>1 DEF Grown
<1> QED BY <1>2, <1>3, FineIsRight DEF ReviewInv

\* Every step keeps withdrawals behind their review.
LEMMA NextReviewInv ==
    ASSUME ReviewInv, [WalletNext]_walletVars
    PROVE  ReviewInv' /\ \A i \in DOMAIN withdrawals : Rightly(withdrawals[i], withdrawals'[i])
<1>1. CASE \E id \in DOMAIN withdrawals :
             \/ Approve(id) \/ Reject(id)
             \/ MarkProcessing(id) \/ MarkCompleted(id) \/ MarkFailed(id)
  <2>1. PICK id \in DOMAIN withdrawals :
           \/ Approve(id) \/ Reject(id)
           \/ MarkProcessing(id) \/ MarkCompleted(id) \/ MarkFailed(id)
    BY <1>1
  <2>2. CASE Approve(id) BY <2>2, TransitionKeeps DEF Approve
  <2>3. CASE Reject(id) BY <2>3, TransitionKeeps DEF Reject
  <2>4. CASE MarkProcessing(id) BY <2>4, TransitionKeeps DEF MarkProcessing
  <2>5. CASE MarkCompleted(id) BY <2>5, TransitionKeeps DEF MarkCompleted
  <2>6. CASE MarkFailed(id) BY <2>6, TransitionKeeps DEF MarkFailed
  <2> QED BY <2>1, <2>2, <2>3, <2>4, <2>5, <2>6
<1>2. CASE \E r \in Requests : Submit(r) BY <1>2, SubmitKeeps
<1>3. CASE UNCHANGED withdrawals BY <1>3, FineIsRight DEF ReviewInv
<1> QED BY <1>1, <1>2, <1>3, ZenonT(60)
  DEF WalletNext, walletVars, GetOrCreateAddress, StrangersJoin, RecordDeposit, UpdateConfirmations,
      MarkReorged, TakeConfirmed, UpdateLedger, MarkCredited, WorkerDies

\* No withdrawal of the threshold or above is sent unreviewed, none is sent
\* twice, and none that ended moves again: exg-wallet-service's status machine.
THEOREM WithdrawalsAlwaysReviewed == WalletSpec => WithdrawalsReviewed
<1>1. WalletInit => ReviewInv
  <2> SUFFICES ASSUME WalletInit PROVE ReviewInv OBVIOUS
  <2>1. withdrawals = << >> BY DEF WalletInit
  <2> QED BY <2>1 DEF ReviewInv, IsSeq
<1>2. ReviewInv /\ [WalletNext]_walletVars => ReviewInv' BY NextReviewInv
<1>3. ReviewInv /\ [WalletNext]_walletVars =>
         [\A id \in DOMAIN withdrawals :
            LET w == withdrawals'[id]
            IN  /\ w.sent > 0 /\ w.amount >= AutoApproveThreshold => w.reviewed
                /\ w.sent <= 1
                /\ withdrawals[id].status \in {"Completed", "Rejected", "Failed"}
                      => w = withdrawals[id]]_walletVars
  BY NextReviewInv DEF Rightly
<1> QED BY <1>1, <1>2, <1>3, PTL DEF WalletSpec, WithdrawalsReviewed

-----------------------------------------------------------------------------
(* THE CLEARING SERVICE.                                                   *)

-----------------------------------------------------------------------------
(* Keys.  The first part of a key says which call made it and so how long  *)
(* it is; a call books its entries under the key itself and under the key  *)
(* with one word more.                                                     *)

Tags ==
    {"deposit", "transfer", "freeze", "liq", "withdraw", "back", "unfreeze", "pair", "funding",
     "trade", "adl"}
\* The words that make a key another one.
Words == {"fee", "pnl", "surplus", "deficit", "margin"}
KeyParts == Tags \cup {"buyer", "seller", "open", "close"} \cup Words \cup Nat \cup Traders
Keys == Seq(KeyParts)
LengthOf(tag) ==
    IF tag \in {"trade", "adl"} THEN 4
    ELSE IF tag \in {"deposit", "transfer", "freeze", "liq"} THEN 2 ELSE 3
BaseKeys == {k \in Keys : k # << >> /\ k[1] \in Tags /\ Len(k) = LengthOf(k[1])}

Extended(k) == {k \o <<x>> : x \in KeyParts}
Family(k) == {k} \cup Extended(k)
Families(S) == UNION {Family(k) : k \in S}

\* A key with one word more.
LEMMA ExtendedKey ==
    ASSUME NEW k \in BaseKeys, NEW x \in KeyParts
    PROVE  /\ k \in Keys /\ k \o <<x>> \in Keys /\ k \o <<x>> # k
           /\ Len(k \o <<x>>) = Len(k) + 1 /\ Len(k) \in Nat \ {0}
           /\ \A i \in 1 .. Len(k) : (k \o <<x>>)[i] = k[i]
           /\ (k \o <<x>>)[Len(k) + 1] = x
  <1>1. k \in Seq(KeyParts) /\ k # << >> BY DEF BaseKeys, Keys
  <1>2. <<x>> \in Seq(KeyParts) OBVIOUS
  <1>3. Len(<<x>>) = 1 /\ <<x>>[1] = x OBVIOUS
  <1> DEFINE t == <<x>>
  <1>4. t \in Seq(KeyParts) /\ Len(t) = 1 /\ t[1] = x BY <1>2, <1>3
  <1> HIDE DEF t
  <1>5. /\ k \o t \in Seq(KeyParts) /\ Len(k \o t) = Len(k) + 1
        /\ \A i \in 1 .. Len(k) + 1 : (k \o t)[i] = IF i <= Len(k) THEN k[i] ELSE t[i - Len(k)]
    <2>1. Len(k) + Len(t) = Len(k) + 1 BY <1>4
    <2> HIDE DEF Keys
    <2>2. QED BY <1>1, <1>4, <2>1, ConcatProperties
  <1>6. Len(k) \in Nat \ {0} BY <1>1, EmptySeq
  <1>7. /\ \A i \in 1 .. Len(k) : (k \o t)[i] = k[i]
        /\ (k \o t)[Len(k) + 1] = x
    <2>1. \A i \in 1 .. Len(k) : i \in 1 .. Len(k) + 1 /\ i <= Len(k) BY <1>6
    <2>2. Len(k) + 1 \in 1 .. Len(k) + 1 /\ ~(Len(k) + 1 <= Len(k)) /\ (Len(k) + 1) - Len(k) = 1
      BY <1>6
    <2>3. QED BY <1>4, <1>5, <2>1, <2>2
  <1>8. k \o t # k
    <2>1. Len(k) + 1 # Len(k) BY <1>6
    <2>2. QED BY <1>5, <2>1
  <1>9. QED BY <1>1, <1>5, <1>6, <1>7, <1>8 DEF Keys, t

\* What two calls book has different keys.
LEMMA FamiliesApart ==
    ASSUME NEW S \in SUBSET BaseKeys, NEW k \in BaseKeys, k \notin S
    PROVE  Family(k) \cap Families(S) = {}
  <1>1. SUFFICES ASSUME NEW h \in S, NEW e \in Family(k), e \in Family(h) PROVE FALSE
    BY DEF Families
  <1>2. h \in BaseKeys /\ h # k OBVIOUS
  <1>3. /\ Len(k) = LengthOf(k[1]) /\ Len(h) = LengthOf(h[1])
        /\ Len(k) \in Nat \ {0} /\ Len(h) \in Nat \ {0}
        /\ k \in Seq(KeyParts) /\ h \in Seq(KeyParts)
    BY <1>2, ExtendedKey DEF BaseKeys, Keys
  <1>4. ASSUME NEW g \in BaseKeys, e \in Family(g)
        PROVE  \A i \in 1 .. Len(g) : e[i] = g[i]
    <2>1. CASE e = g BY <2>1
    <2>2. CASE e # g
      <3>1. PICK x \in KeyParts : e = g \o <<x>> BY <1>4, <2>2 DEF Family, Extended
      <3>2. QED BY <3>1, ExtendedKey
    <2>3. QED BY <2>1, <2>2
  <1>5. Len(k) = Len(h)
    <2>1. 1 \in 1 .. Len(k) /\ 1 \in 1 .. Len(h) BY <1>3
    <2>2. e[1] = k[1] /\ e[1] = h[1] BY <1>1, <1>2, <1>4, <2>1
    <2>3. QED BY <1>3, <2>2
  <1>6. \A i \in 1 .. Len(k) : e[i] = k[i] /\ e[i] = h[i]
    BY <1>1, <1>2, <1>4, <1>5
  <1>7. k = h BY <1>3, <1>5, <1>6, SeqEqual
  <1>8. QED BY <1>2, <1>7

-----------------------------------------------------------------------------
(* The journal.                                                            *)

Books == Ledgers(Traders, Keys)
AnyEntry == Entries(Traders, Keys)
EntryPlaces ==
    [owner : Traders \cup {SYSTEM}, wallet : UserWallets \cup SystemWallets, field : Fields]

KeysIn(j) == {j[i].key : i \in DOMAIN j}
Unique(j) == \A a, b \in DOMAIN j : a # b => j[a].key # j[b].key
Extends(j, k) ==
    Len(j) <= Len(k) /\ \A i \in 1 .. Len(j) : k[i] = j[i]

\* What the journal says users and SYSTEM hold: what came from outside, and
\* what was settled against the escrow.
Owed(j) ==
    SumFunctionOnSet(Amounts(j), OfType(j, "Deposit"))
        - SumFunctionOnSet(Amounts(j), OfType(j, "Withdrawal"))
        - BookedIn(j, OfType(j, "PositionClose"), OfSystem("Escrow"))

Count(cond, amount) == IF cond THEN amount ELSE 0
Weight(e) ==
    Count(e.type = "Deposit", e.amount) - Count(e.type = "Withdrawal", e.amount)
        - Count(e.type = "PositionClose" /\ e.credit = OfSystem("Escrow"), e.amount)
        + Count(e.type = "PositionClose" /\ e.debit = OfSystem("Escrow"), e.amount)
Share(e, p) == Count(e.credit = p, e.amount) - Count(e.debit = p, e.amount)

\* What one more entry adds to the sums.
LEMMA OneMore ==
    ASSUME NEW j \in Seq(AnyEntry), NEW e \in AnyEntry
    PROVE  /\ Owed(j) \in Int /\ Owed(Append(j, e)) = Owed(j) + Weight(e)
           /\ \A p : /\ Booked(j, p) \in Int
                     /\ Booked(Append(j, e), p) = Booked(j, p) + Share(e, p)
  <1> DEFINE k == Append(j, e)
             D == {x \in AnyEntry : x.type = "Deposit"}
             W == {x \in AnyEntry : x.type = "Withdrawal"}
             C(p) == {x \in AnyEntry : x.credit = p}
             B(p) == {x \in AnyEntry : x.debit = p}
             P == OfSystem("Escrow")
             CC == {x \in AnyEntry : x.type = "PositionClose" /\ x.credit = P}
             BB == {x \in AnyEntry : x.type = "PositionClose" /\ x.debit = P}
  <1>1. k \in Seq(AnyEntry) BY AppendProperties
  <1>2. \A s \in Seq(AnyEntry) : \A i \in DOMAIN s : s[i] \in AnyEntry OBVIOUS
  <1>3. \A E : /\ SumIn(j, E) \in Int
               /\ SumIn(k, E) = SumIn(j, E) + IF e \in E THEN e.amount ELSE 0
    BY JournalSums DEF AnyEntry
  <1>4. e.amount \in Int BY DEF AnyEntry, Entries
  <1>5. ASSUME NEW s \in Seq(AnyEntry)
        PROVE  /\ Owed(s) = SumIn(s, D) - SumIn(s, W) - (SumIn(s, CC) - SumIn(s, BB))
               /\ \A p : Booked(s, p) = SumIn(s, C(p)) - SumIn(s, B(p))
    <2>1. /\ OfType(s, "Deposit") = {i \in DOMAIN s : s[i] \in D}
          /\ OfType(s, "Withdrawal") = {i \in DOMAIN s : s[i] \in W}
      BY <1>2 DEF OfType
    <2>2. /\ {i \in OfType(s, "PositionClose") : s[i].credit = P} = {i \in DOMAIN s : s[i] \in CC}
          /\ {i \in OfType(s, "PositionClose") : s[i].debit = P} = {i \in DOMAIN s : s[i] \in BB}
      BY <1>2 DEF OfType
    <2>3. \A p : /\ {i \in DOMAIN s : s[i].credit = p} = {i \in DOMAIN s : s[i] \in C(p)}
                 /\ {i \in DOMAIN s : s[i].debit = p} = {i \in DOMAIN s : s[i] \in B(p)}
      BY <1>2
    <2>4. Owed(s) = SumIn(s, D) - SumIn(s, W) - (SumIn(s, CC) - SumIn(s, BB))
      BY <2>1, <2>2 DEF Owed, BookedIn, SumIn
    <2>5. \A p : Booked(s, p) = SumIn(s, C(p)) - SumIn(s, B(p))
      BY <2>3 DEF Booked, BookedIn, SumIn
    <2>6. QED BY <2>4, <2>5
  <1>6. Owed(j) \in Int /\ Owed(k) = Owed(j) + Weight(e)
    <2> HIDE DEF k
    <2>1. /\ SumIn(j, D) \in Int /\ SumIn(j, W) \in Int /\ SumIn(j, CC) \in Int /\ SumIn(j, BB) \in Int
          /\ SumIn(k, D) = SumIn(j, D) + Count(e.type = "Deposit", e.amount)
          /\ SumIn(k, W) = SumIn(j, W) + Count(e.type = "Withdrawal", e.amount)
          /\ SumIn(k, CC) = SumIn(j, CC) + Count(e.type = "PositionClose" /\ e.credit = P, e.amount)
          /\ SumIn(k, BB) = SumIn(j, BB) + Count(e.type = "PositionClose" /\ e.debit = P, e.amount)
      BY <1>3 DEF Count
    <2>2. \A c : Count(c, e.amount) \in Int BY <1>4 DEF Count
    <2> DEFINE d == Count(e.type = "Deposit", e.amount)
               w == Count(e.type = "Withdrawal", e.amount)
               c == Count(e.type = "PositionClose" /\ e.credit = P, e.amount)
               b == Count(e.type = "PositionClose" /\ e.debit = P, e.amount)
               jd == SumIn(j, D)
               jw == SumIn(j, W)
               jc == SumIn(j, CC)
               jb == SumIn(j, BB)
    <2>3. Weight(e) = d - w - c + b BY DEF Weight
    <2>4. d \in Int /\ w \in Int /\ c \in Int /\ b \in Int BY <2>2
    <2>5. jd \in Int /\ jw \in Int /\ jc \in Int /\ jb \in Int BY <2>1
    <2>6. Owed(j) = jd - jw - (jc - jb) BY <1>5
    <2>7. Owed(k) = SumIn(k, D) - SumIn(k, W) - (SumIn(k, CC) - SumIn(k, BB)) BY <1>1, <1>5
    <2>8. SumIn(k, D) = jd + d /\ SumIn(k, W) = jw + w /\ SumIn(k, CC) = jc + c /\ SumIn(k, BB) = jb + b
      BY <2>1
    <2> HIDE DEF D, W, CC, BB, d, w, c, b, jd, jw, jc, jb
    <2>9. Owed(k) = (jd + d) - (jw + w) - ((jc + c) - (jb + b)) BY <2>7, <2>8
    <2>10. (jd + d) - (jw + w) - ((jc + c) - (jb + b)) = (jd - jw - (jc - jb)) + (d - w - c + b)
      BY <2>4, <2>5
    <2>11. jd - jw - (jc - jb) \in Int BY <2>5
    <2>12. QED BY <2>3, <2>6, <2>9, <2>10, <2>11
  <1>7. ASSUME NEW p
        PROVE  /\ Booked(j, p) \in Int
               /\ Booked(k, p) = Booked(j, p) + Share(e, p)
    <2> HIDE DEF k
    <2>1. /\ SumIn(j, C(p)) \in Int /\ SumIn(j, B(p)) \in Int
          /\ SumIn(k, C(p)) = SumIn(j, C(p)) + Count(e.credit = p, e.amount)
          /\ SumIn(k, B(p)) = SumIn(j, B(p)) + Count(e.debit = p, e.amount)
      BY <1>3 DEF Count
    <2>2. \A c : Count(c, e.amount) \in Int BY <1>4 DEF Count
    <2>3. /\ Booked(j, p) = SumIn(j, C(p)) - SumIn(j, B(p))
          /\ Booked(k, p) = SumIn(k, C(p)) - SumIn(k, B(p))
      BY <1>1, <1>5
    <2> HIDE DEF C, B
    <2>4. QED BY <2>1, <2>2, <2>3 DEF Share
  <1>8. QED BY <1>6, <1>7

\* Traders are finitely many, and SYSTEM is none of them.
LEMMA TradersAre == IsFiniteSet(Traders) /\ SYSTEM \notin Traders
  BY ClearingAssumption

\* The sums are integers.
LEMMA SumsInt ==
    ASSUME NEW j \in Seq(AnyEntry)
    PROVE  Owed(j) \in Int /\ \A p : Booked(j, p) \in Int
  <1> DEFINE e == JournalEntry(OfSystem("Escrow"), OfSystem("Escrow"), 1, "Transfer", << >>)
  <1>1. e \in AnyEntry
    BY DEF AnyEntry, Entries, JournalEntry, OfSystem, Place, JournalTypes, Keys, SystemWallets,
           NonNegativeSystemWallets, Fields
  <1> HIDE DEF e
  <1>2. QED BY <1>1, OneMore

\* m is l with an entry.
Noting(l, m, from, to, amount, type, key) ==
    /\ l \in Books /\ from \in EntryPlaces /\ to \in EntryPlaces /\ amount \in Int
    /\ type \in JournalTypes /\ key \in Keys
    /\ m = Noted(l, from, to, amount, type, key)

\* What writing an entry changes.
LEMMA NotedEffect ==
    ASSUME NEW l, NEW m, NEW from, NEW to, NEW amount, NEW type, NEW key,
           Noting(l, m, from, to, amount, type, key)
    PROVE  /\ m \in Books /\ m.accounts = l.accounts /\ m.system = l.system /\ m.keys = l.keys
           /\ Extends(l.journal, m.journal)
           /\ KeysIn(m.journal) \subseteq KeysIn(l.journal) \cup {key}
           /\ Unique(l.journal) /\ key \notin KeysIn(l.journal) => Unique(m.journal)
           /\ amount <= 0 => m = l
           /\ amount > 0 =>
                 /\ Owed(m.journal) = Owed(l.journal)
                                        + Weight(JournalEntry(from, to, amount, type, key))
                 /\ \A p : Booked(m.journal, p) = Booked(l.journal, p)
                              + Share(JournalEntry(from, to, amount, type, key), p)
  <1> DEFINE e == JournalEntry(from, to, amount, type, key)
  <1> USE DEF Noting
  <1>1. /\ l.accounts \in Accounts(Traders) /\ l.system \in [SystemWallets -> Int]
        /\ l.journal \in Seq(AnyEntry) /\ l.keys \in SUBSET Keys
    BY DEF Books, Ledgers, AnyEntry
  <1>2. CASE amount <= 0
    <2>1. m = l BY <1>2 DEF Noted
    <2>2. ~(amount > 0) BY <1>2
    <2>3. Extends(l.journal, l.journal) BY <1>1 DEF Extends
    <2>4. QED BY <2>1, <2>2, <2>3
  <1>3. CASE amount > 0
    <2> DEFINE j == l.journal
               k == Append(j, e)
    <2>1. ~(amount <= 0) BY <1>3
    <2>2. e \in AnyEntry
      <3>1. amount \in Nat \ {0} BY <1>3
      <3>2. QED BY <3>1 DEF AnyEntry, Entries, EntryPlaces, JournalEntry
    <2>3. e.key = key BY DEF JournalEntry
    <2>4. m = [l EXCEPT !.journal = k] BY <2>1 DEF Noted
    <2>5. /\ k \in Seq(AnyEntry) /\ Len(k) = Len(j) + 1 /\ k[Len(j) + 1] = e
          /\ \A i \in 1 .. Len(j) : k[i] = j[i]
          /\ Len(j) \in Nat /\ DOMAIN j = 1 .. Len(j) /\ DOMAIN k = 1 .. Len(j) + 1
      BY <1>1, <2>2, AppendProperties
    <2>6. /\ Owed(k) = Owed(j) + Weight(e)
          /\ \A p : Booked(k, p) = Booked(j, p) + Share(e, p)
      BY <1>1, <2>2, OneMore
    <2> HIDE DEF k, j
    <2>7. /\ m \in Books /\ m.accounts = l.accounts /\ m.system = l.system /\ m.keys = l.keys
          /\ m.journal = k
      BY <1>1, <2>4, <2>5 DEF Books, Ledgers, AnyEntry
    <2>8. Extends(j, k) BY <2>5 DEF Extends
    <2>9. \A i \in DOMAIN k : i \in DOMAIN j \/ i = Len(j) + 1 BY <2>5
    <2>10. \A i \in DOMAIN j : k[i] = j[i] /\ i # Len(j) + 1 BY <2>5
    <2>11. KeysIn(k) \subseteq KeysIn(j) \cup {key}
      BY <2>3, <2>5, <2>9, <2>10 DEF KeysIn
    <2>12. Unique(j) /\ key \notin KeysIn(j) => Unique(k)
      <3>1. SUFFICES ASSUME Unique(j), key \notin KeysIn(j),
                            NEW a \in DOMAIN k, NEW b \in DOMAIN k, a # b
                     PROVE  k[a].key # k[b].key
        BY DEF Unique
      <3>2. CASE a \in DOMAIN j /\ b \in DOMAIN j BY <2>10, <3>1, <3>2 DEF Unique
      <3>3. CASE a = Len(j) + 1 /\ b \in DOMAIN j
        <4>1. k[b].key = j[b].key /\ j[b].key \in KeysIn(j) BY <2>10, <3>3 DEF KeysIn
        <4>2. QED BY <2>3, <2>5, <3>1, <3>3, <4>1
      <3>4. CASE b = Len(j) + 1 /\ a \in DOMAIN j
        <4>1. k[a].key = j[a].key /\ j[a].key \in KeysIn(j) BY <2>10, <3>4 DEF KeysIn
        <4>2. QED BY <2>3, <2>5, <3>1, <3>4, <4>1
      <3>5. QED BY <2>9, <3>1, <3>2, <3>3, <3>4
    <2>13. QED BY <2>1, <2>6, <2>7, <2>8, <2>11, <2>12 DEF j
  <1>4. QED BY <1>2, <1>3

-----------------------------------------------------------------------------
(* The balances.                                                           *)

BookPlaces == UserPlaces(Traders) \cup {OfSystem(w) : w \in SystemWallets}
Reaches(l, p) == p \in BookPlaces /\ (p.owner = SYSTEM \/ p.owner \in DOMAIN l.accounts)
AllMoney(l) == UsersTotal(l) + Total(l.system)

\* Only the balance at one place changes.
Shifted(l, m, at, amount) ==
    \A p \in BookPlaces : Balance(m, p) = Balance(l, p) + Count(p = at, amount)

\* The places of the books.
LEMMA PlacesAre ==
    /\ \A p \in BookPlaces : p \in EntryPlaces
    /\ \A p \in UserPlaces(Traders) : p \in BookPlaces /\ p.owner \in Traders /\ p.owner # SYSTEM
    /\ \A p \in BookPlaces : p \in UserPlaces(Traders) \/
                             \E w \in SystemWallets : p = OfSystem(w)
    /\ \A w \in SystemWallets : OfSystem(w) \in BookPlaces /\ OfSystem(w).owner = SYSTEM
                                /\ OfSystem(w).wallet = w
    /\ \A w \in UserWallets \cup SystemWallets : OfSystem(w) \in EntryPlaces
    /\ \A u \in Traders, w \in UserWallets, f \in Fields :
          /\ Place(u, w, f) \in UserPlaces(Traders) /\ Place(u, w, f).owner = u
          /\ Place(u, w, f).wallet = w /\ Place(u, w, f).field = f
  BY TradersAre DEF BookPlaces, EntryPlaces, UserPlaces, OfSystem, Place, Fields

\* Balances are integers.
LEMMA BalanceInt ==
    ASSUME NEW l \in Books
    PROVE  /\ \A p \in BookPlaces : Balance(l, p) \in Int
           /\ \A w \in SystemWallets : Balance(l, OfSystem(w)) = l.system[w]
  <1>1. l.system \in [SystemWallets -> Int] BY DEF Books, Ledgers
  <1>2. \A w \in SystemWallets : Balance(l, OfSystem(w)) = l.system[w] /\ l.system[w] \in Int
    <2>1. TAKE w \in SystemWallets
    <2>2. OfSystem(w).owner = SYSTEM /\ OfSystem(w).wallet = w BY PlacesAre
    <2>3. Balance(l, OfSystem(w)) = l.system[w]
      <3>1. DOMAIN l.accounts \in SUBSET Traders BY AccountsAre DEF Books, Ledgers
      <3>2. SYSTEM \notin DOMAIN l.accounts BY <3>1, TradersAre
      <3>3. QED BY <2>2, <3>2 DEF Balance
    <2>4. QED BY <1>1, <2>3
  <1>3. \A p \in UserPlaces(Traders) : Balance(l, p) \in Int
    BY TradersAre, BalanceType DEF Books
  <1>4. QED BY <1>2, <1>3, PlacesAre

\* Balances and their sum depend on the accounts and on SYSTEM's wallets.
LEMMA SameMoney ==
    ASSUME NEW l \in Books, NEW m \in Books, m.accounts = l.accounts, m.system = l.system
    PROVE  /\ \A p : Balance(m, p) = Balance(l, p)
           /\ AllMoney(m) = AllMoney(l)
  <1>1. \A p : Balance(m, p) = Balance(l, p) BY DEF Balance
  <1>2. Places(m) = Places(l) BY DEF Places
  <1>3. UsersTotal(m) = UsersTotal(l) BY <1>1, <1>2 DEF UsersTotal
  <1>4. QED BY <1>1, <1>3 DEF AllMoney

\* A credit moves one balance, and the sum of all, by its amount.
LEMMA Credited ==
    ASSUME NEW l \in Books, NEW at, Reaches(l, at), NEW amount \in Int,
           NEW m, m = Credit(l, at, amount)
    PROVE  /\ m \in Books /\ DOMAIN m.accounts = DOMAIN l.accounts
           /\ m.journal = l.journal /\ m.keys = l.keys
           /\ Shifted(l, m, at, amount)
           /\ AllMoney(l) \in Int /\ AllMoney(m) = AllMoney(l) + amount
  <1> USE DEF Books
  <1>1. /\ l.accounts \in Accounts(Traders) /\ l.system \in [SystemWallets -> Int]
        /\ l.journal \in Seq(AnyEntry) /\ l.keys \in SUBSET Keys
    BY DEF Ledgers, AnyEntry
  <1>2. CASE at \in UserPlaces(Traders)
    <2>1. at.owner \in DOMAIN l.accounts /\ at.owner # SYSTEM BY <1>2, PlacesAre DEF Reaches
    <2>2. /\ m \in Books /\ DOMAIN m.accounts = DOMAIN l.accounts
          /\ m.system = l.system /\ m.journal = l.journal /\ m.keys = l.keys
          /\ Moved(Traders, l, m, at, amount)
      BY <1>2, <2>1, TradersAre, AccountCredited
    <2>3. UsersTotal(l) \in Int /\ UsersTotal(m) = UsersTotal(l) + amount
      <3>1. DOMAIN m.accounts = DOMAIN l.accounts \cup {at.owner} BY <2>1, <2>2
      <3>2. QED BY <1>2, <2>2, <3>1, TradersAre, UsersTotalGrows
    <2>4. Total(l.system) \in Int
      <3>1. "Funding" \in SystemWallets BY DEF SystemWallets
      <3> DEFINE z == [l.system EXCEPT !["Funding"] = @ + 0]
      <3>2. z = [l.system EXCEPT !["Funding"] = @ + 0] OBVIOUS
      <3> HIDE DEF z
      <3>3. QED BY <1>1, <3>1, <3>2, SystemTotalGrows
    <2>5. Shifted(l, m, at, amount)
      <3>1. \A p \in UserPlaces(Traders) : Balance(m, p) = Balance(l, p) + Count(p = at, amount)
        BY <2>2 DEF Moved, Count
      <3>2. ASSUME NEW w \in SystemWallets
            PROVE  Balance(m, OfSystem(w)) = Balance(l, OfSystem(w)) + Count(OfSystem(w) = at, amount)
        <4>1. Balance(m, OfSystem(w)) = Balance(l, OfSystem(w)) /\ Balance(l, OfSystem(w)) \in Int
          BY <2>2, BalanceInt, PlacesAre
        <4>2. OfSystem(w) # at BY <2>1, PlacesAre
        <4>3. Count(OfSystem(w) = at, amount) = 0 BY <4>2 DEF Count
        <4>4. QED BY <4>1, <4>3
      <3>3. QED BY <3>1, <3>2, PlacesAre DEF Shifted
    <2>6. AllMoney(l) = UsersTotal(l) + Total(l.system) /\ AllMoney(m) = UsersTotal(m) + Total(l.system)
      BY <2>2 DEF AllMoney
    <2>7. QED BY <2>2, <2>3, <2>4, <2>5, <2>6
  <1>3. ASSUME NEW w \in SystemWallets, at = OfSystem(w)
        PROVE  /\ m \in Books /\ DOMAIN m.accounts = DOMAIN l.accounts
               /\ m.journal = l.journal /\ m.keys = l.keys
               /\ Shifted(l, m, at, amount)
               /\ AllMoney(l) \in Int /\ AllMoney(m) = AllMoney(l) + amount
    <2> DEFINE z == [l.system EXCEPT ![w] = @ + amount]
    <2>1. m = [l EXCEPT !.system = z] BY <1>3, PlacesAre DEF Credit
    <2>2. /\ z \in [SystemWallets -> Int] /\ z[w] = l.system[w] + amount
          /\ \A v \in SystemWallets : v # w => z[v] = l.system[v]
      BY <1>1
    <2>3. Total(l.system) \in Int /\ Total(z) = Total(l.system) + amount
      BY <1>1, SystemTotalGrows
    <2> HIDE DEF z
    <2>4. /\ m \in Books /\ m.accounts = l.accounts /\ m.journal = l.journal /\ m.keys = l.keys
          /\ m.system = z
      BY <1>1, <2>1, <2>2 DEF Ledgers, AnyEntry
    <2>5. \A p \in UserPlaces(Traders) : Balance(m, p) = Balance(l, p) /\ Balance(l, p) \in Int
      BY <2>4, PlacesAre, BalanceInt DEF Balance
    <2>6. Places(m) = Places(l) /\ \A p \in Places(l) : p \in UserPlaces(Traders)
      <3>1. Places(m) = Places(l) BY <2>4 DEF Places
      <3>2. Places(l) = {p \in UserPlaces(Traders) : p.owner \in DOMAIN l.accounts}
        BY TradersAre, PlacesFinite
      <3>3. QED BY <3>1, <3>2
    <2>7. UsersTotal(m) = UsersTotal(l)
      <3>1. [p \in Places(m) |-> Balance(m, p)] = [p \in Places(l) |-> Balance(l, p)]
        BY <2>5, <2>6
      <3>2. QED BY <3>1 DEF UsersTotal
    <2>8. UsersTotal(l) \in Int
      <3> DEFINE f == [p \in Places(l) |-> Balance(l, p)]
      <3>1. DOMAIN f = Places(l) /\ IsIntOn(f, Places(l)) BY <2>5, <2>6 DEF IsIntOn
      <3>2. IsFiniteSet(Places(l)) BY TradersAre, PlacesFinite
      <3>3. UsersTotal(l) = SumFunctionOnSet(f, Places(l)) BY <3>1 DEF UsersTotal, Total
      <3> HIDE DEF f
      <3>4. QED BY <3>1, <3>2, <3>3, SumInt
    <2>9. Shifted(l, m, at, amount)
      <3>1. ASSUME NEW p \in UserPlaces(Traders)
            PROVE  Balance(m, p) = Balance(l, p) + Count(p = at, amount)
        <4>1. p # at BY <1>3, PlacesAre
        <4>2. Count(p = at, amount) = 0 BY <4>1 DEF Count
        <4>3. QED BY <2>5, <4>2
      <3>2. ASSUME NEW v \in SystemWallets
            PROVE  Balance(m, OfSystem(v)) = Balance(l, OfSystem(v)) + Count(OfSystem(v) = at, amount)
        <4>1. Balance(m, OfSystem(v)) = z[v] /\ Balance(l, OfSystem(v)) = l.system[v]
              /\ l.system[v] \in Int
          BY <1>1, <2>4, BalanceInt
        <4>2. OfSystem(v) = at <=> v = w BY <1>3, PlacesAre
        <4>3. QED BY <2>2, <4>1, <4>2 DEF Count
      <3>3. QED BY <3>1, <3>2, PlacesAre DEF Shifted
    <2>10. AllMoney(l) = UsersTotal(l) + Total(l.system) /\ AllMoney(m) = UsersTotal(l) + Total(z)
      BY <2>4, <2>7 DEF AllMoney
    <2>11. QED BY <2>3, <2>4, <2>8, <2>9, <2>10
  <1>4. at \in UserPlaces(Traders) \/ \E w \in SystemWallets : at = OfSystem(w)
    BY PlacesAre DEF Reaches
  <1>5. QED BY <1>2, <1>3, <1>4

-----------------------------------------------------------------------------
(* Steps of a call.                                                        *)

\* Who may be overdrawn: SYSTEM's pool, and what is not frozen.
Loose(p) == IF p.owner = SYSTEM THEN p.wallet = "Funding" ELSE p.field # "frozen"
NeverOverdrawn(l) == \A p \in BookPlaces : Loose(p) \/ Balance(l, p) >= 0

\* A ledger whose books balance, with entries under keys of A, one each.
Tidy(l, A) ==
    /\ l \in Books
    /\ AllMoney(l) = Owed(l.journal)
    /\ NeverOverdrawn(l)
    /\ Unique(l.journal) /\ KeysIn(l.journal) \subseteq A

\* What no entry tells: it never changes, except for the users in X.
Untold(l, p) == Balance(l, p) - Booked(l.journal, p)
Told(l, m, X) ==
    /\ Extends(l.journal, m.journal)
    /\ \A p \in UserPlaces(Traders) : p.owner \in X \/ Untold(m, p) = Untold(l, p)

\* One step of a call after another.
Follows(l, m, X) ==
    /\ DOMAIN m.accounts = DOMAIN l.accounts /\ m.keys = l.keys
    /\ Told(l, m, X)

\* amount goes from one place to another.
Passed(l, m, from, to, amount) ==
    \A p \in BookPlaces :
        Balance(m, p) = Balance(l, p) + Count(p = to, amount) - Count(p = from, amount)

\* Entries that say nothing about money from outside or settled.
Inner(type, from, to) ==
    /\ type \in JournalTypes /\ type # "Deposit" /\ type # "Withdrawal"
    /\ type = "PositionClose" => from # OfSystem("Escrow") /\ to # OfSystem("Escrow")

\* A journal extends itself, and what extends what extends it.
LEMMA ToldOn ==
    ASSUME NEW l \in Books, NEW m \in Books, NEW n \in Books, NEW X, NEW Y,
           Told(l, m, X), Told(m, n, Y)
    PROVE  Told(l, l, X) /\ Told(l, n, X \cup Y)
  <1>1. \A b \in Books : Len(b.journal) \in Nat BY DEF Books, Ledgers
  <1>2. Extends(l.journal, l.journal) BY <1>1 DEF Extends
  <1>3. Extends(l.journal, n.journal)
    <2>1. Len(l.journal) \in Nat /\ Len(m.journal) \in Nat /\ Len(n.journal) \in Nat BY <1>1
    <2>2. Extends(l.journal, m.journal) /\ Extends(m.journal, n.journal) BY DEF Told
    <2>3. \A i \in 1 .. Len(l.journal) : i \in 1 .. Len(m.journal) BY <2>1, <2>2 DEF Extends
    <2>4. QED BY <2>1, <2>2, <2>3 DEF Extends
  <1>4. QED BY <1>2, <1>3 DEF Told

\* A ledger follows itself.
LEMMA FollowsSelf == ASSUME NEW l \in Books, NEW X PROVE Follows(l, l, X)
  <1>1. Len(l.journal) \in Nat BY DEF Books, Ledgers
  <1>2. QED BY <1>1 DEF Follows, Told, Extends

\* Steps follow each other.
LEMMA FollowsOn ==
    ASSUME NEW l \in Books, NEW m \in Books, NEW n \in Books, NEW X, NEW Y,
           Follows(l, m, X), Follows(m, n, Y)
    PROVE  Follows(l, n, X \cup Y)
  BY ToldOn DEF Follows

\* What a user has is told when the entry tells what was credited.
LEMMA NotedTold ==
    ASSUME NEW l \in Books, NEW c \in Books, c.journal = l.journal, c.keys = l.keys,
           DOMAIN c.accounts = DOMAIN l.accounts,
           NEW from \in EntryPlaces, NEW to \in EntryPlaces, NEW amount \in Int,
           NEW type \in JournalTypes, NEW key \in Keys,
           NEW m, m = Noted(c, from, to, amount, type, key),
           NEW X,
           \A p \in UserPlaces(Traders) : \/ p.owner \in X
                                          \/ Balance(c, p) = Balance(l, p)
                                                + Count(amount > 0 /\ p = to, amount)
                                                - Count(amount > 0 /\ p = from, amount)
    PROVE  m \in Books /\ Follows(l, m, X)
  <1> DEFINE e == JournalEntry(from, to, amount, type, key)
  <1>1. /\ m \in Books /\ m.accounts = c.accounts /\ m.system = c.system /\ m.keys = c.keys
        /\ Extends(c.journal, m.journal)
        /\ amount <= 0 => m = c
        /\ amount > 0 => \A p : Booked(m.journal, p) = Booked(c.journal, p) + Share(e, p)
    <2>1. Noting(c, m, from, to, amount, type, key) BY DEF Noting
    <2>2. QED BY <2>1, NotedEffect
  <1>2. ASSUME NEW p \in UserPlaces(Traders), p.owner \notin X PROVE Untold(m, p) = Untold(l, p)
    <2>1. Balance(m, p) = Balance(c, p) BY <1>1, SameMoney
    <2>2. /\ Balance(l, p) \in Int /\ Booked(l.journal, p) \in Int
      BY PlacesAre, BalanceInt, SumsInt DEF Books, Ledgers, AnyEntry
    <2>3. Balance(c, p) = Balance(l, p) + Count(amount > 0 /\ p = to, amount)
                                        - Count(amount > 0 /\ p = from, amount)
      BY <1>2
    <2>4. CASE amount <= 0
      <3>1. Booked(m.journal, p) = Booked(l.journal, p) BY <1>1, <2>4
      <3>2. ~(amount > 0) BY <2>4
      <3>3. Balance(c, p) = Balance(l, p) BY <2>2, <2>3, <3>2 DEF Count
      <3>4. QED BY <2>1, <3>1, <3>3 DEF Untold
    <2>5. CASE amount > 0
      <3>1. e.credit = to /\ e.debit = from /\ e.amount = amount BY DEF JournalEntry
      <3> DEFINE a == Count(p = to, amount)
                 b == Count(p = from, amount)
      <3>2. Booked(m.journal, p) = Booked(l.journal, p) + (a - b)
        BY <1>1, <2>5, <3>1 DEF Share, Count
      <3>3. Balance(m, p) = Balance(l, p) + a - b BY <2>1, <2>3, <2>5 DEF Count
      <3>4. a \in Int /\ b \in Int BY DEF Count
      <3> HIDE DEF a, b
      <3>5. QED BY <2>2, <3>2, <3>3, <3>4 DEF Untold
    <2>6. QED BY <2>4, <2>5
  <1>3. QED BY <1>1, <1>2 DEF Follows, Told

\* A transfer keeps the books.
LEMMA TransferKeeps ==
    ASSUME NEW A, NEW l, Tidy(l, A), NEW from, NEW to, Reaches(l, from), Reaches(l, to),
           NEW amount \in Nat, NEW type, Inner(type, from, to),
           NEW key \in Keys, key \notin A,
           Loose(from) \/ Balance(l, from) >= amount,
           NEW m, m = Transferred(l, from, to, amount, type, key)
    PROVE  Tidy(m, A \cup {key}) /\ Follows(l, m, {}) /\ Passed(l, m, from, to, amount)
  <1> DEFINE b == Credit(l, from, -amount)
             c == Credit(b, to, amount)
             e == JournalEntry(from, to, amount, type, key)
  <1>1. /\ l \in Books /\ AllMoney(l) = Owed(l.journal) /\ Unique(l.journal)
        /\ KeysIn(l.journal) \subseteq A /\ NeverOverdrawn(l)
        /\ from \in BookPlaces /\ to \in BookPlaces /\ -amount \in Int /\ amount \in Int
        /\ type \in JournalTypes
    BY DEF Tidy, Reaches, Inner
  <1>2. /\ b \in Books /\ DOMAIN b.accounts = DOMAIN l.accounts
        /\ b.journal = l.journal /\ b.keys = l.keys
        /\ Shifted(l, b, from, -amount)
        /\ AllMoney(l) \in Int /\ AllMoney(b) = AllMoney(l) + (-amount)
    BY <1>1, Credited
  <1> HIDE DEF b
  <1>3. /\ c \in Books /\ DOMAIN c.accounts = DOMAIN b.accounts
        /\ c.journal = b.journal /\ c.keys = b.keys
        /\ Shifted(b, c, to, amount)
        /\ AllMoney(b) \in Int /\ AllMoney(c) = AllMoney(b) + amount
    <2>1. Reaches(b, to) BY <1>2 DEF Reaches
    <2>2. QED BY <1>1, <1>2, <2>1, Credited
  <1>4. m = Noted(c, from, to, amount, type, key) BY DEF Transferred, b
  <1> HIDE DEF c
  <1>5. /\ m \in Books /\ m.accounts = c.accounts /\ m.system = c.system /\ m.keys = c.keys
        /\ KeysIn(m.journal) \subseteq KeysIn(c.journal) \cup {key}
        /\ Unique(c.journal) /\ key \notin KeysIn(c.journal) => Unique(m.journal)
        /\ amount <= 0 => m = c
        /\ amount > 0 => Owed(m.journal) = Owed(c.journal) + Weight(e)
    <2>1. from \in EntryPlaces /\ to \in EntryPlaces BY <1>1, PlacesAre
    <2>2. Noting(c, m, from, to, amount, type, key) BY <1>1, <1>3, <1>4, <2>1 DEF Noting
    <2>3. QED BY <2>2, NotedEffect
  <1>6. ASSUME NEW p \in BookPlaces
        PROVE  /\ Balance(m, p) = Balance(l, p) + Count(p = to, amount) - Count(p = from, amount)
               /\ Balance(c, p) = Balance(m, p)
    <2>1. Balance(m, p) = Balance(c, p) BY <1>3, <1>5, SameMoney
    <2>2. Balance(b, p) = Balance(l, p) + Count(p = from, -amount) BY <1>2 DEF Shifted
    <2>3. Balance(c, p) = Balance(b, p) + Count(p = to, amount) BY <1>3 DEF Shifted
    <2>4. Balance(l, p) \in Int BY <1>1, BalanceInt
    <2>5. QED BY <2>1, <2>2, <2>3, <2>4 DEF Count
  <1>7. Follows(l, m, {})
    <2>1. ASSUME NEW p \in UserPlaces(Traders)
          PROVE  Balance(c, p) = Balance(l, p) + Count(amount > 0 /\ p = to, amount)
                                               - Count(amount > 0 /\ p = from, amount)
      <3>1. p \in BookPlaces BY PlacesAre
      <3>2. Count(amount > 0 /\ p = to, amount) = Count(p = to, amount)
        BY DEF Count
      <3>3. Count(amount > 0 /\ p = from, amount) = Count(p = from, amount)
        BY DEF Count
      <3>4. QED BY <1>6, <3>1, <3>2, <3>3
    <2>2. c.journal = l.journal /\ c.keys = l.keys /\ DOMAIN c.accounts = DOMAIN l.accounts
      BY <1>2, <1>3
    <2>3. from \in EntryPlaces /\ to \in EntryPlaces BY <1>1, PlacesAre
    <2> DEFINE X == {}
    <2>4. \A p \in UserPlaces(Traders) : \/ p.owner \in X
                                         \/ Balance(c, p) = Balance(l, p)
                                                + Count(amount > 0 /\ p = to, amount)
                                                - Count(amount > 0 /\ p = from, amount)
      BY <2>1
    <2> HIDE DEF X
    <2>5. m \in Books /\ Follows(l, m, X)
      BY <1>1, <1>3, <1>4, <2>2, <2>3, <2>4, NotedTold
    <2>6. QED BY <2>5 DEF X
  <1>8. AllMoney(m) = Owed(m.journal)
    <2>1. AllMoney(m) = AllMoney(c) BY <1>3, <1>5, SameMoney
    <2>2. AllMoney(c) = AllMoney(l) BY <1>2, <1>3
    <2>3. Owed(m.journal) = Owed(l.journal)
      <3>1. c.journal = l.journal BY <1>2, <1>3
      <3>2. CASE amount <= 0 BY <1>5, <3>1, <3>2
      <3>3. CASE amount > 0
        <4>1. e.type = type /\ e.credit = to /\ e.debit = from BY DEF JournalEntry
        <4>2. Weight(e) = 0 BY <4>1 DEF Weight, Inner, Count
        <4>3. Owed(l.journal) \in Int BY <1>1, SumsInt DEF Books, Ledgers, AnyEntry
        <4>4. QED BY <1>5, <3>1, <3>3, <4>2, <4>3
      <3>4. QED BY <3>2, <3>3
    <2>4. QED BY <1>1, <2>1, <2>2, <2>3
  <1>9. NeverOverdrawn(m)
    <2>1. SUFFICES ASSUME NEW p \in BookPlaces, ~Loose(p) PROVE Balance(m, p) >= 0
      BY DEF NeverOverdrawn
    <2>2. Balance(l, p) \in Int /\ Balance(l, p) >= 0 BY <1>1, <2>1, BalanceInt DEF NeverOverdrawn
    <2>3. Balance(m, p) = Balance(l, p) + Count(p = to, amount) - Count(p = from, amount) BY <1>6
    <2>4. p = from => Balance(l, p) >= amount BY <2>1
    <2>5. QED BY <2>2, <2>3, <2>4 DEF Count
  <1>10. Unique(m.journal) /\ KeysIn(m.journal) \subseteq A \cup {key}
    <2>1. c.journal = l.journal BY <1>2, <1>3
    <2>2. QED BY <1>1, <1>5, <2>1
  <1>11. Passed(l, m, from, to, amount) BY <1>6 DEF Passed
  <1>12. QED BY <1>5, <1>7, <1>8, <1>9, <1>10, <1>11 DEF Tidy

\* Money that comes from outside, goes there, or is settled against the escrow
\* on paper: m is l after a loose place of a user received change.
OneSided(l, m, at, other, change, type, key) ==
    m = IF change > 0 THEN Noted(Credit(l, at, change), other, at, change, type, key)
        ELSE Noted(Credit(l, at, change), at, other, -change, type, key)
Outer(type, other, change) ==
    \/ type = "Deposit" /\ change > 0
    \/ type = "Withdrawal" /\ change <= 0
    \/ type = "PositionClose" /\ other = OfSystem("Escrow")

\* It keeps the books too.
LEMMA OneSidedKeeps ==
    ASSUME NEW A, NEW l, Tidy(l, A), NEW at \in UserPlaces(Traders), Reaches(l, at), Loose(at),
           NEW other \in EntryPlaces, other.owner = SYSTEM,
           NEW change \in Int, NEW type \in JournalTypes, Outer(type, other, change),
           NEW key \in Keys, key \notin A,
           NEW m, OneSided(l, m, at, other, change, type, key)
    PROVE  Tidy(m, A \cup {key}) /\ Follows(l, m, {}) /\ Shifted(l, m, at, change)
  <1> DEFINE c == Credit(l, at, change)
             from == IF change > 0 THEN other ELSE at
             to == IF change > 0 THEN at ELSE other
             amount == IF change > 0 THEN change ELSE -change
             e == JournalEntry(from, to, amount, type, key)
  <1>1. /\ l \in Books /\ AllMoney(l) = Owed(l.journal) /\ Unique(l.journal)
        /\ KeysIn(l.journal) \subseteq A /\ NeverOverdrawn(l) /\ at \in BookPlaces
    BY PlacesAre DEF Tidy
  <1>2. /\ c \in Books /\ DOMAIN c.accounts = DOMAIN l.accounts
        /\ c.journal = l.journal /\ c.keys = l.keys
        /\ Shifted(l, c, at, change)
        /\ AllMoney(l) \in Int /\ AllMoney(c) = AllMoney(l) + change
    BY <1>1, Credited
  <1>3. m = Noted(c, from, to, amount, type, key) BY DEF OneSided
  <1>4. /\ at.owner # SYSTEM /\ at # other /\ at # OfSystem("Escrow")
        /\ at \in EntryPlaces
    <2>1. at.owner # SYSTEM BY PlacesAre
    <2>2. OfSystem("Escrow").owner = SYSTEM BY DEF OfSystem, Place
    <2>3. QED BY <1>1, <2>1, <2>2, PlacesAre
  <1>5. from \in EntryPlaces /\ to \in EntryPlaces /\ amount \in Nat BY <1>4
  <1> HIDE DEF c
  <1>6. /\ m \in Books /\ m.accounts = c.accounts /\ m.system = c.system /\ m.keys = c.keys
        /\ KeysIn(m.journal) \subseteq KeysIn(c.journal) \cup {key}
        /\ Unique(c.journal) /\ key \notin KeysIn(c.journal) => Unique(m.journal)
        /\ amount <= 0 => m = c
        /\ amount > 0 => Owed(m.journal) = Owed(c.journal) + Weight(e)
    <2> HIDE DEF from, to, amount, e
    <2>1. amount \in Int BY <1>5
    <2>2. Noting(c, m, from, to, amount, type, key) BY <1>2, <1>3, <1>5, <2>1 DEF Noting
    <2>3. QED BY <2>2, NotedEffect DEF e
  <1>7. Shifted(l, m, at, change)
    <2>1. \A p \in BookPlaces : Balance(m, p) = Balance(c, p) BY <1>2, <1>6, SameMoney
    <2>2. QED BY <1>2, <2>1 DEF Shifted
  <1>8. Follows(l, m, {})
    <2> DEFINE X == {}
    <2>1. ASSUME NEW p \in UserPlaces(Traders)
          PROVE  Balance(c, p) = Balance(l, p) + Count(amount > 0 /\ p = to, amount)
                                               - Count(amount > 0 /\ p = from, amount)
      <3>1. p \in BookPlaces /\ p # other BY PlacesAre
      <3>2. Balance(l, p) \in Int BY <1>1, <3>1, BalanceInt
      <3>3. Balance(c, p) = Balance(l, p) + Count(p = at, change) BY <1>2, <3>1 DEF Shifted
      <3>4. CASE p = at BY <1>4, <3>2, <3>3, <3>4 DEF Count
      <3>5. CASE p # at BY <3>1, <3>2, <3>3, <3>5 DEF Count
      <3>6. QED BY <3>4, <3>5
    <2>2. \A p \in UserPlaces(Traders) : \/ p.owner \in X
                                         \/ Balance(c, p) = Balance(l, p)
                                                + Count(amount > 0 /\ p = to, amount)
                                                - Count(amount > 0 /\ p = from, amount)
      BY <2>1
    <2> HIDE DEF X, from, to, amount
    <2>3. amount \in Int BY <1>5
    <2>4. m \in Books /\ Follows(l, m, X) BY <1>1, <1>2, <1>3, <1>5, <2>2, <2>3, NotedTold
    <2>5. QED BY <2>4 DEF X
  <1>9. AllMoney(m) = Owed(m.journal)
    <2>1. AllMoney(m) = Owed(l.journal) + change BY <1>1, <1>2, <1>6, SameMoney
    <2>2. Owed(l.journal) \in Int BY <1>1, SumsInt DEF Books, Ledgers, AnyEntry
    <2>3. CASE change = 0
      <3>1. amount <= 0 BY <2>3
      <3>2. Owed(m.journal) = Owed(l.journal) BY <1>2, <1>6, <3>1
      <3>3. QED BY <2>1, <2>2, <2>3, <3>2
    <2>4. CASE change # 0
      <3>1. amount > 0 BY <2>4
      <3>2. e.type = type /\ e.credit = to /\ e.debit = from /\ e.amount = amount
        BY DEF JournalEntry
      <3>3. Weight(e) = change
        <4> HIDE DEF e
        <4>1. CASE type = "Deposit" /\ change > 0
          BY <3>2, <4>1 DEF Weight, Count
        <4>2. CASE type = "Withdrawal" /\ change <= 0
          BY <3>2, <4>2 DEF Weight, Count
        <4>3. CASE type = "PositionClose" /\ other = OfSystem("Escrow")
          BY <1>4, <3>2, <4>3 DEF Weight, Count
        <4>4. QED BY <4>1, <4>2, <4>3 DEF Outer
      <3>4. QED BY <1>2, <1>6, <2>1, <3>1, <3>3
    <2>5. QED BY <2>3, <2>4
  <1>10. NeverOverdrawn(m)
    <2>1. SUFFICES ASSUME NEW p \in BookPlaces, ~Loose(p) PROVE Balance(m, p) >= 0
      BY DEF NeverOverdrawn
    <2>2. Balance(l, p) \in Int /\ Balance(l, p) >= 0 BY <1>1, <2>1, BalanceInt DEF NeverOverdrawn
    <2>3. p # at BY <2>1
    <2>4. Balance(m, p) = Balance(l, p) BY <1>7, <2>2, <2>3 DEF Shifted, Count
    <2>5. QED BY <2>2, <2>4
  <1>11. Unique(m.journal) /\ KeysIn(m.journal) \subseteq A \cup {key}
    BY <1>1, <1>2, <1>6
  <1>12. QED BY <1>6, <1>7, <1>8, <1>9, <1>10, <1>11 DEF Tidy

\* Opening an account keeps the books.
LEMMA OpenedKeeps ==
    ASSUME NEW A, NEW l, Tidy(l, A), NEW user \in Traders,
           NEW m, m = GetOrCreateAccount(l, user)
    PROVE  /\ Tidy(m, A) /\ Told(l, m, {}) /\ m.keys = l.keys
           /\ DOMAIN m.accounts = DOMAIN l.accounts \cup {user}
           /\ \A p \in BookPlaces : Balance(m, p) = Balance(l, p)
  <1>1. /\ l \in Books /\ AllMoney(l) = Owed(l.journal) /\ Unique(l.journal)
        /\ KeysIn(l.journal) \subseteq A /\ NeverOverdrawn(l)
    BY DEF Tidy
  <1>2. /\ m \in Books
        /\ DOMAIN m.accounts = DOMAIN l.accounts \cup {user}
        /\ m.system = l.system /\ m.journal = l.journal /\ m.keys = l.keys
        /\ \A p \in UserPlaces(Traders) : Balance(m, p) = Balance(l, p)
    BY <1>1, TradersAre, AccountOpened DEF Books
  <1>3. UsersTotal(l) \in Int /\ UsersTotal(m) = UsersTotal(l)
    <2> DEFINE at == Place(user, "Futures", "margin")
               none == 0
    <2>1. at \in UserPlaces(Traders) /\ at.owner = user
      BY PlacesAre DEF UserWallets, Fields
    <2>2. Moved(Traders, l, m, at, none)
      <3>1. \A p \in UserPlaces(Traders) : Balance(l, p) \in Int BY <1>1, BalanceInt, PlacesAre
      <3>2. QED BY <1>2, <3>1 DEF Moved
    <2>3. none \in Int OBVIOUS
    <2> HIDE DEF at, none
    <2>4. UsersTotal(l) \in Int /\ UsersTotal(m) = UsersTotal(l) + none
      BY <1>1, <1>2, <2>1, <2>2, <2>3, TradersAre, UsersTotalGrows DEF Books
    <2>5. QED BY <2>4 DEF none
  <1>4. AllMoney(m) = Owed(m.journal) BY <1>1, <1>2, <1>3 DEF AllMoney
  <1>5. \A p \in BookPlaces : Balance(m, p) = Balance(l, p)
    <2>1. \A w \in SystemWallets : Balance(m, OfSystem(w)) = Balance(l, OfSystem(w))
      BY <1>1, <1>2, BalanceInt
    <2>2. QED BY <1>2, <2>1, PlacesAre
  <1>6. NeverOverdrawn(m) BY <1>1, <1>5 DEF NeverOverdrawn
  <1>7. Told(l, m, {})
    <2>1. \A p \in UserPlaces(Traders) : Untold(m, p) = Untold(l, p) BY <1>2 DEF Untold
    <2>2. Len(l.journal) \in Nat BY <1>1 DEF Books, Ledgers
    <2>3. Extends(l.journal, m.journal) BY <1>2, <2>2 DEF Extends
    <2>4. QED BY <2>1, <2>3 DEF Told
  <1>8. QED BY <1>1, <1>2, <1>4, <1>5, <1>6, <1>7 DEF Tidy

-----------------------------------------------------------------------------
(* Operations of the ledger.                                               *)

\* A ledger between two calls: each entry is under a key that was used.
Sound(l) == Tidy(l, Families(l.keys)) /\ l.keys \subseteq BaseKeys

Margin(l, u) == Balance(l, Futures(u, "margin"))
SameMargins(l, m) == \A u \in Traders : Margin(m, u) = Margin(l, u)

\* m is d, in which a call under key has left its entries, with the key used.
Marked(l, d, m, key) ==
    /\ l.keys \subseteq BaseKeys /\ key \in BaseKeys
    /\ Tidy(d, Families(l.keys) \cup Family(key)) /\ d.keys = l.keys
    /\ m = [d EXCEPT !.keys = @ \cup {key}]

\* One more key is used.
LEMMA KeyUsed ==
    ASSUME NEW l, NEW d, NEW m, NEW key, Marked(l, d, m, key)
    PROVE  /\ Sound(m) /\ m.accounts = d.accounts /\ m.system = d.system
           /\ m.journal = d.journal /\ m.keys = l.keys \cup {key}
           /\ \A p : Balance(m, p) = Balance(d, p)
  <1> USE DEF Marked
  <1>1. /\ d \in Books /\ AllMoney(d) = Owed(d.journal) /\ NeverOverdrawn(d)
        /\ Unique(d.journal) /\ KeysIn(d.journal) \subseteq Families(l.keys) \cup Family(key)
    BY DEF Tidy
  <1>2. key \in Keys BY DEF BaseKeys
  <1>3. /\ m \in Books /\ m.accounts = d.accounts /\ m.system = d.system
        /\ m.journal = d.journal /\ m.keys = l.keys \cup {key}
    BY <1>1, <1>2 DEF Books, Ledgers
  <1>4. (\A p : Balance(m, p) = Balance(d, p)) /\ AllMoney(m) = AllMoney(d)
    BY <1>1, <1>3, SameMoney
  <1>5. NeverOverdrawn(m) BY <1>1, <1>4 DEF NeverOverdrawn
  <1>6. Families(m.keys) = Families(l.keys) \cup Family(key) BY <1>3 DEF Families
  <1>7. Sound(m) BY <1>1, <1>3, <1>4, <1>5, <1>6 DEF Sound, Tidy
  <1>8. QED BY <1>3, <1>4, <1>7

\* What an operation has done when it succeeded under a new key.
Done(l, d, key, X) ==
    /\ Tidy(d, Families(l.keys) \cup Family(key)) /\ d.keys = l.keys
    /\ Told(l, d, X)

DoneIf(l, d, key, user, valid, enough, X) ==
    valid /\ key \notin l.keys /\ user \in DOMAIN l.accounts /\ enough => Done(l, d, key, X)

\* What it then leaves.
Answered(l, d, key, user, valid, enough, X, out) ==
    /\ Sound(out.ledger) /\ Told(l, out.ledger, X)
    /\ valid /\ key \notin l.keys /\ user \in DOMAIN l.accounts /\ enough =>
          /\ out.error = "none" /\ DOMAIN out.ledger.accounts = DOMAIN d.accounts
          /\ out.ledger.system = d.system
          /\ out.ledger.journal = d.journal
          /\ \A p : Balance(out.ledger, p) = Balance(d, p)
    /\ ~(valid /\ key \notin l.keys /\ user \in DOMAIN l.accounts /\ enough) =>
          /\ out.error # "none" \/ Used(l, key)
          /\ out.ledger.accounts = l.accounts /\ out.ledger.system = l.system
          /\ out.ledger.journal = l.journal
          /\ \A p : Balance(out.ledger, p) = Balance(l, p)

\* An operation keeps the books when it does so once it runs.
LEMMA OnceKeeps ==
    ASSUME NEW l, Sound(l), NEW key \in BaseKeys, NEW user, NEW valid \in BOOLEAN,
           NEW enough \in BOOLEAN, NEW d, NEW X, DoneIf(l, d, key, user, valid, enough, X),
           NEW out, out = Checked(l, valid, Once(l, key, user, enough, d))
    PROVE  Answered(l, d, key, user, valid, enough, X, out)
  <1> USE DEF DoneIf, Answered
  <1>1. l \in Books /\ l.keys \subseteq BaseKeys BY DEF Sound, Tidy
  <1>2. Told(l, l, X) BY <1>1, FollowsSelf DEF Follows
  <1>3. CASE ~valid
    <2>1. out.ledger = l /\ out.error = "InvalidQuantity" BY <1>3 DEF Checked, Refused
    <2>2. QED BY <1>2, <1>3, <2>1
  <1>4. CASE valid /\ key \in l.keys
    <2>1. out.ledger = l /\ Used(l, key) BY <1>4 DEF Checked, Once, Succeeded, Used
    <2>2. QED BY <1>2, <1>4, <2>1
  <1>5. CASE valid /\ key \notin l.keys /\ user \notin DOMAIN l.accounts
    <2> DEFINE m == [l EXCEPT !.keys = @ \cup {key}]
    <2>1. out = Refused(m, "AccountNotFound") BY <1>5 DEF Checked, Once, Used
    <2>2. out.ledger = m /\ out.error = "AccountNotFound" BY <2>1 DEF Refused
    <2>3. Tidy(l, Families(l.keys) \cup Family(key)) BY DEF Sound, Tidy
    <2>4. Marked(l, l, m, key) BY <1>1, <2>3 DEF Marked
    <2> HIDE DEF m
    <2>5. /\ Sound(m) /\ m.accounts = l.accounts /\ m.system = l.system
          /\ m.journal = l.journal
          /\ \A p : Balance(m, p) = Balance(l, p)
      BY <2>4, KeyUsed
    <2>6. Told(l, m, X) BY <1>2, <2>5 DEF Told, Untold
    <2>7. QED BY <1>5, <2>2, <2>5, <2>6
  <1>6. CASE valid /\ key \notin l.keys /\ user \in DOMAIN l.accounts /\ ~enough
    <2>1. out.ledger = l /\ out.error = "InsufficientBalance"
      BY <1>6 DEF Checked, Once, Used, Refused
    <2>2. QED BY <1>2, <1>6, <2>1
  <1>7. CASE valid /\ key \notin l.keys /\ user \in DOMAIN l.accounts /\ enough
    <2> DEFINE m == [d EXCEPT !.keys = @ \cup {key}]
    <2>1. out = Succeeded(m) BY <1>7 DEF Checked, Once, Used
    <2>2. out.ledger = m /\ out.error = "none" BY <2>1 DEF Succeeded
    <2>3. /\ Tidy(d, Families(l.keys) \cup Family(key)) /\ d.keys = l.keys
          /\ Told(l, d, X)
      BY <1>7 DEF Done
    <2>4. Marked(l, d, m, key) BY <1>1, <2>3 DEF Marked
    <2> HIDE DEF m
    <2>5. /\ Sound(m) /\ m.accounts = d.accounts /\ m.system = d.system
          /\ m.journal = d.journal
          /\ \A p : Balance(m, p) = Balance(d, p)
      BY <2>4, KeyUsed
    <2>6. Told(l, m, X) BY <2>3, <2>5 DEF Told, Untold
    <2>7. QED BY <1>7, <2>2, <2>5, <2>6
  <1>8. QED BY <1>3, <1>4, <1>5, <1>6, <1>7

\* How the margins change: by delta, for the user, when the call runs.
MarginBy(l, m, user, delta) ==
    \A u \in Traders : Margin(m, u) = Margin(l, u) + Count(u = user, delta)
Moves(l, out, key, user, delta) ==
    \A u \in Traders : Margin(out.ledger, u) = Margin(l, u)
                          + Count(u = user /\ out.error = "none" /\ ~Used(l, key), delta)

\* What a result is to show of an operation.
Keeps(l, out, X) ==
    /\ Sound(out.ledger) /\ Told(l, out.ledger, X)
    /\ DOMAIN l.accounts \subseteq DOMAIN out.ledger.accounts

\* Done right when it runs.
Runs(l, d, key, user, valid, enough, delta, X) ==
    valid /\ key \notin l.keys /\ user \in DOMAIN l.accounts /\ enough
        => /\ Done(l, d, key, X) /\ DOMAIN l.accounts \subseteq DOMAIN d.accounts
           /\ MarginBy(l, d, user, delta)

\* The places of a user's Futures wallet.
LEMMA FuturesAre ==
    /\ \A u \in Traders, f \in Fields :
          /\ Futures(u, f) \in UserPlaces(Traders) /\ Futures(u, f) \in BookPlaces
          /\ Futures(u, f).owner = u /\ Futures(u, f).owner # SYSTEM
          /\ Futures(u, f).field = f
          /\ \A w : Futures(u, f) # OfSystem(w)
    /\ \A u, v, w, f, g : Place(u, w, f) = Futures(v, g) <=> u = v /\ w = "Futures" /\ f = g
    /\ \A u, v, f, g : Futures(u, f) = Futures(v, g) <=> u = v /\ f = g
    /\ \A u, w, f, v : Place(u, w, f) = OfSystem(v) => u = SYSTEM
    /\ "available" \in Fields /\ "frozen" \in Fields /\ "margin" \in Fields
    /\ "Futures" \in UserWallets /\ "Funding" \in UserWallets
  <1>1. \A u \in Traders : u # SYSTEM BY TradersAre
  <1>2. "available" \in Fields /\ "frozen" \in Fields /\ "margin" \in Fields
        /\ "Futures" \in UserWallets /\ "Funding" \in UserWallets
    BY DEF Fields, UserWallets
  <1>3. /\ \A u, v, w, f, g : Place(u, w, f) = Futures(v, g) <=> u = v /\ w = "Futures" /\ f = g
        /\ \A u, v, f, g : Futures(u, f) = Futures(v, g) <=> u = v /\ f = g
        /\ \A u, w, f, v : Place(u, w, f) = OfSystem(v) => u = SYSTEM
    BY DEF Futures, Place, OfSystem
  <1>4. ASSUME NEW u \in Traders, NEW f \in Fields
        PROVE  /\ Futures(u, f) \in UserPlaces(Traders) /\ Futures(u, f) \in BookPlaces
               /\ Futures(u, f).owner = u /\ Futures(u, f).owner # SYSTEM
               /\ Futures(u, f).field = f
               /\ \A w : Futures(u, f) # OfSystem(w)
    <2>1. Futures(u, f) \in UserPlaces(Traders) /\ Futures(u, f).owner = u /\ Futures(u, f).field = f
      BY <1>2, PlacesAre DEF Futures
    <2>2. \A w : OfSystem(w).owner = SYSTEM BY DEF OfSystem, Place
    <2>3. QED BY <1>1, <2>1, <2>2, PlacesAre
  <1>5. QED BY <1>2, <1>3, <1>4

\* Margins are integers.
LEMMA MarginInt == ASSUME NEW l \in Books PROVE \A u \in Traders : Margin(l, u) \in Int
  BY FuturesAre, BalanceInt DEF Margin

\* An operation that does right when it runs keeps the books, and moves the
\* margin of one user only then.
LEMMA OnceMoves ==
    ASSUME NEW l, Sound(l), NEW key \in BaseKeys, NEW user, NEW valid \in BOOLEAN,
           NEW enough \in BOOLEAN, NEW d, NEW X, NEW delta \in Int,
           Runs(l, d, key, user, valid, enough, delta, X),
           NEW out, out = Checked(l, valid, Once(l, key, user, enough, d))
    PROVE  Keeps(l, out, X) /\ Moves(l, out, key, user, delta)
  <1> DEFINE run == valid /\ key \notin l.keys /\ user \in DOMAIN l.accounts /\ enough
  <1>1. run => Done(l, d, key, X) /\ DOMAIN l.accounts \subseteq DOMAIN d.accounts
               /\ MarginBy(l, d, user, delta)
    BY DEF Runs
  <1>2. /\ Sound(out.ledger) /\ Told(l, out.ledger, X)
        /\ run => /\ out.error = "none" /\ DOMAIN out.ledger.accounts = DOMAIN d.accounts
                  /\ \A p : Balance(out.ledger, p) = Balance(d, p)
        /\ ~run => /\ out.error # "none" \/ Used(l, key)
                   /\ out.ledger.accounts = l.accounts
                   /\ \A p : Balance(out.ledger, p) = Balance(l, p)
    <2>1. DoneIf(l, d, key, user, valid, enough, X) BY <1>1 DEF DoneIf
    <2>2. Answered(l, d, key, user, valid, enough, X, out) BY <2>1, OnceKeeps
    <2>3. QED BY <2>2 DEF Answered
  <1>3. l \in Books BY DEF Sound, Tidy
  <1>4. CASE run
    <2>1. out.error = "none" /\ ~Used(l, key) BY <1>2, <1>4 DEF Used
    <2>2. \A u \in Traders : Margin(out.ledger, u) = Margin(l, u) + Count(u = user, delta)
      BY <1>1, <1>2, <1>4 DEF MarginBy, Margin
    <2>3. Moves(l, out, key, user, delta) BY <2>1, <2>2 DEF Moves
    <2>4. QED BY <1>1, <1>2, <1>4, <2>3 DEF Keeps
  <1>5. CASE ~run
    <2>1. \A u \in Traders : Margin(out.ledger, u) = Margin(l, u) /\ Margin(l, u) \in Int
      BY <1>2, <1>3, <1>5, MarginInt DEF Margin
    <2>2. ~(out.error = "none" /\ ~Used(l, key)) BY <1>2, <1>5
    <2>3. Moves(l, out, key, user, delta) BY <2>1, <2>2 DEF Moves, Count
    <2>4. QED BY <1>2, <1>5, <2>3 DEF Keeps
  <1>6. QED BY <1>4, <1>5

\* More keys do no harm.
LEMMA TidyWider ==
    ASSUME NEW A, NEW B, A \subseteq B, NEW l, Tidy(l, A)
    PROVE  Tidy(l, B)
  BY DEF Tidy

\* Under a new key all entries of a call have keys no entry has.
LEMMA NewKeys ==
    ASSUME NEW S \in SUBSET BaseKeys, NEW key \in BaseKeys, key \notin S
    PROVE  /\ key \in Keys /\ key \notin Families(S) /\ key \in Family(key)
           /\ \A w \in Words : /\ key \o <<w>> \in Keys /\ key \o <<w>> \notin Families(S)
                               /\ key \o <<w>> \in Family(key) /\ key \o <<w>> # key
           /\ \A v, w \in Words : v # w => key \o <<v>> # key \o <<w>>
  <1>1. \A w \in Words : w \in KeyParts
    BY DEF KeyParts
  <1>2. Family(key) \cap Families(S) = {} BY FamiliesApart
  <1>3. key \in Family(key) /\ key \in Keys BY DEF Family, BaseKeys
  <1>4. \A x \in KeyParts : key \o <<x>> \in Family(key) BY DEF Family, Extended
  <1>5. \A x \in KeyParts : /\ key \o <<x>> \in Keys /\ key \o <<x>> # key
                            /\ (key \o <<x>>)[Len(key) + 1] = x
    BY ExtendedKey
  <1> HIDE DEF Words
  <1>6. \A v, w \in KeyParts : v # w => key \o <<v>> # key \o <<w>> BY <1>5
  <1>7. QED BY <1>1, <1>2, <1>3, <1>4, <1>5, <1>6

\* Money of one user goes from one of its wallets or fields to another, none
\* of them the margin: Transfer, FreezeForOrder, UnfreezeOrder.
LEMMA MoveKeeps ==
    ASSUME NEW l, Sound(l), NEW key \in BaseKeys, NEW user \in Traders,
           NEW v \in UserWallets, NEW w \in UserWallets,
           NEW f \in Fields \ {"margin"}, NEW g \in Fields \ {"margin"},
           NEW type \in {"Transfer", "OrderFreeze", "OrderUnfreeze"}, NEW amount \in Int,
           NEW out, out = MoveOnce(l, user, Place(user, v, f), Place(user, w, g), amount, type, key)
    PROVE  Keeps(l, out, {}) /\ Moves(l, out, key, user, 0)
  <1> DEFINE from == Place(user, v, f)
             to == Place(user, w, g)
             valid == amount > 0
             enough == Balance(l, from) >= amount
             d == Transferred(l, from, to, amount, type, key)
             X == {}
  <1>1. Tidy(l, Families(l.keys)) /\ l.keys \subseteq BaseKeys BY DEF Sound
  <1>2. ASSUME valid, key \notin l.keys, user \in DOMAIN l.accounts, enough
        PROVE  Done(l, d, key, X) /\ DOMAIN l.accounts \subseteq DOMAIN d.accounts
               /\ MarginBy(l, d, user, 0)
    <2>1. key \in Keys /\ key \notin Families(l.keys) /\ key \in Family(key)
      BY <1>1, <1>2, NewKeys
    <2>2. /\ from \in BookPlaces /\ to \in BookPlaces /\ from.owner = user /\ to.owner = user
      BY PlacesAre
    <2>3. Reaches(l, from) /\ Reaches(l, to) BY <1>2, <2>2 DEF Reaches
    <2>4. Inner(type, from, to) BY DEF Inner, JournalTypes
    <2>5. amount \in Nat BY <1>2
    <2> HIDE DEF from, to
    <2>6. /\ Tidy(d, Families(l.keys) \cup {key}) /\ Follows(l, d, {})
          /\ Passed(l, d, from, to, amount)
      BY <1>1, <1>2, <2>1, <2>3, <2>4, <2>5, TransferKeeps
    <2> HIDE DEF d
    <2>7. Tidy(d, Families(l.keys) \cup Family(key)) BY <2>1, <2>6, TidyWider
    <2>8. MarginBy(l, d, user, 0)
      <3>1. \A u \in Traders : /\ Futures(u, "margin") \in BookPlaces
                               /\ Futures(u, "margin") # from /\ Futures(u, "margin") # to
        BY FuturesAre DEF from, to
      <3>2. \A u \in Traders : Margin(l, u) \in Int BY <1>1, MarginInt DEF Tidy
      <3>3. QED BY <2>6, <3>1, <3>2 DEF MarginBy, Margin, Passed, Count
    <2>9. QED BY <2>6, <2>7, <2>8 DEF Done, Follows
  <1>3. Runs(l, d, key, user, valid, enough, 0, X) BY <1>2 DEF Runs
  <1>4. out = Checked(l, valid, Once(l, key, user, enough, d)) BY DEF MoveOnce
  <1>5. valid \in BOOLEAN /\ enough \in BOOLEAN /\ 0 \in Int OBVIOUS
  <1> HIDE DEF valid, enough, d, X
  <1>6. Keeps(l, out, X) /\ Moves(l, out, key, user, 0) BY <1>3, <1>4, <1>5, OnceMoves
  <1>7. QED BY <1>6 DEF X

\* A withdrawal.
LEMMA WithdrawKeeps ==
    ASSUME NEW l, Sound(l), NEW key \in BaseKeys, NEW user \in Traders, NEW amount \in Int,
           NEW out, out = Withdraw(l, user, amount, key)
    PROVE  Keeps(l, out, {}) /\ Moves(l, out, key, user, 0)
  <1> DEFINE at == Place(user, "Funding", "available")
             other == OfSystem("Funding")
             valid == amount > 0
             enough == Balance(l, at) >= amount
             d == Noted(Credit(l, at, -amount), at, other, amount, "Withdrawal", key)
             change == -amount
             X == {}
  <1>1. Tidy(l, Families(l.keys)) /\ l.keys \subseteq BaseKeys BY DEF Sound
  <1>2. ASSUME valid, key \notin l.keys, user \in DOMAIN l.accounts, enough
        PROVE  Done(l, d, key, X) /\ DOMAIN l.accounts \subseteq DOMAIN d.accounts
               /\ MarginBy(l, d, user, 0)
    <2>1. key \in Keys /\ key \notin Families(l.keys) /\ key \in Family(key)
      BY <1>1, <1>2, NewKeys
    <2>2. /\ at \in UserPlaces(Traders) /\ at \in BookPlaces /\ at.owner = user /\ at.owner # SYSTEM
          /\ at.field = "available" /\ Loose(at)
      BY PlacesAre, FuturesAre, TradersAre DEF Loose
    <2>3. Reaches(l, at) BY <1>2, <2>2 DEF Reaches
    <2>4. other \in EntryPlaces /\ other.owner = SYSTEM BY PlacesAre DEF SystemWallets
    <2>5. Outer("Withdrawal", other, change) /\ "Withdrawal" \in JournalTypes
          /\ change \in Int
      BY <1>2 DEF Outer, JournalTypes
    <2>6. OneSided(l, d, at, other, change, "Withdrawal", key)
      <3>1. ~(change > 0) /\ -change = amount BY <1>2
      <3>2. QED BY <3>1 DEF OneSided
    <2> HIDE DEF at, other, d, change
    <2>7. /\ Tidy(d, Families(l.keys) \cup {key}) /\ Follows(l, d, {})
          /\ Shifted(l, d, at, change)
      BY <1>1, <2>1, <2>2, <2>3, <2>4, <2>5, <2>6, OneSidedKeeps
    <2>8. Tidy(d, Families(l.keys) \cup Family(key)) BY <2>1, <2>7, TidyWider
    <2>9. MarginBy(l, d, user, 0)
      <3>1. \A u \in Traders : Futures(u, "margin") \in BookPlaces /\ Futures(u, "margin") # at
        BY FuturesAre DEF at
      <3>2. \A u \in Traders : Margin(l, u) \in Int BY <1>1, MarginInt DEF Tidy
      <3>3. QED BY <2>7, <3>1, <3>2 DEF MarginBy, Margin, Shifted, Count
    <2>10. QED BY <2>7, <2>8, <2>9 DEF Done, Follows
  <1>3. Runs(l, d, key, user, valid, enough, 0, X) BY <1>2 DEF Runs
  <1>4. out = Checked(l, valid, Once(l, key, user, enough, d)) BY DEF Withdraw
  <1>5. valid \in BOOLEAN /\ enough \in BOOLEAN /\ 0 \in Int OBVIOUS
  <1> HIDE DEF valid, enough, d, X
  <1>6. Keeps(l, out, X) /\ Moves(l, out, key, user, 0) BY <1>3, <1>4, <1>5, OnceMoves
  <1>7. QED BY <1>6 DEF X

\* Two steps, one after the other.
LEMMA FollowsBoth ==
    ASSUME NEW l \in Books, NEW m \in Books, NEW n \in Books,
           Follows(l, m, {}), Follows(m, n, {})
    PROVE  Follows(l, n, {})
  <1> DEFINE X == {}
  <1>1. Follows(l, m, X) /\ Follows(m, n, X) OBVIOUS
  <1>2. X \cup X = X OBVIOUS
  <1> HIDE DEF X
  <1>3. Follows(l, n, X \cup X) BY <1>1, FollowsOn
  <1>4. Follows(l, n, X) BY <1>2, <1>3
  <1>5. QED BY <1>4 DEF X

\* A fee that can be paid.
LEMMA FeeKeeps ==
    ASSUME NEW A, NEW l, Tidy(l, A), NEW user \in Traders, user \in DOMAIN l.accounts,
           NEW field \in Fields \ {"margin"}, NEW fee \in Nat,
           NEW key, key \o <<"fee">> \in Keys, key \o <<"fee">> \notin A,
           field # "frozen" \/ Balance(l, Futures(user, field)) >= fee,
           NEW m, m = FeePaid(l, user, field, fee, key)
    PROVE  /\ Tidy(m, A \cup {key \o <<"fee">>}) /\ Follows(l, m, {})
           /\ MarginBy(l, m, user, 0)
  <1> DEFINE from == Futures(user, field)
             to == OfSystem("FeeCollection")
             k == key \o <<"fee">>
  <1>1. /\ from \in BookPlaces /\ from.owner = user /\ from.owner # SYSTEM /\ from.field = field
        /\ Reaches(l, from)
    BY FuturesAre DEF Reaches
  <1>2. to \in BookPlaces /\ Reaches(l, to)
    <2>1. "FeeCollection" \in SystemWallets BY DEF SystemWallets, NonNegativeSystemWallets
    <2>2. QED BY <2>1, PlacesAre DEF Reaches
  <1>3. Inner("TradeFee", from, to) BY DEF Inner, JournalTypes
  <1>4. Loose(from) \/ Balance(l, from) >= fee BY <1>1 DEF Loose
  <1>5. m = Transferred(l, from, to, fee, "TradeFee", k) BY DEF FeePaid
  <1>6. \A u \in Traders : /\ Futures(u, "margin") \in BookPlaces
                           /\ Futures(u, "margin") # from /\ Futures(u, "margin") # to
    BY FuturesAre
  <1> HIDE DEF from, to, k
  <1>7. Tidy(m, A \cup {k}) /\ Follows(l, m, {}) /\ Passed(l, m, from, to, fee)
    <2>1. k \in Keys /\ k \notin A BY DEF k
    <2>2. QED BY <1>1, <1>2, <1>3, <1>4, <1>5, <2>1, TransferKeeps
  <1>8. MarginBy(l, m, user, 0)
    <2>1. \A u \in Traders : Margin(l, u) \in Int BY MarginInt DEF Tidy
    <2>2. QED BY <1>6, <1>7, <2>1 DEF MarginBy, Margin, Passed, Count
  <1>9. QED BY <1>7, <1>8 DEF k

\* What one step moves after another.
LEMMA MarginsOn ==
    ASSUME NEW l \in Books, NEW m, NEW n, NEW user, NEW delta \in Int,
           MarginBy(l, m, user, delta), MarginBy(m, n, user, 0)
    PROVE  MarginBy(l, n, user, delta)
  <1>1. ASSUME NEW u \in Traders PROVE Margin(n, u) = Margin(l, u) + Count(u = user, delta)
    <2>1. Margin(l, u) \in Int /\ Count(u = user, delta) \in Int BY MarginInt DEF Count
    <2>2. Margin(m, u) = Margin(l, u) + Count(u = user, delta) BY DEF MarginBy
    <2>3. Margin(n, u) = Margin(m, u) + Count(u = user, 0) BY DEF MarginBy
    <2>4. Count(u = user, 0) = 0 BY DEF Count
    <2>5. QED BY <2>1, <2>2, <2>3, <2>4
  <1>2. QED BY <1>1 DEF MarginBy

\* Opening a position.
LEMMA OpenPositionKeeps ==
    ASSUME NEW l, Sound(l), NEW key \in BaseKeys, NEW user \in Traders, NEW margin \in Int,
           NEW fee \in Int, NEW out, out = OpenPosition(l, user, margin, fee, key)
    PROVE  Keeps(l, out, {}) /\ Moves(l, out, key, user, margin)
  <1> DEFINE from == Futures(user, "frozen")
             to == Futures(user, "margin")
             valid == margin > 0 /\ fee >= 0
             enough == Balance(l, from) >= margin + fee
             t == Transferred(l, from, to, margin, "PositionOpen", key)
             d == FeePaid(t, user, "frozen", fee, key)
             X == {}
             A == Families(l.keys)
             k == key \o <<"fee">>
  <1>1. Tidy(l, A) /\ l.keys \subseteq BaseKeys /\ l \in Books BY DEF Sound, Tidy
  <1>2. ASSUME valid, key \notin l.keys, user \in DOMAIN l.accounts, enough
        PROVE  Done(l, d, key, X) /\ DOMAIN l.accounts \subseteq DOMAIN d.accounts
               /\ MarginBy(l, d, user, margin)
    <2>1. /\ key \in Keys /\ key \notin A /\ key \in Family(key)
          /\ k \in Keys /\ k \notin A /\ k \in Family(key) /\ k # key
      BY <1>1, <1>2, NewKeys DEF Words
    <2>2. /\ from \in BookPlaces /\ to \in BookPlaces /\ from # to /\ from.owner = user
          /\ to.owner = user
      BY FuturesAre
    <2>3. Reaches(l, from) /\ Reaches(l, to) BY <1>2, <2>2 DEF Reaches
    <2>4. Inner("PositionOpen", from, to) BY DEF Inner, JournalTypes
    <2>5. margin \in Nat /\ fee \in Nat /\ Balance(l, from) \in Int
      BY <1>1, <1>2, <2>2, BalanceInt
    <2>6. Balance(l, from) >= margin /\ Balance(l, from) - margin >= fee BY <1>2, <2>5
    <2>7. /\ Tidy(t, A \cup {key}) /\ Follows(l, t, {})
          /\ Passed(l, t, from, to, margin)
      <3> HIDE DEF from, to, A
      <3>1. QED BY <1>1, <2>1, <2>3, <2>4, <2>5, <2>6, TransferKeeps
    <2>8. MarginBy(l, t, user, margin)
      <3>1. \A u \in Traders : /\ Futures(u, "margin") \in BookPlaces
                               /\ Futures(u, "margin") # from
                               /\ Futures(u, "margin") = to <=> u = user
        BY FuturesAre
      <3>2. \A u \in Traders : Margin(l, u) \in Int BY <1>1, MarginInt
      <3> HIDE DEF from, to, t
      <3>3. QED BY <2>5, <2>7, <3>1, <3>2 DEF MarginBy, Margin, Passed, Count
    <2>9. Balance(t, from) >= fee
      <3> HIDE DEF from, to, t
      <3>1. Balance(t, from) = Balance(l, from) - margin
        BY <2>2, <2>5, <2>7 DEF Passed, Count
      <3>2. QED BY <2>6, <3>1
    <2> HIDE DEF t, A
    <2>10. user \in DOMAIN t.accounts /\ t \in Books BY <1>2, <2>7 DEF Follows, Tidy
    <2>11. /\ Tidy(d, (A \cup {key}) \cup {k}) /\ Follows(t, d, {})
           /\ MarginBy(t, d, user, 0)
      <3>1. "frozen" \in Fields \ {"margin"} BY FuturesAre
      <3>2. k \notin A \cup {key} BY <2>1
      <3>3. Balance(t, Futures(user, "frozen")) >= fee BY <2>9
      <3> HIDE DEF from, to
      <3>4. QED BY <2>1, <2>5, <2>7, <2>10, <3>1, <3>2, <3>3, FeeKeeps
    <2> HIDE DEF d, k
    <2>12. Follows(l, d, {})
      <3>1. d \in Books BY <2>11 DEF Tidy
      <3>2. QED BY <1>1, <2>7, <2>10, <2>11, <3>1, FollowsBoth
    <2>13. Tidy(d, A \cup Family(key))
      <3>1. (A \cup {key}) \cup {k} \subseteq A \cup Family(key) BY <2>1
      <3>2. QED BY <2>11, <3>1, TidyWider
    <2>14. MarginBy(l, d, user, margin) BY <1>1, <2>8, <2>11, MarginsOn
    <2>15. QED BY <2>12, <2>13, <2>14 DEF Done, Follows, A
  <1>3. Runs(l, d, key, user, valid, enough, margin, X) BY <1>2 DEF Runs
  <1>4. out = Checked(l, valid, Once(l, key, user, enough, d)) BY DEF OpenPosition
  <1>5. valid \in BOOLEAN /\ enough \in BOOLEAN OBVIOUS
  <1> HIDE DEF valid, enough, d, X
  <1>6. Keeps(l, out, X) /\ Moves(l, out, key, user, margin) BY <1>3, <1>4, <1>5, OnceMoves
  <1>7. QED BY <1>6 DEF X

\* The margin of what closes becomes available.
LEMMA BackKeeps ==
    ASSUME NEW A, NEW l, Tidy(l, A), NEW user \in Traders, user \in DOMAIN l.accounts,
           NEW released \in Nat, NEW key \in Keys, key \notin A,
           NEW m, m = MarginBack(l, user, released, key)
    PROVE  /\ Tidy(m, A \cup {key}) /\ Follows(l, m, {})
           /\ MarginBy(l, m, user, -released)
  <1> DEFINE from == Futures(user, "margin")
             to == Futures(user, "available")
  <1>1. /\ from \in BookPlaces /\ to \in BookPlaces /\ from # to /\ from.owner = user
        /\ to.owner = user /\ from.owner # SYSTEM /\ from.field = "margin"
    BY FuturesAre
  <1>2. Reaches(l, from) /\ Reaches(l, to) BY <1>1 DEF Reaches
  <1>3. Inner("PositionClose", from, to) BY FuturesAre DEF Inner, JournalTypes
  <1>4. Loose(from) BY <1>1 DEF Loose
  <1>5. m = Transferred(l, from, to, released, "PositionClose", key) BY DEF MarginBack
  <1>6. \A u \in Traders : /\ Futures(u, "margin") \in BookPlaces
                           /\ Futures(u, "margin") # to
                           /\ Futures(u, "margin") = from <=> u = user
    BY FuturesAre
  <1> HIDE DEF from, to
  <1>7. Tidy(m, A \cup {key}) /\ Follows(l, m, {}) /\ Passed(l, m, from, to, released)
    BY <1>2, <1>3, <1>4, <1>5, TransferKeeps
  <1>8. MarginBy(l, m, user, -released)
    <2>1. \A u \in Traders : Margin(l, u) \in Int BY MarginInt DEF Tidy
    <2>2. QED BY <1>6, <1>7, <2>1 DEF MarginBy, Margin, Passed, Count
  <1>9. QED BY <1>7, <1>8

\* Closing a position against the escrow.
LEMMA ClosePositionSettledKeeps ==
    ASSUME NEW l, Sound(l), NEW key \in BaseKeys, NEW user \in Traders, NEW released \in Int,
           NEW pnl \in Int, NEW fee \in Int,
           NEW out, out = ClosePositionSettled(l, user, released, pnl, fee, key)
    PROVE  Keeps(l, out, {}) /\ Moves(l, out, key, user, -released)
  <1> DEFINE at == Futures(user, "available")
             other == OfSystem("Escrow")
             valid == released > 0 /\ fee >= 0
             enough == Balance(l, Futures(user, "margin")) >= released
             b == MarginBack(l, user, released, key)
             p == PnlAgainstEscrow(b, user, pnl, key)
             d == FeePaid(p, user, "available", fee, key)
             X == {}
             A == Families(l.keys)
             k == key \o <<"pnl">>
             h == key \o <<"fee">>
  <1>1. Tidy(l, A) /\ l.keys \subseteq BaseKeys /\ l \in Books BY DEF Sound, Tidy
  <1>2. ASSUME valid, key \notin l.keys, user \in DOMAIN l.accounts, enough
        PROVE  Done(l, d, key, X) /\ DOMAIN l.accounts \subseteq DOMAIN d.accounts
               /\ MarginBy(l, d, user, -released)
    <2>1. /\ key \in Keys /\ key \notin A /\ key \in Family(key)
          /\ k \in Keys /\ k \notin A /\ k \in Family(key) /\ k # key
          /\ h \in Keys /\ h \notin A /\ h \in Family(key) /\ h # key /\ h # k
      BY <1>1, <1>2, NewKeys DEF Words
    <2>2. released \in Nat /\ fee \in Nat BY <1>2
    <2>3. /\ Tidy(b, A \cup {key}) /\ Follows(l, b, {})
          /\ MarginBy(l, b, user, -released)
      <3> HIDE DEF A
      <3>1. QED BY <1>1, <1>2, <2>1, <2>2, BackKeeps
    <2>4. OneSided(b, p, at, other, pnl, "PositionClose", k)
      BY DEF OneSided, PnlAgainstEscrow
    <2> HIDE DEF b, A
    <2>5. user \in DOMAIN b.accounts /\ b \in Books BY <1>2, <2>3 DEF Follows, Tidy
    <2>6. /\ Tidy(p, (A \cup {key}) \cup {k}) /\ Follows(b, p, {})
          /\ Shifted(b, p, at, pnl)
      <3>1. /\ at \in UserPlaces(Traders) /\ at \in BookPlaces /\ at.owner = user
            /\ at.owner # SYSTEM /\ at.field = "available"
        BY FuturesAre
      <3>2. Reaches(b, at) /\ Loose(at) BY <2>5, <3>1 DEF Reaches, Loose
      <3>3. other \in EntryPlaces /\ other.owner = SYSTEM
        BY PlacesAre DEF SystemWallets, NonNegativeSystemWallets
      <3>4. Outer("PositionClose", other, pnl) /\ "PositionClose" \in JournalTypes
        BY DEF Outer, JournalTypes
      <3> HIDE DEF at, other, p, k
      <3>5. k \notin A \cup {key} BY <2>1
      <3>6. QED BY <2>1, <2>3, <2>4, <3>1, <3>2, <3>3, <3>4, <3>5, OneSidedKeeps
    <2>7. MarginBy(b, p, user, 0)
      <3>1. \A u \in Traders : Futures(u, "margin") \in BookPlaces /\ Futures(u, "margin") # at
        BY FuturesAre
      <3>2. \A u \in Traders : Margin(b, u) \in Int BY <2>5, MarginInt
      <3> HIDE DEF at, p
      <3>3. QED BY <2>6, <3>1, <3>2 DEF MarginBy, Margin, Shifted, Count
    <2> HIDE DEF p
    <2>8. user \in DOMAIN p.accounts /\ p \in Books BY <2>5, <2>6 DEF Follows, Tidy
    <2>9. /\ Tidy(d, ((A \cup {key}) \cup {k}) \cup {h}) /\ Follows(p, d, {})
          /\ MarginBy(p, d, user, 0)
      <3>1. h \notin (A \cup {key}) \cup {k} BY <2>1
      <3>2. QED BY <2>1, <2>2, <2>6, <2>8, <3>1, FuturesAre, FeeKeeps
    <2> HIDE DEF d, k, h
    <2>10. d \in Books BY <2>9 DEF Tidy
    <2>11. Follows(l, d, {})
      <3>1. Follows(l, p, {}) BY <1>1, <2>3, <2>5, <2>6, <2>8, FollowsBoth
      <3>2. QED BY <1>1, <2>8, <2>9, <2>10, <3>1, FollowsBoth
    <2>12. Tidy(d, A \cup Family(key))
      <3>1. ((A \cup {key}) \cup {k}) \cup {h} \subseteq A \cup Family(key) BY <2>1
      <3>2. QED BY <2>9, <3>1, TidyWider
    <2>13. MarginBy(l, d, user, -released)
      <3>1. -released \in Int OBVIOUS
      <3>2. MarginBy(l, p, user, -released) BY <1>1, <2>3, <2>7, <3>1, MarginsOn
      <3>3. QED BY <1>1, <2>9, <3>1, <3>2, MarginsOn
    <2>14. QED BY <2>11, <2>12, <2>13 DEF Done, Follows, A
  <1>3. Runs(l, d, key, user, valid, enough, -released, X) BY <1>2 DEF Runs
  <1>4. out = Checked(l, valid, Once(l, key, user, enough, d)) BY DEF ClosePositionSettled
  <1>5. valid \in BOOLEAN /\ enough \in BOOLEAN /\ -released \in Int OBVIOUS
  <1> HIDE DEF valid, enough, d, X
  <1>6. Keeps(l, out, X) /\ Moves(l, out, key, user, -released) BY <1>3, <1>4, <1>5, OnceMoves
  <1>7. QED BY <1>6 DEF X

\* Liquidating a position.
LEMMA LiquidateKeeps ==
    ASSUME NEW l, Sound(l), NEW key \in BaseKeys, NEW user \in Traders, NEW seized \in Int,
           NEW surplus \in Int, NEW out, out = Liquidate(l, user, seized, surplus, key)
    PROVE  Keeps(l, out, {}) /\ Moves(l, out, key, user, -seized)
  <1> DEFINE escrow == OfSystem("Escrow")
             fund == OfSystem("InsuranceFund")
             from == Futures(user, "margin")
             enough == Balance(l, from) >= seized
             t == Transferred(l, from, escrow, seized, "Liquidation", key)
             up == Transferred(t, escrow, fund, surplus, "InsuranceFundContribution", key \o <<"surplus">>)
             down == Transferred(t, fund, escrow, -surplus, "Liquidation", key \o <<"deficit">>)
             d == IF surplus > 0 THEN up ELSE down
             done == Once(l, key, user, enough, d)
             runs == done.error = "none" /\ ~Used(l, key)
             depleted == runs /\ Balance(l, fund) < -surplus
             panics == runs /\ Balance(t, escrow) < surplus
             X == {}
             A == Families(l.keys)
             k == key \o <<"surplus">>
             h == key \o <<"deficit">>
  <1>1. Tidy(l, A) /\ l.keys \subseteq BaseKeys /\ l \in Books BY DEF Sound, Tidy
  <1>2. out = Checked(l, seized > 0,
                      IF depleted THEN Refused(l, "InsuranceFundDepleted")
                      ELSE IF panics THEN Refused(l, "Panic") ELSE done)
    BY DEF Liquidate
  <1>3. CASE seized > 0 /\ (depleted \/ panics)
    <2>1. out.ledger = l /\ out.error # "none" BY <1>2, <1>3 DEF Checked, Refused
    <2>2. Told(l, l, X) BY <1>1, FollowsSelf DEF Follows
    <2>3. \A u \in Traders : Margin(l, u) \in Int BY <1>1, MarginInt
    <2>4. Moves(l, out, key, user, -seized) BY <2>1, <2>3 DEF Moves, Count
    <2>5. QED BY <2>1, <2>2, <2>4 DEF Keeps
  <1>4. CASE ~(depleted \/ panics)
    <2> DEFINE valid == seized > 0
    <2>1. ASSUME valid, key \notin l.keys, user \in DOMAIN l.accounts, enough
          PROVE  Done(l, d, key, X) /\ DOMAIN l.accounts \subseteq DOMAIN d.accounts
                 /\ MarginBy(l, d, user, -seized)
      <3>1. /\ key \in Keys /\ key \notin A /\ key \in Family(key)
            /\ k \in Keys /\ k \notin A /\ k \in Family(key) /\ k # key
            /\ h \in Keys /\ h \notin A /\ h \in Family(key) /\ h # key /\ h # k
        BY <1>1, <2>1, NewKeys DEF Words
      <3>2. runs BY <2>1 DEF Once, Used, Succeeded
      <3>3. ~(Balance(l, fund) < -surplus) /\ ~(Balance(t, escrow) < surplus) BY <1>4, <3>2
      <3>4. /\ from \in BookPlaces /\ from.owner = user /\ from.owner # SYSTEM /\ from.field = "margin"
            /\ escrow \in BookPlaces /\ escrow.owner = SYSTEM /\ fund \in BookPlaces
            /\ fund.owner = SYSTEM /\ from # escrow /\ from # fund /\ escrow # fund
        BY FuturesAre, PlacesAre DEF SystemWallets, NonNegativeSystemWallets, OfSystem, Place
      <3>5. Reaches(l, from) /\ Loose(from) BY <2>1, <3>4 DEF Reaches, Loose
      <3>6. \A m : Reaches(m, escrow) /\ Reaches(m, fund) BY <3>4 DEF Reaches
      <3>7. Inner("Liquidation", from, escrow) /\ Inner("Liquidation", fund, escrow)
            /\ Inner("InsuranceFundContribution", escrow, fund)
        BY DEF Inner, JournalTypes
      <3>8. seized \in Nat BY <2>1
      <3>9. \A u \in Traders : /\ Futures(u, "margin") \in BookPlaces
                               /\ Futures(u, "margin") # escrow /\ Futures(u, "margin") # fund
                               /\ Futures(u, "margin") = from <=> u = user
        BY FuturesAre
      <3> HIDE DEF A, from, escrow, fund, runs, k, h
      <3>10. /\ Tidy(t, A \cup {key}) /\ Follows(l, t, {})
             /\ Passed(l, t, from, escrow, seized)
        BY <1>1, <3>1, <3>5, <3>6, <3>7, <3>8, TransferKeeps
      <3> HIDE DEF t
      <3>11. t \in Books BY <3>10 DEF Tidy
      <3>12. /\ Balance(t, escrow) \in Int /\ Balance(t, fund) \in Int
             /\ Balance(t, fund) = Balance(l, fund) /\ Balance(l, fund) \in Int
        <4>1. Balance(l, fund) \in Int BY <1>1, <3>4, BalanceInt
        <4>2. Balance(t, fund) = Balance(l, fund) + Count(fund = escrow, seized) - Count(fund = from, seized)
          BY <3>4, <3>10 DEF Passed
        <4>3. Balance(t, fund) = Balance(l, fund) BY <3>4, <4>1, <4>2 DEF Count
        <4>4. QED BY <3>4, <3>11, <4>1, <4>3, BalanceInt
      <3>13. \A u \in Traders : Margin(t, u) \in Int /\ Margin(l, u) \in Int
        BY <1>1, <3>11, MarginInt
      <3>14. MarginBy(l, t, user, -seized)
        BY <3>8, <3>9, <3>10, <3>13 DEF MarginBy, Margin, Passed, Count
      <3>15. \E word \in {k, h} : /\ Tidy(d, (A \cup {key}) \cup {word}) /\ Follows(t, d, {})
                                  /\ MarginBy(t, d, user, 0)
        <4>1. CASE surplus > 0
          <5>1. d = Transferred(t, escrow, fund, surplus, "InsuranceFundContribution", k)
            BY <4>1 DEF k
          <5>2. surplus \in Nat /\ Balance(t, escrow) >= surplus BY <3>3, <3>12, <4>1
          <5>3. k \notin A \cup {key} BY <3>1
          <5> HIDE DEF d
          <5>4. /\ Tidy(d, (A \cup {key}) \cup {k}) /\ Follows(t, d, {})
                /\ Passed(t, d, escrow, fund, surplus)
            BY <3>1, <3>6, <3>7, <3>10, <5>1, <5>2, <5>3, TransferKeeps
          <5>5. MarginBy(t, d, user, 0)
            BY <3>9, <3>13, <5>4 DEF MarginBy, Margin, Passed, Count
          <5>6. QED BY <5>4, <5>5
        <4>2. CASE ~(surplus > 0)
          <5>1. d = Transferred(t, fund, escrow, -surplus, "Liquidation", h)
            BY <4>2 DEF h
          <5>2. -surplus \in Nat /\ Balance(t, fund) >= -surplus BY <3>3, <3>12, <4>2
          <5>3. h \notin A \cup {key} BY <3>1
          <5> DEFINE amount == -surplus
          <5> HIDE DEF d, amount
          <5>4. /\ Tidy(d, (A \cup {key}) \cup {h}) /\ Follows(t, d, {})
                /\ Passed(t, d, fund, escrow, amount)
            <6>1. amount \in Nat /\ Balance(t, fund) >= amount
                  /\ d = Transferred(t, fund, escrow, amount, "Liquidation", h)
              BY <5>1, <5>2 DEF amount
            <6>2. QED BY <3>1, <3>6, <3>7, <3>10, <5>3, <6>1, TransferKeeps
          <5>5. MarginBy(t, d, user, 0)
            BY <3>9, <3>13, <5>4 DEF MarginBy, Margin, Passed, Count
          <5>6. QED BY <5>4, <5>5
        <4>3. QED BY <4>1, <4>2
      <3> HIDE DEF d
      <3>16. d \in Books BY <3>15 DEF Tidy
      <3>17. Follows(l, d, {}) BY <1>1, <3>10, <3>11, <3>15, <3>16, FollowsBoth
      <3>18. Tidy(d, A \cup Family(key))
        <4>1. PICK word \in {k, h} : Tidy(d, (A \cup {key}) \cup {word}) BY <3>15
        <4>2. (A \cup {key}) \cup {word} \subseteq A \cup Family(key) BY <3>1
        <4>3. QED BY <4>1, <4>2, TidyWider
      <3>19. MarginBy(l, d, user, -seized)
        <4>1. -seized \in Int OBVIOUS
        <4>2. QED BY <1>1, <3>14, <3>15, <4>1, MarginsOn
      <3>20. QED BY <3>17, <3>18, <3>19 DEF Done, Follows, A
    <2>2. Runs(l, d, key, user, valid, enough, -seized, X) BY <2>1 DEF Runs
    <2>3. out = Checked(l, valid, done) BY <1>2, <1>4 DEF Checked
    <2>4. valid \in BOOLEAN /\ enough \in BOOLEAN /\ -seized \in Int OBVIOUS
    <2>5. out = Checked(l, valid, Once(l, key, user, enough, d)) BY <2>3
    <2> HIDE DEF valid, enough, d, X
    <2>6. Keeps(l, out, X) /\ Moves(l, out, key, user, -seized) BY <2>2, <2>4, <2>5, OnceMoves
    <2>7. QED BY <2>6 DEF X
  <1>5. CASE ~(seized > 0)
    <2>1. out.ledger = l /\ out.error # "none" BY <1>2, <1>5 DEF Checked, Refused
    <2>2. Told(l, l, X) BY <1>1, FollowsSelf DEF Follows
    <2>3. \A u \in Traders : Margin(l, u) \in Int BY <1>1, MarginInt
    <2>4. Moves(l, out, key, user, -seized) BY <2>1, <2>3 DEF Moves, Count
    <2>5. QED BY <2>1, <2>2, <2>4 DEF Keeps
  <1>6. QED BY <1>3, <1>4, <1>5

\* What an entry about users' money adds to the sums.
LEMMA NotedInner ==
    ASSUME NEW l, NEW m, NEW from, NEW to, NEW amount, NEW type, NEW key,
           Noting(l, m, from, to, amount, type, key), Inner(type, from, to)
    PROVE  /\ Owed(m.journal) = Owed(l.journal)
           /\ \A p : Booked(m.journal, p) = Booked(l.journal, p)
                        + Count(amount > 0 /\ p = to, amount)
                        - Count(amount > 0 /\ p = from, amount)
  <1> DEFINE e == JournalEntry(from, to, amount, type, key)
  <1>1. /\ amount <= 0 => m = l
        /\ amount > 0 => /\ Owed(m.journal) = Owed(l.journal) + Weight(e)
                         /\ \A p : Booked(m.journal, p) = Booked(l.journal, p) + Share(e, p)
    BY NotedEffect
  <1>2. Owed(l.journal) \in Int /\ \A p : Booked(l.journal, p) \in Int
    BY SumsInt DEF Noting, Books, Ledgers, AnyEntry
  <1>3. amount \in Int BY DEF Noting
  <1>4. CASE amount <= 0
    <2>1. m = l /\ ~(amount > 0) BY <1>1, <1>3, <1>4
    <2>2. QED BY <1>2, <2>1 DEF Count
  <1>5. CASE amount > 0
    <2>1. e.type = type /\ e.credit = to /\ e.debit = from /\ e.amount = amount
      BY DEF JournalEntry
    <2>2. Weight(e) = 0 BY <1>3, <2>1 DEF Weight, Inner, Count
    <2>3. \A p : Share(e, p) = Count(p = to, amount) - Count(p = from, amount)
      BY <2>1 DEF Share, Count
    <2> HIDE DEF e
    <2>4. Owed(m.journal) = Owed(l.journal) BY <1>1, <1>2, <1>5, <2>2
    <2>5. ASSUME NEW p
          PROVE  Booked(m.journal, p) = Booked(l.journal, p)
                        + Count(amount > 0 /\ p = to, amount)
                        - Count(amount > 0 /\ p = from, amount)
      <3>1. Booked(m.journal, p) = Booked(l.journal, p)
                                      + (Count(p = to, amount) - Count(p = from, amount))
        BY <1>1, <1>5, <2>3
      <3>2. Booked(l.journal, p) \in Int BY <1>2
      <3>3. QED BY <1>3, <1>5, <3>1, <3>2 DEF Count
    <2>6. QED BY <2>4, <2>5
  <1>6. QED BY <1>3, <1>4, <1>5

\* What a funding payment takes from the margin.
FromMargin(l, user, payment) ==
    IF payment > 0 THEN payment - Min({payment, Balance(l, Futures(user, "available"))}) ELSE 0

\* Users already overdrawn who have paid funding since.
PaidOverdrawn(l, m) ==
    {u \in Traders : /\ Balance(l, Futures(u, "available")) < 0
                     /\ \E i \in Len(l.journal) + 1 .. Len(m.journal) :
                           /\ m.journal[i].type = "FundingPayment"
                           /\ m.journal[i].debit.owner = u}

Overdrawn(l, user) == IF Balance(l, Futures(user, "available")) < 0 THEN {user} ELSE {}

\* Nobody else's balances change.
OthersKept(l, m, user) ==
    \A p \in UserPlaces(Traders) : p.owner # user => Balance(m, p) = Balance(l, p)

\* A ledger whose accounts and journal are the same tells the same.
LEMMA ToldSame ==
    ASSUME NEW l \in Books, NEW m, m.accounts = l.accounts, m.system = l.system,
           m.journal = l.journal, NEW X
    PROVE  Told(l, m, X)
  <1>1. \A p : Balance(m, p) = Balance(l, p) BY DEF Balance
  <1>2. Len(l.journal) \in Nat BY DEF Books, Ledgers
  <1>3. Extends(l.journal, m.journal) BY <1>2 DEF Extends
  <1>4. QED BY <1>1, <1>3 DEF Told, Untold

\* The two parts of a payment, and d: l with both paid.
Parts(l, user, payment, fromAvailable, fromMargin) ==
    /\ payment = fromAvailable + fromMargin
    /\ Balance(l, Futures(user, "available")) < 0 => fromAvailable < 0 /\ fromMargin > 0
    /\ fromAvailable < 0 => Balance(l, Futures(user, "available")) < 0
Paying(l, d, user, payment, fromAvailable, fromMargin, key, k) ==
    d = Noted(Noted(Credit(Credit(Credit(l, OfSystem("Funding"), payment),
                                  Futures(user, "available"), -fromAvailable),
                           Futures(user, "margin"), -fromMargin),
                    Futures(user, "available"), PoolAccount, fromAvailable,
                    "FundingPayment", key),
              Futures(user, "margin"), PoolAccount, fromMargin, "FundingPayment", k)

\* A payment that is made: first the available money, then the margin.
LEMMA PaymentMade ==
    ASSUME NEW A, NEW l, Tidy(l, A), NEW user \in Traders, user \in DOMAIN l.accounts,
           NEW payment \in Nat \ {0}, NEW key \in Keys, key \notin A,
           NEW k \in Keys, k \notin A, k # key,
           NEW fromAvailable \in Int, NEW fromMargin \in Nat,
           Parts(l, user, payment, fromAvailable, fromMargin),
           NEW d, Paying(l, d, user, payment, fromAvailable, fromMargin, key, k)
    PROVE  /\ Tidy(d, (A \cup {key}) \cup {k}) /\ d.keys = l.keys
           /\ DOMAIN d.accounts = DOMAIN l.accounts
           /\ Told(l, d, Overdrawn(l, user)) /\ Overdrawn(l, user) \subseteq PaidOverdrawn(l, d)
           /\ MarginBy(l, d, user, -fromMargin) /\ OthersKept(l, d, user)
  <1> USE DEF Parts, Paying
  <1> DEFINE pool == OfSystem("Funding")
             av == Futures(user, "available")
             mg == Futures(user, "margin")
             a == Credit(l, pool, payment)
             b == Credit(a, av, -fromAvailable)
             c == Credit(b, mg, -fromMargin)
             n == Noted(c, av, PoolAccount, fromAvailable, "FundingPayment", key)
             e == JournalEntry(mg, PoolAccount, fromMargin, "FundingPayment", k)
  <1>1. /\ l \in Books /\ AllMoney(l) = Owed(l.journal) /\ Unique(l.journal)
        /\ KeysIn(l.journal) \subseteq A /\ NeverOverdrawn(l)
    BY DEF Tidy
  <1>2. /\ pool \in BookPlaces /\ Reaches(l, pool) /\ Loose(pool) /\ pool # av /\ pool # mg /\ av # mg
        /\ av \in BookPlaces /\ Reaches(l, av) /\ Loose(av) /\ av.owner = user
        /\ mg \in BookPlaces /\ Reaches(l, mg) /\ Loose(mg) /\ mg.owner = user
    <2>1. "Funding" \in SystemWallets BY DEF SystemWallets
    <2>2. pool \in BookPlaces /\ pool.owner = SYSTEM /\ pool.wallet = "Funding" BY <2>1, PlacesAre
    <2>3. /\ av \in BookPlaces /\ av.owner = user /\ av.owner # SYSTEM /\ av.field = "available"
          /\ mg \in BookPlaces /\ mg.owner = user /\ mg.owner # SYSTEM /\ mg.field = "margin"
          /\ pool # av /\ pool # mg /\ av # mg
      BY FuturesAre
    <2>4. QED BY <2>2, <2>3 DEF Reaches, Loose
  <1>3. /\ av \in EntryPlaces /\ mg \in EntryPlaces /\ PoolAccount \in EntryPlaces
        /\ av # PoolAccount /\ mg # PoolAccount
        /\ "FundingPayment" \in JournalTypes
        /\ Inner("FundingPayment", av, PoolAccount) /\ Inner("FundingPayment", mg, PoolAccount)
    BY <1>2, PlacesAre, FuturesAre DEF PoolAccount, UserWallets, JournalTypes, Inner
  <1> DEFINE fa == -fromAvailable
             fm == -fromMargin
  <1>4. fa \in Int /\ fm \in Int /\ fromMargin \in Int /\ payment \in Int OBVIOUS
  <1> HIDE DEF pool, av, mg, fa, fm
  <1>5. /\ a \in Books /\ DOMAIN a.accounts = DOMAIN l.accounts /\ a.journal = l.journal
        /\ a.keys = l.keys /\ Shifted(l, a, pool, payment)
        /\ AllMoney(l) \in Int /\ AllMoney(a) = AllMoney(l) + payment
    BY <1>1, <1>2, <1>4, Credited
  <1>6. b = Credit(a, av, fa) /\ c = Credit(b, mg, fm) BY DEF fa, fm
  <1> HIDE DEF a
  <1>7. /\ b \in Books /\ DOMAIN b.accounts = DOMAIN a.accounts /\ b.journal = a.journal
        /\ b.keys = a.keys /\ Shifted(a, b, av, fa) /\ AllMoney(b) = AllMoney(a) + fa
    <2>1. Reaches(a, av) BY <1>2, <1>5 DEF Reaches
    <2>2. QED BY <1>4, <1>5, <1>6, <2>1, Credited
  <1> HIDE DEF b
  <1>8. /\ c \in Books /\ DOMAIN c.accounts = DOMAIN b.accounts /\ c.journal = b.journal
        /\ c.keys = b.keys /\ Shifted(b, c, mg, fm) /\ AllMoney(c) = AllMoney(b) + fm
    <2>1. Reaches(b, mg) BY <1>2, <1>5, <1>7 DEF Reaches
    <2>2. QED BY <1>4, <1>6, <1>7, <2>1, Credited
  <1> HIDE DEF c
  <1>9. Noting(c, n, av, PoolAccount, fromAvailable, "FundingPayment", key)
    BY <1>3, <1>8 DEF Noting
  <1>10. d = Noted(n, mg, PoolAccount, fromMargin, "FundingPayment", k)
    BY DEF pool, av, mg, a, b, c
  <1> HIDE DEF n
  <1>11. /\ n \in Books /\ n.accounts = c.accounts /\ n.system = c.system /\ n.keys = c.keys
         /\ Extends(c.journal, n.journal)
         /\ KeysIn(n.journal) \subseteq KeysIn(c.journal) \cup {key}
         /\ Unique(c.journal) /\ key \notin KeysIn(c.journal) => Unique(n.journal)
    BY <1>9, NotedEffect
  <1>12. Noting(n, d, mg, PoolAccount, fromMargin, "FundingPayment", k)
    BY <1>3, <1>4, <1>10, <1>11 DEF Noting
  <1>13. /\ d \in Books /\ d.accounts = n.accounts /\ d.system = n.system /\ d.keys = n.keys
         /\ Extends(n.journal, d.journal)
         /\ KeysIn(d.journal) \subseteq KeysIn(n.journal) \cup {k}
         /\ Unique(n.journal) /\ k \notin KeysIn(n.journal) => Unique(d.journal)
    BY <1>12, NotedEffect
  <1>14. /\ Owed(n.journal) = Owed(l.journal)
         /\ \A p : Booked(n.journal, p) = Booked(l.journal, p)
                        + Count(fromAvailable > 0 /\ p = PoolAccount, fromAvailable)
                        - Count(fromAvailable > 0 /\ p = av, fromAvailable)
    BY <1>3, <1>5, <1>7, <1>8, <1>9, NotedInner
  <1>15. /\ Owed(d.journal) = Owed(n.journal)
         /\ \A p : Booked(d.journal, p) = Booked(n.journal, p)
                        + Count(fromMargin > 0 /\ p = PoolAccount, fromMargin)
                        - Count(fromMargin > 0 /\ p = mg, fromMargin)
    BY <1>3, <1>12, NotedInner
  <1>16. ASSUME NEW p \in BookPlaces
         PROVE  /\ Balance(l, p) \in Int
                /\ Balance(d, p) = Balance(l, p) + Count(p = pool, payment) + Count(p = av, fa)
                                                 + Count(p = mg, fm)
    <2>1. Balance(d, p) = Balance(c, p)
      BY <1>8, <1>11, <1>13, SameMoney
    <2>2. Balance(l, p) \in Int BY <1>1, BalanceInt
    <2>3. QED BY <1>5, <1>7, <1>8, <2>1, <2>2 DEF Shifted
  <1>17. AllMoney(d) = Owed(d.journal)
    <2>1. AllMoney(d) = AllMoney(c) BY <1>8, <1>11, <1>13, SameMoney
    <2>2. AllMoney(c) = AllMoney(l)
      <3>1. AllMoney(c) = AllMoney(l) + payment + fa + fm BY <1>5, <1>7, <1>8
      <3>2. payment + fa + fm = 0 BY DEF fa, fm
      <3>3. QED BY <1>4, <1>5, <3>1, <3>2
    <2>3. QED BY <1>1, <1>14, <1>15, <2>1, <2>2
  <1>18. NeverOverdrawn(d)
    <2>1. SUFFICES ASSUME NEW p \in BookPlaces, ~Loose(p) PROVE Balance(d, p) >= 0
      BY DEF NeverOverdrawn
    <2>2. p # pool /\ p # av /\ p # mg BY <1>2, <2>1
    <2>3. Balance(d, p) = Balance(l, p) BY <1>16, <2>2 DEF Count
    <2>4. QED BY <1>1, <1>16, <2>1, <2>3 DEF NeverOverdrawn
  <1>19. Unique(d.journal) /\ KeysIn(d.journal) \subseteq (A \cup {key}) \cup {k}
    BY <1>1, <1>5, <1>7, <1>8, <1>11, <1>13
  <1>20. MarginBy(l, d, user, -fromMargin)
    <2>1. \A u \in Traders : /\ Futures(u, "margin") \in BookPlaces
                             /\ Futures(u, "margin") # pool /\ Futures(u, "margin") # av
                             /\ Futures(u, "margin") = mg <=> u = user
      BY FuturesAre DEF pool, av, mg
    <2>2. MarginBy(l, d, user, fm) BY <1>4, <1>16, <2>1 DEF MarginBy, Margin, Count
    <2>3. QED BY <2>2 DEF fm
  <1>21. Extends(l.journal, d.journal)
    <2>1. /\ Len(l.journal) \in Nat /\ Len(n.journal) \in Nat /\ Len(d.journal) \in Nat
      BY <1>1, <1>11, <1>13 DEF Books, Ledgers
    <2>2. Extends(l.journal, n.journal) BY <1>5, <1>7, <1>8, <1>11
    <2>3. QED BY <1>13, <2>1, <2>2 DEF Extends
  <1>22. ASSUME NEW p \in UserPlaces(Traders), p.owner \notin Overdrawn(l, user)
         PROVE  Untold(d, p) = Untold(l, p)
    <2>1. p \in BookPlaces /\ p # pool /\ p # PoolAccount
      <3>1. p.owner # SYSTEM /\ p \in BookPlaces BY PlacesAre
      <3>2. pool.owner = SYSTEM /\ PoolAccount.owner = SYSTEM BY DEF pool, PoolAccount, OfSystem, Place
      <3>3. QED BY <3>1, <3>2
    <2>2. Booked(l.journal, p) \in Int BY <1>1, SumsInt DEF Books, Ledgers, AnyEntry
    <2>3. Balance(d, p) = Balance(l, p) + Count(p = av, fa) + Count(p = mg, fm)
      BY <1>4, <1>16, <2>1 DEF Count
    <2>4. Booked(d.journal, p) = Booked(l.journal, p)
                        - Count(fromAvailable > 0 /\ p = av, fromAvailable)
                        - Count(fromMargin > 0 /\ p = mg, fromMargin)
      BY <1>4, <1>14, <1>15, <2>1, <2>2 DEF Count
    <2>5. CASE p = mg
      <3>1. p # av BY <1>2, <2>5
      <3>2. Balance(d, p) = Balance(l, p) - fromMargin BY <1>16, <2>1, <2>3, <2>5, <3>1 DEF Count, fm
      <3>3. Booked(d.journal, p) = Booked(l.journal, p) - fromMargin
        BY <2>2, <2>4, <2>5, <3>1 DEF Count
      <3>4. QED BY <1>16, <2>1, <2>2, <3>2, <3>3 DEF Untold
    <2>6. CASE p = av
      <3>1. p # mg BY <1>2, <2>6
      <3>2. ~(fromAvailable < 0) BY <1>2, <1>22, <2>6 DEF Overdrawn
      <3>3. Balance(d, p) = Balance(l, p) - fromAvailable
        BY <1>16, <2>1, <2>3, <2>6, <3>1 DEF Count, fa
      <3>4. Booked(d.journal, p) = Booked(l.journal, p) - fromAvailable
        BY <2>2, <2>4, <2>6, <3>1, <3>2 DEF Count
      <3>5. QED BY <1>16, <2>1, <2>2, <3>3, <3>4 DEF Untold
    <2>7. CASE p # mg /\ p # av
      <3>1. Balance(d, p) = Balance(l, p) BY <1>16, <2>1, <2>3, <2>7 DEF Count
      <3>2. Booked(d.journal, p) = Booked(l.journal, p) BY <2>2, <2>4, <2>7 DEF Count
      <3>3. QED BY <3>1, <3>2 DEF Untold
    <2>8. QED BY <2>5, <2>6, <2>7
  <1>23. Told(l, d, Overdrawn(l, user)) BY <1>21, <1>22 DEF Told
  <1>24. d.keys = l.keys /\ DOMAIN d.accounts = DOMAIN l.accounts
    BY <1>5, <1>7, <1>8, <1>11, <1>13
  <1>25. OthersKept(l, d, user)
    <2>1. SUFFICES ASSUME NEW p \in UserPlaces(Traders), p.owner # user
                   PROVE  Balance(d, p) = Balance(l, p)
      BY DEF OthersKept
    <2>2. p \in BookPlaces /\ p # pool /\ p # av /\ p # mg
      <3>1. p.owner # SYSTEM /\ p \in BookPlaces BY PlacesAre
      <3>2. pool.owner = SYSTEM BY DEF pool, OfSystem, Place
      <3>3. QED BY <1>2, <2>1, <3>1, <3>2
    <2>3. QED BY <1>16, <2>2 DEF Count
  <1>26. ASSUME Balance(l, Futures(user, "available")) < 0 PROVE user \in PaidOverdrawn(l, d)
    <2>1. fromAvailable < 0 /\ fromMargin > 0 BY <1>26
    <2>2. d = [n EXCEPT !.journal = Append(n.journal, e)]
      <3>1. ~(fromMargin <= 0) BY <2>1
      <3>2. QED BY <1>10, <3>1 DEF Noted
    <2>3. e.type = "FundingPayment" /\ e.debit.owner = user
      BY <1>2 DEF JournalEntry
    <2> HIDE DEF e
    <2>4. /\ d.journal = Append(n.journal, e) /\ Len(n.journal) \in Nat
          /\ d.journal[Len(n.journal) + 1] = e /\ Len(d.journal) = Len(n.journal) + 1
      <3>1. n.journal \in Seq(AnyEntry) BY <1>11 DEF Books, Ledgers, AnyEntry
      <3>2. d.journal = Append(n.journal, e)
        BY <1>11, <2>2 DEF Books, Ledgers
      <3>3. QED BY <3>1, <3>2
    <2>5. Len(l.journal) \in Nat /\ Len(l.journal) <= Len(n.journal)
      <3>1. Extends(l.journal, n.journal) BY <1>5, <1>7, <1>8, <1>11
      <3>2. QED BY <1>1, <3>1 DEF Extends, Books, Ledgers
    <2>6. Len(n.journal) + 1 \in Len(l.journal) + 1 .. Len(d.journal) BY <2>4, <2>5
    <2>7. QED BY <1>26, <2>3, <2>4, <2>6 DEF PaidOverdrawn
  <1>27. Overdrawn(l, user) \subseteq PaidOverdrawn(l, d) BY <1>26 DEF Overdrawn
  <1>28. QED BY <1>13, <1>17, <1>18, <1>19, <1>20, <1>23, <1>24, <1>25, <1>27 DEF Tidy

\* A payment that is received.
LEMMA PaymentReceived ==
    ASSUME NEW A, NEW l, Tidy(l, A), NEW user \in Traders, user \in DOMAIN l.accounts,
           NEW amount \in Nat \ {0}, NEW key \in Keys, key \notin A,
           NEW d,
           d = Noted(Credit(Credit(l, OfSystem("Funding"), -amount), Futures(user, "available"), amount),
                     PoolAccount, Futures(user, "available"), amount, "FundingPayment", key)
    PROVE  /\ Tidy(d, A \cup {key}) /\ Follows(l, d, {})
           /\ MarginBy(l, d, user, 0) /\ OthersKept(l, d, user)
  <1> DEFINE pool == OfSystem("Funding")
             av == Futures(user, "available")
             fa == -amount
             a == Credit(l, pool, fa)
             c == Credit(a, av, amount)
  <1>1. /\ l \in Books /\ AllMoney(l) = Owed(l.journal) /\ Unique(l.journal)
        /\ KeysIn(l.journal) \subseteq A /\ NeverOverdrawn(l)
    BY DEF Tidy
  <1>2. /\ pool \in BookPlaces /\ Reaches(l, pool) /\ Loose(pool) /\ pool # av
        /\ av \in BookPlaces /\ Reaches(l, av) /\ Loose(av) /\ av.owner = user
    <2>1. "Funding" \in SystemWallets BY DEF SystemWallets
    <2>2. pool \in BookPlaces /\ pool.owner = SYSTEM /\ pool.wallet = "Funding" BY <2>1, PlacesAre
    <2>3. /\ av \in BookPlaces /\ av.owner = user /\ av.owner # SYSTEM /\ av.field = "available"
          /\ pool # av
      BY FuturesAre
    <2>4. QED BY <2>2, <2>3 DEF Reaches, Loose
  <1>3. /\ av \in EntryPlaces /\ PoolAccount \in EntryPlaces /\ av # PoolAccount
        /\ "FundingPayment" \in JournalTypes
        /\ Inner("FundingPayment", PoolAccount, av)
    BY <1>2, PlacesAre, FuturesAre DEF PoolAccount, UserWallets, JournalTypes, Inner
  <1>4. fa \in Int /\ amount \in Int /\ amount > 0 OBVIOUS
  <1>5. \A u \in Traders : /\ Futures(u, "margin") \in BookPlaces
                           /\ Futures(u, "margin") # pool /\ Futures(u, "margin") # av
    BY FuturesAre
  <1>6. \A p \in UserPlaces(Traders) : /\ p \in BookPlaces /\ p # pool /\ p # PoolAccount
                                       /\ p.owner # user => p # av
    <2>1. pool.owner = SYSTEM /\ PoolAccount.owner = SYSTEM BY DEF PoolAccount, OfSystem, Place
    <2>2. QED BY <1>2, <2>1, PlacesAre
  <1>7. d = Noted(c, PoolAccount, av, amount, "FundingPayment", key) OBVIOUS
  <1> HIDE DEF pool, av, fa, c
  <1>8. /\ a \in Books /\ DOMAIN a.accounts = DOMAIN l.accounts /\ a.journal = l.journal
        /\ a.keys = l.keys /\ Shifted(l, a, pool, fa)
        /\ AllMoney(l) \in Int /\ AllMoney(a) = AllMoney(l) + fa
    BY <1>1, <1>2, <1>4, Credited
  <1>9. c = Credit(a, av, amount) BY DEF c
  <1> HIDE DEF a
  <1>10. /\ c \in Books /\ DOMAIN c.accounts = DOMAIN a.accounts /\ c.journal = a.journal
         /\ c.keys = a.keys /\ Shifted(a, c, av, amount) /\ AllMoney(c) = AllMoney(a) + amount
    <2>1. Reaches(a, av) BY <1>2, <1>8 DEF Reaches
    <2>2. QED BY <1>4, <1>8, <1>9, <2>1, Credited
  <1>11. Noting(c, d, PoolAccount, av, amount, "FundingPayment", key)
    BY <1>3, <1>4, <1>7, <1>10 DEF Noting
  <1>12. /\ d \in Books /\ d.accounts = c.accounts /\ d.system = c.system /\ d.keys = c.keys
         /\ Extends(c.journal, d.journal)
         /\ KeysIn(d.journal) \subseteq KeysIn(c.journal) \cup {key}
         /\ Unique(c.journal) /\ key \notin KeysIn(c.journal) => Unique(d.journal)
    BY <1>11, NotedEffect
  <1>13. /\ Owed(d.journal) = Owed(l.journal)
         /\ \A p : Booked(d.journal, p) = Booked(l.journal, p)
                        + Count(amount > 0 /\ p = av, amount)
                        - Count(amount > 0 /\ p = PoolAccount, amount)
    BY <1>3, <1>8, <1>10, <1>11, NotedInner
  <1>14. ASSUME NEW p \in BookPlaces
         PROVE  /\ Balance(l, p) \in Int
                /\ Balance(d, p) = Balance(l, p) + Count(p = pool, fa) + Count(p = av, amount)
    <2>1. Balance(d, p) = Balance(c, p) BY <1>10, <1>12, SameMoney
    <2>2. Balance(l, p) \in Int BY <1>1, BalanceInt
    <2>3. QED BY <1>8, <1>10, <2>1, <2>2 DEF Shifted
  <1>15. AllMoney(d) = Owed(d.journal)
    <2>1. AllMoney(d) = AllMoney(c) BY <1>10, <1>12, SameMoney
    <2>2. AllMoney(c) = AllMoney(l) BY <1>4, <1>8, <1>10 DEF fa
    <2>3. QED BY <1>1, <1>13, <2>1, <2>2
  <1>16. NeverOverdrawn(d)
    <2>1. SUFFICES ASSUME NEW p \in BookPlaces, ~Loose(p) PROVE Balance(d, p) >= 0
      BY DEF NeverOverdrawn
    <2>2. p # pool /\ p # av BY <1>2, <2>1
    <2>3. Balance(d, p) = Balance(l, p) BY <1>14, <2>2 DEF Count
    <2>4. QED BY <1>1, <1>14, <2>1, <2>3 DEF NeverOverdrawn
  <1>17. Unique(d.journal) /\ KeysIn(d.journal) \subseteq A \cup {key}
    BY <1>1, <1>8, <1>10, <1>12
  <1>18. MarginBy(l, d, user, 0) BY <1>4, <1>5, <1>14 DEF MarginBy, Margin, Count
  <1>19. OthersKept(l, d, user) BY <1>6, <1>14 DEF OthersKept, Count
  <1>20. ASSUME NEW p \in UserPlaces(Traders) PROVE Untold(d, p) = Untold(l, p)
    <2>1. Booked(l.journal, p) \in Int BY <1>1, SumsInt DEF Books, Ledgers, AnyEntry
    <2>2. Booked(d.journal, p) = Booked(l.journal, p) + Count(p = av, amount)
      BY <1>4, <1>6, <1>13, <2>1 DEF Count
    <2>3. Balance(d, p) = Balance(l, p) + Count(p = av, amount) /\ Balance(l, p) \in Int
      BY <1>6, <1>14 DEF Count
    <2>4. QED BY <1>4, <2>1, <2>2, <2>3 DEF Untold, Count
  <1>21. Extends(l.journal, d.journal) BY <1>8, <1>10, <1>12
  <1>22. QED BY <1>8, <1>10, <1>12, <1>15, <1>16, <1>17, <1>18, <1>19, <1>20, <1>21
            DEF Tidy, Follows, Told

\* Funding.
LEMMA PayFundingKeeps ==
    ASSUME NEW l, Sound(l), NEW key \in BaseKeys, NEW user \in Traders, NEW payment \in Int,
           NEW out, out = PayFunding(l, user, payment, key),
           NEW m, m = out.ledger
    PROVE  /\ \E X \in SUBSET ({user} \cap PaidOverdrawn(l, m)) : Keeps(l, out, X)
           /\ FromMargin(l, user, payment) \in Nat
           /\ Moves(l, out, key, user, -FromMargin(l, user, payment))
           /\ OthersKept(l, m, user)
  <1> DEFINE av == Futures(user, "available")
             mg == Futures(user, "margin")
             A == Families(l.keys)
             k == key \o <<"margin">>
             fa == Min({payment, Balance(l, av)})
             fm == payment - fa
             enough == fm <= 0 \/ Balance(l, mg) >= fm
             pooled == Credit(l, OfSystem("Funding"), payment)
             made == Noted(Noted(Credit(Credit(pooled, av, -fa), mg, -fm),
                                 av, PoolAccount, fa, "FundingPayment", key),
                           mg, PoolAccount, fm, "FundingPayment", k)
             amount == -payment
             got == Noted(Credit(pooled, av, amount), PoolAccount, av, amount, "FundingPayment", key)
  <1>1. Tidy(l, A) /\ l.keys \subseteq BaseKeys /\ l \in Books BY DEF Sound, Tidy
  <1>2. Balance(l, av) \in Int BY <1>1, FuturesAre, BalanceInt
  <1>3. \A u \in Traders : Margin(l, u) \in Int BY <1>1, MarginInt
  <1>4. ASSUME key \notin l.keys
        PROVE  /\ key \in Keys /\ key \notin A /\ key \in Family(key)
               /\ k \in Keys /\ k \notin A /\ k \in Family(key) /\ k # key
    BY <1>1, <1>4, NewKeys DEF Words
  <1>5. ASSUME NEW c, c.accounts = l.accounts, c.system = l.system, c.journal = l.journal, NEW u
        PROVE  OthersKept(l, c, u)
    BY <1>5 DEF OthersKept, Balance
  <1>6. CASE payment = 0
    <2>1. out = Succeeded(l) BY <1>6 DEF PayFunding
    <2>2. out.ledger = l BY <2>1 DEF Succeeded
    <2>3. Told(l, l, {}) BY <1>1, FollowsSelf DEF Follows
    <2>4. FromMargin(l, user, payment) = 0 BY <1>6 DEF FromMargin
    <2>5. Moves(l, out, key, user, -FromMargin(l, user, payment))
      BY <1>3, <2>2, <2>4 DEF Moves, Count
    <2>6. Keeps(l, out, {}) BY <2>2, <2>3 DEF Keeps
    <2>7. QED BY <1>5, <2>2, <2>4, <2>5, <2>6
  <1>7. CASE payment > 0
    <2>1. fa = (IF payment <= Balance(l, av) THEN payment ELSE Balance(l, av))
      <3> DEFINE q == Balance(l, av)
      <3> HIDE DEF q
      <3>1. Min({payment, q}) = IF payment <= q THEN payment ELSE q BY <1>2, MinOfTwo DEF q
      <3>2. QED BY <3>1 DEF q
    <2>2. /\ fa \in Int /\ fm \in Nat /\ payment = fa + fm /\ payment \in Nat \ {0}
          /\ Balance(l, av) < 0 => fa < 0 /\ fm > 0
          /\ fa < 0 => Balance(l, av) < 0
      <3> HIDE DEF fa
      <3>1. fa \in Int /\ fa <= payment /\ (Balance(l, av) < 0 => fa < 0)
            /\ (fa < 0 => Balance(l, av) < 0)
        BY <1>2, <1>7, <2>1
      <3>2. QED BY <1>7, <3>1
    <2>3. FromMargin(l, user, payment) = fm BY <1>7 DEF FromMargin
    <2>4. ~(payment = 0) BY <1>7
    <2>5. out = Once(l, key, user, enough, made) BY <1>7, <2>4 DEF PayFunding
    <2> DEFINE X == Overdrawn(l, user)
               valid == TRUE
    <2> HIDE DEF fa, fm
    <2>6. ASSUME valid, key \notin l.keys, user \in DOMAIN l.accounts, enough
          PROVE  /\ Done(l, made, key, X) /\ DOMAIN l.accounts \subseteq DOMAIN made.accounts
                 /\ MarginBy(l, made, user, -fm)
                 /\ X \subseteq PaidOverdrawn(l, made) /\ OthersKept(l, made, user)
      <3>1. /\ key \in Keys /\ key \notin A /\ key \in Family(key)
            /\ k \in Keys /\ k \notin A /\ k \in Family(key) /\ k # key
        BY <1>4, <2>6
      <3>2. Paying(l, made, user, payment, fa, fm, key, k)
        BY DEF Paying
      <3>3. Parts(l, user, payment, fa, fm) /\ fa \in Int /\ fm \in Nat /\ payment \in Nat \ {0}
        BY <2>2 DEF Parts
      <3> HIDE DEF A, k, made
      <3>4. /\ Tidy(made, (A \cup {key}) \cup {k}) /\ made.keys = l.keys
            /\ DOMAIN made.accounts = DOMAIN l.accounts
            /\ Told(l, made, Overdrawn(l, user)) /\ Overdrawn(l, user) \subseteq PaidOverdrawn(l, made)
            /\ MarginBy(l, made, user, -fm) /\ OthersKept(l, made, user)
        BY <1>1, <2>6, <3>1, <3>2, <3>3, PaymentMade
      <3>5. Tidy(made, A \cup Family(key))
        <4>1. (A \cup {key}) \cup {k} \subseteq A \cup Family(key) BY <3>1
        <4>2. QED BY <3>4, <4>1, TidyWider
      <3>6. QED BY <3>4, <3>5 DEF Done, A
    <2>7. out = Checked(l, valid, Once(l, key, user, enough, made)) BY <2>5 DEF Checked
    <2>8. valid \in BOOLEAN /\ enough \in BOOLEAN /\ -fm \in Int BY <2>2
    <2>9. Runs(l, made, key, user, valid, enough, -fm, X) BY <2>6 DEF Runs
    <2>10. DoneIf(l, made, key, user, valid, enough, X) BY <2>6 DEF DoneIf
    <2> HIDE DEF made, valid, enough, X, A, k
    <2>11. Keeps(l, out, X) /\ Moves(l, out, key, user, -fm) BY <2>7, <2>8, <2>9, OnceMoves
    <2>12. Answered(l, made, key, user, valid, enough, X, out) BY <2>7, <2>8, <2>10, OnceKeeps
    <2>13. CASE valid /\ key \notin l.keys /\ user \in DOMAIN l.accounts /\ enough
      <3>1. m.journal = made.journal /\ \A p : Balance(m, p) = Balance(made, p)
        BY <2>12, <2>13 DEF Answered
      <3>2. PaidOverdrawn(l, m) = PaidOverdrawn(l, made) BY <3>1 DEF PaidOverdrawn
      <3>3. X \subseteq {user} BY DEF X, Overdrawn
      <3>4. OthersKept(l, m, user) BY <2>6, <2>13, <3>1 DEF OthersKept
      <3>5. X \in SUBSET ({user} \cap PaidOverdrawn(l, m)) BY <2>6, <2>13, <3>2, <3>3
      <3>6. QED BY <2>2, <2>3, <2>11, <3>4, <3>5
    <2>14. CASE ~(valid /\ key \notin l.keys /\ user \in DOMAIN l.accounts /\ enough)
      <3>1. m.accounts = l.accounts /\ m.system = l.system /\ m.journal = l.journal
        BY <2>12, <2>14 DEF Answered
      <3>2. Told(l, m, {}) /\ OthersKept(l, m, user) BY <1>1, <1>5, <3>1, ToldSame
      <3>3. Keeps(l, out, {}) BY <2>11, <3>2 DEF Keeps
      <3>4. QED BY <2>2, <2>3, <2>11, <3>2, <3>3
    <2>15. QED BY <2>13, <2>14
  <1>8. CASE payment < 0
    <2>1. FromMargin(l, user, payment) = 0 /\ ~(payment = 0) /\ ~(payment > 0)
      BY <1>8 DEF FromMargin
    <2>2. out = Once(l, key, user, TRUE, got) BY <2>1 DEF PayFunding
    <2>3. amount \in Nat \ {0} /\ payment = -amount BY <1>8
    <2> DEFINE X == {}
               valid == TRUE
               all == TRUE
    <2>4. got = Noted(Credit(Credit(l, OfSystem("Funding"), -amount), Futures(user, "available"), amount),
                      PoolAccount, Futures(user, "available"), amount, "FundingPayment", key)
      BY <2>3
    <2> HIDE DEF amount, got
    <2>5. ASSUME valid, key \notin l.keys, user \in DOMAIN l.accounts, all
          PROVE  /\ Done(l, got, key, X) /\ DOMAIN l.accounts \subseteq DOMAIN got.accounts
                 /\ MarginBy(l, got, user, 0) /\ OthersKept(l, got, user)
      <3>1. key \in Keys /\ key \notin A /\ key \in Family(key)
        BY <1>4, <2>5
      <3> HIDE DEF A
      <3>2. /\ Tidy(got, A \cup {key}) /\ Follows(l, got, {})
            /\ MarginBy(l, got, user, 0) /\ OthersKept(l, got, user)
        BY <1>1, <2>3, <2>4, <2>5, <3>1, PaymentReceived
      <3>3. Tidy(got, A \cup Family(key))
        <4>1. A \cup {key} \subseteq A \cup Family(key) BY <3>1
        <4>2. QED BY <3>2, <4>1, TidyWider
      <3>4. QED BY <3>2, <3>3 DEF Done, Follows, A
    <2>6. out = Checked(l, valid, Once(l, key, user, all, got)) BY <2>2 DEF Checked
    <2>7. valid \in BOOLEAN /\ all \in BOOLEAN /\ 0 \in Int OBVIOUS
    <2>8. Runs(l, got, key, user, valid, all, 0, X) BY <2>5 DEF Runs
    <2>9. DoneIf(l, got, key, user, valid, all, X) BY <2>5 DEF DoneIf
    <2> HIDE DEF valid, all, X, A
    <2>10. Keeps(l, out, X) /\ Moves(l, out, key, user, 0) BY <2>6, <2>7, <2>8, OnceMoves
    <2>11. Answered(l, got, key, user, valid, all, X, out) BY <2>6, <2>7, <2>9, OnceKeeps
    <2>12. OthersKept(l, m, user)
      <3>1. CASE valid /\ key \notin l.keys /\ user \in DOMAIN l.accounts /\ all
        BY <2>5, <2>11, <3>1 DEF Answered, OthersKept
      <3>2. CASE ~(valid /\ key \notin l.keys /\ user \in DOMAIN l.accounts /\ all)
        BY <2>11, <3>2 DEF Answered, OthersKept
      <3>3. QED BY <3>1, <3>2
    <2>13. Moves(l, out, key, user, -FromMargin(l, user, payment))
      <3> DEFINE q == FromMargin(l, user, payment)
      <3>1. q = 0 BY <2>1
      <3> HIDE DEF q
      <3>2. -q = 0
        <4>1. \A z \in Int : z <= 0 /\ z >= 0 => -z \in Int /\ -z <= 0 /\ -z >= 0 OBVIOUS
        <4>2. \A z \in Int : z <= 0 /\ z >= 0 => z = 0 OBVIOUS
        <4>3. q \in Int /\ q <= 0 /\ q >= 0 BY <3>1
        <4>4. QED BY <4>1, <4>2, <4>3
      <3>3. Moves(l, out, key, user, -q) BY <2>10, <3>2
      <3>4. QED BY <3>3 DEF q
    <2>14. Keeps(l, out, {}) BY <2>10 DEF X
    <2>15. QED BY <2>1, <2>12, <2>13, <2>14
  <1>9. QED BY <1>6, <1>7, <1>8

\* m is l after a profit or loss between two users who have accounts.
Settling(l, m, user, counterparty, pnl, key, k) ==
    /\ user \in Traders /\ counterparty \in Traders /\ user \in DOMAIN l.accounts
    /\ pnl \in Int /\ (pnl = 0 \/ counterparty \in DOMAIN l.accounts)
    /\ k = key \o <<"pnl">>
    /\ m = PnlBetween(l, user, Futures(counterparty, "margin"), pnl, key)
\* Whose margin stays.
MarginsBut(l, m, counterparty) ==
    \A u \in Traders : u # counterparty => Margin(m, u) = Margin(l, u)

\* It keeps the books, and the margins of all others.
LEMMA PnlKeeps ==
    ASSUME NEW A, NEW l, Tidy(l, A), NEW user, NEW counterparty, NEW pnl, NEW key,
           NEW k \in Keys, k \notin A,
           NEW m, Settling(l, m, user, counterparty, pnl, key, k)
    PROVE  Tidy(m, A \cup {k}) /\ Follows(l, m, {}) /\ MarginsBut(l, m, counterparty)
  <1> USE DEF Settling
  <1> DEFINE at == Futures(user, "available")
             other == Futures(counterparty, "margin")
             loss == -pnl
  <1>1. /\ at \in BookPlaces /\ other \in BookPlaces /\ at # other /\ at.owner = user
        /\ other.owner = counterparty /\ at.owner # SYSTEM /\ other.owner # SYSTEM
        /\ at.field = "available" /\ other.field = "margin"
    BY FuturesAre
  <1>2. Loose(at) /\ Loose(other) /\ Reaches(l, at) BY <1>1 DEF Loose, Reaches
  <1>3. Inner("PositionClose", other, at) /\ Inner("PositionClose", at, other)
    BY FuturesAre DEF Inner, JournalTypes
  <1>4. \A u \in Traders : /\ Futures(u, "margin") \in BookPlaces
                           /\ Futures(u, "margin") # at
                           /\ Futures(u, "margin") = other <=> u = counterparty
    BY FuturesAre
  <1>5. l \in Books BY DEF Tidy
  <1>6. \A u \in Traders : Margin(l, u) \in Int BY <1>5, MarginInt
  <1>7. CASE pnl = 0
    <2>1. m = l BY <1>7 DEF PnlBetween
    <2>2. A \subseteq A \cup {k} OBVIOUS
    <2>3. Tidy(m, A \cup {k}) BY <2>1, <2>2, TidyWider
    <2>4. QED BY <1>5, <2>1, <2>3, FollowsSelf DEF MarginsBut
  <1>8. CASE pnl > 0
    <2>1. Reaches(l, other) BY <1>1, <1>8 DEF Reaches
    <2>2. ~(pnl = 0) /\ pnl \in Nat BY <1>8
    <2>3. m = Transferred(l, other, at, pnl, "PositionClose", k) BY <1>8, <2>2 DEF PnlBetween
    <2> HIDE DEF at, other
    <2>4. Tidy(m, A \cup {k}) /\ Follows(l, m, {}) /\ Passed(l, m, other, at, pnl)
      BY <1>2, <1>3, <2>1, <2>2, <2>3, TransferKeeps
    <2>5. MarginsBut(l, m, counterparty)
      BY <1>4, <1>6, <2>4 DEF MarginsBut, Margin, Passed, Count
    <2>6. QED BY <2>4, <2>5
  <1>9. CASE pnl < 0
    <2>1. Reaches(l, other) BY <1>1, <1>9 DEF Reaches
    <2>2. ~(pnl = 0) /\ ~(pnl > 0) /\ loss \in Nat BY <1>9
    <2>3. m = Transferred(l, at, other, loss, "PositionClose", k) BY <2>2 DEF PnlBetween
    <2> HIDE DEF at, other, loss
    <2>4. Tidy(m, A \cup {k}) /\ Follows(l, m, {}) /\ Passed(l, m, at, other, loss)
      BY <1>2, <1>3, <2>1, <2>2, <2>3, TransferKeeps
    <2>5. MarginsBut(l, m, counterparty)
      BY <1>4, <1>6, <2>4 DEF MarginsBut, Margin, Passed, Count
    <2>6. QED BY <2>4, <2>5
  <1>10. QED BY <1>7, <1>8, <1>9

\* Closing a position against another user.
LEMMA ClosePositionKeeps ==
    ASSUME NEW l, Sound(l), NEW key \in BaseKeys, NEW user \in Traders, NEW released \in Int,
           NEW pnl \in Int, NEW fee \in Int, NEW counterparty \in Traders,
           NEW out, out = ClosePosition(l, user, released, pnl, fee, counterparty, key)
    PROVE  /\ Keeps(l, out, {})
           /\ \A u \in Traders \ {user, counterparty} : Margin(out.ledger, u) = Margin(l, u)
  <1> DEFINE other == Futures(counterparty, "margin")
             valid == released > 0 /\ fee >= 0
             enough == Balance(l, Futures(user, "margin")) >= released
             covered == Balance(l, other) >= pnl
             c == IF pnl < 0 THEN GetOrCreateAccount(l, counterparty) ELSE l
             b == MarginBack(c, user, released, key)
             p == PnlBetween(b, user, other, pnl, key)
             d == FeePaid(p, user, "available", fee, key)
             X == {}
             A == Families(l.keys)
             k == key \o <<"pnl">>
             h == key \o <<"fee">>
             against == ~Used(l, key) /\ user \in DOMAIN l.accounts /\ enough /\ pnl > 0
  <1>1. Tidy(l, A) /\ l.keys \subseteq BaseKeys /\ l \in Books BY DEF Sound, Tidy
  <1>2. ASSUME valid, key \notin l.keys, user \in DOMAIN l.accounts,
               pnl > 0 => counterparty \in DOMAIN l.accounts
        PROVE  /\ Done(l, d, key, X) /\ DOMAIN l.accounts \subseteq DOMAIN d.accounts
               /\ \A u \in Traders \ {user, counterparty} : Margin(d, u) = Margin(l, u)
    <2>1. /\ key \in Keys /\ key \notin A /\ key \in Family(key)
          /\ k \in Keys /\ k \notin A /\ k \in Family(key) /\ k # key
          /\ h \in Keys /\ h \notin A /\ h \in Family(key) /\ h # key /\ h # k
      BY <1>1, <1>2, NewKeys DEF Words
    <2>2. released \in Nat /\ fee \in Nat BY <1>2
    <2>3. /\ Tidy(c, A) /\ Told(l, c, {}) /\ c.keys = l.keys
          /\ DOMAIN l.accounts \subseteq DOMAIN c.accounts
          /\ pnl = 0 \/ counterparty \in DOMAIN c.accounts
          /\ \A u \in Traders : Margin(c, u) = Margin(l, u)
      <3> HIDE DEF A
      <3>1. \A u \in Traders : Futures(u, "margin") \in BookPlaces BY FuturesAre
      <3>2. CASE pnl < 0
        <4>1. c = GetOrCreateAccount(l, counterparty) BY <3>2
        <4> HIDE DEF c
        <4>2. /\ Tidy(c, A) /\ Told(l, c, {}) /\ c.keys = l.keys
              /\ DOMAIN c.accounts = DOMAIN l.accounts \cup {counterparty}
              /\ \A q \in BookPlaces : Balance(c, q) = Balance(l, q)
          BY <1>1, <4>1, OpenedKeeps
        <4>3. QED BY <3>1, <4>2 DEF Margin
      <3>3. CASE ~(pnl < 0)
        <4>1. c = l BY <3>3
        <4>2. pnl = 0 \/ pnl > 0 BY <3>3
        <4> HIDE DEF c
        <4>3. QED BY <1>1, <1>2, <4>1, <4>2, FollowsSelf DEF Follows
      <3>4. QED BY <3>2, <3>3
    <2> HIDE DEF c
    <2>4. /\ Tidy(b, A \cup {key}) /\ Follows(c, b, {})
          /\ MarginBy(c, b, user, -released)
      <3>1. user \in DOMAIN c.accounts BY <1>2, <2>3
      <3> HIDE DEF A
      <3>2. QED BY <2>1, <2>2, <2>3, <3>1, BackKeeps
    <2> HIDE DEF b, A
    <2>5. /\ user \in DOMAIN b.accounts /\ b \in Books /\ c \in Books
          /\ pnl = 0 \/ counterparty \in DOMAIN b.accounts
      BY <1>2, <2>3, <2>4 DEF Follows, Tidy
    <2>6. /\ Tidy(p, (A \cup {key}) \cup {k}) /\ Follows(b, p, {})
          /\ MarginsBut(b, p, counterparty)
      <3> DEFINE B == A \cup {key}
      <3>1. p = PnlBetween(b, user, Futures(counterparty, "margin"), pnl, key) OBVIOUS
      <3>2. k \notin B /\ k \in Keys /\ Tidy(b, B) BY <2>1, <2>4
      <3>3. Settling(b, p, user, counterparty, pnl, key, k) BY <2>5, <3>1 DEF Settling
      <3> HIDE DEF p, B, k
      <3>4. /\ Tidy(p, B \cup {k}) /\ Follows(b, p, {})
            /\ MarginsBut(b, p, counterparty)
        BY <3>3, <3>1, <3>2, PnlKeeps
      <3>5. QED BY <3>4 DEF B
    <2> HIDE DEF p
    <2>7. user \in DOMAIN p.accounts /\ p \in Books BY <2>5, <2>6 DEF Follows, Tidy
    <2>8. /\ Tidy(d, ((A \cup {key}) \cup {k}) \cup {h}) /\ Follows(p, d, {})
          /\ MarginBy(p, d, user, 0)
      <3>1. h \notin (A \cup {key}) \cup {k} BY <2>1
      <3>2. QED BY <2>1, <2>2, <2>6, <2>7, <3>1, FuturesAre, FeeKeeps
    <2> HIDE DEF d, k, h
    <2>9. d \in Books BY <2>8 DEF Tidy
    <2>10. Follows(c, d, {})
      <3>1. Follows(c, p, {}) BY <2>4, <2>5, <2>6, <2>7, FollowsBoth
      <3>2. QED BY <2>5, <2>7, <2>8, <2>9, <3>1, FollowsBoth
    <2>11. Told(l, d, X) /\ d.keys = l.keys /\ DOMAIN l.accounts \subseteq DOMAIN d.accounts
      <3>1. Told(l, d, {} \cup {}) BY <1>1, <2>3, <2>5, <2>9, <2>10, ToldOn DEF Follows
      <3>2. {} \cup {} = X OBVIOUS
      <3>3. QED BY <2>3, <2>10, <3>1, <3>2 DEF Follows
    <2>12. Tidy(d, A \cup Family(key))
      <3>1. ((A \cup {key}) \cup {k}) \cup {h} \subseteq A \cup Family(key) BY <2>1
      <3>2. QED BY <2>8, <3>1, TidyWider
    <2>13. ASSUME NEW u \in Traders \ {user, counterparty} PROVE Margin(d, u) = Margin(l, u)
      <3>1. Margin(c, u) \in Int /\ Margin(p, u) \in Int BY <2>5, <2>7, MarginInt
      <3>2. Margin(b, u) = Margin(c, u) BY <2>4, <3>1 DEF MarginBy, Count
      <3>3. Margin(d, u) = Margin(p, u) BY <2>8, <3>1 DEF MarginBy, Count
      <3>4. QED BY <2>3, <2>6, <3>2, <3>3 DEF MarginsBut
    <2>14. QED BY <2>11, <2>12, <2>13 DEF Done, A
  <1>3. ASSUME NEW who, NEW all \in BOOLEAN, out = Checked(l, valid, Once(l, key, who, all, d)),
               valid /\ key \notin l.keys /\ who \in DOMAIN l.accounts /\ all
                   => user \in DOMAIN l.accounts /\ (pnl > 0 => counterparty \in DOMAIN l.accounts)
        PROVE  /\ Keeps(l, out, {})
               /\ \A u \in Traders \ {user, counterparty} : Margin(out.ledger, u) = Margin(l, u)
    <2>1. DoneIf(l, d, key, who, valid, all, X) BY <1>2, <1>3 DEF DoneIf
    <2>2. valid \in BOOLEAN OBVIOUS
    <2> HIDE DEF valid, d, X
    <2>3. Answered(l, d, key, who, valid, all, X, out) BY <1>3, <2>1, <2>2, OnceKeeps
    <2>4. CASE valid /\ key \notin l.keys /\ who \in DOMAIN l.accounts /\ all
      BY <1>2, <1>3, <2>3, <2>4 DEF Answered, Keeps, Margin, X
    <2>5. CASE ~(valid /\ key \notin l.keys /\ who \in DOMAIN l.accounts /\ all)
      BY <2>3, <2>5 DEF Answered, Keeps, Margin, X
    <2>6. QED BY <2>4, <2>5
  <1>4. out = Checked(l, valid, IF against THEN Once(l, key, counterparty, covered, d)
                                ELSE Once(l, key, user, enough, d))
    BY DEF ClosePosition
  <1>5. against \in BOOLEAN /\ enough \in BOOLEAN /\ covered \in BOOLEAN
        /\ (against => user \in DOMAIN l.accounts)
        /\ (~against /\ key \notin l.keys /\ user \in DOMAIN l.accounts /\ enough => ~(pnl > 0))
    BY DEF Used
  <1> HIDE DEF against, enough, covered, d, valid
  <1>6. CASE against BY <1>3, <1>4, <1>5, <1>6
  <1>7. CASE ~against BY <1>3, <1>4, <1>5, <1>7
  <1>8. QED BY <1>6, <1>7

\* A deposit.
LEMMA DepositKeeps ==
    ASSUME NEW l, Sound(l), NEW key \in BaseKeys, NEW user \in Traders, NEW amount \in Nat \ {0},
           NEW m, m = Deposit(l, user, amount, key)
    PROVE  /\ Sound(m) /\ DOMAIN l.accounts \subseteq DOMAIN m.accounts
           /\ \A u \in Traders : Margin(m, u) = Margin(l, u)
  <1> DEFINE at == Place(user, "Funding", "available")
             other == OfSystem("Funding")
             c == GetOrCreateAccount(l, user)
             d == Noted(Credit(c, at, amount), other, at, amount, "Deposit", key)
             A == Families(l.keys)
  <1>1. Tidy(l, A) /\ l.keys \subseteq BaseKeys BY DEF Sound
  <1>2. CASE Used(l, key) BY <1>2 DEF Deposit
  <1>3. CASE ~Used(l, key)
    <2>1. m = [d EXCEPT !.keys = @ \cup {key}] BY <1>3 DEF Deposit
    <2>2. key \in Keys /\ key \notin A /\ key \in Family(key) BY <1>1, <1>3, NewKeys DEF Used
    <2>3. OneSided(c, d, at, other, amount, "Deposit", key) BY DEF OneSided
    <2>4. /\ at \in UserPlaces(Traders) /\ at \in BookPlaces /\ at.owner = user
          /\ at.owner # SYSTEM /\ at.field = "available"
      BY PlacesAre, FuturesAre, TradersAre
    <2>5. \A u \in Traders : Futures(u, "margin") \in BookPlaces /\ Futures(u, "margin") # at
      BY FuturesAre
    <2>6. other \in EntryPlaces /\ other.owner = SYSTEM BY PlacesAre DEF SystemWallets
    <2>7. Outer("Deposit", other, amount) /\ "Deposit" \in JournalTypes
      BY DEF Outer, JournalTypes
    <2> HIDE DEF A, at, other
    <2>8. /\ Tidy(c, A) /\ c.keys = l.keys
          /\ DOMAIN c.accounts = DOMAIN l.accounts \cup {user}
          /\ \A p \in BookPlaces : Balance(c, p) = Balance(l, p)
      BY <1>1, OpenedKeeps
    <2> HIDE DEF c, d
    <2>9. Reaches(c, at) /\ Loose(at) BY <2>4, <2>8 DEF Reaches, Loose
    <2>10. Tidy(d, A \cup {key}) /\ Follows(c, d, {}) /\ Shifted(c, d, at, amount)
      <3>1. amount \in Int OBVIOUS
      <3>2. QED BY <2>2, <2>3, <2>4, <2>6, <2>7, <2>8, <2>9, <3>1, OneSidedKeeps
    <2>11. Marked(l, d, m, key)
      <3>1. A \cup {key} \subseteq A \cup Family(key) BY <2>2
      <3>2. Tidy(d, A \cup Family(key)) BY <2>10, <3>1, TidyWider
      <3>3. QED BY <1>1, <2>1, <2>8, <2>10, <3>2 DEF Marked, Follows, A
    <2>12. Sound(m) /\ m.accounts = d.accounts /\ \A p : Balance(m, p) = Balance(d, p)
      BY <2>11, KeyUsed
    <2>13. c \in Books BY <2>8 DEF Tidy
    <2>14. ASSUME NEW u \in Traders PROVE Margin(m, u) = Margin(l, u)
      <3>1. Margin(c, u) \in Int BY <2>13, MarginInt
      <3>2. Margin(d, u) = Margin(c, u) BY <2>5, <2>10, <3>1 DEF Margin, Shifted, Count
      <3>3. QED BY <2>5, <2>8, <2>12, <3>2 DEF Margin
    <2>15. QED BY <2>8, <2>10, <2>12, <2>14 DEF Follows
  <1>4. QED BY <1>2, <1>3

-----------------------------------------------------------------------------
(* The calls' keys.                                                        *)

\* Short sequences.
LEMMA ShortSeqs ==
    ASSUME NEW S
    PROVE  /\ \A a, b \in S : <<a, b>> \in Seq(S) /\ <<a, b>>[1] = a
           /\ \A a, b, c \in S : <<a, b, c>> \in Seq(S) /\ <<a, b, c>>[1] = a
           /\ \A a, b, c, d \in S : <<a, b, c, d>> \in Seq(S) /\ <<a, b, c, d>>[1] = a
           /\ \A a, b, c, d \in S : /\ <<a, b, c>> \o <<d>> \in Seq(S)
                                   /\ (<<a, b, c>> \o <<d>>)[1] = a
                                   /\ Len(<<a, b, c>> \o <<d>>) = 4
                                   /\ <<a, b, c>> \o <<d>> # << >>
           /\ \A a, b : Len(<<a, b>>) = 2 /\ <<a, b>> # << >>
           /\ \A a, b, c : Len(<<a, b, c>>) = 3 /\ <<a, b, c>> # << >>
           /\ \A a, b, c, d : Len(<<a, b, c, d>>) = 4 /\ <<a, b, c, d>> # << >>
  OBVIOUS

\* What the calls use.
LEMMA KeysAre ==
    ASSUME NEW u \in Traders, NEW v \in Traders, NEW n \in Nat
    PROVE  /\ \A tag \in {"deposit", "transfer", "freeze", "liq"} : <<tag, u>> \in BaseKeys
           /\ \A tag \in {"withdraw", "back", "unfreeze", "pair", "funding"} :
                 <<tag, n, u>> \in BaseKeys
           /\ \A side \in {"buyer", "seller"}, step \in {"open", "close"} :
                 <<"trade", n, side>> \o <<step>> \in BaseKeys
           /\ <<"adl", u, v, n>> \in BaseKeys
  <1>1. u \in KeyParts /\ v \in KeyParts /\ n \in KeyParts /\ Tags \subseteq KeyParts
        /\ {"buyer", "seller", "open", "close"} \subseteq KeyParts
    BY DEF KeyParts
  <1> HIDE DEF KeyParts
  <1>2. \A k \in Seq(KeyParts) :
           k # << >> /\ k[1] \in Tags /\ Len(k) = LengthOf(k[1]) => k \in BaseKeys
    BY DEF BaseKeys, Keys
  <1>3. ASSUME NEW tag \in {"deposit", "transfer", "freeze", "liq"} PROVE <<tag, u>> \in BaseKeys
    <2>1. tag \in Tags /\ LengthOf(tag) = 2 BY DEF Tags, LengthOf
    <2>2. QED BY <1>1, <1>2, <2>1, ShortSeqs
  <1>4. ASSUME NEW tag \in {"withdraw", "back", "unfreeze", "pair", "funding"}
        PROVE  <<tag, n, u>> \in BaseKeys
    <2>1. tag \in Tags /\ LengthOf(tag) = 3 BY DEF Tags, LengthOf
    <2>2. QED BY <1>1, <1>2, <2>1, ShortSeqs
  <1>5. ASSUME NEW side \in {"buyer", "seller"}, NEW step \in {"open", "close"}
        PROVE  <<"trade", n, side>> \o <<step>> \in BaseKeys
    <2> DEFINE tag == "trade"
    <2>1. tag \in Tags /\ LengthOf(tag) = 4 BY DEF Tags, LengthOf
    <2>2. side \in KeyParts /\ step \in KeyParts BY <1>1
    <2> HIDE DEF tag
    <2> DEFINE k == <<tag, n, side>> \o <<step>>
    <2>3. tag \in KeyParts BY <1>1, <2>1
    <2>4. k \in Seq(KeyParts) /\ k[1] = tag /\ Len(k) = 4 /\ k # << >>
      BY <1>1, <2>2, <2>3, ShortSeqs
    <2> HIDE DEF k
    <2>5. k \in BaseKeys BY <1>2, <2>1, <2>4
    <2>6. QED BY <2>5 DEF k, tag
  <1>6. <<"adl", u, v, n>> \in BaseKeys
    <2> DEFINE tag == "adl"
    <2>1. tag \in Tags /\ LengthOf(tag) = 4 BY DEF Tags, LengthOf
    <2> HIDE DEF tag
    <2>2. <<tag, u, v, n>> \in BaseKeys BY <1>1, <1>2, <2>1, ShortSeqs
    <2>3. QED BY <2>2 DEF tag
  <1>7. QED BY <1>3, <1>4, <1>5, <1>6

-----------------------------------------------------------------------------
(* Steps of a call on the service.                                         *)

Sides == {"Long", "Short"}
PositionTypes == [side : Sides, size : Nat \ {0}, entry : Int, margin : Int]
PositionTables == UNION {[S -> PositionTypes] : S \in SUBSET Traders}

\* The margin positions say a user has.
HeldMargin(positions, u) == IF u \in DOMAIN positions THEN positions[u].margin ELSE 0
Backed(l, positions, gone) ==
    \A u \in Traders \ gone : Margin(l, u) = HeldMargin(positions, u)

\* A call in progress, and what it has done to the ledger l it found.
CallOK(s) ==
    /\ s = [positions |-> s.positions, ledger |-> s.ledger, error |-> s.error, astray |-> s.astray]
    /\ s.positions \in PositionTables /\ s.astray \in SUBSET Traders
    /\ Sound(s.ledger) /\ Backed(s.ledger, s.positions, s.astray)
Since(l, s, X) ==
    /\ Told(l, s.ledger, X) /\ DOMAIN l.accounts \subseteq DOMAIN s.ledger.accounts
CallFrom(l, s) == CallOK(s) /\ Since(l, s, {})

\* What a table of positions holds.
LEMMA PositionsAre ==
    ASSUME NEW p \in PositionTables
    PROVE  /\ DOMAIN p \in SUBSET Traders
           /\ \A u \in DOMAIN p : /\ p[u] \in PositionTypes /\ p[u].side \in Sides
                                  /\ p[u].size \in Nat \ {0} /\ p[u].entry \in Int
                                  /\ p[u].margin \in Int
  <1>1. DOMAIN p \in SUBSET Traders /\ \A u \in DOMAIN p : p[u] \in PositionTypes
    BY DEF PositionTables
  <1>2. QED BY <1>1 DEF PositionTypes

\* What makes one.
LEMMA PositionsBy ==
    ASSUME NEW S \in SUBSET Traders, NEW p \in [S -> PositionTypes]
    PROVE  p \in PositionTables
  BY DEF PositionTables

\* Positions change by what the ledger does to the wallet.
Matched(s, positions, error, user, delta) ==
    /\ positions \in PositionTables
    /\ \A u \in Traders : u # user => HeldMargin(positions, u) = HeldMargin(s.positions, u)
    /\ \/ HeldMargin(positions, user) = HeldMargin(s.positions, user) + delta
             /\ (error # "none" => positions # s.positions)
       \/ error # "none" /\ positions = s.positions

\* Then positions and wallets stay equal, or the user is noted as astray.
LEMMA SettledKeeps ==
    ASSUME NEW l \in Books, NEW s, CallFrom(l, s), NEW user \in Traders, NEW key \in BaseKeys,
           NEW outcome, NEW delta \in Int, Keeps(s.ledger, outcome, {}),
           Moves(s.ledger, outcome, key, user, delta),
           NEW positions, Matched(s, positions, outcome.error, user, delta),
           NEW r, r = Settled(s, positions, outcome, user, Used(s.ledger, key))
    PROVE  CallFrom(l, r) /\ r.positions = positions
  <1> DEFINE gone == Used(s.ledger, key) \/ (outcome.error # "none" /\ positions # s.positions)
             X == {}
  <1>1. /\ r.positions = positions /\ r.ledger = outcome.ledger /\ r.error = outcome.error
        /\ r.astray = (IF gone THEN s.astray \cup {user} ELSE s.astray)
        /\ r = [positions |-> r.positions, ledger |-> r.ledger, error |-> r.error,
                astray |-> r.astray]
    BY DEF Settled
  <1>2. /\ s.positions \in PositionTables /\ s.astray \in SUBSET Traders
        /\ Sound(s.ledger) /\ Backed(s.ledger, s.positions, s.astray)
        /\ Told(l, s.ledger, X) /\ DOMAIN l.accounts \subseteq DOMAIN s.ledger.accounts
    BY DEF CallFrom, CallOK, Since
  <1>3. /\ Sound(outcome.ledger) /\ Told(s.ledger, outcome.ledger, X)
        /\ DOMAIN s.ledger.accounts \subseteq DOMAIN outcome.ledger.accounts
    BY DEF Keeps
  <1>4. s.ledger \in Books /\ outcome.ledger \in Books BY <1>2, <1>3 DEF Sound, Tidy
  <1>5. Told(l, outcome.ledger, X)
    <2>1. X \cup X = X OBVIOUS
    <2> HIDE DEF X
    <2>2. Told(l, outcome.ledger, X \cup X) BY <1>2, <1>3, <1>4, ToldOn
    <2>3. QED BY <2>1, <2>2
  <1>6. positions \in PositionTables BY DEF Matched
  <1>7. \A u \in Traders : Margin(s.ledger, u) \in Int BY <1>4, MarginInt
  <1>8. ASSUME NEW u \in Traders, u \notin r.astray
        PROVE  Margin(outcome.ledger, u) = HeldMargin(positions, u)
    <2>1. u \notin s.astray /\ (gone => u # user) BY <1>1, <1>8
    <2>2. Margin(s.ledger, u) = HeldMargin(s.positions, u) BY <1>2, <2>1 DEF Backed
    <2>3. Margin(outcome.ledger, u) = Margin(s.ledger, u)
             + Count(u = user /\ outcome.error = "none" /\ ~Used(s.ledger, key), delta)
      BY DEF Moves
    <2>4. CASE u # user
      <3>1. HeldMargin(positions, u) = HeldMargin(s.positions, u) BY <2>4 DEF Matched
      <3>2. Margin(outcome.ledger, u) = Margin(s.ledger, u) BY <1>7, <2>3, <2>4 DEF Count
      <3>3. QED BY <2>2, <3>1, <3>2
    <2>5. CASE u = user
      <3>1. ~Used(s.ledger, key) /\ (outcome.error = "none" \/ positions = s.positions)
        BY <2>1, <2>5
      <3>2. CASE outcome.error = "none"
        <4>1. HeldMargin(positions, user) = HeldMargin(s.positions, user) + delta BY <3>2 DEF Matched
        <4>2. Margin(outcome.ledger, u) = Margin(s.ledger, u) + delta
          BY <2>3, <2>5, <3>1, <3>2 DEF Count
        <4>3. QED BY <2>2, <2>5, <4>1, <4>2
      <3>3. CASE outcome.error # "none"
        <4>1. positions = s.positions BY <3>1, <3>3
        <4>2. Margin(outcome.ledger, u) = Margin(s.ledger, u) BY <1>7, <2>3, <3>3 DEF Count
        <4>3. QED BY <2>2, <4>1, <4>2
      <3>4. QED BY <3>2, <3>3
    <2>6. QED BY <2>4, <2>5
  <1>9. Backed(r.ledger, r.positions, r.astray) BY <1>1, <1>8 DEF Backed
  <1>10. r.astray \in SUBSET Traders BY <1>1, <1>2
  <1>11. CallOK(r) BY <1>1, <1>3, <1>6, <1>9, <1>10 DEF CallOK
  <1>12. Since(l, r, {}) BY <1>1, <1>2, <1>3, <1>5 DEF Since
  <1>13. QED BY <1>1, <1>11, <1>12 DEF CallFrom

\* A position that is closed, wholly or in part.
LEMMA ReducedIs ==
    ASSUME NEW p \in PositionTables, NEW user \in DOMAIN p, NEW qty \in 1 .. p[user].size,
           NEW q, q = ReduceOrClose(p, user, qty)
    PROVE  /\ q \in PositionTables /\ q # p /\ DOMAIN p \ {user} \subseteq DOMAIN q
           /\ MarginReleased(p[user], qty) \in Int
           /\ HeldMargin(q, user) = HeldMargin(p, user) + (-MarginReleased(p[user], qty))
           /\ \A u \in Traders : u # user => HeldMargin(q, u) = HeldMargin(p, u)
  <1> DEFINE n == p[user].size
             margin == p[user].margin
             released == MarginReleased(p[user], qty)
  <1>1. DOMAIN p \in SUBSET Traders /\ \A u \in DOMAIN p : p[u] \in PositionTypes BY PositionsAre
  <1>2. n \in Nat \ {0} /\ margin \in Int /\ qty \in Nat \ {0} /\ qty <= n BY PositionsAre
  <1>3. released = (margin * qty) \div n BY DEF MarginReleased
  <1>4. p = [u \in DOMAIN p |-> p[u]] BY DEF PositionTables
  <1>5. released \in Int
    <2> DEFINE product == margin * qty
    <2>1. product \in Int BY <1>2
    <2> HIDE DEF product
    <2>2. product \div n \in Int BY <1>2, <2>1
    <2>3. QED BY <1>3, <2>2 DEF product
  <1>6. CASE qty = n
    <2>1. released = margin
      <3> HIDE DEF n, margin, released
      <3>1. (margin * n) \div n = margin BY <1>2
      <3>2. QED BY <1>3, <1>6, <3>1
    <2>2. q = [u \in DOMAIN p \ {user} |-> p[u]] BY <1>6 DEF ReduceOrClose, Restrict
    <2>3. q \in [DOMAIN p \ {user} -> PositionTypes] BY <1>1, <2>2
    <2>4. DOMAIN p \ {user} \in SUBSET Traders BY <1>1
    <2>5. q \in PositionTables BY <2>3, <2>4, PositionsBy
    <2>6. DOMAIN q = DOMAIN p \ {user} /\ q # p BY <2>2
    <2>7. HeldMargin(q, user) = 0 /\ HeldMargin(p, user) = margin BY <2>6 DEF HeldMargin
    <2>8. HeldMargin(q, user) = HeldMargin(p, user) + (-released)
      <3> HIDE DEF margin, released
      <3>1. QED BY <1>2, <2>1, <2>7
    <2>9. \A u \in Traders : u # user => HeldMargin(q, u) = HeldMargin(p, u) BY <2>2, <2>6 DEF HeldMargin
    <2>10. QED BY <1>5, <2>5, <2>6, <2>8, <2>9
  <1>7. CASE qty # n
    <2> DEFINE new == [p[user] EXCEPT !.size = n - qty, !.margin = margin - released]
    <2>1. q = [p EXCEPT ![user] = new] BY <1>7 DEF ReduceOrClose
    <2>2. n - qty \in Nat \ {0} BY <1>2, <1>7
    <2>3. new \in PositionTypes /\ new.margin = margin - released /\ new.size = n - qty
      <3> DEFINE size == n - qty
                 rest == margin - released
                 old == p[user]
      <3>1. size \in Nat \ {0} /\ rest \in Int /\ old \in PositionTypes
        <4> HIDE DEF released, n, margin
        <4>1. QED BY <1>1, <1>2, <1>5, <2>2
      <3>2. new = [old EXCEPT !.size = size, !.margin = rest] OBVIOUS
      <3> HIDE DEF size, rest, old, new
      <3>3. new \in PositionTypes /\ new.margin = rest /\ new.size = size
        BY <3>1, <3>2 DEF PositionTypes
      <3>4. QED BY <3>3 DEF size, rest
    <2> HIDE DEF new
    <2>4. /\ DOMAIN q = DOMAIN p /\ q[user] = new
          /\ \A u \in DOMAIN p : u # user => q[u] = p[u]
      BY <1>4, <2>1
    <2>5. q \in [DOMAIN p -> PositionTypes] BY <1>1, <1>4, <2>1, <2>3
    <2>6. q \in PositionTables BY <1>1, <2>5, PositionsBy
    <2>7. q # p
      <3>1. new.size # p[user].size BY <1>2, <2>3
      <3>2. QED BY <2>4, <3>1
    <2>8. HeldMargin(q, user) = HeldMargin(p, user) + (-released)
      <3>1. HeldMargin(q, user) = margin - released /\ HeldMargin(p, user) = margin BY <2>3, <2>4 DEF HeldMargin
      <3> HIDE DEF margin, released
      <3>2. QED BY <1>2, <1>5, <3>1
    <2>9. \A u \in Traders : u # user => HeldMargin(q, u) = HeldMargin(p, u) BY <2>4 DEF HeldMargin
    <2>10. QED BY <1>5, <2>4, <2>6, <2>7, <2>8, <2>9
  <1>8. QED BY <1>6, <1>7

\* A profit or loss is a number.
LEMMA PnlInt ==
    ASSUME NEW position \in PositionTypes, NEW qty \in Nat, NEW price \in Nat
    PROVE  Pnl(position, qty, price) \in Int
  <1>1. position.entry \in Int BY DEF PositionTypes
  <1> DEFINE up == price - position.entry
             down == position.entry - price
  <1>2. up \in Int /\ down \in Int BY <1>1
  <1>3. Pnl(position, qty, price) = qty * (IF position.side = "Long" THEN up ELSE down) BY DEF Pnl
  <1> HIDE DEF up, down
  <1>4. QED BY <1>2, <1>3

\* A step that closes.
LEMMA CloseStepKeeps ==
    ASSUME NEW l \in Books, NEW s, CallFrom(l, s), NEW user \in DOMAIN s.positions,
           NEW qty \in 1 .. s.positions[user].size, NEW price \in Nat \ {0}, NEW fee \in Int,
           NEW key \in BaseKeys, NEW r, r = CloseStep(s, user, qty, price, fee, key)
    PROVE  CallFrom(l, r) /\ DOMAIN s.positions \ {user} \subseteq DOMAIN r.positions
  <1> DEFINE p == s.positions
             released == MarginReleased(p[user], qty)
             pnl == Pnl(p[user], qty, price)
             q == ReduceOrClose(p, user, qty)
             out == ClosePositionSettled(s.ledger, user, released, pnl, fee, key)
             delta == -released
  <1>1. p \in PositionTables /\ Sound(s.ledger) BY DEF CallFrom, CallOK
  <1>2. user \in Traders /\ p[user] \in PositionTypes /\ p[user].size \in Nat
    BY <1>1, PositionsAre
  <1>3. /\ q \in PositionTables /\ q # p /\ DOMAIN p \ {user} \subseteq DOMAIN q
        /\ released \in Int /\ HeldMargin(q, user) = HeldMargin(p, user) + delta
        /\ \A u \in Traders : u # user => HeldMargin(q, u) = HeldMargin(p, u)
    BY <1>1, ReducedIs
  <1>4. pnl \in Int BY <1>2, PnlInt
  <1>5. r = Settled(s, q, out, user, Used(s.ledger, key)) BY DEF CloseStep
  <1> HIDE DEF pnl, q, released
  <1>6. Keeps(s.ledger, out, {}) /\ Moves(s.ledger, out, key, user, delta)
    BY <1>1, <1>2, <1>3, <1>4, ClosePositionSettledKeeps
  <1>7. delta \in Int BY <1>3
  <1> HIDE DEF out, delta
  <1>8. Matched(s, q, out.error, user, delta) BY <1>3 DEF Matched
  <1>9. CallFrom(l, r) /\ r.positions = q BY <1>2, <1>5, <1>6, <1>7, <1>8, SettledKeeps
  <1>10. QED BY <1>3, <1>9

\* A position that is opened or increased.
LEMMA IncreasedIs ==
    ASSUME NEW p \in PositionTables, NEW user \in Traders, NEW side \in Sides,
           NEW qty \in Nat \ {0}, NEW price \in Nat \ {0}, NEW leverage \in Nat \ {0},
           NEW q, q = OpenOrIncrease(p, user, side, qty, price, leverage)
    PROVE  /\ q \in PositionTables
           /\ (qty * price) \div leverage \in Int
           /\ HeldMargin(q, user) = HeldMargin(p, user) + (qty * price) \div leverage
           /\ \A u \in Traders : u # user => HeldMargin(q, u) = HeldMargin(p, u)
  <1> DEFINE old == IF user \in DOMAIN p THEN p[user] ELSE [size |-> 0, entry |-> 0, margin |-> 0]
             size == old.size + qty
             entry == (old.size * old.entry + qty * price) \div size
             added == (qty * price) \div leverage
             margin == old.margin + added
             new == [side |-> side, size |-> size, entry |-> entry, margin |-> margin]
  <1>1. DOMAIN p \in SUBSET Traders /\ \A u \in DOMAIN p : p[u] \in PositionTypes
    BY PositionsAre
  <1>2. /\ old.size \in Nat /\ old.entry \in Int /\ old.margin \in Int
        /\ old.margin = HeldMargin(p, user)
    <2>1. CASE user \in DOMAIN p BY <2>1, PositionsAre DEF HeldMargin
    <2>2. CASE user \notin DOMAIN p BY <2>2 DEF HeldMargin
    <2>3. QED BY <2>1, <2>2
  <1>3. size \in Nat \ {0} BY <1>2
  <1>4. entry \in Int
    <2> DEFINE sum == old.size * old.entry + qty * price
    <2>1. sum \in Int BY <1>2
    <2> HIDE DEF sum, size
    <2>2. sum \div size \in Int BY <1>3, <2>1
    <2>3. QED BY <2>2 DEF sum
  <1>5. added \in Int
    <2> DEFINE notional == qty * price
    <2>1. notional \in Int OBVIOUS
    <2> HIDE DEF notional
    <2>2. notional \div leverage \in Int BY <2>1
    <2>3. QED BY <2>2 DEF notional
  <1>6. q = With(p, user, new) BY DEF OpenOrIncrease
  <1> HIDE DEF entry, size, added, old
  <1>7. margin \in Int /\ margin = HeldMargin(p, user) + added BY <1>2, <1>5
  <1> HIDE DEF margin
  <1>8. new \in PositionTypes /\ new.margin = margin BY <1>3, <1>4, <1>7 DEF PositionTypes
  <1> HIDE DEF new
  <1>9. /\ DOMAIN q = DOMAIN p \cup {user} /\ q[user] = new
        /\ \A u \in DOMAIN p : u # user => q[u] = p[u]
        /\ q \in [DOMAIN p \cup {user} -> PositionTypes]
    BY <1>1, <1>6, <1>8 DEF With
  <1>10. q \in PositionTables
    <2>1. DOMAIN p \cup {user} \in SUBSET Traders BY <1>1
    <2>2. QED BY <1>9, <2>1, PositionsBy
  <1>11. HeldMargin(q, user) = HeldMargin(p, user) + added BY <1>7, <1>8, <1>9 DEF HeldMargin
  <1>12. \A u \in Traders : u # user => HeldMargin(q, u) = HeldMargin(p, u) BY <1>9 DEF HeldMargin
  <1>13. QED BY <1>5, <1>10, <1>11, <1>12 DEF added

\* A step that opens.
LEMMA OpenStepKeeps ==
    ASSUME NEW l \in Books, NEW s, CallFrom(l, s), NEW user \in Traders, NEW side \in Sides,
           NEW qty \in Nat \ {0}, NEW price \in Nat \ {0}, NEW fee \in Int,
           NEW leverage \in Nat \ {0}, NEW key \in BaseKeys,
           NEW r, r = OpenStep(s, user, side, qty, price, fee, leverage, key)
    PROVE  CallFrom(l, r)
  <1> DEFINE p == s.positions
             margin == (qty * price) \div leverage
             out == OpenPosition(s.ledger, user, margin, fee, key)
             opened == OpenOrIncrease(p, user, side, qty, price, leverage)
             q == IF out.error # "none" THEN p ELSE opened
  <1>1. p \in PositionTables /\ Sound(s.ledger) BY DEF CallFrom, CallOK
  <1>2. /\ opened \in PositionTables /\ margin \in Int
        /\ HeldMargin(opened, user) = HeldMargin(p, user) + margin
        /\ \A u \in Traders : u # user => HeldMargin(opened, u) = HeldMargin(p, u)
    BY <1>1, IncreasedIs
  <1>3. r = Settled(s, q, out, user, Used(s.ledger, key)) BY DEF OpenStep
  <1> HIDE DEF opened, margin
  <1>4. Keeps(s.ledger, out, {}) /\ Moves(s.ledger, out, key, user, margin)
    BY <1>1, <1>2, OpenPositionKeeps
  <1> HIDE DEF out
  <1>5. Matched(s, q, out.error, user, margin) BY <1>1, <1>2 DEF Matched
  <1> HIDE DEF q
  <1>6. QED BY <1>2, <1>3, <1>4, <1>5, SettledKeeps

\* One side of a trade.
LEMMA ProcessSideKeeps ==
    ASSUME NEW l \in Books, NEW s, CallFrom(l, s), NEW user \in Traders, NEW side \in Sides,
           NEW t \in Terms, NEW key, key \o <<"close">> \in BaseKeys, key \o <<"open">> \in BaseKeys,
           NEW r, r = ProcessSide(s, user, side, t, key)
    PROVE  CallFrom(l, r)
  <1> DEFINE opposite == user \in DOMAIN s.positions /\ s.positions[user].side = Opposite(side)
             closeQty == IF opposite THEN Min({t.qty, s.positions[user].size}) ELSE 0
             openQty == t.qty - closeQty
             fee == (t.fee * closeQty) \div t.qty
             paid == (t.fee * openQty) \div t.qty
             k == key \o <<"close">>
             h == key \o <<"open">>
             closed == IF closeQty = 0 THEN s ELSE CloseStep(s, user, closeQty, t.price, fee, k)
  <1>1. /\ t.qty \in Nat \ {0} /\ t.price \in Nat \ {0} /\ t.fee \in Nat
        /\ t.leverage \in Nat \ {0}
    BY DEF Terms
  <1>2. s.positions \in PositionTables BY DEF CallFrom, CallOK
  <1>3. /\ closeQty \in Nat /\ openQty \in Nat
        /\ closeQty # 0 => /\ user \in DOMAIN s.positions
                           /\ closeQty \in 1 .. s.positions[user].size
    <2>1. CASE opposite
      <3> DEFINE n == s.positions[user].size
      <3>1. n \in Nat \ {0} BY <1>2, <2>1, PositionsAre
      <3>2. closeQty = Min({t.qty, n}) BY <2>1
      <3> HIDE DEF n
      <3>3. t.qty \in Int /\ n \in Int BY <1>1, <3>1
      <3>4. Min({t.qty, n}) = IF t.qty <= n THEN t.qty ELSE n BY <3>3, MinOfTwo
      <3> HIDE DEF closeQty
      <3>5. closeQty \in Nat /\ closeQty <= t.qty /\ closeQty <= n BY <1>1, <3>1, <3>2, <3>4
      <3>6. QED BY <1>1, <2>1, <3>1, <3>5 DEF n
    <2>2. CASE ~opposite
      <3>1. closeQty = 0 BY <2>2
      <3>2. QED BY <1>1, <3>1
    <2>3. QED BY <2>1, <2>2
  <1> HIDE DEF closeQty, openQty
  <1>4. fee \in Int /\ paid \in Int
    <2>1. \A n \in Nat : (t.fee * n) \div t.qty \in Int
      <3> SUFFICES ASSUME NEW n \in Nat PROVE (t.fee * n) \div t.qty \in Int OBVIOUS
      <3> DEFINE product == t.fee * n
      <3>1. product \in Int BY <1>1
      <3> HIDE DEF product
      <3>2. product \div t.qty \in Int BY <1>1, <3>1
      <3>3. QED BY <3>2 DEF product
    <2>2. QED BY <1>3, <2>1
  <1>5. r = Continue(closed, IF openQty = 0 THEN closed
                             ELSE OpenStep(closed, user, side, openQty, t.price, paid, t.leverage, h))
    BY DEF ProcessSide, closeQty, openQty
  <1> HIDE DEF fee, paid, k, h
  <1>6. CallFrom(l, closed)
    <2>1. CASE closeQty = 0 BY <2>1
    <2>2. CASE closeQty # 0
      <3> DEFINE c == CloseStep(s, user, closeQty, t.price, fee, k)
      <3>1. closed = c BY <2>2
      <3>2. k \in BaseKeys BY DEF k
      <3>3. user \in DOMAIN s.positions /\ closeQty \in 1 .. s.positions[user].size
        BY <1>3, <2>2
      <3>4. CallFrom(l, c) BY <1>1, <1>4, <3>2, <3>3, CloseStepKeeps
      <3>5. QED BY <3>1, <3>4
    <2>3. QED BY <2>1, <2>2
  <1> HIDE DEF closed
  <1>7. CASE openQty # 0
    <2> DEFINE c == OpenStep(closed, user, side, openQty, t.price, paid, t.leverage, h)
    <2>1. h \in BaseKeys BY DEF h
    <2>2. openQty \in Nat \ {0} BY <1>3, <1>7
    <2>3. CallFrom(l, c) BY <1>1, <1>4, <1>6, <2>1, <2>2, OpenStepKeeps
    <2>4. r = closed \/ r = c BY <1>5, <1>7 DEF Continue
    <2>5. QED BY <1>6, <2>3, <2>4
  <1>8. CASE openQty = 0
    <2>1. r = closed BY <1>5, <1>8 DEF Continue
    <2>2. QED BY <1>6, <2>1
  <1>9. QED BY <1>7, <1>8

\* A trade.
LEMMA TradeKeeps ==
    ASSUME NEW l \in Books, NEW s, CallFrom(l, s), NEW t \in Terms, NEW number \in Nat,
           NEW r, r = TradeProcessed(s, t, number)
    PROVE  CallFrom(l, r)
  <1> DEFINE k == <<"trade", number, "buyer">>
             h == <<"trade", number, "seller">>
             bought == ProcessSide(s, t.buyer, "Long", t, k)
             sold == ProcessSide(bought, t.seller, "Short", t, h)
             long == "Long"
             short == "Short"
  <1>1. t.buyer \in Traders /\ t.seller \in Traders BY DEF Terms
  <1>2. long \in Sides /\ short \in Sides BY DEF Sides
  <1>3. /\ k \o <<"close">> \in BaseKeys /\ k \o <<"open">> \in BaseKeys
        /\ h \o <<"close">> \in BaseKeys /\ h \o <<"open">> \in BaseKeys
    BY <1>1, KeysAre
  <1>4. r = bought \/ r = sold BY DEF TradeProcessed, Continue
  <1>5. /\ bought = ProcessSide(s, t.buyer, long, t, k)
        /\ sold = ProcessSide(bought, t.seller, short, t, h)
    OBVIOUS
  <1> HIDE DEF bought, sold, k, h, long, short
  <1>6. CallFrom(l, bought) BY <1>1, <1>2, <1>3, <1>5, ProcessSideKeeps
  <1>7. CallFrom(l, sold) BY <1>1, <1>2, <1>3, <1>5, <1>6, ProcessSideKeeps
  <1>8. QED BY <1>4, <1>6, <1>7

\* A liquidation.
LEMMA LiquidatedKeeps ==
    ASSUME NEW l \in Books, NEW s, CallFrom(l, s), NEW u \in DOMAIN s.positions,
           NEW price \in Nat \ {0}, NEW r, r = Liquidated(s, u, price)
    PROVE  CallFrom(l, r)
  <1> DEFINE p == s.positions
             margin == p[u].margin
             surplus == margin + Pnl(p[u], p[u].size, price)
             key == <<"liq", u>>
             q == ForceClose(p, u)
             out == Liquidate(s.ledger, u, margin, surplus, key)
             delta == -margin
  <1>1. p \in PositionTables /\ Sound(s.ledger) BY DEF CallFrom, CallOK
  <1>2. /\ u \in Traders /\ p[u] \in PositionTypes /\ p[u].size \in Nat /\ margin \in Int
        /\ DOMAIN p \in SUBSET Traders /\ \A v \in DOMAIN p : p[v] \in PositionTypes
    BY <1>1, PositionsAre
  <1>3. surplus \in Int
    <2>1. Pnl(p[u], p[u].size, price) \in Int BY <1>2, PnlInt
    <2>2. QED BY <1>2, <2>1
  <1>4. key \in BaseKeys BY <1>2, KeysAre
  <1>5. r = Settled(s, q, out, u, Used(s.ledger, key)) BY DEF Liquidated
  <1>6. q = [v \in DOMAIN p \ {u} |-> p[v]] BY DEF ForceClose, Restrict
  <1>7. q \in PositionTables
    <2>1. q \in [DOMAIN p \ {u} -> PositionTypes] BY <1>2, <1>6
    <2>2. DOMAIN p \ {u} \in SUBSET Traders BY <1>2
    <2>3. QED BY <2>1, <2>2, PositionsBy
  <1>8. DOMAIN q = DOMAIN p \ {u} /\ q # p BY <1>6
  <1>9. \A v \in Traders : v # u => HeldMargin(q, v) = HeldMargin(p, v) BY <1>6, <1>8 DEF HeldMargin
  <1>10. HeldMargin(q, u) = 0 /\ HeldMargin(p, u) = margin BY <1>8 DEF HeldMargin
  <1> HIDE DEF q, surplus, key, margin
  <1>11. Keeps(s.ledger, out, {}) /\ Moves(s.ledger, out, key, u, delta)
    BY <1>1, <1>2, <1>3, <1>4, LiquidateKeeps
  <1>12. delta \in Int /\ HeldMargin(q, u) = HeldMargin(p, u) + delta BY <1>2, <1>10
  <1> HIDE DEF out, delta
  <1>13. Matched(s, q, out.error, u, delta) BY <1>7, <1>8, <1>9, <1>12 DEF Matched
  <1>14. QED BY <1>2, <1>4, <1>5, <1>11, <1>12, <1>13, SettledKeeps

-----------------------------------------------------------------------------
(* Funding and auto-deleveraging, user by user.                            *)

\* A call that settles funding: users overdrawn before it are not told.
FundingFrom(l, s) == CallOK(s) /\ Since(l, s, PaidOverdrawn(l, s.ledger))
Dues == [user : Traders, rate : Int, number : Nat, mark : Nat \ {0}]

\* A user who has not paid yet still has what was there before the call.
Unpaid(l, m, user) ==
    \A p \in UserPlaces(Traders) : p.owner = user => Balance(m, p) = Balance(l, p)

\* The fee is a number.
LEMMA FundingFeeInt ==
    ASSUME NEW position \in PositionTypes, NEW price \in Nat \ {0}, NEW rate \in Int
    PROVE  FundingFee(position, price, rate) \in Int
  <1> DEFINE top == Max({rate, -rate})
             notional == position.size * price
             product == notional * top
             fee == product \div 100
  <1>1. position.size \in Nat \ {0} BY DEF PositionTypes
  <1>2. top \in Int
    <2> DEFINE opposite == -rate
    <2>1. opposite \in Int OBVIOUS
    <2> HIDE DEF opposite
    <2>2. Max({rate, opposite}) = IF rate >= opposite THEN rate ELSE opposite BY <2>1, MaxOfTwo
    <2>3. Max({rate, opposite}) \in Int BY <2>1, <2>2
    <2>4. QED BY <2>3 DEF opposite
  <1>3. FundingFee(position, price, rate) = fee \/ FundingFee(position, price, rate) = -fee
    BY DEF FundingFee
  <1> HIDE DEF top
  <1>4. notional \in Int BY <1>1
  <1> HIDE DEF notional
  <1>5. product \in Int BY <1>2, <1>4
  <1> HIDE DEF product
  <1>6. fee \in Int BY <1>5
  <1> HIDE DEF fee
  <1>7. QED BY <1>3, <1>6

\* What is told of one call after another, when it is about one user.
LEMMA ToldOfOne ==
    ASSUME NEW l \in Books, NEW m \in Books, NEW n \in Books, NEW user \in Traders,
           Told(l, m, PaidOverdrawn(l, m)), Unpaid(l, m, user),
           NEW X \in SUBSET ({user} \cap PaidOverdrawn(m, n)), Told(m, n, X)
    PROVE  Told(l, n, PaidOverdrawn(l, n))
  <1> DEFINE Y == PaidOverdrawn(l, m)
             Z == PaidOverdrawn(l, n)
  <1>1. Len(l.journal) \in Nat /\ Len(m.journal) \in Nat /\ Len(n.journal) \in Nat
    BY DEF Books, Ledgers
  <1>2. /\ Len(l.journal) <= Len(m.journal) /\ Len(m.journal) <= Len(n.journal)
        /\ \A i \in 1 .. Len(m.journal) : n.journal[i] = m.journal[i]
    BY DEF Told, Extends
  <1>3. Y \subseteq Z
    <2>1. \A i \in Len(l.journal) + 1 .. Len(m.journal) :
             i \in Len(l.journal) + 1 .. Len(n.journal) /\ n.journal[i] = m.journal[i]
      BY <1>1, <1>2
    <2>2. QED BY <2>1 DEF PaidOverdrawn
  <1>4. X \subseteq Z
    <2> SUFFICES ASSUME user \in PaidOverdrawn(m, n) PROVE user \in Z OBVIOUS
    <2>1. Balance(m, Futures(user, "available")) = Balance(l, Futures(user, "available"))
      BY FuturesAre DEF Unpaid
    <2>2. \A i \in Len(m.journal) + 1 .. Len(n.journal) : i \in Len(l.journal) + 1 .. Len(n.journal)
      BY <1>1, <1>2
    <2>3. QED BY <2>1, <2>2 DEF PaidOverdrawn
  <1> HIDE DEF Y, Z
  <1>5. Told(l, n, Y \cup X) BY ToldOn DEF Y
  <1>6. QED BY <1>3, <1>4, <1>5 DEF Told, Z

\* One user's funding.
LEMMA FundingOfKeeps ==
    ASSUME NEW l \in Books, NEW s, FundingFrom(l, s), NEW due \in Dues,
           due.user \in DOMAIN s.positions, Unpaid(l, s.ledger, due.user),
           NEW r, r = FundingOf(s, due)
    PROVE  /\ FundingFrom(l, r) /\ DOMAIN r.positions = DOMAIN s.positions
           /\ OthersKept(s.ledger, r.ledger, due.user)
  <1> DEFINE p == s.positions
             user == due.user
             payment == FundingFee(p[user], due.mark, due.rate)
             key == <<"funding", due.number, user>>
             out == PayFunding(s.ledger, user, payment, key)
             m == out.ledger
             left == Balance(m, Futures(user, "margin"))
             taken == FromMargin(s.ledger, user, payment)
             delta == -taken
  <1>1. /\ p \in PositionTables /\ s.astray \in SUBSET Traders /\ Sound(s.ledger)
        /\ Backed(s.ledger, p, s.astray)
        /\ s = [positions |-> p, ledger |-> s.ledger, error |-> s.error, astray |-> s.astray]
        /\ Told(l, s.ledger, PaidOverdrawn(l, s.ledger))
        /\ DOMAIN l.accounts \subseteq DOMAIN s.ledger.accounts
    BY DEF FundingFrom, CallOK, Since
  <1>2. /\ DOMAIN p \in SUBSET Traders /\ \A u \in DOMAIN p : p[u] \in PositionTypes
        /\ p[user].margin \in Int /\ user \in Traders
    BY <1>1, PositionsAre
  <1>3. p = [u \in DOMAIN p |-> p[u]] BY <1>1 DEF PositionTables
  <1>4. s.ledger \in Books BY <1>1 DEF Sound, Tidy
  <1>5. CASE s.error # "none" \/ payment = 0
    <2>1. r = s BY <1>5 DEF FundingOf
    <2>2. OthersKept(s.ledger, s.ledger, due.user) BY DEF OthersKept
    <2>3. QED BY <2>1, <2>2
  <1>6. CASE ~(s.error # "none" \/ payment = 0)
    <2> DEFINE q == [p EXCEPT ![user] = IF out.error # "none" THEN @
                                        ELSE AfterFunding(@, payment, left)]
    <2>1. r = [s EXCEPT !.ledger = m, !.error = out.error, !.positions = q]
      BY <1>6 DEF FundingOf
    <2>2. payment \in Int BY <1>2, FundingFeeInt DEF Dues
    <2>3. key \in BaseKeys BY <1>2, KeysAre DEF Dues
    <2> HIDE DEF payment, key
    <2>4. /\ \E X \in SUBSET ({user} \cap PaidOverdrawn(s.ledger, m)) : Keeps(s.ledger, out, X)
          /\ taken \in Nat /\ Moves(s.ledger, out, key, user, delta)
          /\ OthersKept(s.ledger, m, user)
      BY <1>1, <1>2, <2>2, <2>3, PayFundingKeeps
    <2>5. payment <= 0 => taken = 0 BY <2>2 DEF FromMargin
    <2> HIDE DEF out, taken
    <2>6. PICK X \in SUBSET ({user} \cap PaidOverdrawn(s.ledger, m)) : Keeps(s.ledger, out, X)
      BY <2>4
    <2>7. /\ Sound(m) /\ Told(s.ledger, m, X)
          /\ DOMAIN s.ledger.accounts \subseteq DOMAIN m.accounts
      BY <2>6 DEF Keeps
    <2>8. m \in Books BY <2>7 DEF Sound, Tidy
    <2>9. Told(l, m, PaidOverdrawn(l, m)) BY <1>1, <1>2, <1>4, <2>6, <2>7, <2>8, ToldOfOne
    <2>10. left \in Int /\ left = Margin(m, user) BY <1>2, <2>8, MarginInt DEF Margin
    <2> DEFINE new == IF out.error # "none" THEN p[user] ELSE AfterFunding(p[user], payment, left)
    <2>11. /\ new \in PositionTypes
           /\ new.margin = IF out.error = "none" /\ payment > 0 /\ left < p[user].margin
                           THEN left ELSE p[user].margin
      <3> DEFINE old == p[user]
      <3>1. old \in PositionTypes BY <1>2
      <3> HIDE DEF old, left
      <3>2. [old EXCEPT !.margin = left] \in PositionTypes /\ [old EXCEPT !.margin = left].margin = left
        BY <2>10, <3>1 DEF PositionTypes
      <3>3. new = IF out.error = "none" /\ payment > 0 /\ left < old.margin
                  THEN [old EXCEPT !.margin = left] ELSE old
        BY DEF AfterFunding, old
      <3>4. QED BY <3>1, <3>2, <3>3 DEF old
    <2>12. q = [p EXCEPT ![user] = new] OBVIOUS
    <2> HIDE DEF new, q, left
    <2>13. /\ DOMAIN q = DOMAIN p /\ q[user] = new
           /\ \A u \in DOMAIN p : u # user => q[u] = p[u]
      BY <1>3, <2>12
    <2>14. q \in PositionTables
      <3>1. q \in [DOMAIN p -> PositionTypes] BY <1>2, <1>3, <2>11, <2>12
      <3>2. QED BY <1>2, <3>1, PositionsBy
    <2>15. /\ r.positions = q /\ r.ledger = m /\ r.error = out.error /\ r.astray = s.astray
           /\ r = [positions |-> q, ledger |-> m, error |-> out.error, astray |-> s.astray]
      BY <1>1, <2>1
    <2>16. \A u \in Traders : Margin(s.ledger, u) \in Int BY <1>4, MarginInt
    <2>17. ASSUME NEW u \in Traders, u \notin s.astray PROVE Margin(m, u) = HeldMargin(q, u)
      <3>1. Margin(s.ledger, u) = HeldMargin(p, u) BY <1>1, <2>17 DEF Backed
      <3>2. Margin(m, u) = Margin(s.ledger, u)
                              + Count(u = user /\ out.error = "none" /\ ~Used(s.ledger, key), delta)
        BY <2>4 DEF Moves
      <3>3. CASE u # user
        <4>1. HeldMargin(q, u) = HeldMargin(p, u) BY <2>13, <3>3 DEF HeldMargin
        <4>2. Margin(m, u) = Margin(s.ledger, u) BY <2>16, <3>2, <3>3 DEF Count
        <4>3. QED BY <3>1, <4>1, <4>2
      <3>4. CASE u = user
        <4>1. HeldMargin(p, u) = p[user].margin /\ HeldMargin(q, u) = new.margin BY <2>13, <3>4 DEF HeldMargin
        <4> DEFINE had == p[user].margin
        <4>2. Margin(m, u) = left /\ had \in Int /\ Margin(s.ledger, u) = had
          BY <1>2, <2>10, <3>1, <3>4, <4>1
        <4>3. CASE out.error = "none" /\ ~Used(s.ledger, key)
          <5>1. left = had + delta BY <3>2, <3>4, <4>2, <4>3 DEF Count
          <5>2. left <= had /\ (payment <= 0 => left = had) BY <2>4, <2>5, <4>2, <5>1
          <5>3. QED BY <2>2, <2>10, <2>11, <4>1, <4>2, <4>3, <5>2
        <4>4. CASE ~(out.error = "none" /\ ~Used(s.ledger, key))
          <5>1. left = had BY <3>2, <4>2, <4>4 DEF Count
          <5>2. QED BY <2>11, <4>1, <4>2, <5>1
        <4>5. QED BY <4>3, <4>4
      <3>5. QED BY <3>3, <3>4
    <2>18. Backed(r.ledger, r.positions, r.astray) BY <2>15, <2>17 DEF Backed
    <2>19. CallOK(r) BY <1>1, <2>7, <2>14, <2>15, <2>18 DEF CallOK
    <2>20. Since(l, r, PaidOverdrawn(l, r.ledger)) BY <1>1, <2>7, <2>9, <2>15 DEF Since
    <2>21. QED BY <2>4, <2>13, <2>15, <2>19, <2>20 DEF FundingFrom
  <1>7. QED BY <1>5, <1>6

\* Auto-deleveraging in progress.
Deleveraging(l, adl) ==
    /\ adl = [call |-> adl.call, remaining |-> adl.remaining, mark |-> adl.mark,
              bankrupt |-> adl.bankrupt, number |-> adl.number]
    /\ CallFrom(l, adl.call) /\ adl.remaining \in Int /\ adl.mark \in Nat \ {0}
    /\ adl.bankrupt \in Traders /\ adl.number \in Nat

\* One reduction.
LEMMA DeleverageOneKeeps ==
    ASSUME NEW l \in Books, NEW adl, Deleveraging(l, adl), NEW user \in DOMAIN adl.call.positions,
           NEW r, r = DeleverageOne(adl, user)
    PROVE  /\ Deleveraging(l, r)
           /\ DOMAIN adl.call.positions \ {user} \subseteq DOMAIN r.call.positions
  <1> DEFINE s == adl.call
             size == s.positions[user].size
             units == adl.remaining \div adl.mark
             qty == Min({units, size})
             key == <<"adl", adl.bankrupt, user, adl.number>>
             none == 0
             reduced == CloseStep(s, user, qty, adl.mark, none, key)
             rest == IF reduced.error = "none" THEN adl.remaining - qty * adl.mark
                     ELSE adl.remaining
  <1>1. /\ CallFrom(l, s) /\ adl.remaining \in Int /\ adl.mark \in Nat \ {0}
        /\ adl.bankrupt \in Traders /\ adl.number \in Nat
    BY DEF Deleveraging
  <1>2. CASE s.error # "none" \/ adl.remaining <= 0 \/ qty = 0
    <2>1. r = adl BY <1>2 DEF DeleverageOne
    <2>2. QED BY <2>1
  <1>3. CASE ~(s.error # "none" \/ adl.remaining <= 0 \/ qty = 0)
    <2>1. r = [adl EXCEPT !.call = reduced, !.remaining = rest] BY <1>3 DEF DeleverageOne
    <2>2. s.positions \in PositionTables BY <1>1 DEF CallFrom, CallOK
    <2>3. user \in Traders /\ size \in Nat \ {0} BY <2>2, PositionsAre
    <2>4. units \in Nat BY <1>1, <1>3
    <2>5. qty \in 1 .. size
      <3> HIDE DEF units, size
      <3>1. qty = IF units <= size THEN units ELSE size BY <2>3, <2>4, MinOfTwo
      <3> HIDE DEF qty
      <3>2. QED BY <1>3, <2>3, <2>4, <3>1
    <2>6. key \in BaseKeys
      <3> DEFINE b == adl.bankrupt
                 n == adl.number
      <3>1. b \in Traders /\ n \in Nat BY <1>1
      <3> HIDE DEF b, n
      <3>2. <<"adl", b, user, n>> \in BaseKeys BY <2>3, <3>1, KeysAre
      <3>3. QED BY <3>2 DEF b, n
    <2>7. none \in Int OBVIOUS
    <2>8. rest \in Int
      <3> DEFINE covered == qty * adl.mark
      <3>1. qty \in Int BY <2>5
      <3> HIDE DEF qty
      <3>2. covered \in Int BY <1>1, <3>1
      <3> HIDE DEF covered, reduced
      <3>3. adl.remaining - covered \in Int BY <1>1, <3>2
      <3>4. QED BY <1>1, <3>3 DEF covered
    <2> HIDE DEF qty, units, key, none
    <2>9. CallFrom(l, reduced) /\ DOMAIN s.positions \ {user} \subseteq DOMAIN reduced.positions
      BY <1>1, <2>5, <2>6, <2>7, CloseStepKeeps
    <2> HIDE DEF reduced, rest
    <2>10. /\ r = [call |-> reduced, remaining |-> rest, mark |-> adl.mark,
                  bankrupt |-> adl.bankrupt, number |-> adl.number]
      BY <2>1 DEF Deleveraging
    <2>11. QED BY <1>1, <2>8, <2>9, <2>10 DEF Deleveraging
  <1>4. QED BY <1>2, <1>3

-----------------------------------------------------------------------------
(* The beginning.                                                          *)

\* A new ledger holds nothing and tells nothing.
LEMMA NewLedgerSound == Sound(NewLedger) /\ \A u \in Traders : Margin(NewLedger, u) = 0
  <1> DEFINE l == NewLedger
  <1>1. /\ l.accounts = << >> /\ l.journal = << >> /\ l.keys = {}
        /\ l.system = [w \in SystemWallets |-> 0] /\ DOMAIN l.accounts = {}
    BY DEF NewLedger
  <1>2. l.accounts \in Accounts(Traders)
    <2> DEFINE a == l.accounts
    <2>1. a \in [{} -> [UserWallets -> [Fields -> Int]]] BY <1>1
    <2>2. {} \in SUBSET Traders OBVIOUS
    <2> HIDE DEF a
    <2>3. a \in Accounts(Traders) BY <2>1, <2>2, AccountsBy
    <2>4. QED BY <2>3 DEF a
  <1>3. l \in Books
    <2>1. l = [accounts |-> l.accounts, system |-> l.system, journal |-> l.journal, keys |-> l.keys]
      BY DEF NewLedger
    <2>2. l.system \in [SystemWallets -> Int] /\ l.journal \in Seq(Entries(Traders, Keys))
          /\ l.keys \in SUBSET Keys
      BY <1>1
    <2> HIDE DEF l
    <2>3. QED BY <1>2, <2>1, <2>2 DEF Books, Ledgers
  <1> HIDE DEF l
  <1>4. Total(l.system) = 0
    <2> DEFINE f == l.system
               none == {}
    <2>1. IsFiniteSet(none) /\ IsIntOn(f, none) BY FS_EmptySet DEF IsIntOn
    <2>2. DOMAIN f = SystemWallets /\ \A w \in SystemWallets : f[w] = 0 BY <1>1
    <2>3. SumFunctionOnSet(f, none) = 0 BY SumEmpty
    <2>4. none \cup SystemWallets = SystemWallets OBVIOUS
    <2> HIDE DEF f, none
    <2>5. SumFunctionOnSet(f, none \cup SystemWallets) = SumFunctionOnSet(f, none)
      BY <2>1, <2>2, WalletsFinite, SumWithZeros
    <2>6. SumFunctionOnSet(f, DOMAIN f) = 0 BY <2>2, <2>3, <2>4, <2>5
    <2>7. QED BY <2>6 DEF Total, f
  <1>5. UsersTotal(l) = 0
    <2> DEFINE f == [p \in Places(l) |-> Balance(l, p)]
    <2>1. Places(l) = {} BY <1>1 DEF Places
    <2>2. DOMAIN f = {} BY <2>1
    <2> HIDE DEF f
    <2>3. Total(f) = 0 BY <2>2, SumEmpty DEF Total
    <2>4. QED BY <2>3 DEF UsersTotal, f
  <1>6. Owed(l.journal) = 0
    <2> DEFINE j == l.journal
               a == Amounts(j)
    <2>1. j = << >> BY <1>1
    <2>2. DOMAIN j = {} BY <2>1
    <2> HIDE DEF j, a
    <2>3. \A type : OfType(j, type) = {} BY <2>2 DEF OfType
    <2>4. SumFunctionOnSet(a, {}) = 0 BY SumEmpty
    <2>5. \A S : S = {} => BookedIn(j, S, OfSystem("Escrow")) = 0
      <3> SUFFICES ASSUME NEW S, S = {} PROVE BookedIn(j, S, OfSystem("Escrow")) = 0 OBVIOUS
      <3> DEFINE gained == {i \in S : j[i].credit = OfSystem("Escrow")}
                 lost == {i \in S : j[i].debit = OfSystem("Escrow")}
      <3>1. gained = {} /\ lost = {} OBVIOUS
      <3> HIDE DEF gained, lost
      <3>2. SumFunctionOnSet(a, gained) - SumFunctionOnSet(a, lost) = 0 BY <2>4, <3>1
      <3>3. QED BY <3>2 DEF BookedIn, gained, lost, a
    <2>6. SumFunctionOnSet(a, OfType(j, "Deposit")) = 0
          /\ SumFunctionOnSet(a, OfType(j, "Withdrawal")) = 0
          /\ BookedIn(j, OfType(j, "PositionClose"), OfSystem("Escrow")) = 0
      BY <2>3, <2>4, <2>5
    <2>7. Owed(j) = 0 BY <2>6 DEF Owed, a
    <2>8. QED BY <2>7 DEF j
  <1>7. AllMoney(l) = Owed(l.journal) BY <1>4, <1>5, <1>6 DEF AllMoney
  <1>8. \A p \in BookPlaces : Balance(l, p) = 0
    <2> SUFFICES ASSUME NEW p \in BookPlaces PROVE Balance(l, p) = 0 OBVIOUS
    <2>1. CASE p \in UserPlaces(Traders)
      <3>1. p.owner # SYSTEM BY <2>1, PlacesAre
      <3>2. QED BY <1>1, <3>1 DEF Balance
    <2>2. CASE \E w \in SystemWallets : p = OfSystem(w)
      BY <1>1, <1>3, <2>2, BalanceInt
    <2>3. QED BY <2>1, <2>2, PlacesAre
  <1>9. NeverOverdrawn(l) BY <1>8 DEF NeverOverdrawn
  <1>10. Unique(l.journal) /\ KeysIn(l.journal) \subseteq Families(l.keys)
    BY <1>1 DEF Unique, KeysIn
  <1>11. Sound(l) BY <1>1, <1>3, <1>7, <1>9, <1>10 DEF Sound, Tidy
  <1>12. \A u \in Traders : Margin(l, u) = 0 BY <1>8, FuturesAre DEF Margin
  <1>13. QED BY <1>11, <1>12 DEF l

\* Funding an account moves no margin.
LEMMA FundedKeeps ==
    ASSUME NEW l, Sound(l), NEW u \in Traders, NEW m, m = Funded(l, u)
    PROVE  Sound(m) /\ \A v \in Traders : Margin(m, v) = Margin(l, v)
  <1> DEFINE all == 2 * Purse + 1
             some == 2 * Purse
             k == <<"deposit", u>>
             h == <<"transfer", u>>
             g == <<"freeze", u>>
             a == Deposit(l, u, all, k)
             b == Transfer(a, u, "Funding", "Futures", some, h)
             c == FreezeForOrder(b.ledger, u, "Futures", Purse, g)
             none == 0
  <1>1. m = c.ledger BY DEF Funded
  <1>2. all \in Nat \ {0} /\ some \in Int /\ Purse \in Int BY ClearingAssumption
  <1>3. k \in BaseKeys /\ h \in BaseKeys /\ g \in BaseKeys BY KeysAre
  <1>4. \A out, key, d : Sound(d) /\ Sound(out.ledger) /\ Moves(d, out, key, u, none)
                => \A v \in Traders : Margin(out.ledger, v) = Margin(d, v)
    <2> SUFFICES ASSUME NEW out, NEW key, NEW d, Sound(d), Moves(d, out, key, u, none), NEW v \in Traders
                 PROVE  Margin(out.ledger, v) = Margin(d, v)
      OBVIOUS
    <2>1. d \in Books BY DEF Sound, Tidy
    <2>2. Margin(d, v) \in Int BY <2>1, MarginInt
    <2>3. QED BY <2>2 DEF Moves, Count
  <1>5. /\ b = MoveOnce(a, u, Place(u, "Funding", "available"), Place(u, "Futures", "available"),
                        some, "Transfer", h)
        /\ c = MoveOnce(b.ledger, u, Place(u, "Futures", "available"), Place(u, "Futures", "frozen"),
                        Purse, "OrderFreeze", g)
    BY DEF Transfer, FreezeForOrder
  <1>6. /\ "available" \in Fields \ {"margin"} /\ "frozen" \in Fields \ {"margin"}
        /\ "Futures" \in UserWallets /\ "Funding" \in UserWallets
    BY DEF Fields, UserWallets
  <1> HIDE DEF all, some, k, h, g, a, b, c
  <1>7. Sound(a) /\ \A v \in Traders : Margin(a, v) = Margin(l, v)
    BY <1>2, <1>3, DepositKeeps DEF a
  <1>8. Keeps(a, b, {}) /\ Moves(a, b, h, u, none) BY <1>2, <1>3, <1>5, <1>6, <1>7, MoveKeeps
  <1>9. Sound(b.ledger) BY <1>8 DEF Keeps
  <1>10. Keeps(b.ledger, c, {}) /\ Moves(b.ledger, c, g, u, none)
    BY <1>2, <1>3, <1>5, <1>6, <1>9, MoveKeeps
  <1>11. Sound(c.ledger) BY <1>10 DEF Keeps
  <1>12. \A v \in Traders : Margin(b.ledger, v) = Margin(a, v) BY <1>4, <1>7, <1>8, <1>9
  <1>13. \A v \in Traders : Margin(c.ledger, v) = Margin(b.ledger, v) BY <1>4, <1>9, <1>10, <1>11
  <1>14. QED BY <1>1, <1>7, <1>11, <1>12, <1>13

-----------------------------------------------------------------------------
(* Invariants.                                                             *)

Shortfalls == [user : Traders, side : Sides, deficit : Int]

\* The ledger is sound, positions and wallets agree, and what the callers keep
\* is what they may hand in.
Outside(m, t, n, d, c) ==
    /\ m \in Nat \ {0} /\ t \in Seq(Terms) /\ n \in Nat /\ d \in SUBSET Shortfalls /\ c \in Nat
InService(s, gone) ==
    /\ s = [positions |-> s.positions, ledger |-> s.ledger]
    /\ s.positions \in PositionTables /\ gone \in SUBSET Traders
    /\ Sound(s.ledger) /\ Backed(s.ledger, s.positions, gone)
IInv == InService(service, astray) /\ Outside(mark, trades, period, shortfall, calls)

\* What a step tells of users' balances.
Tells(l, m) == Told(l, m, PaidOverdrawn(l, m)) /\ DOMAIN l.accounts \subseteq DOMAIN m.accounts

\* The callers hand in what they may.
LEMMA HandedIn ==
    /\ \A p \in Prices : p \in Nat \ {0}
    /\ \A t \in TradeTerms : t \in Terms
    /\ \A r \in Rates : r \in Int
    /\ \A p \in Pairs : p.user \in Traders /\ p.counterparty \in Traders /\ p.pnl \in Int
    /\ Opening \in Seq(Terms)
  BY ClearingAssumption

\* A call begins with the service as it is.
LEMMA BegunKeeps ==
    ASSUME IInv
    PROVE  /\ service.ledger \in Books /\ Sound(service.ledger)
           /\ CallFrom(service.ledger, Begun) /\ FundingFrom(service.ledger, Begun)
           /\ Begun.positions = service.positions /\ Begun.ledger = service.ledger
           /\ service.positions \in PositionTables
  <1> DEFINE l == service.ledger
             s == Begun
  <1>1. /\ s.positions = service.positions /\ s.ledger = l /\ s.astray = astray
        /\ s = [positions |-> s.positions, ledger |-> s.ledger, error |-> s.error,
                astray |-> s.astray]
    BY DEF Begun
  <1>2. /\ service.positions \in PositionTables /\ astray \in SUBSET Traders
        /\ Sound(l) /\ Backed(l, service.positions, astray)
    BY DEF IInv, InService
  <1>3. l \in Books BY <1>2 DEF Sound, Tidy
  <1> HIDE DEF s
  <1>4. CallOK(s) BY <1>1, <1>2 DEF CallOK
  <1>5. \A X : Told(l, l, X) BY <1>3, FollowsSelf DEF Follows
  <1>6. CallFrom(l, s) /\ FundingFrom(l, s)
    BY <1>1, <1>4, <1>5 DEF CallFrom, FundingFrom, Since
  <1>7. QED BY <1>1, <1>2, <1>3, <1>6 DEF s

\* A call that ends.
LEMMA FinishKeeps ==
    ASSUME NEW s, CallOK(s), Finish(s), Since(service.ledger, s, PaidOverdrawn(service.ledger, s.ledger))
    PROVE  InService(service', astray') /\ Tells(service.ledger, service'.ledger)
  <1>1. /\ s.positions \in PositionTables /\ s.astray \in SUBSET Traders
        /\ Sound(s.ledger) /\ Backed(s.ledger, s.positions, s.astray)
    BY DEF CallOK
  <1>2. service' = [positions |-> s.positions, ledger |-> s.ledger] /\ astray' = s.astray
    BY DEF Finish
  <1>3. QED BY <1>1, <1>2 DEF InService, Tells, Since

\* One that tells all tells what it is to tell.
LEMMA CallFromFinishes ==
    ASSUME NEW s, CallFrom(service.ledger, s), Finish(s)
    PROVE  InService(service', astray') /\ Tells(service.ledger, service'.ledger)
  <1>1. CallOK(s) /\ Since(service.ledger, s, PaidOverdrawn(service.ledger, s.ledger))
    BY DEF CallFrom, Since, Told
  <1>2. QED BY <1>1, FinishKeeps

\* A call that concerns the ledger alone.
LEMMA LedgerStepKeeps ==
    ASSUME NEW s, NEW gone, InService(s, gone), NEW m, Sound(m), Told(s.ledger, m, {}),
           DOMAIN s.ledger.accounts \subseteq DOMAIN m.accounts,
           NEW others \in SUBSET Traders,
           \A u \in Traders \ others : Margin(m, u) = Margin(s.ledger, u),
           NEW t, t = [s EXCEPT !.ledger = m]
    PROVE  InService(t, gone \cup others) /\ Tells(s.ledger, t.ledger)
  <1>1. /\ s = [positions |-> s.positions, ledger |-> s.ledger]
        /\ s.positions \in PositionTables /\ gone \in SUBSET Traders
        /\ Sound(s.ledger) /\ Backed(s.ledger, s.positions, gone)
    BY DEF InService
  <1>2. t = [positions |-> s.positions, ledger |-> m] /\ t.positions = s.positions /\ t.ledger = m
    BY <1>1
  <1>3. Backed(m, s.positions, gone \cup others) BY <1>1 DEF Backed
  <1>4. Told(s.ledger, m, PaidOverdrawn(s.ledger, m)) BY DEF Told
  <1>5. QED BY <1>1, <1>2, <1>3, <1>4 DEF InService, Tells

\* One that moves no margin.
LEMMA LedgerCallKeeps ==
    ASSUME IInv, NEW user \in Traders, NEW key, NEW outcome, Keeps(service.ledger, outcome, {}),
           Moves(service.ledger, outcome, key, user, 0), LedgerCall(outcome)
    PROVE  IInv' /\ Tells(service.ledger, service'.ledger)
  <1> DEFINE m == outcome.ledger
             others == {}
  <1>1. InService(service, astray) /\ Outside(mark, trades, period, shortfall, calls)
    BY DEF IInv
  <1>2. /\ Sound(m) /\ Told(service.ledger, m, {})
        /\ DOMAIN service.ledger.accounts \subseteq DOMAIN m.accounts
    BY DEF Keeps
  <1>3. service.ledger \in Books BY <1>1 DEF InService, Sound, Tidy
  <1>4. \A u \in Traders : Margin(service.ledger, u) \in Int BY <1>3, MarginInt
  <1>5. \A u \in Traders \ others : Margin(m, u) = Margin(service.ledger, u)
    BY <1>4 DEF Moves, Count
  <1>6. /\ service' = [service EXCEPT !.ledger = m] /\ astray' = astray /\ calls' = calls + 1
        /\ mark' = mark /\ trades' = trades /\ period' = period /\ shortfall' = shortfall
    BY DEF LedgerCall, Call
  <1>7. others \in SUBSET Traders /\ astray \cup others = astray OBVIOUS
  <1> HIDE DEF others, m
  <1>8. InService(service', astray \cup others) /\ Tells(service.ledger, service'.ledger)
    BY <1>1, <1>2, <1>5, <1>6, <1>7, LedgerStepKeeps
  <1>9. Outside(mark', trades', period', shortfall', calls') BY <1>1, <1>6 DEF Outside
  <1>10. QED BY <1>6, <1>7, <1>8, <1>9 DEF IInv

\* Withdrawals, money that goes back, cancelled orders.
LEMMA LedgerCallsKeep ==
    ASSUME IInv, NEW u \in Traders, Withdrawal(u) \/ BackToFunding(u) \/ CancelOrder(u)
    PROVE  IInv' /\ Tells(service.ledger, service'.ledger)
  <1> DEFINE l == service.ledger
             k == <<"withdraw", calls, u>>
             h == <<"back", calls, u>>
             g == <<"unfreeze", calls, u>>
             out == Withdraw(l, u, 1, k)
             back == Transfer(l, u, "Futures", "Funding", 1, h)
             free == UnfreezeOrder(l, u, "Futures", 1, g)
             one == 1
             none == 0
  <1>1. Sound(l) BY BegunKeeps
  <1>2. calls \in Nat BY DEF IInv, Outside
  <1>3. k \in BaseKeys /\ h \in BaseKeys /\ g \in BaseKeys BY <1>2, KeysAre
  <1>4. /\ "available" \in Fields \ {"margin"} /\ "frozen" \in Fields \ {"margin"}
        /\ "Futures" \in UserWallets /\ "Funding" \in UserWallets
    BY DEF Fields, UserWallets
  <1>5. one \in Int OBVIOUS
  <1>6. /\ out = Withdraw(l, u, one, k)
        /\ back = MoveOnce(l, u, Place(u, "Futures", "available"), Place(u, "Funding", "available"),
                           one, "Transfer", h)
        /\ free = MoveOnce(l, u, Place(u, "Futures", "frozen"), Place(u, "Futures", "available"),
                           one, "OrderUnfreeze", g)
    BY DEF Transfer, UnfreezeOrder
  <1>7. LedgerCall(out) \/ LedgerCall(back) \/ LedgerCall(free)
    BY DEF Withdrawal, BackToFunding, CancelOrder
  <1> HIDE DEF l, k, h, g, out, back, free, one
  <1>8. Keeps(l, out, {}) /\ Moves(l, out, k, u, none) BY <1>1, <1>3, <1>5, <1>6, WithdrawKeeps
  <1>9. Keeps(l, back, {}) /\ Moves(l, back, h, u, none)
    BY <1>1, <1>3, <1>4, <1>5, <1>6, MoveKeeps
  <1>10. Keeps(l, free, {}) /\ Moves(l, free, g, u, none)
    BY <1>1, <1>3, <1>4, <1>5, <1>6, MoveKeeps
  <1>11. CASE LedgerCall(out) BY <1>8, <1>11, LedgerCallKeeps DEF l
  <1>12. CASE LedgerCall(back) BY <1>9, <1>12, LedgerCallKeeps DEF l
  <1>13. CASE LedgerCall(free) BY <1>10, <1>13, LedgerCallKeeps DEF l
  <1>14. QED BY <1>7, <1>11, <1>12, <1>13

\* A settlement between two users.
LEMMA ClosePairKeeps ==
    ASSUME IInv, NEW p \in Pairs, ClosePair(p)
    PROVE  IInv' /\ Tells(service.ledger, service'.ledger)
  <1> DEFINE l == service.ledger
             k == <<"pair", calls, p.user>>
             one == 1
             out == ClosePosition(l, p.user, one, p.pnl, one, p.counterparty, k)
             m == out.ledger
             others == {p.user, p.counterparty}
  <1>1. Sound(l) BY BegunKeeps
  <1>2. InService(service, astray) /\ Outside(mark, trades, period, shortfall, calls)
    BY DEF IInv
  <1>3. p.user \in Traders /\ p.counterparty \in Traders /\ p.pnl \in Int BY HandedIn
  <1>4. k \in BaseKeys
    <2> DEFINE user == p.user
    <2>1. calls \in Nat /\ user \in Traders BY <1>2, <1>3 DEF Outside
    <2> HIDE DEF user
    <2>2. <<"pair", calls, user>> \in BaseKeys BY <2>1, KeysAre
    <2>3. QED BY <2>2 DEF user
  <1>5. /\ service' = [service EXCEPT !.ledger = m] /\ astray' = astray \cup others
        /\ calls' = calls + 1
        /\ mark' = mark /\ trades' = trades /\ period' = period /\ shortfall' = shortfall
    BY DEF ClosePair, Call
  <1>6. one \in Int OBVIOUS
  <1> HIDE DEF k, one
  <1>7. /\ Keeps(l, out, {})
        /\ \A u \in Traders \ others : Margin(m, u) = Margin(l, u)
    BY <1>1, <1>3, <1>4, <1>6, ClosePositionKeeps
  <1>8. /\ Sound(m) /\ Told(l, m, {}) /\ DOMAIN l.accounts \subseteq DOMAIN m.accounts
    BY <1>7 DEF Keeps
  <1>9. others \in SUBSET Traders BY <1>3
  <1> HIDE DEF out, others
  <1>10. InService(service', astray \cup others) /\ Tells(l, service'.ledger)
    BY <1>2, <1>5, <1>7, <1>8, <1>9, LedgerStepKeeps
  <1>11. Outside(mark', trades', period', shortfall', calls') BY <1>2, <1>5 DEF Outside
  <1>12. QED BY <1>5, <1>10, <1>11 DEF IInv

\* A trade that is handed in, for the first time or again.
LEMMA TradesKeep ==
    ASSUME IInv, RepeatTrade \/ \E t \in TradeTerms : ProcessTrade(t)
    PROVE  IInv' /\ Tells(service.ledger, service'.ledger)
  <1>1. CallFrom(service.ledger, Begun) /\ service.ledger \in Books BY BegunKeeps
  <1>2. Outside(mark, trades, period, shortfall, calls) BY DEF IInv
  <1>3. trades \in Seq(Terms) /\ Len(trades) \in Nat BY <1>2 DEF Outside
  <1>4. /\ calls' = calls + 1 /\ mark' = mark /\ period' = period /\ shortfall' = shortfall
        /\ trades' \in Seq(Terms)
        /\ \E t \in Terms, n \in Nat : Finish(TradeProcessed(Begun, t, n))
    <2>1. CASE RepeatTrade
      <3>1. trades # << >> BY <2>1 DEF RepeatTrade
      <3>2. Last(trades) \in Terms BY <1>3, <3>1 DEF Last
      <3>3. QED BY <1>3, <2>1, <3>2 DEF RepeatTrade, Call
    <2>2. CASE \E t \in TradeTerms : ProcessTrade(t)
      <3>1. PICK t \in TradeTerms : ProcessTrade(t) BY <2>2
      <3>2. t \in Terms BY HandedIn
      <3>3. QED BY <1>3, <3>1, <3>2 DEF ProcessTrade, Call
    <2>3. QED BY <2>1, <2>2
  <1>5. PICK t \in Terms, n \in Nat : Finish(TradeProcessed(Begun, t, n)) BY <1>4
  <1> DEFINE s == TradeProcessed(Begun, t, n)
  <1>6. CallFrom(service.ledger, s) BY <1>1, TradeKeeps
  <1>7. InService(service', astray') /\ Tells(service.ledger, service'.ledger)
    BY <1>5, <1>6, CallFromFinishes
  <1>8. Outside(mark', trades', period', shortfall', calls') BY <1>2, <1>4 DEF Outside
  <1>9. QED BY <1>7, <1>8 DEF IInv

\* A request for a liquidation.
LEMMA ProcessLiquidationKeeps ==
    ASSUME IInv, NEW u \in Traders, NEW price \in Prices, ProcessLiquidation(u, price)
    PROVE  IInv' /\ Tells(service.ledger, service'.ledger)
  <1> DEFINE position == service.positions[u]
             s == Liquidated(Begun, u, price)
             deficit == -(position.margin + Pnl(position, position.size, price))
  <1>1. /\ CallFrom(service.ledger, Begun) /\ service.ledger \in Books
        /\ Begun.positions = service.positions /\ service.positions \in PositionTables
        /\ FundingFrom(service.ledger, Begun) /\ Begun.ledger = service.ledger
    BY BegunKeeps
  <1>2. Outside(mark, trades, period, shortfall, calls) /\ InService(service, astray) BY DEF IInv
  <1>3. /\ calls' = calls + 1 /\ mark' = mark /\ period' = period /\ trades' = trades
    BY DEF ProcessLiquidation, Call
  <1>4. price \in Nat \ {0} BY HandedIn
  <1>5. CASE u \notin DOMAIN service.positions
    <2>1. service' = service /\ astray' = astray /\ shortfall' = shortfall
      BY <1>5 DEF ProcessLiquidation
    <2>2. Tells(service.ledger, service'.ledger) BY <1>1, <2>1 DEF FundingFrom, Since, Tells
    <2>3. QED BY <1>2, <1>3, <2>1, <2>2 DEF IInv, Outside
  <1>6. CASE u \in DOMAIN service.positions
    <2>1. CallFrom(service.ledger, s) BY <1>1, <1>4, <1>6, LiquidatedKeeps
    <2>2. Finish(s)
          /\ (shortfall' = shortfall
              \/ shortfall' = {[user |-> u, side |-> position.side, deficit |-> deficit]})
      BY <1>6 DEF ProcessLiquidation
    <2>3. InService(service', astray') /\ Tells(service.ledger, service'.ledger)
      BY <2>1, <2>2, CallFromFinishes
    <2>4. /\ position \in PositionTypes /\ position.side \in Sides /\ position.margin \in Int
          /\ position.size \in Nat
      BY <1>1, <1>6, PositionsAre
    <2>5. deficit \in Int
      <3> DEFINE margin == position.margin
                 pnl == Pnl(position, position.size, price)
      <3>1. margin \in Int /\ pnl \in Int BY <1>4, <2>4, PnlInt
      <3> HIDE DEF margin, pnl
      <3>2. -(margin + pnl) \in Int BY <3>1
      <3>3. QED BY <3>2 DEF margin, pnl
    <2> HIDE DEF deficit, s
    <2>6. shortfall' \in SUBSET Shortfalls BY <1>2, <2>2, <2>4, <2>5 DEF Shortfalls, Outside
    <2>7. Outside(mark', trades', period', shortfall', calls') BY <1>2, <1>3, <2>6 DEF Outside
    <2>8. QED BY <2>3, <2>7 DEF IInv
  <1>7. QED BY <1>5, <1>6

\* Calls that change neither positions nor the ledger.
LEMMA OthersKeep ==
    ASSUME IInv, (\E p \in Prices : UpdateMark(p)) \/ Scan \/ UNCHANGED clearingVars
    PROVE  IInv' /\ Tells(service.ledger, service'.ledger)
  <1>1. FundingFrom(service.ledger, Begun) /\ Begun.ledger = service.ledger BY BegunKeeps
  <1>2. Outside(mark, trades, period, shortfall, calls) /\ InService(service, astray) BY DEF IInv
  <1>3. /\ service' = service /\ astray' = astray /\ trades' = trades /\ period' = period
        /\ shortfall' = shortfall /\ (calls' = calls \/ calls' = calls + 1)
        /\ (mark' = mark \/ mark' \in Prices)
    BY DEF UpdateMark, Scan, Call, clearingVars
  <1>4. Tells(service.ledger, service'.ledger) BY <1>1, <1>3 DEF FundingFrom, Since, Tells
  <1>5. mark' \in Nat \ {0} BY <1>2, <1>3, HandedIn DEF Outside
  <1>6. Outside(mark', trades', period', shortfall', calls') BY <1>2, <1>3, <1>5 DEF Outside
  <1>7. QED BY <1>2, <1>3, <1>4, <1>6 DEF IInv

-----------------------------------------------------------------------------
(* What new entries tell.                                                  *)

\* A part of a sequence and the element behind it.
LEMMA SubSeqNext ==
    ASSUME NEW S, NEW k \in Seq(S), NEW a \in Nat \ {0}, NEW b \in Nat, a <= b + 1, b + 1 <= Len(k)
    PROVE  /\ SubSeq(k, a, b) \in Seq(S) /\ k[b + 1] \in S
           /\ SubSeq(k, a, b + 1) = Append(SubSeq(k, a, b), k[b + 1])
  <1> DEFINE s == SubSeq(k, a, b)
             t == SubSeq(k, a, b + 1)
             n == b - a + 1
             u == Append(s, k[b + 1])
  <1>1. n \in Nat /\ \A i \in 1 .. n + 1 : i + a - 1 \in 1 .. Len(k) OBVIOUS
  <1>2. s = [i \in 1 .. n |-> k[i + a - 1]] /\ t = [i \in 1 .. n + 1 |-> k[i + a - 1]]
    OBVIOUS
  <1>3. k[b + 1] \in S /\ \A i \in 1 .. n : k[i + a - 1] \in S
    <2>1. \A i \in 1 .. Len(k) : k[i] \in S OBVIOUS
    <2>2. b + 1 \in 1 .. Len(k) OBVIOUS
    <2>3. QED BY <1>1, <2>1, <2>2
  <1>4. s \in Seq(S) /\ Len(s) = n
    <2> HIDE DEF n, s
    <2>1. s \in [1 .. n -> S] BY <1>2, <1>3
    <2>2. QED BY <1>1, <2>1
  <1>5. u \in Seq(S) /\ Len(u) = n + 1 /\ (\A i \in 1 .. n : u[i] = s[i]) /\ u[n + 1] = k[b + 1]
    <2> HIDE DEF s, n
    <2>1. QED BY <1>1, <1>3, <1>4, AppendProperties
  <1>6. u = [i \in 1 .. n + 1 |-> u[i]]
    <2> HIDE DEF u, n
    <2>1. QED BY <1>1, <1>5
  <1>7. \A i \in 1 .. n + 1 : u[i] = t[i]
    <2> SUFFICES ASSUME NEW i \in 1 .. n + 1 PROVE u[i] = t[i] OBVIOUS
    <2>1. CASE i = n + 1
      <3>1. i + a - 1 = b + 1 BY <2>1
      <3>2. t[i] = k[b + 1] BY <1>1, <1>2, <2>1, <3>1
      <3>3. QED BY <1>5, <2>1, <3>2
    <2>2. CASE i # n + 1
      <3>1. i \in 1 .. n BY <1>1, <2>2
      <3>2. QED BY <1>1, <1>2, <1>5, <3>1
    <2>3. QED BY <2>1, <2>2
  <1>8. t = u
    <2>1. t = [i \in 1 .. n + 1 |-> t[i]] BY <1>2
    <2> HIDE DEF t, u
    <2>2. QED BY <1>6, <1>7, <2>1
  <1>9. QED BY <1>3, <1>4, <1>8

\* An empty journal says nothing.
LEMMA BookedNothing == \A p : Booked(<< >>, p) = 0
  <1> SUFFICES ASSUME NEW p PROVE Booked(<< >>, p) = 0 OBVIOUS
  <1> DEFINE j == << >>
             a == Amounts(j)
             S == DOMAIN j
             gained == {i \in S : j[i].credit = p}
             lost == {i \in S : j[i].debit = p}
  <1>1. gained = {} /\ lost = {} OBVIOUS
  <1>2. SumFunctionOnSet(a, {}) = 0 BY SumEmpty
  <1> HIDE DEF a, gained, lost
  <1>3. SumFunctionOnSet(a, gained) - SumFunctionOnSet(a, lost) = 0 BY <1>1, <1>2
  <1>4. QED BY <1>3 DEF Booked, BookedIn, a, gained, lost

\* What the entries behind a journal book is what they add to it.
LEMMA BookedBehind ==
    ASSUME NEW j \in Seq(AnyEntry), NEW k \in Seq(AnyEntry), Extends(j, k), NEW p
    PROVE  Booked(SubSeq(k, Len(j) + 1, Len(k)), p) = Booked(k, p) - Booked(j, p)
  <1> DEFINE n == Len(j)
             T == {i \in Nat : n + i <= Len(k) =>
                      /\ SubSeq(k, n + 1, n + i) \in Seq(AnyEntry)
                      /\ SubSeq(k, 1, n + i) \in Seq(AnyEntry)
                      /\ Booked(SubSeq(k, n + 1, n + i), p)
                            = Booked(SubSeq(k, 1, n + i), p) - Booked(j, p)}
  <1>1. n \in Nat /\ Len(k) \in Nat /\ n <= Len(k) /\ \A i \in 1 .. n : k[i] = j[i] BY DEF Extends
  <1>2. SubSeq(k, 1, n) = j /\ SubSeq(k, 1, Len(k)) = k
    <2>1. j = [i \in 1 .. n |-> j[i]] /\ k = [i \in 1 .. Len(k) |-> k[i]] OBVIOUS
    <2>2. SubSeq(k, 1, n) = [i \in 1 .. n |-> k[i]] BY <1>1
    <2>3. SubSeq(k, 1, Len(k)) = [i \in 1 .. Len(k) |-> k[i]] BY <1>1
    <2> HIDE DEF n
    <2>4. [i \in 1 .. n |-> k[i]] = [i \in 1 .. n |-> j[i]] BY <1>1
    <2>5. QED BY <2>1, <2>2, <2>3, <2>4
  <1> HIDE DEF n
  <1>3. 0 \in T
    <2> DEFINE none == << >>
               b == n + 0
    <2>1. SubSeq(k, n + 1, n) = none BY <1>1
    <2>2. b = n BY <1>1
    <2>3. none \in Seq(AnyEntry) OBVIOUS
    <2>4. Booked(none, p) = 0 BY BookedNothing
    <2>5. Booked(j, p) \in Int BY SumsInt
    <2> HIDE DEF none, b
    <2>6. SubSeq(k, n + 1, b) = none /\ SubSeq(k, 1, b) = j BY <1>2, <2>1, <2>2
    <2>7. Booked(j, p) - Booked(j, p) = 0 BY <2>5
    <2>8. Booked(SubSeq(k, n + 1, b), p) = Booked(SubSeq(k, 1, b), p) - Booked(j, p)
      BY <2>4, <2>6, <2>7
    <2>9. 0 \in Nat /\ SubSeq(k, n + 1, b) \in Seq(AnyEntry) /\ SubSeq(k, 1, b) \in Seq(AnyEntry)
      BY <2>3, <2>6
    <2>10. QED BY <2>8, <2>9 DEF b
  <1>4. ASSUME NEW i \in Nat, i \in T PROVE i + 1 \in T
    <2> SUFFICES ASSUME n + (i + 1) <= Len(k)
                 PROVE  /\ SubSeq(k, n + 1, n + (i + 1)) \in Seq(AnyEntry)
                        /\ SubSeq(k, 1, n + (i + 1)) \in Seq(AnyEntry)
                        /\ Booked(SubSeq(k, n + 1, n + (i + 1)), p)
                              = Booked(SubSeq(k, 1, n + (i + 1)), p) - Booked(j, p)
      OBVIOUS
    <2> DEFINE b == n + i
               e == k[b + 1]
               s == SubSeq(k, n + 1, b)
               t == SubSeq(k, 1, b)
    <2>1. b \in Nat /\ b + 1 <= Len(k) /\ n + (i + 1) = b + 1 /\ n + 1 <= b + 1
          /\ n + 1 \in Nat \ {0} /\ 1 \in Nat \ {0} /\ 1 <= b + 1
      BY <1>1
    <2>2. /\ s \in Seq(AnyEntry) /\ t \in Seq(AnyEntry)
          /\ Booked(s, p) = Booked(t, p) - Booked(j, p)
      BY <1>1, <1>4, <2>1
    <2>3. SubSeq(k, n + 1, b + 1) = Append(s, e) /\ e \in AnyEntry
      <3> DEFINE a == n + 1
      <3>1. a \in Nat \ {0} /\ a <= b + 1 BY <2>1
      <3> HIDE DEF a, b
      <3>2. SubSeq(k, a, b + 1) = Append(SubSeq(k, a, b), k[b + 1]) /\ k[b + 1] \in AnyEntry
        BY <2>1, <3>1, SubSeqNext
      <3>3. QED BY <3>2 DEF a
    <2>4. SubSeq(k, 1, b + 1) = Append(t, e)
      <3> DEFINE a == 1
      <3>1. a \in Nat \ {0} /\ a <= b + 1 BY <2>1
      <3> HIDE DEF a, b
      <3>2. SubSeq(k, a, b + 1) = Append(SubSeq(k, a, b), k[b + 1]) BY <2>1, <3>1, SubSeqNext
      <3>3. QED BY <3>2 DEF a
    <2> HIDE DEF s, t, e, b
    <2>5. /\ Booked(Append(s, e), p) = Booked(s, p) + Share(e, p)
          /\ Booked(Append(t, e), p) = Booked(t, p) + Share(e, p)
          /\ Booked(s, p) \in Int /\ Booked(t, p) \in Int /\ Booked(j, p) \in Int
      BY <2>2, <2>3, OneMore, SumsInt
    <2>6. Share(e, p) \in Int
      <3>1. e.amount \in Int BY <2>3 DEF AnyEntry, Entries
      <3>2. QED BY <3>1 DEF Share, Count
    <2>7. Append(s, e) \in Seq(AnyEntry) /\ Append(t, e) \in Seq(AnyEntry)
      BY <2>2, <2>3, AppendProperties
    <2>8. Booked(Append(s, e), p) = Booked(Append(t, e), p) - Booked(j, p)
      BY <2>2, <2>5, <2>6
    <2>9. QED BY <2>1, <2>3, <2>4, <2>7, <2>8
  <1>5. \A i \in Nat : i \in T
    <2> HIDE DEF T
    <2>1. QED BY <1>3, <1>4, Induction
  <1>6. Len(k) - n \in T /\ n + (Len(k) - n) = Len(k) /\ Len(k) - n \in Nat BY <1>1, <1>5
  <1>7. Booked(SubSeq(k, n + 1, Len(k)), p) = Booked(SubSeq(k, 1, Len(k)), p) - Booked(j, p)
    BY <1>1, <1>6
  <1>8. QED BY <1>2, <1>7 DEF n

\* The elements behind the first n of a sequence.
LEMMA PartBehind ==
    ASSUME NEW S, NEW k \in Seq(S), NEW n \in Nat, n <= Len(k)
    PROVE  /\ DOMAIN SubSeq(k, n + 1, Len(k)) = 1 .. Len(k) - n
           /\ \A i \in 1 .. Len(k) - n : SubSeq(k, n + 1, Len(k))[i] = k[n + i]
  <1> DEFINE s == SubSeq(k, n + 1, Len(k))
             m == Len(k) - n
  <1>1. m \in Nat /\ Len(k) - (n + 1) + 1 = m OBVIOUS
  <1>2. s = [i \in 1 .. m |-> k[i + (n + 1) - 1]] OBVIOUS
  <1>3. \A i \in 1 .. m : i + (n + 1) - 1 = n + i OBVIOUS
  <1> HIDE DEF s, m
  <1>4. QED BY <1>2, <1>3 DEF s, m

\* So a step tells the changes.
LEMMA TellsChanges ==
    ASSUME NEW l \in Books, NEW m \in Books, Tells(l, m)
    PROVE  ChangesTold(l, m)
  <1> DEFINE n == Len(l.journal)
             new == SubSeq(m.journal, n + 1, Len(m.journal))
  <1>1. l.journal \in Seq(AnyEntry) /\ m.journal \in Seq(AnyEntry) BY DEF Books, Ledgers, AnyEntry
  <1>2. Extends(l.journal, m.journal) BY DEF Tells, Told
  <1>3. n \in Nat /\ Len(m.journal) \in Nat /\ n <= Len(m.journal) BY <1>1, <1>2 DEF Extends
  <1>4. /\ DOMAIN new = 1 .. Len(m.journal) - n
        /\ \A i \in DOMAIN new : new[i] = m.journal[n + i]
    <2> DEFINE k == m.journal
    <2>1. k \in Seq(AnyEntry) /\ n <= Len(k) BY <1>1, <1>3
    <2> HIDE DEF k, n
    <2>2. /\ DOMAIN SubSeq(k, n + 1, Len(k)) = 1 .. Len(k) - n
          /\ \A i \in 1 .. Len(k) - n : SubSeq(k, n + 1, Len(k))[i] = k[n + i]
      BY <1>3, <2>1, PartBehind
    <2>3. QED BY <2>2 DEF k
  <1>5. ASSUME NEW p \in Places(l), p.owner \notin PaidOverdrawn(l, m)
        PROVE  Balance(m, p) - Balance(l, p) = Booked(new, p)
    <2>1. p \in UserPlaces(Traders) BY TradersAre, PlacesFinite DEF Books
    <2>2. p \in BookPlaces BY <2>1, PlacesAre
    <2>3. Balance(m, p) \in Int /\ Balance(l, p) \in Int BY <2>2, BalanceInt
    <2>4. Booked(l.journal, p) \in Int /\ Booked(m.journal, p) \in Int BY <1>1, SumsInt
    <2>5. Untold(m, p) = Untold(l, p) BY <1>5, <2>1 DEF Tells, Told
    <2>6. Booked(new, p) = Booked(m.journal, p) - Booked(l.journal, p)
      BY <1>1, <1>2, BookedBehind
    <2>7. QED BY <2>3, <2>4, <2>5, <2>6 DEF Untold
  <1>6. ASSUME NEW u \in Traders, u \in PaidOverdrawn(l, m)
        PROVE  /\ Balance(l, Futures(u, "available")) < 0
               /\ \E i \in DOMAIN new : new[i].type = "FundingPayment" /\ new[i].debit.owner = u
    <2>1. PICK i \in n + 1 .. Len(m.journal) : /\ m.journal[i].type = "FundingPayment"
                                               /\ m.journal[i].debit.owner = u
      BY <1>6 DEF PaidOverdrawn
    <2> DEFINE k == i - n
    <2>2. k \in DOMAIN new /\ n + k = i
      <3> HIDE DEF n, new
      <3>1. k \in 1 .. Len(m.journal) - n /\ n + k = i BY <1>3, <2>1
      <3>2. QED BY <1>4, <3>1
    <2>3. new[k] = m.journal[i] BY <1>4, <2>2
    <2>4. QED BY <1>6, <2>1, <2>2, <2>3 DEF PaidOverdrawn
  <1>7. \A p \in Places(l) : p.owner \in Traders BY TradersAre, PlacesFinite, PlacesAre DEF Books
  <1> HIDE DEF new
  <1>8. QED BY <1>5, <1>6, <1>7 DEF ChangesTold, new, n

-----------------------------------------------------------------------------
(* Folds.                                                                  *)

FundingTurns == INSTANCE CollectionLaws WITH op <- FundingOf
Reductions == INSTANCE CollectionLaws WITH op <- DeleverageOne
Openings == INSTANCE CollectionLaws WITH op <- OpeningProcessed
Fundings == INSTANCE CollectionLaws WITH op <- Funded

\* What the models fold.
LEMMA FoldsAre ==
    /\ \A base, s : FoldLeft(FundingOf, base, s) = FundingTurns!Fold(base, s)
    /\ \A base, s : FoldLeft(DeleverageOne, base, s) = Reductions!Fold(base, s)
    /\ \A base, s : FoldLeft(OpeningProcessed, base, s) = Openings!Fold(base, s)
    /\ \A base, s : FoldLeft(Funded, base, s) = Fundings!Fold(base, s)
  <1>1. \A base, s : FoldLeft(FundingOf, base, s) = FundingTurns!Fold(base, s)
    BY DEF FundingTurns!Fold, FoldLeft, MapThenFoldSet, Max,
           FundingTurns!FoldLeft, FundingTurns!MapThenFoldSet, FundingTurns!Max
  <1>2. \A base, s : FoldLeft(DeleverageOne, base, s) = Reductions!Fold(base, s)
    BY DEF Reductions!Fold, FoldLeft, MapThenFoldSet, Max,
           Reductions!FoldLeft, Reductions!MapThenFoldSet, Reductions!Max
  <1>3. \A base, s : FoldLeft(OpeningProcessed, base, s) = Openings!Fold(base, s)
    BY DEF Openings!Fold, FoldLeft, MapThenFoldSet, Max,
           Openings!FoldLeft, Openings!MapThenFoldSet, Openings!Max
  <1>4. \A base, s : FoldLeft(Funded, base, s) = Fundings!Fold(base, s)
    BY DEF Fundings!Fold, FoldLeft, MapThenFoldSet, Max,
           Fundings!FoldLeft, Fundings!MapThenFoldSet, Fundings!Max
  <1>5. QED BY <1>1, <1>2, <1>3, <1>4

\* The dues of one period.
DuesOf(P, rate, number, price) ==
    {[user |-> u, rate |-> rate, number |-> number, mark |-> price] : u \in P}

\* In whatever order they are paid, each user pays once.
LEMMA DuesInOrder ==
    ASSUME NEW P \in SUBSET Traders, NEW rate \in Int, NEW number \in Nat, NEW price \in Nat \ {0},
           NEW order \in SetToSeqs(DuesOf(P, rate, number, price))
    PROVE  /\ order \in Seq(Dues) /\ \A i \in DOMAIN order : order[i].user \in P
           /\ \A i, j \in DOMAIN order : i # j => order[i].user # order[j].user
  <1> DEFINE due(u) == [user |-> u, rate |-> rate, number |-> number, mark |-> price]
             S == {due(u) : u \in P}
             f == [u \in P |-> due(u)]
  <1>1. IsFiniteSet(P) BY TradersAre, FS_Subset
  <1>2. f \in Surjection(P, S) BY DEF Surjection
  <1> HIDE DEF f
  <1>3. IsFiniteSet(S) BY <1>1, <1>2, FS_Surjection
  <1>4. S \subseteq Dues BY DEF Dues
  <1>5. \A x, y \in S : x.user \in P /\ (x.user = y.user => x = y) OBVIOUS
  <1>6. order \in SetToSeqs(S) BY DEF DuesOf
  <1> HIDE DEF S
  <1>7. order \in Seq(S) /\ IsInjective(order) BY <1>3, <1>6, SequencesOfSet
  <1>8. \A i \in DOMAIN order : order[i] \in S BY <1>7
  <1>9. \A i, j \in DOMAIN order : order[i] = order[j] => i = j BY <1>7 DEF IsInjective
  <1>10. order \in Seq(Dues)
    <2>1. order \in [1 .. Len(order) -> S] /\ Len(order) \in Nat BY <1>7
    <2>2. order \in [1 .. Len(order) -> Dues] BY <1>4, <2>1
    <2>3. QED BY <2>1, <2>2
  <1>11. QED BY <1>5, <1>8, <1>9, <1>10

\* Everybody's funding.
LEMMA FundingFolds ==
    ASSUME NEW l \in Books, NEW base, FundingFrom(l, base), base.ledger = l,
           NEW order \in Seq(Dues), \A i \in DOMAIN order : order[i].user \in DOMAIN base.positions,
           \A i, j \in DOMAIN order : i # j => order[i].user # order[j].user
    PROVE  FundingFrom(l, FoldLeft(FundingOf, base, order))
  <1> DEFINE n == Len(order)
             s == FoldLeft(FundingOf, base, order)
  <1>1. n \in Nat /\ DOMAIN order = 1 .. n /\ \A i \in 1 .. n : order[i] \in Dues OBVIOUS
  <1>2. PICK tr : FundingTurns!IsTrace(tr, base, order) /\ s = tr[n]
    <2> DEFINE X == Dues
    <2>1. order \in Seq(X) OBVIOUS
    <2> HIDE DEF X, s, n
    <2>2. s = FundingTurns!Fold(base, order) BY FoldsAre DEF s
    <2>3. QED BY <2>1, <2>2, FundingTurns!FoldTrace DEF n
  <1>3. tr[0] = base /\ \A i \in 1 .. n : tr[i] = FundingOf(tr[i - 1], order[i])
    BY <1>2 DEF FundingTurns!IsTrace
  <1> DEFINE Ahead(i) == \A j \in i + 1 .. n : Unpaid(l, tr[i].ledger, order[j].user)
             T == {i \in Nat : i <= n => /\ FundingFrom(l, tr[i])
                                         /\ DOMAIN tr[i].positions = DOMAIN base.positions
                                         /\ Ahead(i)}
  <1> HIDE DEF n, s
  <1>4. 0 \in T
    <2>1. Ahead(0) BY <1>3 DEF Unpaid
    <2>2. QED BY <1>3, <2>1
  <1>5. ASSUME NEW i \in Nat, i \in T PROVE i + 1 \in T
    <2> SUFFICES ASSUME i + 1 <= n
                 PROVE  /\ FundingFrom(l, tr[i + 1])
                        /\ DOMAIN tr[i + 1].positions = DOMAIN base.positions
                        /\ Ahead(i + 1)
      OBVIOUS
    <2> DEFINE k == i + 1
               due == order[k]
               a == tr[i]
               b == tr[k]
    <2>1. k \in 1 .. n /\ k - 1 = i BY <1>1
    <2>2. FundingFrom(l, a) /\ DOMAIN a.positions = DOMAIN base.positions /\ Ahead(i)
      BY <1>1, <1>5
    <2>3. due \in Dues /\ due.user \in DOMAIN a.positions BY <1>1, <2>1, <2>2
    <2>4. Unpaid(l, a.ledger, due.user) BY <1>1, <2>1, <2>2
    <2>5. b = FundingOf(a, due) BY <1>3, <2>1
    <2> HIDE DEF due, a, b
    <2>6. /\ FundingFrom(l, b) /\ DOMAIN b.positions = DOMAIN a.positions
          /\ OthersKept(a.ledger, b.ledger, due.user)
      BY <2>2, <2>3, <2>4, <2>5, FundingOfKeeps
    <2>7. ASSUME NEW j \in k + 1 .. n PROVE Unpaid(l, b.ledger, order[j].user)
      <3>1. j \in i + 1 .. n /\ j \in 1 .. n /\ j # k BY <1>1, <2>1
      <3>2. Unpaid(l, a.ledger, order[j].user) BY <2>2, <3>1 DEF a
      <3>3. order[j].user # due.user BY <1>1, <2>1, <3>1 DEF due
      <3>4. QED BY <2>6, <3>2, <3>3 DEF Unpaid, OthersKept
    <2>8. Ahead(k) BY <2>7 DEF b
    <2>9. QED BY <2>2, <2>6, <2>8 DEF b
  <1>6. \A i \in Nat : i \in T
    <2> HIDE DEF T
    <2>1. QED BY <1>4, <1>5, Induction
  <1>7. n \in T BY <1>1, <1>6
  <1>8. QED BY <1>1, <1>2, <1>7 DEF s

\* Everybody's reduction.
LEMMA ReductionsFold ==
    ASSUME NEW l \in Books, NEW base, Deleveraging(l, base), NEW S, S \subseteq DOMAIN base.call.positions,
           NEW order \in Seq(S), \A i, j \in DOMAIN order : i # j => order[i] # order[j]
    PROVE  Deleveraging(l, FoldLeft(DeleverageOne, base, order))
  <1> DEFINE n == Len(order)
             s == FoldLeft(DeleverageOne, base, order)
  <1>1. n \in Nat /\ DOMAIN order = 1 .. n /\ \A i \in 1 .. n : order[i] \in S OBVIOUS
  <1>2. PICK tr : Reductions!IsTrace(tr, base, order) /\ s = tr[n]
    <2> HIDE DEF s, n
    <2>1. s = Reductions!Fold(base, order) BY FoldsAre DEF s
    <2>2. QED BY <2>1, Reductions!FoldTrace DEF n
  <1>3. tr[0] = base /\ \A i \in 1 .. n : tr[i] = DeleverageOne(tr[i - 1], order[i])
    BY <1>2 DEF Reductions!IsTrace
  <1> DEFINE Ahead(i) == \A j \in i + 1 .. n : order[j] \in DOMAIN tr[i].call.positions
             T == {i \in Nat : i <= n => Deleveraging(l, tr[i]) /\ Ahead(i)}
  <1> HIDE DEF n, s
  <1>4. 0 \in T
    <2>1. Ahead(0) BY <1>1, <1>3
    <2>2. QED BY <1>3, <2>1
  <1>5. ASSUME NEW i \in Nat, i \in T PROVE i + 1 \in T
    <2> SUFFICES ASSUME i + 1 <= n PROVE Deleveraging(l, tr[i + 1]) /\ Ahead(i + 1) OBVIOUS
    <2> DEFINE k == i + 1
               user == order[k]
               a == tr[i]
               b == tr[k]
    <2>1. k \in 1 .. n /\ k - 1 = i BY <1>1
    <2>2. Deleveraging(l, a) /\ Ahead(i) BY <1>1, <1>5
    <2>3. user \in DOMAIN a.call.positions BY <1>1, <2>1, <2>2
    <2>4. b = DeleverageOne(a, user) BY <1>3, <2>1
    <2> HIDE DEF user, a, b
    <2>5. Deleveraging(l, b) /\ DOMAIN a.call.positions \ {user} \subseteq DOMAIN b.call.positions
      BY <2>2, <2>3, <2>4, DeleverageOneKeeps
    <2>6. ASSUME NEW j \in k + 1 .. n PROVE order[j] \in DOMAIN b.call.positions
      <3>1. j \in i + 1 .. n /\ j \in 1 .. n /\ j # k BY <1>1, <2>1
      <3>2. order[j] \in DOMAIN a.call.positions BY <2>2, <3>1 DEF a
      <3>3. order[j] # user BY <1>1, <2>1, <3>1 DEF user
      <3>4. QED BY <2>5, <3>2, <3>3
    <2>7. Ahead(k) BY <2>6 DEF b
    <2>8. QED BY <2>5, <2>7 DEF b
  <1>6. \A i \in Nat : i \in T
    <2> HIDE DEF T
    <2>1. QED BY <1>4, <1>5, Induction
  <1>7. n \in T BY <1>1, <1>6
  <1>8. QED BY <1>1, <1>2, <1>7 DEF s

\* The trades of the past.
LEMMA OpeningsFold ==
    ASSUME NEW l \in Books, NEW base, CallFrom(l, base)
    PROVE  CallFrom(l, FoldLeft(OpeningProcessed, base, [i \in 1 .. Len(Opening) |-> i]))
  <1> DEFINE n == Len(Opening)
             numbers == [i \in 1 .. n |-> i]
             s == FoldLeft(OpeningProcessed, base, numbers)
  <1>1. n \in Nat /\ \A i \in 1 .. n : Opening[i] \in Terms BY HandedIn
  <1>2. numbers \in Seq(Nat) /\ Len(numbers) = n /\ \A i \in 1 .. n : numbers[i] = i BY <1>1
  <1>3. PICK tr : Openings!IsTrace(tr, base, numbers) /\ s = tr[Len(numbers)]
    <2> HIDE DEF s, n, numbers
    <2>1. s = Openings!Fold(base, numbers) BY FoldsAre DEF s
    <2>2. QED BY <1>2, <2>1, Openings!FoldTrace
  <1>4. tr[0] = base /\ \A i \in 1 .. n : tr[i] = OpeningProcessed(tr[i - 1], i)
    <2> HIDE DEF n, numbers
    <2>1. \A i \in 1 .. n : tr[i] = OpeningProcessed(tr[i - 1], numbers[i])
      BY <1>2, <1>3 DEF Openings!IsTrace
    <2>2. QED BY <1>2, <1>3, <2>1 DEF Openings!IsTrace
  <1> DEFINE T == {i \in Nat : i <= n => CallFrom(l, tr[i])}
  <1> HIDE DEF n, s, numbers
  <1>5. 0 \in T BY <1>4
  <1>6. ASSUME NEW i \in Nat, i \in T PROVE i + 1 \in T
    <2> SUFFICES ASSUME i + 1 <= n PROVE CallFrom(l, tr[i + 1]) OBVIOUS
    <2> DEFINE k == i + 1
               a == tr[i]
               b == tr[k]
    <2>1. k \in 1 .. n /\ k - 1 = i /\ k \in Nat BY <1>1
    <2>2. CallFrom(l, a) BY <1>1, <1>6
    <2>3. b = TradeProcessed(a, Opening[k], k) BY <1>4, <2>1 DEF OpeningProcessed
    <2>4. Opening[k] \in Terms BY <1>1, <2>1
    <2> HIDE DEF a, b, k
    <2>5. CallFrom(l, b) BY <2>1, <2>2, <2>3, <2>4, TradeKeeps
    <2>6. QED BY <2>5 DEF b, k
  <1>7. \A i \in Nat : i \in T
    <2> HIDE DEF T
    <2>1. QED BY <1>5, <1>6, Induction
  <1>8. n \in T BY <1>1, <1>7
  <1>9. QED BY <1>1, <1>2, <1>3, <1>8 DEF s, numbers, n

-----------------------------------------------------------------------------
(* Steps.                                                                  *)

\* A funding period is settled.
LEMMA SettleFundingKeeps ==
    ASSUME IInv, NEW rate \in Rates, NEW number, SettleFunding(rate, number)
    PROVE  IInv' /\ Tells(service.ledger, service'.ledger)
  <1> DEFINE l == service.ledger
             P == DOMAIN service.positions
  <1>1. /\ l \in Books /\ FundingFrom(l, Begun) /\ Begun.ledger = l
        /\ Begun.positions = service.positions /\ service.positions \in PositionTables
    BY BegunKeeps
  <1>2. Outside(mark, trades, period, shortfall, calls) BY DEF IInv
  <1>3. mark \in Nat \ {0} /\ period \in Nat /\ calls \in Nat BY <1>2 DEF Outside
  <1>4. /\ calls' = calls + 1 /\ period' = number /\ mark' = mark /\ trades' = trades
        /\ shortfall' = shortfall /\ number \in {period, period + 1}
    BY DEF SettleFunding, Call
  <1>5. number \in Nat /\ rate \in Int BY <1>3, <1>4, HandedIn
  <1>6. PICK order \in SetToSeqs(DuesOf(P, rate, number, mark)) :
           Finish(FoldLeft(FundingOf, Begun, order))
    BY DEF SettleFunding, DuesOf
  <1>7. P \in SUBSET Traders BY <1>1, PositionsAre
  <1>8. /\ order \in Seq(Dues) /\ \A i \in DOMAIN order : order[i].user \in P
        /\ \A i, j \in DOMAIN order : i # j => order[i].user # order[j].user
    <2> HIDE DEF P, l
    <2>1. order \in SetToSeqs(DuesOf(P, rate, number, mark)) BY <1>6
    <2>2. mark \in Nat \ {0} BY <1>3
    <2>3. QED BY <1>5, <1>7, <2>1, <2>2, DuesInOrder
  <1> DEFINE s == FoldLeft(FundingOf, Begun, order)
  <1>9. FundingFrom(l, s) BY <1>1, <1>8, FundingFolds
  <1> HIDE DEF s
  <1>10. InService(service', astray') /\ Tells(service.ledger, service'.ledger)
    BY <1>6, <1>9, FinishKeeps DEF FundingFrom, s
  <1>11. Outside(mark', trades', period', shortfall', calls') BY <1>2, <1>3, <1>4, <1>5 DEF Outside
  <1>12. QED BY <1>10, <1>11 DEF IInv

\* A deficit is taken from the other side.
LEMMA ExecuteAdlKeeps ==
    ASSUME IInv, NEW d \in shortfall, ExecuteAdl(d)
    PROVE  IInv' /\ Tells(service.ledger, service'.ledger)
  <1> DEFINE l == service.ledger
             C == Counterparties(d.user, d.side)
             S == {u \in C : service.positions[u].margin # 0}
             base == [call |-> Begun, remaining |-> d.deficit, mark |-> mark,
                      bankrupt |-> d.user, number |-> calls]
  <1>1. /\ l \in Books /\ CallFrom(l, Begun) /\ Begun.positions = service.positions
        /\ service.positions \in PositionTables
    BY BegunKeeps
  <1>2. Outside(mark, trades, period, shortfall, calls) BY DEF IInv
  <1>3. /\ mark \in Nat \ {0} /\ calls \in Nat
        /\ d.user \in Traders /\ d.deficit \in Int
    BY <1>2 DEF Outside, Shortfalls
  <1>4. /\ calls' = calls + 1 /\ period' = period /\ mark' = mark /\ trades' = trades
        /\ shortfall' = {}
    BY DEF ExecuteAdl, Call
  <1>5. PICK order \in AdlRankings(service.positions, C, mark) :
           Finish(FoldLeft(DeleverageOne, base, order).call)
    BY DEF ExecuteAdl
  <1>6. order \in SetToSeqs(S) BY <1>5 DEF AdlRankings
  <1>7. S \subseteq DOMAIN service.positions /\ IsFiniteSet(S)
    <2>1. S \subseteq DOMAIN service.positions BY DEF Counterparties
    <2>2. DOMAIN service.positions \in SUBSET Traders BY <1>1, PositionsAre
    <2>3. QED BY <2>1, <2>2, TradersAre, FS_Subset
  <1>8. Deleveraging(l, base) BY <1>1, <1>3 DEF Deleveraging
  <1>9. S \subseteq DOMAIN base.call.positions BY <1>1, <1>7
  <1> HIDE DEF S, base
  <1>10. order \in Seq(S) /\ IsInjective(order) BY <1>6, <1>7, SequencesOfSet
  <1>11. \A i, j \in DOMAIN order : i # j => order[i] # order[j] BY <1>10 DEF IsInjective
  <1> DEFINE adl == FoldLeft(DeleverageOne, base, order)
  <1>12. Deleveraging(l, adl) BY <1>1, <1>8, <1>9, <1>10, <1>11, ReductionsFold
  <1> HIDE DEF adl
  <1>13. CallFrom(l, adl.call) /\ Finish(adl.call) BY <1>5, <1>12 DEF Deleveraging, adl
  <1>14. InService(service', astray') /\ Tells(service.ledger, service'.ledger)
    BY <1>13, CallFromFinishes
  <1>15. Outside(mark', trades', period', shortfall', calls') BY <1>2, <1>3, <1>4 DEF Outside
  <1>16. QED BY <1>14, <1>15 DEF IInv

\* The service starts with its books in order.
LEMMA InitKeeps ==
    ASSUME ClearingInit
    PROVE  IInv
  <1> DEFINE V == {l \in Books : Sound(l) /\ \A u \in Traders : Margin(l, u) = 0}
             order == SetToSeq(Traders)
             funded == FoldLeft(Funded, NewLedger, order)
             none == << >>
             base == [positions |-> none, ledger |-> funded, error |-> "none", astray |-> {}]
             numbers == [i \in 1 .. Len(Opening) |-> i]
  <1>1. NewLedger \in V BY NewLedgerSound DEF Sound, Tidy
  <1>2. \A l \in V, u \in Traders : Funded(l, u) \in V
    <2> SUFFICES ASSUME NEW l \in V, NEW u \in Traders PROVE Funded(l, u) \in V OBVIOUS
    <2> DEFINE m == Funded(l, u)
    <2>1. Sound(l) OBVIOUS
    <2> HIDE DEF m
    <2>2. Sound(m) /\ \A v \in Traders : Margin(m, v) = Margin(l, v)
      BY <2>1, FundedKeeps DEF m
    <2>3. m \in Books BY <2>2 DEF Sound, Tidy
    <2>4. QED BY <2>2, <2>3 DEF m
  <1>3. order \in Seq(Traders) BY TradersAre, SequenceOfSet
  <1>4. funded \in V
    <2> HIDE DEF V, order, funded
    <2>1. funded = Fundings!Fold(NewLedger, order) BY FoldsAre DEF funded
    <2>2. QED BY <1>1, <1>2, <1>3, <2>1, Fundings!FoldKeeps
  <1>5. funded \in Books /\ Sound(funded) /\ \A u \in Traders : Margin(funded, u) = 0
    BY <1>4
  <1>6. none \in PositionTables /\ DOMAIN none = {}
    <2>1. none \in [{} -> PositionTypes] /\ DOMAIN none = {} OBVIOUS
    <2>2. {} \in SUBSET Traders OBVIOUS
    <2>3. QED BY <2>1, <2>2 DEF PositionTables
  <1> HIDE DEF funded, V, order, none
  <1>7. CallFrom(funded, base)
    <2>1. Told(funded, funded, {}) BY <1>5, FollowsSelf DEF Follows
    <2>2. Backed(funded, none, {}) BY <1>5, <1>6 DEF Backed, HeldMargin
    <2>3. QED BY <1>5, <1>6, <2>1, <2>2 DEF CallFrom, CallOK, Since
  <1> DEFINE s == FoldLeft(OpeningProcessed, base, numbers)
  <1> HIDE DEF base
  <1>8. CallFrom(funded, s) BY <1>5, <1>7, OpeningsFold
  <1>9. Past = s BY DEF Past, s, base, funded, order, none
  <1> HIDE DEF s
  <1>10. service = [positions |-> s.positions, ledger |-> s.ledger] /\ astray = s.astray
    BY <1>9 DEF ClearingInit
  <1>11. /\ s.positions \in PositionTables /\ s.astray \in SUBSET Traders
         /\ Sound(s.ledger) /\ Backed(s.ledger, s.positions, s.astray)
    BY <1>8 DEF CallFrom, CallOK
  <1>12. InService(service, astray) BY <1>10, <1>11 DEF InService
  <1>13. Outside(mark, trades, period, shortfall, calls) BY HandedIn DEF ClearingInit, Outside
  <1>14. QED BY <1>12, <1>13 DEF IInv

\* Every step keeps the invariant and tells what it does.
LEMMA StepKeeps ==
    ASSUME IInv, [ClearingNext]_clearingVars
    PROVE  IInv' /\ Tells(service.ledger, service'.ledger)
  <1>1. CASE \E u \in Traders : Withdrawal(u) \/ BackToFunding(u) \/ CancelOrder(u)
    BY <1>1, LedgerCallsKeep
  <1>2. CASE \E p \in Pairs : ClosePair(p) BY <1>2, ClosePairKeeps
  <1>3. CASE RepeatTrade \/ \E t \in TradeTerms : ProcessTrade(t) BY <1>3, TradesKeep
  <1>4. CASE (\E p \in Prices : UpdateMark(p)) \/ Scan \/ UNCHANGED clearingVars BY <1>4, OthersKeep
  <1>5. CASE \E r \in Rates, n \in 1 .. MaxCalls : SettleFunding(r, n)
    BY <1>5, SettleFundingKeeps
  <1>6. CASE \E u \in Traders, p \in Prices : ProcessLiquidation(u, p)
    BY <1>6, ProcessLiquidationKeeps
  <1>7. CASE \E d \in shortfall : ExecuteAdl(d) BY <1>7, ExecuteAdlKeeps
  <1>8. QED BY <1>1, <1>2, <1>3, <1>4, <1>5, <1>6, <1>7 DEF ClearingNext

-----------------------------------------------------------------------------
(* Theorems.                                                               *)

\* In every reachable state the ledger is sound and backs the positions.
THEOREM InvariantHolds == ClearingSpec => []IInv
  <1>1. ClearingInit => IInv BY InitKeeps
  <1>2. IInv /\ [ClearingNext]_clearingVars => IInv' BY StepKeeps
  <1>3. QED BY <1>1, <1>2, PTL DEF ClearingSpec

\* KeysBookedOnce: a trade, a funding period or a liquidation that is handed in
\* again, or after it failed half-way, does not pay twice.
THEOREM BookedOnce == ClearingSpec => []KeysBookedOnce
  <1>1. IInv => KeysBookedOnce
    <2> SUFFICES ASSUME IInv PROVE KeysBookedOnce OBVIOUS
    <2>1. Unique(service.ledger.journal) BY DEF IInv, InService, Sound, Tidy
    <2>2. QED BY <2>1 DEF Unique, KeysBookedOnce
  <1>2. QED BY <1>1, InvariantHolds, PTL

\* MoneyAccountedFor: whatever is called and fails, all money is what came from
\* outside but for what was settled against the escrow, no system wallet but the
\* escrow is overdrawn, and nobody has less than nothing frozen.
THEOREM MoneyAccounted == ClearingSpec => []MoneyAccountedFor
  <1>1. IInv => MoneyAccountedFor
    <2> SUFFICES ASSUME IInv PROVE MoneyAccountedFor OBVIOUS
    <2> DEFINE l == service.ledger
    <2>1. l \in Books /\ AllMoney(l) = Owed(l.journal) /\ NeverOverdrawn(l)
      BY DEF IInv, InService, Sound, Tidy
    <2> HIDE DEF l
    <2>2. UsersTotal(l) + Total(l.system)
             = NetExternal(l) - BookedIn(l.journal, OfType(l.journal, "PositionClose"), OfSystem("Escrow"))
      BY <2>1 DEF AllMoney, Owed, NetExternal
    <2>3. ASSUME NEW w \in NonNegativeSystemWallets PROVE l.system[w] >= 0
      <3>1. w \in SystemWallets /\ w # "Funding" BY DEF SystemWallets, NonNegativeSystemWallets
      <3>2. OfSystem(w) \in BookPlaces /\ ~Loose(OfSystem(w)) BY <3>1, PlacesAre DEF Loose
      <3>3. QED BY <2>1, <3>1, <3>2, BalanceInt DEF NeverOverdrawn
    <2>4. ASSUME NEW p \in Places(l), p.field = "frozen" PROVE Balance(l, p) >= 0
      <3>1. p \in UserPlaces(Traders) BY <2>1, TradersAre, PlacesFinite DEF Books
      <3>2. p \in BookPlaces /\ ~Loose(p) BY <2>4, <3>1, PlacesAre DEF Loose
      <3>3. QED BY <2>1, <3>2 DEF NeverOverdrawn
    <2>5. QED BY <2>2, <2>3, <2>4 DEF MoneyAccountedFor, l
  <1>2. QED BY <1>1, InvariantHolds, PTL

\* MarginBacked: the margin of a position is the margin in its user's wallet,
\* unless the ledger refused or skipped a step whose position had moved.
THEOREM MarginsBacked == ClearingSpec => []MarginBacked
  <1>1. IInv => MarginBacked
    BY DEF IInv, InService, Backed, HeldMargin, Margin, MarginBacked
  <1>2. QED BY <1>1, InvariantHolds, PTL

\* JournalTellsAll: the entries a step writes tell every change it makes to a
\* user's balance.
THEOREM JournalTells == ClearingSpec => JournalTellsAll
  <1>1. IInv /\ [ClearingNext]_clearingVars => [ChangesTold(service.ledger, service'.ledger)]_clearingVars
    <2> SUFFICES ASSUME IInv, [ClearingNext]_clearingVars PROVE ChangesTold(service.ledger, service'.ledger)
      OBVIOUS
    <2>1. IInv' /\ Tells(service.ledger, service'.ledger) BY StepKeeps
    <2>2. service.ledger \in Books BY BegunKeeps
    <2>3. service'.ledger \in Books BY <2>1 DEF IInv, InService, Sound, Tidy
    <2>4. QED BY <2>1, <2>2, <2>3, TellsChanges
  <1>2. QED BY <1>1, InvariantHolds, PTL DEF ClearingSpec, JournalTellsAll

-----------------------------------------------------------------------------
(* Auto-deleveraging goes by rank.                                         *)

\* The size a user has left.
Left(positions, u) == IF u \in DOMAIN positions THEN positions[u].size ELSE 0

\* Whole units of m in a, and what they leave.
LEMMA UnitsAre ==
    ASSUME NEW a \in Int, NEW m \in Nat \ {0}
    PROVE  /\ a \div m \in Int /\ a - (a \div m) * m < m
           /\ a >= m => a \div m >= 1
           /\ a >= 0 /\ a < m => a \div m = 0
  <1>1. a \div m \in Int /\ a - (a \div m) * m < m BY SMTT(20)
  <1>2. a >= m => a \div m >= 1 BY SMTT(20)
  <1>3. a >= 0 /\ a < m => a \div m = 0 BY SMTT(20)
  <1>4. QED BY <1>1, <1>2, <1>3

\* A reduction takes from one user alone.
LEMMA ReducedSizes ==
    ASSUME NEW p \in PositionTables, NEW user \in DOMAIN p, NEW qty \in 1 .. p[user].size,
           NEW q, q = ReduceOrClose(p, user, qty)
    PROVE  /\ DOMAIN q \subseteq DOMAIN p
           /\ Left(q, user) = p[user].size - qty
           /\ qty = p[user].size => user \notin DOMAIN q
           /\ \A u \in DOMAIN p : u # user => Left(q, u) = p[u].size
  <1>1. \A u \in DOMAIN p : p[u] \in PositionTypes /\ p[u].size \in Nat \ {0} BY PositionsAre
  <1>2. CASE qty = p[user].size
    <2>1. DOMAIN q = DOMAIN p \ {user} /\ \A u \in DOMAIN q : q[u] = p[u]
      BY <1>2 DEF ReduceOrClose, Restrict
    <2>2. QED BY <1>1, <1>2, <2>1 DEF Left
  <1>3. CASE qty # p[user].size
    <2>1. q = [p EXCEPT ![user] = [p[user] EXCEPT !.size = @ - qty,
                                                  !.margin = p[user].margin - MarginReleased(p[user], qty)]]
      BY <1>3 DEF ReduceOrClose
    <2>2. p \in [DOMAIN p -> PositionTypes] BY DEF PositionTables
    <2>3. /\ DOMAIN q = DOMAIN p /\ \A u \in DOMAIN p : u # user => q[u] = p[u]
          /\ q[user] = [p[user] EXCEPT !.size = @ - qty,
                                       !.margin = p[user].margin - MarginReleased(p[user], qty)]
      BY <2>1, <2>2
    <2>4. q[user].size = p[user].size - qty BY <1>1, <2>3 DEF PositionTypes
    <2>5. QED BY <1>1, <1>3, <2>3, <2>4 DEF Left
  <1>4. QED BY <1>2, <1>3

\* What a turn does that takes qty from a user.
Takes(adl, user, r, qty) ==
    LET p == adl.call.positions
        q == r.call.positions
    IN  /\ adl.call.error = "none" /\ adl.remaining >= adl.mark
        /\ DOMAIN q \subseteq DOMAIN p
        /\ Left(q, user) = p[user].size - qty
        /\ \A u \in DOMAIN p : u # user => Left(q, u) = p[u].size
        /\ r.mark = adl.mark
        /\ r.call.error = "none" => /\ r.remaining = adl.remaining - qty * adl.mark
                                    /\ user \notin DOMAIN q \/ r.remaining < adl.mark
        /\ r.call.error # "none" => user \in r.call.astray

\* A turn takes all it can, or there is an error, or less than a unit to cover.
LEMMA DeleverageOneTakes ==
    ASSUME NEW l \in Books, NEW adl, Deleveraging(l, adl), NEW user \in DOMAIN adl.call.positions,
           NEW r, r = DeleverageOne(adl, user)
    PROVE  \/ r = adl /\ (adl.call.error # "none" \/ adl.remaining < adl.mark)
           \/ \E qty \in 1 .. adl.call.positions[user].size : Takes(adl, user, r, qty)
  <1> DEFINE s == adl.call
             p == s.positions
             size == p[user].size
             units == adl.remaining \div adl.mark
             qty == Min({units, size})
             key == <<"adl", adl.bankrupt, user, adl.number>>
             reduced == CloseStep(s, user, qty, adl.mark, 0, key)
             q == ReduceOrClose(p, user, qty)
  <1>1. /\ CallFrom(l, s) /\ adl.remaining \in Int /\ adl.mark \in Nat \ {0}
        /\ adl = [call |-> s, remaining |-> adl.remaining, mark |-> adl.mark,
                  bankrupt |-> adl.bankrupt, number |-> adl.number]
    BY DEF Deleveraging
  <1>2. p \in PositionTables BY <1>1 DEF CallFrom, CallOK
  <1>3. size \in Nat \ {0} BY <1>2, PositionsAre
  <1>4. /\ units \in Int /\ adl.remaining - units * adl.mark < adl.mark
        /\ adl.remaining >= adl.mark => units >= 1
        /\ adl.remaining >= 0 /\ adl.remaining < adl.mark => units = 0
    BY <1>1, UnitsAre
  <1>5. qty = IF units <= size THEN units ELSE size
    <2> HIDE DEF units, size
    <2>1. QED BY <1>3, <1>4, MinOfTwo
  <1>6. r = IF s.error # "none" \/ adl.remaining <= 0 \/ qty = 0 THEN adl
            ELSE [adl EXCEPT !.call = reduced,
                             !.remaining = IF reduced.error = "none" THEN @ - qty * adl.mark ELSE @]
    BY DEF DeleverageOne
  <1>7. /\ reduced.positions = q
        /\ reduced.error # "none" /\ q # p => user \in reduced.astray
    BY DEF CloseStep, Settled
  <1> HIDE DEF units, qty, size, key, reduced, q
  <1>8. CASE s.error # "none" \/ adl.remaining < adl.mark
    <2>1. CASE s.error # "none" BY <1>6, <2>1
    <2>2. CASE adl.remaining < adl.mark
      <3>1. adl.remaining <= 0 \/ qty = 0 BY <1>1, <1>3, <1>4, <1>5, <2>2
      <3>2. QED BY <1>6, <2>2, <3>1
    <2>3. QED BY <1>8, <2>1, <2>2
  <1>9. CASE s.error = "none" /\ adl.remaining >= adl.mark
    <2>1. /\ qty \in 1 .. size /\ adl.remaining > 0
          /\ qty = size \/ qty = units
      BY <1>1, <1>3, <1>4, <1>5, <1>9
    <2>2. r = [adl EXCEPT !.call = reduced,
                          !.remaining = IF reduced.error = "none" THEN @ - qty * adl.mark ELSE @]
      BY <1>1, <1>6, <1>9, <2>1
    <2>3. /\ r.call = reduced /\ r.mark = adl.mark
          /\ reduced.error = "none" => r.remaining = adl.remaining - qty * adl.mark
      BY <1>1, <2>2
    <2>4. /\ DOMAIN q \subseteq DOMAIN p /\ Left(q, user) = p[user].size - qty
          /\ qty = size => user \notin DOMAIN q
          /\ \A u \in DOMAIN p : u # user => Left(q, u) = p[u].size
      BY <1>2, <2>1, ReducedSizes DEF q, size
    <2>5. q # p BY <1>2, <2>1, ReducedIs DEF q, size
    <2>6. reduced.error = "none" => user \notin DOMAIN q \/ r.remaining < adl.mark
      BY <1>4, <2>1, <2>3, <2>4
    <2>7. Takes(adl, user, r, qty) BY <1>7, <1>9, <2>3, <2>4, <2>5, <2>6 DEF Takes
    <2>8. QED BY <2>1, <2>7 DEF size
  <1>10. QED BY <1>1, <1>8, <1>9

\* What holds when the first k of the order had their turn: old are the positions
\* and deficit the deficit that auto-deleveraging began with.
Ranked(old, order, deficit, m, adl, k) ==
    LET p == adl.call.positions
    IN  /\ adl.mark = m /\ DOMAIN p \subseteq DOMAIN old
        /\ \A u \in DOMAIN old : /\ Left(p, u) \in 0 .. old[u].size
                                 /\ (\A i \in 1 .. k : order[i] # u) => Left(p, u) = old[u].size
        /\ \A i, j \in 1 .. k : i < j /\ Left(p, order[j]) # old[order[j]].size => order[i] \notin DOMAIN p
        /\ adl.call.error = "none" =>
              /\ adl.remaining = deficit - SumFunctionOnSet(Relieved(old, p), DOMAIN old) * m
              /\ adl.remaining < m \/ \A i \in 1 .. k : order[i] \notin DOMAIN p
        /\ adl.call.error # "none" =>
              \E i \in 1 .. k : /\ Left(p, order[i]) # old[order[i]].size
                                /\ order[i] \in adl.call.astray

\* What users are relieved of, as a sum.
LEMMA RelievedIs ==
    ASSUME NEW old \in PositionTables, NEW p,
           \A u \in DOMAIN old : Left(p, u) \in 0 .. old[u].size
    PROVE  /\ IsFiniteSet(DOMAIN old) /\ IsIntOn(Relieved(old, p), DOMAIN old)
           /\ \A u \in DOMAIN old : Relieved(old, p)[u] = old[u].size - Left(p, u)
           /\ SumFunctionOnSet(Relieved(old, p), DOMAIN old) \in Int
  <1>1. DOMAIN old \in SUBSET Traders /\ \A u \in DOMAIN old : old[u].size \in Nat BY PositionsAre
  <1>2. IsFiniteSet(DOMAIN old) BY <1>1, TradersAre, FS_Subset
  <1>3. \A u \in DOMAIN old : Relieved(old, p)[u] = old[u].size - Left(p, u) BY DEF Relieved, Left
  <1>4. IsIntOn(Relieved(old, p), DOMAIN old) BY <1>1, <1>3 DEF IsIntOn
  <1>5. QED BY <1>2, <1>3, <1>4, SumInt

\* One turn more.
LEMMA TurnRanked ==
    ASSUME NEW old \in PositionTables, NEW order \in Seq(DOMAIN old),
           \A i, j \in DOMAIN order : i # j => order[i] # order[j],
           NEW deficit \in Int, NEW m \in Nat \ {0}, NEW l \in Books, NEW adl, Deleveraging(l, adl),
           NEW k \in Nat, k < Len(order), Ranked(old, order, deficit, m, adl, k),
           NEW r, r = DeleverageOne(adl, order[k + 1])
    PROVE  Deleveraging(l, r) /\ Ranked(old, order, deficit, m, r, k + 1)
  <1> DEFINE user == order[k + 1]
             p == adl.call.positions
             q == r.call.positions
             n == k + 1
             before == SumFunctionOnSet(Relieved(old, p), DOMAIN old)
             after == SumFunctionOnSet(Relieved(old, q), DOMAIN old)
  <1>1. /\ Len(order) \in Nat /\ DOMAIN order = 1 .. Len(order)
        /\ n \in 1 .. Len(order) /\ \A i \in 1 .. k : i \in 1 .. Len(order) /\ i # n
        /\ \A i \in 1 .. n : i \in 1 .. k \/ i = n
        /\ \A i \in 1 .. k : i \in 1 .. n /\ i < n
    OBVIOUS
  <1>2. /\ user \in DOMAIN old /\ \A i \in 1 .. n : order[i] \in DOMAIN old
        /\ \A i \in 1 .. k : order[i] # user
    BY <1>1
  <1>3. \A u \in DOMAIN old : old[u].size \in Nat \ {0} BY PositionsAre
  <1>4. /\ adl.mark = m /\ DOMAIN p \subseteq DOMAIN old
        /\ \A u \in DOMAIN old : /\ Left(p, u) \in 0 .. old[u].size
                                 /\ (\A i \in 1 .. k : order[i] # u) => Left(p, u) = old[u].size
        /\ \A i, j \in 1 .. k : i < j /\ Left(p, order[j]) # old[order[j]].size => order[i] \notin DOMAIN p
        /\ adl.call.error = "none" => /\ adl.remaining = deficit - before * m
                                      /\ adl.remaining < m \/ \A i \in 1 .. k : order[i] \notin DOMAIN p
        /\ adl.call.error # "none" =>
              \E i \in 1 .. k : /\ Left(p, order[i]) # old[order[i]].size
                                /\ order[i] \in adl.call.astray
    BY DEF Ranked
  <1>5. Left(p, user) = old[user].size BY <1>2, <1>4
  <1>6. user \in DOMAIN p /\ p[user].size = old[user].size BY <1>2, <1>3, <1>5 DEF Left
  <1> HIDE DEF before, after, p, q, user
  <1>7. Deleveraging(l, r) BY <1>6, DeleverageOneKeeps DEF p, user
  <1>8. CASE r = adl /\ (adl.call.error # "none" \/ adl.remaining < adl.mark)
    <2>1. q = p /\ after = before BY <1>8 DEF p, q, before, after
    <2>2. \A u \in DOMAIN old : (\A i \in 1 .. n : order[i] # u) => Left(q, u) = old[u].size
      BY <1>1, <1>4, <2>1
    <2>3. ASSUME NEW i \in 1 .. n, NEW j \in 1 .. n, i < j, Left(q, order[j]) # old[order[j]].size
          PROVE  order[i] \notin DOMAIN q
      <3>1. j # n BY <1>5, <2>1, <2>3 DEF user
      <3>2. j \in 1 .. k /\ i \in 1 .. k BY <1>1, <2>3, <3>1
      <3>3. QED BY <1>4, <2>1, <2>3, <3>2
    <2>4. adl.call.error # "none" =>
              \E i \in 1 .. n : /\ Left(q, order[i]) # old[order[i]].size
                                /\ order[i] \in adl.call.astray
      BY <1>1, <1>4, <2>1
    <2>5. Ranked(old, order, deficit, m, r, n)
      BY <1>4, <1>8, <2>1, <2>2, <2>3, <2>4 DEF Ranked, q, after
    <2>6. QED BY <1>7, <2>5
  <1>9. CASE \E qty \in 1 .. p[user].size : Takes(adl, user, r, qty)
    <2>1. PICK qty \in 1 .. p[user].size : Takes(adl, user, r, qty) BY <1>9
    <2>2. /\ adl.call.error = "none" /\ adl.remaining >= m
          /\ DOMAIN q \subseteq DOMAIN p
          /\ Left(q, user) = old[user].size - qty
          /\ \A u \in DOMAIN p : u # user => Left(q, u) = p[u].size
          /\ r.mark = m
          /\ r.call.error = "none" => /\ r.remaining = adl.remaining - qty * m
                                      /\ user \notin DOMAIN q \/ r.remaining < m
          /\ r.call.error # "none" => user \in r.call.astray
      BY <1>4, <1>6, <2>1 DEF Takes, p, q
    <2>3. qty \in Nat \ {0} /\ qty <= old[user].size BY <1>2, <1>3, <1>6, <2>1
    <2>4. \A u \in DOMAIN old : u # user => Left(q, u) = Left(p, u) BY <2>2 DEF Left
    <2>5. adl.remaining \in Int BY DEF Deleveraging
    <2>6. \A i \in 1 .. k : order[i] \notin DOMAIN q BY <1>4, <2>2, <2>5
    <2>7. \A u \in DOMAIN old : Left(q, u) \in 0 .. old[u].size
      <3>1. Left(q, user) \in 0 .. old[user].size BY <1>2, <1>3, <2>2, <2>3
      <3>2. QED BY <1>4, <2>4, <3>1
    <2>8. \A u \in DOMAIN old : (\A i \in 1 .. n : order[i] # u) => Left(q, u) = old[u].size
      BY <1>1, <1>4, <2>4 DEF user
    <2>9. ASSUME NEW i \in 1 .. n, NEW j \in 1 .. n, i < j PROVE order[i] \notin DOMAIN q
      <3>1. i \in 1 .. k BY <1>1, <2>9
      <3>2. QED BY <2>6, <3>1
    <2>10. after = before + qty /\ before \in Int
      <3> DEFINE f == Relieved(old, p)
                 g == Relieved(old, q)
      <3>1. /\ IsFiniteSet(DOMAIN old) /\ IsIntOn(f, DOMAIN old) /\ before \in Int
            /\ \A u \in DOMAIN old : f[u] = old[u].size - Left(p, u)
        BY <1>4, RelievedIs DEF before
      <3>2. IsIntOn(g, DOMAIN old) /\ \A u \in DOMAIN old : g[u] = old[u].size - Left(q, u)
        BY <2>7, RelievedIs
      <3>3. SameOn(f, g, DOMAIN old \ {user}) BY <2>4, <3>1, <3>2 DEF SameOn
      <3>4. f[user] = 0 /\ g[user] = qty BY <1>2, <1>3, <1>5, <2>2, <2>3, <3>1, <3>2
      <3> DEFINE D == DOMAIN old
                 u == user
      <3>5. /\ IsFiniteSet(D) /\ IsIntOn(f, D) /\ IsIntOn(g, D) /\ u \in D
            /\ SameOn(f, g, D \ {u})
        BY <1>2, <3>1, <3>2, <3>3
      <3> HIDE DEF f, g, D, u
      <3>6. SumFunctionOnSet(g, D) = SumFunctionOnSet(f, D) + g[u] - f[u] BY <3>5, SumChanged
      <3>7. before = SumFunctionOnSet(f, D) /\ after = SumFunctionOnSet(g, D)
        BY DEF before, after, f, g, D
      <3>8. f[u] = 0 /\ g[u] = qty BY <3>4 DEF u
      <3>9. before \in Int BY <3>1
      <3>10. QED BY <2>3, <3>6, <3>7, <3>8, <3>9
    <2>11. r.call.error = "none" => r.remaining = deficit - after * m
      <3> DEFINE x == before * m
                 y == qty * m
      <3>1. (before + qty) * m = x + y BY <2>3, <2>10
      <3>2. x \in Int /\ y \in Int BY <2>3, <2>10
      <3>3. r.call.error = "none" => r.remaining = (deficit - x) - y BY <1>4, <2>2
      <3>4. after * m = x + y BY <2>10, <3>1
      <3> HIDE DEF x, y
      <3>5. QED BY <3>2, <3>3, <3>4
    <2>12. r.call.error = "none" => r.remaining < m \/ \A i \in 1 .. n : order[i] \notin DOMAIN q
      BY <1>1, <2>2, <2>6 DEF user
    <2>13. Left(q, order[n]) # old[order[n]].size BY <1>2, <1>3, <2>2, <2>3 DEF user
    <2>14. r.call.error # "none" => \E i \in 1 .. n : /\ Left(q, order[i]) # old[order[i]].size
                                                      /\ order[i] \in r.call.astray
      BY <1>1, <2>2, <2>13 DEF user
    <2>15. DOMAIN q \subseteq DOMAIN old BY <1>4, <2>2
    <2>16. Ranked(old, order, deficit, m, r, n)
      BY <2>2, <2>7, <2>8, <2>9, <2>11, <2>12, <2>14, <2>15 DEF Ranked, q, after
    <2>17. QED BY <1>7, <2>16
  <1>10. QED BY <1>6, <1>8, <1>9, DeleverageOneTakes DEF p, user

\* All turns.
LEMMA AllRanked ==
    ASSUME NEW old \in PositionTables, NEW order \in Seq(DOMAIN old),
           \A i, j \in DOMAIN order : i # j => order[i] # order[j],
           NEW deficit \in Int, NEW m \in Nat \ {0}, NEW l \in Books, NEW base, Deleveraging(l, base),
           base.call.positions = old, base.call.error = "none", base.remaining = deficit,
           base.mark = m
    PROVE  Ranked(old, order, deficit, m, FoldLeft(DeleverageOne, base, order), Len(order))
  <1> DEFINE n == Len(order)
             s == FoldLeft(DeleverageOne, base, order)
  <1>1. n \in Nat OBVIOUS
  <1>2. PICK tr : Reductions!IsTrace(tr, base, order) /\ s = tr[n]
    <2> HIDE DEF s, n
    <2>1. s = Reductions!Fold(base, order) BY FoldsAre DEF s
    <2>2. QED BY <2>1, Reductions!FoldTrace DEF n
  <1>3. tr[0] = base /\ \A i \in 1 .. n : tr[i] = DeleverageOne(tr[i - 1], order[i])
    BY <1>2 DEF Reductions!IsTrace
  <1> DEFINE T == {k \in Nat : k <= n => Deleveraging(l, tr[k]) /\ Ranked(old, order, deficit, m, tr[k], k)}
  <1>4. Ranked(old, order, deficit, m, base, 0)
    <2>1. \A u \in DOMAIN old : old[u].size \in Nat \ {0} /\ Left(old, u) = old[u].size
      BY PositionsAre DEF Left
    <2>2. \A u \in DOMAIN old : Left(old, u) \in 0 .. old[u].size BY <2>1
    <2>3. SumFunctionOnSet(Relieved(old, old), DOMAIN old) = 0
      <3> DEFINE f == Relieved(old, old)
                 D == DOMAIN old
      <3>1. IsFiniteSet(D) /\ \A u \in D : f[u] = old[u].size - Left(old, u) BY <2>2, RelievedIs
      <3>2. \A u \in D : f[u] = 0 BY <2>1, <3>1
      <3> HIDE DEF f, D
      <3>3. IsIntOn(f, {}) /\ IsFiniteSet({}) BY FS_EmptySet DEF IsIntOn
      <3>4. SumFunctionOnSet(f, {} \cup D) = SumFunctionOnSet(f, {}) BY <3>1, <3>2, <3>3, SumWithZeros
      <3>5. {} \cup D = D OBVIOUS
      <3>6. QED BY <3>4, <3>5, SumEmpty DEF f, D
    <2>4. 0 * m = 0 /\ deficit - 0 = deficit OBVIOUS
    <2>5. \A i \in 1 .. 0 : FALSE OBVIOUS
    <2>6. QED BY <2>1, <2>2, <2>3, <2>4, <2>5 DEF Ranked
  <1> HIDE DEF n, s
  <1>5. 0 \in T BY <1>3, <1>4
  <1>6. ASSUME NEW k \in Nat, k \in T PROVE k + 1 \in T
    <2> SUFFICES ASSUME k + 1 <= n
                 PROVE  Deleveraging(l, tr[k + 1]) /\ Ranked(old, order, deficit, m, tr[k + 1], k + 1)
      OBVIOUS
    <2>1. k < Len(order) /\ k <= n /\ k + 1 \in 1 .. n /\ (k + 1) - 1 = k BY <1>1 DEF n
    <2>2. tr[k + 1] = DeleverageOne(tr[k], order[k + 1]) BY <1>3, <2>1
    <2>3. Deleveraging(l, tr[k]) /\ Ranked(old, order, deficit, m, tr[k], k) BY <1>6, <2>1
    <2>4. QED BY <2>1, <2>2, <2>3, TurnRanked
  <1>7. \A k \in Nat : k \in T
    <2> HIDE DEF T
    <2>1. QED BY <1>5, <1>6, Induction
  <1>8. n \in T BY <1>1, <1>7
  <1>9. QED BY <1>1, <1>2, <1>8 DEF s, n

\* Nobody ranks higher than who ranks the same.
LEMMA NotAboveItself ==
    ASSUME NEW a \in PositionTypes, NEW m \in Nat \ {0}
    PROVE  ~HigherAdlScore(a, a, m)
  <1> DEFINE profit == Pnl(a, a.size, m)
             n == a.size
             margin == a.margin
             notional == profit * n
             part == notional * margin
             score == part * margin
  <1>1. n \in Nat /\ m \in Nat /\ margin \in Int BY DEF PositionTypes
  <1>2. profit \in Int BY <1>1, PnlInt
  <1> HIDE DEF profit, n, margin
  <1>3. notional \in Int BY <1>1, <1>2
  <1> HIDE DEF notional
  <1>4. part \in Int BY <1>1, <1>3
  <1> HIDE DEF part
  <1>5. score \in Int BY <1>1, <1>4
  <1> HIDE DEF score
  <1>6. ~(score > score) BY <1>5
  <1>7. HigherAdlScore(a, a, m) = (score > score)
    BY DEF HigherAdlScore, score, part, notional, profit, n, margin
  <1>8. QED BY <1>6, <1>7

\* What the ranking and the turns taken in its order make of the positions.
LEMMA RankedTakes ==
    ASSUME NEW old \in PositionTables, NEW d, d.deficit \in Int, NEW m \in Nat \ {0},
           NEW targets, targets = {u \in DOMAIN old \ {d.user} :
                                      old[u].side = Opposite(d.side) /\ old[u].margin # 0},
           NEW order \in Seq(DOMAIN old), Range(order) = targets,
           \A i, j \in DOMAIN order : i < j => ~HigherAdlScore(old[order[j]], old[order[i]], m),
           NEW adl, Ranked(old, order, d.deficit, m, adl, Len(order))
    PROVE  TakenByRank(d, old, adl.call.positions, m, adl.call.astray)
  <1> DEFINE p == adl.call.positions
             n == Len(order)
             taken == Relieved(old, p)
             hit == {u \in DOMAIN old : taken[u] # 0}
             sum == SumFunctionOnSet(taken, DOMAIN old)
  <1>1. n \in Nat /\ DOMAIN order = 1 .. n /\ \A i \in 1 .. n : order[i] \in targets BY DEF Range
  <1>2. \A u \in targets : \E i \in 1 .. n : order[i] = u BY DEF Range
  <1>3. \A u \in DOMAIN old : old[u] \in PositionTypes /\ old[u].size \in Nat \ {0} BY PositionsAre
  <1>4. /\ adl.mark = m /\ DOMAIN p \subseteq DOMAIN old
        /\ \A u \in DOMAIN old : /\ Left(p, u) \in 0 .. old[u].size
                                 /\ (\A i \in 1 .. n : order[i] # u) => Left(p, u) = old[u].size
        /\ \A i, j \in 1 .. n : i < j /\ Left(p, order[j]) # old[order[j]].size => order[i] \notin DOMAIN p
        /\ adl.call.error = "none" => /\ adl.remaining = d.deficit - sum * m
                                      /\ adl.remaining < m \/ \A i \in 1 .. n : order[i] \notin DOMAIN p
        /\ adl.call.error # "none" =>
              \E i \in 1 .. n : /\ Left(p, order[i]) # old[order[i]].size
                                /\ order[i] \in adl.call.astray
    BY DEF Ranked
  <1>5. sum \in Int /\ \A u \in DOMAIN old : taken[u] = old[u].size - Left(p, u)
    BY <1>4, RelievedIs
  <1>6. \A u \in DOMAIN old : u \in hit <=> Left(p, u) # old[u].size BY <1>3, <1>4, <1>5
  <1>7. \A u \in targets : u \in DOMAIN old OBVIOUS
  <1> HIDE DEF p, n, taken, sum, hit
  <1>8. hit \subseteq targets
    <2>1. hit \subseteq DOMAIN old BY DEF hit
    <2>2. QED BY <1>1, <1>4, <1>6, <2>1
  <1>9. ASSUME NEW u \in hit, NEW v \in targets, HigherAdlScore(old[v], old[u], m)
        PROVE  v \notin DOMAIN p
    <2>1. PICK j \in 1 .. n : order[j] = u BY <1>2, <1>8, <1>9
    <2>2. PICK i \in 1 .. n : order[i] = v BY <1>2, <1>9
    <2>3. i # j
      <3>1. ~HigherAdlScore(old[u], old[u], m) BY <1>3, <1>7, <1>8, <1>9, NotAboveItself
      <3>2. QED BY <1>9, <2>1, <2>2, <3>1
    <2>4. ~(j < i) BY <1>1, <1>9, <2>1, <2>2
    <2>5. i < j BY <1>1, <2>3, <2>4
    <2>6. Left(p, u) # old[u].size BY <1>6, <1>7, <1>8, <1>9
    <2>7. QED BY <1>4, <2>1, <2>2, <2>5, <2>6
  <1>10. ASSUME hit \cap adl.call.astray = {}
         PROVE  sum * m > d.deficit - m \/ targets \cap DOMAIN p = {}
    <2>1. adl.call.error = "none" BY <1>1, <1>4, <1>6, <1>7, <1>10
    <2>2. CASE adl.remaining < m
      <3> DEFINE x == sum * m
      <3>1. x \in Int /\ adl.remaining = d.deficit - x BY <1>4, <1>5, <2>1
      <3> HIDE DEF x
      <3>2. x > d.deficit - m BY <2>2, <3>1
      <3>3. QED BY <3>2 DEF x
    <2>3. CASE \A i \in 1 .. n : order[i] \notin DOMAIN p BY <1>2, <2>3
    <2>4. QED BY <1>4, <2>1, <2>2, <2>3
  <1>11. QED BY <1>8, <1>9, <1>10 DEF TakenByRank, hit, taken, sum, p

\* There is at most one deficit to cover.
OneShortfall == \A a, b \in shortfall : a = b

\* Only auto-deleveraging covers one, and nothing else forgets it.
LEMMA ShortfallsKeep ==
    ASSUME OneShortfall, [ClearingNext]_clearingVars
    PROVE  /\ OneShortfall'
           /\ shortfall' = {} => shortfall = {} \/ \E d \in shortfall : ExecuteAdl(d)
  <1>1. CASE \E u \in Traders : Withdrawal(u) \/ BackToFunding(u) \/ CancelOrder(u)
    <2>1. shortfall' = shortfall
      BY <1>1 DEF Withdrawal, BackToFunding, CancelOrder, LedgerCall
    <2>2. QED BY <2>1 DEF OneShortfall
  <1>2. CASE \/ \E p \in Pairs : ClosePair(p)
             \/ RepeatTrade \/ \E t \in TradeTerms : ProcessTrade(t)
             \/ \E p \in Prices : UpdateMark(p)
             \/ \E rate \in Rates, number \in 1 .. MaxCalls : SettleFunding(rate, number)
             \/ Scan \/ UNCHANGED clearingVars
    <2>1. shortfall' = shortfall
      BY <1>2 DEF ClosePair, RepeatTrade, ProcessTrade, UpdateMark, SettleFunding, Scan, clearingVars
    <2>2. QED BY <2>1 DEF OneShortfall
  <1>3. CASE \E u \in Traders, price \in Prices : ProcessLiquidation(u, price)
    <2>1. shortfall' = shortfall \/ \E x : shortfall' = {x} BY <1>3 DEF ProcessLiquidation
    <2>2. QED BY <2>1 DEF OneShortfall
  <1>4. CASE \E d \in shortfall : ExecuteAdl(d)
    <2>1. shortfall' = {} BY <1>4 DEF ExecuteAdl
    <2>2. QED BY <1>4, <2>1 DEF OneShortfall
  <1>5. QED BY <1>1, <1>2, <1>3, <1>4 DEF ClearingNext

\* Auto-deleveraging takes by rank.
LEMMA AdlTakes ==
    ASSUME IInv, NEW d \in shortfall, ExecuteAdl(d)
    PROVE  TakenByRank(d, service.positions, service'.positions, mark, astray')
  <1> DEFINE l == service.ledger
             old == service.positions
             C == Counterparties(d.user, d.side)
             S == {u \in C : old[u].margin # 0}
             base == [call |-> Begun, remaining |-> d.deficit, mark |-> mark,
                      bankrupt |-> d.user, number |-> calls]
             targets == {u \in DOMAIN old \ {d.user} :
                            old[u].side = Opposite(d.side) /\ old[u].margin # 0}
  <1>1. /\ l \in Books /\ CallFrom(l, Begun) /\ Begun.positions = old /\ old \in PositionTables
    BY BegunKeeps
  <1>2. /\ mark \in Nat \ {0} /\ calls \in Nat /\ d.user \in Traders /\ d.deficit \in Int
    BY DEF IInv, Outside, Shortfalls
  <1>3. PICK order \in AdlRankings(old, C, mark) :
           Finish(FoldLeft(DeleverageOne, base, order).call)
    BY DEF ExecuteAdl
  <1>4. /\ order \in SetToSeqs(S)
        /\ \A i, j \in DOMAIN order : i < j => ~HigherAdlScore(old[order[j]], old[order[i]], mark)
    BY <1>3 DEF AdlRankings
  <1>5. S = targets /\ S \subseteq DOMAIN old BY DEF Counterparties
  <1>6. IsFiniteSet(S)
    <2>1. DOMAIN old \in SUBSET Traders BY <1>1, PositionsAre
    <2>2. QED BY <1>5, <2>1, TradersAre, FS_Subset
  <1>7. Deleveraging(l, base) BY <1>1, <1>2 DEF Deleveraging
  <1>8. /\ base.call.positions = old /\ base.call.error = "none" /\ base.remaining = d.deficit
        /\ base.mark = mark
    BY <1>1 DEF Begun
  <1> HIDE DEF S, base
  <1>9. order \in Seq(S) /\ IsInjective(order) /\ Range(order) = S BY <1>4, <1>6, SequencesOfSet
  <1>10. order \in Seq(DOMAIN old) /\ \A i, j \in DOMAIN order : i # j => order[i] # order[j]
    BY <1>5, <1>9 DEF IsInjective
  <1> DEFINE adl == FoldLeft(DeleverageOne, base, order)
  <1>11. Ranked(old, order, d.deficit, mark, adl, Len(order))
    <2> HIDE DEF old, l
    <2>1. QED BY <1>1, <1>2, <1>7, <1>8, <1>10, AllRanked
  <1>12. service'.positions = adl.call.positions /\ astray' = adl.call.astray BY <1>3 DEF Finish
  <1> HIDE DEF adl
  <1>13. Range(order) = targets BY <1>5, <1>9
  <1>14. TakenByRank(d, old, adl.call.positions, mark, adl.call.astray)
    <2> HIDE DEF old
    <2>1. QED BY <1>1, <1>2, <1>4, <1>10, <1>11, <1>13, RankedTakes
  <1>15. QED BY <1>12, <1>14

\* AdlByRank: auto-deleveraging takes from the other side only, in the order of the
\* scores, and stops only when the deficit is covered or nobody is left, unless
\* the ledger refuses a reduction.
THEOREM DeleveragesByRank == ClearingSpec => AdlByRank
  <1>1. ClearingInit => OneShortfall BY DEF ClearingInit, OneShortfall
  <1>2. OneShortfall /\ [ClearingNext]_clearingVars => OneShortfall' BY ShortfallsKeep
  <1>3. IInv /\ OneShortfall /\ [ClearingNext]_clearingVars =>
           [\A d \in shortfall :
               shortfall' = {} =>
                   TakenByRank(d, service.positions, service'.positions, mark, astray')]_clearingVars
    <2> SUFFICES ASSUME IInv, OneShortfall, [ClearingNext]_clearingVars,
                        NEW d \in shortfall, shortfall' = {}
                 PROVE  TakenByRank(d, service.positions, service'.positions, mark, astray')
      OBVIOUS
    <2>1. PICK x \in shortfall : ExecuteAdl(x) BY ShortfallsKeep
    <2>2. d = x BY DEF OneShortfall
    <2>3. QED BY <2>1, <2>2, AdlTakes
  <1>4. QED BY <1>1, <1>2, <1>3, InvariantHolds, PTL DEF ClearingSpec, AdlByRank

===============================================================================
