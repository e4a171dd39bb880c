-------------------------- MODULE PostTradeProofs --------------------------
(***************************************************************************)
(* The post-trade processor for every set of users, every sweep and every  *)
(* history: the books balance, positions are the net of the fills, and a   *)
(* boot rebuilds from the log what the matching thread had.                *)
(***************************************************************************)
EXTENDS PostTrade, LedgerProofs

-----------------------------------------------------------------------------
(* What deposit and settle_realized_pnl_capped do.                         *)

FundingOf(user) == Place(user, "Funding", "available")

\* The entry about what a user receives, or pays.
Receipt(user, amount, type, key) ==
    IF amount > 0 THEN JournalEntry(OfSystem("Funding"), FundingOf(user), amount, type, key)
    ELSE JournalEntry(FundingOf(user), OfSystem("Funding"), -amount, type, key)

\* m is l after user received amount, of which SYSTEM paid part.
Receives(U, l, m, user, amount, part, type, key) ==
    /\ DOMAIN m.accounts = DOMAIN l.accounts \cup {user}
    /\ Moved(U, l, m, FundingOf(user), amount)
    /\ m.system = [l.system EXCEPT !["Funding"] = @ - part]
    /\ m.journal = IF amount = 0 THEN l.journal
                   ELSE Append(l.journal, Receipt(user, amount, type, key))
    /\ m.keys = l.keys \cup {key}

\* Every wallet of a user is a place of the books.
LEMMA PlaceOfUser ==
    ASSUME NEW U, NEW user \in U
    PROVE  FundingOf(user) \in UserPlaces(U) /\ FundingOf(user).owner = user
  BY DEF FundingOf, Place, UserPlaces, UserWallets, Fields

\* The entry a settlement or a deposit books is a journal entry.
LEMMA ReceiptType ==
    ASSUME NEW U, NEW K, NEW user \in U, NEW amount \in Int, amount # 0, NEW key \in K,
           NEW type \in JournalTypes
    PROVE  Receipt(user, amount, type, key) \in Entries(U, K)
  <1>1. CASE amount > 0
    BY <1>1 DEF Receipt, JournalEntry, FundingOf, OfSystem, Place, Entries, UserWallets,
                SystemWallets, Fields
  <1>2. CASE amount < 0
    <2>1. -amount \in Nat \ {0} /\ ~(amount > 0) BY <1>2
    <2>2. QED BY <2>1 DEF Receipt, JournalEntry, FundingOf, OfSystem, Place, Entries, UserWallets,
                SystemWallets, Fields
  <1>3. amount > 0 \/ amount < 0 OBVIOUS
  <1>4. QED BY <1>1, <1>2, <1>3

\* A balance depends on the accounts alone.
LEMMA SameAccounts ==
    ASSUME NEW U, SYSTEM \notin U, NEW l, NEW m, l.accounts = m.accounts,
           NEW p \in UserPlaces(U)
    PROVE  Balance(l, p) = Balance(m, p)
  <1>1. p.owner # SYSTEM BY DEF UserPlaces
  <1>2. QED BY <1>1 DEF Balance

\* How both put the new ledger together.
BuiltFrom(l, m, user, amount, part, type, key) ==
    m = [Credit(GetOrCreateAccount(l, user), FundingOf(user), amount) EXCEPT
            !.journal = IF amount = 0 THEN l.journal
                        ELSE Append(l.journal, Receipt(user, amount, type, key)),
            !.keys = l.keys \cup {key},
            !.system = [l.system EXCEPT !["Funding"] = @ - part]]

\* A ledger built by opening the account, crediting it, booking the entry and
\* remembering the key is the old one plus a receipt.
LEMMA ReceivesBy ==
    ASSUME NEW U, SYSTEM \notin U, NEW K, NEW l \in Ledgers(U, K), NEW user \in U,
           NEW amount \in Int, NEW part \in Int, NEW type \in JournalTypes, NEW key \in K,
           NEW m, BuiltFrom(l, m, user, amount, part, type, key)
    PROVE  m \in Ledgers(U, K) /\ Receives(U, l, m, user, amount, part, type, key)
  <1> DEFINE at == FundingOf(user)
             o == GetOrCreateAccount(l, user)
             c == Credit(o, at, amount)
             j == IF amount = 0 THEN l.journal
                  ELSE Append(l.journal, Receipt(user, amount, type, key))
             y == [l.system EXCEPT !["Funding"] = @ - part]
             k == l.keys \cup {key}
  <1>1. at \in UserPlaces(U) /\ at.owner = user BY PlaceOfUser
  <1>2. /\ o \in Ledgers(U, K) /\ DOMAIN o.accounts = DOMAIN l.accounts \cup {user}
        /\ o.system = l.system /\ o.journal = l.journal /\ o.keys = l.keys
        /\ \A p \in UserPlaces(U) : Balance(o, p) = Balance(l, p)
    BY AccountOpened
  <1>3. /\ c \in Ledgers(U, K) /\ DOMAIN c.accounts = DOMAIN o.accounts
        /\ Moved(U, o, c, at, amount)
    <2> HIDE DEF at, o
    <2>1. at.owner \in DOMAIN o.accounts BY <1>1, <1>2
    <2>2. QED BY <1>1, <1>2, <2>1, AccountCredited
  <1>4. j \in Seq(Entries(U, K))
    <2>1. l.journal \in Seq(Entries(U, K)) BY DEF Ledgers
    <2>2. CASE amount = 0 BY <2>1, <2>2
    <2>3. CASE amount # 0
      <3> DEFINE e == Receipt(user, amount, type, key)
      <3>1. e \in Entries(U, K) BY <2>3, ReceiptType
      <3> HIDE DEF e
      <3>2. Append(l.journal, e) \in Seq(Entries(U, K)) BY <2>1, <3>1
      <3>3. QED BY <2>3, <3>2 DEF e
    <2>4. QED BY <2>2, <2>3
  <1>5. y \in [SystemWallets -> Int] /\ k \in SUBSET K
    <2>1. l.system \in [SystemWallets -> Int] /\ l.keys \in SUBSET K BY DEF Ledgers
    <2>2. l.system["Funding"] - part \in Int
      <3>1. "Funding" \in SystemWallets BY DEF SystemWallets
      <3>2. QED BY <2>1, <3>1
    <2>3. y \in [SystemWallets -> Int] BY <2>1, <2>2
    <2>4. k \in SUBSET K BY <2>1
    <2>5. QED BY <2>3, <2>4
  <1>6. /\ m \in Ledgers(U, K) /\ m.accounts = c.accounts /\ m.journal = j
        /\ m.system = y /\ m.keys = k
    <2>1. m = [c EXCEPT !.journal = j, !.keys = k, !.system = y] BY DEF BuiltFrom
    <2> HIDE DEF c, j, y, k
    <2>2. QED BY <1>3, <1>4, <1>5, <2>1 DEF Ledgers
  <1>7. Moved(U, l, m, at, amount)
    <2> HIDE DEF c, o, at
    <2>1. ASSUME NEW p \in UserPlaces(U)
          PROVE  Balance(m, p) = Balance(l, p) + IF p = at THEN amount ELSE 0
      <3>1. Balance(m, p) = Balance(c, p) BY <1>6, SameAccounts
      <3>2. Balance(c, p) = Balance(o, p) + IF p = at THEN amount ELSE 0 BY <1>3 DEF Moved
      <3>3. QED BY <1>2, <3>1, <3>2
    <2>2. QED BY <2>1 DEF Moved
  <1>8. DOMAIN m.accounts = DOMAIN l.accounts \cup {user} BY <1>2, <1>3, <1>6
  <1>9. QED BY <1>6, <1>7, <1>8 DEF Receives

\* deposit credits the amount, and SYSTEM's balance does not change.
LEMMA DepositEffect ==
    ASSUME NEW U, SYSTEM \notin U, NEW K, NEW l \in Ledgers(U, K), NEW user \in U,
           NEW amount \in Nat \ {0}, NEW key \in K, key \notin l.keys,
           NEW m, m = Deposit(GetOrCreateAccount(l, user), user, amount, key)
    PROVE  m \in Ledgers(U, K) /\ Receives(U, l, m, user, amount, 0, "Deposit", key)
  <1> DEFINE at == FundingOf(user)
             o == GetOrCreateAccount(l, user)
             c == Credit(o, at, amount)
             j == Append(l.journal, Receipt(user, amount, "Deposit", key))
             y == [l.system EXCEPT !["Funding"] = @ - 0]
             k == l.keys \cup {key}
  <1>1. /\ o \in Ledgers(U, K) /\ DOMAIN o.accounts = DOMAIN l.accounts \cup {user}
        /\ o.system = l.system /\ o.journal = l.journal /\ o.keys = l.keys
    BY AccountOpened
  <1>2. at \in UserPlaces(U) /\ at.owner = user /\ at.owner \in DOMAIN o.accounts
    BY <1>1, PlaceOfUser
  <1>3. /\ c \in Ledgers(U, K) /\ c.system = l.system /\ c.journal = l.journal
        /\ c.keys = l.keys
    <2> HIDE DEF o, at
    <2>1. amount \in Int OBVIOUS
    <2>2. QED BY <1>1, <1>2, <2>1, AccountCredited
  <1>4. GetOrCreateAccount(o, user) = o
    <2> HIDE DEF o
    <2>1. QED BY <1>1 DEF GetOrCreateAccount
  <1>5. y = l.system
    <2>1. l.system \in [SystemWallets -> Int] BY DEF Ledgers
    <2>2. "Funding" \in SystemWallets BY DEF SystemWallets
    <2>3. QED BY <2>1, <2>2
  <1>6. m = [c EXCEPT !.journal = j, !.keys = k, !.system = y]
    <2>1. ~Used(o, key) BY <1>1 DEF Used
    <2>2. ~(amount <= 0) /\ amount > 0 OBVIOUS
    <2>3. Noted(c, OfSystem("Funding"), at, amount, "Deposit", key) = [c EXCEPT !.journal = j]
      BY <1>3, <2>2 DEF Noted, Receipt
    <2>4. m = [Noted(c, OfSystem("Funding"), at, amount, "Deposit", key)
                 EXCEPT !.keys = @ \cup {key}]
      BY <1>4, <2>1 DEF Deposit, FundingOf
    <2> HIDE DEF j, k, y, c
    <2>5. m = [c EXCEPT !.journal = j, !.keys = @ \cup {key}] BY <2>3, <2>4
    <2>6. m = [c EXCEPT !.journal = j, !.keys = k] BY <1>3, <2>5 DEF Ledgers, k
    <2>7. QED BY <1>3, <1>5, <2>6 DEF Ledgers
  <1>7. amount \in Int /\ 0 \in Int /\ "Deposit" \in JournalTypes BY DEF JournalTypes
  <1>8. BuiltFrom(l, m, user, amount, 0, "Deposit", key)
    <2>1. amount # 0 OBVIOUS
    <2>2. QED BY <1>6, <2>1 DEF BuiltFrom
  <1>9. QED BY <1>7, <1>8, ReceivesBy

\* settle_realized_pnl_capped credits a gain, debits a loss as far as the
\* money goes, and SYSTEM's pool has the other side.
LEMMA SettleEffect ==
    ASSUME NEW U, SYSTEM \notin U, NEW K, NEW l \in Ledgers(U, K), NEW user \in U,
           NEW signed \in Int, signed # 0, NEW key \in K, key \notin l.keys,
           NEW s, s = SettleCapped(GetOrCreateAccount(l, user), user, signed, key)
    PROVE  /\ s.ledger \in Ledgers(U, K)
           /\ s.moved \in Int
           /\ s.moved = IF signed > 0 THEN signed
                        ELSE -(IF -signed <= Available(l, user) THEN -signed
                               ELSE Available(l, user))
           /\ Receives(U, l, s.ledger, user, s.moved, s.moved, "FundingPayment", key)
  <1> DEFINE at == FundingOf(user)
             o == GetOrCreateAccount(l, user)
             had == Available(l, user)
             moved == s.moved
             c == Credit(o, at, moved)
             j == IF moved = 0 THEN l.journal
                  ELSE Append(l.journal, Receipt(user, moved, "FundingPayment", key))
             y == [l.system EXCEPT !["Funding"] = @ - moved]
             k == l.keys \cup {key}
             n == SettlementNoted(c, user, signed, moved, key)
             m == s.ledger
  <1>1. /\ o \in Ledgers(U, K) /\ DOMAIN o.accounts = DOMAIN l.accounts \cup {user}
        /\ o.system = l.system /\ o.journal = l.journal /\ o.keys = l.keys
        /\ \A p \in UserPlaces(U) : Balance(o, p) = Balance(l, p)
    BY AccountOpened
  <1>2. at \in UserPlaces(U) /\ at.owner = user /\ at.owner \in DOMAIN o.accounts
    BY <1>1, PlaceOfUser
  <1>3. Available(o, user) = had /\ had \in Int
    <2>1. Balance(o, at) = Balance(l, at) /\ Balance(l, at) \in Int BY <1>1, <1>2, BalanceType
    <2>2. QED BY <2>1 DEF Available, FundingOf
  <1>4. /\ moved = IF signed > 0 THEN signed ELSE -Min({-signed, Available(o, user)})
        /\ m = [n EXCEPT !.keys = @ \cup {key}, !.system["Funding"] = PoolAfter(@, moved)]
    <2>1. ~(signed = 0 \/ Used(o, key)) BY <1>1 DEF Used
    <2>2. QED BY <2>1 DEF SettleCapped, FundingOf
  <1>5. /\ moved = IF signed > 0 THEN signed ELSE -(IF -signed <= had THEN -signed ELSE had)
        /\ moved \in Int
    <2> HIDE DEF moved, had
    <2>1. moved = IF signed > 0 THEN signed ELSE -Min({-signed, had}) BY <1>3, <1>4
    <2>2. -signed \in Int OBVIOUS
    <2>3. Min({-signed, had}) = IF -signed <= had THEN -signed ELSE had
      BY <1>3, <2>2, MinOfTwo
    <2>4. QED BY <1>3, <2>1, <2>3
  <1>6. /\ c \in Ledgers(U, K) /\ c.system = l.system /\ c.journal = l.journal
        /\ c.keys = l.keys
    <2> HIDE DEF o, at, moved
    <2>1. QED BY <1>1, <1>2, <1>5, AccountCredited
  <1>7. n = [c EXCEPT !.journal = j]
    <2> HIDE DEF c, moved
    <2>1. CASE moved > 0
      <3>1. ~(moved <= 0) /\ moved # 0 BY <1>5, <2>1
      <3>2. QED BY <1>6, <2>1, <3>1 DEF SettlementNoted, Noted, Receipt, FundingOf
    <2>2. CASE moved < 0
      <3>1. ~(-moved <= 0) /\ moved # 0 /\ ~(moved > 0) BY <1>5, <2>2
      <3>2. QED BY <1>6, <3>1 DEF SettlementNoted, Noted, Receipt, FundingOf
    <2>3. CASE moved = 0
      <3>1. -moved <= 0 /\ ~(moved > 0) BY <1>5, <2>3
      <3>2. n = c BY <3>1 DEF SettlementNoted, Noted
      <3>3. c = [c EXCEPT !.journal = c.journal] BY <1>6 DEF Ledgers
      <3>4. QED BY <1>6, <2>3, <3>2, <3>3
    <2>4. moved > 0 \/ moved < 0 \/ moved = 0 BY <1>5
    <2>5. QED BY <2>1, <2>2, <2>3, <2>4
  <1>8. m = [c EXCEPT !.journal = j, !.keys = k, !.system = y]
    <2> HIDE DEF c, j, n, moved, m
    <2>1. n.keys = l.keys /\ n.system = l.system BY <1>6, <1>7 DEF Ledgers
    <2>2. l.system \in [SystemWallets -> Int] BY DEF Ledgers
    <2>3. [n.system EXCEPT !["Funding"] = PoolAfter(@, moved)] = y
      BY <2>1, <2>2 DEF PoolAfter
    <2> HIDE DEF y
    <2>4. m = [n EXCEPT !.keys = k, !.system = y]
      <3>1. m = [n EXCEPT !.keys = n.keys \cup {key},
                          !.system = [n.system EXCEPT !["Funding"] = PoolAfter(@, moved)]]
        BY <1>4, <1>6, <1>7 DEF Ledgers
      <3>2. QED BY <2>1, <2>3, <3>1
    <2>5. QED BY <1>6, <1>7, <2>4 DEF Ledgers
  <1>9. "FundingPayment" \in JournalTypes BY DEF JournalTypes
  <1>10. BuiltFrom(l, m, user, moved, moved, "FundingPayment", key) BY <1>8 DEF BuiltFrom
  <1>11. m \in Ledgers(U, K) /\ Receives(U, l, m, user, moved, moved, "FundingPayment", key)
    <2> HIDE DEF m, moved
    <2>1. QED BY <1>5, <1>9, <1>10, ReceivesBy
  <1>12. QED BY <1>5, <1>11

-----------------------------------------------------------------------------
(* Sums over the journal, in terms of its entries.                         *)

\* The sums of the ledger and of the journal in these terms.
OfTypes(U, K, type) == {e \in Entries(U, K) : e.type = type}
CreditsOf(U, K, u) == {e \in Entries(U, K) : e.credit.owner = u}
DebitsOf(U, K, u) == {e \in Entries(U, K) : e.debit.owner = u}

Explained(l, u) ==
    Available(l, u)
        = SumFunctionOnSet(Amounts(l.journal),
                           {i \in DOMAIN l.journal : l.journal[i].credit.owner = u})
            - SumFunctionOnSet(Amounts(l.journal),
                               {i \in DOMAIN l.journal : l.journal[i].debit.owner = u})

\* What NetExternal and Explained sum, as sums over sets of entries.
LEMMA JournalInTerms ==
    ASSUME NEW U, NEW K, NEW l \in Ledgers(U, K)
    PROVE  /\ NetExternal(l) = SumIn(l.journal, OfTypes(U, K, "Deposit"))
                                - SumIn(l.journal, OfTypes(U, K, "Withdrawal"))
           /\ \A u : Explained(l, u) <=>
                 Available(l, u) = SumIn(l.journal, CreditsOf(U, K, u))
                                   - SumIn(l.journal, DebitsOf(U, K, u))
  <1> DEFINE j == l.journal
  <1>1. \A i \in DOMAIN j : j[i] \in Entries(U, K)
    <2>1. j \in Seq(Entries(U, K)) BY DEF Ledgers
    <2>2. QED BY <2>1
  <1>2. ASSUME NEW type
        PROVE  SumFunctionOnSet(Amounts(j), OfType(j, type)) = SumIn(j, OfTypes(U, K, type))
    <2>1. OfType(j, type) = {i \in DOMAIN j : j[i] \in OfTypes(U, K, type)}
      BY <1>1 DEF OfType, OfTypes
    <2>2. QED BY <2>1 DEF SumIn
  <1>3. ASSUME NEW u
        PROVE  /\ {i \in DOMAIN j : j[i].credit.owner = u}
                     = {i \in DOMAIN j : j[i] \in CreditsOf(U, K, u)}
               /\ {i \in DOMAIN j : j[i].debit.owner = u}
                     = {i \in DOMAIN j : j[i] \in DebitsOf(U, K, u)}
    BY <1>1 DEF CreditsOf, DebitsOf
  <1>4. NetExternal(l) = SumIn(j, OfTypes(U, K, "Deposit")) - SumIn(j, OfTypes(U, K, "Withdrawal"))
    BY <1>2 DEF NetExternal
  <1>5. ASSUME NEW u
        PROVE  Explained(l, u) <=>
                 Available(l, u) = SumIn(j, CreditsOf(U, K, u)) - SumIn(j, DebitsOf(U, K, u))
    BY <1>3 DEF Explained, SumIn
  <1>6. QED BY <1>4, <1>5

-----------------------------------------------------------------------------
(* The books balance.                                                      *)

\* What SYSTEM holds falls by what it pays.
LEMMA SystemTotalFalls ==
    ASSUME NEW y \in [SystemWallets -> Int], NEW part \in Int,
           NEW z, z = [y EXCEPT !["Funding"] = @ - part]
    PROVE  Total(y) \in Int /\ Total(z) = Total(y) - part
  <1> DEFINE F == "Funding"
             amount == -part
  <1>1. F \in SystemWallets BY DEF SystemWallets
  <1>2. y[F] \in Int /\ amount \in Int BY <1>1
  <1>3. y[F] - part = y[F] + amount BY <1>2
  <1>4. z = [y EXCEPT ![F] = @ + amount] BY <1>3
  <1> HIDE DEF amount, F
  <1>5. Total(y) \in Int /\ Total(z) = Total(y) + amount BY <1>1, <1>2, <1>4, SystemTotalGrows
  <1>6. QED BY <1>5 DEF amount

Books(U, l) == VerifyAllInvariants(l) /\ \A u \in U : Explained(l, u)

\* Which sums a receipt counts in.
LEMMA ReceiptCounts ==
    ASSUME NEW U, SYSTEM \notin U, NEW K, NEW user \in U, NEW amount \in Int, amount # 0,
           NEW type \in JournalTypes, NEW key \in K,
           NEW e, e = Receipt(user, amount, type, key)
    PROVE  /\ e \in Entries(U, K)
           /\ e.amount = IF amount > 0 THEN amount ELSE -amount
           /\ e.amount \in Int
           /\ \A t : e \in OfTypes(U, K, t) <=> t = type
           /\ \A u \in U : e \in CreditsOf(U, K, u) <=> (u = user /\ amount > 0)
           /\ \A u \in U : e \in DebitsOf(U, K, u) <=> (u = user /\ ~(amount > 0))
  <1>1. e \in Entries(U, K) BY ReceiptType
  <1>2. e.type = type BY DEF Receipt, JournalEntry
  <1>3. e.amount = IF amount > 0 THEN amount ELSE -amount BY DEF Receipt, JournalEntry
  <1>4. CASE amount > 0
    <2>1. e.credit.owner = user /\ e.debit.owner = SYSTEM
      BY <1>4 DEF Receipt, JournalEntry, FundingOf, OfSystem, Place
    <2>2. QED BY <1>1, <1>2, <1>3, <1>4, <2>1 DEF OfTypes, CreditsOf, DebitsOf
  <1>5. CASE ~(amount > 0)
    <2>1. e.debit.owner = user /\ e.credit.owner = SYSTEM
      BY <1>5 DEF Receipt, JournalEntry, FundingOf, OfSystem, Place
    <2>2. QED BY <1>1, <1>2, <1>3, <1>5, <2>1 DEF OfTypes, CreditsOf, DebitsOf
  <1>6. QED BY <1>4, <1>5

\* The money comes from outside, or from SYSTEM's pool.
Sourced(amount, part, type) ==
    \/ type = "Deposit" /\ part = 0 /\ amount > 0
    \/ type = "FundingPayment" /\ part = amount

\* A payment into or out of what a user has keeps the books.
LEMMA BooksKept ==
    ASSUME NEW U, IsFiniteSet(U), SYSTEM \notin U, NEW K, NEW l \in Ledgers(U, K),
           NEW m \in Ledgers(U, K), NEW user \in U, NEW amount \in Int, NEW part \in Int,
           NEW type \in JournalTypes, NEW key \in K,
           Receives(U, l, m, user, amount, part, type, key), Sourced(amount, part, type),
           Available(l, user) + amount >= 0, Books(U, l)
    PROVE  Books(U, m)
  <1> DEFINE at == FundingOf(user)
             e == Receipt(user, amount, type, key)
             j == l.journal
             k == m.journal
  <1>1. /\ DOMAIN m.accounts = DOMAIN l.accounts \cup {user}
        /\ \A p \in UserPlaces(U) : Balance(m, p) = Balance(l, p) + IF p = at THEN amount ELSE 0
        /\ m.system = [l.system EXCEPT !["Funding"] = @ - part]
        /\ k = IF amount = 0 THEN j ELSE Append(j, e)
    BY DEF Receives, Moved
  <1>2. \A u \in U : FundingOf(u) \in UserPlaces(U) /\ FundingOf(u).owner = u BY PlaceOfUser
  <1>3. \A p \in UserPlaces(U) : Balance(l, p) \in Int BY BalanceType
  <1>4. ASSUME NEW u \in U
        PROVE  /\ Available(l, u) \in Int
               /\ Available(m, u) = Available(l, u) + IF u = user THEN amount ELSE 0
    <2>1. Available(l, u) = Balance(l, FundingOf(u)) /\ Available(m, u) = Balance(m, FundingOf(u))
      BY DEF Available, FundingOf
    <2>2. FundingOf(u) = at <=> u = user BY <1>2
    <2> HIDE DEF at
    <2>3. QED BY <1>1, <1>2, <1>3, <2>1, <2>2
  <1>5. ASSUME NEW p \in Places(m) PROVE Balance(m, p) >= 0
    <2>1. p \in UserPlaces(U) BY PlacesFinite
    <2>2. CASE p = at
      <3>1. Balance(m, p) = Balance(l, at) + amount BY <1>1, <2>1, <2>2
      <3>2. Balance(l, at) = Available(l, user) BY DEF Available, FundingOf
      <3>3. QED BY <3>1, <3>2
    <2>3. CASE p # at
      <3>1. Balance(m, p) = Balance(l, p) BY <1>1, <1>3, <2>1, <2>3
      <3>2. Balance(l, p) >= 0
        <4>1. CASE p.owner \in DOMAIN l.accounts
          <5>1. p \in Places(l) BY <2>1, <4>1, PlacesFinite
          <5>2. QED BY <5>1 DEF Books, VerifyAllInvariants
        <4>2. CASE p.owner \notin DOMAIN l.accounts
          <5>1. Balance(l, p) = 0 BY <2>1, <4>2, BalanceType
          <5>2. QED BY <5>1
        <4>3. QED BY <4>1, <4>2
      <3>3. QED BY <3>1, <3>2
    <2>4. QED BY <2>2, <2>3
  <1>6. l.system \in [SystemWallets -> Int] /\ j \in Seq(Entries(U, K)) BY DEF Ledgers
  <1>7. \A w \in NonNegativeSystemWallets : m.system[w] >= 0
    <2>1. \A w \in NonNegativeSystemWallets : w # "Funding" /\ w \in SystemWallets
      BY DEF NonNegativeSystemWallets, SystemWallets
    <2>2. \A w \in NonNegativeSystemWallets : l.system[w] >= 0 BY DEF Books, VerifyAllInvariants
    <2>3. QED BY <1>1, <1>6, <2>1, <2>2
  <1> DEFINE Sum(E) == SumIn(j, E)
             New(E) == SumIn(k, E)
  <1>8. ASSUME NEW E PROVE Sum(E) \in Int
    <2>1. Receipt(user, 1, type, key) \in Entries(U, K)
      <3> DEFINE one == 1
      <3>1. one \in Int /\ one # 0 OBVIOUS
      <3> HIDE DEF one
      <3>2. Receipt(user, one, type, key) \in Entries(U, K) BY <3>1, ReceiptType
      <3>3. QED BY <3>2 DEF one
    <2>2. QED BY <1>6, <2>1, JournalSums
  <1>9. ASSUME amount # 0
        PROVE  /\ e.amount \in Int /\ e.amount = IF amount > 0 THEN amount ELSE -amount
               /\ \A t : e \in OfTypes(U, K, t) <=> t = type
               /\ \A u \in U : e \in CreditsOf(U, K, u) <=> (u = user /\ amount > 0)
               /\ \A u \in U : e \in DebitsOf(U, K, u) <=> (u = user /\ ~(amount > 0))
               /\ \A E : New(E) = Sum(E) + IF e \in E THEN e.amount ELSE 0
    <2>1. /\ e \in Entries(U, K) /\ e.amount \in Int
          /\ e.amount = IF amount > 0 THEN amount ELSE -amount
          /\ \A t : e \in OfTypes(U, K, t) <=> t = type
          /\ \A u \in U : e \in CreditsOf(U, K, u) <=> (u = user /\ amount > 0)
          /\ \A u \in U : e \in DebitsOf(U, K, u) <=> (u = user /\ ~(amount > 0))
      BY <1>9, ReceiptCounts
    <2>2. k = Append(j, e) BY <1>1, <1>9
    <2> HIDE DEF e, j, k
    <2>3. ASSUME NEW E PROVE New(E) = Sum(E) + IF e \in E THEN e.amount ELSE 0
      BY <1>6, <2>1, <2>2, JournalSums
    <2>4. QED BY <2>1, <2>3
  <1>10. NetExternal(m) = NetExternal(l) + IF type = "Deposit" THEN amount ELSE 0
    <2> DEFINE D == OfTypes(U, K, "Deposit")
               W == OfTypes(U, K, "Withdrawal")
    <2>1. NetExternal(l) = Sum(D) - Sum(W) /\ NetExternal(m) = New(D) - New(W)
      BY JournalInTerms
    <2>2. CASE amount = 0
      <3>1. k = j BY <1>1, <2>2
      <3>2. NetExternal(m) = NetExternal(l) BY <2>1, <3>1
      <3>3. Sum(D) \in Int /\ Sum(W) \in Int BY <1>8
      <3> HIDE DEF D, W, Sum, New, e, j, k
      <3>4. QED BY <2>1, <2>2, <3>2, <3>3
    <2>3. CASE amount # 0
      <3>1. e \in D <=> type = "Deposit" BY <1>9, <2>3
      <3>2. e \notin W
        <4>1. type # "Withdrawal" BY DEF Sourced
        <4>2. QED BY <1>9, <2>3, <4>1
      <3>3. /\ New(D) = Sum(D) + IF e \in D THEN e.amount ELSE 0
            /\ New(W) = Sum(W) + IF e \in W THEN e.amount ELSE 0
        BY <1>9, <2>3
      <3>4. Sum(D) \in Int /\ Sum(W) \in Int BY <1>8
      <3>5. type = "Deposit" => e.amount = amount BY <1>9, <2>3 DEF Sourced
      <3> HIDE DEF D, W, Sum, New, e, j, k
      <3>6. QED BY <2>1, <3>1, <3>2, <3>3, <3>4, <3>5
    <2>4. QED BY <2>2, <2>3
  <1>11. UsersTotal(m) + Total(m.system) = NetExternal(m)
    <2>1. UsersTotal(l) \in Int /\ UsersTotal(m) = UsersTotal(l) + amount
      <3>1. Moved(U, l, m, FundingOf(user), amount) BY DEF Receives
      <3>2. DOMAIN m.accounts = DOMAIN l.accounts \cup {FundingOf(user).owner}
        BY PlaceOfUser DEF Receives
      <3>3. QED BY <1>1, <3>1, <3>2, PlaceOfUser, UsersTotalGrows
    <2>2. Total(l.system) \in Int /\ Total(m.system) = Total(l.system) - part
      BY <1>1, <1>6, SystemTotalFalls
    <2>3. UsersTotal(l) + Total(l.system) = NetExternal(l) BY DEF Books, VerifyAllInvariants
    <2>4. CASE type = "Deposit"
      <3>1. part = 0 BY <2>4 DEF Sourced
      <3>2. NetExternal(m) = NetExternal(l) + amount BY <1>10, <2>4
      <3>3. QED BY <2>1, <2>2, <2>3, <3>1, <3>2
    <2>5. CASE type # "Deposit"
      <3>1. part = amount BY <2>5 DEF Sourced
      <3>2. NetExternal(m) = NetExternal(l) + 0 BY <1>10, <2>5
      <3>3. QED BY <2>1, <2>2, <2>3, <3>1, <3>2
    <2>6. QED BY <2>4, <2>5
  <1>12. ASSUME NEW u \in U PROVE Explained(m, u)
    <2> DEFINE C == CreditsOf(U, K, u)
               D == DebitsOf(U, K, u)
    <2>1. Available(l, u) = Sum(C) - Sum(D)
      <3>1. Explained(l, u) BY DEF Books
      <3>2. QED BY <3>1, JournalInTerms
    <2>2. Sum(C) \in Int /\ Sum(D) \in Int BY <1>8
    <2>3. Available(m, u) = New(C) - New(D)
      <3>1. CASE amount = 0
        <4>1. k = j BY <1>1, <3>1
        <4>2. New(C) = Sum(C) /\ New(D) = Sum(D) BY <4>1
        <4>3. Available(m, u) = Available(l, u) BY <1>4, <3>1
        <4>4. QED BY <2>1, <4>2, <4>3
      <3>2. CASE amount # 0
        <4>1. /\ New(C) = Sum(C) + IF e \in C THEN e.amount ELSE 0
              /\ New(D) = Sum(D) + IF e \in D THEN e.amount ELSE 0
          BY <1>9, <3>2
        <4>2. /\ e \in C <=> (u = user /\ amount > 0)
              /\ e \in D <=> (u = user /\ ~(amount > 0))
              /\ e.amount \in Int /\ e.amount = IF amount > 0 THEN amount ELSE -amount
          BY <1>9, <3>2
        <4>3. Available(m, u) = Available(l, u) + IF u = user THEN amount ELSE 0 BY <1>4
        <4> HIDE DEF C, D, Sum, New, e
        <4>4. QED BY <2>1, <2>2, <4>1, <4>2, <4>3
      <3>3. QED BY <3>1, <3>2
    <2>4. QED BY <2>3, JournalInTerms
  <1>13. QED BY <1>5, <1>7, <1>11, <1>12 DEF Books, VerifyAllInvariants

\* In a ledger whose books are right no funding balance is overdrawn.
LEMMA NothingOverdrawn ==
    ASSUME NEW U, IsFiniteSet(U), SYSTEM \notin U, NEW K, NEW l \in Ledgers(U, K), Books(U, l),
           NEW user \in U
    PROVE  Available(l, user) \in Nat
  <1> DEFINE at == FundingOf(user)
  <1>1. at \in UserPlaces(U) /\ Available(l, user) = Balance(l, at)
    BY PlaceOfUser DEF Available, FundingOf
  <1>2. Balance(l, at) \in Int /\ (at.owner \notin DOMAIN l.accounts => Balance(l, at) = 0)
    BY <1>1, BalanceType
  <1>3. at.owner \in DOMAIN l.accounts => at \in Places(l) BY <1>1, PlacesFinite
  <1>4. \A p \in Places(l) : Balance(l, p) >= 0 BY DEF Books, VerifyAllInvariants
  <1>5. QED BY <1>1, <1>2, <1>3, <1>4

\* Opening an account leaves the books right (get_or_create_account).
LEMMA OpeningKeepsBooks ==
    ASSUME NEW U, IsFiniteSet(U), SYSTEM \notin U, NEW K, NEW l \in Ledgers(U, K), Books(U, l),
           NEW user \in U, NEW m, m = GetOrCreateAccount(l, user)
    PROVE  m \in Ledgers(U, K) /\ Books(U, m)
  <1> DEFINE at == FundingOf(user)
  <1>1. /\ m \in Ledgers(U, K) /\ DOMAIN m.accounts = DOMAIN l.accounts \cup {user}
        /\ m.system = l.system /\ m.journal = l.journal /\ m.keys = l.keys
        /\ \A p \in UserPlaces(U) : Balance(m, p) = Balance(l, p)
    BY AccountOpened
  <1>2. \A p \in UserPlaces(U) : Balance(l, p) \in Int BY BalanceType
  <1>3. \A p \in Places(m) : Balance(m, p) >= 0
    <2> SUFFICES ASSUME NEW p \in Places(m) PROVE Balance(m, p) >= 0 OBVIOUS
    <2>1. p \in UserPlaces(U) BY <1>1, PlacesFinite
    <2>2. CASE p.owner \in DOMAIN l.accounts
      <3>1. p \in Places(l) BY <2>1, <2>2, PlacesFinite
      <3>2. Balance(l, p) >= 0 BY <3>1 DEF Books, VerifyAllInvariants
      <3>3. QED BY <1>1, <2>1, <3>2
    <2>3. CASE p.owner \notin DOMAIN l.accounts
      <3>1. Balance(l, p) = 0 BY <2>1, <2>3, BalanceType
      <3>2. QED BY <1>1, <2>1, <3>1
    <2>4. QED BY <2>2, <2>3
  <1>4. UsersTotal(l) \in Int /\ UsersTotal(m) = UsersTotal(l) + 0
    <2>1. Moved(U, l, m, at, 0) BY <1>1, <1>2 DEF Moved
    <2> DEFINE none == 0
    <2>2. none \in Int OBVIOUS
    <2> HIDE DEF none
    <2>3. Moved(U, l, m, at, none) BY <2>1 DEF none
    <2>4. at \in UserPlaces(U) /\ at.owner = user BY PlaceOfUser
    <2> HIDE DEF at
    <2>5. DOMAIN m.accounts = DOMAIN l.accounts \cup {at.owner} BY <1>1, <2>4
    <2>6. UsersTotal(l) \in Int /\ UsersTotal(m) = UsersTotal(l) + none
      BY <1>1, <2>2, <2>3, <2>4, <2>5, UsersTotalGrows
    <2>7. QED BY <2>6 DEF none
  <1>5. UsersTotal(m) = UsersTotal(l) BY <1>4
  <1>6. VerifyAllInvariants(m) BY <1>1, <1>3, <1>5 DEF Books, VerifyAllInvariants, NetExternal
  <1>7. ASSUME NEW u \in U PROVE Explained(m, u)
    <2>1. FundingOf(u) \in UserPlaces(U) BY PlaceOfUser
    <2>2. Available(m, u) = Available(l, u) BY <1>1, <2>1 DEF Available, FundingOf
    <2>3. QED BY <1>1, <2>2 DEF Books, Explained
  <1>8. QED BY <1>1, <1>6, <1>7 DEF Books

\* A deposit with a fresh key leaves the books right.
LEMMA DepositKeepsBooks ==
    ASSUME NEW U, IsFiniteSet(U), SYSTEM \notin U, NEW K, NEW l \in Ledgers(U, K), Books(U, l),
           NEW user \in U, NEW amount \in Nat \ {0}, NEW key \in K,
           NEW m, m = Deposit(GetOrCreateAccount(l, user), user, amount, key)
    PROVE  /\ m \in Ledgers(U, K) /\ Books(U, m)
           /\ m.keys = l.keys \cup {key}
  <1> DEFINE o == GetOrCreateAccount(l, user)
  <1>1. o \in Ledgers(U, K) /\ Books(U, o) BY OpeningKeepsBooks
  <1>2. o.keys = l.keys BY AccountOpened
  <1>3. CASE key \in l.keys
    <2>1. m = o BY <1>2, <1>3 DEF Deposit, Used
    <2>2. QED BY <1>1, <1>2, <1>3, <2>1
  <1>4. CASE key \notin l.keys
    <2>1. m \in Ledgers(U, K) /\ Receives(U, l, m, user, amount, 0, "Deposit", key)
      BY <1>4, DepositEffect
    <2>2. Available(l, user) + amount >= 0
      <3>1. Available(l, user) \in Nat BY NothingOverdrawn
      <3>2. QED BY <3>1
    <2>3. Sourced(amount, 0, "Deposit") /\ "Deposit" \in JournalTypes /\ amount \in Int /\ 0 \in Int
      BY DEF Sourced, JournalTypes
    <2>4. Books(U, m) BY <2>1, <2>2, <2>3, BooksKept
    <2>5. QED BY <2>1, <2>4 DEF Receives
  <1>5. QED BY <1>3, <1>4

\* A capped settlement leaves the books right (settle_capped).
LEMMA SettlingKeepsBooks ==
    ASSUME NEW U, IsFiniteSet(U), SYSTEM \notin U, NEW K, NEW l \in Ledgers(U, K), Books(U, l),
           NEW user \in U, NEW signed \in Int, NEW key \in K,
           NEW s, s = SettleCapped(GetOrCreateAccount(l, user), user, signed, key)
    PROVE  /\ s.ledger \in Ledgers(U, K) /\ Books(U, s.ledger) /\ s.moved \in Int
           /\ s.ledger.keys \in SUBSET (l.keys \cup {key})
  <1> DEFINE o == GetOrCreateAccount(l, user)
             m == s.ledger
  <1>1. o \in Ledgers(U, K) /\ Books(U, o) BY OpeningKeepsBooks
  <1>2. o.keys = l.keys BY AccountOpened
  <1>3. CASE signed = 0 \/ key \in l.keys
    <2>1. s = [ledger |-> o, moved |-> 0] BY <1>2, <1>3 DEF SettleCapped, Used
    <2>2. m = o /\ s.moved = 0 BY <2>1
    <2>3. QED BY <1>1, <1>2, <2>2
  <1>4. CASE signed # 0 /\ key \notin l.keys
    <2>1. /\ m \in Ledgers(U, K) /\ s.moved \in Int
          /\ s.moved = IF signed > 0 THEN signed
                       ELSE -(IF -signed <= Available(l, user) THEN -signed
                              ELSE Available(l, user))
          /\ Receives(U, l, m, user, s.moved, s.moved, "FundingPayment", key)
      BY <1>4, SettleEffect
    <2>2. Available(l, user) + s.moved >= 0
      <3>1. Available(l, user) \in Nat BY NothingOverdrawn
      <3>2. QED BY <2>1, <3>1
    <2>3. Sourced(s.moved, s.moved, "FundingPayment") /\ "FundingPayment" \in JournalTypes
      BY DEF Sourced, JournalTypes
    <2> HIDE DEF m
    <2>4. Books(U, m) BY <2>1, <2>2, <2>3, BooksKept
    <2>5. m.keys = l.keys \cup {key} BY <2>1 DEF Receives
    <2>6. QED BY <2>1, <2>4, <2>5 DEF m
  <1>5. QED BY <1>3, <1>4

\* The books of a new ledger are right.
LEMMA NewLedgerBalances ==
    ASSUME NEW U, SYSTEM \notin U, NEW K
    PROVE  NewLedger \in Ledgers(U, K) /\ Books(U, NewLedger)
  <1> DEFINE l == NewLedger
             y == l.system
  <1>1. /\ l.accounts = << >> /\ l.journal = << >> /\ l.keys = {}
        /\ y = [w \in SystemWallets |-> 0]
    BY DEF NewLedger
  <1>2. l \in Ledgers(U, K)
    <2>1. DOMAIN << >> = {} OBVIOUS
    <2>2. << >> \in [{} -> [UserWallets -> [Fields -> Int]]] BY <2>1
    <2>3. << >> \in Accounts(U)
      <3> DEFINE a == << >>
                 S == {}
      <3>1. S \in SUBSET U /\ a \in [S -> [UserWallets -> [Fields -> Int]]] BY <2>2
      <3> HIDE DEF a, S
      <3>2. a \in Accounts(U) BY <3>1, AccountsBy
      <3>3. QED BY <3>2 DEF a
    <2>4. << >> \in Seq(Entries(U, K)) OBVIOUS
    <2>5. QED BY <2>3, <2>4 DEF NewLedger, Ledgers
  <1>3. DOMAIN l.accounts = {} /\ DOMAIN l.journal = {} BY <1>1
  <1>4. Places(l) = {} BY <1>3 DEF Places
  <1>5. UsersTotal(l) = 0
    <2>1. DOMAIN [p \in Places(l) |-> Balance(l, p)] = {} BY <1>4
    <2>2. QED BY <2>1, SumEmpty DEF UsersTotal, Total
  <1>6. Total(y) = 0
    <2>1. IsFiniteSet(SystemWallets)
      <3>1. \A w : IsFiniteSet({w}) BY FS_Singleton
      <3>2. SystemWallets = (({"InsuranceFund"} \cup {"FeeCollection"}) \cup {"Escrow"})
                              \cup {"Funding"}
        BY DEF SystemWallets, NonNegativeSystemWallets
      <3>3. IsFiniteSet({"InsuranceFund"} \cup {"FeeCollection"}) BY <3>1, FS_Union
      <3>4. IsFiniteSet(({"InsuranceFund"} \cup {"FeeCollection"}) \cup {"Escrow"})
        BY <3>1, <3>3, FS_Union
      <3>5. QED BY <3>1, <3>2, <3>4, FS_Union
    <2>2. {} \cup SystemWallets = SystemWallets OBVIOUS
    <2>3. \A w \in SystemWallets : y[w] = 0 BY <1>1
    <2>4. IsFiniteSet({}) /\ IsIntOn(y, {}) BY FS_EmptySet DEF IsIntOn
    <2> HIDE DEF y
    <2>5. SumFunctionOnSet(y, {} \cup SystemWallets) = SumFunctionOnSet(y, {})
      BY <2>1, <2>3, <2>4, SumWithZeros
    <2>6. SumFunctionOnSet(y, SystemWallets) = 0 BY <2>2, <2>5, SumEmpty
    <2>7. DOMAIN y = SystemWallets BY <1>1 DEF y
    <2>8. QED BY <2>6, <2>7 DEF Total
  <1>7. \A f : SumFunctionOnSet(f, {}) = 0 BY SumEmpty
  <1>8. NetExternal(l) = 0
    <2>1. OfType(l.journal, "Deposit") = {} /\ OfType(l.journal, "Withdrawal") = {}
      BY <1>3 DEF OfType
    <2>2. QED BY <1>7, <2>1 DEF NetExternal
  <1>9. \A w \in NonNegativeSystemWallets : y[w] >= 0 BY <1>1 DEF SystemWallets
  <1>10. ASSUME NEW u \in U PROVE Explained(l, u)
    <2>1. FundingOf(u) \in UserPlaces(U) /\ FundingOf(u).owner = u BY PlaceOfUser
    <2>2. Available(l, u) = 0
      <3>1. Balance(l, FundingOf(u)) = 0 BY <1>2, <1>3, <2>1, BalanceType
      <3>2. QED BY <3>1 DEF Available, FundingOf
    <2>3. /\ {i \in DOMAIN l.journal : l.journal[i].credit.owner = u} = {}
          /\ {i \in DOMAIN l.journal : l.journal[i].debit.owner = u} = {}
      BY <1>3
    <2>4. QED BY <1>7, <2>2, <2>3 DEF Explained
  <1>11. QED BY <1>2, <1>4, <1>5, <1>6, <1>8, <1>9, <1>10 DEF Books, VerifyAllInvariants

-----------------------------------------------------------------------------
(* Two ledgers, one of which repeats what moved money in the other.        *)

\* k shows what l shows, and may have used fewer keys.
Agrees(U, k, l) ==
    /\ k.journal = l.journal /\ k.system = l.system
    /\ \A u \in U : Available(k, u) = Available(l, u)
    /\ k.keys \subseteq l.keys

\* An account opened with nothing in it (get_or_create_account) agrees with none.
LEMMA OpeningAgrees ==
    ASSUME NEW U, SYSTEM \notin U, NEW K, NEW k, NEW l \in Ledgers(U, K), Agrees(U, k, l),
           NEW user \in U, NEW m, m = GetOrCreateAccount(l, user)
    PROVE  Agrees(U, k, m)
  <1>1. /\ m.system = l.system /\ m.journal = l.journal /\ m.keys = l.keys
        /\ \A p \in UserPlaces(U) : Balance(m, p) = Balance(l, p)
    BY AccountOpened
  <1>2. ASSUME NEW u \in U PROVE Available(m, u) = Available(l, u)
    <2>1. FundingOf(u) \in UserPlaces(U) BY PlaceOfUser
    <2>2. QED BY <1>1, <2>1 DEF Available, FundingOf
  <1>3. QED BY <1>1, <1>2 DEF Agrees

\* The same receipt on both sides keeps two ledgers in agreement.
LEMMA ReceivingAgrees ==
    ASSUME NEW U, SYSTEM \notin U, NEW K, NEW k \in Ledgers(U, K), NEW l \in Ledgers(U, K),
           Agrees(U, k, l), NEW user \in U, NEW amount, NEW part, NEW type, NEW key,
           NEW n, Receives(U, k, n, user, amount, part, type, key),
           NEW m, Receives(U, l, m, user, amount, part, type, key)
    PROVE  Agrees(U, n, m)
  <1>1. ASSUME NEW u \in U PROVE Available(n, u) = Available(m, u)
    <2>1. FundingOf(u) \in UserPlaces(U) BY PlaceOfUser
    <2>2. Balance(k, FundingOf(u)) = Balance(l, FundingOf(u)) BY DEF Agrees, Available, FundingOf
    <2>3. Balance(n, FundingOf(u)) = Balance(m, FundingOf(u))
      BY <2>1, <2>2 DEF Receives, Moved
    <2>4. QED BY <2>3 DEF Available, FundingOf
  <1>2. n.system = m.system /\ n.journal = m.journal /\ n.keys \subseteq m.keys
    BY DEF Agrees, Receives
  <1>3. QED BY <1>1, <1>2 DEF Agrees

\* The same deposit on both sides keeps two ledgers in agreement.
LEMMA DepositedAgain ==
    ASSUME NEW U, SYSTEM \notin U, NEW K, NEW k \in Ledgers(U, K), NEW l \in Ledgers(U, K),
           Agrees(U, k, l), NEW user \in U, NEW amount \in Nat \ {0},
           NEW key \in K, key \notin l.keys
    PROVE  Agrees(U, Deposit(GetOrCreateAccount(k, user), user, amount, key),
                     Deposit(GetOrCreateAccount(l, user), user, amount, key))
  <1> DEFINE n == Deposit(GetOrCreateAccount(k, user), user, amount, key)
             m == Deposit(GetOrCreateAccount(l, user), user, amount, key)
  <1>1. key \notin k.keys BY DEF Agrees
  <1>2. Receives(U, k, n, user, amount, 0, "Deposit", key) BY <1>1, DepositEffect
  <1>3. Receives(U, l, m, user, amount, 0, "Deposit", key) BY DepositEffect
  <1> HIDE DEF n, m
  <1>4. Agrees(U, n, m) BY <1>2, <1>3, ReceivingAgrees
  <1>5. QED BY <1>4 DEF n, m

\* What was moved can be moved again where the same money is; when nothing
\* was moved there is nothing to repeat.
LEMMA SettledAgain ==
    ASSUME NEW U, IsFiniteSet(U), SYSTEM \notin U, NEW K, NEW k \in Ledgers(U, K),
           NEW l \in Ledgers(U, K), Agrees(U, k, l), Books(U, l), NEW user \in U,
           NEW signed \in Int, NEW key \in K,
           NEW s, s = SettleCapped(GetOrCreateAccount(l, user), user, signed, key),
           NEW t, t = SettleCapped(GetOrCreateAccount(k, user), user, s.moved, key)
    PROVE  /\ s.moved = 0 => Agrees(U, k, s.ledger)
           /\ s.moved # 0 => Agrees(U, t.ledger, s.ledger)
  <1> DEFINE o == GetOrCreateAccount(l, user)
             had == Available(l, user)
             moved == s.moved
             m == s.ledger
             n == t.ledger
  <1>1. o.keys = l.keys /\ Agrees(U, k, o) BY AccountOpened, OpeningAgrees
  <1>2. CASE signed = 0 \/ key \in l.keys
    <2>1. s = [ledger |-> o, moved |-> 0] BY <1>1, <1>2 DEF SettleCapped, Used
    <2>2. s.moved = 0 /\ s.ledger = o BY <2>1
    <2>3. QED BY <1>1, <2>2
  <1>3. CASE signed # 0 /\ key \notin l.keys
    <2>1. /\ moved \in Int
          /\ moved = IF signed > 0 THEN signed ELSE -(IF -signed <= had THEN -signed ELSE had)
          /\ Receives(U, l, m, user, moved, moved, "FundingPayment", key)
      BY <1>3, SettleEffect
    <2>2. had \in Nat BY NothingOverdrawn
    <2> HIDE DEF m, n, moved, had
    <2>3. CASE moved = 0
      <3>1. ASSUME NEW u \in U PROVE Available(m, u) = Available(l, u)
        <4>1. FundingOf(u) \in UserPlaces(U) BY PlaceOfUser
        <4>2. Balance(l, FundingOf(u)) \in Int BY <4>1, BalanceType
        <4>3. Balance(m, FundingOf(u)) = Balance(l, FundingOf(u))
          BY <2>1, <2>3, <4>1, <4>2 DEF Receives, Moved
        <4>4. QED BY <4>3 DEF Available, FundingOf
      <3>2. m.journal = l.journal /\ l.keys \subseteq m.keys BY <2>1, <2>3 DEF Receives
      <3>3. m.system = l.system
        <4>1. l.system \in [SystemWallets -> Int] BY DEF Ledgers
        <4>2. l.system["Funding"] - 0 = l.system["Funding"]
          <5>1. "Funding" \in SystemWallets BY DEF SystemWallets
          <5>2. QED BY <4>1, <5>1
        <4>3. m.system = [l.system EXCEPT !["Funding"] = @ - 0] BY <2>1, <2>3 DEF Receives
        <4>4. QED BY <4>1, <4>2, <4>3
      <3>4. Agrees(U, k, m) BY <3>1, <3>2, <3>3 DEF Agrees
      <3>5. QED BY <2>3, <3>4 DEF m, moved
    <2>4. CASE moved # 0
      <3>1. key \notin k.keys /\ Available(k, user) = had BY <1>3 DEF Agrees, had
      <3>2. /\ t.moved = IF moved > 0 THEN moved
                        ELSE -(IF -moved <= Available(k, user) THEN -moved ELSE Available(k, user))
            /\ Receives(U, k, n, user, t.moved, t.moved, "FundingPayment", key)
        <4>1. t = SettleCapped(GetOrCreateAccount(k, user), user, moved, key) BY DEF moved
        <4>2. QED BY <2>1, <2>4, <3>1, <4>1, SettleEffect DEF n
      <3>3. t.moved = moved
        <4>1. t.moved = IF moved > 0 THEN moved ELSE -(IF -moved <= had THEN -moved ELSE had)
          BY <3>1, <3>2
        <4>2. moved > 0 \/ -moved <= had BY <2>1, <2>2
        <4>3. QED BY <2>1, <4>1, <4>2
      <3>4. Agrees(U, n, m) BY <2>1, <3>2, <3>3, ReceivingAgrees
      <3>5. QED BY <2>4, <3>4 DEF m, n, moved
    <2>5. QED BY <2>3, <2>4
  <1>4. QED BY <1>2, <1>3

-----------------------------------------------------------------------------
(* What states look like.  n is the number of commands processed so far.   *)

Sides == {"Buy", "Sell"}
Keys == {"credit", "pnl", "funding"} \X Nat \X Users
Position == [side : Sides, size : Positive, entry : Int]
Positions == UNION {[S -> Position] : S \in SUBSET Users}

\* A key is used after its number has been given out.
GivenOut(k, n, seq, period) ==
    /\ k[1] = "credit" => k[2] < n
    /\ k[1] = "pnl" => k[2] <= seq
    /\ k[1] = "funding" => k[2] <= period

AnyProcessor ==
    [positions : Positions, ledger : Ledgers(Users, Keys), mark : Nat, period : Nat, seq : Nat]
Processors(n) ==
    {p \in AnyProcessor : /\ Books(Users, p.ledger)
                          /\ \A k \in p.ledger.keys : GivenOut(k, n, p.seq, p.period)}

Fills == [kind : {"OrderFilled"}, user : Users, side : Sides, qty : Positive, price : Positive]
Facts ==
    [kind : {"RealizedPnl"}, user : Users, amount : Int]
        \cup [kind : {"FundingSettled"}, user : Users, period : Nat, amount : Int]
Events(n) ==
    Fills \cup Facts
        \cup [kind : {"MarkPriceUpdate"}, price : Positive]
        \cup [kind : {"FundingRateUpdate"}, rate : Int]
        \cup [kind : {"AdminCredited"}, user : Users, amount : Positive,
              key : {k \in Keys : k[1] = "credit" /\ k[2] < n}]

\* The assumptions on the parameters, as the proofs use them.
LEMMA Parameters ==
    /\ IsFiniteSet(Users) /\ SYSTEM \notin Users
    /\ MarkPrices \subseteq Positive /\ Rates \subseteq Int
    /\ \A c \in Credits : c.user \in Users /\ c.amount \in Positive
    /\ \A s \in Sweeps :
          /\ s.user \in Users /\ s.side \in Sides
          /\ s.legs \in Seq([maker : Users, qty : Positive, price : Positive])
  BY PostTradeAssumption DEF Sides

-----------------------------------------------------------------------------
(* Positions.                                                              *)

\* What a table of positions holds.
LEMMA PositionsAre ==
    ASSUME NEW a \in Positions
    PROVE  /\ DOMAIN a \in SUBSET Users
           /\ \A u \in DOMAIN a : a[u] \in Position
           /\ a \in [DOMAIN a -> Position]
  BY DEF Positions

\* What makes a table of positions.
LEMMA PositionsBy ==
    ASSUME NEW S \in SUBSET Users, NEW a \in [S -> Position]
    PROVE  a \in Positions
  BY DEF Positions

\* A fill that opens or increases a position adds to it.
LEMMA Increased ==
    ASSUME NEW a \in Positions, NEW user \in Users, NEW side \in Sides, NEW qty \in Positive,
           NEW price \in Positive, user \in DOMAIN a => a[user].side = side,
           NEW b, b = OpenOrIncrease(a, user, side, qty, price)
    PROVE  /\ b \in Positions
           /\ \A u \in Users : Exposure(b, u) = Exposure(a, u)
                                 + IF u = user THEN Signed(side, qty) ELSE 0
  <1> DEFINE old == IF user \in DOMAIN a THEN a[user] ELSE [size |-> 0, entry |-> 0]
             size == old.size + qty
             entry == (old.size * old.entry + qty * price) \div size
             new == [side |-> side, size |-> size, entry |-> entry]
  <1>1. /\ DOMAIN a \in SUBSET Users /\ \A u \in DOMAIN a : a[u] \in Position
    BY PositionsAre
  <1>2. old.size \in Nat /\ old.entry \in Int BY <1>1 DEF Position, Positive
  <1>3. size \in Nat \ {0} BY <1>2 DEF Positive
  <1>4. entry \in Int
    <2> DEFINE sum == old.size * old.entry + qty * price
    <2>1. sum \in Int BY <1>2 DEF Positive
    <2> HIDE DEF sum, size
    <2>2. sum \div size \in Int BY <1>3, <2>1
    <2>3. QED BY <2>2 DEF sum
  <1> HIDE DEF entry
  <1>5. new \in Position BY <1>3, <1>4 DEF Position, Positive
  <1>6. b = With(a, user, new) BY DEF OpenOrIncrease, entry
  <1> HIDE DEF new
  <1>7. /\ DOMAIN b = DOMAIN a \cup {user} /\ b[user] = new
        /\ \A u \in DOMAIN a : u # user => b[u] = a[u]
        /\ b \in [DOMAIN a \cup {user} -> Position]
    BY <1>1, <1>5, <1>6 DEF With
  <1>8. b \in Positions
    <2>1. DOMAIN a \cup {user} \in SUBSET Users BY <1>1
    <2>2. QED BY <1>7, <2>1, PositionsBy
  <1>9. ASSUME NEW u \in Users
        PROVE  Exposure(b, u) = Exposure(a, u) + IF u = user THEN Signed(side, qty) ELSE 0
    <2>1. CASE u # user
      <3>1. Exposure(b, u) = Exposure(a, u) BY <1>7, <2>1 DEF Exposure
      <3>2. Exposure(a, u) \in Int BY <1>1 DEF Exposure, Signed, Position, Positive
      <3>3. QED BY <2>1, <3>1, <3>2
    <2>2. CASE u = user
      <3>1. new.side = side /\ new.size = old.size + qty BY DEF new
      <3>2. Exposure(b, u) = Signed(side, old.size + qty) BY <1>7, <2>2, <3>1 DEF Exposure
      <3>3. CASE u \in DOMAIN a
        <4>1. Exposure(a, u) = Signed(side, old.size) BY <2>2, <3>3 DEF Exposure
        <4>2. QED BY <1>2, <2>2, <3>2, <4>1 DEF Signed, Positive
      <3>4. CASE u \notin DOMAIN a
        <4>1. Exposure(a, u) = 0 /\ old.size = 0 BY <2>2, <3>4 DEF Exposure
        <4>2. QED BY <1>2, <2>2, <3>2, <4>1 DEF Signed, Positive
      <3>5. QED BY <3>3, <3>4
    <2>3. QED BY <2>1, <2>2
  <1>10. QED BY <1>8, <1>9

\* One that reduces or closes it takes from it.
LEMMA Reduced ==
    ASSUME NEW a \in Positions, NEW user \in DOMAIN a, NEW qty \in Positive,
           qty <= a[user].size, NEW b, b = ReduceOrClose(a, user, qty)
    PROVE  /\ b \in Positions
           /\ qty = a[user].size => user \notin DOMAIN b
           /\ \A u \in Users : Exposure(b, u) = Exposure(a, u)
                                 - IF u = user THEN Signed(a[user].side, qty) ELSE 0
  <1>1. /\ DOMAIN a \in SUBSET Users /\ \A u \in DOMAIN a : a[u] \in Position
        /\ a \in [DOMAIN a -> Position]
    BY PositionsAre
  <1>2. /\ a[user].size \in Positive /\ a[user].side \in Sides /\ a[user].entry \in Int
        /\ a[user] = [side |-> a[user].side, size |-> a[user].size, entry |-> a[user].entry]
    BY <1>1 DEF Position
  <1>3. ASSUME NEW u \in Users PROVE Exposure(a, u) \in Int
    BY <1>1 DEF Exposure, Signed, Position, Positive
  <1>4. CASE qty = a[user].size
    <2> DEFINE S == DOMAIN a \ {user}
    <2>1. b = [u \in S |-> a[u]] BY <1>4 DEF ReduceOrClose, Restrict
    <2>2. b \in [S -> Position] /\ S \in SUBSET Users BY <1>1, <2>1
    <2>3. b \in Positions BY <2>2, PositionsBy
    <2>4. ASSUME NEW u \in Users
          PROVE  Exposure(b, u) = Exposure(a, u) - IF u = user THEN Signed(a[user].side, qty) ELSE 0
      <3>1. CASE u # user
        <4>1. Exposure(b, u) = Exposure(a, u) BY <2>1, <3>1 DEF Exposure
        <4>2. QED BY <1>3, <3>1, <4>1
      <3>2. CASE u = user
        <4>1. Exposure(b, u) = 0 BY <2>1, <3>2 DEF Exposure
        <4>2. Exposure(a, u) = Signed(a[user].side, qty) BY <1>4, <3>2 DEF Exposure
        <4>3. QED BY <1>3, <3>2, <4>1, <4>2
      <3>3. QED BY <3>1, <3>2
    <2>5. user \notin DOMAIN b BY <2>1
    <2>6. QED BY <2>3, <2>4, <2>5
  <1>5. CASE qty # a[user].size
    <2> DEFINE new == [a[user] EXCEPT !.size = @ - qty]
    <2>1. b = [a EXCEPT ![user] = new] BY <1>5 DEF ReduceOrClose
    <2>2. a[user].size - qty \in Positive BY <1>2, <1>5 DEF Positive
    <2>3. new \in Position /\ new.size = a[user].size - qty /\ new.side = a[user].side
      BY <1>2, <2>2 DEF Position
    <2> HIDE DEF new
    <2>4. /\ DOMAIN b = DOMAIN a /\ b[user] = new /\ \A u \in DOMAIN a : u # user => b[u] = a[u]
          /\ b \in [DOMAIN a -> Position]
      BY <1>1, <2>1, <2>3
    <2>5. b \in Positions BY <1>1, <2>4, PositionsBy
    <2>6. ASSUME NEW u \in Users
          PROVE  Exposure(b, u) = Exposure(a, u) - IF u = user THEN Signed(a[user].side, qty) ELSE 0
      <3>1. CASE u # user
        <4>1. Exposure(b, u) = Exposure(a, u) BY <2>4, <3>1 DEF Exposure
        <4>2. QED BY <1>3, <3>1, <4>1
      <3>2. CASE u = user
        <4>1. Exposure(b, u) = Signed(a[user].side, a[user].size - qty)
          BY <2>3, <2>4, <3>2 DEF Exposure
        <4>2. Exposure(a, u) = Signed(a[user].side, a[user].size) BY <3>2 DEF Exposure
        <4>3. QED BY <1>2, <3>2, <4>1, <4>2 DEF Signed, Positive
      <3>3. QED BY <3>1, <3>2
    <2>7. QED BY <1>5, <2>5, <2>6
  <1>6. QED BY <1>4, <1>5

\* A fill moves its user's exposure by its signed quantity, a flip included.
LEMMA FillApplied ==
    ASSUME NEW a \in Positions, NEW f \in Fills, NEW x, x = ApplyFillToPosition(a, f)
    PROVE  /\ x.positions \in Positions
           /\ x.pnl \in Int
           /\ \A u \in Users : Exposure(x.positions, u)
                                 = Exposure(a, u) + IF u = f.user THEN Signed(f.side, f.qty) ELSE 0
  <1> DEFINE old == a[f.user]
             reduced == ReduceQty(f.qty, old.size)
             left == f.qty - reduced
             b == ReduceOrClose(a, f.user, reduced)
             c == Flip(b, f.user, f.side, left, f.price)
  <1>1. /\ f.user \in Users /\ f.side \in Sides /\ f.qty \in Positive /\ f.price \in Positive
    BY DEF Fills
  <1>2. \A u \in DOMAIN a : a[u] \in Position BY PositionsAre
  <1>3. CASE f.user \notin DOMAIN a \/ old.side = f.side
    <2>1. /\ x.positions = OpenOrIncrease(a, f.user, f.side, f.qty, f.price)
          /\ x.pnl = 0
      BY <1>3 DEF ApplyFillToPosition
    <2>2. f.user \in DOMAIN a => a[f.user].side = f.side BY <1>3
    <2>3. QED BY <1>1, <2>1, <2>2, Increased
  <1>4. CASE ~(f.user \notin DOMAIN a \/ old.side = f.side)
    <2>1. x.positions = c /\ x.pnl = PnlOf(old, reduced, f.price)
      BY <1>4 DEF ApplyFillToPosition
    <2>2. /\ f.user \in DOMAIN a /\ old \in Position /\ old.side # f.side
          /\ old.size \in Positive /\ old.entry \in Int /\ old.side \in Sides
      BY <1>2, <1>4 DEF Position
    <2>3. reduced = IF f.qty <= old.size THEN f.qty ELSE old.size
      BY <1>1, <2>2, MinOfTwo DEF ReduceQty, Positive
    <2>4. reduced \in Positive /\ reduced <= old.size /\ left \in Nat
          /\ (left > 0 => reduced = old.size)
      BY <1>1, <2>2, <2>3 DEF Positive
    <2> HIDE DEF reduced
    <2>5. x.pnl \in Int BY <1>1, <2>1, <2>2, <2>4 DEF PnlOf, Positive
    <2>6. /\ b \in Positions
          /\ reduced = old.size => f.user \notin DOMAIN b
          /\ \A u \in Users : Exposure(b, u) = Exposure(a, u)
                                - IF u = f.user THEN Signed(old.side, reduced) ELSE 0
      BY <2>2, <2>4, Reduced
    <2>7. ASSUME NEW u \in Users PROVE Exposure(a, u) \in Int
      BY <1>2 DEF Exposure, Signed, Position, Positive
    <2> HIDE DEF b, old
    <2>8. \A q : Signed(old.side, q) = IF f.side = "Buy" THEN -q ELSE q
      BY <1>1, <2>2 DEF Signed, Sides
    <2>9. CASE left > 0
      <3>1. c = OpenOrIncrease(b, f.user, f.side, left, f.price) BY <2>9 DEF Flip
      <3>2. f.user \notin DOMAIN b /\ left \in Positive BY <2>4, <2>6, <2>9 DEF Positive
      <3> HIDE DEF c, left
      <3>3. /\ c \in Positions
            /\ \A u \in Users : Exposure(c, u) = Exposure(b, u)
                                  + IF u = f.user THEN Signed(f.side, left) ELSE 0
        BY <1>1, <2>6, <3>1, <3>2, Increased
      <3>4. ASSUME NEW u \in Users
            PROVE  Exposure(c, u) = Exposure(a, u) + IF u = f.user THEN Signed(f.side, f.qty) ELSE 0
        <4>1. Exposure(c, u) = Exposure(b, u) + IF u = f.user THEN Signed(f.side, left) ELSE 0
          BY <3>3
        <4>2. Exposure(b, u) = Exposure(a, u)
                - IF u = f.user THEN Signed(old.side, reduced) ELSE 0
          BY <2>6
        <4>3. left = f.qty - reduced BY DEF left
        <4>4. QED BY <1>1, <2>4, <2>7, <2>8, <4>1, <4>2, <4>3 DEF Signed, Positive
      <3>5. QED BY <2>1, <2>5, <3>3, <3>4 DEF c
    <2>10. CASE ~(left > 0)
      <3>1. c = b BY <2>10 DEF Flip
      <3>2. reduced = f.qty BY <1>1, <2>4, <2>10 DEF Positive
      <3>3. ASSUME NEW u \in Users
            PROVE  Exposure(c, u) = Exposure(a, u) + IF u = f.user THEN Signed(f.side, f.qty) ELSE 0
        <4>1. Exposure(c, u) = Exposure(a, u)
                - IF u = f.user THEN Signed(old.side, f.qty) ELSE 0
          BY <2>6, <3>1, <3>2
        <4>2. Signed(old.side, f.qty) = IF f.side = "Buy" THEN -f.qty ELSE f.qty BY <2>8
        <4> HIDE DEF c
        <4>3. QED BY <1>1, <2>7, <4>1, <4>2 DEF Signed, Positive
      <3>4. QED BY <2>1, <2>5, <2>6, <3>1, <3>3
    <2>11. QED BY <2>9, <2>10
  <1>5. QED BY <1>3, <1>4

-----------------------------------------------------------------------------
(* One step, live and in a replay.                                         *)

R == INSTANCE CollectionLaws WITH op <- ApplyEvent

\* Replaying the events is folding them.
LEMMA ReplayedIsFold == ASSUME NEW s PROVE Replayed(s) = R!Fold(NewProcessor, s)
  BY DEF Replayed, R!Fold, FoldLeft, MapThenFoldSet, Max, R!FoldLeft, R!MapThenFoldSet, R!Max

\* The parts of a processor.
LEMMA ProcessorIs ==
    ASSUME NEW n, NEW p \in Processors(n)
    PROVE  /\ p.positions \in Positions /\ p.ledger \in Ledgers(Users, Keys) /\ p.mark \in Nat
           /\ p.period \in Nat /\ p.seq \in Nat /\ p \in AnyProcessor
           /\ p.ledger.keys \in SUBSET Keys
           /\ Books(Users, p.ledger)
           /\ \A k \in p.ledger.keys : GivenOut(k, n, p.seq, p.period)
  <1>1. p \in AnyProcessor BY DEF Processors
  <1>2. /\ p.positions \in Positions /\ p.ledger \in Ledgers(Users, Keys) /\ p.mark \in Nat
        /\ p.period \in Nat /\ p.seq \in Nat
    BY <1>1 DEF AnyProcessor
  <1>3. p.ledger.keys \in SUBSET Keys BY <1>2 DEF Ledgers
  <1>4. QED BY <1>1, <1>2, <1>3 DEF Processors

\* A ledger that has used one key more takes the place of the old one.
Fits(n, p, l, key, seq, period) ==
    /\ l \in Ledgers(Users, Keys) /\ Books(Users, l)
    /\ key \in Keys /\ l.keys \in SUBSET (p.ledger.keys \cup {key})
    /\ seq \in Nat /\ period \in Nat /\ seq >= p.seq /\ period >= p.period
    /\ GivenOut(key, n, seq, period)

Replaced(p, l, seq, period) == [p EXCEPT !.ledger = l, !.seq = seq, !.period = period]

\* A processor whose ledger, sequence and period moved on is a processor.
LEMMA LedgerReplaced ==
    ASSUME NEW n \in Nat, NEW p \in Processors(n), NEW l, NEW key, NEW seq, NEW period,
           Fits(n, p, l, key, seq, period), NEW q, q = Replaced(p, l, seq, period)
    PROVE  /\ q \in Processors(n)
           /\ q.positions = p.positions /\ q.ledger = l /\ q.mark = p.mark
           /\ q.period = period /\ q.seq = seq
  <1> USE DEF Fits
  <1>1. /\ p \in AnyProcessor /\ p.period \in Nat /\ p.seq \in Nat
        /\ p.ledger.keys \in SUBSET Keys
        /\ \A k \in p.ledger.keys : GivenOut(k, n, p.seq, p.period)
    BY ProcessorIs
  <1>2. /\ q \in AnyProcessor
        /\ q.positions = p.positions /\ q.ledger = l /\ q.mark = p.mark
        /\ q.period = period /\ q.seq = seq
    BY <1>1 DEF AnyProcessor, Replaced
  <1>3. ASSUME NEW k \in l.keys PROVE GivenOut(k, n, seq, period)
    <2>1. CASE k = key BY <2>1
    <2>2. CASE k \in p.ledger.keys
      <3>1. GivenOut(k, n, p.seq, p.period) /\ k \in Keys BY <1>1, <2>2
      <3>2. k[2] \in Nat BY <3>1 DEF Keys
      <3>3. QED BY <1>1, <3>1, <3>2 DEF GivenOut
    <2>3. QED BY <2>1, <2>2
  <1>4. QED BY <1>2, <1>3 DEF Processors

\* One replayed event leaves a processor (apply_event).
LEMMA ReplayStep ==
    ASSUME NEW n \in Nat, NEW p \in Processors(n), NEW e \in Events(n)
    PROVE  ApplyEvent(p, e) \in Processors(n)
  <1> DEFINE q == ApplyEvent(p, e)
  <1>1. /\ p.positions \in Positions /\ p.ledger \in Ledgers(Users, Keys) /\ p.mark \in Nat
        /\ p.period \in Nat /\ p.seq \in Nat /\ p \in AnyProcessor
        /\ Books(Users, p.ledger)
        /\ \A k \in p.ledger.keys : GivenOut(k, n, p.seq, p.period)
    BY ProcessorIs
  <1>2. IsFiniteSet(Users) /\ SYSTEM \notin Users BY Parameters
  <1>3. CASE e \in Fills
    <2>1. q = [p EXCEPT !.positions = ApplyFillToPosition(@, e).positions]
      BY <1>3 DEF ApplyEvent, Fills
    <2>2. ApplyFillToPosition(p.positions, e).positions \in Positions BY <1>1, <1>3, FillApplied
    <2>3. q \in AnyProcessor /\ q.ledger = p.ledger /\ q.seq = p.seq /\ q.period = p.period
      BY <1>1, <2>1, <2>2 DEF AnyProcessor
    <2>4. QED BY <1>1, <2>3 DEF Processors
  <1>4. CASE e \in [kind : {"MarkPriceUpdate"}, price : Positive]
    <2>1. q = [p EXCEPT !.mark = e.price] BY <1>4 DEF ApplyEvent
    <2>2. e.price \in Nat BY <1>4 DEF Positive
    <2>3. q \in AnyProcessor /\ q.ledger = p.ledger /\ q.seq = p.seq /\ q.period = p.period
      BY <1>1, <2>1, <2>2 DEF AnyProcessor
    <2>4. QED BY <1>1, <2>3 DEF Processors
  <1>5. CASE e \in [kind : {"FundingRateUpdate"}, rate : Int] BY <1>5 DEF ApplyEvent
  <1>6. CASE e \in [kind : {"AdminCredited"}, user : Users, amount : Positive,
                    key : {k \in Keys : k[1] = "credit" /\ k[2] < n}]
    <2> DEFINE l == Deposit(GetOrCreateAccount(p.ledger, e.user), e.user, e.amount, e.key)
    <2>1. q = [p EXCEPT !.ledger = l] BY <1>6 DEF ApplyEvent
    <2>2. /\ e.user \in Users /\ e.amount \in Nat \ {0} /\ e.key \in Keys
          /\ e.key[1] = "credit" /\ e.key[2] < n
      BY <1>6 DEF Positive
    <2>3. /\ l \in Ledgers(Users, Keys) /\ Books(Users, l)
          /\ l.keys = p.ledger.keys \cup {e.key}
      BY <1>1, <1>2, <2>2, DepositKeepsBooks
    <2> HIDE DEF l
    <2>4. q = Replaced(p, l, p.seq, p.period)
      BY <1>1, <2>1 DEF AnyProcessor, Replaced
    <2>5. GivenOut(e.key, n, p.seq, p.period) BY <2>2 DEF GivenOut
    <2>6. l.keys \in SUBSET (p.ledger.keys \cup {e.key}) /\ p.seq >= p.seq /\ p.period >= p.period
      BY <1>1, <2>3
    <2> HIDE DEF q
    <2>7. Fits(n, p, l, e.key, p.seq, p.period) BY <1>1, <2>2, <2>3, <2>5, <2>6 DEF Fits
    <2>8. q \in Processors(n) BY <2>4, <2>7, LedgerReplaced
    <2>9. QED BY <2>8 DEF q
  <1>7. CASE e \in [kind : {"RealizedPnl"}, user : Users, amount : Int]
    <2> DEFINE key == <<"pnl", p.seq + 1, e.user>>
               s == SettleCapped(GetOrCreateAccount(p.ledger, e.user), e.user, e.amount, key)
               l == s.ledger
               seq == p.seq + 1
    <2>1. q = [p EXCEPT !.ledger = l, !.seq = seq]
      BY <1>1, <1>7 DEF ApplyEvent, ReplayRealizedPnl, AnyProcessor
    <2>2. e.user \in Users /\ e.amount \in Int /\ key \in Keys /\ seq \in Nat /\ seq >= p.seq
      BY <1>1, <1>7 DEF Keys
    <2>3. GivenOut(key, n, seq, p.period) BY <2>2 DEF GivenOut
    <2> HIDE DEF key, seq
    <2>4. l \in Ledgers(Users, Keys) /\ Books(Users, l) /\ l.keys \in SUBSET (p.ledger.keys \cup {key})
      BY <1>1, <1>2, <2>2, SettlingKeepsBooks
    <2> HIDE DEF l
    <2>5. q = Replaced(p, l, seq, p.period)
      BY <1>1, <2>1 DEF AnyProcessor, Replaced
    <2>6. p.period >= p.period BY <1>1
    <2> HIDE DEF q
    <2>7. Fits(n, p, l, key, seq, p.period) BY <1>1, <2>2, <2>3, <2>4, <2>6 DEF Fits
    <2>8. q \in Processors(n) BY <2>5, <2>7, LedgerReplaced
    <2>9. QED BY <2>8 DEF q
  <1>8. CASE e \in [kind : {"FundingSettled"}, user : Users, period : Nat, amount : Int]
    <2> DEFINE key == <<"funding", e.period, e.user>>
               owed == -e.amount
               s == SettleCapped(GetOrCreateAccount(p.ledger, e.user), e.user, owed, key)
               l == s.ledger
               period == Max({p.period, e.period})
    <2>1. q = [p EXCEPT !.ledger = l, !.period = period]
      BY <1>1, <1>8 DEF ApplyEvent, ReplayFundingSettled, AnyProcessor
    <2>2. e.user \in Users /\ owed \in Int /\ e.period \in Nat /\ key \in Keys
      BY <1>8 DEF Keys
    <2>3. period \in Nat /\ period >= p.period /\ period >= e.period
      BY <1>1, <2>2, MaxOfTwo
    <2> HIDE DEF period
    <2>4. GivenOut(key, n, p.seq, period) BY <2>2, <2>3 DEF GivenOut
    <2> HIDE DEF key, owed
    <2>5. l \in Ledgers(Users, Keys) /\ Books(Users, l) /\ l.keys \in SUBSET (p.ledger.keys \cup {key})
      <3>1. s = SettleCapped(GetOrCreateAccount(p.ledger, e.user), e.user, owed, key) OBVIOUS
      <3> HIDE DEF s
      <3>2. QED BY <1>1, <1>2, <2>2, <3>1, SettlingKeepsBooks
    <2> HIDE DEF l
    <2>6. q = Replaced(p, l, p.seq, period)
      BY <1>1, <2>1 DEF AnyProcessor, Replaced
    <2>7. p.seq >= p.seq BY <1>1
    <2> HIDE DEF q
    <2>8. Fits(n, p, l, key, p.seq, period) BY <1>1, <2>2, <2>3, <2>4, <2>5, <2>7 DEF Fits
    <2>9. q \in Processors(n) BY <2>6, <2>8, LedgerReplaced
    <2>10. QED BY <2>9 DEF q
  <1>9. QED BY <1>3, <1>4, <1>5, <1>6, <1>7, <1>8 DEF Events, Facts

\* A replay starts without positions and money.
LEMMA NewProcessorType == ASSUME NEW n PROVE NewProcessor \in Processors(n)
  <1> DEFINE none == << >>
             S == {}
  <1>1. NewProcessor.ledger = NewLedger /\ NewLedger.keys = {} BY DEF NewProcessor, NewLedger
  <1>2. NewLedger \in Ledgers(Users, Keys) /\ Books(Users, NewLedger)
    BY Parameters, NewLedgerBalances
  <1>3. none \in Positions
    <2>1. none \in [S -> Position] /\ S \in SUBSET Users OBVIOUS
    <2> HIDE DEF none, S
    <2>2. QED BY <2>1, PositionsBy
  <1>4. NewProcessor \in AnyProcessor
    <2> HIDE DEF none
    <2>1. NewProcessor = [positions |-> none, ledger |-> NewLedger, mark |-> 0, period |-> 0, seq |-> 0]
      BY DEF NewProcessor, none
    <2>2. QED BY <1>2, <1>3, <2>1 DEF AnyProcessor
  <1>5. QED BY <1>1, <1>2, <1>4 DEF Processors

\* Replaying events from a processor gives a processor.
LEMMA ReplayedFrom ==
    ASSUME NEW n \in Nat, NEW p \in Processors(n), NEW s \in Seq(Events(n))
    PROVE  R!Fold(p, s) \in Processors(n)
  BY ReplayStep, R!FoldKeeps

\* Replaying a log gives a processor.
LEMMA ReplayedType ==
    ASSUME NEW n \in Nat, NEW s \in Seq(Events(n))
    PROVE  Replayed(s) \in Processors(n)
  BY NewProcessorType, ReplayedFrom, ReplayedIsFold

\* More keys have been given out later.
LEMMA LaterTypes ==
    ASSUME NEW n \in Nat
    PROVE  /\ Processors(n) \subseteq Processors(n + 1)
           /\ Events(n) \subseteq Events(n + 1)
  <1>1. ASSUME NEW p \in Processors(n) PROVE p \in Processors(n + 1)
    <2>1. /\ p \in AnyProcessor /\ p.ledger.keys \in SUBSET Keys /\ Books(Users, p.ledger)
          /\ \A k \in p.ledger.keys : GivenOut(k, n, p.seq, p.period)
      BY ProcessorIs
    <2>2. ASSUME NEW k \in p.ledger.keys PROVE GivenOut(k, n + 1, p.seq, p.period)
      <3>1. k[2] \in Nat /\ GivenOut(k, n, p.seq, p.period) BY <2>1 DEF Keys
      <3>2. QED BY <3>1 DEF GivenOut
    <2>3. QED BY <2>1, <2>2 DEF Processors
  <1>2. {k \in Keys : k[1] = "credit" /\ k[2] < n}
           \subseteq {k \in Keys : k[1] = "credit" /\ k[2] < n + 1}
    <2>1. \A k \in Keys : k[2] \in Nat BY DEF Keys
    <2>2. QED BY <2>1
  <1>3. Events(n) \subseteq Events(n + 1)
    <2> DEFINE A == {k \in Keys : k[1] = "credit" /\ k[2] < n}
               B == {k \in Keys : k[1] = "credit" /\ k[2] < n + 1}
               O == Fills \cup Facts \cup [kind : {"MarkPriceUpdate"}, price : Positive]
                          \cup [kind : {"FundingRateUpdate"}, rate : Int]
               C(X) == [kind : {"AdminCredited"}, user : Users, amount : Positive, key : X]
    <2>1. Events(n) = O \cup C(A) /\ Events(n + 1) = O \cup C(B) BY DEF Events
    <2>2. A \subseteq B BY <1>2
    <2> HIDE DEF A, B, O
    <2>3. C(A) \subseteq C(B) BY <2>2
    <2>4. QED BY <2>1, <2>3
  <1>4. QED BY <1>1, <1>3

-----------------------------------------------------------------------------
(* A replay that follows what the matching thread does.                    *)

\* r, rebuilt from the log, has what p has.  It has used no more keys: those
\* of settlements that moved nothing are not in the log.
Follows(r, p) == r.mark = p.mark /\ r.seq = p.seq /\ Agrees(Users, r.ledger, p.ledger)

\* The facts of d let a replay follow from p to what d leaves.
Echo(n, p, d, r) ==
    LET q == R!Fold(r, d.facts)
    IN  Follows(r, p) => /\ q \in Processors(n) /\ Follows(q, d.post)
                         /\ q.positions = r.positions
Echoes(n, p, d) ==
    /\ d.post \in Processors(n) /\ d.facts \in Seq(Events(n))
    /\ \A r \in Processors(n) : Echo(n, p, d, r)

\* A step that emits no event is echoed by replaying nothing, if it only
\* opened accounts.
LEMMA NothingToEcho ==
    ASSUME NEW n, NEW p, NEW q \in Processors(n), q.mark = p.mark, q.seq = p.seq,
           \A k \in Ledgers(Users, Keys) :
              Agrees(Users, k, p.ledger) => Agrees(Users, k, q.ledger)
    PROVE  Echoes(n, p, Done(q, << >>))
  <1> DEFINE d == Done(q, << >>)
  <1>1. d.post = q /\ d.facts = << >> BY DEF Done
  <1>2. << >> \in Seq(Events(n)) OBVIOUS
  <1>3. ASSUME NEW r \in Processors(n) PROVE Echo(n, p, d, r)
    <2>1. R!Fold(r, d.facts) = r BY <1>1, R!FoldEmpty
    <2>2. r.ledger \in Ledgers(Users, Keys) BY ProcessorIs
    <2>3. QED BY <1>1, <2>1, <2>2 DEF Echo, Follows
  <1>4. QED BY <1>1, <1>2, <1>3 DEF Echoes

\* Two steps that are echoed are echoed one after the other.
LEMMA EchoesJoin ==
    ASSUME NEW n, NEW p, NEW d, Echoes(n, p, d), NEW e, Echoes(n, d.post, e)
    PROVE  Echoes(n, p, Done(e.post, d.facts \o e.facts))
  <1> DEFINE x == Done(e.post, d.facts \o e.facts)
  <1>1. x.post = e.post /\ x.facts = d.facts \o e.facts BY DEF Done
  <1>2. d.facts \in Seq(Events(n)) /\ e.facts \in Seq(Events(n)) /\ e.post \in Processors(n)
    BY DEF Echoes
  <1>3. x.facts \in Seq(Events(n)) BY <1>1, <1>2, ConcatProperties
  <1>4. ASSUME NEW r \in Processors(n) PROVE Echo(n, p, x, r)
    <2> DEFINE q == R!Fold(r, d.facts)
    <2>1. R!Fold(r, x.facts) = R!Fold(q, e.facts) BY <1>1, <1>2, R!FoldConcat
    <2>2. Follows(r, p) => q \in Processors(n) /\ Follows(q, d.post) /\ q.positions = r.positions
      BY DEF Echoes, Echo
    <2> HIDE DEF q, x
    <2>3. q \in Processors(n) => Echo(n, d.post, e, q) BY DEF Echoes
    <2>4. QED BY <1>1, <2>1, <2>2, <2>3 DEF Echo
  <1>5. QED BY <1>1, <1>2, <1>3, <1>4 DEF Echoes

\* A step that emits one event is echoed by that event.
LEMMA FactEchoes ==
    ASSUME NEW n \in Nat, NEW p, NEW q \in Processors(n), NEW e \in Events(n),
           \A r \in Processors(n) : Follows(r, p) =>
              Follows(ApplyEvent(r, e), q) /\ ApplyEvent(r, e).positions = r.positions
    PROVE  Echoes(n, p, Done(q, <<e>>))
  <1> DEFINE d == Done(q, <<e>>)
  <1>1. d.post = q /\ d.facts = <<e>> BY DEF Done
  <1>2. <<e>> \in Seq(Events(n)) OBVIOUS
  <1>3. ASSUME NEW r \in Processors(n) PROVE Echo(n, p, d, r)
    <2>1. R!Fold(r, d.facts) = ApplyEvent(r, e) BY <1>1, R!FoldOne
    <2>2. ApplyEvent(r, e) \in Processors(n) BY ReplayStep
    <2>3. QED BY <1>1, <2>1, <2>2 DEF Echo
  <1>4. QED BY <1>1, <1>2, <1>3 DEF Echoes

\* A realized profit or loss, as far as it is settled.  Its key is new, so it
\* moves money unless it is nothing or its user has nothing.
LEMMA PnlEchoes ==
    ASSUME NEW n \in Nat, NEW p \in Processors(n), NEW user \in Users, NEW pnl \in Int,
           NEW x, x = SettleRealizedPnl(p, user, pnl)
    PROVE  Echoes(n, p, x) /\ x.post.positions = p.positions
  <1> DEFINE seq == p.seq + 1
             key == <<"pnl", seq, user>>
             s == SettleCapped(GetOrCreateAccount(p.ledger, user), user, pnl, key)
             had == Available(p.ledger, user)
             moved == s.moved
             q == Replaced(p, s.ledger, seq, p.period)
             e == RealizedPnl(user, moved)
  <1>1. /\ p.ledger \in Ledgers(Users, Keys) /\ p.seq \in Nat /\ p.period \in Nat
        /\ p.ledger.keys \in SUBSET Keys /\ p \in AnyProcessor
        /\ Books(Users, p.ledger)
        /\ \A k \in p.ledger.keys : GivenOut(k, n, p.seq, p.period)
    BY ProcessorIs
  <1>2. IsFiniteSet(Users) /\ SYSTEM \notin Users BY Parameters
  <1>3. had \in Nat BY <1>1, <1>2, NothingOverdrawn
  <1>4. CASE pnl = 0 \/ (pnl < 0 /\ had = 0)
    <2>1. x = Done(p, << >>) BY <1>4 DEF SettleRealizedPnl
    <2>2. Echoes(n, p, x) BY <2>1, NothingToEcho
    <2>3. QED BY <2>1, <2>2 DEF Done
  <1>5. CASE ~(pnl = 0 \/ (pnl < 0 /\ had = 0))
    <2>1. seq \in Nat /\ key \in Keys /\ seq >= p.seq /\ p.period >= p.period
      BY <1>1 DEF Keys
    <2>2. key \notin p.ledger.keys
      <3>1. key[1] = "pnl" /\ key[2] = p.seq + 1 OBVIOUS
      <3>2. ~GivenOut(key, n, p.seq, p.period) BY <1>1, <3>1 DEF GivenOut
      <3>3. QED BY <1>1, <3>2
    <2>3. GivenOut(key, n, seq, p.period) BY <2>1 DEF GivenOut
    <2>4. s = SettleCapped(GetOrCreateAccount(p.ledger, user), user, pnl, key) OBVIOUS
    <2> HIDE DEF s, key, seq
    <2>5. /\ moved \in Int
          /\ moved = IF pnl > 0 THEN pnl ELSE -(IF -pnl <= had THEN -pnl ELSE had)
      BY <1>1, <1>2, <1>5, <2>1, <2>2, <2>4, SettleEffect
    <2>6. moved # 0
      <3> HIDE DEF had, moved
      <3>1. QED BY <1>3, <1>5, <2>5
    <2>7. /\ s.ledger \in Ledgers(Users, Keys) /\ Books(Users, s.ledger)
          /\ s.ledger.keys \in SUBSET (p.ledger.keys \cup {key})
      BY <1>1, <1>2, <2>1, <2>4, SettlingKeepsBooks
    <2>8. x = Done(q, <<e>>)
      BY <1>1, <1>5, <2>6 DEF SettleRealizedPnl, Replaced, AnyProcessor, s, key, seq
    <2>9. Fits(n, p, s.ledger, key, seq, p.period) BY <1>1, <2>1, <2>3, <2>7 DEF Fits
    <2>10. /\ q \in Processors(n) /\ q.positions = p.positions /\ q.ledger = s.ledger
           /\ q.mark = p.mark /\ q.seq = seq
      <3>1. q = Replaced(p, s.ledger, seq, p.period) OBVIOUS
      <3> HIDE DEF q
      <3>2. QED BY <2>9, <3>1, LedgerReplaced
    <2>11. e \in Events(n) BY <2>5 DEF RealizedPnl, Events, Facts
    <2>12. ASSUME NEW r \in Processors(n), Follows(r, p)
           PROVE  Follows(ApplyEvent(r, e), q) /\ ApplyEvent(r, e).positions = r.positions
      <3> DEFINE t == SettleCapped(GetOrCreateAccount(r.ledger, user), user, moved, key)
                 rr == ApplyEvent(r, e)
      <3>1. r.ledger \in Ledgers(Users, Keys) /\ r \in AnyProcessor BY ProcessorIs
      <3>2. r.seq = p.seq /\ r.mark = p.mark /\ Agrees(Users, r.ledger, p.ledger)
        BY <2>12 DEF Follows
      <3>3. rr = [r EXCEPT !.ledger = t.ledger, !.seq = seq]
        BY <3>1, <3>2 DEF ApplyEvent, RealizedPnl, ReplayRealizedPnl, AnyProcessor, key, seq
      <3>4. rr.ledger = t.ledger /\ rr.seq = seq /\ rr.mark = r.mark /\ rr.positions = r.positions
        <4> HIDE DEF t, rr
        <4>1. QED BY <3>1, <3>3 DEF AnyProcessor
      <3>5. t = SettleCapped(GetOrCreateAccount(r.ledger, user), user, s.moved, key) OBVIOUS
      <3> HIDE DEF t, rr, moved
      <3>6. Agrees(Users, t.ledger, s.ledger)
        BY <1>1, <1>2, <2>1, <2>4, <2>6, <3>1, <3>2, <3>5, SettledAgain DEF moved
      <3>7. Follows(rr, q) BY <2>10, <3>2, <3>4, <3>6 DEF Follows
      <3>8. QED BY <3>4, <3>7 DEF rr
    <2> HIDE DEF q, e
    <2>13. Echoes(n, p, x) BY <2>8, <2>10, <2>11, <2>12, FactEchoes
    <2>14. QED BY <2>8, <2>10, <2>13 DEF Done
  <1>6. QED BY <1>4, <1>5

\* A fill: the position it leaves is the one a replay projects.
LEMMA FillEchoes ==
    ASSUME NEW n \in Nat, NEW p \in Processors(n), NEW f \in Fills,
           NEW x, x = ConsumeFill(p, f)
    PROVE  /\ Echoes(n, p, x)
           /\ x.post.positions = ApplyFillToPosition(p.positions, f).positions
  <1> DEFINE a == ApplyFillToPosition(p.positions, f)
             q == [p EXCEPT !.positions = a.positions]
  <1>1. /\ p.positions \in Positions /\ p \in AnyProcessor
        /\ Books(Users, p.ledger)
        /\ \A k \in p.ledger.keys : GivenOut(k, n, p.seq, p.period)
    BY ProcessorIs
  <1>2. a.positions \in Positions /\ a.pnl \in Int BY <1>1, FillApplied
  <1>3. f.user \in Users BY DEF Fills
  <1>4. x = SettleRealizedPnl(q, f.user, a.pnl) BY DEF ConsumeFill
  <1> HIDE DEF a
  <1>5. /\ q \in AnyProcessor /\ q.positions = a.positions /\ q.ledger = p.ledger
        /\ q.mark = p.mark /\ q.seq = p.seq /\ q.period = p.period
    BY <1>1, <1>2 DEF AnyProcessor
  <1> HIDE DEF q
  <1>6. q \in Processors(n) BY <1>1, <1>5 DEF Processors
  <1>7. Echoes(n, q, x) /\ x.post.positions = q.positions
    BY <1>2, <1>3, <1>4, <1>6, PnlEchoes
  <1>8. Echoes(n, p, x) BY <1>5, <1>7 DEF Echoes, Echo, Follows
  <1>9. QED BY <1>5, <1>7, <1>8 DEF a

\* What a position pays or receives for funding.  A used key or a user without
\* money moves nothing, and no fact is logged.
LEMMA FundingEchoes ==
    ASSUME NEW n \in Nat, NEW p \in Processors(n), NEW row, row.user \in DOMAIN p.positions,
           row.rate \in Int, NEW x, x = SettleFundingOf(p, row)
    PROVE  Echoes(n, p, x) /\ x.post.positions = p.positions
  <1> DEFINE user == row.user
             payment == Payment(p, user, row.rate)
             owed == -payment
             key == <<"funding", p.period, user>>
             s == SettleCapped(GetOrCreateAccount(p.ledger, user), user, owed, key)
             moved == s.moved
             q == Replaced(p, s.ledger, p.seq, p.period)
             e == FundingSettled(user, p.period, -moved)
  <1>1. /\ p.ledger \in Ledgers(Users, Keys) /\ p.seq \in Nat /\ p.period \in Nat
        /\ p.mark \in Nat /\ p.positions \in Positions /\ p \in AnyProcessor
        /\ Books(Users, p.ledger)
    BY ProcessorIs
  <1>2. IsFiniteSet(Users) /\ SYSTEM \notin Users BY Parameters
  <1>3. /\ user \in Users /\ p.positions[user] \in Position
    BY <1>1, PositionsAre
  <1>4. payment \in Int
    <2> DEFINE size == p.positions[user].size
               mark == p.mark
               rate == IF p.positions[user].side = "Buy" THEN row.rate ELSE -row.rate
    <2>1. size \in Int /\ mark \in Int /\ rate \in Int BY <1>1, <1>3 DEF Position, Positive
    <2>2. payment = size * mark * rate BY DEF Payment
    <2> HIDE DEF size, mark, rate, payment
    <2>3. size * mark \in Int BY <2>1
    <2>4. QED BY <2>1, <2>2, <2>3
  <1>5. CASE payment = 0
    <2>1. x = Done(p, << >>) BY <1>5 DEF SettleFundingOf
    <2>2. Echoes(n, p, x) BY <2>1, NothingToEcho
    <2>3. QED BY <2>1, <2>2 DEF Done
  <1>6. CASE payment # 0
    <2>1. owed \in Int BY <1>4
    <2>2. /\ key \in Keys /\ GivenOut(key, n, p.seq, p.period)
          /\ p.seq >= p.seq /\ p.period >= p.period
      BY <1>1, <1>3 DEF Keys, GivenOut
    <2>3. s = SettleCapped(GetOrCreateAccount(p.ledger, user), user, owed, key) OBVIOUS
    <2>4. x = Done([p EXCEPT !.ledger = s.ledger], IF moved = 0 THEN << >> ELSE <<e>>)
      BY <1>6 DEF SettleFundingOf
    <2> HIDE DEF s, key, owed, payment
    <2>5. /\ s.ledger \in Ledgers(Users, Keys) /\ Books(Users, s.ledger) /\ moved \in Int
          /\ s.ledger.keys \in SUBSET (p.ledger.keys \cup {key})
      BY <1>1, <1>2, <1>3, <2>1, <2>2, <2>3, SettlingKeepsBooks
    <2>6. [p EXCEPT !.ledger = s.ledger] = q BY <1>1 DEF AnyProcessor, Replaced
    <2>7. Fits(n, p, s.ledger, key, p.seq, p.period) BY <1>1, <2>2, <2>5 DEF Fits
    <2>8. /\ q \in Processors(n) /\ q.positions = p.positions /\ q.ledger = s.ledger
          /\ q.mark = p.mark /\ q.seq = p.seq
      <3>1. q = Replaced(p, s.ledger, p.seq, p.period) OBVIOUS
      <3> HIDE DEF q
      <3> DEFINE seq == p.seq
                 period == p.period
      <3>2. q = Replaced(p, s.ledger, seq, period) /\ Fits(n, p, s.ledger, key, seq, period)
        BY <2>7, <3>1
      <3>3. seq = p.seq OBVIOUS
      <3> HIDE DEF seq, period
      <3>4. QED BY <3>2, <3>3, LedgerReplaced
    <2>9. CASE moved = 0
      <3>1. ASSUME NEW k \in Ledgers(Users, Keys), Agrees(Users, k, p.ledger)
            PROVE  Agrees(Users, k, s.ledger)
        BY <1>1, <1>2, <1>3, <2>1, <2>2, <2>3, <2>9, <3>1, SettledAgain
      <3>2. x = Done(q, << >>) BY <2>4, <2>6, <2>9
      <3> HIDE DEF q
      <3>3. Echoes(n, p, x) BY <2>8, <3>1, <3>2, NothingToEcho
      <3>4. QED BY <2>8, <3>2, <3>3 DEF Done
    <2>10. CASE moved # 0
      <3>1. x = Done(q, <<e>>) BY <2>4, <2>6, <2>10
      <3>2. e \in Events(n)
        <4>1. -moved \in Int BY <2>5
        <4>2. QED BY <1>1, <1>3, <4>1 DEF FundingSettled, Events, Facts
      <3>3. ASSUME NEW r \in Processors(n), Follows(r, p)
            PROVE  Follows(ApplyEvent(r, e), q) /\ ApplyEvent(r, e).positions = r.positions
        <4> DEFINE t == SettleCapped(GetOrCreateAccount(r.ledger, user), user, moved, key)
                   rr == ApplyEvent(r, e)
                   period == Max({r.period, p.period})
        <4>1. r.ledger \in Ledgers(Users, Keys) /\ r \in AnyProcessor BY ProcessorIs
        <4>2. r.seq = p.seq /\ r.mark = p.mark /\ Agrees(Users, r.ledger, p.ledger)
          BY <3>3 DEF Follows
        <4>3. -(-moved) = moved BY <2>5
        <4>4. /\ e.kind = "FundingSettled" /\ e.user = user /\ e.period = p.period
              /\ -e.amount = moved
          BY <4>3 DEF FundingSettled
        <4>5. rr = [r EXCEPT !.ledger = t.ledger, !.period = period]
          <5> HIDE DEF e, moved
          <5>1. rr = ReplayFundingSettled(r, e) BY <4>4 DEF ApplyEvent
          <5>2. QED BY <4>1, <4>4, <5>1 DEF ReplayFundingSettled, AnyProcessor, key
        <4>6. rr.ledger = t.ledger /\ rr.seq = r.seq /\ rr.mark = r.mark /\ rr.positions = r.positions
          <5> HIDE DEF t, rr, period
          <5>1. QED BY <4>1, <4>5 DEF AnyProcessor
        <4>7. t = SettleCapped(GetOrCreateAccount(r.ledger, user), user, s.moved, key) OBVIOUS
        <4> HIDE DEF t, rr
        <4>8. Agrees(Users, t.ledger, s.ledger)
          BY <1>1, <1>2, <1>3, <2>1, <2>2, <2>3, <2>10, <4>1, <4>2, <4>7, SettledAgain
        <4>9. Follows(rr, q) BY <2>8, <4>2, <4>6, <4>8 DEF Follows
        <4>10. QED BY <4>6, <4>9 DEF rr
      <3> HIDE DEF q, e
      <3>4. Echoes(n, p, x) BY <2>8, <3>1, <3>2, <3>3, FactEchoes
      <3>5. QED BY <2>8, <3>1, <3>4 DEF Done
    <2>11. QED BY <2>9, <2>10
  <1>7. QED BY <1>5, <1>6

-----------------------------------------------------------------------------
(* Chains of steps.                                                        *)

AfterFill(done, f) ==
    LET next == ConsumeFill(done.post, f)
    IN  Done(next.post, done.facts \o next.facts)
AfterFunding(done, row) ==
    LET next == SettleFundingOf(done.post, row)
    IN  Done(next.post, done.facts \o next.facts)

FillFold == INSTANCE CollectionLaws WITH op <- AfterFill
FundingFold == INSTANCE CollectionLaws WITH op <- AfterFunding

\* A chain is a fold of its steps.
LEMMA ChainsAreFolds ==
    ASSUME NEW p, NEW s
    PROVE  /\ Chain(p, ConsumeFill, s) = FillFold!Fold(Done(p, << >>), s)
           /\ Chain(p, SettleFundingOf, s) = FundingFold!Fold(Done(p, << >>), s)
  <1>1. Chain(p, ConsumeFill, s) = FillFold!Fold(Done(p, << >>), s)
    BY DEF Chain, AfterFill, FillFold!Fold, FoldLeft, MapThenFoldSet, Max,
           FillFold!FoldLeft, FillFold!MapThenFoldSet, FillFold!Max
  <1>2. Chain(p, SettleFundingOf, s) = FundingFold!Fold(Done(p, << >>), s)
    BY DEF Chain, AfterFunding, FundingFold!Fold, FoldLeft, MapThenFoldSet, Max,
           FundingFold!FoldLeft, FundingFold!MapThenFoldSet, FundingFold!Max
  <1>3. QED BY <1>1, <1>2

Dones(n) == [post : Processors(n), facts : Seq(Events(n))]

\* What a step that is echoed returns.
LEMMA DoneIs ==
    ASSUME NEW n, NEW p, NEW d, Echoes(n, p, d), d = Done(d.post, d.facts)
    PROVE  d \in Dones(n)
  BY DEF Echoes, Dones, Done

\* A chain starts with nothing done.
LEMMA NothingDone ==
    ASSUME NEW n, NEW p \in Processors(n), NEW d, d = Done(p, << >>)
    PROVE  Echoes(n, p, d) /\ d.post = p /\ d \in Dones(n)
  <1>1. Echoes(n, p, d) BY NothingToEcho
  <1>2. d.post = p /\ d = Done(d.post, d.facts) BY DEF Done
  <1>3. QED BY <1>1, <1>2, DoneIs

\* The fills of a command: a replay ends with the positions the matching
\* thread has, though that one settled money in between.
LEMMA FillsEcho ==
    ASSUME NEW n \in Nat, NEW p \in Processors(n), NEW fs \in Seq(Fills),
           NEW x, x = Chain(p, ConsumeFill, fs),
           NEW r \in Processors(n), r.positions = p.positions
    PROVE  Echoes(n, p, x) /\ R!Fold(r, fs).positions = x.post.positions
  <1> DEFINE d0 == Done(p, << >>)
  <1>1. PICK tr : R!IsTrace(tr, r, fs) /\ R!Fold(r, fs) = tr[Len(fs)] BY R!FoldTrace
  <1> DEFINE G == [i \in Nat |-> {d \in Dones(n) : /\ Echoes(n, p, d)
                                               /\ d.post.positions = tr[i].positions}]
  <1>2. Fills \subseteq Events(n) BY DEF Events
  <1>3. \A i \in 0 .. Len(fs) : tr[i] \in Processors(n)
    <2>1. \A v \in Processors(n), f \in Fills : ApplyEvent(v, f) \in Processors(n)
      BY <1>2, ReplayStep
    <2>2. QED BY <1>1, <2>1, R!TraceKeeps
  <1>4. d0 \in G[0]
    <2>1. Echoes(n, p, d0) /\ d0.post = p /\ d0 \in Dones(n) BY NothingDone
    <2>2. tr[0] = r BY <1>1 DEF R!IsTrace
    <2>3. QED BY <2>1, <2>2
  <1>5. ASSUME NEW i \in 1 .. Len(fs), NEW d \in G[i - 1]
        PROVE  AfterFill(d, fs[i]) \in G[i]
    <2> DEFINE f == fs[i]
               e == ConsumeFill(d.post, f)
               q == AfterFill(d, f)
               j == i - 1
    <2>1. i \in Nat /\ j \in Nat /\ j \in 0 .. Len(fs) /\ f \in Fills OBVIOUS
    <2>2. d \in Dones(n) /\ Echoes(n, p, d) /\ d.post.positions = tr[j].positions
      BY <1>5, <2>1
    <2>3. tr[i] = ApplyEvent(tr[j], f) BY <1>1 DEF R!IsTrace
    <2>4. tr[j] \in AnyProcessor BY <1>3, <2>1, ProcessorIs
    <2> HIDE DEF G, j, f
    <2>5. tr[i].positions = ApplyFillToPosition(tr[j].positions, f).positions
      BY <2>1, <2>3, <2>4 DEF ApplyEvent, AnyProcessor, Fills
    <2>6. d.post \in Processors(n) BY <2>2 DEF Dones
    <2>7. /\ Echoes(n, d.post, e)
          /\ e.post.positions = ApplyFillToPosition(d.post.positions, f).positions
      BY <2>1, <2>6, FillEchoes
    <2>8. q = Done(e.post, d.facts \o e.facts) BY DEF AfterFill
    <2> HIDE DEF e, q
    <2>9. Echoes(n, p, q) BY <2>2, <2>7, <2>8, EchoesJoin
    <2>10. q.post = e.post /\ q = Done(q.post, q.facts) BY <2>8 DEF Done
    <2>11. q \in Dones(n) BY <2>9, <2>10, DoneIs
    <2>12. q.post.positions = tr[i].positions BY <2>2, <2>5, <2>7, <2>10
    <2>13. QED BY <2>1, <2>9, <2>11, <2>12 DEF G, q, f
  <1>6. FillFold!Leads(G, fs) BY <1>5 DEF FillFold!Leads
  <1>7. x = FillFold!Fold(d0, fs) BY ChainsAreFolds
  <1>8. x \in G[Len(fs)]
    <2> HIDE DEF G, d0
    <2>1. QED BY <1>4, <1>6, <1>7, FillFold!FoldAlong
  <1>9. Len(fs) \in Nat OBVIOUS
  <1>10. QED BY <1>1, <1>8, <1>9

\* Fills move no money in a replay: the facts do.
LEMMA FillsMoveNoMoney ==
    ASSUME NEW n \in Nat, NEW r \in Processors(n), NEW fs \in Seq(Fills),
           NEW q, q = R!Fold(r, fs)
    PROVE  q \in Processors(n) /\ q.ledger = r.ledger /\ q.mark = r.mark /\ q.seq = r.seq
  <1> DEFINE V == {v \in Processors(n) : v.ledger = r.ledger /\ v.mark = r.mark /\ v.seq = r.seq}
  <1>1. r \in V OBVIOUS
  <1>2. ASSUME NEW v \in V, NEW f \in Fills PROVE ApplyEvent(v, f) \in V
    <2>1. ApplyEvent(v, f) \in Processors(n)
      <3>1. f \in Events(n) BY DEF Events
      <3>2. QED BY <3>1, ReplayStep
    <2>2. v \in AnyProcessor BY ProcessorIs
    <2>3. /\ ApplyEvent(v, f).ledger = v.ledger /\ ApplyEvent(v, f).mark = v.mark
          /\ ApplyEvent(v, f).seq = v.seq
      BY <2>2 DEF ApplyEvent, Fills, AnyProcessor
    <2>4. QED BY <2>1, <2>3
  <1> HIDE DEF V
  <1>3. q \in V BY <1>1, <1>2, R!FoldKeeps
  <1>4. QED BY <1>3 DEF V

Rows(p) == [user : DOMAIN p.positions, rate : Int]

\* The positions of a funding tick, one after the other.
LEMMA TickEchoes ==
    ASSUME NEW n \in Nat, NEW p \in Processors(n), NEW rows \in Seq(Rows(p)),
           NEW x, x = Chain(p, SettleFundingOf, rows)
    PROVE  Echoes(n, p, x) /\ x.post.positions = p.positions
  <1> DEFINE d0 == Done(p, << >>)
             V == {d \in Dones(n) : Echoes(n, p, d) /\ d.post.positions = p.positions}
  <1>1. d0 \in V BY NothingDone
  <1>2. ASSUME NEW d \in V, NEW row \in Rows(p) PROVE AfterFunding(d, row) \in V
    <2> DEFINE e == SettleFundingOf(d.post, row)
               q == AfterFunding(d, row)
    <2>1. d.post \in Processors(n) /\ Echoes(n, p, d) /\ d.post.positions = p.positions
      BY DEF Dones
    <2>2. row.user \in DOMAIN d.post.positions /\ row.rate \in Int BY <2>1 DEF Rows
    <2>3. Echoes(n, d.post, e) /\ e.post.positions = d.post.positions
      BY <2>1, <2>2, FundingEchoes
    <2>4. q = Done(e.post, d.facts \o e.facts) BY DEF AfterFunding
    <2> HIDE DEF e, q, V
    <2>5. Echoes(n, p, q) BY <2>1, <2>3, <2>4, EchoesJoin
    <2>6. q.post = e.post /\ q = Done(q.post, q.facts) BY <2>4 DEF Done
    <2>7. q \in Dones(n) BY <2>5, <2>6, DoneIs
    <2>8. QED BY <2>1, <2>3, <2>5, <2>6, <2>7 DEF V, q
  <1>3. x = FundingFold!Fold(d0, rows) BY ChainsAreFolds
  <1> HIDE DEF V, d0
  <1>4. x \in V BY <1>1, <1>2, <1>3, FundingFold!FoldKeeps
  <1>5. QED BY <1>4 DEF V

\* What the engine emits of a sweep.
LEMMA FillsOfType ==
    ASSUME NEW sweep \in Sweeps
    PROVE  FillsOf(sweep) \in Seq(Fills)
  <1> DEFINE leg(i) == sweep.legs[i]
             pair(i) == <<OrderFilled(leg(i).maker, Opposite(sweep.side), leg(i).qty, leg(i).price),
                          OrderFilled(sweep.user, sweep.side, leg(i).qty, leg(i).price)>>
             ss == [i \in DOMAIN sweep.legs |-> pair(i)]
  <1>1. /\ sweep.user \in Users /\ sweep.side \in Sides
        /\ sweep.legs \in Seq([maker : Users, qty : Positive, price : Positive])
    BY Parameters
  <1>2. ASSUME NEW i \in DOMAIN sweep.legs PROVE pair(i) \in Seq(Fills)
    <2>1. leg(i) \in [maker : Users, qty : Positive, price : Positive]
      <3> DEFINE L == [maker : Users, qty : Positive, price : Positive]
                 legs == sweep.legs
      <3>1. legs \in Seq(L) /\ i \in DOMAIN legs BY <1>1
      <3> HIDE DEF L, legs
      <3>2. legs[i] \in L BY <3>1
      <3>3. QED BY <3>2 DEF L, legs
    <2>2. Opposite(sweep.side) \in Sides BY DEF Opposite, Sides
    <2>3. /\ OrderFilled(leg(i).maker, Opposite(sweep.side), leg(i).qty, leg(i).price) \in Fills
          /\ OrderFilled(sweep.user, sweep.side, leg(i).qty, leg(i).price) \in Fills
      BY <1>1, <2>1, <2>2 DEF OrderFilled, Fills
    <2>4. QED BY <2>3
  <1>3. FillsOf(sweep) = FlattenSeq(ss) BY DEF FillsOf
  <1>4. ss \in Seq(Seq(Fills))
    <2> HIDE DEF pair
    <2>1. Len(sweep.legs) \in Nat /\ DOMAIN sweep.legs = 1 .. Len(sweep.legs) BY <1>1
    <2>2. QED BY <1>2, <2>1
  <1> HIDE DEF ss
  <1>5. QED BY <1>3, <1>4, FlattenType

-----------------------------------------------------------------------------
(* The inductive invariant: a replay of the log has what post has.         *)

Mirrors(n, p, l) ==
    /\ p \in Processors(n) /\ l \in Seq(Events(n))
    /\ Replayed(l).positions = p.positions
    /\ Follows(Replayed(l), p)

Inv == commands \in Nat /\ Mirrors(commands, post, log)

\* The engine's events bring a replay from p to q, the facts from q to what d
\* leaves.
LEMMA ProcessMirrors ==
    ASSUME NEW n \in Nat, NEW p, NEW l, Mirrors(n, p, l),
           NEW ev \in Seq(Events(n + 1)), NEW d, NEW q, Echoes(n + 1, q, d),
           Follows(R!Fold(Replayed(l), ev), q),
           R!Fold(Replayed(l), ev).positions = d.post.positions
    PROVE  Mirrors(n + 1, d.post, l \o ev \o d.facts)
  <1> DEFINE m == n + 1
             r == R!Fold(Replayed(l), ev)
             k == l \o ev
             j == k \o d.facts
  <1>1. /\ m \in Nat /\ Processors(n) \subseteq Processors(m) /\ Events(n) \subseteq Events(m)
    BY LaterTypes
  <1>2. l \in Seq(Events(m)) /\ ev \in Seq(Events(m)) /\ d.facts \in Seq(Events(m))
        /\ d.post \in Processors(m)
    <2>1. l \in Seq(Events(n)) BY DEF Mirrors
    <2>2. l \in Seq(Events(m)) BY <1>1, <2>1
    <2>3. QED BY <2>2 DEF Echoes
  <1> HIDE DEF m
  <1>3. k \in Seq(Events(m)) /\ j \in Seq(Events(m)) BY <1>2, ConcatProperties
  <1>4. r \in Processors(m)
    <2>1. Replayed(l) \in Processors(m) BY <1>1, <1>2, ReplayedType
    <2>2. QED BY <1>1, <1>2, <2>1, ReplayedFrom
  <1>5. Replayed(j) = R!Fold(r, d.facts)
    <2>1. Replayed(j) = R!Fold(NewProcessor, j) /\ Replayed(l) = R!Fold(NewProcessor, l)
      BY ReplayedIsFold
    <2>2. R!Fold(NewProcessor, j) = R!Fold(R!Fold(NewProcessor, k), d.facts)
      BY <1>2, <1>3, R!FoldConcat
    <2>3. R!Fold(NewProcessor, k) = R!Fold(R!Fold(NewProcessor, l), ev)
      BY <1>2, R!FoldConcat
    <2>4. QED BY <2>1, <2>2, <2>3
  <1>6. Echo(m, q, d, r) BY <1>4 DEF Echoes, m
  <1>7. Follows(Replayed(j), d.post) /\ Replayed(j).positions = d.post.positions
    BY <1>5, <1>6 DEF Echo
  <1> HIDE DEF j
  <1>8. Mirrors(m, d.post, j) BY <1>2, <1>3, <1>7 DEF Mirrors
  <1>9. QED BY <1>8 DEF m, j

\* The parts of a log that mirrors a processor.
LEMMA MirrorIs ==
    ASSUME NEW n \in Nat, NEW p, NEW l, Mirrors(n, p, l)
    PROVE  /\ p \in Processors(n) /\ p \in Processors(n + 1)
           /\ Replayed(l) \in Processors(n) /\ Replayed(l) \in Processors(n + 1)
           /\ Follows(Replayed(l), p) /\ Replayed(l).positions = p.positions
           /\ n + 1 \in Nat
  BY LaterTypes, ReplayedType DEF Mirrors

\* The step of a command, for the four kinds of it.
LEMMA TradeMirrors ==
    ASSUME NEW n \in Nat, NEW p, NEW l, Mirrors(n, p, l), NEW fs \in Seq(Fills),
           NEW d, d = Chain(p, ConsumeFill, fs)
    PROVE  Mirrors(n + 1, d.post, l \o fs \o d.facts)
  <1> DEFINE m == n + 1
             r == Replayed(l)
             q == R!Fold(r, fs)
  <1>1. /\ m \in Nat /\ p \in Processors(m) /\ r \in Processors(m)
        /\ Follows(r, p) /\ r.positions = p.positions
    BY MirrorIs
  <1> HIDE DEF m
  <1>2. Echoes(m, p, d) /\ q.positions = d.post.positions
    <2> HIDE DEF r
    <2>1. QED BY <1>1, FillsEcho
  <1>3. Follows(q, p)
    <2>1. q.ledger = r.ledger /\ q.mark = r.mark /\ q.seq = r.seq
      <3> HIDE DEF r
      <3>1. q = R!Fold(r, fs) OBVIOUS
      <3> HIDE DEF q
      <3>2. QED BY <1>1, <3>1, FillsMoveNoMoney
    <2>2. QED BY <1>1, <2>1 DEF Follows
  <1>4. fs \in Seq(Events(m)) BY DEF Events
  <1>5. QED BY <1>2, <1>3, <1>4, ProcessMirrors DEF m

\* A mark price: logged, then remembered by the live processor alone.
LEMMA MarkMirrors ==
    ASSUME NEW n \in Nat, NEW p, NEW l, Mirrors(n, p, l), NEW price \in Positive,
           NEW d, d = Done([p EXCEPT !.mark = price], << >>)
    PROVE  Mirrors(n + 1, d.post, l \o <<MarkPriceUpdate(price)>> \o d.facts)
  <1> DEFINE m == n + 1
             r == Replayed(l)
             e == MarkPriceUpdate(price)
             q == d.post
             s == R!Fold(r, <<e>>)
  <1>1. /\ m \in Nat /\ p \in Processors(m) /\ r \in Processors(m)
        /\ Follows(r, p) /\ r.positions = p.positions
    BY MirrorIs
  <1> HIDE DEF m
  <1>2. /\ q \in AnyProcessor /\ q.positions = p.positions /\ q.ledger = p.ledger
        /\ q.mark = price /\ q.seq = p.seq /\ q.period = p.period
    <2>1. p \in AnyProcessor BY <1>1, ProcessorIs
    <2>2. q = [p EXCEPT !.mark = price] /\ price \in Nat BY DEF Done, Positive
    <2>3. QED BY <2>1, <2>2 DEF AnyProcessor
  <1>3. q \in Processors(m) BY <1>1, <1>2 DEF Processors
  <1>4. d = Done(q, << >>) BY DEF Done
  <1>5. Echoes(m, q, d)
    <2> HIDE DEF q
    <2>1. QED BY <1>3, <1>4, NothingToEcho
  <1>6. /\ s = [r EXCEPT !.mark = price]
        /\ s.positions = r.positions /\ s.ledger = r.ledger /\ s.mark = price /\ s.seq = r.seq
    <2>1. r \in AnyProcessor BY <1>1, ProcessorIs
    <2>2. s = ApplyEvent(r, e) BY R!FoldOne
    <2> HIDE DEF s, r
    <2>3. s = [r EXCEPT !.mark = price] BY <2>2 DEF ApplyEvent, MarkPriceUpdate
    <2>4. QED BY <2>1, <2>3 DEF AnyProcessor
  <1>7. Follows(s, q) BY <1>1, <1>2, <1>6 DEF Follows
  <1>8. s.positions = d.post.positions BY <1>1, <1>2, <1>6
  <1>9. <<e>> \in Seq(Events(m))
    <2>1. e \in Events(m) BY DEF Events, MarkPriceUpdate
    <2>2. QED BY <2>1
  <1> HIDE DEF q, e
  <1>10. QED BY <1>5, <1>7, <1>8, <1>9, ProcessMirrors DEF m, e

\* The rows a funding settlement walks over.
LEMMA OrderType ==
    ASSUME NEW p, p.positions \in Positions, NEW order \in SetToSeqs(DOMAIN p.positions),
           NEW rate \in Int
    PROVE  [i \in DOMAIN order |-> [user |-> order[i], rate |-> rate]] \in Seq(Rows(p))
  <1> DEFINE S == DOMAIN p.positions
             D == 1 .. Cardinality(S)
             rows == [i \in DOMAIN order |-> [user |-> order[i], rate |-> rate]]
  <1>1. Cardinality(S) \in Nat
    <2>1. S \in SUBSET Users BY PositionsAre
    <2>2. IsFiniteSet(S) BY <2>1, Parameters, FS_Subset
    <2> HIDE DEF S
    <2>3. QED BY <2>2, FS_CardinalityType
  <1>2. order \in [D -> S] BY DEF SetToSeqs
  <1>3. rows \in [D -> Rows(p)]
    <2>1. \A i \in D : [user |-> order[i], rate |-> rate] \in Rows(p) BY <1>2 DEF Rows
    <2>2. DOMAIN order = D BY <1>2
    <2>3. QED BY <2>1, <2>2
  <1> HIDE DEF S, rows
  <1>4. rows \in Seq(Rows(p)) BY <1>1, <1>3
  <1>5. QED BY <1>4 DEF rows

\* A funding settlement: its rate is logged, then what each position paid.
LEMMA FundingMirrors ==
    ASSUME NEW n \in Nat, NEW p, NEW l, Mirrors(n, p, l), NEW rate \in Int,
           NEW order \in SetToSeqs(DOMAIN p.positions),
           NEW d, d = SettleFunding(p, rate, order)
    PROVE  Mirrors(n + 1, d.post, l \o <<FundingRateUpdate(rate)>> \o d.facts)
  <1> DEFINE m == n + 1
             r == Replayed(l)
             e == FundingRateUpdate(rate)
             q == [p EXCEPT !.period = @ + 1]
             rows == [i \in DOMAIN order |-> [user |-> order[i], rate |-> rate]]
             s == R!Fold(r, <<e>>)
  <1>1. /\ m \in Nat /\ p \in Processors(m) /\ r \in Processors(m)
        /\ Follows(r, p) /\ r.positions = p.positions
    BY MirrorIs
  <1> HIDE DEF m
  <1>2. s = r
    <2>1. s = ApplyEvent(r, e) BY R!FoldOne
    <2> HIDE DEF r, s
    <2>2. QED BY <2>1 DEF ApplyEvent, FundingRateUpdate
  <1>3. <<e>> \in Seq(Events(m))
    <2>1. e \in Events(m) BY DEF Events, FundingRateUpdate
    <2>2. QED BY <2>1
  <1>4. Echoes(m, p, d) /\ d.post.positions = p.positions
    <2>1. CASE order # << >> /\ p.mark = 0
      <3>1. d = Done(p, << >>) BY <2>1 DEF SettleFunding
      <3>2. Echoes(m, p, d) BY <1>1, <3>1, NothingToEcho
      <3>3. QED BY <3>1, <3>2 DEF Done
    <2>2. CASE ~(order # << >> /\ p.mark = 0)
      <3>1. d = Chain(q, SettleFundingOf, rows) BY <2>2 DEF SettleFunding
      <3>2. /\ p \in AnyProcessor /\ p.ledger.keys \in SUBSET Keys /\ p.period \in Nat
            /\ p.positions \in Positions
            /\ Books(Users, p.ledger)
            /\ \A k \in p.ledger.keys : GivenOut(k, m, p.seq, p.period)
        BY <1>1, ProcessorIs
      <3>3. /\ q \in AnyProcessor /\ q.positions = p.positions /\ q.ledger = p.ledger
            /\ q.mark = p.mark /\ q.seq = p.seq /\ q.period = p.period + 1
        BY <3>2 DEF AnyProcessor
      <3>4. rows \in Seq(Rows(q))
        <4>1. rows \in Seq(Rows(p)) BY <3>2, OrderType
        <4>2. QED BY <3>3, <4>1 DEF Rows
      <3> HIDE DEF q, rows
      <3>5. q \in Processors(m)
        <4>1. ASSUME NEW k \in q.ledger.keys PROVE GivenOut(k, m, q.seq, q.period)
          <5>1. GivenOut(k, m, p.seq, p.period) /\ k[2] \in Nat BY <3>2, <3>3 DEF Keys
          <5>2. QED BY <3>2, <3>3, <5>1 DEF GivenOut
        <4>2. QED BY <3>2, <3>3, <4>1 DEF Processors
      <3>6. Echoes(m, q, d) /\ d.post.positions = q.positions
        BY <1>1, <3>1, <3>4, <3>5, TickEchoes
      <3>7. Echoes(m, p, d) BY <3>3, <3>6 DEF Echoes, Echo, Follows
      <3>8. QED BY <3>3, <3>6, <3>7
    <2>3. QED BY <2>1, <2>2
  <1>5. Follows(s, p) /\ s.positions = d.post.positions BY <1>1, <1>2, <1>4
  <1> HIDE DEF e
  <1>6. QED BY <1>3, <1>4, <1>5, ProcessMirrors DEF m, e

\* An admin credit: the event is what the live step emits.
LEMMA CreditMirrors ==
    ASSUME NEW n \in Nat, NEW p, NEW l, Mirrors(n, p, l), NEW credit \in Credits,
           NEW key, key = <<"credit", n, credit.user>>,
           NEW d, d = HandleAdminCredit(p, credit.user, credit.amount, key)
    PROVE  Mirrors(n + 1, d.post, l \o << >> \o d.facts)
  <1> DEFINE m == n + 1
             r == Replayed(l)
             user == credit.user
             amount == credit.amount
             e == AdminCredited(user, amount, key)
             lp == Deposit(GetOrCreateAccount(p.ledger, user), user, amount, key)
             q == Replaced(p, lp, p.seq, p.period)
             s == R!Fold(r, << >>)
  <1>1. /\ m \in Nat /\ p \in Processors(m) /\ r \in Processors(m) /\ p \in Processors(n)
        /\ Follows(r, p) /\ r.positions = p.positions
    BY MirrorIs
  <1>2. /\ p.ledger \in Ledgers(Users, Keys) /\ p.seq \in Nat /\ p.period \in Nat
        /\ p.ledger.keys \in SUBSET Keys /\ p \in AnyProcessor
        /\ Books(Users, p.ledger)
        /\ \A k \in p.ledger.keys : GivenOut(k, n, p.seq, p.period)
    BY <1>1, ProcessorIs
  <1>3. IsFiniteSet(Users) /\ SYSTEM \notin Users /\ user \in Users /\ amount \in Nat \ {0}
    BY Parameters DEF Positive
  <1>4. /\ key \in Keys /\ key[1] = "credit" /\ key[2] = n /\ key[2] < m
        /\ p.seq >= p.seq /\ p.period >= p.period
    BY <1>2, <1>3 DEF Keys
  <1>5. key \notin p.ledger.keys
    <2>1. ~GivenOut(key, n, p.seq, p.period) BY <1>4 DEF GivenOut
    <2>2. QED BY <1>2, <2>1
  <1>6. GivenOut(key, m, p.seq, p.period) BY <1>4 DEF GivenOut
  <1> HIDE DEF m, user, amount
  <1>7. /\ lp \in Ledgers(Users, Keys) /\ Books(Users, lp)
        /\ lp.keys = p.ledger.keys \cup {key}
    BY <1>2, <1>3, <1>4, DepositKeepsBooks
  <1>8. d = Done(q, <<e>>)
    BY <1>2 DEF HandleAdminCredit, Replaced, AnyProcessor, user, amount
  <1> HIDE DEF lp
  <1>9. Fits(m, p, lp, key, p.seq, p.period) BY <1>2, <1>4, <1>6, <1>7 DEF Fits
  <1>10. /\ q \in Processors(m) /\ q.positions = p.positions /\ q.ledger = lp
         /\ q.mark = p.mark /\ q.seq = p.seq
    <2> DEFINE seq == p.seq
               period == p.period
    <2>1. q = Replaced(p, lp, seq, period) /\ Fits(m, p, lp, key, seq, period) BY <1>9
    <2>2. seq = p.seq OBVIOUS
    <2> HIDE DEF seq, period, q
    <2>3. QED BY <1>1, <2>1, <2>2, LedgerReplaced
  <1>11. e \in Events(m)
    <2> DEFINE A == {k \in Keys : k[1] = "credit" /\ k[2] < m}
    <2>1. key \in A BY <1>4
    <2> HIDE DEF A
    <2>2. e \in [kind : {"AdminCredited"}, user : Users, amount : Positive, key : A]
      BY <1>3, <2>1 DEF AdminCredited, Positive
    <2>3. QED BY <2>2 DEF Events, A
  <1>12. ASSUME NEW v \in Processors(m), Follows(v, p)
         PROVE  Follows(ApplyEvent(v, e), q) /\ ApplyEvent(v, e).positions = v.positions
    <2> DEFINE lv == Deposit(GetOrCreateAccount(v.ledger, user), user, amount, key)
               w == ApplyEvent(v, e)
    <2>1. v.ledger \in Ledgers(Users, Keys) /\ v \in AnyProcessor BY <1>12, ProcessorIs
    <2>2. v.seq = p.seq /\ v.mark = p.mark /\ Agrees(Users, v.ledger, p.ledger)
      BY <1>12 DEF Follows
    <2>3. w = [v EXCEPT !.ledger = lv] BY DEF ApplyEvent, AdminCredited
    <2>4. w.ledger = lv /\ w.seq = v.seq /\ w.mark = v.mark /\ w.positions = v.positions
      <3> HIDE DEF w, lv
      <3>1. QED BY <2>1, <2>3 DEF AnyProcessor
    <2>5. Agrees(Users, lv, lp)
      BY <1>2, <1>3, <1>4, <1>5, <2>1, <2>2, DepositedAgain DEF lp
    <2> HIDE DEF w, lv
    <2>6. Follows(w, q) BY <1>10, <2>2, <2>4, <2>5 DEF Follows
    <2>7. QED BY <2>4, <2>6 DEF w
  <1> HIDE DEF q, e
  <1>13. Echoes(m, p, d) BY <1>1, <1>8, <1>10, <1>11, <1>12, FactEchoes
  <1>14. s = r BY R!FoldEmpty
  <1>15. Follows(s, p) /\ s.positions = d.post.positions BY <1>1, <1>8, <1>10, <1>14 DEF Done
  <1>16. << >> \in Seq(Events(m)) OBVIOUS
  <1> HIDE DEF s
  <1> DEFINE none == << >>
  <1>17. /\ none \in Seq(Events(n + 1)) /\ Echoes(n + 1, p, d)
         /\ Follows(R!Fold(Replayed(l), none), p)
         /\ R!Fold(Replayed(l), none).positions = d.post.positions
    BY <1>13, <1>15, <1>16 DEF m, s
  <1> HIDE DEF none
  <1>18. Mirrors(n + 1, d.post, l \o none \o d.facts) BY <1>17, ProcessMirrors
  <1>19. QED BY <1>18 DEF none

\* A boot: what it rebuilds follows itself.
LEMMA BootMirrors ==
    ASSUME NEW n \in Nat, NEW l \in Seq(Events(n))
    PROVE  Mirrors(n, Replayed(l), l)
  <1>1. Replayed(l) \in Processors(n) BY ReplayedType
  <1>2. Follows(Replayed(l), Replayed(l)) BY DEF Follows, Agrees
  <1>3. QED BY <1>1, <1>2 DEF Mirrors

\* A command that ends in d, given that the log mirrors d.
LEMMA ProcessKeeps ==
    ASSUME Inv, NEW ev, NEW d, Process(ev, d), Mirrors(commands + 1, d.post, log \o ev \o d.facts)
    PROVE  Inv'
  BY DEF Inv, Process

\* Every command leaves a log that mirrors the processor.
LEMMA Inductive == Inv /\ [Next]_vars => Inv'
  <1> SUFFICES ASSUME Inv, [Next]_vars PROVE Inv' OBVIOUS
  <1>1. commands \in Nat /\ Mirrors(commands, post, log) BY DEF Inv
  <1>2. ASSUME NEW s \in Sweeps, Trade(s) PROVE Inv'
    <2> DEFINE fs == FillsOf(s)
               d == Chain(post, ConsumeFill, fs)
    <2>1. Process(fs, d) BY <1>2 DEF Trade
    <2>2. fs \in Seq(Fills) BY FillsOfType
    <2>3. d = Chain(post, ConsumeFill, fs) OBVIOUS
    <2> HIDE DEF d, fs
    <2>4. Mirrors(commands + 1, d.post, log \o fs \o d.facts) BY <1>1, <2>2, <2>3, TradeMirrors
    <2>5. QED BY <2>1, <2>4, ProcessKeeps
  <1>3. ASSUME NEW p \in MarkPrices, UpdateMark(p) PROVE Inv'
    <2> DEFINE ev == <<MarkPriceUpdate(p)>>
               d == Done([post EXCEPT !.mark = p], << >>)
    <2>1. Process(ev, d) BY <1>3 DEF UpdateMark
    <2>2. p \in Positive BY Parameters
    <2>3. Mirrors(commands + 1, d.post, log \o ev \o d.facts) BY <1>1, <2>2, MarkMirrors
    <2> HIDE DEF d, ev
    <2>4. QED BY <2>1, <2>3, ProcessKeeps
  <1>4. ASSUME NEW r \in Rates, ComputeFunding(r) PROVE Inv'
    <2>1. PICK order \in SetToSeqs(DOMAIN post.positions) :
             Process(<<FundingRateUpdate(r)>>, SettleFunding(post, r, order))
      BY <1>4 DEF ComputeFunding
    <2> DEFINE ev == <<FundingRateUpdate(r)>>
               d == SettleFunding(post, r, order)
    <2>2. r \in Int BY Parameters
    <2>3. Mirrors(commands + 1, d.post, log \o ev \o d.facts) BY <1>1, <2>2, FundingMirrors
    <2>4. Process(ev, d) BY <2>1
    <2> HIDE DEF d, ev
    <2>5. QED BY <2>3, <2>4, ProcessKeeps
  <1>5. ASSUME NEW c \in Credits, AdminCredit(c) PROVE Inv'
    <2> DEFINE key == <<"credit", commands, c.user>>
               ev == << >>
               d == HandleAdminCredit(post, c.user, c.amount, key)
    <2>1. Process(ev, d) BY <1>5 DEF AdminCredit
    <2>2. Mirrors(commands + 1, d.post, log \o ev \o d.facts) BY <1>1, CreditMirrors
    <2> HIDE DEF d, ev
    <2>3. QED BY <2>1, <2>2, ProcessKeeps
  <1>6. ASSUME Reboot PROVE Inv'
    <2>1. PICK n \in 0 .. Len(log) :
             log' = SubSeq(log, 1, n) /\ post' = Replayed(SubSeq(log, 1, n))
      BY <1>6 DEF Reboot
    <2>2. commands' = commands BY <1>6 DEF Reboot
    <2> DEFINE E == Events(commands)
    <2>3. log \in Seq(E) BY <1>1 DEF Mirrors
    <2> HIDE DEF E
    <2>4. log' \in Seq(E)
      <3>1. \A i \in 1 .. n : log[i] \in E BY <2>3
      <3>2. QED BY <2>1, <2>3, <3>1, SubSeqProperties
    <2>5. Mirrors(commands, Replayed(log'), log') BY <1>1, <2>4, BootMirrors DEF E
    <2>6. QED BY <1>1, <2>1, <2>2, <2>5 DEF Inv
  <1>7. CASE UNCHANGED vars BY <1>1, <1>7 DEF Inv, vars
  <1>8. QED BY <1>2, <1>3, <1>4, <1>5, <1>6, <1>7 DEF Next

\* A boot leaves a log that mirrors the processor.
LEMMA Initial == Init => Inv
  <1> SUFFICES ASSUME Init PROVE Inv OBVIOUS
  <1> DEFINE l == << >>
             n == 0
  <1>1. l \in Seq(Events(n)) /\ n \in Nat OBVIOUS
  <1>2. Replayed(l) = NewProcessor BY ReplayedIsFold, R!FoldEmpty
  <1> HIDE DEF l, n
  <1>3. Mirrors(n, Replayed(l), l) BY <1>1, BootMirrors
  <1>4. QED BY <1>1, <1>2, <1>3 DEF Inv, Init, l, n

\* The log mirrors the processor in every reachable state.
LEMMA Invariance == Spec => []Inv
  BY Initial, Inductive, PTL DEF Spec

-----------------------------------------------------------------------------
(* What follows.                                                           *)

\* No user is ever overdrawn, and the money users and SYSTEM hold is what came
\* from outside: verify_all_invariants never fails, neither on the matching
\* thread nor in a boot, whatever prefix of the log a crash keeps.
THEOREM LedgerAlwaysVerifies == Spec => []LedgerVerified
  <1>1. Inv => LedgerVerified
    <2> SUFFICES ASSUME Inv PROVE LedgerVerified OBVIOUS
    <2>1. post \in Processors(commands) BY DEF Inv, Mirrors
    <2>2. Books(Users, post.ledger) BY <2>1, ProcessorIs
    <2>3. QED BY <2>2 DEF Books, LedgerVerified
  <1>2. QED BY <1>1, Invariance, PTL

\* The journal explains every balance, capped settlements included.
THEOREM JournalAlwaysExplains == Spec => []JournalExplainsBalances
  <1>1. Inv => JournalExplainsBalances
    <2> SUFFICES ASSUME Inv PROVE JournalExplainsBalances OBVIOUS
    <2>1. post \in Processors(commands) BY DEF Inv, Mirrors
    <2>2. \A u \in Users : Explained(post.ledger, u) BY <2>1, ProcessorIs DEF Books
    <2>3. QED BY <2>2 DEF Explained, JournalExplainsBalances
  <1>2. QED BY <1>1, Invariance, PTL

\* apply_event rebuilds from the log what consume had made: positions, money,
\* journal, mark price and the number of the next pnl key.
THEOREM ReplayAlwaysEqualsLive == Spec => []ReplayEqualsLive
  <1>1. Inv => ReplayEqualsLive
    BY DEF Inv, Mirrors, Follows, Agrees, ReplayEqualsLive
  <1>2. QED BY <1>1, Invariance, PTL

Net == INSTANCE CollectionLaws WITH op <- AddFill

\* The net of the fills per user is a fold.
LEMMA NetsAreFolds ==
    ASSUME NEW s
    PROVE  NetsOfFills(s) = Net!Fold([u \in Users |-> 0], s)
  BY DEF NetsOfFills, Net!Fold, FoldLeft, MapThenFoldSet, Max, Net!FoldLeft,
         Net!MapThenFoldSet, Net!Max

\* The positions a replay ends with are the nets of the fills in the log.
LEMMA PositionsFollowFills ==
    ASSUME NEW n \in Nat, NEW s \in Seq(Events(n)), NEW u \in Users
    PROVE  NetsOfFills(s)[u] = Exposure(Replayed(s).positions, u)
  <1> DEFINE zero == [v \in Users |-> 0]
  <1>1. PICK tr : R!IsTrace(tr, NewProcessor, s) /\ R!Fold(NewProcessor, s) = tr[Len(s)]
    BY R!FoldTrace
  <1> DEFINE G == [i \in Nat |-> {w \in [Users -> Int] :
                                    \A v \in Users : w[v] = Exposure(tr[i].positions, v)}]
  <1>2. \A i \in 0 .. Len(s) : tr[i] \in Processors(n)
    BY <1>1, NewProcessorType, ReplayStep, R!TraceKeeps
  <1>3. zero \in G[0]
    <2>1. tr[0] = NewProcessor BY <1>1 DEF R!IsTrace
    <2>2. \A v \in Users : Exposure(tr[0].positions, v) = 0
      BY <2>1 DEF NewProcessor, Exposure
    <2>3. QED BY <2>2
  <1>4. ASSUME NEW i \in 1 .. Len(s), NEW w \in G[i - 1]
        PROVE  AddFill(w, s[i]) \in G[i]
    <2> DEFINE e == s[i]
               j == i - 1
               p == tr[j]
               q == tr[i]
               x == AddFill(w, e)
    <2>1. i \in Nat /\ j \in Nat /\ j \in 0 .. Len(s) /\ e \in Events(n) OBVIOUS
    <2>2. w \in [Users -> Int] /\ \A v \in Users : w[v] = Exposure(p.positions, v)
      BY <1>4, <2>1
    <2>3. q = ApplyEvent(p, e) BY <1>1 DEF R!IsTrace
    <2>4. p \in AnyProcessor /\ p.positions \in Positions BY <1>2, <2>1, ProcessorIs
    <2> HIDE DEF G, p, q, e, j
    <2>5. x \in [Users -> Int] /\ \A v \in Users : x[v] = Exposure(q.positions, v)
      <3>1. CASE e \in Fills
        <4>1. e.kind = "OrderFilled" /\ e.user \in Users /\ e.side \in Sides /\ e.qty \in Positive
          BY <3>1 DEF Fills
        <4>2. q.positions = ApplyFillToPosition(p.positions, e).positions
          BY <2>3, <2>4, <4>1 DEF ApplyEvent, AnyProcessor
        <4>3. \A v \in Users : Exposure(q.positions, v)
                                = Exposure(p.positions, v) + IF v = e.user THEN Signed(e.side, e.qty) ELSE 0
          BY <2>4, <3>1, <4>2, FillApplied
        <4> DEFINE signed == Signed(e.side, e.qty)
        <4>4. signed \in Int BY <4>1 DEF Signed, Positive
        <4>5. x = [w EXCEPT ![e.user] = @ + signed] BY <4>1 DEF AddFill
        <4> HIDE DEF signed
        <4>6. x \in [Users -> Int] BY <2>2, <4>1, <4>4, <4>5
        <4>7. \A v \in Users : x[v] = w[v] + IF v = e.user THEN signed ELSE 0
          BY <2>2, <4>1, <4>4, <4>5
        <4>8. QED BY <2>2, <4>3, <4>6, <4>7 DEF signed
      <3>2. CASE e \notin Fills
        <4>1. e.kind # "OrderFilled"
          BY <2>1, <3>2 DEF Events, Facts
        <4>2. x = w BY <4>1 DEF AddFill
        <4>3. q.positions = p.positions
          BY <2>1, <2>3, <2>4, <3>2 DEF ApplyEvent, ReplayRealizedPnl, ReplayFundingSettled,
             AnyProcessor, Events, Facts
        <4>4. QED BY <2>2, <4>2, <4>3
      <3>3. QED BY <3>1, <3>2
    <2>6. QED BY <2>1, <2>5 DEF G, q, e
  <1>5. Net!Leads(G, s) BY <1>4 DEF Net!Leads
  <1>6. Net!Fold(zero, s) \in G[Len(s)]
    <2> HIDE DEF G, zero
    <2>1. QED BY <1>3, <1>5, Net!FoldAlong
  <1>7. NetsOfFills(s) = Net!Fold(zero, s) BY NetsAreFolds
  <1>8. Replayed(s) = tr[Len(s)] BY <1>1, ReplayedIsFold
  <1>9. Len(s) \in Nat OBVIOUS
  <1> HIDE DEF zero
  <1>10. QED BY <1>6, <1>7, <1>8, <1>9

\* A position is the net of its user's fills, at all times and after any boot.
THEOREM PositionsAlwaysProjectFills == Spec => []PositionsProjectFills
  <1>1. Inv => PositionsProjectFills
    <2> SUFFICES ASSUME Inv, NEW u \in Users
                 PROVE  NetsOfFills(log)[u] = Exposure(post.positions, u)
      BY DEF PositionsProjectFills
    <2>1. commands \in Nat /\ log \in Seq(Events(commands))
          /\ Replayed(log).positions = post.positions
      BY DEF Inv, Mirrors
    <2>2. NetsOfFills(log)[u] = Exposure(Replayed(log).positions, u)
      BY <2>1, PositionsFollowFills
    <2>3. QED BY <2>1, <2>2
  <1>2. QED BY <1>1, Invariance, PTL

-----------------------------------------------------------------------------
(* Settlements are never swallowed by a used key.                          *)

LEMMA SameBooks ==
    ASSUME NEW U, NEW l, NEW m, m.accounts = l.accounts, m.system = l.system,
           m.journal = l.journal, Books(U, l)
    PROVE  Books(U, m) /\ \A u : Available(m, u) = Available(l, u)
  <1>1. \A p : Balance(m, p) = Balance(l, p) BY DEF Balance
  <1>2. Places(m) = Places(l) BY DEF Places
  <1>3. UsersTotal(m) = UsersTotal(l) BY <1>1, <1>2 DEF UsersTotal
  <1>4. NetExternal(m) = NetExternal(l) BY DEF NetExternal
  <1>5. VerifyAllInvariants(m) BY <1>1, <1>2, <1>3, <1>4 DEF Books, VerifyAllInvariants
  <1>6. \A u : Available(m, u) = Available(l, u) BY <1>1 DEF Available
  <1>7. QED BY <1>5, <1>6 DEF Books, Explained

\* v has what p has, and may have used fewer keys.
Twin(v, p) ==
    v.positions = p.positions /\ v.seq = p.seq /\ Agrees(Users, v.ledger, p.ledger)

\* A processor that forgot its keys is a twin of the one that did not.
LEMMA ForgetfulTwin ==
    ASSUME NEW n, NEW p \in Processors(n), NEW v, v = Forgetful(p)
    PROVE  v \in Processors(n) /\ Twin(v, p)
  <1> DEFINE l == p.ledger
             m == [l EXCEPT !.keys = {}]
  <1>1. /\ l \in Ledgers(Users, Keys) /\ p \in AnyProcessor
        /\ Books(Users, l)
    BY ProcessorIs
  <1>2. /\ m \in Ledgers(Users, Keys) /\ m.accounts = l.accounts /\ m.system = l.system
        /\ m.journal = l.journal /\ m.keys = {}
    BY <1>1 DEF Ledgers
  <1> HIDE DEF m
  <1>3. Books(Users, m) /\ \A u : Available(m, u) = Available(l, u)
    BY <1>1, <1>2, SameBooks
  <1>4. v = [p EXCEPT !.ledger = m] BY <1>1 DEF Forgetful, m, AnyProcessor
  <1>5. /\ v \in AnyProcessor /\ v.ledger = m /\ v.positions = p.positions /\ v.seq = p.seq
    BY <1>1, <1>2, <1>4 DEF AnyProcessor
  <1>6. v \in Processors(n) BY <1>2, <1>3, <1>5 DEF Processors
  <1>7. Agrees(Users, m, l) BY <1>2, <1>3 DEF Agrees
  <1>8. QED BY <1>5, <1>6, <1>7 DEF Twin

\* The key of a profit or loss is a new one, with or without a memory of the
\* used ones.
LEMMA PnlTwins ==
    ASSUME NEW n \in Nat, NEW p \in Processors(n), NEW v \in Processors(n), Twin(v, p),
           NEW user \in Users, NEW pnl \in Int,
           NEW x, x = SettleRealizedPnl(p, user, pnl), NEW y, y = SettleRealizedPnl(v, user, pnl)
    PROVE  Twin(y.post, x.post)
  <1> DEFINE seq == p.seq + 1
             key == <<"pnl", seq, user>>
             had == Available(p.ledger, user)
             s == SettleCapped(GetOrCreateAccount(p.ledger, user), user, pnl, key)
             t == SettleCapped(GetOrCreateAccount(v.ledger, user), user, pnl, key)
  <1>1. /\ p.ledger \in Ledgers(Users, Keys) /\ p.seq \in Nat /\ p \in AnyProcessor
        /\ Books(Users, p.ledger)
        /\ \A k \in p.ledger.keys : GivenOut(k, n, p.seq, p.period)
    BY ProcessorIs
  <1>2. v.ledger \in Ledgers(Users, Keys) /\ v \in AnyProcessor BY ProcessorIs
  <1>3. IsFiniteSet(Users) /\ SYSTEM \notin Users BY Parameters
  <1>4. had \in Nat BY <1>1, <1>3, NothingOverdrawn
  <1>5. /\ Available(v.ledger, user) = had /\ v.seq = p.seq /\ v.positions = p.positions
        /\ Agrees(Users, v.ledger, p.ledger)
    BY DEF Twin, Agrees
  <1>6. CASE pnl = 0 \/ (pnl < 0 /\ had = 0)
    <2>1. x = Done(p, << >>) BY <1>6 DEF SettleRealizedPnl
    <2>2. y = Done(v, << >>) BY <1>5, <1>6 DEF SettleRealizedPnl
    <2>3. QED BY <2>1, <2>2 DEF Done
  <1>7. CASE ~(pnl = 0 \/ (pnl < 0 /\ had = 0))
    <2>1. key \in Keys BY <1>1 DEF Keys
    <2>2. key \notin p.ledger.keys
      <3>1. key[1] = "pnl" /\ key[2] = p.seq + 1 OBVIOUS
      <3>2. ~GivenOut(key, n, p.seq, p.period) BY <1>1, <3>1 DEF GivenOut
      <3>3. QED BY <1>1, <3>2
    <2>3. key \notin v.ledger.keys BY <1>5, <2>2 DEF Agrees
    <2>4. /\ s = SettleCapped(GetOrCreateAccount(p.ledger, user), user, pnl, key)
          /\ t = SettleCapped(GetOrCreateAccount(v.ledger, user), user, pnl, key)
      OBVIOUS
    <2> HIDE DEF s, t, key, seq
    <2>5. /\ s.moved \in Int
          /\ s.moved = IF pnl > 0 THEN pnl ELSE -(IF -pnl <= had THEN -pnl ELSE had)
          /\ Receives(Users, p.ledger, s.ledger, user, s.moved, s.moved, "FundingPayment", key)
      BY <1>1, <1>3, <1>7, <2>1, <2>2, <2>4, SettleEffect
    <2>6. /\ t.moved = IF pnl > 0 THEN pnl
                       ELSE -(IF -pnl <= Available(v.ledger, user) THEN -pnl
                              ELSE Available(v.ledger, user))
          /\ Receives(Users, v.ledger, t.ledger, user, t.moved, t.moved, "FundingPayment", key)
      BY <1>2, <1>3, <1>7, <2>1, <2>3, <2>4, SettleEffect
    <2>7. t.moved = s.moved BY <1>5, <2>5, <2>6
    <2>8. s.moved # 0
      <3> DEFINE moved == s.moved
      <3> HIDE DEF had, moved
      <3>1. moved = IF pnl > 0 THEN pnl ELSE -(IF -pnl <= had THEN -pnl ELSE had)
        BY <2>5 DEF moved
      <3>2. moved # 0 BY <1>4, <1>7, <3>1
      <3>3. QED BY <3>2 DEF moved
    <2>9. Agrees(Users, t.ledger, s.ledger)
      BY <1>1, <1>2, <1>3, <1>5, <2>5, <2>6, <2>7, ReceivingAgrees
    <2>10. x.post = [p EXCEPT !.ledger = s.ledger, !.seq = seq]
      BY <1>1, <1>7, <2>8 DEF SettleRealizedPnl, Done, AnyProcessor, s, key, seq
    <2>11. y.post = [v EXCEPT !.ledger = t.ledger, !.seq = seq]
      <3>1. t.moved # 0 BY <2>7, <2>8
      <3>2. QED BY <1>2, <1>5, <1>7, <3>1 DEF SettleRealizedPnl, Done, AnyProcessor, t, key, seq
    <2>12. /\ x.post.ledger = s.ledger /\ x.post.seq = seq /\ x.post.positions = p.positions
      BY <1>1, <2>10 DEF AnyProcessor
    <2>13. /\ y.post.ledger = t.ledger /\ y.post.seq = seq /\ y.post.positions = v.positions
      BY <1>2, <2>11 DEF AnyProcessor
    <2>14. QED BY <1>5, <2>9, <2>12, <2>13 DEF Twin
  <1>8. QED BY <1>6, <1>7

\* A fill settled on twins leaves twins.
LEMMA FillTwins ==
    ASSUME NEW n \in Nat, NEW p \in Processors(n), NEW v \in Processors(n), Twin(v, p),
           NEW f \in Fills, NEW x, x = ConsumeFill(p, f), NEW y, y = ConsumeFill(v, f)
    PROVE  Twin(y.post, x.post)
  <1> DEFINE a == ApplyFillToPosition(p.positions, f)
             q == [p EXCEPT !.positions = a.positions]
             w == [v EXCEPT !.positions = a.positions]
  <1>1. /\ p.positions \in Positions /\ p \in AnyProcessor
        /\ Books(Users, p.ledger)
        /\ \A k \in p.ledger.keys : GivenOut(k, n, p.seq, p.period)
    BY ProcessorIs
  <1>2. /\ v \in AnyProcessor
        /\ Books(Users, v.ledger)
        /\ \A k \in v.ledger.keys : GivenOut(k, n, v.seq, v.period)
    BY ProcessorIs
  <1>3. v.positions = p.positions /\ v.seq = p.seq /\ Agrees(Users, v.ledger, p.ledger)
    BY DEF Twin
  <1>4. a.positions \in Positions /\ a.pnl \in Int BY <1>1, FillApplied
  <1>5. f.user \in Users BY DEF Fills
  <1>6. x = SettleRealizedPnl(q, f.user, a.pnl) BY DEF ConsumeFill
  <1>7. y = SettleRealizedPnl(w, f.user, a.pnl) BY <1>3 DEF ConsumeFill
  <1> HIDE DEF a
  <1>8. /\ q \in AnyProcessor /\ q.positions = a.positions /\ q.ledger = p.ledger
        /\ q.seq = p.seq /\ q.period = p.period
    BY <1>1, <1>4 DEF AnyProcessor
  <1>9. /\ w \in AnyProcessor /\ w.positions = a.positions /\ w.ledger = v.ledger
        /\ w.seq = v.seq /\ w.period = v.period
    BY <1>2, <1>4 DEF AnyProcessor
  <1> HIDE DEF q, w
  <1>10. q \in Processors(n) BY <1>1, <1>8 DEF Processors
  <1>11. w \in Processors(n) BY <1>2, <1>9 DEF Processors
  <1>12. Twin(w, q) BY <1>3, <1>8, <1>9 DEF Twin
  <1> DEFINE pnl == a.pnl
             user == f.user
  <1>13. /\ x = SettleRealizedPnl(q, user, pnl) /\ y = SettleRealizedPnl(w, user, pnl)
         /\ user \in Users /\ pnl \in Int
    BY <1>4, <1>5, <1>6, <1>7
  <1> HIDE DEF pnl, user
  <1>14. QED BY <1>10, <1>11, <1>12, <1>13, PnlTwins

\* A sweep settled on twins leaves twins.
LEMMA TradeTwins ==
    ASSUME NEW n \in Nat, NEW p \in Processors(n), NEW v \in Processors(n), Twin(v, p),
           NEW fs \in Seq(Fills), NEW x, x = Chain(p, ConsumeFill, fs),
           NEW y, y = Chain(v, ConsumeFill, fs)
    PROVE  Twin(y.post, x.post)
  <1> DEFINE d0 == Done(p, << >>)
             c0 == Done(v, << >>)
  <1>1. PICK tr : FillFold!IsTrace(tr, c0, fs) /\ FillFold!Fold(c0, fs) = tr[Len(fs)]
    BY FillFold!FoldTrace
  <1> DEFINE G == [i \in Nat |-> {d \in Dones(n) : Twin(tr[i].post, d.post)}]
  <1>2. ASSUME NEW d \in Dones(n), NEW f \in Fills
        PROVE  /\ AfterFill(d, f) \in Dones(n) /\ d.post \in Processors(n)
               /\ AfterFill(d, f).post = ConsumeFill(d.post, f).post
    <2> DEFINE e == ConsumeFill(d.post, f)
               q == AfterFill(d, f)
    <2>1. d.post \in Processors(n) /\ d.facts \in Seq(Events(n)) BY DEF Dones
    <2>2. Echoes(n, d.post, e) BY <2>1, FillEchoes
    <2>3. e.post \in Processors(n) /\ e.facts \in Seq(Events(n)) BY <2>2 DEF Echoes
    <2>4. q = Done(e.post, d.facts \o e.facts) BY DEF AfterFill
    <2> HIDE DEF e, q
    <2>5. d.facts \o e.facts \in Seq(Events(n)) BY <2>1, <2>3, ConcatProperties
    <2>6. q \in Dones(n) /\ q.post = e.post BY <2>3, <2>4, <2>5 DEF Done, Dones
    <2>7. QED BY <2>1, <2>6 DEF e, q
  <1>3. \A i \in 0 .. Len(fs) : tr[i] \in Dones(n)
    <2>1. c0 \in Dones(n) BY NothingDone
    <2> HIDE DEF c0
    <2>2. QED BY <1>1, <1>2, <2>1, FillFold!TraceKeeps
  <1>4. d0 \in G[0]
    <2>1. d0.post = p /\ d0 \in Dones(n) BY NothingDone
    <2>2. tr[0] = c0 /\ c0.post = v BY <1>1 DEF FillFold!IsTrace, Done
    <2>3. QED BY <2>1, <2>2
  <1>5. ASSUME NEW i \in 1 .. Len(fs), NEW d \in G[i - 1]
        PROVE  AfterFill(d, fs[i]) \in G[i]
    <2> DEFINE f == fs[i]
               j == i - 1
               c == tr[j]
    <2>1. i \in Nat /\ j \in Nat /\ j \in 0 .. Len(fs) /\ f \in Fills OBVIOUS
    <2>2. d \in Dones(n) /\ Twin(c.post, d.post) BY <1>5, <2>1
    <2>3. tr[i] = AfterFill(c, f) BY <1>1 DEF FillFold!IsTrace
    <2>4. c \in Dones(n) BY <1>3, <2>1
    <2> HIDE DEF G, c, j, f
    <2>5. /\ AfterFill(d, f) \in Dones(n) /\ d.post \in Processors(n)
          /\ AfterFill(d, f).post = ConsumeFill(d.post, f).post
          /\ c.post \in Processors(n) /\ tr[i].post = ConsumeFill(c.post, f).post
      BY <1>2, <2>1, <2>2, <2>3, <2>4
    <2>6. Twin(ConsumeFill(c.post, f).post, ConsumeFill(d.post, f).post)
      BY <2>1, <2>2, <2>5, FillTwins
    <2>7. QED BY <2>1, <2>5, <2>6 DEF G, f
  <1>6. FillFold!Leads(G, fs) BY <1>5 DEF FillFold!Leads
  <1>7. x = FillFold!Fold(d0, fs) /\ y = FillFold!Fold(c0, fs) BY ChainsAreFolds
  <1>8. x \in G[Len(fs)]
    <2> HIDE DEF G, d0, c0
    <2>1. QED BY <1>4, <1>6, <1>7, FillFold!FoldAlong
  <1>9. Len(fs) \in Nat OBVIOUS
  <1>10. QED BY <1>1, <1>7, <1>8, <1>9

PaidOf(p, user, rate) ==
    LET had == Available(p.ledger, user)
    IN  had - Min({Payment(p, user, rate), had})

\* Payments depend on the positions and the mark price alone.
SameBusiness(q, p) == q.positions = p.positions /\ q.mark = p.mark /\ q.period = p.period
FundingKey(p, user) == <<"funding", p.period, user>>

\* With a new key a position pays what it owes or all its user has.
LEMMA FundingPaid ==
    ASSUME NEW n \in Nat, NEW p \in Processors(n), NEW row, row.user \in DOMAIN p.positions,
           row.rate \in Int, FundingKey(p, row.user) \notin p.ledger.keys,
           NEW x, x = SettleFundingOf(p, row).post
    PROVE  /\ SameBusiness(x, p)
           /\ x.ledger.keys \subseteq p.ledger.keys \cup {FundingKey(p, row.user)}
           /\ \A u \in Users : Available(x.ledger, u) =
                 IF u = row.user THEN PaidOf(p, u, row.rate) ELSE Available(p.ledger, u)
  <1> DEFINE user == row.user
             payment == Payment(p, user, row.rate)
             had == Available(p.ledger, user)
             owed == -payment
             key == FundingKey(p, user)
             s == SettleCapped(GetOrCreateAccount(p.ledger, user), user, owed, key)
             moved == s.moved
             paid == PaidOf(p, user, row.rate)
  <1>1. /\ p.ledger \in Ledgers(Users, Keys) /\ p.seq \in Nat /\ p.period \in Nat
        /\ p.mark \in Nat /\ p.positions \in Positions /\ p \in AnyProcessor
        /\ Books(Users, p.ledger)
    BY ProcessorIs
  <1>2. IsFiniteSet(Users) /\ SYSTEM \notin Users BY Parameters
  <1>3. /\ user \in Users /\ p.positions[user] \in Position
    BY <1>1, PositionsAre
  <1>4. payment \in Int
    <2> DEFINE size == p.positions[user].size
               mark == p.mark
               rate == IF p.positions[user].side = "Buy" THEN row.rate ELSE -row.rate
    <2>1. size \in Int /\ mark \in Int /\ rate \in Int BY <1>1, <1>3 DEF Position, Positive
    <2>2. payment = size * mark * rate BY DEF Payment
    <2> HIDE DEF size, mark, rate, payment
    <2>3. size * mark \in Int BY <2>1
    <2>4. QED BY <2>1, <2>2, <2>3
  <1>5. had \in Nat BY <1>1, <1>2, <1>3, NothingOverdrawn
  <1>6. paid = had - IF payment <= had THEN payment ELSE had
    <2>1. paid = had - Min({payment, had}) BY DEF PaidOf
    <2> HIDE DEF paid, had, payment
    <2>2. Min({payment, had}) = IF payment <= had THEN payment ELSE had BY <1>4, <1>5, MinOfTwo
    <2>3. QED BY <2>1, <2>2
  <1>7. CASE payment = 0
    <2>1. x = p BY <1>7 DEF SettleFundingOf, Done
    <2>2. paid = had
      <3> HIDE DEF paid, had, payment
      <3>1. QED BY <1>5, <1>6, <1>7
    <2>3. QED BY <2>1, <2>2 DEF SameBusiness
  <1>8. CASE payment # 0
    <2>1. owed \in Int /\ owed # 0
      <3> HIDE DEF payment
      <3>1. QED BY <1>4, <1>8
    <2>2. key \in Keys BY <1>1, <1>3 DEF Keys, FundingKey
    <2>3. s = SettleCapped(GetOrCreateAccount(p.ledger, user), user, owed, key) OBVIOUS
    <2>4. x = [p EXCEPT !.ledger = s.ledger] BY <1>8 DEF SettleFundingOf, Done, FundingKey
    <2>5. x.ledger = s.ledger /\ SameBusiness(x, p)
      <3> HIDE DEF s
      <3>1. QED BY <1>1, <2>4 DEF AnyProcessor, SameBusiness
    <2> HIDE DEF s, key, owed, payment
    <2>6. /\ moved \in Int
          /\ moved = IF owed > 0 THEN owed ELSE -(IF -owed <= had THEN -owed ELSE had)
          /\ Receives(Users, p.ledger, s.ledger, user, moved, moved, "FundingPayment", key)
      BY <1>1, <1>2, <1>3, <2>1, <2>2, <2>3, SettleEffect DEF key
    <2>7. s.ledger.keys = p.ledger.keys \cup {key} BY <2>6 DEF Receives
    <2>8. had + moved = paid
      <3> HIDE DEF moved, had, paid
      <3>1. owed = -payment BY DEF owed
      <3>2. QED BY <1>4, <1>5, <1>6, <2>6, <3>1
    <2>9. ASSUME NEW u \in Users
          PROVE  Available(s.ledger, u) = IF u = user THEN paid ELSE Available(p.ledger, u)
      <3>1. FundingOf(u) \in UserPlaces(Users) BY PlaceOfUser
      <3>2. Balance(p.ledger, FundingOf(u)) \in Int BY <1>1, <1>2, <3>1, BalanceType
      <3>3. Balance(s.ledger, FundingOf(u)) = Balance(p.ledger, FundingOf(u))
                + IF FundingOf(u) = FundingOf(user) THEN moved ELSE 0
        BY <2>6, <3>1 DEF Receives, Moved
      <3>4. FundingOf(u) = FundingOf(user) <=> u = user BY DEF FundingOf, Place
      <3> DEFINE a == Available(s.ledger, u)
                 b == Available(p.ledger, u)
      <3>5. a = b + (IF u = user THEN moved ELSE 0) /\ b \in Int
        BY <3>2, <3>3, <3>4 DEF Available, FundingOf
      <3>6. u = user => b = had OBVIOUS
      <3> HIDE DEF a, b, moved, had, paid
      <3>7. a = IF u = user THEN paid ELSE b BY <2>8, <3>5, <3>6
      <3>8. QED BY <3>7 DEF a, b
    <2>10. QED BY <2>5, <2>7, <2>9 DEF key
  <1>9. QED BY <1>7, <1>8

\* An order lists every position, and each once.
LEMMA OrderComplete ==
    ASSUME NEW S, IsFiniteSet(S), NEW order \in SetToSeqs(S)
    PROVE  /\ Len(order) \in Nat /\ DOMAIN order = 1 .. Len(order)
           /\ \A i \in 1 .. Len(order) : order[i] \in S
           /\ \A u \in S : \E i \in 1 .. Len(order) : order[i] = u
           /\ \A i, j \in 1 .. Len(order) : i # j => order[i] # order[j]
  <1> DEFINE c == Cardinality(S)
             D == 1 .. c
  <1>1. c \in Nat BY FS_CardinalityType
  <1>2. order \in [D -> S] /\ \A i, j \in D : i # j => order[i] # order[j] BY DEF SetToSeqs
  <1>3. order \in Injection(D, S) BY <1>2 DEF Injection, IsInjective
  <1>4. Cardinality(D) = c
    <2> HIDE DEF c
    <2>1. Cardinality(1 .. c) = IF 1 > c THEN 0 ELSE c - 1 + 1 BY <1>1, FS_Interval
    <2>2. QED BY <1>1, <2>1
  <1>5. order \in Surjection(D, S)
    <2> HIDE DEF D
    <2>1. QED BY <1>3, <1>4, FS_Injection
  <1>6. \A u \in S : \E i \in D : order[i] = u BY <1>5 DEF Surjection
  <1>7. Len(order) = c /\ DOMAIN order = D
    <2> HIDE DEF c
    <2>1. QED BY <1>1, <1>2
  <1> HIDE DEF c
  <1>8. QED BY <1>1, <1>2, <1>6, <1>7

\* What users have after the first i positions of a tick: q is the processor at
\* the beginning of it, and the keys of the others are still new.
Settled(q, rate, order, i, x) ==
    /\ SameBusiness(x, q)
    /\ \A u \in DOMAIN q.positions : Available(x.ledger, u) =
          IF \E j \in 1 .. i : order[j] = u THEN PaidOf(q, u, rate) ELSE Available(q.ledger, u)
    /\ \A j \in 1 .. Len(order) : j > i => FundingKey(q, order[j]) \notin x.ledger.keys

\* One more row of a funding settlement pays that user what it owes.
LEMMA OneMorePaid ==
    ASSUME NEW n \in Nat, NEW q, q.positions \in Positions,
           NEW order \in SetToSeqs(DOMAIN q.positions), NEW rate \in Int,
           NEW i \in 1 .. Len(order), NEW x \in Processors(n),
           Settled(q, rate, order, i - 1, x), NEW row, row = [user |-> order[i], rate |-> rate],
           NEW y, y = SettleFundingOf(x, row).post
    PROVE  Settled(q, rate, order, i, y)
  <1> DEFINE S == DOMAIN q.positions
             user == order[i]
             key == FundingKey(q, user)
  <1>1. S \in SUBSET Users /\ IsFiniteSet(S)
    <2>1. S \in SUBSET Users BY PositionsAre
    <2>2. QED BY <2>1, Parameters, FS_Subset
  <1>2. /\ Len(order) \in Nat
        /\ \A j \in 1 .. Len(order) : order[j] \in S
        /\ \A j, k \in 1 .. Len(order) : j # k => order[j] # order[k]
    <2> HIDE DEF S
    <2>1. order \in SetToSeqs(S) BY DEF S
    <2>2. QED BY <1>1, <2>1, OrderComplete
  <1>3. SameBusiness(x, q) BY DEF Settled
  <1>4. key = FundingKey(x, user) /\ key \notin x.ledger.keys
    <2>1. i > i - 1 OBVIOUS
    <2>2. QED BY <1>3, <2>1 DEF Settled, SameBusiness, FundingKey
  <1>5. row.user = user /\ row.rate = rate /\ user \in DOMAIN x.positions
    BY <1>2, <1>3 DEF SameBusiness
  <1>6. /\ SameBusiness(y, x)
        /\ y.ledger.keys \subseteq x.ledger.keys \cup {FundingKey(x, row.user)}
        /\ \A u \in Users : Available(y.ledger, u) =
              IF u = row.user THEN PaidOf(x, u, row.rate) ELSE Available(x.ledger, u)
    <2> HIDE DEF user, key
    <2>1. FundingKey(x, row.user) \notin x.ledger.keys BY <1>4, <1>5
    <2>2. row.user \in DOMAIN x.positions /\ row.rate \in Int BY <1>5
    <2>3. QED BY <2>1, <2>2, FundingPaid
  <1>7. PaidOf(x, user, rate) = PaidOf(q, user, rate)
    <2>1. ~ \E j \in 1 .. (i - 1) : order[j] = user BY <1>2
    <2>2. Available(x.ledger, user) = Available(q.ledger, user)
      BY <1>2, <2>1 DEF Settled
    <2>3. Payment(x, user, rate) = Payment(q, user, rate) BY <1>3 DEF Payment, SameBusiness
    <2>4. QED BY <2>2, <2>3 DEF PaidOf
  <1>8. SameBusiness(y, q) BY <1>3, <1>6 DEF SameBusiness
  <1>9. ASSUME NEW u \in S
        PROVE  Available(y.ledger, u) =
                  IF \E j \in 1 .. i : order[j] = u THEN PaidOf(q, u, rate)
                  ELSE Available(q.ledger, u)
    <2>1. CASE u = user
      <3>1. \E j \in 1 .. i : order[j] = u BY <2>1
      <3>2. QED BY <1>1, <1>5, <1>6, <1>7, <2>1, <3>1
    <2>2. CASE u # user
      <3>1. (\E j \in 1 .. i : order[j] = u) <=> \E j \in 1 .. (i - 1) : order[j] = u
        <4>1. ASSUME NEW j \in 1 .. i, order[j] = u PROVE j \in 1 .. (i - 1)
          <5>1. j # i BY <2>2, <4>1
          <5>2. QED BY <5>1
        <4>2. 1 .. (i - 1) \subseteq 1 .. i OBVIOUS
        <4>3. QED BY <4>1, <4>2
      <3>2. Available(y.ledger, u) = Available(x.ledger, u) BY <1>1, <1>5, <1>6, <2>2
      <3>3. Available(x.ledger, u) =
               IF \E j \in 1 .. (i - 1) : order[j] = u THEN PaidOf(q, u, rate)
               ELSE Available(q.ledger, u)
        BY DEF Settled
      <3>4. QED BY <3>1, <3>2, <3>3
    <2>3. QED BY <2>1, <2>2
  <1>10. ASSUME NEW j \in 1 .. Len(order), j > i
         PROVE  FundingKey(q, order[j]) \notin y.ledger.keys
    <2>1. order[j] # user BY <1>2, <1>10
    <2>2. FundingKey(q, order[j]) # key BY <2>1 DEF FundingKey
    <2>3. j > i - 1 BY <1>10
    <2>4. FundingKey(q, order[j]) \notin x.ledger.keys BY <2>3 DEF Settled
    <2>5. QED BY <1>4, <1>5, <1>6, <2>2, <2>4
  <1>11. QED BY <1>8, <1>9, <1>10 DEF Settled

\* A tick with a mark price: every position pays or receives once.
LEMMA TickPays ==
    ASSUME NEW n \in Nat, NEW p \in Processors(n), p.mark # 0, NEW rate \in Int,
           NEW order \in SetToSeqs(DOMAIN p.positions),
           NEW d, d = SettleFunding(p, rate, order), NEW u \in DOMAIN p.positions
    PROVE  Available(d.post.ledger, u) = PaidOf(p, u, rate)
  <1> DEFINE S == DOMAIN p.positions
             q == [p EXCEPT !.period = @ + 1]
             rows == [i \in DOMAIN order |-> [user |-> order[i], rate |-> rate]]
             d0 == Done(q, << >>)
             G == [i \in Nat |-> {x \in Dones(n) : Settled(q, rate, order, i, x.post)}]
  <1>1. d = Chain(q, SettleFundingOf, rows) BY DEF SettleFunding
  <1>2. /\ p \in AnyProcessor /\ p.ledger.keys \in SUBSET Keys /\ p.period \in Nat
        /\ p.positions \in Positions
        /\ Books(Users, p.ledger)
        /\ \A k \in p.ledger.keys : GivenOut(k, n, p.seq, p.period)
    BY ProcessorIs
  <1>3. /\ q \in AnyProcessor /\ q.positions = p.positions /\ q.ledger = p.ledger
        /\ q.mark = p.mark /\ q.seq = p.seq /\ q.period = p.period + 1
    BY <1>2 DEF AnyProcessor
  <1>4. S \in SUBSET Users /\ IsFiniteSet(S)
    <2>1. S \in SUBSET Users BY <1>2, PositionsAre
    <2>2. QED BY <2>1, Parameters, FS_Subset
  <1>5. /\ Len(order) \in Nat /\ DOMAIN order = 1 .. Len(order)
        /\ \A i \in 1 .. Len(order) : order[i] \in S
        /\ \A v \in S : \E i \in 1 .. Len(order) : order[i] = v
    <2> HIDE DEF S
    <2>1. order \in SetToSeqs(S) BY DEF S
    <2>2. QED BY <1>4, <2>1, OrderComplete
  <1>6. /\ rows \in Seq(Rows(q)) /\ Len(rows) = Len(order)
        /\ \A i \in 1 .. Len(order) : rows[i] = [user |-> order[i], rate |-> rate]
    <2>1. rows \in Seq(Rows(p)) BY <1>2, OrderType
    <2>2. rows \in Seq(Rows(q)) BY <1>3, <2>1 DEF Rows
    <2>3. Len(rows) = Len(order) BY <1>5
    <2>4. QED BY <1>5, <2>2, <2>3
  <1> HIDE DEF q, rows
  <1>7. q \in Processors(n)
    <2>1. ASSUME NEW k \in q.ledger.keys PROVE GivenOut(k, n, q.seq, q.period)
      <3>1. GivenOut(k, n, p.seq, p.period) /\ k[2] \in Nat BY <1>2, <1>3 DEF Keys
      <3>2. QED BY <1>2, <1>3, <3>1 DEF GivenOut
    <2>2. QED BY <1>2, <1>3, <2>1 DEF Processors
  <1>8. d0 \in G[0]
    <2>1. d0.post = q /\ d0 \in Dones(n) BY <1>7, NothingDone
    <2>2. ASSUME NEW j \in 1 .. Len(order)
          PROVE  FundingKey(q, order[j]) \notin q.ledger.keys
      <3> DEFINE k == FundingKey(q, order[j])
      <3>1. k[1] = "funding" /\ k[2] = p.period + 1 BY <1>3 DEF FundingKey
      <3> HIDE DEF k
      <3>2. ~GivenOut(k, n, p.seq, p.period) BY <1>2, <3>1 DEF GivenOut
      <3>3. QED BY <1>2, <1>3, <3>2 DEF k
    <2>3. \A v : ~ \E j \in 1 .. 0 : order[j] = v OBVIOUS
    <2>4. Settled(q, rate, order, 0, q) BY <2>2, <2>3 DEF Settled, SameBusiness
    <2>5. QED BY <2>1, <2>4
  <1>9. ASSUME NEW i \in 1 .. Len(rows), NEW x \in G[i - 1]
        PROVE  AfterFunding(x, rows[i]) \in G[i]
    <2> DEFINE row == rows[i]
               e == SettleFundingOf(x.post, row)
               y == AfterFunding(x, row)
    <2>1. /\ i \in Nat /\ i - 1 \in Nat /\ i \in 1 .. Len(order)
          /\ row = [user |-> order[i], rate |-> rate] /\ order[i] \in S
      BY <1>5, <1>6
    <2>2. x \in Dones(n) /\ Settled(q, rate, order, i - 1, x.post) BY <1>9, <2>1
    <2>3. x.post \in Processors(n) /\ x.facts \in Seq(Events(n)) BY <2>2 DEF Dones
    <2>4. row.user \in DOMAIN x.post.positions /\ row.rate \in Int
      BY <1>3, <2>1, <2>2 DEF Settled, SameBusiness
    <2> HIDE DEF row, G
    <2>5. e.post \in Processors(n) /\ e.facts \in Seq(Events(n))
      BY <2>3, <2>4, FundingEchoes DEF Echoes
    <2>6. y = Done(e.post, x.facts \o e.facts) BY DEF AfterFunding
    <2>7. Settled(q, rate, order, i, e.post)
      <3> DEFINE z == e.post
                 w == x.post
      <3>1. /\ z = SettleFundingOf(w, row).post /\ w \in Processors(n)
            /\ Settled(q, rate, order, i - 1, w)
        BY <2>2, <2>3
      <3>2. q.positions \in Positions /\ order \in SetToSeqs(DOMAIN q.positions) BY <1>2, <1>3
      <3> HIDE DEF z, w
      <3>3. Settled(q, rate, order, i, z) BY <2>1, <3>1, <3>2, OneMorePaid
      <3>4. QED BY <3>3 DEF z
    <2> HIDE DEF e, y
    <2>8. x.facts \o e.facts \in Seq(Events(n)) BY <2>3, <2>5, ConcatProperties
    <2>9. y \in Dones(n) /\ y.post = e.post BY <2>5, <2>6, <2>8 DEF Done, Dones
    <2>10. QED BY <2>1, <2>7, <2>9 DEF G, y, row
  <1>10. FundingFold!Leads(G, rows) BY <1>9 DEF FundingFold!Leads
  <1>11. d = FundingFold!Fold(d0, rows) BY <1>1, ChainsAreFolds
  <1>12. d \in G[Len(rows)]
    <2> HIDE DEF G, d0
    <2>1. QED BY <1>6, <1>8, <1>10, <1>11, FundingFold!FoldAlong
  <1>13. Settled(q, rate, order, Len(order), d.post) BY <1>5, <1>6, <1>12
  <1>14. Available(d.post.ledger, u) = PaidOf(q, u, rate)
    BY <1>3, <1>5, <1>13 DEF Settled
  <1>15. PaidOf(q, u, rate) = PaidOf(p, u, rate) BY <1>3 DEF PaidOf, Payment
  <1>16. QED BY <1>14, <1>15

\* No idempotency key swallows a settlement: a trade moves what it would move
\* had no key been used, and a funding tick makes every position pay in full.
THEOREM AlwaysSettledInFull == Spec => SettledInFull
  <1>1. ASSUME Inv, NEW s \in Sweeps, Trade(s), NEW u \in Users
        PROVE  Available(post'.ledger, u)
                  = Available(Chain(Forgetful(post), ConsumeFill, FillsOf(s)).post.ledger, u)
    <2> DEFINE fs == FillsOf(s)
               v == Forgetful(post)
               x == Chain(post, ConsumeFill, fs)
               y == Chain(v, ConsumeFill, fs)
    <2>1. post \in Processors(commands) /\ commands \in Nat BY <1>1 DEF Inv, Mirrors
    <2>2. fs \in Seq(Fills) BY FillsOfType
    <2>3. v \in Processors(commands) /\ Twin(v, post) BY <2>1, ForgetfulTwin
    <2>4. post' = x.post BY <1>1 DEF Trade, Process
    <2>5. Twin(y.post, x.post)
      <3>1. x = Chain(post, ConsumeFill, fs) /\ y = Chain(v, ConsumeFill, fs) OBVIOUS
      <3> HIDE DEF fs, v, x, y
      <3>2. QED BY <2>1, <2>2, <2>3, <3>1, TradeTwins
    <2>6. QED BY <2>4, <2>5 DEF Twin, Agrees
  <1>2. ASSUME Inv, NEW r \in Rates, ComputeFunding(r), post.mark # 0,
               NEW u \in DOMAIN post.positions
        PROVE  Available(post'.ledger, u) = PaidOf(post, u, r)
    <2>1. post \in Processors(commands) /\ commands \in Nat BY <1>2 DEF Inv, Mirrors
    <2>2. PICK order \in SetToSeqs(DOMAIN post.positions) :
             Process(<<FundingRateUpdate(r)>>, SettleFunding(post, r, order))
      BY <1>2 DEF ComputeFunding
    <2>3. post' = SettleFunding(post, r, order).post BY <2>2 DEF Process
    <2>4. r \in Int BY Parameters
    <2>5. QED BY <1>2, <2>1, <2>3, <2>4, TickPays
  <1> DEFINE Full ==
         /\ \A s \in Sweeps : Trade(s) =>
               \A u \in Users :
                  Available(post'.ledger, u)
                    = Available(Chain(Forgetful(post), ConsumeFill, FillsOf(s)).post.ledger, u)
         /\ \A r \in Rates : ComputeFunding(r) /\ post.mark # 0 =>
               \A u \in DOMAIN post.positions :
                  LET owed == Payment(post, u, r)
                      had == Available(post.ledger, u)
                  IN  Available(post'.ledger, u) = had - Min({owed, had})
  <1>3. Inv => [Full]_vars BY <1>1, <1>2 DEF PaidOf
  <1>4. QED BY <1>3, Invariance, PTL DEF SettledInFull
=============================================================================
