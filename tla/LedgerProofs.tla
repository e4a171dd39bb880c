----------------------------- MODULE LedgerProofs -----------------------------
(***************************************************************************)
(* Lemmas about the ledger, for every set of users and every set of keys:  *)
(* what it looks like, how a credit moves one balance and the sum of all,  *)
(* and what an entry adds to the sums of the journal.                      *)
(***************************************************************************)
EXTENDS Ledger, CollectionLaws

-----------------------------------------------------------------------------
(* What a ledger of users U that has seen the keys K looks like.           *)

Accounts(U) == UNION {[S -> [UserWallets -> [Fields -> Int]]] : S \in SUBSET U}
UserPlaces(U) == [owner : U, wallet : UserWallets, field : Fields]
JournalTypes ==
    {"Deposit", "Withdrawal", "Transfer", "OrderFreeze", "OrderUnfreeze", "PositionOpen",
     "PositionClose", "TradeFee", "Liquidation", "InsuranceFundContribution", "FundingPayment"}
Entries(U, K) ==
    LET AnyPlace == [owner : U \cup {SYSTEM}, wallet : UserWallets \cup SystemWallets, field : Fields]
    IN  [debit : AnyPlace, credit : AnyPlace, amount : Nat \ {0}, type : JournalTypes, key : K]
Ledgers(U, K) ==
    [accounts : Accounts(U), system : [SystemWallets -> Int],
     journal : Seq(Entries(U, K)), keys : SUBSET K]

\* Only the balance at one place of a user changes.
Moved(U, l, m, at, amount) ==
    \A p \in UserPlaces(U) : Balance(m, p) = Balance(l, p) + IF p = at THEN amount ELSE 0

\* What a table of accounts holds.
LEMMA AccountsAre ==
    ASSUME NEW U, NEW a \in Accounts(U)
    PROVE  /\ DOMAIN a \in SUBSET U
           /\ a = [u \in DOMAIN a |-> a[u]]
           /\ \A u \in DOMAIN a : a[u] \in [UserWallets -> [Fields -> Int]]
  BY DEF Accounts

\* What makes a table of accounts.
LEMMA AccountsBy ==
    ASSUME NEW U, NEW S \in SUBSET U, NEW a \in [S -> [UserWallets -> [Fields -> Int]]]
    PROVE  a \in Accounts(U)
  BY DEF Accounts

\* Every balance of a ledger is an integer, zero where no account is.
LEMMA BalanceType ==
    ASSUME NEW U, SYSTEM \notin U, NEW K, NEW l \in Ledgers(U, K), NEW p \in UserPlaces(U)
    PROVE  /\ Balance(l, p) \in Int
           /\ p.owner \in DOMAIN l.accounts =>
                 Balance(l, p) = l.accounts[p.owner][p.wallet][p.field]
           /\ p.owner \notin DOMAIN l.accounts => Balance(l, p) = 0
  <1>1. l.accounts \in Accounts(U) BY DEF Ledgers
  <1>2. \A u \in DOMAIN l.accounts : l.accounts[u] \in [UserWallets -> [Fields -> Int]]
    BY <1>1, AccountsAre
  <1>3. p.owner # SYSTEM /\ p.wallet \in UserWallets /\ p.field \in Fields BY DEF UserPlaces
  <1>4. CASE p.owner \in DOMAIN l.accounts
    <2>1. Balance(l, p) = l.accounts[p.owner][p.wallet][p.field] BY <1>3, <1>4 DEF Balance
    <2>2. QED BY <1>2, <1>3, <1>4, <2>1
  <1>5. CASE p.owner \notin DOMAIN l.accounts
    <2>1. Balance(l, p) = 0 BY <1>3, <1>5 DEF Balance
    <2>2. QED BY <1>5, <2>1
  <1>6. QED BY <1>4, <1>5

\* Opening an account changes no balance.
LEMMA AccountOpened ==
    ASSUME NEW U, SYSTEM \notin U, NEW K, NEW l \in Ledgers(U, K), NEW user \in U,
           NEW m, m = GetOrCreateAccount(l, user)
    PROVE  /\ m \in Ledgers(U, K)
           /\ DOMAIN m.accounts = DOMAIN l.accounts \cup {user}
           /\ m.system = l.system /\ m.journal = l.journal /\ m.keys = l.keys
           /\ \A p \in UserPlaces(U) : Balance(m, p) = Balance(l, p)
  <1> DEFINE a == l.accounts
             b == With(a, user, EmptyAccount)
  <1>1. /\ a \in Accounts(U) /\ l.system \in [SystemWallets -> Int]
        /\ l.journal \in Seq(Entries(U, K)) /\ l.keys \in SUBSET K
    BY DEF Ledgers
  <1>2. /\ DOMAIN a \in SUBSET U
        /\ \A u \in DOMAIN a : a[u] \in [UserWallets -> [Fields -> Int]]
    BY <1>1, AccountsAre
  <1>3. CASE user \in DOMAIN a BY <1>3 DEF GetOrCreateAccount
  <1>4. CASE user \notin DOMAIN a
    <2>1. m = [l EXCEPT !.accounts = b] BY <1>4 DEF GetOrCreateAccount
    <2>2. /\ DOMAIN b = DOMAIN a \cup {user} /\ b[user] = EmptyAccount
          /\ \A u \in DOMAIN a : b[u] = a[u]
      BY <1>4 DEF With
    <2>3. EmptyAccount \in [UserWallets -> [Fields -> Int]] BY DEF EmptyAccount
    <2>4. b \in [DOMAIN a \cup {user} -> [UserWallets -> [Fields -> Int]]]
      BY <1>2, <2>3 DEF With
    <2>5. b \in Accounts(U)
      <3> HIDE DEF b
      <3>1. DOMAIN a \cup {user} \in SUBSET U BY <1>2
      <3>2. QED BY <2>4, <3>1, AccountsBy
    <2> HIDE DEF b
    <2>6. /\ m.accounts = b /\ m.system = l.system /\ m.journal = l.journal /\ m.keys = l.keys
          /\ m \in Ledgers(U, K)
      BY <1>1, <2>1, <2>5 DEF Ledgers
    <2>7. ASSUME NEW p \in UserPlaces(U) PROVE Balance(m, p) = Balance(l, p)
      <3>1. p.wallet \in UserWallets /\ p.field \in Fields BY DEF UserPlaces
      <3>2. CASE p.owner \in DOMAIN a
        <4>1. b[p.owner] = a[p.owner] /\ p.owner \in DOMAIN b BY <2>2, <3>2
        <4>2. QED BY <2>6, <3>2, <4>1, BalanceType
      <3>3. CASE p.owner = user
        <4>1. b[p.owner][p.wallet][p.field] = 0 BY <2>2, <3>1, <3>3 DEF EmptyAccount
        <4>2. QED BY <1>4, <2>2, <2>6, <3>3, <4>1, BalanceType
      <3>4. CASE p.owner \notin DOMAIN a /\ p.owner # user
        BY <2>2, <2>6, <3>4, BalanceType
      <3>5. QED BY <3>2, <3>3, <3>4
    <2>8. QED BY <2>2, <2>6, <2>7
  <1>5. QED BY <1>3, <1>4

\* Crediting one wallet of an account moves that balance and no other.
LEMMA AccountCredited ==
    ASSUME NEW U, SYSTEM \notin U, NEW K, NEW l \in Ledgers(U, K),
           NEW at \in UserPlaces(U), at.owner \in DOMAIN l.accounts, NEW amount \in Int,
           NEW m, m = Credit(l, at, amount)
    PROVE  /\ m \in Ledgers(U, K) /\ DOMAIN m.accounts = DOMAIN l.accounts
           /\ m.system = l.system /\ m.journal = l.journal /\ m.keys = l.keys
           /\ Moved(U, l, m, at, amount)
  <1> DEFINE a == l.accounts
             b == [a EXCEPT ![at.owner][at.wallet][at.field] = @ + amount]
  <1>1. /\ a \in Accounts(U) /\ l.system \in [SystemWallets -> Int]
        /\ l.journal \in Seq(Entries(U, K)) /\ l.keys \in SUBSET K
    BY DEF Ledgers
  <1>2. /\ DOMAIN a \in SUBSET U /\ a = [u \in DOMAIN a |-> a[u]]
        /\ \A u \in DOMAIN a : a[u] \in [UserWallets -> [Fields -> Int]]
    BY <1>1, AccountsAre
  <1>3. /\ at.owner \in U /\ at.wallet \in UserWallets /\ at.field \in Fields
        /\ at = [owner |-> at.owner, wallet |-> at.wallet, field |-> at.field]
    BY DEF UserPlaces
  <1>4. m = [l EXCEPT !.accounts = b] BY <1>3 DEF Credit
  <1>5. b \in [DOMAIN a -> [UserWallets -> [Fields -> Int]]] BY <1>2, <1>3
  <1>6. /\ b[at.owner][at.wallet][at.field] = a[at.owner][at.wallet][at.field] + amount
        /\ \A u \in DOMAIN a, w \in UserWallets, f \in Fields :
              (u # at.owner \/ w # at.wallet \/ f # at.field) => b[u][w][f] = a[u][w][f]
    BY <1>2, <1>3
  <1> HIDE DEF b
  <1>7. b \in Accounts(U) BY <1>2, <1>5, AccountsBy
  <1>8. /\ m.accounts = b /\ m.system = l.system /\ m.journal = l.journal /\ m.keys = l.keys
        /\ m \in Ledgers(U, K)
    BY <1>1, <1>4, <1>7 DEF Ledgers
  <1>9. DOMAIN b = DOMAIN a BY <1>5
  <1>10. ASSUME NEW p \in UserPlaces(U)
         PROVE  Balance(m, p) = Balance(l, p) + IF p = at THEN amount ELSE 0
    <2>1. /\ p.wallet \in UserWallets /\ p.field \in Fields
          /\ p = [owner |-> p.owner, wallet |-> p.wallet, field |-> p.field]
      BY DEF UserPlaces
    <2>2. CASE p.owner \in DOMAIN a
      <3>1. /\ Balance(m, p) = b[p.owner][p.wallet][p.field]
            /\ Balance(l, p) = a[p.owner][p.wallet][p.field] /\ Balance(l, p) \in Int
        BY <1>8, <1>9, <2>2, BalanceType
      <3>2. CASE p = at BY <1>6, <3>1, <3>2
      <3>3. CASE p # at
        <4>1. p.owner # at.owner \/ p.wallet # at.wallet \/ p.field # at.field
          BY <1>3, <2>1, <3>3
        <4>2. b[p.owner][p.wallet][p.field] = a[p.owner][p.wallet][p.field]
          BY <1>6, <2>1, <2>2, <4>1
        <4>3. QED BY <3>1, <3>3, <4>2
      <3>4. QED BY <3>2, <3>3
    <2>3. CASE p.owner \notin DOMAIN a
      <3>1. p # at BY <2>3
      <3>2. Balance(m, p) = 0 /\ Balance(l, p) = 0 BY <1>8, <1>9, <2>3, BalanceType
      <3>3. QED BY <3>1, <3>2
    <2>4. QED BY <2>2, <2>3
  <1>11. QED BY <1>8, <1>9, <1>10 DEF Moved

-----------------------------------------------------------------------------
(* Sums over the journal.                                                  *)

\* The total amount of the entries in E.
SumIn(j, E) == SumFunctionOnSet(Amounts(j), {i \in DOMAIN j : j[i] \in E})

\* What one more entry adds to the sum of the journal over the entries in E.
LEMMA JournalSums ==
    ASSUME NEW U, NEW K, NEW j \in Seq(Entries(U, K)), NEW e \in Entries(U, K), NEW E
    PROVE  /\ SumIn(j, E) \in Int
           /\ SumIn(Append(j, e), E) = SumIn(j, E) + IF e \in E THEN e.amount ELSE 0
  <1> DEFINE n == Len(j)
             l == n + 1
             k == Append(j, e)
             S == {i \in DOMAIN j : j[i] \in E}
             T == {i \in DOMAIN k : k[i] \in E}
             f == Amounts(j)
             g == Amounts(k)
  <1>1. n \in Nat /\ DOMAIN j = 1 .. n /\ \A i \in 1 .. n : j[i] \in Entries(U, K) OBVIOUS
  <1>2. /\ k \in Seq(Entries(U, K)) /\ Len(k) = l /\ DOMAIN k = 1 .. l /\ k[l] = e
        /\ \A i \in 1 .. n : k[i] = j[i]
    BY <1>1, AppendProperties
  <1>3. IsFiniteSet(S) /\ S \in SUBSET (1 .. n) /\ l \notin S
    <2>1. S \in SUBSET (1 .. n) BY <1>1
    <2>2. IsFiniteSet(1 .. n) BY <1>1, FS_Interval
    <2>3. QED BY <1>1, <2>1, <2>2, FS_Subset
  <1>4. \A x \in Entries(U, K) : x.amount \in Int BY DEF Entries
  <1> HIDE DEF k
  <1>5. /\ \A i \in 1 .. n : f[i] = j[i].amount /\ f[i] \in Int
        /\ \A i \in 1 .. l : g[i] = k[i].amount
    BY <1>1, <1>2, <1>4 DEF Amounts
  <1>6. SameOn(f, g, S) /\ IsIntOn(f, S) BY <1>2, <1>3, <1>5 DEF SameOn, IsIntOn
  <1>7. SumFunctionOnSet(f, S) \in Int
    <2> HIDE DEF f, S
    <2>1. QED BY <1>3, <1>6, SumInt
  <1>8. SumFunctionOnSet(g, S) = SumFunctionOnSet(f, S)
    <2> HIDE DEF f, g, S
    <2>1. QED BY <1>3, <1>6, SumSame
  <1>9. CASE e \in E
    <2>1. T = S \cup {l} BY <1>1, <1>2, <1>9
    <2>2. g[l] = e.amount /\ e.amount \in Int BY <1>1, <1>2, <1>4, <1>5
    <2>3. IsIntOn(g, S \cup {l})
      BY <1>6, <2>2 DEF SameOn, IsIntOn
    <2>4. SumFunctionOnSet(g, S \cup {l}) = SumFunctionOnSet(g, S) + g[l]
      <3> HIDE DEF g, S, l
      <3>1. QED BY <1>3, <2>3, SumWith
    <2>5. SumFunctionOnSet(g, T) = SumFunctionOnSet(f, S) + e.amount BY <1>8, <2>1, <2>2, <2>4
    <2>6. QED BY <1>7, <1>9, <2>5 DEF SumIn, k
  <1>10. CASE e \notin E
    <2>1. T = S BY <1>1, <1>2, <1>10
    <2>2. SumFunctionOnSet(g, T) = SumFunctionOnSet(f, S) BY <1>8, <2>1
    <2>3. SumFunctionOnSet(f, S) + 0 = SumFunctionOnSet(f, S)
      <3> HIDE DEF f, S
      <3>1. QED BY <1>7
    <2>4. QED BY <1>7, <1>10, <2>2, <2>3 DEF SumIn, k
  <1>11. QED BY <1>9, <1>10

-----------------------------------------------------------------------------
(* What users hold together, and what SYSTEM holds.                        *)

\* A ledger has finitely many places.
LEMMA PlacesFinite ==
    ASSUME NEW U, IsFiniteSet(U), NEW K, NEW l \in Ledgers(U, K)
    PROVE  /\ IsFiniteSet(Places(l))
           /\ Places(l) = {p \in UserPlaces(U) : p.owner \in DOMAIN l.accounts}
  <1> DEFINE A == DOMAIN l.accounts
             P == A \X (UserWallets \X Fields)
             f == [x \in P |-> Place(x[1], x[2][1], x[2][2])]
  <1>1. l.accounts \in Accounts(U) BY DEF Ledgers
  <1>2. A \in SUBSET U BY <1>1, AccountsAre
  <1>3. IsFiniteSet(A) BY <1>2, FS_Subset
  <1>4. IsFiniteSet(UserWallets) /\ IsFiniteSet(Fields)
    <2>1. IsFiniteSet({}) BY FS_EmptySet
    <2>2. ASSUME NEW a, NEW b, NEW c PROVE IsFiniteSet({a, b, c})
      <3>1. IsFiniteSet({a}) BY FS_Singleton
      <3>2. IsFiniteSet({a} \cup {b}) BY <3>1, FS_AddElement
      <3>3. IsFiniteSet(({a} \cup {b}) \cup {c}) BY <3>2, FS_AddElement
      <3>4. ({a} \cup {b}) \cup {c} = {a, b, c} OBVIOUS
      <3>5. QED BY <3>3, <3>4
    <2>3. QED BY <2>2 DEF UserWallets, Fields
  <1>5. IsFiniteSet(P) BY <1>3, <1>4, FS_Product
  <1>6. Places(l) = {p \in UserPlaces(U) : p.owner \in A}
    BY <1>2 DEF Places, Place, UserPlaces
  <1>7. f \in Surjection(P, Places(l))
    <2>1. \A x \in P : f[x] \in Places(l) BY DEF Places
    <2>2. ASSUME NEW p \in Places(l) PROVE \E x \in P : f[x] = p
      <3>1. PICK u \in A, w \in UserWallets, d \in Fields : p = Place(u, w, d) BY DEF Places
      <3>2. <<u, <<w, d>>>> \in P /\ f[<<u, <<w, d>>>>] = p BY <3>1
      <3>3. QED BY <3>2
    <2> HIDE DEF P
    <2>3. f \in [P -> Places(l)] BY <2>1
    <2>4. QED BY <2>2, <2>3 DEF Surjection
  <1>8. IsFiniteSet(Places(l)) BY <1>5, <1>7, FS_Surjection
  <1>9. QED BY <1>6, <1>8

\* What users hold together grows by what one of them receives, also when
\* its account is new.
LEMMA UsersTotalGrows ==
    ASSUME NEW U, IsFiniteSet(U), SYSTEM \notin U, NEW K, NEW l \in Ledgers(U, K),
           NEW m \in Ledgers(U, K), NEW at \in UserPlaces(U), NEW amount \in Int,
           DOMAIN m.accounts = DOMAIN l.accounts \cup {at.owner}, Moved(U, l, m, at, amount)
    PROVE  UsersTotal(l) \in Int /\ UsersTotal(m) = UsersTotal(l) + amount
  <1> DEFINE S == Places(l)
             T == Places(m)
             Z == T \ S
             f == [p \in S |-> Balance(l, p)]
             g == [p \in T |-> Balance(l, p)]
             h == [p \in T |-> Balance(m, p)]
  <1>1. /\ IsFiniteSet(S) /\ S = {p \in UserPlaces(U) : p.owner \in DOMAIN l.accounts}
        /\ IsFiniteSet(T) /\ T = {p \in UserPlaces(U) : p.owner \in DOMAIN m.accounts}
    BY PlacesFinite
  <1>2. /\ at \in T /\ S \cup Z = T /\ S \in SUBSET T /\ IsFiniteSet(Z)
        /\ T \in SUBSET UserPlaces(U) /\ Z \in SUBSET T
    <2>1. at \in T BY <1>1
    <2>2. S \in SUBSET T /\ T \in SUBSET UserPlaces(U) BY <1>1
    <2>3. IsFiniteSet(Z) BY <1>1, FS_Difference
    <2>4. QED BY <2>1, <2>2, <2>3
  <1>3. \A p \in UserPlaces(U) : Balance(l, p) \in Int /\ Balance(m, p) \in Int BY BalanceType
  <1>4. ASSUME NEW p \in Z PROVE Balance(l, p) = 0
    <2>1. p \in UserPlaces(U) /\ p.owner \notin DOMAIN l.accounts BY <1>1
    <2>2. QED BY <2>1, BalanceType
  <1> HIDE DEF S, T, Z
  <1>5. SumFunctionOnSet(f, S) \in Int
    <2>1. IsIntOn(f, S) BY <1>2, <1>3 DEF IsIntOn
    <2> HIDE DEF f
    <2>2. QED BY <1>1, <2>1, SumInt
  <1>6. SumFunctionOnSet(g, S) = SumFunctionOnSet(f, S)
    <2>1. SameOn(g, f, S) BY <1>2 DEF SameOn
    <2> HIDE DEF f, g
    <2>2. QED BY <1>1, <2>1, SumSame
  <1>7. SumFunctionOnSet(g, T) = SumFunctionOnSet(g, S)
    <2>1. IsIntOn(g, S) BY <1>2, <1>3 DEF IsIntOn
    <2>2. \A p \in Z : g[p] = 0 BY <1>2, <1>4
    <2> HIDE DEF g
    <2>3. SumFunctionOnSet(g, S \cup Z) = SumFunctionOnSet(g, S) BY <1>1, <1>2, <2>1, <2>2, SumWithZeros
    <2>4. QED BY <1>2, <2>3
  <1>8. SumFunctionOnSet(h, T) = SumFunctionOnSet(g, T) + h[at] - g[at]
    <2>1. IsIntOn(g, T) /\ IsIntOn(h, T) BY <1>2, <1>3 DEF IsIntOn
    <2>2. SameOn(g, h, T \ {at})
      <3>1. ASSUME NEW p \in T \ {at} PROVE Balance(m, p) = Balance(l, p)
        <4>1. p \in UserPlaces(U) /\ p # at BY <1>2
        <4>2. Balance(m, p) = Balance(l, p) + 0 BY <4>1 DEF Moved
        <4>3. QED BY <1>3, <4>1, <4>2
      <3>2. QED BY <3>1 DEF SameOn
    <2> HIDE DEF g, h
    <2>3. QED BY <1>1, <1>2, <2>1, <2>2, SumChanged
  <1>9. h[at] = g[at] + amount /\ g[at] \in Int
    <2>1. Balance(m, at) = Balance(l, at) + amount BY DEF Moved
    <2>2. QED BY <1>2, <1>3, <2>1
  <1>10. UsersTotal(l) = SumFunctionOnSet(f, S) /\ UsersTotal(m) = SumFunctionOnSet(h, T)
    BY DEF UsersTotal, Total, S, T
  <1> HIDE DEF f, g, h
  <1>11. QED BY <1>5, <1>6, <1>7, <1>8, <1>9, <1>10

\* SYSTEM has finitely many wallets.
LEMMA WalletsFinite == IsFiniteSet(SystemWallets)
  <1>1. \A w : IsFiniteSet({w}) BY FS_Singleton
  <1>2. SystemWallets = (({"InsuranceFund"} \cup {"FeeCollection"}) \cup {"Escrow"})
                          \cup {"Funding"}
    BY DEF SystemWallets, NonNegativeSystemWallets
  <1>3. IsFiniteSet({"InsuranceFund"} \cup {"FeeCollection"}) BY <1>1, FS_Union
  <1>4. IsFiniteSet(({"InsuranceFund"} \cup {"FeeCollection"}) \cup {"Escrow"})
    BY <1>1, <1>3, FS_Union
  <1>5. QED BY <1>1, <1>2, <1>4, FS_Union

\* What SYSTEM holds grows by what one of its wallets receives.
LEMMA SystemTotalGrows ==
    ASSUME NEW y \in [SystemWallets -> Int], NEW w \in SystemWallets, NEW amount \in Int,
           NEW z, z = [y EXCEPT ![w] = @ + amount]
    PROVE  Total(y) \in Int /\ Total(z) = Total(y) + amount
  <1>1. /\ IsIntOn(y, SystemWallets) /\ IsIntOn(z, SystemWallets) /\ z[w] = y[w] + amount
        /\ SameOn(y, z, SystemWallets \ {w}) /\ y[w] \in Int
    BY DEF IsIntOn, SameOn
  <1>2. DOMAIN y = SystemWallets /\ DOMAIN z = SystemWallets OBVIOUS
  <1>3. SumFunctionOnSet(z, SystemWallets) = SumFunctionOnSet(y, SystemWallets) + z[w] - y[w]
    BY <1>1, WalletsFinite, SumChanged
  <1>4. SumFunctionOnSet(y, SystemWallets) \in Int BY <1>1, WalletsFinite, SumInt
  <1>5. /\ Total(y) = SumFunctionOnSet(y, SystemWallets)
        /\ Total(z) = SumFunctionOnSet(z, SystemWallets)
    BY <1>2 DEF Total
  <1>6. QED BY <1>1, <1>3, <1>4, <1>5
===============================================================================
