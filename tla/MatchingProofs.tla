--------------------------- MODULE MatchingProofs ---------------------------
(***************************************************************************)
(* The invariants of MatchingEngine, for all requests, prices, users and   *)
(* bounds: the three copies of each fact in the book agree                 *)
(* (BookConsistent), no two resting orders cross (BookUncrossed) and every *)
(* order executes what was accepted (QuantityConserved).                   *)
(*                                                                         *)
(* From the bottom up: each operation of OrderBook keeps a book good; one  *)
(* maker's turn, then the whole match, takes from the makers what it gives *)
(* the taker and leaves no maker within its limit; each handler keeps the  *)
(* invariant EngineOK.  A loop is a fold, and a proof about it follows the *)
(* intermediate values of the fold by induction.                           *)
(***************************************************************************)
EXTENDS MatchingEngine, CollectionLaws

-----------------------------------------------------------------------------
(* Vectors, orders and maps.                                               *)

\* What a vector holds after retain.
LEMMA RetainMembers ==
    ASSUME NEW S, NEW ids \in Seq(S), NEW id
    PROVE  /\ Retain(ids, id) \in Seq(S)
           /\ Range(Retain(ids, id)) = Range(ids) \ {id}
           /\ IsInjective(ids) => IsInjective(Retain(ids, id))
  <1> DEFINE ss == [i \in DOMAIN ids |-> IF ids[i] = id THEN << >> ELSE <<ids[i]>>]
  <1>1. DOMAIN ids = 1 .. Len(ids) /\ Len(ids) \in Nat /\ DOMAIN ss = DOMAIN ids OBVIOUS
  <1>2. \A i \in DOMAIN ids : ids[i] \in S OBVIOUS
  <1>3. ASSUME NEW i \in DOMAIN ids
        PROVE  /\ ss[i] \in Seq(S) /\ IsInjective(ss[i])
               /\ Range(ss[i]) = {ids[i]} \ {id}
    <2>1. CASE ids[i] = id
      <3>1. ss[i] = << >> /\ DOMAIN << >> = {} BY <2>1
      <3>2. QED BY <2>1, <3>1 DEF Range, IsInjective
    <2>2. CASE ids[i] # id
      <3>1. ss[i] = <<ids[i]>> /\ DOMAIN <<ids[i]>> = {1} /\ <<ids[i]>>[1] = ids[i] BY <2>2
      <3>2. QED BY <1>2, <2>2, <3>1 DEF Range, IsInjective
    <2>3. QED BY <2>1, <2>2
  <1> HIDE DEF ss
  <1>4. ss \in Seq(Seq(S))
    <2>1. ss = [i \in 1 .. Len(ids) |-> ss[i]] BY <1>1 DEF ss
    <2>2. QED BY <1>1, <1>3, <2>1
  <1>5. Held(ss) = Range(ids) \ {id}
    <2>1. ASSUME NEW x \in Range(ids), x # id PROVE x \in Held(ss)
      <3>1. PICK i \in DOMAIN ids : x = ids[i] BY DEF Range
      <3>2. QED BY <1>1, <1>3, <2>1, <3>1 DEF Held
    <2>2. ASSUME NEW x \in Held(ss) PROVE x \in Range(ids) /\ x # id
      <3>1. PICK i \in DOMAIN ss : x \in Range(ss[i]) BY DEF Held
      <3>2. x = ids[i] /\ x # id BY <1>1, <1>3, <3>1
      <3>3. QED BY <1>1, <3>1, <3>2 DEF Range
    <2>3. QED BY <2>1, <2>2
  <1>6. ASSUME IsInjective(ids) PROVE Apart(ss)
    <2>1. \A i, j \in DOMAIN ids : i # j => ids[i] # ids[j] BY <1>6 DEF IsInjective
    <2>2. \A i, j \in DOMAIN ss : i # j => Range(ss[i]) \cap Range(ss[j]) = {}
      BY <1>1, <1>3, <2>1
    <2>3. QED BY <1>1, <1>3, <2>2 DEF Apart
  <1>7. Retain(ids, id) = FlattenSeq(ss) BY DEF Retain, ss
  <1>8. QED BY <1>4, <1>5, <1>6, <1>7, FlattenMembers, FlattenType

-----------------------------------------------------------------------------
Maps(f, K, V) ==
    /\ f = [x \in DOMAIN f |-> f[x]]
    /\ DOMAIN f \subseteq K
    /\ \A x \in DOMAIN f : f[x] \in V

Orders ==
    [id : OrderIds, user : Users, side : Sides, type : OrderTypes, tif : TimesInForce,
     price : Nat, stop : Optional(Int), vis : Optional(Int), delta : Optional(Int),
     peak : Optional(Int), orig : Int, rem : Nat, hidden : Nat, expire : Optional(Nat)]

\* What of an order the book looks at, and what a fill leaves of it.
LEMMA OrderHas ==
    ASSUME NEW o \in Orders
    PROVE  /\ o.id \in OrderIds /\ o.user \in Users /\ o.side \in Sides /\ o.price \in Nat
           /\ o.type \in OrderTypes
           /\ o.rem \in Nat /\ o.hidden \in Nat /\ o.orig \in Int
  BY DEF Orders

\* The order with another quantity.
Left(o, n) == [o EXCEPT !.rem = n]

\* An order with less left of it is otherwise the same order.
LEMMA LeftIs ==
    ASSUME NEW o \in Orders, NEW n \in Nat
    PROVE  /\ Left(o, n) \in Orders
           /\ Left(o, n).rem = n
           /\ Left(o, n).id = o.id /\ Left(o, n).user = o.user /\ Left(o, n).side = o.side
           /\ Left(o, n).price = o.price /\ Left(o, n).type = o.type
           /\ Left(o, n).tif = o.tif /\ Left(o, n).hidden = o.hidden
           /\ Left(o, n).vis = o.vis /\ Left(o, n).orig = o.orig
           /\ Left(o, n).expire = o.expire
  BY DEF Orders, Left

\* Only the last quantity counts.
LEMMA LeftTwice ==
    ASSUME NEW o \in Orders, NEW n \in Nat, NEW m \in Nat
    PROVE  Left(Left(o, n), m) = Left(o, m) /\ Left(o, o.rem) = o
  BY DEF Orders, Left

\* Putting into a map and taking out.
LEMMA WithIs ==
    ASSUME NEW K, NEW V, NEW f, Maps(f, K, V), NEW k \in K, NEW v \in V
    PROVE  /\ Maps(With(f, k, v), K, V)
           /\ DOMAIN With(f, k, v) = DOMAIN f \cup {k}
           /\ With(f, k, v)[k] = v
           /\ \A x \in DOMAIN f \ {k} : With(f, k, v)[x] = f[x]
  BY DEF With, Maps

-----------------------------------------------------------------------------
(* Good books: typed, and their three copies of each fact agree.           *)

\* Price levels, and the lists of users, as their types.
Levels == [total : Int, ids : Seq(OrderIds)]
Lists == Seq(OrderIds)

\* A book of the right type.
IsBook(b) ==
    /\ b = [orders |-> b.orders, levels |-> b.levels, users |-> b.users]
    /\ Maps(b.orders, OrderIds, Orders)
    /\ b.levels = [s \in Sides |-> b.levels[s]]
    /\ \A s \in Sides : Maps(b.levels[s], Nat, Levels)
    /\ Maps(b.users, Users, Lists)

\* The three parts of ConsistentBook, for one order, one level, one user.
Quantities(orders) == [id \in DOMAIN orders |-> orders[id].rem]

\* Each copy of the facts about an order, as a condition of its own: it is in
\* the queue of its level and in the list of its user; a level agrees with the
\* orders it queues; a list agrees with the orders it names.
Filed(b, id, o) ==
    /\ o.id = id /\ o.rem > 0
    /\ o.price \in DOMAIN b.levels[o.side] /\ o.user \in DOMAIN b.users
    /\ id \in Range(b.levels[o.side][o.price].ids)
    /\ id \in Range(b.users[o.user])

LevelAgrees(orders, s, p, level) ==
    /\ level.ids # << >> /\ IsInjective(level.ids)
    /\ \A id \in Range(level.ids) :
          id \in DOMAIN orders /\ orders[id].side = s /\ orders[id].price = p
    /\ level.total = SumFunctionOnSet(Quantities(orders), Range(level.ids))

ListAgrees(orders, u, ids) ==
    /\ ids # << >> /\ IsInjective(ids)
    /\ \A id \in Range(ids) : id \in DOMAIN orders /\ orders[id].user = u

\* The book is typed and its copies agree.
GoodBook(b) ==
    /\ IsBook(b)
    /\ \A id \in DOMAIN b.orders : Filed(b, id, b.orders[id])
    /\ \A s \in Sides : \A p \in DOMAIN b.levels[s] : LevelAgrees(b.orders, s, p, b.levels[s][p])
    /\ \A u \in DOMAIN b.users : ListAgrees(b.orders, u, b.users[u])

\* It is the book the model calls consistent.
LEMMA GoodIsConsistent ==
    ASSUME NEW b, GoodBook(b)
    PROVE  ConsistentBook(b)
  <1>1. Remaining(b) = Quantities(b.orders) BY DEF Remaining, Quantities
  <1>2. \A id \in DOMAIN b.orders :
          LET o == b.orders[id]
          IN  /\ o.id = id /\ o.rem > 0
              /\ o.price \in Prices(b, o.side) /\ o.user \in DOMAIN b.users
              /\ id \in Range(Queue(b, o.side, o.price))
              /\ id \in Range(b.users[o.user])
    BY DEF GoodBook, Filed, Prices, Queue
  <1>3. \A s \in Sides : \A p \in Prices(b, s) :
          /\ Queue(b, s, p) # << >> /\ IsInjective(Queue(b, s, p))
          /\ \A id \in Range(Queue(b, s, p)) :
                OnBook(b, id) /\ b.orders[id].side = s /\ b.orders[id].price = p
          /\ b.levels[s][p].total = SumFunctionOnSet(Remaining(b), Range(Queue(b, s, p)))
    BY <1>1 DEF GoodBook, LevelAgrees, Prices, Queue, OnBook
  <1>4. \A u \in DOMAIN b.users :
          /\ b.users[u] # << >> /\ IsInjective(b.users[u])
          /\ \A id \in Range(b.users[u]) : OnBook(b, id) /\ b.orders[id].user = u
    BY DEF GoodBook, ListAgrees, OnBook
  <1>5. QED BY <1>2, <1>3, <1>4 DEF ConsistentBook

\* A queue holds finitely many order ids.
LEMMA RangeFinite ==
    ASSUME NEW ids \in Seq(OrderIds)
    PROVE  Range(ids) \subseteq OrderIds /\ IsFiniteSet(Range(ids))
  <1>1. Range(ids) \subseteq OrderIds
    <2>1. \A i \in DOMAIN ids : ids[i] \in OrderIds OBVIOUS
    <2>2. QED BY <2>1 DEF Range
  <1>2. IsFiniteSet(OrderIds) BY EngineAssumption, FS_Interval DEF OrderIds
  <1>3. QED BY <1>1, <1>2, FS_Subset

\* The quantities of orders are integers.
LEMMA QuantitiesInt ==
    ASSUME NEW f, Maps(f, OrderIds, Orders), NEW S \in SUBSET DOMAIN f
    PROVE  IsIntOn(Quantities(f), S)
  BY OrderHas DEF Maps, IsIntOn, Quantities

\* A level agrees with orders that differ only elsewhere.
LEMMA LevelKept ==
    ASSUME NEW f, NEW g, NEW s, NEW p, NEW level \in Levels, LevelAgrees(f, s, p, level),
           \A id \in Range(level.ids) : id \in DOMAIN g /\ g[id] = f[id]
    PROVE  LevelAgrees(g, s, p, level)
  <1>1. IsFiniteSet(Range(level.ids)) BY RangeFinite DEF Levels
  <1>2. SameOn(Quantities(f), Quantities(g), Range(level.ids))
    BY DEF SameOn, Quantities, LevelAgrees
  <1>3. SumFunctionOnSet(Quantities(f), Range(level.ids))
          = SumFunctionOnSet(Quantities(g), Range(level.ids))
    BY <1>1, <1>2, SumSame
  <1>4. QED BY <1>3 DEF LevelAgrees

\* What appending adds.
LEMMA AppendMembers ==
    ASSUME NEW S, NEW ids \in Seq(S), NEW x \in S
    PROVE  /\ Append(ids, x) \in Seq(S) /\ Append(ids, x) # << >>
           /\ Range(Append(ids, x)) = Range(ids) \cup {x}
           /\ IsInjective(ids) /\ x \notin Range(ids) => IsInjective(Append(ids, x))
  <1> DEFINE t == Append(ids, x)
             n == Len(ids)
  <1>1. /\ t \in Seq(S) /\ n \in Nat /\ DOMAIN ids = 1 .. n /\ DOMAIN t = 1 .. n + 1
        /\ t[n + 1] = x /\ \A i \in 1 .. n : t[i] = ids[i]
    BY AppendProperties
  <1> HIDE DEF t, n
  <1>2. t # << >>
    <2>1. 1 \in DOMAIN t BY <1>1
    <2>2. QED BY <2>1
  <1>3. \A i \in DOMAIN t : i \in DOMAIN ids \/ i = n + 1 BY <1>1
  <1>4. n + 1 \in DOMAIN t /\ \A i \in DOMAIN ids : i \in DOMAIN t /\ i # n + 1 BY <1>1
  <1>5. Range(t) = Range(ids) \cup {x}
    BY <1>1, <1>3, <1>4 DEF Range
  <1>6. ASSUME IsInjective(ids), x \notin Range(ids) PROVE IsInjective(t)
    <2>1. \A i \in DOMAIN ids : ids[i] # x BY <1>6 DEF Range
    <2>2. ASSUME NEW i \in DOMAIN t, NEW j \in DOMAIN t, t[i] = t[j] PROVE i = j
      BY <1>1, <1>3, <1>6, <2>1, <2>2 DEF IsInjective
    <2>3. QED BY <2>2 DEF IsInjective
  <1>7. QED BY <1>1, <1>2, <1>5, <1>6 DEF t

-----------------------------------------------------------------------------
(* InsertOrder keeps a book good.                                          *)

\* A book made of three parts that fit is a good one.
LEMMA InsertKeeps ==
    ASSUME NEW b, GoodBook(b), NEW o \in Orders, o.rem > 0, o.id \notin DOMAIN b.orders
    PROVE  /\ GoodBook(InsertOrder(b, o))
           /\ InsertOrder(b, o).orders = With(b.orders, o.id, o)
  <1> DEFINE c == InsertOrder(b, o)
             s == o.side
             p == o.price
             u == o.user
             i == o.id
             none == [total |-> 0, ids |-> << >>]
             level == Get(b.levels[s], p, none)
             joined == [total |-> level.total + o.rem, ids |-> Append(level.ids, i)]
             mine == Append(UserOrders(b, u), i)
             f == b.orders
             g == c.orders
  <1>1. /\ c = [orders |-> c.orders, levels |-> c.levels, users |-> c.users]
        /\ g = With(f, i, o)
        /\ c.levels = [b.levels EXCEPT ![s] = With(@, p, joined)]
        /\ c.users = With(b.users, u, mine)
    BY DEF InsertOrder
  <1>2. /\ i \in OrderIds /\ u \in Users /\ s \in Sides /\ p \in Nat /\ o.rem \in Nat
        /\ i \notin DOMAIN f /\ o.rem > 0
    BY OrderHas
  <1>3. /\ Maps(f, OrderIds, Orders) /\ Maps(b.users, Users, Lists)
        /\ b.levels = [t \in Sides |-> b.levels[t]]
        /\ \A t \in Sides : Maps(b.levels[t], Nat, Levels)
    BY DEF GoodBook, IsBook
  <1>4. /\ \A j \in DOMAIN f : Filed(b, j, f[j])
        /\ \A t \in Sides : \A q \in DOMAIN b.levels[t] : LevelAgrees(f, t, q, b.levels[t][q])
        /\ \A v \in DOMAIN b.users : ListAgrees(f, v, b.users[v])
    BY DEF GoodBook
  <1> HIDE DEF c, s, p, u, i, f, g, mine, joined
  <1>5. /\ Maps(g, OrderIds, Orders) /\ DOMAIN g = DOMAIN f \cup {i} /\ g[i] = o
        /\ \A j \in DOMAIN f : g[j] = f[j]
    <2>1. /\ Maps(With(f, i, o), OrderIds, Orders)
          /\ DOMAIN With(f, i, o) = DOMAIN f \cup {i}
          /\ With(f, i, o)[i] = o
          /\ \A x \in DOMAIN f \ {i} : With(f, i, o)[x] = f[x]
      <3>1. Maps(f, OrderIds, Orders) /\ i \in OrderIds /\ o \in Orders BY <1>2, <1>3
      <3>2. QED BY <3>1 DEF Maps, With
    <2>2. QED BY <1>1, <1>2, <2>1
  \* The level.
  <1>6. /\ level \in Levels /\ i \notin Range(level.ids) /\ IsInjective(level.ids)
        /\ \A j \in Range(level.ids) : j \in DOMAIN f /\ f[j].side = s /\ f[j].price = p
        /\ level.total = SumFunctionOnSet(Quantities(f), Range(level.ids))
    <2>1. CASE p \in DOMAIN b.levels[s]
      <3>1. level = b.levels[s][p] BY <2>1 DEF Get
      <3>2. b.levels[s][p] \in Levels BY <1>2, <1>3, <2>1 DEF Maps
      <3>3. LevelAgrees(f, s, p, b.levels[s][p]) BY <1>2, <1>4, <2>1
      <3> HIDE DEF level
      <3>4. QED BY <1>2, <3>1, <3>2, <3>3 DEF LevelAgrees
    <2>2. CASE p \notin DOMAIN b.levels[s]
      <3>1. level = none BY <2>2 DEF Get
      <3>2. Range(<< >>) = {} /\ IsInjective(<< >>) BY DEF Range, IsInjective
      <3>3. << >> \in Seq(OrderIds) OBVIOUS
      <3>4. SumFunctionOnSet(Quantities(f), {}) = 0 BY SumEmpty
      <3>5. none.total = 0 /\ none.ids = << >> /\ none \in Levels BY <3>3 DEF Levels
      <3> HIDE DEF level, none
      <3>6. QED BY <3>1, <3>2, <3>4, <3>5
    <2>3. QED BY <2>1, <2>2
  <1> HIDE DEF level
  <1>7. joined \in Levels /\ joined.ids = Append(level.ids, i)
        /\ Range(joined.ids) = Range(level.ids) \cup {i}
    <2>1. level.ids \in Seq(OrderIds) /\ level.total \in Int BY <1>6 DEF Levels
    <2>2. QED BY <1>2, <2>1, AppendMembers DEF joined, Levels
  <1>8. LevelAgrees(g, s, p, joined)
    <2>1. level.ids \in Seq(OrderIds) BY <1>6 DEF Levels
    <2>2. joined.ids # << >> /\ IsInjective(joined.ids)
      BY <1>2, <1>6, <1>7, <2>1, AppendMembers
    <2>3. \A j \in Range(joined.ids) : j \in DOMAIN g /\ g[j].side = s /\ g[j].price = p
      BY <1>5, <1>6, <1>7 DEF s, p
    <2>4. IsFiniteSet(Range(level.ids)) BY <2>1, RangeFinite
    <2>5. SameOn(Quantities(f), Quantities(g), Range(level.ids))
      BY <1>5, <1>6 DEF SameOn, Quantities
    <2>6. IsIntOn(Quantities(g), Range(level.ids) \cup {i})
      BY <1>5, <1>7, <2>3, QuantitiesInt
    <2>7. Quantities(g)[i] = o.rem BY <1>5 DEF Quantities
    <2>8. SumFunctionOnSet(Quantities(g), Range(level.ids) \cup {i})
            = SumFunctionOnSet(Quantities(g), Range(level.ids)) + o.rem
      BY <1>6, <2>4, <2>6, <2>7, SumWith
    <2>9. SumFunctionOnSet(Quantities(g), Range(level.ids)) = level.total
      BY <1>6, <2>4, <2>5, SumSame
    <2>10. joined.total = level.total + o.rem BY DEF joined
    <2>11. QED BY <1>7, <2>2, <2>3, <2>8, <2>9, <2>10 DEF LevelAgrees
  <1>9. /\ c.levels = [t \in Sides |-> c.levels[t]]
        /\ c.levels[s] = With(b.levels[s], p, joined)
        /\ \A t \in Sides : t # s => c.levels[t] = b.levels[t]
    BY <1>1, <1>2, <1>3
  <1>10. /\ Maps(c.levels[s], Nat, Levels)
         /\ DOMAIN c.levels[s] = DOMAIN b.levels[s] \cup {p}
         /\ c.levels[s][p] = joined
         /\ \A q \in DOMAIN b.levels[s] : q # p => c.levels[s][q] = b.levels[s][q]
    <2> DEFINE w == b.levels[s]
    <2>1. Maps(w, Nat, Levels) /\ p \in Nat /\ joined \in Levels BY <1>2, <1>3, <1>7
    <2> HIDE DEF w
    <2>2. /\ Maps(With(w, p, joined), Nat, Levels)
          /\ DOMAIN With(w, p, joined) = DOMAIN w \cup {p}
          /\ With(w, p, joined)[p] = joined
          /\ \A x \in DOMAIN w \ {p} : With(w, p, joined)[x] = w[x]
      BY <2>1, WithIs
    <2>3. c.levels[s] = With(w, p, joined) BY <1>9 DEF w
    <2>4. QED BY <2>2, <2>3 DEF w
  <1>11. ASSUME NEW t \in Sides, NEW q \in DOMAIN c.levels[t]
         PROVE  LevelAgrees(g, t, q, c.levels[t][q])
    <2>1. CASE t = s /\ q = p BY <1>8, <1>10, <2>1
    <2>2. CASE ~(t = s /\ q = p)
      <3> DEFINE l == b.levels[t][q]
      <3>1. q \in DOMAIN b.levels[t] /\ c.levels[t][q] = l
        BY <1>9, <1>10, <2>2
      <3>2. l \in Levels BY <1>3, <3>1 DEF Maps
      <3>3. LevelAgrees(f, t, q, l) BY <1>4, <3>1
      <3> HIDE DEF l
      <3>4. \A j \in Range(l.ids) : j \in DOMAIN g /\ g[j] = f[j] BY <1>5, <3>3 DEF LevelAgrees
      <3>5. LevelAgrees(g, t, q, l) BY <3>2, <3>3, <3>4, LevelKept
      <3>6. QED BY <3>1, <3>5
    <2>3. QED BY <2>1, <2>2
  \* The user's list.
  <1>12. /\ mine \in Lists /\ mine # << >> /\ IsInjective(mine)
         /\ Range(mine) = Range(UserOrders(b, u)) \cup {i}
         /\ \A j \in Range(UserOrders(b, u)) : j \in DOMAIN f /\ f[j].user = u
    <2>1. /\ UserOrders(b, u) \in Seq(OrderIds) /\ IsInjective(UserOrders(b, u))
          /\ \A j \in Range(UserOrders(b, u)) : j \in DOMAIN f /\ f[j].user = u
      <3>1. CASE u \in DOMAIN b.users
        <4>1. UserOrders(b, u) = b.users[u] BY <3>1 DEF UserOrders, Get
        <4>2. b.users[u] \in Lists BY <1>3, <3>1 DEF Maps
        <4>3. ListAgrees(f, u, b.users[u]) BY <1>4, <3>1
        <4>4. QED BY <4>1, <4>2, <4>3 DEF ListAgrees, Lists
      <3>2. CASE u \notin DOMAIN b.users
        <4>1. UserOrders(b, u) = << >> BY <3>2 DEF UserOrders, Get
        <4>2. Range(<< >>) = {} /\ IsInjective(<< >>) BY DEF Range, IsInjective
        <4>3. QED BY <4>1, <4>2
      <3>3. QED BY <3>1, <3>2
    <2>2. i \notin Range(UserOrders(b, u)) BY <1>2, <2>1
    <2>3. QED BY <1>2, <2>1, <2>2, AppendMembers DEF mine, Lists
  <1>13. /\ Maps(c.users, Users, Lists) /\ DOMAIN c.users = DOMAIN b.users \cup {u}
         /\ c.users[u] = mine /\ \A v \in DOMAIN b.users : v # u => c.users[v] = b.users[v]
    <2> DEFINE w == b.users
    <2>1. Maps(w, Users, Lists) /\ u \in Users /\ mine \in Lists BY <1>2, <1>3, <1>12
    <2> HIDE DEF w
    <2>2. /\ Maps(With(w, u, mine), Users, Lists)
          /\ DOMAIN With(w, u, mine) = DOMAIN w \cup {u}
          /\ With(w, u, mine)[u] = mine
          /\ \A x \in DOMAIN w \ {u} : With(w, u, mine)[x] = w[x]
      BY <2>1 DEF Maps, With
    <2>3. QED BY <1>1, <2>2 DEF w
  <1>14. ASSUME NEW v \in DOMAIN c.users PROVE ListAgrees(g, v, c.users[v])
    <2>1. CASE v = u
      <3>1. \A j \in Range(mine) : j \in DOMAIN g /\ g[j].user = u BY <1>5, <1>12 DEF u
      <3>2. QED BY <1>12, <1>13, <2>1, <3>1 DEF ListAgrees
    <2>2. CASE v # u
      <3>1. v \in DOMAIN b.users /\ c.users[v] = b.users[v] BY <1>13, <2>2
      <3>2. ListAgrees(f, v, b.users[v]) BY <1>4, <3>1
      <3>3. QED BY <1>5, <3>1, <3>2 DEF ListAgrees
    <2>3. QED BY <2>1, <2>2
  \* Each order is where it was, the new one at the end of both.
  <1>15. ASSUME NEW j \in DOMAIN g PROVE Filed(c, j, g[j])
    <2>1. CASE j = i
      <3>1. g[j] = o /\ o.id = i /\ o.side = s /\ o.price = p /\ o.user = u
        BY <1>5, <2>1 DEF i, s, p, u
      <3>2. p \in DOMAIN c.levels[s] /\ i \in Range(c.levels[s][p].ids) BY <1>7, <1>10
      <3>3. u \in DOMAIN c.users /\ i \in Range(c.users[u]) BY <1>12, <1>13
      <3>4. QED BY <1>2, <2>1, <3>1, <3>2, <3>3 DEF Filed
    <2>2. CASE j # i
      <3> DEFINE a == f[j]
      <3>1. j \in DOMAIN f /\ g[j] = a BY <1>5, <2>2
      <3>2. Filed(b, j, a) BY <1>4, <3>1
      <3>3. a.side \in Sides BY <1>3, <3>1, OrderHas DEF Maps
      <3> HIDE DEF a
      <3>4. a.price \in DOMAIN c.levels[a.side]
            /\ j \in Range(c.levels[a.side][a.price].ids)
        <4>1. CASE a.side = s /\ a.price = p
          <5>1. level = b.levels[s][p] BY <3>2, <4>1 DEF level, Get, Filed
          <5>2. j \in Range(level.ids) BY <3>2, <4>1, <5>1 DEF Filed
          <5>3. QED BY <1>7, <1>10, <4>1, <5>2
        <4>2. CASE ~(a.side = s /\ a.price = p)
          <5>1. a.price \in DOMAIN b.levels[a.side]
                /\ j \in Range(b.levels[a.side][a.price].ids) BY <3>2 DEF Filed
          <5>2. a.price \in DOMAIN c.levels[a.side]
                /\ c.levels[a.side][a.price] = b.levels[a.side][a.price]
            BY <1>9, <1>10, <3>3, <4>2, <5>1
          <5>3. QED BY <5>1, <5>2
        <4>3. QED BY <4>1, <4>2
      <3>5. a.user \in DOMAIN c.users /\ j \in Range(c.users[a.user])
        <4>1. CASE a.user = u
          <5>1. u \in DOMAIN b.users /\ j \in Range(b.users[u]) BY <3>2, <4>1 DEF Filed
          <5>2. UserOrders(b, u) = b.users[u] BY <5>1 DEF UserOrders, Get
          <5>3. QED BY <1>12, <1>13, <4>1, <5>1, <5>2
        <4>2. CASE a.user # u
          <5>1. a.user \in DOMAIN b.users /\ j \in Range(b.users[a.user]) BY <3>2 DEF Filed
          <5>2. QED BY <1>13, <4>2, <5>1
        <4>3. QED BY <4>1, <4>2
      <3>6. QED BY <3>1, <3>2, <3>4, <3>5 DEF Filed
    <2>3. QED BY <2>1, <2>2
  <1>16. IsBook(c)
    <2>1. \A t \in Sides : Maps(c.levels[t], Nat, Levels) BY <1>3, <1>9, <1>10
    <2>2. QED BY <1>1, <1>5, <1>9, <1>13, <2>1 DEF IsBook, g
  <1>17. GoodBook(c) BY <1>11, <1>14, <1>15, <1>16 DEF GoodBook, g
  <1>18. QED BY <1>1, <1>17 DEF c, g, f, i

-----------------------------------------------------------------------------
(* RemoveOrder keeps a book good.                                          *)

\* A queue without an order that is in it.
LEMMA QueueWithout ==
    ASSUME NEW f, Maps(f, OrderIds, Orders), NEW s, NEW p, NEW level \in Levels,
           LevelAgrees(f, s, p, level), NEW i \in Range(level.ids),
           NEW g, g = Drop(f, i),
           NEW rest, rest = Retain(level.ids, i), rest # << >>,
           NEW thinner, thinner = [total |-> level.total - f[i].rem, ids |-> rest]
    PROVE  thinner \in Levels /\ LevelAgrees(g, s, p, thinner)
  <1>1. level.ids \in Seq(OrderIds) /\ level.total \in Int BY DEF Levels
  <1>2. /\ rest \in Seq(OrderIds) /\ Range(rest) = Range(level.ids) \ {i} /\ IsInjective(rest)
    BY <1>1, RetainMembers DEF LevelAgrees
  <1>3. i \in DOMAIN f /\ f[i].rem \in Int
    BY OrderHas DEF Maps, LevelAgrees
  <1>4. /\ DOMAIN g = DOMAIN f \ {i} /\ \A j \in DOMAIN f \ {i} : g[j] = f[j]
    BY DEF Drop, Restrict
  <1>5. \A j \in Range(rest) : j \in DOMAIN g /\ g[j] = f[j] /\ f[j].side = s /\ f[j].price = p
    BY <1>2, <1>4 DEF LevelAgrees
  <1>6. SumFunctionOnSet(Quantities(g), Range(rest)) = level.total - f[i].rem
    <2> DEFINE S == Range(level.ids)
               R == Range(rest)
               F == Quantities(f)
               G == Quantities(g)
    <2>1. IsFiniteSet(S) /\ IsFiniteSet(R) BY <1>1, <1>2, RangeFinite
    <2>2. S \in SUBSET DOMAIN f BY DEF LevelAgrees
    <2>3. IsIntOn(F, S) BY <2>2, QuantitiesInt
    <2>4. R = S \ {i} /\ i \in S BY <1>2
    <2>5. SameOn(F, G, R) BY <1>5, <1>4 DEF SameOn, Quantities
    <2>6. F[i] = f[i].rem BY <1>3 DEF Quantities
    <2>7. level.total = SumFunctionOnSet(F, S) BY DEF LevelAgrees
    <2>8. IsIntOn(F, R) BY <2>3, <2>4 DEF IsIntOn
    <2> HIDE DEF S, R, F, G
    <2>9. SumFunctionOnSet(F, S) = F[i] + SumFunctionOnSet(F, R)
      BY <2>1, <2>3, <2>4, SumWithout
    <2>10. SumFunctionOnSet(F, R) \in Int BY <2>1, <2>8, SumInt
    <2>11. SumFunctionOnSet(F, R) = SumFunctionOnSet(G, R) BY <2>1, <2>5, SumSame
    <2>12. SumFunctionOnSet(G, R) = level.total - f[i].rem
      BY <1>1, <1>3, <2>6, <2>7, <2>9, <2>10, <2>11
    <2>13. QED BY <2>12 DEF G, R
  <1>7. thinner \in Levels BY <1>1, <1>2, <1>3 DEF Levels
  <1>8. QED BY <1>2, <1>5, <1>6, <1>7 DEF LevelAgrees

\* RemoveOrder leaves a good book, without that order and with the others as
\* they were.
LEMMA RemoveKeeps ==
    ASSUME NEW b, GoodBook(b), NEW i
    PROVE  /\ GoodBook(RemoveOrder(b, i))
           /\ RemoveOrder(b, i).orders = Drop(b.orders, i)
  <1> DEFINE f == b.orders
  <1>1. /\ Maps(f, OrderIds, Orders) /\ Maps(b.users, Users, Lists)
        /\ b.levels = [t \in Sides |-> b.levels[t]]
        /\ \A t \in Sides : Maps(b.levels[t], Nat, Levels)
    BY DEF GoodBook, IsBook
  <1>2. CASE ~OnBook(b, i)
    <2>1. RemoveOrder(b, i) = b /\ i \notin DOMAIN f BY <1>2 DEF RemoveOrder, OnBook
    <2>2. Drop(f, i) = f BY <1>1, <2>1 DEF Drop, Restrict, Maps
    <2>3. QED BY <2>1, <2>2
  <1>3. CASE OnBook(b, i)
    <2> DEFINE o == f[i]
               c == RemoveOrder(b, i)
               g == c.orders
               s == o.side
               p == o.price
               u == o.user
               level == b.levels[s][p]
               rest == Retain(level.ids, i)
               mine == Retain(b.users[u], i)
               thinner == [total |-> level.total - o.rem, ids |-> rest]
    <2>1. /\ \A j \in DOMAIN f : Filed(b, j, f[j])
          /\ \A t \in Sides : \A q \in DOMAIN b.levels[t] : LevelAgrees(f, t, q, b.levels[t][q])
          /\ \A v \in DOMAIN b.users : ListAgrees(f, v, b.users[v])
      BY DEF GoodBook
    <2>2. /\ i \in DOMAIN f /\ o \in Orders /\ Filed(b, i, o)
      BY <1>1, <1>3, <2>1 DEF OnBook, Maps
    <2>3. o.id = i /\ s \in Sides /\ u \in Users /\ p \in Nat /\ o.rem \in Nat
      BY <2>2, OrderHas DEF Filed
    <2>4. /\ p \in DOMAIN b.levels[s] /\ u \in DOMAIN b.users
          /\ i \in Range(level.ids) /\ i \in Range(b.users[u])
      BY <2>2 DEF Filed
    <2>5. level \in Levels /\ b.users[u] \in Lists BY <1>1, <2>3, <2>4 DEF Maps
    <2>6. LevelAgrees(f, s, p, level) /\ ListAgrees(f, u, b.users[u]) BY <2>1, <2>3, <2>4
    <2>7. /\ c = [orders |-> c.orders, levels |-> c.levels, users |-> c.users]
          /\ g = Drop(f, i)
          /\ c.levels = [b.levels EXCEPT ![s] = LeaveLevel(b.levels[s], o)]
          /\ c.users = IF mine = << >> THEN Drop(b.users, u) ELSE [b.users EXCEPT ![u] = mine]
      <3>1. c = WithoutOrder(b, o, LeaveLevel(b.levels[s], o)) BY <1>3 DEF RemoveOrder
      <3> HIDE DEF c
      <3>2. c = [orders |-> Drop(f, i),
                 levels |-> [b.levels EXCEPT ![s] = LeaveLevel(b.levels[s], o)],
                 users |-> IF mine = << >> THEN Drop(b.users, u)
                           ELSE [b.users EXCEPT ![u] = mine]]
        BY <2>3, <3>1 DEF WithoutOrder
      <3>3. QED BY <3>2
    <2>8. LeaveLevel(b.levels[s], o) = IF rest = << >> THEN Drop(b.levels[s], p)
                                       ELSE [b.levels[s] EXCEPT ![p] = thinner]
      BY <2>3, <2>4 DEF LeaveLevel
    <2> HIDE DEF o, c, g, s, p, u, f, level, rest, mine, thinner
    <2>9. /\ Maps(g, OrderIds, Orders) /\ DOMAIN g = DOMAIN f \ {i}
          /\ \A j \in DOMAIN g : g[j] = f[j]
      BY <1>1, <2>7 DEF Drop, Restrict, Maps
    <2>10. level.ids \in Seq(OrderIds) BY <2>5 DEF Levels
    <2>11. Range(rest) = Range(level.ids) \ {i} BY <2>10, RetainMembers DEF rest
    <2>12. /\ mine \in Lists /\ Range(mine) = Range(b.users[u]) \ {i} /\ IsInjective(mine)
      BY <2>5, <2>6, RetainMembers DEF mine, ListAgrees, Lists
    <2>13. Range(<< >>) = {} BY DEF Range
    \* The level.
    <2>14. rest # << >> => thinner \in Levels /\ LevelAgrees(g, s, p, thinner)
      BY <1>1, <2>4, <2>5, <2>6, <2>7, QueueWithout DEF rest, thinner, o
    <2>15. /\ c.levels = [t \in Sides |-> c.levels[t]]
           /\ c.levels[s] = LeaveLevel(b.levels[s], o)
           /\ \A t \in Sides : t # s => c.levels[t] = b.levels[t]
      BY <1>1, <2>3, <2>7
    <2>16. /\ Maps(c.levels[s], Nat, Levels)
           /\ \A q \in DOMAIN c.levels[s] :
                 q \in DOMAIN b.levels[s] /\ (q # p => c.levels[s][q] = b.levels[s][q])
           /\ \A q \in DOMAIN b.levels[s] : q # p => q \in DOMAIN c.levels[s]
           /\ p \in DOMAIN c.levels[s] <=> rest # << >>
           /\ rest # << >> => c.levels[s][p] = thinner
      <3> DEFINE w == b.levels[s]
                 x == c.levels[s]
      <3>1. Maps(w, Nat, Levels) /\ p \in DOMAIN w BY <1>1, <2>3, <2>4
      <3>2. x = IF rest = << >> THEN Drop(w, p) ELSE [w EXCEPT ![p] = thinner]
        BY <2>8, <2>15
      <3> HIDE DEF w, x
      <3>3. CASE rest = << >>
        <4>1. DOMAIN x = DOMAIN w \ {p} /\ x = [q \in DOMAIN w \ {p} |-> w[q]]
          BY <3>2, <3>3 DEF Drop, Restrict
        <4>2. QED BY <3>1, <3>3, <4>1 DEF Maps, w, x
      <3>4. CASE rest # << >>
        <4>1. /\ DOMAIN x = DOMAIN w /\ x = [q \in DOMAIN w |-> x[q]]
              /\ x[p] = thinner /\ \A q \in DOMAIN w : q # p => x[q] = w[q]
          BY <3>1, <3>2, <3>4 DEF Maps
        <4>2. \A q \in DOMAIN w : x[q] \in Levels BY <2>14, <3>1, <3>4, <4>1 DEF Maps
        <4>3. Maps(x, Nat, Levels) BY <3>1, <4>1, <4>2 DEF Maps
        <4>4. QED BY <3>1, <3>4, <4>1, <4>3 DEF w, x
      <3>5. QED BY <3>3, <3>4 DEF w, x
    <2>17. ASSUME NEW t \in Sides, NEW q \in DOMAIN c.levels[t]
           PROVE  LevelAgrees(g, t, q, c.levels[t][q])
      <3>1. CASE t = s /\ q = p BY <2>14, <2>16, <3>1
      <3>2. CASE ~(t = s /\ q = p)
        <4> DEFINE l == b.levels[t][q]
        <4>1. q \in DOMAIN b.levels[t] /\ c.levels[t][q] = l BY <2>15, <2>16, <3>2
        <4>2. l \in Levels /\ LevelAgrees(f, t, q, l) BY <1>1, <2>1, <4>1 DEF Maps
        <4> HIDE DEF l
        <4>3. \A j \in Range(l.ids) : j \in DOMAIN f /\ f[j].side = t /\ f[j].price = q
          BY <4>2 DEF LevelAgrees
        <4>4. i \notin Range(l.ids) BY <3>2, <4>3 DEF s, p, o
        <4>5. \A j \in Range(l.ids) : j \in DOMAIN g /\ g[j] = f[j] BY <2>9, <4>3, <4>4
        <4>6. LevelAgrees(g, t, q, l) BY <4>2, <4>5, LevelKept
        <4>7. QED BY <4>1, <4>6
      <3>3. QED BY <3>1, <3>2
    \* The user's list.
    <2>18. /\ Maps(c.users, Users, Lists)
           /\ \A v \in DOMAIN c.users :
                 v \in DOMAIN b.users /\ (v # u => c.users[v] = b.users[v])
           /\ \A v \in DOMAIN b.users : v # u => v \in DOMAIN c.users
           /\ u \in DOMAIN c.users <=> mine # << >>
           /\ mine # << >> => c.users[u] = mine
      <3>1. CASE mine = << >> BY <1>1, <2>4, <2>7, <3>1 DEF Drop, Restrict, Maps
      <3>2. CASE mine # << >> BY <1>1, <2>4, <2>7, <2>12, <3>2 DEF Maps
      <3>3. QED BY <3>1, <3>2
    <2>19. ASSUME NEW v \in DOMAIN c.users PROVE ListAgrees(g, v, c.users[v])
      <3>1. CASE v = u
        <4>1. c.users[v] = mine /\ mine # << >> BY <2>18, <3>1
        <4>2. \A j \in Range(mine) : j \in DOMAIN g /\ g[j].user = u
          BY <2>6, <2>9, <2>12 DEF ListAgrees
        <4>3. QED BY <2>12, <3>1, <4>1, <4>2 DEF ListAgrees
      <3>2. CASE v # u
        <4>1. v \in DOMAIN b.users /\ c.users[v] = b.users[v] BY <2>18, <3>2
        <4>2. ListAgrees(f, v, b.users[v]) BY <2>1, <4>1
        <4>3. i \notin Range(b.users[v]) BY <3>2, <4>2 DEF ListAgrees, u, o
        <4>4. QED BY <2>9, <4>1, <4>2, <4>3 DEF ListAgrees
      <3>3. QED BY <3>1, <3>2
    \* Each other order is where it was.
    <2>20. ASSUME NEW j \in DOMAIN g PROVE Filed(c, j, g[j])
      <3> DEFINE a == f[j]
      <3>1. j \in DOMAIN f /\ g[j] = a /\ j # i BY <2>9
      <3>2. Filed(b, j, a) BY <2>1, <3>1
      <3>3. a.side \in Sides BY <1>1, <3>1, OrderHas DEF Maps
      <3> HIDE DEF a
      <3>4. a.price \in DOMAIN c.levels[a.side]
            /\ j \in Range(c.levels[a.side][a.price].ids)
        <4>1. CASE a.side = s /\ a.price = p
          <5>1. j \in Range(level.ids) BY <3>2, <4>1 DEF Filed, level
          <5>2. j \in Range(rest) BY <2>11, <3>1, <5>1
          <5>3. rest # << >> BY <2>13, <5>2
          <5>4. thinner.ids = rest BY DEF thinner
          <5>5. QED BY <2>16, <4>1, <5>2, <5>3, <5>4
        <4>2. CASE ~(a.side = s /\ a.price = p)
          <5>1. a.price \in DOMAIN b.levels[a.side]
                /\ j \in Range(b.levels[a.side][a.price].ids) BY <3>2 DEF Filed
          <5>2. a.price \in DOMAIN c.levels[a.side]
                /\ c.levels[a.side][a.price] = b.levels[a.side][a.price]
            BY <2>15, <2>16, <3>3, <4>2, <5>1
          <5>3. QED BY <5>1, <5>2
        <4>3. QED BY <4>1, <4>2
      <3>5. a.user \in DOMAIN c.users /\ j \in Range(c.users[a.user])
        <4>1. CASE a.user = u
          <5>1. j \in Range(b.users[u]) BY <3>2, <4>1 DEF Filed
          <5>2. j \in Range(mine) BY <2>12, <3>1, <5>1
          <5>3. mine # << >> BY <2>13, <5>2
          <5>4. QED BY <2>18, <4>1, <5>2, <5>3
        <4>2. CASE a.user # u
          <5>1. a.user \in DOMAIN b.users /\ j \in Range(b.users[a.user]) BY <3>2 DEF Filed
          <5>2. QED BY <2>18, <4>2, <5>1
        <4>3. QED BY <4>1, <4>2
      <3>6. QED BY <3>1, <3>2, <3>4, <3>5 DEF Filed
    <2>21. IsBook(c)
      <3>1. \A t \in Sides : Maps(c.levels[t], Nat, Levels) BY <1>1, <2>15, <2>16
      <3>2. QED BY <2>7, <2>9, <2>15, <2>18, <3>1 DEF IsBook, g
    <2>22. GoodBook(c) BY <2>17, <2>19, <2>20, <2>21 DEF GoodBook, g
    <2>23. QED BY <2>7, <2>22 DEF c, g, f
  <1>4. QED BY <1>2, <1>3

-----------------------------------------------------------------------------
(* UpdateQty keeps a book good.                                            *)

LEMMA UpdateKeeps ==
    ASSUME NEW b, GoodBook(b), NEW i, OnBook(b, i), NEW n \in Nat, n > 0
    PROVE  /\ GoodBook(UpdateQty(b, i, n))
           /\ UpdateQty(b, i, n).orders = [b.orders EXCEPT ![i] = Left(b.orders[i], n)]
  <1> DEFINE f == b.orders
             o == f[i]
             c == UpdateQty(b, i, n)
             g == c.orders
             s == o.side
             p == o.price
             level == b.levels[s][p]
             changed == [level EXCEPT !.total = @ - (o.rem - n)]
  <1>1. /\ Maps(f, OrderIds, Orders) /\ Maps(b.users, Users, Lists)
        /\ b.levels = [t \in Sides |-> b.levels[t]]
        /\ \A t \in Sides : Maps(b.levels[t], Nat, Levels)
        /\ b = [orders |-> b.orders, levels |-> b.levels, users |-> b.users]
    BY DEF GoodBook, IsBook
  <1>2. /\ \A j \in DOMAIN f : Filed(b, j, f[j])
        /\ \A t \in Sides : \A q \in DOMAIN b.levels[t] : LevelAgrees(f, t, q, b.levels[t][q])
        /\ \A v \in DOMAIN b.users : ListAgrees(f, v, b.users[v])
    BY DEF GoodBook
  <1>3. i \in DOMAIN f /\ o \in Orders /\ Filed(b, i, o)
    BY <1>1, <1>2 DEF OnBook, Maps
  <1>4. /\ o.id = i /\ s \in Sides /\ p \in Nat /\ o.rem \in Nat
        /\ p \in DOMAIN b.levels[s] /\ i \in Range(level.ids)
    BY <1>3, OrderHas DEF Filed
  <1>5. level \in Levels /\ LevelAgrees(f, s, p, level) BY <1>1, <1>2, <1>4 DEF Maps
  <1>6. /\ c = [orders |-> c.orders, levels |-> c.levels, users |-> c.users]
        /\ g = [f EXCEPT ![i] = Left(o, n)]
        /\ c.levels = [b.levels EXCEPT ![s] = [@ EXCEPT ![p] = changed]]
        /\ c.users = b.users
    <2>1. c = [b EXCEPT !.orders[i].rem = n, !.levels[s][p].total = @ - (o.rem - n)]
      BY DEF UpdateQty
    <2> HIDE DEF c
    <2>2. c = [orders |-> [b.orders EXCEPT ![i].rem = n],
               levels |-> [b.levels EXCEPT ![s][p].total = @ - (o.rem - n)],
               users |-> b.users]
      BY <1>1, <2>1
    <2>3. [f EXCEPT ![i].rem = n] = [f EXCEPT ![i] = Left(o, n)]
      BY <1>1, <1>3 DEF Left, Maps
    <2>4. [b.levels EXCEPT ![s][p].total = @ - (o.rem - n)]
            = [b.levels EXCEPT ![s] = [@ EXCEPT ![p] = changed]]
      BY <1>1, <1>4
    <2> HIDE DEF f, o, s, p, changed
    <2>5. QED BY <2>2, <2>3, <2>4 DEF f
  <1>7. changed.ids = level.ids /\ changed.total = level.total - (o.rem - n)
        /\ changed \in Levels
    <2>1. \A l \in Levels : \A d \in Int :
             /\ [l EXCEPT !.total = @ - d] \in Levels
             /\ [l EXCEPT !.total = @ - d].ids = l.ids
             /\ [l EXCEPT !.total = @ - d].total = l.total - d
      BY DEF Levels
    <2>2. o.rem - n \in Int BY <1>4
    <2> HIDE DEF level, o
    <2>3. QED BY <1>5, <2>1, <2>2
  <1> HIDE DEF o, c, g, s, p, f, level, changed
  <1>8. /\ Left(o, n) \in Orders /\ Left(o, n).id = i /\ Left(o, n).side = s
        /\ Left(o, n).price = p /\ Left(o, n).user = o.user /\ Left(o, n).rem = n
    BY <1>3, <1>4, LeftIs DEF s, p
  <1>9. /\ Maps(g, OrderIds, Orders) /\ DOMAIN g = DOMAIN f /\ g[i] = Left(o, n)
        /\ \A j \in DOMAIN f : j # i => g[j] = f[j]
    BY <1>1, <1>3, <1>6, <1>8 DEF Maps
  <1>10. \A j \in DOMAIN f : /\ g[j].side = f[j].side /\ g[j].price = f[j].price
                             /\ g[j].user = f[j].user
    BY <1>8, <1>9 DEF o, s, p
  <1>11. LevelAgrees(g, s, p, changed)
    <2> DEFINE S == Range(level.ids)
               F == Quantities(f)
               G == Quantities(g)
    <2>1. level.ids \in Seq(OrderIds) /\ level.total \in Int BY <1>5 DEF Levels
    <2>2. IsFiniteSet(S) BY <2>1, RangeFinite
    <2>3. S \in SUBSET DOMAIN f BY <1>5 DEF LevelAgrees
    <2>4. IsIntOn(F, S) /\ IsIntOn(G, S) BY <1>1, <1>9, <2>3, QuantitiesInt
    <2>5. SameOn(F, G, S \ {i}) BY <1>9, <2>3 DEF SameOn, Quantities
    <2>6. F[i] = o.rem /\ G[i] = n BY <1>3, <1>8, <1>9 DEF Quantities, o
    <2>7. level.total = SumFunctionOnSet(F, S) BY <1>5 DEF LevelAgrees
    <2>8. i \in S BY <1>4
    <2> HIDE DEF S, F, G
    <2>9. SumFunctionOnSet(G, S) = SumFunctionOnSet(F, S) + G[i] - F[i]
      BY <2>2, <2>4, <2>5, <2>8, SumChanged
    <2>10. SumFunctionOnSet(G, S) = changed.total
      BY <1>4, <1>7, <2>1, <2>6, <2>7, <2>9
    <2>11. \A j \in S : j \in DOMAIN g /\ g[j].side = s /\ g[j].price = p
      BY <1>5, <1>9, <1>10 DEF LevelAgrees, S
    <2>12. QED BY <1>5, <1>7, <2>10, <2>11 DEF LevelAgrees, S, G
  <1>12. /\ c.levels = [t \in Sides |-> c.levels[t]]
         /\ c.levels[s] = [b.levels[s] EXCEPT ![p] = changed]
         /\ \A t \in Sides : t # s => c.levels[t] = b.levels[t]
    BY <1>1, <1>4, <1>6
  <1>13. /\ Maps(c.levels[s], Nat, Levels) /\ DOMAIN c.levels[s] = DOMAIN b.levels[s]
         /\ c.levels[s][p] = changed
         /\ \A q \in DOMAIN b.levels[s] : q # p => c.levels[s][q] = b.levels[s][q]
    <2> DEFINE w == b.levels[s]
    <2>1. Maps(w, Nat, Levels) /\ p \in DOMAIN w BY <1>1, <1>4
    <2> HIDE DEF w
    <2>2. c.levels[s] = [w EXCEPT ![p] = changed] BY <1>12 DEF w
    <2>3. QED BY <1>7, <2>1, <2>2 DEF Maps, w
  <1>14. ASSUME NEW t \in Sides, NEW q \in DOMAIN c.levels[t]
         PROVE  LevelAgrees(g, t, q, c.levels[t][q])
    <2>1. CASE t = s /\ q = p BY <1>11, <1>13, <2>1
    <2>2. CASE ~(t = s /\ q = p)
      <3> DEFINE l == b.levels[t][q]
      <3>1. q \in DOMAIN b.levels[t] /\ c.levels[t][q] = l BY <1>12, <1>13, <2>2
      <3>2. l \in Levels /\ LevelAgrees(f, t, q, l) BY <1>1, <1>2, <3>1 DEF Maps
      <3> HIDE DEF l
      <3>3. \A j \in Range(l.ids) : j \in DOMAIN f /\ f[j].side = t /\ f[j].price = q
        BY <3>2 DEF LevelAgrees
      <3>4. i \notin Range(l.ids) BY <2>2, <3>3 DEF s, p, o
      <3>5. \A j \in Range(l.ids) : j \in DOMAIN g /\ g[j] = f[j] BY <1>9, <3>3, <3>4
      <3>6. LevelAgrees(g, t, q, l) BY <3>2, <3>5, LevelKept
      <3>7. QED BY <3>1, <3>6
    <2>3. QED BY <2>1, <2>2
  <1>15. ASSUME NEW v \in DOMAIN c.users PROVE ListAgrees(g, v, c.users[v])
    <2>1. v \in DOMAIN b.users /\ c.users[v] = b.users[v] /\ ListAgrees(f, v, b.users[v])
      BY <1>2, <1>6
    <2>2. QED BY <1>9, <1>10, <2>1 DEF ListAgrees
  <1>16. ASSUME NEW j \in DOMAIN g PROVE Filed(c, j, g[j])
    <2> DEFINE a == f[j]
    <2>1. j \in DOMAIN f /\ Filed(b, j, a) BY <1>2, <1>9
    <2>2. /\ g[j].side = a.side /\ g[j].price = a.price /\ g[j].user = a.user
          /\ g[j].id = j /\ g[j].rem > 0
      BY <1>8, <1>9, <1>10, <2>1 DEF Filed
    <2>3. a.side \in Sides BY <1>1, <2>1, OrderHas DEF Maps
    <2> HIDE DEF a
    <2>4. a.price \in DOMAIN c.levels[a.side] /\ j \in Range(c.levels[a.side][a.price].ids)
      <3>1. a.price \in DOMAIN b.levels[a.side]
            /\ j \in Range(b.levels[a.side][a.price].ids) BY <2>1 DEF Filed
      <3>2. CASE a.side = s /\ a.price = p BY <1>7, <1>13, <3>1, <3>2 DEF level
      <3>3. CASE ~(a.side = s /\ a.price = p) BY <1>12, <1>13, <2>3, <3>1, <3>3
      <3>4. QED BY <3>2, <3>3
    <2>5. a.user \in DOMAIN c.users /\ j \in Range(c.users[a.user])
      BY <1>6, <2>1 DEF Filed
    <2>6. QED BY <2>2, <2>4, <2>5 DEF Filed
  <1>17. IsBook(c)
    <2>1. \A t \in Sides : Maps(c.levels[t], Nat, Levels) BY <1>1, <1>12, <1>13
    <2>2. QED BY <1>1, <1>6, <1>9, <1>12, <2>1 DEF IsBook, g
  <1>18. GoodBook(c) BY <1>14, <1>15, <1>16, <1>17 DEF GoodBook, g
  <1>19. QED BY <1>6, <1>18 DEF c, g, f, o

-----------------------------------------------------------------------------
(* The sorted prices of a side.                                            *)

\* The order on prices, best first.
LEMMA BetterOrders ==
    ASSUME NEW side, NEW p \in Int, NEW q \in Int
    PROVE  /\ ~Better(side, p, p)
           /\ p # q => Better(side, p, q) \/ Better(side, q, p)
           /\ \A r \in Int : Better(side, p, q) /\ Better(side, q, r) => Better(side, p, r)
  BY DEF Better

\* A finite set of prices has a worst one.
LEMMA WorstPrice ==
    ASSUME NEW side, NEW P \in SUBSET Int, IsFiniteSet(P), P # {}
    PROVE  \E w \in P : \A p \in P \ {w} : Better(side, p, w)
  <1> DEFINE T == {X \in SUBSET P : X # {} => \E w \in X : \A p \in X \ {w} : Better(side, p, w)}
  <1>1. {} \in T OBVIOUS
  <1>2. ASSUME NEW X \in SUBSET P, NEW x \in P \ X, X \in T PROVE X \cup {x} \in T
    <2>1. CASE X = {} BY <2>1
    <2>2. CASE X # {}
      <3>1. PICK w \in X : \A p \in X \ {w} : Better(side, p, w) BY <1>2, <2>2
      <3>2. x \in Int /\ w \in Int /\ x # w /\ X \subseteq Int OBVIOUS
      <3>3. CASE Better(side, x, w)
        <4>1. \A p \in (X \cup {x}) \ {w} : Better(side, p, w) BY <3>1, <3>3
        <4>2. QED BY <4>1
      <3>4. CASE Better(side, w, x)
        <4>1. \A p \in X : Better(side, p, x) BY <3>1, <3>2, <3>4, BetterOrders
        <4>2. \A p \in (X \cup {x}) \ {x} : Better(side, p, x) BY <4>1
        <4>3. QED BY <4>2
      <3>5. QED BY <3>2, <3>3, <3>4, BetterOrders
    <2>3. QED BY <2>1, <2>2
  <1> HIDE DEF T
  <1>3. P \in T BY <1>1, <1>2, SetInduction
  <1>4. QED BY <1>3 DEF T

\* Prices from the best to the worst.
Sorted(side, s) == \A i, j \in DOMAIN s : i < j => Better(side, s[i], s[j])

\* Every finite set of prices can be sorted.
LEMMA SortedExists ==
    ASSUME NEW side, NEW P \in SUBSET Int, IsFiniteSet(P)
    PROVE  \E s \in Seq(P) : Sorted(side, s) /\ IsInjective(s) /\ Range(s) = P
  <1> DEFINE Can(X) == \E s \in Seq(X) : Sorted(side, s) /\ IsInjective(s) /\ Range(s) = X
             N == {n \in Nat : \A X \in SUBSET Int :
                      IsFiniteSet(X) /\ Cardinality(X) = n => Can(X)}
  <1>1. 0 \in N
    <2> SUFFICES ASSUME NEW X \in SUBSET Int, IsFiniteSet(X), Cardinality(X) = 0
                 PROVE  Can(X) OBVIOUS
    <2>1. X = {} BY FS_EmptySet
    <2>2. << >> \in Seq(X) /\ Sorted(side, << >>) /\ IsInjective(<< >>) /\ Range(<< >>) = {}
      BY DEF Sorted, IsInjective, Range
    <2>3. QED BY <2>1, <2>2
  <1>2. ASSUME NEW n \in Nat, n \in N PROVE n + 1 \in N
    <2> SUFFICES ASSUME NEW X \in SUBSET Int, IsFiniteSet(X), Cardinality(X) = n + 1
                 PROVE  Can(X) OBVIOUS
    <2>1. X # {} BY FS_EmptySet
    <2>2. PICK w \in X : \A p \in X \ {w} : Better(side, p, w) BY <2>1, WorstPrice
    <2> DEFINE Y == X \ {w}
    <2>3. Y \in SUBSET Int /\ IsFiniteSet(Y) /\ Cardinality(Y) = n
      BY FS_RemoveElement
    <2>4. Can(Y) BY <1>2, <2>3
    <2>5. PICK s \in Seq(Y) : Sorted(side, s) /\ IsInjective(s) /\ Range(s) = Y BY <2>4
    <2> DEFINE t == Append(s, w)
               m == Len(s)
    <2>6. s \in Seq(X) /\ \A i \in 1 .. m : s[i] \in Y
      <3>1. Y \subseteq X OBVIOUS
      <3>2. QED BY <3>1
    <2> HIDE DEF Y
    <2>7. t \in Seq(X) /\ Range(t) = Range(s) \cup {w} /\ IsInjective(t)
      BY <2>5, <2>6, AppendMembers DEF Y
    <2>8. /\ m \in Nat /\ DOMAIN s = 1 .. m /\ DOMAIN t = 1 .. m + 1
          /\ t[m + 1] = w /\ \A i \in 1 .. m : t[i] = s[i]
      BY <2>6, AppendProperties
    <2> HIDE DEF t, m
    <2>9. ASSUME NEW i \in 1 .. m + 1, NEW j \in 1 .. m + 1, i < j
          PROVE  Better(side, t[i], t[j])
      <3>1. i \in 1 .. m BY <2>8, <2>9
      <3>2. CASE j = m + 1 BY <2>2, <2>6, <2>8, <3>1, <3>2 DEF Y, m
      <3>3. CASE j # m + 1
        <4>1. j \in 1 .. m BY <2>8, <3>3
        <4>2. QED BY <2>5, <2>8, <2>9, <3>1, <4>1 DEF Sorted
      <3>4. QED BY <3>2, <3>3
    <2>10. Sorted(side, t) BY <2>8, <2>9 DEF Sorted
    <2>11. Range(t) = X BY <2>5, <2>7 DEF Y
    <2>12. QED BY <2>7, <2>10, <2>11
  <1>3. \A n \in Nat : n \in N
    <2> HIDE DEF N
    <2>1. QED BY <1>1, <1>2, Induction
  <1>4. Cardinality(P) \in Nat BY FS_CardinalityType
  <1>5. QED BY <1>3, <1>4

\* The prices in the order they are looked at.
LEMMA BestFirstIs ==
    ASSUME NEW side, NEW P \in SUBSET Int, IsFiniteSet(P)
    PROVE  /\ BestFirst(side, P) \in Seq(P) /\ IsInjective(BestFirst(side, P))
           /\ Range(BestFirst(side, P)) = P
           /\ Sorted(side, BestFirst(side, P))
  <1>1. PICK s \in Seq(P) : Sorted(side, s) /\ IsInjective(s) /\ Range(s) = P BY SortedExists
  <1>2. s \in SetToSeqs(P) BY <1>1, SequencesOfSet
  <1>3. \E t \in SetToSeqs(P) : Sorted(side, t) BY <1>1, <1>2
  <1>4. BestFirst(side, P) = CHOOSE t \in SetToSeqs(P) : Sorted(side, t)
    BY DEF BestFirst, Sorted
  <1>5. BestFirst(side, P) \in SetToSeqs(P) /\ Sorted(side, BestFirst(side, P))
    BY <1>3, <1>4
  <1>6. QED BY <1>5, SequencesOfSet

-----------------------------------------------------------------------------
(* The makers a taker meets, and in which order.                           *)

\* There are only as many levels as orders.
LEMMA PricesFinite ==
    ASSUME NEW b, GoodBook(b), NEW s \in Sides
    PROVE  Prices(b, s) \in SUBSET Nat /\ IsFiniteSet(Prices(b, s))
  <1> DEFINE P == Prices(b, s)
             D == {id \in DOMAIN b.orders : b.orders[id].side = s /\ b.orders[id].price \in P}
             price == [id \in D |-> b.orders[id].price]
  <1>1. Maps(b.orders, OrderIds, Orders) /\ Maps(b.levels[s], Nat, Levels)
    BY DEF GoodBook, IsBook
  <1>2. P \in SUBSET Nat BY <1>1 DEF Prices, Maps
  <1>3. IsFiniteSet(OrderIds) BY EngineAssumption, FS_Interval DEF OrderIds
  <1>4. D \in SUBSET OrderIds BY <1>1 DEF Maps
  <1>5. IsFiniteSet(D) BY <1>3, <1>4, FS_Subset
  <1>6. ASSUME NEW p \in P PROVE \E id \in D : price[id] = p
    <2> DEFINE level == b.levels[s][p]
    <2>1. LevelAgrees(b.orders, s, p, level) BY DEF GoodBook, Prices
    <2>2. level.ids \in Seq(OrderIds) BY <1>1 DEF Prices, Maps, Levels
    <2> HIDE DEF level
    <2>3. 1 \in DOMAIN level.ids BY <2>1, <2>2 DEF LevelAgrees
    <2>4. level.ids[1] \in Range(level.ids) BY <2>3 DEF Range
    <2>5. QED BY <2>1, <2>4 DEF LevelAgrees
  <1>7. price \in Surjection(D, P) BY <1>6 DEF Surjection
  <1> HIDE DEF D, price, P
  <1>8. IsFiniteSet(P) BY <1>5, <1>7, FS_Surjection
  <1>9. QED BY <1>2, <1>8 DEF P

\* Each side has the other opposite it.
LEMMA OppositeIs ==
    ASSUME NEW s \in Sides
    PROVE  Opposite(s) \in Sides /\ Opposite(s) # s /\ Opposite(Opposite(s)) = s
  BY DEF Sides, Opposite

\* The orders a taker may trade with.
Within(taker, o) ==
    /\ o.side = Opposite(taker.side)
    /\ IsLimit(taker.type) => Crosses(taker.side, taker.price, o.price)

\* They are visited once each.
LEMMA MakersAre ==
    ASSUME NEW b, GoodBook(b), NEW taker \in Orders
    PROVE  /\ Makers(b, taker) \in Seq(OrderIds) /\ IsInjective(Makers(b, taker))
           /\ Range(Makers(b, taker))
                = {id \in DOMAIN b.orders : Within(taker, b.orders[id])}
  <1> DEFINE s == Opposite(taker.side)
             R == Reachable(b, taker)
             prices == BestFirst(s, R)
             qs == Queues(b, taker)
             M == {id \in DOMAIN b.orders : Within(taker, b.orders[id])}
  <1>1. s \in Sides BY OrderHas, OppositeIs
  <1>2. R \in SUBSET Prices(b, s) BY DEF Reachable
  <1>3. Prices(b, s) \in SUBSET Nat /\ IsFiniteSet(Prices(b, s)) BY <1>1, PricesFinite
  <1>4. R \in SUBSET Int /\ IsFiniteSet(R)
    <2>1. IsFiniteSet(R) BY <1>2, <1>3, FS_Subset
    <2>2. QED BY <1>2, <1>3, <2>1
  <1>5. \A p \in Prices(b, s) : p \in R <=> (IsLimit(taker.type) => Crosses(taker.side, taker.price, p))
    BY DEF Reachable
  <1>6. Maps(b.levels[s], Nat, Levels) BY <1>1 DEF GoodBook, IsBook
  <1>7. \A p \in Prices(b, s) : /\ LevelAgrees(b.orders, s, p, b.levels[s][p])
                                /\ b.levels[s][p].ids \in Seq(OrderIds)
    BY <1>1, <1>6 DEF GoodBook, Prices, Maps, Levels
  <1>8. qs = [i \in DOMAIN prices |-> b.levels[s][prices[i]].ids] BY DEF Queues, Queue
  <1> HIDE DEF s, R, prices, qs, M
  <1>9. prices \in Seq(R) /\ IsInjective(prices) /\ Range(prices) = R
    BY <1>4, BestFirstIs DEF prices
  <1>10. /\ DOMAIN prices = 1 .. Len(prices) /\ Len(prices) \in Nat
         /\ \A i \in DOMAIN prices : prices[i] \in R
    BY <1>9
  <1>11. qs \in Seq(Seq(OrderIds)) /\ DOMAIN qs = DOMAIN prices
    <2>1. qs = [i \in 1 .. Len(prices) |-> b.levels[s][prices[i]].ids] BY <1>8, <1>10
    <2>2. \A i \in 1 .. Len(prices) : b.levels[s][prices[i]].ids \in Seq(OrderIds)
      BY <1>2, <1>7, <1>10
    <2>3. QED BY <1>10, <2>1, <2>2
  <1>12. ASSUME NEW i \in DOMAIN qs
         PROVE  /\ IsInjective(qs[i])
                /\ \A id \in Range(qs[i]) :
                      id \in DOMAIN b.orders /\ b.orders[id].side = s /\ b.orders[id].price = prices[i]
    <2>1. prices[i] \in Prices(b, s) /\ qs[i] = b.levels[s][prices[i]].ids
      BY <1>2, <1>8, <1>10, <1>11
    <2>2. QED BY <1>7, <2>1 DEF LevelAgrees
  <1>13. Apart(qs)
    <2>1. ASSUME NEW i \in DOMAIN qs, NEW j \in DOMAIN qs, i # j
          PROVE  Range(qs[i]) \cap Range(qs[j]) = {}
      <3>1. prices[i] # prices[j] BY <1>9, <1>11, <2>1 DEF IsInjective
      <3>2. QED BY <1>12, <3>1
    <2>2. QED BY <1>12, <2>1 DEF Apart
  <1>14. Held(qs) = M
    <2>1. ASSUME NEW id \in Held(qs) PROVE id \in M
      <3>1. PICK i \in DOMAIN qs : id \in Range(qs[i]) BY DEF Held
      <3>2. /\ id \in DOMAIN b.orders /\ b.orders[id].side = s /\ b.orders[id].price = prices[i]
            /\ prices[i] \in R
        BY <1>10, <1>11, <1>12, <3>1
      <3>3. QED BY <1>2, <1>5, <3>2 DEF M, Within, s
    <2>2. ASSUME NEW id \in M PROVE id \in Held(qs)
      <3> DEFINE o == b.orders[id]
      <3>1. id \in DOMAIN b.orders /\ Within(taker, o) BY DEF M
      <3>2. Filed(b, id, o) BY <3>1 DEF GoodBook
      <3> HIDE DEF o
      <3>3. o.side = s BY <3>1 DEF Within, s
      <3>4. o.price \in Prices(b, s) /\ id \in Range(b.levels[s][o.price].ids)
        BY <3>2, <3>3 DEF Filed, Prices
      <3>5. o.price \in R BY <1>5, <3>1, <3>4 DEF Within
      <3>6. PICK i \in DOMAIN prices : prices[i] = o.price BY <1>9, <3>5 DEF Range
      <3>7. i \in DOMAIN qs /\ id \in Range(qs[i]) BY <1>8, <1>11, <3>4, <3>6
      <3>8. QED BY <3>7 DEF Held
    <2>3. QED BY <2>1, <2>2
  <1>15. Makers(b, taker) = FlattenSeq(qs) BY DEF Makers, qs
  <1>16. QED BY <1>11, <1>13, <1>14, <1>15, FlattenMembers, FlattenType DEF M

-----------------------------------------------------------------------------
(* One maker's turn.                                                       *)

\* The fold over the makers.
Fill == INSTANCE CollectionLaws WITH op <- FillAgainst

\* The fills of a match.
Fills == [maker : OrderIds, makerUser : Users, price : Nat, qty : Nat]

\* What a fill takes off what is owed, on either leg.
Paid(owing, f, i) ==
    LET made == [owing EXCEPT ![f.maker] = @ - f.qty]
    IN  [made EXCEPT ![i] = @ - f.qty]

\* r is what is owed after the first n fills of the order i.
IsPayment(tr, owing, fills, i, n) ==
    /\ tr[0] = owing
    /\ \A j \in 1 .. n : tr[j] = Paid(tr[j - 1], fills[j], i)
PaysTo(owing, fills, i, n, r) == \E tr : IsPayment(tr, owing, fills, i, n) /\ tr[n] = r

\* The orders of g are those of f, with no more remaining.
Reduces(f, g) ==
    /\ DOMAIN g \subseteq DOMAIN f
    /\ \A id \in DOMAIN g : g[id] = Left(f[id], g[id].rem) /\ g[id].rem <= f[id].rem

\* What is owed follows what orders have remaining.
Settled(owing, r, f, g, o, left) ==
    /\ r \in [OrderIds -> Int]
    /\ r[o.id] = owing[o.id] - (o.rem - left)
    /\ \A id \in DOMAIN g : r[id] = owing[id] - (f[id].rem - g[id].rem)
    /\ \A id \in OrderIds \ DOMAIN f : id # o.id => r[id] = owing[id]

\* The match of the taker o with the orders f, so far: what is left of the taker
\* and of the makers, and that every history pays for it by the fills.
Matched(f, o, m) ==
    /\ GoodBook(m.book) /\ Reduces(f, m.book.orders)
    /\ m.taker.rem \in Nat /\ m.taker.rem <= o.rem /\ m.taker = Left(o, m.taker.rem)
    /\ m.fills \in Seq(Fills)
    /\ \A owing \in [OrderIds -> Int] : \A r :
          PaysTo(owing, m.fills, o.id, Len(m.fills), r)
            => Settled(owing, r, f, m.book.orders, o, m.taker.rem)

\* One more fill.
LEMMA PaysOneMore ==
    ASSUME NEW fills \in Seq(Fills), NEW f \in Fills, NEW i, NEW owing, NEW r,
           PaysTo(owing, Append(fills, f), i, Len(Append(fills, f)), r)
    PROVE  \E q : PaysTo(owing, fills, i, Len(fills), q) /\ r = Paid(q, f, i)
  <1> DEFINE n == Len(fills)
             longer == Append(fills, f)
  <1>1. /\ n \in Nat /\ Len(longer) = n + 1 /\ longer[n + 1] = f
        /\ \A j \in 1 .. n : longer[j] = fills[j]
    BY AppendProperties
  <1> HIDE DEF longer, n
  <1>2. PICK tr : IsPayment(tr, owing, longer, i, n + 1) /\ tr[n + 1] = r
    BY <1>1 DEF PaysTo, longer
  <1>3. IsPayment(tr, owing, fills, i, n)
    <2>1. \A j \in 1 .. n : j \in 1 .. n + 1 BY <1>1
    <2>2. \A j \in 1 .. n : tr[j] = Paid(tr[j - 1], fills[j], i)
      BY <1>1, <1>2, <2>1 DEF IsPayment
    <2>3. QED BY <1>2, <2>2 DEF IsPayment
  <1>4. r = Paid(tr[n], f, i)
    <2> DEFINE k == n + 1
    <2>1. k \in 1 .. k /\ k - 1 = n BY <1>1
    <2>2. IsPayment(tr, owing, longer, i, k) /\ tr[k] = r /\ longer[k] = f BY <1>1, <1>2
    <2> HIDE DEF k
    <2>3. tr[k] = Paid(tr[k - 1], longer[k], i) BY <2>1, <2>2 DEF IsPayment
    <2>4. QED BY <2>1, <2>2, <2>3
  <1>5. QED BY <1>3, <1>4 DEF PaysTo, n

\* A maker's turn.
LEMMA FillStep ==
    ASSUME NEW f, Maps(f, OrderIds, Orders), NEW o \in Orders, o.id \notin DOMAIN f,
           NEW m, Matched(f, o, m), m.taker.rem # 0,
           NEW id \in DOMAIN m.book.orders, m.book.orders[id] = f[id]
    PROVE  LET g == m.book.orders
               h == FillAgainst(m, id).book.orders
           IN  /\ Matched(f, o, FillAgainst(m, id))
               /\ \A j \in DOMAIN g : j # id => j \in DOMAIN h /\ h[j] = g[j]
               /\ DOMAIN h \subseteq DOMAIN g
               /\ FillAgainst(m, id).taker.rem > 0 => id \notin DOMAIN h
  <1> DEFINE g == m.book.orders
             maker == g[id]
             t == m.taker.rem
             qty == FillQty(m, id)
             rest == MakerLeft(m, id)
             fill == [maker |-> id, makerUser |-> maker.user, price |-> maker.price, qty |-> qty]
             book == IF rest = 0 THEN RemoveOrder(m.book, id) ELSE UpdateQty(m.book, id, rest)
             mm == FillAgainst(m, id)
             h == mm.book.orders
  <1>1. /\ GoodBook(m.book) /\ Reduces(f, g) /\ t \in Nat /\ t <= o.rem /\ m.taker = Left(o, t)
        /\ m.fills \in Seq(Fills) /\ t # 0
    BY DEF Matched
  <1>2. /\ Maps(g, OrderIds, Orders) /\ Filed(m.book, id, maker)
    BY <1>1 DEF GoodBook, IsBook
  <1>3. maker \in Orders /\ id \in OrderIds /\ maker.rem \in Nat /\ maker.rem > 0
        /\ maker.user \in Users /\ maker.price \in Nat /\ maker = f[id] /\ id \in DOMAIN f
    BY <1>1, <1>2, OrderHas DEF Maps, Filed, Reduces
  <1>4. o.id # id /\ o.id \in OrderIds /\ o.rem \in Nat BY <1>3, OrderHas
  <1>5. qty = (IF t <= maker.rem THEN t ELSE maker.rem) /\ rest = maker.rem - qty
    BY <1>1, <1>3, MinOfTwo DEF FillQty, MakerLeft
  <1>6. /\ mm.book = book
        /\ mm.taker = [m.taker EXCEPT !.rem = @ - qty]
        /\ mm.fills = Append(m.fills, fill)
    BY DEF FillAgainst, Traded
  <1> HIDE DEF mm, book, qty, rest, t, g
  <1>7. qty \in Nat /\ rest \in Nat /\ qty > 0 /\ qty <= t /\ (t - qty > 0 => rest = 0)
        /\ t - qty \in Nat /\ t - qty <= o.rem
    BY <1>1, <1>3, <1>4, <1>5
  <1>8. mm.taker = Left(o, t - qty) /\ mm.taker.rem = t - qty
    <2>1. m.taker = Left(o, t) /\ Left(o, t).rem = t BY <1>1, LeftIs
    <2>2. mm.taker = Left(Left(o, t), t - qty) BY <1>6, <2>1 DEF Left
    <2>3. QED BY <1>1, <1>7, <2>2, LeftTwice, LeftIs
  <1>9. fill \in Fills BY <1>3, <1>7 DEF Fills
  <1>10. mm.fills \in Seq(Fills) BY <1>1, <1>6, <1>9, AppendProperties
  <1>11. CASE rest = 0
    <2>1. book = RemoveOrder(m.book, id) BY <1>11 DEF book
    <2>2. GoodBook(book) /\ book.orders = Drop(g, id) BY <1>1, <2>1, RemoveKeeps DEF g
    <2>3. DOMAIN h = DOMAIN g \ {id} /\ \A j \in DOMAIN g \ {id} : h[j] = g[j]
      BY <1>6, <2>2 DEF Drop, Restrict
    <2> QED
      <3>1. GoodBook(mm.book) /\ Reduces(f, h)
        BY <1>1, <1>6, <2>2, <2>3 DEF Reduces
      <3>2. ASSUME NEW owing \in [OrderIds -> Int], NEW r,
                   PaysTo(owing, mm.fills, o.id, Len(mm.fills), r)
            PROVE  Settled(owing, r, f, h, o, t - qty)
        <4>1. PICK q : PaysTo(owing, m.fills, o.id, Len(m.fills), q) /\ r = Paid(q, fill, o.id)
          BY <1>1, <1>6, <1>9, <3>2, PaysOneMore
        <4>2. Settled(owing, q, f, g, o, t) BY <4>1 DEF Matched, g, t
        <4>3. /\ r \in [OrderIds -> Int] /\ r[o.id] = q[o.id] - qty
              /\ \A j \in OrderIds : j # id /\ j # o.id => r[j] = q[j]
          BY <1>3, <1>4, <1>7, <4>1, <4>2 DEF Paid, Settled
        <4>4. r[o.id] = owing[o.id] - (o.rem - (t - qty))
          BY <1>1, <1>4, <1>7, <4>2, <4>3 DEF Settled
        <4>5. \A j \in DOMAIN h : r[j] = owing[j] - (f[j].rem - h[j].rem)
          <5>1. \A j \in DOMAIN h : j \in OrderIds /\ j # id /\ j \in DOMAIN g /\ j # o.id
            BY <1>1, <1>2, <2>3 DEF Maps, Reduces
          <5>2. QED BY <2>3, <4>2, <4>3, <5>1 DEF Settled
        <4>6. \A j \in OrderIds \ DOMAIN f : j # o.id => r[j] = owing[j]
          BY <1>3, <4>2, <4>3 DEF Settled
        <4>7. QED BY <4>3, <4>4, <4>5, <4>6 DEF Settled
      <3>3. Matched(f, o, mm) BY <1>7, <1>8, <1>10, <3>1, <3>2 DEF Matched, h
      <3>4. QED BY <2>3, <3>3 DEF mm, g
  <1>12. CASE rest # 0
    <2>1. book = UpdateQty(m.book, id, rest) BY <1>12 DEF book
    <2>2. GoodBook(book) /\ book.orders = [g EXCEPT ![id] = Left(maker, rest)]
      BY <1>1, <1>7, <1>12, <2>1, UpdateKeeps DEF g, OnBook
    <2>3. /\ DOMAIN h = DOMAIN g /\ h[id] = Left(maker, rest)
          /\ \A j \in DOMAIN g \ {id} : h[j] = g[j]
      BY <1>6, <2>2 DEF g
    <2>4. h[id].rem = rest BY <1>3, <1>7, <2>3, LeftIs
    <2> QED
      <3>1. GoodBook(mm.book) /\ Reduces(f, h)
        <4>1. rest <= f[id].rem BY <1>3, <1>5, <1>7
        <4>2. QED BY <1>1, <1>3, <1>6, <2>2, <2>3, <2>4, <4>1 DEF Reduces
      <3>2. ASSUME NEW owing \in [OrderIds -> Int], NEW r,
                   PaysTo(owing, mm.fills, o.id, Len(mm.fills), r)
            PROVE  Settled(owing, r, f, h, o, t - qty)
        <4>1. PICK q : PaysTo(owing, m.fills, o.id, Len(m.fills), q) /\ r = Paid(q, fill, o.id)
          BY <1>1, <1>6, <1>9, <3>2, PaysOneMore
        <4>2. Settled(owing, q, f, g, o, t) BY <4>1 DEF Matched, g, t
        <4>3. /\ r \in [OrderIds -> Int] /\ r[o.id] = q[o.id] - qty /\ r[id] = q[id] - qty
              /\ \A j \in OrderIds : j # id /\ j # o.id => r[j] = q[j]
          BY <1>3, <1>4, <1>7, <4>1, <4>2 DEF Paid, Settled
        <4>4. r[o.id] = owing[o.id] - (o.rem - (t - qty))
          BY <1>1, <1>4, <1>7, <4>2, <4>3, SMTT(20) DEF Settled
        <4>5. ASSUME NEW j \in DOMAIN h PROVE r[j] = owing[j] - (f[j].rem - h[j].rem)
          <5>1. j \in OrderIds /\ j \in DOMAIN g /\ j # o.id
            BY <1>1, <1>2, <2>3 DEF Maps, Reduces
          <5>2. CASE j # id BY <2>3, <4>2, <4>3, <5>1, <5>2 DEF Settled
          <5>3. CASE j = id
            <6>1. q[id] = owing[id] - (maker.rem - maker.rem)
              BY <1>3, <4>2 DEF Settled, g
            <6>2. owing[id] \in Int BY <1>3
            <6>3. q[id] = owing[id] BY <1>3, <6>1, <6>2
            <6>4. QED BY <1>3, <1>5, <1>7, <2>4, <4>3, <5>3, <6>2, <6>3
          <5>4. QED BY <5>2, <5>3
        <4>6. \A j \in OrderIds \ DOMAIN f : j # o.id => r[j] = owing[j]
          BY <1>3, <4>2, <4>3 DEF Settled
        <4>7. QED BY <4>3, <4>4, <4>5, <4>6 DEF Settled
      <3>3. Matched(f, o, mm) BY <1>7, <1>8, <1>10, <3>1, <3>2 DEF Matched, h
      <3>4. mm.taker.rem = 0 BY <1>7, <1>8, <1>12
      <3>5. QED BY <2>3, <3>3, <3>4 DEF mm, g
  <1>13. QED BY <1>11, <1>12

-----------------------------------------------------------------------------
(* The whole match.                                                        *)

\* Nothing has happened to the book yet.
LEMMA NothingSwept ==
    ASSUME NEW b, GoodBook(b), NEW o \in Orders, o.id \notin DOMAIN b.orders,
           NEW m, m.book = b, m.taker = o, m.fills = << >>
    PROVE  Matched(b.orders, o, m)
  <1> DEFINE f == b.orders
  <1>1. Maps(f, OrderIds, Orders) BY DEF GoodBook, IsBook
  <1>2. \A id \in DOMAIN f : f[id] \in Orders /\ f[id].rem \in Nat /\ id \in OrderIds
    BY <1>1, OrderHas DEF Maps
  <1>3. o.rem \in Nat /\ o.id \in OrderIds BY OrderHas
  <1>4. Reduces(f, f)
    <2>1. \A id \in DOMAIN f : f[id] = Left(f[id], f[id].rem) BY <1>2, LeftTwice
    <2>2. QED BY <1>2, <2>1 DEF Reduces
  <1>5. o = Left(o, o.rem) BY <1>3, LeftTwice
  <1>6. << >> \in Seq(Fills) /\ Len(<< >>) = 0 OBVIOUS
  <1>7. ASSUME NEW owing \in [OrderIds -> Int], NEW r, PaysTo(owing, << >>, o.id, 0, r)
        PROVE  Settled(owing, r, f, f, o, o.rem)
    <2>1. r = owing BY <1>7 DEF PaysTo, IsPayment
    <2>2. \A n \in Int, k \in Nat : n = n - (k - k) OBVIOUS
    <2>3. \A id \in OrderIds : owing[id] \in Int OBVIOUS
    <2>4. r[o.id] = owing[o.id] - (o.rem - o.rem) BY <1>3, <2>1, <2>2, <2>3
    <2>5. \A id \in DOMAIN f : r[id] = owing[id] - (f[id].rem - f[id].rem)
      BY <1>2, <2>1, <2>2, <2>3
    <2>6. QED BY <2>1, <2>4, <2>5 DEF Settled
  <1> HIDE DEF f
  <1>8. Matched(f, o, m)
    <2>1. m.book.orders = f BY DEF f
    <2>2. QED BY <1>3, <1>4, <1>5, <1>6, <1>7, <2>1 DEF Matched
  <1>9. QED BY <1>8 DEF f

\* The match after k makers.
SweepAt(f, o, s, k, m) ==
    /\ Matched(f, o, m)
    /\ \A i \in 1 .. Len(s) : i > k => s[i] \in DOMAIN m.book.orders /\ m.book.orders[s[i]] = f[s[i]]
    /\ m.taker.rem > 0 => \A i \in 1 .. k : s[i] \notin DOMAIN m.book.orders

\* tr runs through the makers' turns, from the taker's arrival to the end.
IsSweep(tr, b, o, s) ==
    /\ tr[0] = [book |-> b, taker |-> o, fills |-> << >>]
    /\ \A k \in 1 .. Len(s) : tr[k] = FillAgainst(tr[k - 1], s[k])

\* The match is the end of the makers' turns.
LEMMA SweepRuns ==
    ASSUME NEW b, GoodBook(b), NEW o \in Orders, o.id \notin DOMAIN b.orders
    PROVE  LET s == Makers(b, o)
               m == Swept(b, o)
           IN  \E tr : /\ IsSweep(tr, b, o, s)
                       /\ \A k \in Nat : k <= Len(s) => SweepAt(b.orders, o, s, k, tr[k])
                       /\ m.book = tr[Len(s)].book /\ m.taker = tr[Len(s)].taker
                       /\ m.fills = tr[Len(s)].fills
  <1> DEFINE f == b.orders
             s == Makers(b, o)
             n == Len(s)
             base == [book |-> b, taker |-> o, fills |-> << >>]
             end == FoldLeft(FillAgainst, base, s)
             m == Swept(b, o)
  <1>1. /\ s \in Seq(OrderIds) /\ IsInjective(s) /\ n \in Nat /\ DOMAIN s = 1 .. n
        /\ Range(s) = {id \in DOMAIN f : Within(o, f[id])}
    BY MakersAre
  <1>2. Maps(f, OrderIds, Orders) BY DEF GoodBook, IsBook
  <1>3. m.book = end.book /\ m.taker = end.taker /\ m.fills = end.fills BY DEF Swept
  <1>4. end = Fill!Fold(base, s)
    BY DEF Fill!Fold, FoldLeft, MapThenFoldSet, Max, Fill!FoldLeft, Fill!MapThenFoldSet, Fill!Max
  <1> HIDE DEF s, end, m, base
  <1>5. PICK tr : Fill!IsTrace(tr, base, s) /\ end = tr[n] BY <1>1, <1>4, Fill!FoldTrace
  <1>6. tr[0] = base /\ \A i \in 1 .. n : tr[i] = FillAgainst(tr[i - 1], s[i])
    BY <1>5 DEF Fill!IsTrace
  <1> DEFINE K == {k \in Nat : k <= n => SweepAt(f, o, s, k, tr[k])}
  <1>7. 0 \in K
    <2>1. base.book = b /\ base.taker = o /\ base.fills = << >> BY DEF base
    <2>2. Matched(f, o, base) BY <2>1, NothingSwept
    <2>3. \A i \in 1 .. n : s[i] \in DOMAIN f
      <3>1. \A i \in 1 .. n : s[i] \in Range(s) BY <1>1 DEF Range
      <3>2. QED BY <1>1, <3>1
    <2>4. SweepAt(f, o, s, 0, base) BY <2>1, <2>2, <2>3 DEF SweepAt
    <2>5. QED BY <1>6, <2>4
  <1>8. ASSUME NEW k \in Nat, k \in K PROVE k + 1 \in K
    <2> DEFINE l == k + 1
               u == tr[k]
               v == tr[l]
               id == s[l]
    <2> SUFFICES ASSUME l <= n PROVE SweepAt(f, o, s, l, v) OBVIOUS
    <2>1. l \in 1 .. n /\ l - 1 = k /\ k <= n BY <1>1
    <2>2. SweepAt(f, o, s, k, u) BY <1>8, <2>1
    <2> HIDE DEF l
    <2>3. v = FillAgainst(u, id) BY <1>6, <2>1
    <2>4. id \in DOMAIN u.book.orders /\ u.book.orders[id] = f[id]
      <3>1. l > k BY DEF l
      <3>2. QED BY <2>1, <2>2, <3>1 DEF SweepAt
    <2>5. \A i \in 1 .. n : i # l => s[i] # id BY <1>1, <2>1 DEF IsInjective
    <2>6. \A i \in 1 .. n : i > l => i > k BY <2>1 DEF l
    <2>7. \A i \in 1 .. l : i \in 1 .. k \/ i = l BY <2>1 DEF l
    <2>8. Matched(f, o, u) BY <2>2 DEF SweepAt
    <2> HIDE DEF u, v, id
    <2>9. CASE u.taker.rem = 0
      <3>1. v = u BY <2>3, <2>9 DEF FillAgainst
      <3>2. QED BY <2>2, <2>6, <2>9, <3>1 DEF SweepAt
    <2>10. CASE u.taker.rem # 0
      <3> DEFINE g == u.book.orders
                 h == v.book.orders
      <3>1. /\ Matched(f, o, v)
            /\ \A j \in DOMAIN g : j # id => j \in DOMAIN h /\ h[j] = g[j]
            /\ DOMAIN h \subseteq DOMAIN g
            /\ v.taker.rem > 0 => id \notin DOMAIN h
        BY <1>2, <2>3, <2>4, <2>8, <2>10, FillStep
      <3>2. \A i \in 1 .. n : i > l => s[i] \in DOMAIN h /\ h[s[i]] = f[s[i]]
        <4>1. \A i \in 1 .. n : i > l => i # l BY <2>1
        <4>2. QED BY <2>2, <2>5, <2>6, <3>1, <4>1 DEF SweepAt
      <3>3. u.taker.rem \in Nat /\ u.taker.rem > 0 BY <2>8, <2>10 DEF Matched
      <3>4. ASSUME v.taker.rem > 0, NEW i \in 1 .. l PROVE s[i] \notin DOMAIN h
        <4>1. CASE i = l BY <3>1, <3>4, <4>1 DEF id
        <4>2. CASE i # l
          <5>1. i \in 1 .. k BY <2>7, <4>2
          <5>2. s[i] \notin DOMAIN g BY <2>2, <3>3, <5>1 DEF SweepAt
          <5>3. QED BY <3>1, <5>2
        <4>3. QED BY <4>1, <4>2
      <3>5. QED BY <3>1, <3>2, <3>4 DEF SweepAt, n
    <2>11. QED BY <2>9, <2>10
  <1>9. \A k \in Nat : k \in K
    <2> HIDE DEF K
    <2>1. QED BY <1>7, <1>8, Induction
  <1>10. IsSweep(tr, b, o, s) BY <1>6 DEF IsSweep, base, n
  <1>11. QED BY <1>3, <1>5, <1>9, <1>10 DEF m, s, n, f

\* All makers have had their turn.
LEMMA SweepLeaves ==
    ASSUME NEW b, GoodBook(b), NEW o \in Orders, o.id \notin DOMAIN b.orders
    PROVE  LET m == Swept(b, o)
           IN  /\ Matched(b.orders, o, m)
               /\ m.taker.rem > 0 => \A id \in DOMAIN m.book.orders : ~Within(o, b.orders[id])
  <1> DEFINE f == b.orders
             s == Makers(b, o)
             n == Len(s)
             m == Swept(b, o)
  <1>1. /\ s \in Seq(OrderIds) /\ n \in Nat /\ DOMAIN s = 1 .. n
        /\ Range(s) = {id \in DOMAIN f : Within(o, f[id])}
    BY MakersAre
  <1>2. PICK tr : /\ \A k \in Nat : k <= n => SweepAt(f, o, s, k, tr[k])
                  /\ m.book = tr[n].book /\ m.taker = tr[n].taker /\ m.fills = tr[n].fills
    BY SweepRuns
  <1> HIDE DEF f, s, n, m
  <1>3. SweepAt(f, o, s, n, tr[n]) BY <1>1, <1>2
  <1>4. Matched(f, o, m) BY <1>2, <1>3 DEF SweepAt, Matched
  <1>5. ASSUME m.taker.rem > 0, NEW id \in DOMAIN m.book.orders, Within(o, f[id]) PROVE FALSE
    <2>1. id \in DOMAIN f BY <1>4, <1>5 DEF Matched, Reduces
    <2>2. id \in Range(s) BY <1>1, <1>5, <2>1
    <2>3. PICK i \in 1 .. n : s[i] = id BY <1>1, <2>2 DEF Range
    <2>4. QED BY <1>2, <1>3, <1>5, <2>3 DEF SweepAt
  <1>6. QED BY <1>4, <1>5 DEF m, f

\* What matching leaves when it does not reject the order.
LEMMA MatchLeaves ==
    ASSUME NEW b, GoodBook(b), NEW o \in Orders, o.id \notin DOMAIN b.orders,
           ~MatchOrder(b, o).rejected
    PROVE  LET m == MatchOrder(b, o)
           IN  /\ Matched(b.orders, o, m)
               /\ m.taker.rem > 0 /\ IsLimit(o.type)
                    => \A id \in DOMAIN m.book.orders : ~Within(o, b.orders[id])
  <1> DEFINE m == MatchOrder(b, o)
  <1>1. CASE o.tif = "PostOnly"
    <2>1. m = [book |-> b, taker |-> o, fills |-> << >>, rejected |-> WouldTake(b, o)]
      BY <1>1 DEF MatchOrder, Unmatched
    <2> HIDE DEF m
    <2>2. m.book = b /\ m.taker = o /\ m.fills = << >> /\ ~WouldTake(b, o)
      BY <2>1 DEF m
    <2>3. Matched(b.orders, o, m) BY <2>2, NothingSwept
    <2>4. ASSUME IsLimit(o.type), NEW id \in DOMAIN b.orders, Within(o, b.orders[id]) PROVE FALSE
      <3>1. Filed(b, id, b.orders[id]) BY DEF GoodBook
      <3>2. b.orders[id].price \in Prices(b, Opposite(o.side))
        BY <2>4, <3>1 DEF Filed, Within, Prices
      <3>3. Crosses(o.side, o.price, b.orders[id].price) BY <2>4 DEF Within
      <3>4. QED BY <2>2, <3>2, <3>3 DEF WouldTake
    <2>5. QED BY <2>2, <2>3, <2>4 DEF m
  <1>2. CASE o.tif # "PostOnly"
    <2>1. MatchOrder(b, o) = Swept(b, o)
      <3>1. CASE o.tif = "FOK" /\ Unfillable(b, o)
        <4>1. MatchOrder(b, o).rejected BY <1>2, <3>1 DEF MatchOrder, Unmatched
        <4>2. QED BY <4>1
      <3>2. CASE ~(o.tif = "FOK" /\ Unfillable(b, o)) BY <1>2, <3>2 DEF MatchOrder
      <3>3. QED BY <3>1, <3>2
    <2>2. QED BY <2>1, SweepLeaves
  <1>3. QED BY <1>1, <1>2

-----------------------------------------------------------------------------
(* What the events of a match take from what is owed.                      *)

\* The fold of the history over the events.
Count == INSTANCE CollectionLaws WITH op <- Tally

\* What each event does to the history.
LEMMA TallyIs ==
    ASSUME NEW owing, NEW e
    PROVE  /\ e.kind = "Filled" => Tally(owing, e) = [owing EXCEPT ![e.id] = @ - e.qty]
           /\ e.kind = "Canceled" => Tally(owing, e) = [owing EXCEPT ![e.id] = 0]
           /\ e.kind = "Accepted" /\ owing[e.terms.id] = 0
                => Tally(owing, e) = [owing EXCEPT ![e.terms.id] = e.qty]
           /\ e.kind = "Accepted" /\ owing[e.terms.id] # 0 => Tally(owing, e) = owing
           /\ e.kind \in {"Trade", "Rejected", "Mark"} => Tally(owing, e) = owing
  BY DEF Tally

\* The three events of one fill of a match.
MakerLeg(m, f) ==
    Filled(f.maker, TRUE, f.qty,
           IF OnBook(m.book, f.maker) THEN m.book.orders[f.maker].rem ELSE 0)
TakerLeg(m, f) == Filled(m.taker.id, FALSE, f.qty, m.taker.rem)
Legs(m, f) == <<MakerLeg(m, f), TakerLeg(m, f), Trade(f, m.taker)>>

\* The events of a match are those of its fills, one after the other.
LEMMA FillLegs ==
    ASSUME NEW m, m.fills \in Seq(Fills)
    PROVE  \E S : \E ss \in Seq(Seq(S)) :
              /\ FillEvents(m) = FlattenSeq(ss) /\ Len(ss) = Len(m.fills)
              /\ \A i \in 1 .. Len(m.fills) : ss[i] = Legs(m, m.fills[i])
  <1> DEFINE n == Len(m.fills)
             ss == [i \in DOMAIN m.fills |-> Legs(m, m.fills[i])]
             S == UNION {{ss[i][1], ss[i][2], ss[i][3]} : i \in 1 .. n}
  <1>1. n \in Nat /\ DOMAIN m.fills = 1 .. n OBVIOUS
  <1>2. FillEvents(m) = FlattenSeq(ss) BY DEF FillEvents, Legs, MakerLeg, TakerLeg
  <1>3. ASSUME NEW i \in 1 .. n PROVE Legs(m, m.fills[i]) \in Seq(S)
    <2> DEFINE a == MakerLeg(m, m.fills[i])
               b == TakerLeg(m, m.fills[i])
               c == Trade(m.fills[i], m.taker)
    <2>1. Legs(m, m.fills[i]) = <<a, b, c>> /\ ss[i] = <<a, b, c>> BY <1>1 DEF Legs
    <2> HIDE DEF a, b, c, ss
    <2>2. a \in S /\ b \in S /\ c \in S BY <2>1
    <2> HIDE DEF S
    <2>3. <<a, b, c>> \in Seq(S) BY <2>2
    <2>4. QED BY <2>1, <2>3
  <1>4. ss \in Seq(Seq(S)) /\ Len(ss) = n /\ \A i \in 1 .. n : ss[i] = Legs(m, m.fills[i])
    <2> HIDE DEF S
    <2>1. ss = [i \in 1 .. n |-> ss[i]] /\ \A i \in 1 .. n : ss[i] \in Seq(S) BY <1>1, <1>3
    <2>2. \A i \in 1 .. n : ss[i] = Legs(m, m.fills[i]) BY <1>1
    <2> DEFINE Z == Seq(S)
    <2> HIDE DEF ss, Z
    <2>3. ss \in Seq(Z) /\ Len(ss) = n BY <1>1, <2>1, SMTT(20) DEF Z
    <2>4. QED BY <2>2, <2>3 DEF Z
  <1>5. QED BY <1>2, <1>4

\* The events of a match pay its fills.
LEMMA FillEventsPay ==
    ASSUME NEW m, m.fills \in Seq(Fills)
    PROVE  /\ \E S : FillEvents(m) \in Seq(S)
           /\ \A owing : PaysTo(owing, m.fills, m.taker.id, Len(m.fills),
                                Count!Fold(owing, FillEvents(m)))
  <1> DEFINE n == Len(m.fills)
             left(f) == IF OnBook(m.book, f.maker) THEN m.book.orders[f.maker].rem ELSE 0
  <1>1. n \in Nat /\ DOMAIN m.fills = 1 .. n OBVIOUS
  <1>2. PICK S : \E ss \in Seq(Seq(S)) :
              /\ FillEvents(m) = FlattenSeq(ss) /\ Len(ss) = n
              /\ \A i \in 1 .. n : ss[i] = Legs(m, m.fills[i])
    BY FillLegs
  <1>3. PICK ss \in Seq(Seq(S)) : /\ FillEvents(m) = FlattenSeq(ss) /\ Len(ss) = n
                                  /\ \A i \in 1 .. n : ss[i] = Legs(m, m.fills[i])
    BY <1>2
  <1>4. FillEvents(m) \in Seq(S) BY <1>3, FlattenType
  <1>5. ASSUME NEW owing
        PROVE  PaysTo(owing, m.fills, m.taker.id, n, Count!Fold(owing, FillEvents(m)))
    <2>0. FlattenSeq(ss) = Count!FlattenSeq(ss) BY DEF FlattenSeq, Count!FlattenSeq
    <2>1. PICK tr : Count!IsChain(tr, owing, ss) /\ Count!Fold(owing, FlattenSeq(ss)) = tr[Len(ss)]
      BY <1>3, <2>0, Count!FoldFlatten
    <2>2. tr[0] = owing /\ \A i \in 1 .. n : tr[i] = Count!Fold(tr[i - 1], ss[i])
      BY <1>3, <2>1 DEF Count!IsChain
    <2>3. ASSUME NEW i \in 1 .. n PROVE tr[i] = Paid(tr[i - 1], m.fills[i], m.taker.id)
      <3> DEFINE f == m.fills[i]
                 v == tr[i - 1]
                 k == m.taker.id
                 r == left(f)
                 z == m.taker.rem
                 a == Filled(f.maker, TRUE, f.qty, r)
                 b == Filled(k, FALSE, f.qty, z)
                 c == Trade(f, m.taker)
                 w == [v EXCEPT ![f.maker] = @ - f.qty]
                 x == [w EXCEPT ![k] = @ - f.qty]
      <3>1. ss[i] = <<a, b, c>> BY <1>3 DEF Legs, MakerLeg, TakerLeg
      <3> HIDE DEF f, v, k, r, z
      <3>21. a.kind = "Filled" /\ a.id = f.maker /\ a.qty = f.qty BY DEF Filled
      <3>22. b.kind = "Filled" /\ b.id = k /\ b.qty = f.qty BY DEF Filled
      <3>23. c.kind = "Trade" BY DEF Trade
      <3> HIDE DEF a, b, c
      <3>2. Tally(v, a) = w BY <3>21, TallyIs
      <3>3. x = Paid(v, f, k) BY DEF Paid
      <3>4. Tally(x, c) = x BY <3>23, TallyIs
      <3> HIDE DEF w
      <3>5. Tally(w, b) = x BY <3>22, TallyIs
      <3> HIDE DEF x
      <3>6. tr[i] = Count!Fold(v, ss[i]) BY <2>2 DEF v
      <3>7. Count!Fold(v, <<a, b, c>>) = Tally(Tally(Tally(v, a), b), c) BY Count!FoldThree
      <3>8. QED BY <3>1, <3>2, <3>3, <3>4, <3>5, <3>6, <3>7 DEF v, f, k
    <2>4. IsPayment(tr, owing, m.fills, m.taker.id, n) BY <2>2, <2>3 DEF IsPayment
    <2>5. QED BY <1>3, <2>1, <2>4 DEF PaysTo
  <1>6. QED BY <1>4, <1>5

\* The history after a match.
LEMMA FillsSettle ==
    ASSUME NEW f, NEW o \in Orders, NEW m, Matched(f, o, m), NEW owing \in [OrderIds -> Int]
    PROVE  Settled(owing, Count!Fold(owing, FillEvents(m)), f, m.book.orders, o, m.taker.rem)
  <1>1. m.taker.id = o.id
    <2>1. m.taker = Left(o, m.taker.rem) /\ m.taker.rem \in Nat BY DEF Matched
    <2>2. QED BY <2>1, LeftIs
  <1>2. m.fills \in Seq(Fills) BY DEF Matched
  <1>3. PaysTo(owing, m.fills, o.id, Len(m.fills), Count!Fold(owing, FillEvents(m)))
    BY <1>1, <1>2, FillEventsPay
  <1>4. QED BY <1>3 DEF Matched

\* The model's history is that fold.
LEMMA TallyFolds ==
    ASSUME NEW owing, NEW events
    PROVE  FoldLeft(Tally, owing, events) = Count!Fold(owing, events)
  BY DEF Count!Fold, FoldLeft, MapThenFoldSet, Max, Count!FoldLeft, Count!MapThenFoldSet, Count!Max

-----------------------------------------------------------------------------
(* Books that are good, uncrossed and owe what they show and hide.         *)

\* The book's half of the three invariants.
Uncrossed(f) ==
    \A b, s \in DOMAIN f :
        f[b].side = "buy" /\ f[s].side = "sell" /\ "Iceberg" \notin {f[b].type, f[s].type}
            => f[b].price < f[s].price

\* Every resting order owes what it shows and what it hides.
Owes(owing, f) == \A id \in DOMAIN f : owing[id] = f[id].rem + f[id].hidden

\* A good, uncrossed book that owes what it should.
BookOK(b, owing) ==
    /\ GoodBook(b)
    /\ Uncrossed(b.orders)
    /\ owing \in [OrderIds -> Int]
    /\ Owes(owing, b.orders)

\* Nothing of an order but its quantity changes while it is on the book.
LEMMA ReducedIs ==
    ASSUME NEW f, Maps(f, OrderIds, Orders), NEW g, Maps(g, OrderIds, Orders), Reduces(f, g),
           NEW id \in DOMAIN g
    PROVE  /\ id \in DOMAIN f /\ id \in OrderIds /\ f[id] \in Orders /\ g[id] \in Orders
           /\ g[id].side = f[id].side /\ g[id].type = f[id].type /\ g[id].price = f[id].price
           /\ g[id].hidden = f[id].hidden /\ g[id].user = f[id].user
  <1>1. id \in DOMAIN f /\ id \in OrderIds /\ f[id] \in Orders /\ g[id] \in Orders
    BY DEF Maps, Reduces
  <1>2. g[id] = Left(f[id], g[id].rem) /\ g[id].rem \in Nat BY <1>1, OrderHas DEF Reduces
  <1> DEFINE a == f[id]
             c == g[id]
             n == c.rem
  <1>3. c = Left(a, n) /\ a \in Orders /\ n \in Nat BY <1>1, <1>2
  <1> HIDE DEF a, c, n
  <1>4. c.side = a.side /\ c.type = a.type /\ c.price = a.price /\ c.hidden = a.hidden
        /\ c.user = a.user
    BY <1>3, LeftIs
  <1>5. QED BY <1>1, <1>4 DEF a, c

\* Reducing orders, or taking them out, leaves an uncrossed book uncrossed.
LEMMA UncrossedReduced ==
    ASSUME NEW f, Maps(f, OrderIds, Orders), NEW g, Maps(g, OrderIds, Orders), Reduces(f, g),
           Uncrossed(f)
    PROVE  Uncrossed(g)
  <1> SUFFICES ASSUME NEW b \in DOMAIN g, NEW s \in DOMAIN g,
                      g[b].side = "buy", g[s].side = "sell",
                      "Iceberg" \notin {g[b].type, g[s].type}
               PROVE  g[b].price < g[s].price
    BY DEF Uncrossed
  <1>1. /\ b \in DOMAIN f /\ g[b].side = f[b].side /\ g[b].type = f[b].type
        /\ g[b].price = f[b].price
    BY ReducedIs
  <1>2. /\ s \in DOMAIN f /\ g[s].side = f[s].side /\ g[s].type = f[s].type
        /\ g[s].price = f[s].price
    BY ReducedIs
  <1>3. QED BY <1>1, <1>2 DEF Uncrossed

\* The orders of a good book, and that they owe is about them alone.
LEMMA GoodOrders ==
    ASSUME NEW b, GoodBook(b)
    PROVE  /\ Maps(b.orders, OrderIds, Orders) /\ DOMAIN b.orders \subseteq OrderIds
           /\ \A id \in DOMAIN b.orders :
                 b.orders[id] \in Orders /\ b.orders[id].id = id /\ b.orders[id].rem > 0
  BY DEF GoodBook, IsBook, Maps, Filed

\* A match keeps it.
LEMMA MatchedOK ==
    ASSUME NEW b, NEW owing, BookOK(b, owing), NEW o \in Orders, o.id \notin DOMAIN b.orders,
           NEW k \in Int, owing[o.id] = o.rem + k, NEW m, Matched(b.orders, o, m)
    PROVE  LET r == Count!Fold(owing, FillEvents(m))
           IN  /\ BookOK(m.book, r)
               /\ r[o.id] = m.taker.rem + k
               /\ \A id \in OrderIds \ DOMAIN b.orders : id # o.id => r[id] = owing[id]
               /\ DOMAIN m.book.orders \subseteq DOMAIN b.orders
               /\ m.taker.rem \in Nat /\ m.taker = Left(o, m.taker.rem)
  <1> DEFINE f == b.orders
             g == m.book.orders
             r == Count!Fold(owing, FillEvents(m))
             t == m.taker.rem
  <1>1. /\ GoodBook(m.book) /\ Reduces(f, g) /\ t \in Nat /\ m.taker = Left(o, t)
        /\ DOMAIN g \subseteq DOMAIN f
    BY DEF Matched, Reduces
  <1>2. owing \in [OrderIds -> Int] /\ Uncrossed(f) /\ Owes(owing, f) BY DEF BookOK
  <1>3. Maps(f, OrderIds, Orders) /\ Maps(g, OrderIds, Orders)
    BY <1>1, GoodOrders DEF BookOK
  <1>4. Settled(owing, r, f, g, o, t) BY <1>2, FillsSettle
  <1> HIDE DEF f, g, r, t
  <1>5. Uncrossed(g) BY <1>1, <1>2, <1>3, UncrossedReduced
  <1>6. Owes(r, g)
    <2> SUFFICES ASSUME NEW id \in DOMAIN g PROVE r[id] = g[id].rem + g[id].hidden
      BY DEF Owes
    <2>1. id \in DOMAIN f /\ f[id] \in Orders /\ g[id] \in Orders /\ g[id].hidden = f[id].hidden
      BY <1>1, <1>3, ReducedIs
    <2>2. f[id].rem \in Nat /\ g[id].rem \in Nat /\ f[id].hidden \in Nat BY <2>1, OrderHas
    <2>3. owing[id] = f[id].rem + f[id].hidden BY <1>2, <2>1 DEF Owes
    <2>4. r[id] = owing[id] - (f[id].rem - g[id].rem) BY <1>4 DEF Settled
    <2>5. QED BY <2>1, <2>2, <2>3, <2>4
  <1>7. r[o.id] = t + k
    <2>1. o.rem \in Nat BY OrderHas
    <2>2. r[o.id] = owing[o.id] - (o.rem - t) BY <1>4 DEF Settled
    <2>3. QED BY <1>1, <2>1, <2>2
  <1>8. r \in [OrderIds -> Int] /\ \A id \in OrderIds \ DOMAIN f : id # o.id => r[id] = owing[id]
    BY <1>4 DEF Settled
  <1>9. BookOK(m.book, r) BY <1>1, <1>5, <1>6, <1>8 DEF BookOK, g
  <1>10. QED BY <1>1, <1>7, <1>8, <1>9 DEF f, g, r, t

\* The order would not cross what rests.
Fits(f, o) ==
    o.type = "Iceberg" \/ \A id \in DOMAIN f : ~(f[id].side = Opposite(o.side)
                                             /\ Crosses(o.side, o.price, f[id].price))

\* Placing an order that fits.
LEMMA RestOK ==
    ASSUME NEW b, NEW owing, BookOK(b, owing), NEW o \in Orders, o.rem > 0,
           o.id \notin DOMAIN b.orders, owing[o.id] = o.rem + o.hidden, Fits(b.orders, o)
    PROVE  /\ BookOK(InsertOrder(b, o), owing)
           /\ DOMAIN InsertOrder(b, o).orders = DOMAIN b.orders \cup {o.id}
  <1> DEFINE f == b.orders
             c == InsertOrder(b, o)
             g == c.orders
             i == o.id
  <1>1. GoodBook(c) /\ g = With(f, i, o) BY InsertKeeps DEF BookOK
  <1>2. DOMAIN g = DOMAIN f \cup {i} /\ g[i] = o /\ \A j \in DOMAIN f : j # i => g[j] = f[j]
    BY <1>1 DEF With
  <1>3. Maps(f, OrderIds, Orders) BY GoodOrders DEF BookOK
  <1>4. i \notin DOMAIN f /\ o.side \in Sides /\ o.price \in Nat BY OrderHas
  <1>5. Uncrossed(f) /\ Owes(owing, f) /\ owing \in [OrderIds -> Int] BY DEF BookOK
  <1> HIDE DEF f, c, g, i
  <1>6. \A j \in DOMAIN f : j # i /\ g[j] = f[j] /\ f[j].side \in Sides /\ f[j].price \in Nat
    BY <1>2, <1>3, <1>4, OrderHas DEF Maps
  <1>7. Owes(owing, g) BY <1>2, <1>5, <1>6 DEF Owes, i
  <1>8. Uncrossed(g)
    <2> SUFFICES ASSUME NEW p \in DOMAIN g, NEW s \in DOMAIN g,
                        g[p].side = "buy", g[s].side = "sell",
                        "Iceberg" \notin {g[p].type, g[s].type}
                 PROVE  g[p].price < g[s].price
      BY DEF Uncrossed
    <2>1. CASE p # i /\ s # i
      <3>1. p \in DOMAIN f /\ s \in DOMAIN f /\ g[p] = f[p] /\ g[s] = f[s]
        BY <1>2, <1>6, <2>1
      <3>2. QED BY <1>5, <3>1 DEF Uncrossed
    <2>2. CASE p = i /\ s # i
      <3>1. s \in DOMAIN f /\ g[s] = f[s] /\ f[s].price \in Nat BY <1>2, <1>6, <2>2
      <3>2. o.side = "buy" /\ o.type # "Iceberg" /\ g[p] = o BY <1>2, <2>2
      <3>3. ~Crosses(o.side, o.price, f[s].price)
        BY <3>1, <3>2 DEF Fits, Opposite, f
      <3>4. ~(f[s].price <= o.price) BY <3>2, <3>3 DEF Crosses
      <3>5. QED BY <1>4, <3>1, <3>2, <3>4
    <2>3. CASE p # i /\ s = i
      <3>1. p \in DOMAIN f /\ g[p] = f[p] /\ f[p].price \in Nat BY <1>2, <1>6, <2>3
      <3>2. o.side = "sell" /\ o.type # "Iceberg" /\ g[s] = o BY <1>2, <2>3
      <3>3. ~Crosses(o.side, o.price, f[p].price)
        BY <3>1, <3>2 DEF Fits, Opposite, f
      <3>4. ~(f[p].price >= o.price) BY <3>2, <3>3 DEF Crosses
      <3>5. QED BY <1>4, <3>1, <3>2, <3>4
    <2>4. CASE p = i /\ s = i BY <1>2, <2>4
    <2>5. QED BY <2>1, <2>2, <2>3, <2>4
  <1>9. BookOK(c, owing) BY <1>1, <1>5, <1>7, <1>8 DEF BookOK, g
  <1>10. QED BY <1>2, <1>9 DEF c, g, f, i

\* Taking an order away.
LEMMA RemoveOK ==
    ASSUME NEW b, NEW owing, BookOK(b, owing), NEW i
    PROVE  /\ BookOK(RemoveOrder(b, i), owing)
           /\ DOMAIN RemoveOrder(b, i).orders = DOMAIN b.orders \ {i}
           /\ \A id \in DOMAIN b.orders \ {i} : RemoveOrder(b, i).orders[id] = b.orders[id]
  <1> DEFINE f == b.orders
             c == RemoveOrder(b, i)
             g == c.orders
  <1>1. GoodBook(c) /\ g = Drop(f, i) BY RemoveKeeps DEF BookOK
  <1>2. DOMAIN g = DOMAIN f \ {i} /\ \A j \in DOMAIN f \ {i} : g[j] = f[j]
    BY <1>1 DEF Drop, Restrict
  <1>3. Uncrossed(f) /\ Owes(owing, f) /\ owing \in [OrderIds -> Int] BY DEF BookOK
  <1> HIDE DEF f, c, g
  <1>4. Uncrossed(g) BY <1>2, <1>3 DEF Uncrossed
  <1>5. Owes(owing, g) BY <1>2, <1>3 DEF Owes
  <1>6. QED BY <1>1, <1>2, <1>3, <1>4, <1>5 DEF BookOK, f, c, g

\* Only what the orders on the book owe counts.
LEMMA OwingElsewhere ==
    ASSUME NEW b, NEW owing, BookOK(b, owing), NEW r \in [OrderIds -> Int],
           \A id \in DOMAIN b.orders : r[id] = owing[id]
    PROVE  BookOK(b, r)
  BY DEF BookOK, Owes

\* What is left of an order that was matched fits, whatever its slice.
LEMMA MatchedFits ==
    ASSUME NEW b, GoodBook(b), NEW o \in Orders, o.id \notin DOMAIN b.orders,
           ~MatchOrder(b, o).rejected, MatchOrder(b, o).taker.rem > 0, IsLimit(o.type),
           NEW x, x.side = o.side, x.price = o.price
    PROVE  Fits(MatchOrder(b, o).book.orders, x)
  <1> DEFINE m == MatchOrder(b, o)
             f == b.orders
             g == m.book.orders
  <1>1. Matched(f, o, m) /\ \A id \in DOMAIN g : ~Within(o, f[id])
    BY MatchLeaves
  <1>2. Reduces(f, g) /\ GoodBook(m.book) BY <1>1 DEF Matched
  <1>3. Maps(f, OrderIds, Orders) /\ Maps(g, OrderIds, Orders) BY <1>2, GoodOrders
  <1> HIDE DEF m, f, g
  <1>4. \A id \in DOMAIN g : g[id].side = f[id].side /\ g[id].price = f[id].price
    BY <1>2, <1>3, ReducedIs
  <1>5. \A id \in DOMAIN g : ~(g[id].side = Opposite(o.side) /\ Crosses(o.side, o.price, g[id].price))
    BY <1>1, <1>4 DEF Within
  <1>6. QED BY <1>5 DEF Fits, g, m

-----------------------------------------------------------------------------
(* The engine's invariant.                                                 *)

\* No two stops have one id.
DistinctIds(stops) == \A i, j \in DOMAIN stops : stops[i].id = stops[j].id => i = j

\* Conditional orders wait apart from the book, and owe all they were accepted for.
StopsOK(stops, b, owing, n) ==
    /\ stops \in Seq(Orders)
    /\ DistinctIds(stops)
    /\ \A i \in DOMAIN stops :
          /\ stops[i].id \notin DOMAIN b.orders /\ stops[i].id < n
          /\ owing[stops[i].id] = stops[i].rem + stops[i].hidden

\* Ids from n on have not been drawn.
Fresh(b, owing, n) ==
    /\ n \in Nat \ {0}
    /\ \A id \in DOMAIN b.orders : id < n
    /\ \A id \in OrderIds : id >= n => owing[id] = 0

\* An engine, as a record.
IsEngine(e) ==
    /\ e = [book |-> e.book, stops |-> e.stops, mark |-> e.mark, index |-> e.index,
            premium |-> e.premium, expiry |-> e.expiry, seq |-> e.seq]
    /\ e.mark \in Int /\ e.index \in Int /\ e.seq \in Nat
    /\ IsFiniteSet(e.expiry)

\* The invariant of the engine, the history and the next order id.
EngineOK(e, owing, n) ==
    /\ IsEngine(e)
    /\ BookOK(e.book, owing)
    /\ StopsOK(e.stops, e.book, owing, n)
    /\ Fresh(e.book, owing, n)

\* The engine with another book or other stops.
LEMMA EngineBook ==
    ASSUME NEW e, IsEngine(e), NEW book
    PROVE  LET c == [e EXCEPT !.book = book]
           IN  /\ IsEngine(c) /\ c.book = book /\ c.stops = e.stops
               /\ c.mark = e.mark /\ c.expiry = e.expiry
  BY DEF IsEngine

\* The engine with other stops is one, and otherwise the same.
LEMMA EngineStops ==
    ASSUME NEW e, IsEngine(e), NEW stops
    PROVE  LET c == [e EXCEPT !.stops = stops]
           IN  /\ IsEngine(c) /\ c.book = e.book /\ c.stops = stops
               /\ c.mark = e.mark /\ c.expiry = e.expiry
  BY DEF IsEngine

\* The engine with another book and other stops.
Put(e, book, stops) == [e EXCEPT !.book = book, !.stops = stops]

\* It is an engine, and otherwise the same.
LEMMA EngineBoth ==
    ASSUME NEW e, IsEngine(e), NEW book, NEW stops
    PROVE  LET c == Put(e, book, stops)
           IN  /\ IsEngine(c) /\ c.book = book /\ c.stops = stops
               /\ c.mark = e.mark /\ c.expiry = e.expiry
  <1> DEFINE Made(x, y) == [book |-> x, stops |-> y, mark |-> e.mark, index |-> e.index,
                            premium |-> e.premium, expiry |-> e.expiry, seq |-> e.seq]
  <1>1. e = Made(e.book, e.stops) BY DEF IsEngine
  <1>2. \A x, y : /\ IsEngine(Made(x, y))
                  /\ Made(x, y).book = x /\ Made(x, y).stops = y
                  /\ Made(x, y).mark = e.mark /\ Made(x, y).expiry = e.expiry
    BY DEF IsEngine
  <1>3. [e EXCEPT !.book = book] = Made(book, e.stops) BY <1>1
  <1>5. [e EXCEPT !.book = book, !.stops = stops] = Made(book, stops)
    <2> DEFINE z == [e EXCEPT !.book = book]
    <2>1. [e EXCEPT !.book = book, !.stops = stops] = [z EXCEPT !.stops = stops] OBVIOUS
    <2>2. z = Made(book, e.stops) BY <1>3
    <2> HIDE DEF z
    <2>3. [z EXCEPT !.stops = stops] = Made(book, stops) BY <2>2
    <2>4. QED BY <2>1, <2>3
  <1>6. Put(e, book, stops) = Made(book, stops) BY <1>5 DEF Put
  <1> HIDE DEF Made
  <1>7. QED BY <1>2, <1>6

\* An order placed from a valid request owes what was asked for.
LEMMA BookOrderIs ==
    ASSUME NEW e, IsEngine(e), NEW id \in OrderIds, NEW r \in Requests, ~InvalidRequest(r)
    PROVE  LET o == BookOrder(e, id, r)
           IN  /\ o \in Orders /\ o.id = id /\ o.type = r.type /\ o.orig = r.qty
               /\ o.rem + o.hidden = r.qty
               /\ o.type = "Iceberg" => o.vis \in Nat
  <1>1. /\ r.user \in Users /\ r.side \in Sides /\ r.type \in OrderTypes /\ r.tif \in TimesInForce
        /\ r.price \in Optional(Int) /\ r.qty \in Int /\ r.stop \in Optional(Int)
        /\ r.delta \in Optional(Int) /\ r.vis \in Optional(Int)
    BY EngineAssumption
  <1>2. /\ ~(r.qty <= 0)
        /\ IsLimit(r.type) => r.price # None /\ ~(r.price <= 0)
        /\ r.type = "Iceberg" => r.vis # None /\ ~(r.vis < MinVisible)
    BY DEF InvalidRequest
  <1>3. r.qty \in Nat /\ r.qty > 0 BY <1>1, <1>2
  <1>4. IsLimit(r.type) => r.price \in Nat BY <1>1, <1>2 DEF Optional
  <1>5. r.type = "Iceberg" => r.vis \in Nat /\ r.vis \in Int
    BY <1>1, <1>2, EngineAssumption DEF Optional
  <1> DEFINE visible == IF r.type = "Iceberg" THEN Min({r.vis, r.qty}) ELSE r.qty
             price == IF IsLimit(r.type) THEN r.price ELSE SentinelPrice(r.side)
             peak == IF r.delta # None THEN e.mark ELSE None
             expire == IF r.tif = "GTD" THEN e.seq + GtdLife ELSE None
  <1>6. visible \in Nat /\ visible <= r.qty
    <2>1. CASE r.type = "Iceberg"
      <3>1. Min({r.vis, r.qty}) = IF r.vis <= r.qty THEN r.vis ELSE r.qty
        BY <1>3, <1>5, <2>1, MinOfTwo
      <3>2. QED BY <1>3, <1>5, <2>1, <3>1
    <2>2. CASE r.type # "Iceberg" BY <1>3, <2>2
    <2>3. QED BY <2>1, <2>2
  <1>7. price \in Nat BY <1>4, PriceAssumption DEF SentinelPrice
  <1>8. peak \in Optional(Int) BY DEF IsEngine, Optional
  <1>9. expire \in Optional(Nat) BY EngineAssumption DEF IsEngine, Optional
  <1>10. r.qty - visible \in Nat /\ visible + (r.qty - visible) = r.qty BY <1>3, <1>6
  <1> HIDE DEF visible, price, peak, expire
  <1>11. BookOrder(e, id, r)
           = [id |-> id, user |-> r.user, side |-> r.side, type |-> r.type, tif |-> r.tif,
              price |-> price, stop |-> r.stop, vis |-> r.vis, delta |-> r.delta,
              peak |-> peak, orig |-> r.qty, rem |-> visible, hidden |-> r.qty - visible,
              expire |-> expire]
    BY DEF BookOrder, visible, price, peak, expire
  <1>12. BookOrder(e, id, r) \in Orders
    BY <1>1, <1>6, <1>7, <1>8, <1>9, <1>10, <1>11 DEF Orders
  <1>13. QED BY <1>5, <1>10, <1>11, <1>12

\* The slice shown next comes out of what is hidden.
LEMMA RefilledIs ==
    ASSUME NEW o \in Orders, o.type = "Iceberg" => o.vis \in Nat
    PROVE  LET x == Refilled(o)
           IN  /\ x \in Orders /\ x.id = o.id /\ x.side = o.side /\ x.price = o.price
               /\ x.type = o.type /\ x.expire = o.expire
               /\ x.rem + x.hidden = o.rem + o.hidden
               /\ x # o => o.type = "Iceberg"
  <1>1. CASE ~(o.type = "Iceberg" /\ o.rem = 0 /\ o.hidden # 0)
    <2>1. Refilled(o) = o BY <1>1 DEF Refilled
    <2>2. QED BY <2>1
  <1>2. CASE o.type = "Iceberg" /\ o.rem = 0 /\ o.hidden # 0
    <2> DEFINE show == IF o.vis = None THEN o.orig ELSE o.vis
               slice == Min({show, o.hidden})
               x == [o EXCEPT !.rem = slice, !.hidden = @ - slice]
    <2>1. o.vis \in Nat /\ o.hidden \in Nat BY <1>2, OrderHas
    <2>2. show \in Nat BY <2>1, PriceAssumption
    <2>3. slice = IF show <= o.hidden THEN show ELSE o.hidden BY <2>1, <2>2, MinOfTwo
    <2>4. slice \in Nat /\ o.hidden - slice \in Nat /\ slice + (o.hidden - slice) = 0 + o.hidden
      BY <2>1, <2>2, <2>3
    <2>5. Refilled(o) = x BY <1>2 DEF Refilled
    <2> HIDE DEF show, slice
    <2>6. /\ x \in Orders /\ x.id = o.id /\ x.side = o.side /\ x.price = o.price
          /\ x.type = o.type /\ x.expire = o.expire /\ x.rem = slice /\ x.hidden = o.hidden - slice
      BY <2>4 DEF Orders
    <2>7. QED BY <1>2, <2>4, <2>5, <2>6
  <1>3. QED BY <1>1, <1>2

-----------------------------------------------------------------------------
(* NewOrder.                                                               *)

LEMMA StopsKept ==
    ASSUME NEW stops, NEW b, NEW owing, NEW n \in Nat, StopsOK(stops, b, owing, n),
           NEW c, NEW r, NEW k \in Nat, n <= k, OrderIds \subseteq Nat,
           \A i \in DOMAIN stops :
              stops[i].id \notin DOMAIN c.orders /\ r[stops[i].id] = owing[stops[i].id]
    PROVE  StopsOK(stops, c, r, k)
  <1>1. ASSUME NEW i \in DOMAIN stops PROVE stops[i].id < k
    <2>1. stops[i].id < n /\ stops[i] \in Orders BY DEF StopsOK
    <2>2. stops[i].id \in Nat BY <2>1, OrderHas
    <2>3. QED BY <2>1, <2>2
  <1>2. QED BY <1>1 DEF StopsOK

\* An acceptance starts the history of an order.
LEMMA AcceptedIs ==
    ASSUME NEW o \in Orders, NEW ts, NEW owing, owing[o.id] = 0
    PROVE  Tally(owing, Accepted(o, ts)) = [owing EXCEPT ![o.id] = o.orig]
  <1> DEFINE e == Accepted(o, ts)
  <1>1. e.kind = "Accepted" /\ e.terms = Restrict(o, TermNames) /\ e.qty = o.orig
    BY DEF Accepted
  <1>2. e.terms.id = o.id BY <1>1 DEF Restrict, TermNames, Orders
  <1> HIDE DEF e
  <1>3. QED BY <1>1, <1>2, TallyIs DEF e

\* One event.
LEMMA TallyOne ==
    ASSUME NEW owing, NEW e
    PROVE  Count!Fold(owing, <<e>>) = Tally(owing, e)
  BY Count!FoldOne

\* NewOrder keeps the invariant: the order is refused, waits as a stop, or is
\* matched and at most what is left of it rests.
LEMMA NewOrderOK ==
    ASSUME NEW e, NEW owing, NEW n \in OrderIds, EngineOK(e, owing, n), NEW r \in Requests
    PROVE  LET reply == HandleNewOrder(e, n, r)
           IN  EngineOK(reply.engine, Count!Fold(owing, reply.events), n + 1)
  <1> DEFINE o == BookOrder(e, n, r)
             m == MatchOrder(e.book, o)
             left == Refilled(m.taker)
             fills == FillEvents(m)
             events == <<Accepted(o, e.seq)>> \o fills
             reply == HandleNewOrder(e, n, r)
             f == e.book.orders
  <1> SUFFICES EngineOK(reply.engine, Count!Fold(owing, reply.events), n + 1) OBVIOUS
  <1>1. /\ IsEngine(e) /\ BookOK(e.book, owing) /\ StopsOK(e.stops, e.book, owing, n)
        /\ Fresh(e.book, owing, n)
    BY DEF EngineOK
  <1>2. /\ owing \in [OrderIds -> Int] /\ GoodBook(e.book) /\ DOMAIN f \subseteq OrderIds
    BY <1>1, GoodOrders DEF BookOK
  <1>3. OrderIds \subseteq Nat /\ n \in Nat /\ n \in Nat \ {0} /\ n + 1 \in Nat \ {0}
        /\ n <= n + 1 /\ \A id \in OrderIds : id < n + 1 <=> id < n \/ id = n
    BY EngineAssumption DEF OrderIds
  <1>4. n \notin DOMAIN f /\ owing[n] = 0 /\ \A i \in DOMAIN e.stops : e.stops[i].id # n
    <2>1. ~(n < n) /\ n >= n BY <1>3
    <2>2. QED BY <1>1, <2>1 DEF Fresh, StopsOK
  \* What is kept in every case.
  <1>5. ASSUME NEW v \in [OrderIds -> Int],
               NEW c, DOMAIN c.orders \subseteq DOMAIN f \cup {n},
               \A id \in OrderIds \ DOMAIN f : id # n => v[id] = owing[id]
        PROVE  StopsOK(e.stops, c, v, n + 1) /\ Fresh(c, v, n + 1)
    <2>1. ASSUME NEW i \in DOMAIN e.stops
          PROVE  e.stops[i].id \notin DOMAIN c.orders /\ v[e.stops[i].id] = owing[e.stops[i].id]
      <3>1. e.stops[i] \in Orders /\ e.stops[i].id \notin DOMAIN f BY <1>1 DEF StopsOK
      <3>2. e.stops[i].id \in OrderIds BY <3>1, OrderHas
      <3>3. QED BY <1>4, <1>5, <3>1, <3>2
    <2>2. StopsOK(e.stops, c, v, n + 1) BY <1>1, <1>3, <2>1, StopsKept
    <2>3. \A id \in DOMAIN c.orders : id < n + 1
      <3>1. \A id \in DOMAIN f : id < n BY <1>1 DEF Fresh
      <3>2. QED BY <1>2, <1>3, <1>5, <3>1
    <2>4. ASSUME NEW id \in OrderIds, id >= n + 1 PROVE v[id] = 0
      <3>1. id # n /\ id >= n /\ ~(id < n) BY <1>3, <2>4
      <3>2. id \notin DOMAIN f /\ owing[id] = 0 BY <1>1, <3>1 DEF Fresh
      <3>3. QED BY <1>5, <3>1, <3>2
    <2>5. QED BY <1>3, <2>2, <2>3, <2>4 DEF Fresh
  \* Nothing happens.
  <1>6. ASSUME reply = Reply(e, <<Rejected(n)>>)
        PROVE  EngineOK(reply.engine, Count!Fold(owing, reply.events), n + 1)
    <2>1. reply.engine = e /\ reply.events = <<Rejected(n)>> BY <1>6 DEF Reply
    <2> DEFINE x == Rejected(n)
    <2>2. x.kind = "Rejected" BY DEF Rejected
    <2> HIDE DEF x, reply
    <2>3. Tally(owing, x) = owing BY <2>2, TallyIs
    <2>4. Count!Fold(owing, reply.events) = owing BY <2>1, <2>3, TallyOne DEF x
    <2>5. StopsOK(e.stops, e.book, owing, n + 1) /\ Fresh(e.book, owing, n + 1)
      BY <1>2, <1>5
    <2>6. QED BY <1>1, <2>1, <2>4, <2>5 DEF EngineOK
  <1>7. CASE InvalidRequest(r) \/ OnBook(e.book, n)
    <2>1. reply = Reply(e, <<Rejected(n)>>) BY <1>7 DEF HandleNewOrder
    <2>2. QED BY <1>6, <2>1
  <1>8. CASE ~(InvalidRequest(r) \/ OnBook(e.book, n))
    <2>1. /\ o \in Orders /\ o.id = n /\ o.type = r.type /\ o.orig = r.qty
          /\ o.rem + o.hidden = r.qty
          /\ o.type = "Iceberg" => o.vis \in Nat
      BY <1>1, <1>8, BookOrderIs
    <2> DEFINE a == Accepted(o, e.seq)
               w == [owing EXCEPT ![n] = r.qty]
    <2>2. Tally(owing, a) = w BY <1>4, <2>1, AcceptedIs
    <2>3. r.qty \in Int BY EngineAssumption
    <2>4. /\ w \in [OrderIds -> Int] /\ w[n] = r.qty
          /\ \A id \in OrderIds : id # n => w[id] = owing[id]
      BY <1>2, <2>3
    <2>5. BookOK(e.book, w)
      <3>1. \A id \in DOMAIN f : w[id] = owing[id] BY <1>2, <1>4, <2>4
      <3>2. QED BY <1>1, <2>4, <3>1, OwingElsewhere
    <2>6. Count!Fold(owing, <<a>>) = w BY <2>2, TallyOne
    <2> HIDE DEF o, w, a, m, left, fills, events, reply
    <2>7. CASE Conditional(r.type)
      <3> DEFINE stops == Append(e.stops, o)
      <3>1. reply = Reply([e EXCEPT !.stops = stops], <<a>>)
        BY <1>8, <2>7 DEF HandleNewOrder, reply, o, a
      <3>2. reply.engine = [e EXCEPT !.stops = stops] /\ reply.events = <<a>>
        BY <3>1 DEF Reply
      <3>3. StopsOK(e.stops, e.book, w, n + 1) /\ Fresh(e.book, w, n + 1)
        BY <1>5, <2>4
      <3>4. StopsOK(stops, e.book, w, n + 1)
        <4> DEFINE k == Len(e.stops)
        <4>1. e.stops \in Seq(Orders) BY <3>3 DEF StopsOK
        <4>2. /\ stops \in Seq(Orders) /\ k \in Nat /\ DOMAIN e.stops = 1 .. k
              /\ DOMAIN stops = 1 .. k + 1 /\ stops[k + 1] = o
              /\ \A i \in 1 .. k : stops[i] = e.stops[i]
          BY <2>1, <4>1, AppendProperties
        <4> HIDE DEF stops, k
        <4>3. ASSUME NEW i \in DOMAIN stops
              PROVE  \/ i \in DOMAIN e.stops /\ stops[i] = e.stops[i]
                     \/ i = k + 1 /\ stops[i] = o
          <5>1. i \in 1 .. k \/ i = k + 1 BY <4>2
          <5>2. QED BY <4>2, <5>1
        <4>4. DistinctIds(stops)
          <5>1. DistinctIds(e.stops) BY <3>3 DEF StopsOK
          <5>2. QED BY <1>4, <2>1, <4>3, <5>1 DEF DistinctIds
        <4>5. n < n + 1 /\ w[n] = o.rem + o.hidden BY <1>3, <2>1, <2>4
        <4>6. QED BY <1>4, <2>1, <3>3, <4>2, <4>3, <4>4, <4>5 DEF StopsOK
      <3> HIDE DEF stops
      <3>5. IsEngine(reply.engine) /\ reply.engine.book = e.book /\ reply.engine.stops = stops
        BY <1>1, <3>2, EngineStops
      <3>6. QED BY <2>5, <2>6, <3>2, <3>3, <3>4, <3>5 DEF EngineOK
    <2>8. CASE ~Conditional(r.type) /\ m.rejected
      <3>1. reply = Reply(e, <<Rejected(n)>>) BY <1>8, <2>8 DEF HandleNewOrder, reply, m, o
      <3>2. QED BY <1>6, <3>1
    <2>9. CASE ~Conditional(r.type) /\ ~m.rejected
      <3> DEFINE v == Count!Fold(w, fills)
      <3>1. Matched(f, o, m) BY <1>2, <1>4, <2>1, <2>9, MatchLeaves DEF m
      <3>2. /\ BookOK(m.book, v) /\ v[n] = m.taker.rem + o.hidden
            /\ \A id \in OrderIds \ DOMAIN f : id # n => v[id] = w[id]
            /\ DOMAIN m.book.orders \subseteq DOMAIN f
            /\ m.taker.rem \in Nat /\ m.taker = Left(o, m.taker.rem)
        <4>1. w[o.id] = o.rem + o.hidden /\ o.id \notin DOMAIN f /\ o.hidden \in Int
          BY <1>4, <2>1, <2>4, OrderHas
        <4>2. QED BY <2>1, <2>5, <3>1, <4>1, MatchedOK DEF fills
      <3>3. IsSeq(fills) /\ IsSeq(<<a>>)
        <4>1. m.fills \in Seq(Fills) BY <3>1 DEF Matched
        <4>2. IsSeq(fills) BY <4>1, FillEventsPay DEF IsSeq, fills
        <4>3. QED BY <4>2, AnySeq
      <3>4. Count!Fold(owing, events) = v /\ IsSeq(events)
        <4>1. Count!IsSeq(fills) /\ Count!IsSeq(<<a>>) BY <3>3 DEF IsSeq, Count!IsSeq
        <4>2. Count!Fold(owing, <<a>> \o fills) = Count!Fold(Count!Fold(owing, <<a>>), fills)
          BY <4>1, Count!FoldThen
        <4>3. QED BY <2>6, <3>3, <4>2, AnySeq DEF events, a
      <3> HIDE DEF v
      <3>5. /\ v \in [OrderIds -> Int]
            /\ \A id \in OrderIds \ DOMAIN f : id # n => v[id] = owing[id]
        BY <2>4, <3>2 DEF BookOK
      <3>6. /\ m.taker \in Orders /\ m.taker.id = n /\ m.taker.type = o.type /\ m.taker.vis = o.vis
            /\ m.taker.hidden = o.hidden /\ m.taker.side = o.side /\ m.taker.price = o.price
        BY <2>1, <3>2, LeftIs
      <3>7. /\ left \in Orders /\ left.id = n /\ left.side = o.side /\ left.price = o.price
            /\ left.type = o.type /\ left.rem + left.hidden = m.taker.rem + o.hidden
            /\ left # m.taker => o.type = "Iceberg"
        BY <2>1, <3>6, RefilledIs DEF left
      <3>8. n \notin DOMAIN m.book.orders BY <1>4, <3>2
      <3>9. CASE left.rem = 0
        <4>1. reply = Reply([e EXCEPT !.book = m.book], events)
          BY <1>8, <2>9, <3>9 DEF HandleNewOrder, reply, m, o, left, events, fills, a
        <4>2. /\ reply.engine = [e EXCEPT !.book = m.book] /\ reply.events = events
          BY <4>1 DEF Reply
        <4>3. StopsOK(e.stops, m.book, v, n + 1) /\ Fresh(m.book, v, n + 1)
          BY <1>5, <3>2, <3>5
        <4>4. IsEngine(reply.engine) /\ reply.engine.book = m.book /\ reply.engine.stops = e.stops
          BY <1>1, <4>2, EngineBook
        <4>5. QED BY <3>2, <3>4, <4>2, <4>3, <4>4 DEF EngineOK
      <3>10. CASE left.rem # 0 /\ NeverRests(o)
        <4> DEFINE u == [v EXCEPT ![n] = 0]
                   x == Canceled(left)
        <4>1. reply = Reply([e EXCEPT !.book = m.book], Append(events, x))
          BY <1>8, <2>9, <3>10 DEF HandleNewOrder, reply, m, o, left, events, fills, a
        <4>2. x.kind = "Canceled" /\ x.id = n BY <3>7 DEF Canceled
        <4> HIDE DEF x
        <4>3. /\ reply.engine = [e EXCEPT !.book = m.book] /\ reply.events = Append(events, x)
          BY <4>1 DEF Reply
        <4>4. Count!Fold(owing, reply.events) = u
          <5>1. Count!IsSeq(events) BY <3>4 DEF IsSeq, Count!IsSeq
          <5>2. Count!Fold(owing, Append(events, x)) = Tally(Count!Fold(owing, events), x)
            BY <5>1, Count!FoldThen
          <5>3. Tally(v, x) = u BY <4>2, TallyIs
          <5>4. QED BY <3>4, <4>3, <5>2, <5>3
        <4>5. /\ u \in [OrderIds -> Int]
              /\ \A id \in OrderIds : id # n => u[id] = v[id]
          BY <3>5
        <4> HIDE DEF u
        <4>6. BookOK(m.book, u)
          <5>1. \A id \in DOMAIN m.book.orders : u[id] = v[id] BY <1>2, <3>2, <3>8, <4>5
          <5>2. QED BY <3>2, <4>5, <5>1, OwingElsewhere
        <4>7. StopsOK(e.stops, m.book, u, n + 1) /\ Fresh(m.book, u, n + 1)
          BY <1>5, <3>2, <3>5, <4>5
        <4>8. IsEngine(reply.engine) /\ reply.engine.book = m.book /\ reply.engine.stops = e.stops
          BY <1>1, <4>3, EngineBook
        <4>9. QED BY <4>4, <4>6, <4>7, <4>8 DEF EngineOK
      <3>11. CASE left.rem # 0 /\ ~NeverRests(o)
        <4> DEFINE c == InsertOrder(m.book, left)
        <4>1. reply = Reply(Rested(e, m.book, left), events)
          BY <1>8, <2>9, <3>11 DEF HandleNewOrder, reply, m, o, left, events, fills, a
        <4>2. reply.engine = Rested(e, m.book, left) /\ reply.events = events
          BY <4>1 DEF Reply
        <4>3. Fits(m.book.orders, left)
          <5>1. CASE o.type = "Iceberg" BY <3>7, <5>1 DEF Fits
          <5>2. CASE o.type # "Iceberg"
            <6>1. left = m.taker BY <3>7, <5>2
            <6>2. m.taker.rem > 0 BY <3>2, <3>11, <6>1
            <6>3. IsLimit(o.type) BY <3>11 DEF NeverRests
            <6>4. QED BY <1>2, <1>4, <2>1, <2>9, <3>7, <6>2, <6>3, MatchedFits DEF m
          <5>3. QED BY <5>1, <5>2
        <4>4. left.rem > 0 BY <3>7, <3>11, OrderHas
        <4>5. BookOK(c, v) /\ DOMAIN c.orders = DOMAIN m.book.orders \cup {n}
          BY <3>2, <3>7, <3>8, <4>3, <4>4, RestOK
        <4>6. StopsOK(e.stops, c, v, n + 1) /\ Fresh(c, v, n + 1)
          BY <1>5, <3>2, <3>5, <4>5
        <4>7. /\ IsEngine(reply.engine) /\ reply.engine.book = c /\ reply.engine.stops = e.stops
          <5> DEFINE expiry == IF left.expire = None THEN e.expiry
                               ELSE e.expiry \cup {<<left.expire, left.id>>}
          <5>1. IsFiniteSet(expiry)
            <6>1. IsFiniteSet(e.expiry) BY <1>1 DEF IsEngine
            <6>2. QED BY <6>1, FS_AddElement
          <5>2. reply.engine = [e EXCEPT !.book = c, !.expiry = expiry]
            BY <4>2 DEF Rested
          <5> HIDE DEF expiry, c
          <5>3. reply.engine = [book |-> c, stops |-> e.stops, mark |-> e.mark, index |-> e.index,
                                premium |-> e.premium, expiry |-> expiry, seq |-> e.seq]
            BY <1>1, <5>2 DEF IsEngine
          <5>4. QED BY <1>1, <5>1, <5>3 DEF IsEngine
        <4>8. QED BY <3>4, <4>2, <4>5, <4>6, <4>7 DEF EngineOK
      <3>12. QED BY <3>9, <3>10, <3>11
    <2>10. QED BY <2>7, <2>8, <2>9 DEF reply
  <1>9. QED BY <1>7, <1>8

-----------------------------------------------------------------------------
(* Taking an order out of the vector of stops.                             *)

\* t is s without the element at i, in some order.
TakesOut(t, s, i) ==
    /\ t \in Seq(Orders) /\ Range(t) \subseteq Range(s) /\ DistinctIds(t)
    /\ \A j \in DOMAIN t : t[j].id # s[i].id
    /\ \A j \in DOMAIN s : j # i => s[j] \in Range(t)

\* A vector whose elements are those of s but one takes that one out.
LEMMA TakenOut ==
    ASSUME NEW s \in Seq(Orders), DistinctIds(s), NEW i \in DOMAIN s, NEW t \in Seq(Orders),
           NEW h \in [DOMAIN t -> DOMAIN s], IsInjective(h),
           \A j \in DOMAIN t : t[j] = s[h[j]] /\ h[j] # i,
           \A k \in DOMAIN s : k # i => \E j \in DOMAIN t : h[j] = k
    PROVE  TakesOut(t, s, i)
  <1>1. Range(t) \subseteq Range(s) BY DEF Range
  <1>2. DistinctIds(t)
    <2> SUFFICES ASSUME NEW j \in DOMAIN t, NEW k \in DOMAIN t, t[j].id = t[k].id PROVE j = k
      BY DEF DistinctIds
    <2>1. s[h[j]].id = s[h[k]].id /\ h[j] \in DOMAIN s /\ h[k] \in DOMAIN s OBVIOUS
    <2>2. h[j] = h[k] BY <2>1 DEF DistinctIds
    <2>3. QED BY <2>2 DEF IsInjective
  <1>3. \A j \in DOMAIN t : t[j].id # s[i].id BY DEF DistinctIds
  <1>4. \A j \in DOMAIN s : j # i => s[j] \in Range(t) BY DEF Range
  <1>5. QED BY <1>1, <1>2, <1>3, <1>4 DEF TakesOut

\* Vec::remove takes one order out and keeps the others.
LEMMA RemoveAtTakes ==
    ASSUME NEW s \in Seq(Orders), DistinctIds(s), NEW i \in DOMAIN s
    PROVE  TakesOut(RemoveAt(s, i), s, i)
  <1> DEFINE n == Len(s)
             a == SubSeq(s, 1, i - 1)
             b == SubSeq(s, i + 1, n)
             t == a \o b
             h == [j \in DOMAIN t |-> IF j < i THEN j ELSE j + 1]
  <1>1. n \in Nat /\ DOMAIN s = 1 .. n /\ i \in 1 .. n /\ i \in Int /\ n \in Int OBVIOUS
  <1>2. \A j \in 1 .. n : s[j] \in Orders OBVIOUS
  <1>3. a \in Seq(Orders) /\ Len(a) = i - 1 /\ \A j \in 1 .. i - 1 : a[j] = s[j]
    <2>1. \A j \in 1 .. i - 1 : s[j] \in Orders BY <1>1, <1>2
    <2>2. /\ a \in Seq(Orders) /\ Len(a) = IF 1 <= i - 1 THEN i - 1 - 1 + 1 ELSE 0
          /\ \A j \in 1 .. i - 1 - 1 + 1 : a[j] = s[1 + j - 1]
      BY <1>1, <2>1, SubSeqProperties
    <2>3. QED BY <1>1, <2>2
  <1>4. b \in Seq(Orders) /\ Len(b) = n - i /\ \A j \in 1 .. n - i : b[j] = s[i + j]
    <2>1. \A j \in i + 1 .. n : s[j] \in Orders BY <1>1, <1>2
    <2>2. /\ b \in Seq(Orders) /\ Len(b) = IF i + 1 <= n THEN n - (i + 1) + 1 ELSE 0
          /\ \A j \in 1 .. n - (i + 1) + 1 : b[j] = s[i + 1 + j - 1]
      BY <1>1, <2>1, SubSeqProperties
    <2>3. QED BY <1>1, <2>2
  <1> HIDE DEF n, a, b
  <1>5. /\ t \in Seq(Orders) /\ DOMAIN t = 1 .. n - 1
        /\ \A j \in 1 .. n - 1 : t[j] = IF j < i THEN s[j] ELSE s[j + 1]
    <2>1. /\ t \in Seq(Orders) /\ Len(t) = i - 1 + (n - i)
          /\ \A j \in 1 .. i - 1 + (n - i) : t[j] = IF j <= i - 1 THEN a[j] ELSE b[j - (i - 1)]
      BY <1>3, <1>4, ConcatProperties
    <2>2. i - 1 + (n - i) = n - 1 BY <1>1
    <2> HIDE DEF t
    <2>3. ASSUME NEW j \in 1 .. n - 1 PROVE t[j] = IF j < i THEN s[j] ELSE s[j + 1]
      <3>1. CASE j < i
        <4>1. j <= i - 1 /\ j \in 1 .. i - 1 BY <1>1, <3>1
        <4>2. QED BY <1>3, <2>1, <2>2, <3>1, <4>1
      <3>2. CASE ~(j < i)
        <4> DEFINE k == j - (i - 1)
        <4>1. ~(j <= i - 1) /\ k \in 1 .. n - i /\ i + k = j + 1 BY <1>1, <3>2
        <4>2. t[j] = b[k] BY <2>1, <2>2, <4>1
        <4> HIDE DEF k
        <4>3. QED BY <1>4, <3>2, <4>1, <4>2
      <3>3. QED BY <3>1, <3>2
    <2>4. QED BY <1>1, <2>1, <2>2, <2>3
  <1> HIDE DEF t
  <1>6. h \in [DOMAIN t -> DOMAIN s] /\ \A j \in DOMAIN t : h[j] # i /\ t[j] = s[h[j]]
    BY <1>1, <1>5
  <1>7. IsInjective(h) BY <1>1, <1>5 DEF IsInjective
  <1>8. ASSUME NEW k \in DOMAIN s, k # i PROVE \E j \in DOMAIN t : h[j] = k
    <2>1. CASE k < i
      <3>1. k \in DOMAIN t /\ h[k] = k BY <1>1, <1>5, <2>1
      <3>2. QED BY <3>1
    <2>2. CASE k > i
      <3> DEFINE j == k - 1
      <3>1. j \in DOMAIN t /\ h[j] = k BY <1>1, <1>5, <2>2
      <3>2. QED BY <3>1
    <2>3. QED BY <1>1, <1>8, <2>1, <2>2
  <1> HIDE DEF h
  <1>9. TakesOut(t, s, i) BY <1>5, <1>6, <1>7, <1>8, TakenOut
  <1>10. QED BY <1>9 DEF RemoveAt, t, a, b, n

\* swap_remove: the last element comes to the place of the one taken out.
LEMMA SwapRemoveTakes ==
    ASSUME NEW s \in Seq(Orders), DistinctIds(s), NEW i \in DOMAIN s
    PROVE  /\ TakesOut(SwapRemove(s, i), s, i)
           /\ Len(SwapRemove(s, i)) = Len(s) - 1
           /\ \A j \in 1 .. Len(s) - 1 :
                 SwapRemove(s, i)[j] = IF j = i THEN s[Len(s)] ELSE s[j]
  <1> DEFINE n == Len(s)
             u == IF i = n THEN s ELSE [s EXCEPT ![i] = s[n]]
             t == SubSeq(u, 1, n - 1)
             h == [j \in DOMAIN t |-> IF j = i THEN n ELSE j]
  <1>1. n \in Nat /\ DOMAIN s = 1 .. n /\ i \in 1 .. n /\ n \in 1 .. n OBVIOUS
  <1>2. \A j \in 1 .. n : s[j] \in Orders OBVIOUS
  <1>3. /\ u \in Seq(Orders) /\ Len(u) = n
        /\ \A j \in 1 .. n : u[j] = IF j = i THEN s[n] ELSE s[j]
    BY <1>1, <1>2
  <1>4. SwapRemove(s, i) = t BY <1>1, <1>3 DEF SwapRemove, Front, Last
  <1> HIDE DEF u, n
  <1>5. t \in Seq(Orders) /\ Len(t) = n - 1 /\ \A j \in 1 .. n - 1 : t[j] = u[j]
    <2>1. \A j \in 1 .. n - 1 : u[j] \in Orders BY <1>1, <1>2, <1>3
    <2>2. n - 1 \in Int BY <1>1
    <2>3. /\ t \in Seq(Orders) /\ Len(t) = IF 1 <= n - 1 THEN n - 1 - 1 + 1 ELSE 0
          /\ \A j \in 1 .. n - 1 - 1 + 1 : t[j] = u[1 + j - 1]
      BY <2>1, <2>2, SubSeqProperties
    <2>4. QED BY <1>1, <2>3
  <1> HIDE DEF t
  <1>6. DOMAIN t = 1 .. n - 1 /\ \A j \in 1 .. n - 1 : t[j] = IF j = i THEN s[n] ELSE s[j]
    BY <1>1, <1>3, <1>5
  <1>7. h \in [DOMAIN t -> DOMAIN s] /\ \A j \in DOMAIN t : h[j] # i /\ t[j] = s[h[j]]
    BY <1>1, <1>6
  <1>8. IsInjective(h) BY <1>1, <1>6 DEF IsInjective
  <1>9. ASSUME NEW k \in DOMAIN s, k # i PROVE \E j \in DOMAIN t : h[j] = k
    <2>1. CASE k = n
      <3>1. i \in DOMAIN t /\ h[i] = k BY <1>1, <1>6, <1>9, <2>1
      <3>2. QED BY <3>1
    <2>2. CASE k # n
      <3>1. k \in DOMAIN t /\ h[k] = k BY <1>1, <1>6, <1>9, <2>2
      <3>2. QED BY <3>1
    <2>3. QED BY <2>1, <2>2
  <1> HIDE DEF h
  <1>10. TakesOut(t, s, i) BY <1>5, <1>7, <1>8, <1>9, TakenOut
  <1>11. QED BY <1>4, <1>5, <1>6, <1>10 DEF n

-----------------------------------------------------------------------------
(* What a handler has to leave for the invariant to hold.                  *)

\* The ids of the orders that wait.
Known(e) == DOMAIN e.book.orders \cup {e.stops[j].id : j \in DOMAIN e.stops}

\* The order waits with the quantity it waited with.
SameStop(o, p) == o.id = p.id /\ o.rem = p.rem /\ o.hidden = p.hidden

\* A command that brings no new order: what it leaves was there, and what
\* nobody waits for is owed as before.
LEMMA SettledOK ==
    ASSUME NEW e, NEW owing, NEW n, EngineOK(e, owing, n),
           NEW x, IsEngine(x), NEW v, BookOK(x.book, v),
           DOMAIN x.book.orders \subseteq Known(e),
           \A id \in OrderIds \ Known(e) : v[id] = owing[id],
           x.stops \in Seq(Orders), DistinctIds(x.stops),
           \A i \in DOMAIN x.stops :
              /\ \E j \in DOMAIN e.stops : SameStop(x.stops[i], e.stops[j])
              /\ x.stops[i].id \notin DOMAIN x.book.orders
              /\ v[x.stops[i].id] = owing[x.stops[i].id]
    PROVE  EngineOK(x, v, n)
  <1>1. StopsOK(e.stops, e.book, owing, n) /\ Fresh(e.book, owing, n) BY DEF EngineOK
  <1>2. n \in Nat /\ OrderIds \subseteq Nat BY <1>1, EngineAssumption DEF Fresh, OrderIds
  <1>3. \A id \in Known(e) : id < n BY <1>1 DEF Known, StopsOK, Fresh
  <1>4. StopsOK(x.stops, x.book, v, n)
    <2>1. ASSUME NEW i \in DOMAIN x.stops
          PROVE  /\ x.stops[i].id < n
                 /\ v[x.stops[i].id] = x.stops[i].rem + x.stops[i].hidden
      <3>1. PICK j \in DOMAIN e.stops : SameStop(x.stops[i], e.stops[j]) OBVIOUS
      <3>2. QED BY <1>1, <3>1 DEF SameStop, StopsOK
    <2>2. QED BY <2>1 DEF StopsOK
  <1>5. Fresh(x.book, v, n)
    <2>1. \A id \in DOMAIN x.book.orders : id < n BY <1>3
    <2>2. ASSUME NEW id \in OrderIds, id >= n PROVE v[id] = 0
      <3>1. ~(id < n) BY <1>2, <2>2
      <3>2. id \notin Known(e) /\ owing[id] = 0 BY <1>1, <1>3, <2>2, <3>1 DEF Fresh
      <3>3. QED BY <3>2
    <2>3. QED BY <1>1, <2>1, <2>2 DEF Fresh
  <1>6. QED BY <1>4, <1>5 DEF EngineOK

\* The same with the stops left alone.
LEMMA BookOnlyOK ==
    ASSUME NEW e, NEW owing, NEW n, EngineOK(e, owing, n), NEW c, NEW v, BookOK(c, v),
           DOMAIN c.orders \subseteq DOMAIN e.book.orders,
           \A id \in OrderIds \ DOMAIN e.book.orders : v[id] = owing[id]
    PROVE  EngineOK([e EXCEPT !.book = c], v, n)
  <1> DEFINE x == [e EXCEPT !.book = c]
  <1>1. /\ IsEngine(e) /\ BookOK(e.book, owing) /\ StopsOK(e.stops, e.book, owing, n)
    BY DEF EngineOK
  <1>2. IsEngine(x) /\ x.book = c /\ x.stops = e.stops BY <1>1, EngineBook
  <1> HIDE DEF x
  <1>3. ASSUME NEW i \in DOMAIN x.stops
        PROVE  /\ \E j \in DOMAIN e.stops : SameStop(x.stops[i], e.stops[j])
               /\ x.stops[i].id \notin DOMAIN x.book.orders
               /\ v[x.stops[i].id] = owing[x.stops[i].id]
    <2>1. e.stops[i] \in Orders /\ e.stops[i].id \notin DOMAIN e.book.orders
      BY <1>1, <1>2 DEF StopsOK
    <2>2. e.stops[i].id \in OrderIds BY <2>1, OrderHas
    <2>3. QED BY <1>2, <2>1, <2>2 DEF SameStop
  <1>4. x.stops \in Seq(Orders) /\ DistinctIds(x.stops) BY <1>1, <1>2 DEF StopsOK
  <1>5. /\ DOMAIN x.book.orders \subseteq Known(e) /\ BookOK(x.book, v)
        /\ \A id \in OrderIds \ Known(e) : v[id] = owing[id]
    BY <1>2 DEF Known
  <1>6. EngineOK(x, v, n) BY <1>2, <1>3, <1>4, <1>5, SettledOK
  <1>7. QED BY <1>6 DEF x

\* Where a conditional order is found.
LEMMA StopFound ==
    ASSUME NEW e, e.stops \in Seq(Orders), NEW id
    PROVE  StopPosition(e, id) # 0
             => StopPosition(e, id) \in DOMAIN e.stops /\ e.stops[StopPosition(e, id)].id = id
  <1> DEFINE I == {i \in 1 .. Len(e.stops) : e.stops[i].id = id}
  <1>1. StopPosition(e, id) = IF I # {} THEN Min(I) ELSE 0
    BY DEF StopPosition, SelectInSeq
  <1>2. CASE I # {}
    <2>1. I \in SUBSET Nat OBVIOUS
    <2>2. \E m \in I : \A k \in I : m <= k BY <1>2, <2>1, LeastNat
    <2>3. Min(I) \in I BY <2>2 DEF Min
    <2>4. QED BY <1>1, <1>2, <2>3
  <1>3. CASE I = {} BY <1>1, <1>3
  <1>4. QED BY <1>2, <1>3

-----------------------------------------------------------------------------
(* CancelOrder.                                                            *)

\* What the events that end or refuse an order do to the history.
LEMMA CanceledIs ==
    ASSUME NEW owing, NEW o
    PROVE  Tally(owing, Canceled(o)) = [owing EXCEPT ![o.id] = 0]
  <1> DEFINE a == Canceled(o)
  <1>1. a.kind = "Canceled" /\ a.id = o.id BY DEF Canceled
  <1> HIDE DEF a
  <1>2. Tally(owing, a) = [owing EXCEPT ![o.id] = 0] BY <1>1, TallyIs
  <1>3. QED BY <1>2 DEF a

\* A refusal leaves the history alone.
LEMMA RejectedIs ==
    ASSUME NEW owing, NEW id
    PROVE  Tally(owing, Rejected(id)) = owing
  <1> DEFINE a == Rejected(id)
  <1>1. a.kind = "Rejected" BY DEF Rejected
  <1> HIDE DEF a
  <1>2. Tally(owing, a) = owing BY <1>1, TallyIs
  <1>3. QED BY <1>2 DEF a

\* An order that goes owes nothing any more.
LEMMA GoneOK ==
    ASSUME NEW b, NEW owing, BookOK(b, owing), NEW i \in OrderIds, i \notin DOMAIN b.orders
    PROVE  /\ BookOK(b, [owing EXCEPT ![i] = 0])
           /\ [owing EXCEPT ![i] = 0] \in [OrderIds -> Int]
           /\ [owing EXCEPT ![i] = 0][i] = 0
           /\ \A id \in OrderIds \ {i} : [owing EXCEPT ![i] = 0][id] = owing[id]
  <1> DEFINE v == [owing EXCEPT ![i] = 0]
  <1>1. owing \in [OrderIds -> Int] /\ DOMAIN b.orders \subseteq OrderIds
    BY GoodOrders DEF BookOK
  <1>2. v \in [OrderIds -> Int] /\ v[i] = 0 /\ \A id \in OrderIds \ {i} : v[id] = owing[id]
    BY <1>1
  <1> HIDE DEF v
  <1>3. BookOK(b, v)
    <2>1. \A id \in DOMAIN b.orders : v[id] = owing[id] BY <1>1, <1>2
    <2>2. QED BY <1>2, <2>1, OwingElsewhere
  <1>4. QED BY <1>2, <1>3 DEF v

\* Out of the book and back in: the same orders, in other places.
LEMMA PutBackOK ==
    ASSUME NEW b, NEW owing, BookOK(b, owing), NEW id \in DOMAIN b.orders
    PROVE  LET c == InsertOrder(RemoveOrder(b, id), b.orders[id])
           IN  BookOK(c, owing) /\ c.orders = b.orders
  <1> DEFINE f == b.orders
             o == f[id]
             d == RemoveOrder(b, id)
             c == InsertOrder(d, o)
  <1>1. Maps(f, OrderIds, Orders) /\ o \in Orders /\ o.id = id /\ o.rem > 0
    BY GoodOrders DEF BookOK
  <1>2. GoodBook(d) /\ d.orders = Drop(f, id) BY RemoveKeeps DEF BookOK
  <1>3. DOMAIN d.orders = DOMAIN f \ {id} /\ \A j \in DOMAIN f \ {id} : d.orders[j] = f[j]
    BY <1>2 DEF Drop, Restrict
  <1> HIDE DEF o, d
  <1>4. GoodBook(c) /\ c.orders = With(d.orders, id, o) BY <1>1, <1>2, <1>3, InsertKeeps
  <1> HIDE DEF c, f
  <1>5. c.orders = f
    <2>1. c.orders = [x \in DOMAIN f |-> IF x = id THEN o ELSE d.orders[x]]
      BY <1>3, <1>4 DEF With, f
    <2>2. \A x \in DOMAIN f : (IF x = id THEN o ELSE d.orders[x]) = f[x]
      BY <1>3 DEF o
    <2>3. f = [x \in DOMAIN f |-> f[x]] BY <1>1 DEF Maps
    <2>4. QED BY <2>1, <2>2, <2>3
  <1>6. QED BY <1>4, <1>5 DEF BookOK, c, d, o, f

\* CancelOrder keeps the invariant: the order is gone from the book or the
\* stops, or put back where it was not, or was never there.
LEMMA CancelOrderOK ==
    ASSUME NEW e, NEW owing, NEW n, EngineOK(e, owing, n), NEW id, NEW user
    PROVE  LET reply == HandleCancelOrder(e, id, user)
           IN  EngineOK(reply.engine, Count!Fold(owing, reply.events), n)
  <1> DEFINE reply == HandleCancelOrder(e, id, user)
             b == e.book
             o == b.orders[id]
             i == StopPosition(e, id)
             s == e.stops
             t == RemoveAt(s, i)
             v == [owing EXCEPT ![id] = 0]
  <1> SUFFICES EngineOK(reply.engine, Count!Fold(owing, reply.events), n) OBVIOUS
  <1>1. IsEngine(e) /\ BookOK(b, owing) /\ StopsOK(s, b, owing, n) BY DEF EngineOK
  <1>2. DOMAIN b.orders \subseteq OrderIds /\ owing \in [OrderIds -> Int]
    BY <1>1, GoodOrders DEF BookOK
  <1>3. Count!Fold(owing, <<Rejected(id)>>) = owing BY RejectedIs, TallyOne
  <1>4. ASSUME NEW p, p.id = id PROVE Count!Fold(owing, <<Canceled(p)>>) = v
    BY <1>4, CanceledIs, TallyOne
  <1>5. CASE OnBook(b, id) /\ o.user = user
    <2> DEFINE c == RemoveOrder(b, id)
    <2>1. reply = Reply([e EXCEPT !.book = c], <<Canceled(o)>>)
      BY <1>5 DEF HandleCancelOrder
    <2>2. reply.engine = [e EXCEPT !.book = c] /\ reply.events = <<Canceled(o)>>
      BY <2>1 DEF Reply
    <2>3. id \in DOMAIN b.orders /\ id \in OrderIds /\ o.id = id
      BY <1>1, <1>2, <1>5, GoodOrders DEF OnBook, BookOK
    <2>4. BookOK(c, owing) /\ DOMAIN c.orders = DOMAIN b.orders \ {id} BY <1>1, RemoveOK
    <2> HIDE DEF c, reply
    <2>5. BookOK(c, v) /\ \A j \in OrderIds \ {id} : v[j] = owing[j]
      BY <2>3, <2>4, GoneOK
    <2>6. Count!Fold(owing, reply.events) = v BY <1>4, <2>2, <2>3
    <2> HIDE DEF v
    <2>7. EngineOK([e EXCEPT !.book = c], v, n)
      <3>1. \A j \in OrderIds \ DOMAIN b.orders : v[j] = owing[j] BY <2>3, <2>5
      <3>2. QED BY <2>4, <2>5, <3>1, BookOnlyOK
    <2>8. QED BY <2>2, <2>6, <2>7
  <1>6. CASE OnBook(b, id) /\ o.user # user
    <2> DEFINE c == InsertOrder(RemoveOrder(b, id), o)
    <2>1. reply = Reply([e EXCEPT !.book = c], <<Rejected(id)>>)
      BY <1>6 DEF HandleCancelOrder
    <2>2. reply.engine = [e EXCEPT !.book = c] /\ reply.events = <<Rejected(id)>>
      BY <2>1 DEF Reply
    <2>3. BookOK(c, owing) /\ c.orders = b.orders BY <1>1, <1>6, PutBackOK DEF OnBook
    <2> HIDE DEF c, reply
    <2>4. EngineOK([e EXCEPT !.book = c], owing, n) BY <2>3, BookOnlyOK
    <2>5. QED BY <1>3, <2>2, <2>4
  <1>7. CASE ~OnBook(b, id) /\ i = 0
    <2>1. reply = Reply(e, <<Rejected(id)>>) BY <1>7 DEF HandleCancelOrder
    <2>2. reply.engine = e /\ reply.events = <<Rejected(id)>> BY <2>1 DEF Reply
    <2>3. QED BY <1>3, <2>2
  <1>8. CASE ~OnBook(b, id) /\ i # 0
    <2>1. /\ s \in Seq(Orders) /\ DistinctIds(s) /\ i \in DOMAIN s /\ s[i].id = id
      BY <1>1, <1>8, StopFound DEF StopsOK
    <2>2. s[i] \in Orders BY <2>1
    <2>3. id \in OrderIds /\ id \notin DOMAIN b.orders BY <1>8, <2>1, <2>2, OrderHas DEF OnBook
    <2>4. TakesOut(t, s, i) BY <2>1, RemoveAtTakes
    <2>5. ASSUME NEW j \in DOMAIN t
          PROVE  /\ \E k \in DOMAIN s : t[j] = s[k]
                 /\ t[j].id # id /\ t[j].id \in OrderIds /\ t[j].id \notin DOMAIN b.orders
      <3>1. t[j] \in Range(s) BY <2>4 DEF TakesOut, Range
      <3>2. PICK k \in DOMAIN s : t[j] = s[k] BY <3>1 DEF Range
      <3>3. t[j].id # id BY <2>1, <2>4 DEF TakesOut
      <3>4. s[k] \in Orders /\ s[k].id \notin DOMAIN b.orders BY <1>1, <2>1 DEF StopsOK
      <3>5. QED BY <3>2, <3>3, <3>4, OrderHas
    <2> HIDE DEF i, t, s
    <2>6. CASE s[i].user = user
      <3> DEFINE x == [e EXCEPT !.stops = t]
      <3>1. reply = Reply(x, <<Canceled(s[i])>>)
        BY <1>8, <2>6 DEF HandleCancelOrder, i, t, s
      <3>2. reply.engine = x /\ reply.events = <<Canceled(s[i])>> BY <3>1 DEF Reply
      <3>3. IsEngine(x) /\ x.book = b /\ x.stops = t BY <1>1, EngineStops
      <3> HIDE DEF reply, x
      <3>4. BookOK(b, v) /\ \A j \in OrderIds \ {id} : v[j] = owing[j]
        BY <1>1, <2>3, GoneOK
      <3>5. Count!Fold(owing, reply.events) = v BY <1>4, <2>1, <3>2
      <3> HIDE DEF v, b
      <3>6. EngineOK(x, v, n)
        <4>1. \A j \in DOMAIN x.stops :
                 /\ \E k \in DOMAIN e.stops : SameStop(x.stops[j], e.stops[k])
                 /\ x.stops[j].id \notin DOMAIN x.book.orders
                 /\ v[x.stops[j].id] = owing[x.stops[j].id]
          BY <2>5, <3>3, <3>4 DEF SameStop, s
        <4>2. DOMAIN x.book.orders \subseteq Known(e) BY <3>3 DEF Known, b
        <4>3. \A j \in OrderIds \ Known(e) : v[j] = owing[j] BY <2>1, <3>4 DEF Known, s
        <4>4. x.stops \in Seq(Orders) /\ DistinctIds(x.stops) BY <2>4, <3>3 DEF TakesOut
        <4>5. BookOK(x.book, v) BY <3>3, <3>4
        <4>6. QED BY <3>3, <4>1, <4>2, <4>3, <4>4, <4>5, SettledOK
      <3>7. QED BY <3>2, <3>5, <3>6
    <2>7. CASE s[i].user # user
      <3> DEFINE z == s[i]
                 w == Append(t, z)
                 x == [e EXCEPT !.stops = w]
      <3>1. reply = Reply(x, <<Rejected(id)>>)
        BY <1>8, <2>7 DEF HandleCancelOrder, i, t, s
      <3>2. reply.engine = x /\ reply.events = <<Rejected(id)>> BY <3>1 DEF Reply
      <3>3. IsEngine(x) /\ x.book = b /\ x.stops = w BY <1>1, EngineStops
      <3> DEFINE m == Len(t)
      <3>4. /\ w \in Seq(Orders) /\ m \in Nat /\ DOMAIN t = 1 .. m /\ DOMAIN w = 1 .. m + 1
            /\ w[m + 1] = z /\ \A j \in 1 .. m : w[j] = t[j]
        BY <2>2, <2>4, AppendProperties DEF TakesOut
      <3>5. z \in Orders /\ z.id = id BY <2>1, <2>2
      <3> HIDE DEF reply, x, w, m
      <3>6. ASSUME NEW j \in DOMAIN w
            PROVE  \/ j \in DOMAIN t /\ w[j] = t[j]
                   \/ j = m + 1 /\ w[j] = z
        <4>1. j \in 1 .. m \/ j = m + 1 BY <3>4
        <4>2. QED BY <3>4, <4>1
      <3>7. DistinctIds(w)
        <4>1. DistinctIds(t) BY <2>4 DEF TakesOut
        <4>2. QED BY <2>5, <3>5, <3>6, <4>1 DEF DistinctIds
      <3>8. ASSUME NEW j \in DOMAIN w
            PROVE  (\E k \in DOMAIN s : w[j] = s[k]) /\ w[j].id \notin DOMAIN b.orders
        <4>1. CASE j \in DOMAIN t /\ w[j] = t[j] BY <2>5, <4>1
        <4>2. CASE w[j] = z BY <2>1, <2>3, <4>2
        <4>3. QED BY <3>6, <4>1, <4>2
      <3> HIDE DEF b, z
      <3>9. EngineOK(x, owing, n)
        <4>1. \A j \in DOMAIN x.stops :
                 /\ \E k \in DOMAIN e.stops : SameStop(x.stops[j], e.stops[k])
                 /\ x.stops[j].id \notin DOMAIN x.book.orders
          BY <3>3, <3>8 DEF SameStop, s
        <4>2. DOMAIN x.book.orders \subseteq Known(e) BY <3>3 DEF Known, b
        <4>3. x.stops \in Seq(Orders) /\ DistinctIds(x.stops) BY <3>3, <3>4, <3>7
        <4>4. BookOK(x.book, owing) BY <1>1, <3>3
        <4>5. QED BY <3>3, <4>1, <4>2, <4>3, <4>4, SettledOK
      <3>10. QED BY <1>3, <3>2, <3>9
    <2>8. QED BY <2>6, <2>7
  <1>9. QED BY <1>5, <1>6, <1>7, <1>8

-----------------------------------------------------------------------------
(* AmendOrder.                                                             *)

LEMMA ShortSeq ==
    ASSUME NEW x, NEW y
    PROVE  IsSeq(<< >>) /\ IsSeq(<<x>>) /\ IsSeq(<<x, y>>)
  <1>1. << >> \in Seq({x, y}) /\ <<x>> \in Seq({x, y}) /\ <<x, y>> \in Seq({x, y}) OBVIOUS
  <1>2. QED BY <1>1 DEF IsSeq

\* One sequence of events after another is a sequence.
LEMMA SeqJoins ==
    ASSUME NEW s, IsSeq(s), NEW t, IsSeq(t)
    PROVE  IsSeq(s \o t)
  BY AnySeq

\* A sequence of events and one more is a sequence.
LEMMA SeqGrows ==
    ASSUME NEW s, IsSeq(s), NEW x
    PROVE  IsSeq(Append(s, x))
  BY AnySeq

\* One sequence of events after another, and two events.
LEMMA TallyThen ==
    ASSUME NEW owing, NEW s, IsSeq(s), NEW t, IsSeq(t)
    PROVE  Count!Fold(owing, s \o t) = Count!Fold(Count!Fold(owing, s), t)
  <1>1. Count!IsSeq(s) /\ Count!IsSeq(t) BY DEF IsSeq, Count!IsSeq
  <1>2. QED BY <1>1, Count!FoldThen

\* Tallying one more event.
LEMMA TallyMore ==
    ASSUME NEW owing, NEW s, IsSeq(s), NEW x
    PROVE  Count!Fold(owing, Append(s, x)) = Tally(Count!Fold(owing, s), x)
  <1>1. Count!IsSeq(s) BY DEF IsSeq, Count!IsSeq
  <1>2. QED BY <1>1, Count!FoldThen

\* Tallying two events.
LEMMA TallyTwo ==
    ASSUME NEW owing, NEW x, NEW y
    PROVE  Count!Fold(owing, <<x, y>>) = Tally(Tally(owing, x), y)
  <1>1. IsSeq(<<x>>) BY ShortSeq
  <1>2. <<x, y>> = Append(<<x>>, y) OBVIOUS
  <1>3. Count!Fold(owing, Append(<<x>>, y)) = Tally(Count!Fold(owing, <<x>>), y)
    BY <1>1, TallyMore
  <1>4. Count!Fold(owing, <<x>>) = Tally(owing, x) BY TallyOne
  <1>5. QED BY <1>2, <1>3, <1>4

\* An order with another price and another quantity.
Repriced(o, p, q) == [o EXCEPT !.price = p, !.rem = q, !.orig = q]

\* A repriced order is an order, the same but for price and quantity.
LEMMA RepricedIs ==
    ASSUME NEW o \in Orders, NEW p \in Nat, NEW q \in Nat
    PROVE  LET x == Repriced(o, p, q)
           IN  /\ x \in Orders /\ x.id = o.id /\ x.side = o.side /\ x.type = o.type
               /\ x.rem = q /\ x.orig = q /\ x.hidden = o.hidden
  <1> DEFINE a == [o EXCEPT !.price = p]
             c == [a EXCEPT !.rem = q]
             x == [c EXCEPT !.orig = q]
  <1>1. Repriced(o, p, q) = x BY DEF Repriced
  <1>2. /\ a \in Orders /\ a.id = o.id /\ a.side = o.side /\ a.type = o.type
        /\ a.hidden = o.hidden
    BY DEF Orders
  <1> HIDE DEF a
  <1>3. /\ c \in Orders /\ c.id = o.id /\ c.side = o.side /\ c.type = o.type
        /\ c.rem = q /\ c.hidden = o.hidden
    BY <1>2 DEF Orders
  <1> HIDE DEF c
  <1>4. q \in Int OBVIOUS
  <1>5. /\ x \in Orders /\ x.id = o.id /\ x.side = o.side /\ x.type = o.type
        /\ x.rem = q /\ x.orig = q /\ x.hidden = o.hidden
    BY <1>3, <1>4 DEF Orders
  <1>6. QED BY <1>1, <1>5

\* A match and what its callers do with what is left of a limit order that
\* was off the book.  owing counts k beside what shows; v counts what hides.
LEMMA PlacedOK ==
    ASSUME NEW b, NEW owing, BookOK(b, owing), NEW o \in Orders, o.id \notin DOMAIN b.orders,
           NEW k \in Int, owing[o.id] = o.rem + k, ~MatchOrder(b, o).rejected
    PROVE  LET m == MatchOrder(b, o)
               c == IF m.taker.rem # 0 /\ IsLimit(o.type) THEN InsertOrder(m.book, m.taker)
                    ELSE m.book
               r == Count!Fold(owing, FillEvents(m))
           IN  /\ \A v \in [OrderIds -> Int] :
                     v[o.id] = r[o.id] - k + o.hidden
                        /\ (\A id \in OrderIds \ {o.id} : v[id] = r[id])
                       => BookOK(c, v)
               /\ r \in [OrderIds -> Int]
               /\ DOMAIN c.orders \subseteq DOMAIN b.orders \cup {o.id}
               /\ \A id \in OrderIds \ DOMAIN b.orders : id # o.id => r[id] = owing[id]
               /\ m.taker.type = o.type /\ IsSeq(FillEvents(m))
  <1> DEFINE m == MatchOrder(b, o)
             r == Count!Fold(owing, FillEvents(m))
             c == IF m.taker.rem # 0 /\ IsLimit(o.type) THEN InsertOrder(m.book, m.taker)
                  ELSE m.book
             i == o.id
  <1>1. GoodBook(b) BY DEF BookOK
  <1>2. Matched(b.orders, o, m) BY <1>1, MatchLeaves
  <1>3. o.hidden \in Int /\ o.hidden \in Nat /\ i \in OrderIds BY OrderHas
  <1>4. /\ BookOK(m.book, r) /\ r[i] = m.taker.rem + k
        /\ \A id \in OrderIds \ DOMAIN b.orders : id # i => r[id] = owing[id]
        /\ DOMAIN m.book.orders \subseteq DOMAIN b.orders
        /\ m.taker.rem \in Nat /\ m.taker = Left(o, m.taker.rem)
    BY <1>2, MatchedOK
  <1>5. /\ m.taker \in Orders /\ m.taker.id = i /\ m.taker.type = o.type
        /\ m.taker.side = o.side /\ m.taker.price = o.price /\ m.taker.hidden = o.hidden
    BY <1>4, LeftIs
  <1>6. IsSeq(FillEvents(m))
    <2>1. m.fills \in Seq(Fills) BY <1>2 DEF Matched
    <2>2. QED BY <2>1, FillEventsPay DEF IsSeq
  <1>7. m.taker.rem > 0 /\ IsLimit(o.type) => Fits(m.book.orders, m.taker)
    BY <1>1, <1>5, MatchedFits
  <1>8. r \in [OrderIds -> Int] /\ DOMAIN b.orders \subseteq OrderIds
    BY <1>1, <1>4, GoodOrders DEF BookOK
  <1> HIDE DEF m, r, c
  <1>9. ASSUME NEW v \in [OrderIds -> Int], v[i] = r[i] - k + o.hidden,
               \A id \in OrderIds \ {i} : v[id] = r[id]
        PROVE  BookOK(m.book, v) /\ v[i] = m.taker.rem + o.hidden
    <2>1. \A id \in DOMAIN m.book.orders : v[id] = r[id] BY <1>4, <1>8, <1>9
    <2>2. BookOK(m.book, v) BY <1>4, <2>1, OwingElsewhere
    <2>3. v[i] = m.taker.rem + o.hidden BY <1>3, <1>4, <1>9
    <2>4. QED BY <2>2, <2>3
  <1>10. CASE m.taker.rem # 0 /\ IsLimit(o.type)
    <2>1. m.taker.rem > 0 BY <1>4, <1>10
    <2>2. m.taker.id \notin DOMAIN m.book.orders BY <1>4, <1>5
    <2>3. c = InsertOrder(m.book, m.taker) BY <1>10 DEF c
    <2>4. ASSUME NEW v \in [OrderIds -> Int], v[i] = r[i] - k + o.hidden,
                 \A id \in OrderIds \ {i} : v[id] = r[id]
          PROVE  BookOK(c, v) /\ DOMAIN c.orders = DOMAIN m.book.orders \cup {i}
      <3>1. BookOK(m.book, v) /\ v[m.taker.id] = m.taker.rem + m.taker.hidden
        BY <1>5, <1>9, <2>4
      <3>2. QED BY <1>5, <1>7, <1>10, <2>1, <2>2, <2>3, <3>1, RestOK
    <2>5. DOMAIN c.orders \subseteq DOMAIN b.orders \cup {i}
      <3> DEFINE v == [r EXCEPT ![i] = r[i] - k + o.hidden]
      <3>1. /\ v \in [OrderIds -> Int] /\ v[i] = r[i] - k + o.hidden
            /\ \A id \in OrderIds \ {i} : v[id] = r[id]
        BY <1>3, <1>8
      <3> HIDE DEF v
      <3>2. QED BY <1>4, <2>4, <3>1
    <2>6. QED BY <1>4, <1>5, <1>6, <1>8, <2>4, <2>5 DEF m, r, c
  <1>11. CASE ~(m.taker.rem # 0 /\ IsLimit(o.type))
    <2>1. c = m.book BY <1>11 DEF c
    <2>2. QED BY <1>4, <1>5, <1>6, <1>8, <1>9, <2>1 DEF m, r, c
  <1>12. QED BY <1>10, <1>11

\* A better price or more quantity.
LEMMA ReplacedOK ==
    ASSUME NEW e, NEW owing, NEW n, EngineOK(e, owing, n), NEW id \in DOMAIN e.book.orders,
           NEW a \in Amendments
    PROVE  LET o == e.book.orders[id]
               reply == AmendByReplacement(e, o, a)
               r == Count!Fold(owing, reply.events)
           IN  EngineOK(reply.engine, [r EXCEPT ![id] = @ + o.hidden], n)
  <1> DEFINE b == e.book
             o == b.orders[id]
             reply == AmendByReplacement(e, o, a)
             r == Count!Fold(owing, reply.events)
             v == [r EXCEPT ![id] = @ + o.hidden]
             c == RemoveOrder(b, id)
             p == OrElse(a.price, o.price)
             q == OrElse(a.qty, o.rem)
             x == Repriced(o, p, q)
             m == MatchOrder(c, x)
             w == [owing EXCEPT ![id] = 0]
             out0 == Canceled(o)
  <1> SUFFICES EngineOK(reply.engine, v, n) OBVIOUS
  <1>1. IsEngine(e) /\ BookOK(b, owing) BY DEF EngineOK
  <1>2. /\ DOMAIN b.orders \subseteq OrderIds /\ owing \in [OrderIds -> Int]
        /\ o \in Orders /\ o.id = id /\ id \in OrderIds
    BY <1>1, GoodOrders DEF BookOK
  <1>3. o.hidden \in Int /\ o.price \in Int /\ o.rem \in Int BY <1>2, OrderHas
  <1>4. p \in Int /\ q \in Int
    <2>1. a.price \in Optional(Int) /\ a.qty \in Optional(Int) BY EngineAssumption
    <2>2. QED BY <1>3, <2>1 DEF OrElse, Optional
  <1>5. /\ BookOK(c, owing) /\ DOMAIN c.orders = DOMAIN b.orders \ {id} BY <1>1, RemoveOK
  <1> HIDE DEF b, o, c, p, q
  <1>6. /\ BookOK(c, w) /\ w \in [OrderIds -> Int] /\ w[id] = 0
        /\ \A j \in OrderIds \ {id} : w[j] = owing[j]
    BY <1>2, <1>5, GoneOK, ZenonT(30)
  <1>7. Tally(owing, out0) = w BY <1>2, CanceledIs
  <1> HIDE DEF w, out0
  <1>8. CASE q <= 0 \/ p <= 0 \/ m.rejected
    <2>1. reply = Reply([e EXCEPT !.book = c], <<out0, Rejected(o.id)>>)
      BY <1>2, <1>8 DEF AmendByReplacement, Repriced, b, c, p, q, out0, o
    <2>2. /\ reply.engine = [e EXCEPT !.book = c] /\ reply.events = <<out0, Rejected(id)>>
      BY <1>2, <2>1 DEF Reply
    <2> HIDE DEF reply
    <2>3. r = w
      <3>1. Count!Fold(owing, <<out0, Rejected(id)>>) = Tally(Tally(owing, out0), Rejected(id))
        BY TallyTwo
      <3>2. QED BY <1>7, <2>2, <3>1, RejectedIs
    <2>4. /\ v \in [OrderIds -> Int] /\ \A j \in OrderIds \ {id} : v[j] = owing[j]
      BY <1>2, <1>3, <1>6, <2>3
    <2> HIDE DEF v
    <2>5. BookOK(c, v)
      <3>1. \A j \in DOMAIN c.orders : v[j] = owing[j] BY <1>2, <1>5, <2>4 DEF b
      <3>2. QED BY <1>5, <2>4, <3>1, OwingElsewhere
    <2>6. \A j \in OrderIds \ DOMAIN e.book.orders : v[j] = owing[j]
      BY <2>4
    <2>7. EngineOK([e EXCEPT !.book = c], v, n)
      BY <1>5, <2>5, <2>6, BookOnlyOK DEF b
    <2>8. QED BY <2>2, <2>7
  <1>9. CASE ~(q <= 0 \/ p <= 0 \/ m.rejected)
    <2> DEFINE fills == FillEvents(m)
               acc == Accepted(x, e.seq)
               z == [w EXCEPT ![id] = q]
               d == IF m.taker.rem # 0 /\ IsLimit(x.type) THEN InsertOrder(m.book, m.taker)
                    ELSE m.book
    <2>1. reply = Reply([e EXCEPT !.book = d], <<out0, acc>> \o fills)
      BY <1>2, <1>9 DEF AmendByReplacement, Repriced, b, c, p, q, out0, o
    <2>2. reply.engine = [e EXCEPT !.book = d] /\ reply.events = <<out0, acc>> \o fills
      BY <2>1 DEF Reply
    <2>3. p \in Nat /\ q \in Nat BY <1>4, <1>9
    <2>4. /\ x \in Orders /\ x.id = id /\ x.rem = q /\ x.orig = q /\ x.hidden = o.hidden
      BY <1>2, <2>3, RepricedIs
    <2> HIDE DEF reply, x
    <2>5. Tally(w, acc) = z
      <3>1. w[x.id] = 0 BY <1>6, <2>4
      <3>2. Tally(w, acc) = [w EXCEPT ![x.id] = x.orig] BY <2>4, <3>1, AcceptedIs
      <3>3. QED BY <2>4, <3>2
    <2>6. /\ z \in [OrderIds -> Int] /\ z[id] = q
          /\ \A j \in OrderIds \ {id} : z[j] = owing[j]
      BY <1>2, <1>4, <1>6
    <2> HIDE DEF z, acc
    <2>7. BookOK(c, z)
      <3>1. \A j \in DOMAIN c.orders : z[j] = owing[j] BY <1>2, <1>5, <2>6 DEF b
      <3>2. QED BY <1>5, <2>6, <3>1, OwingElsewhere
    <2> DEFINE s == Count!Fold(z, fills)
    <2>8. /\ \A y \in [OrderIds -> Int] :
                y[id] = s[id] - 0 + o.hidden /\ (\A j \in OrderIds \ {id} : y[j] = s[j])
                   => BookOK(d, y)
          /\ s \in [OrderIds -> Int]
          /\ DOMAIN d.orders \subseteq DOMAIN c.orders \cup {id}
          /\ \A j \in OrderIds \ DOMAIN c.orders : j # id => s[j] = z[j]
          /\ IsSeq(fills)
      <3>1. x.id \notin DOMAIN c.orders BY <1>5, <2>4
      <3>2. 0 \in Int /\ z[x.id] = x.rem + 0 BY <1>4, <2>4, <2>6
      <3>3. ~m.rejected BY <1>9
      <3> HIDE DEF d, fills
      <3>4. QED BY <2>4, <2>7, <3>1, <3>2, <3>3, PlacedOK DEF m, d, fills
    <2> HIDE DEF m, d
    <2>9. r = s
      <3>1. IsSeq(<<out0, acc>>) BY ShortSeq
      <3> HIDE DEF fills
      <3>2. Count!Fold(owing, <<out0, acc>> \o fills)
              = Count!Fold(Count!Fold(owing, <<out0, acc>>), fills)
        BY <2>8, <3>1, TallyThen
      <3>3. Count!Fold(owing, <<out0, acc>>) = Tally(Tally(owing, out0), acc)
        BY TallyTwo
      <3>4. QED BY <1>7, <2>2, <2>5, <3>2, <3>3
    <2> HIDE DEF s, r
    <2>10. /\ v \in [OrderIds -> Int] /\ v[id] = s[id] - 0 + o.hidden
           /\ \A j \in OrderIds \ {id} : v[j] = s[j]
      <3>1. s[id] \in Int BY <1>2, <2>8
      <3>2. s[id] + o.hidden \in Int /\ s[id] + o.hidden = s[id] - 0 + o.hidden BY <1>3, <3>1
      <3>3. QED BY <1>2, <2>8, <2>9, <3>2
    <2> HIDE DEF v
    <2>11. BookOK(d, v) BY <2>8, <2>10
    <2>12. DOMAIN d.orders \subseteq DOMAIN b.orders BY <1>5, <2>8 DEF b
    <2>13. \A j \in OrderIds \ DOMAIN b.orders : v[j] = owing[j]
      <3>1. \A j \in OrderIds \ DOMAIN b.orders : j # id /\ j \notin DOMAIN c.orders
        BY <1>5 DEF b
      <3>2. QED BY <2>6, <2>8, <2>10, <3>1
    <2>14. EngineOK([e EXCEPT !.book = d], v, n)
      BY <2>11, <2>12, <2>13, BookOnlyOK DEF b
    <2>15. QED BY <2>2, <2>14
  <1>10. QED BY <1>8, <1>9

\* Less, in place.
LEMMA ReducedOK ==
    ASSUME NEW b, NEW owing, BookOK(b, owing), NEW id \in DOMAIN b.orders,
           NEW k \in Nat, k > 0, k <= b.orders[id].rem
    PROVE  LET c == UpdateQty(b, id, k)
           IN  /\ BookOK(c, [owing EXCEPT ![id] = k + b.orders[id].hidden])
               /\ DOMAIN c.orders = DOMAIN b.orders
  <1> DEFINE f == b.orders
             o == f[id]
             c == UpdateQty(b, id, k)
             g == c.orders
             v == [owing EXCEPT ![id] = k + o.hidden]
  <1>1. /\ DOMAIN f \subseteq OrderIds /\ owing \in [OrderIds -> Int] /\ Maps(f, OrderIds, Orders)
        /\ o \in Orders /\ id \in OrderIds /\ Uncrossed(f) /\ Owes(owing, f) /\ GoodBook(b)
    BY GoodOrders DEF BookOK
  <1>2. o.rem \in Nat /\ o.hidden \in Nat /\ k <= o.rem BY <1>1, OrderHas
  <1>3. GoodBook(c) /\ g = [f EXCEPT ![id] = Left(o, k)]
    BY <1>1, UpdateKeeps DEF OnBook
  <1>4. Maps(g, OrderIds, Orders) BY <1>3, GoodOrders
  <1>5. /\ Left(o, k).rem = k /\ Left(o, k).hidden = o.hidden
        /\ \A j \in DOMAIN f : Left(f[j], f[j].rem) = f[j] /\ f[j].rem \in Nat
    BY <1>1, LeftIs, LeftTwice, OrderHas DEF Maps
  <1> DEFINE l == Left(o, k)
  <1>6. DOMAIN g = DOMAIN f /\ g[id] = l /\ \A j \in DOMAIN f \ {id} : g[j] = f[j]
    <2> HIDE DEF l, f
    <2>1. g = [f EXCEPT ![id] = l] /\ f = [j \in DOMAIN f |-> f[j]] /\ id \in DOMAIN f
      BY <1>1, <1>3 DEF Maps, l, f
    <2> HIDE DEF g
    <2>2. QED BY <2>1
  <1>7. l.rem = k /\ l.hidden = o.hidden BY <1>5
  <1> HIDE DEF c, g, f
  <1>8. Reduces(f, g)
    <2>1. ASSUME NEW j \in DOMAIN g PROVE g[j] = Left(f[j], g[j].rem) /\ g[j].rem <= f[j].rem
      <3>1. CASE j = id
        <4>1. g[j] = l /\ f[j] = o BY <1>6, <3>1 DEF o
        <4>2. QED BY <1>2, <1>7, <4>1 DEF l
      <3>2. CASE j # id
        <4>1. j \in DOMAIN f /\ g[j] = f[j] BY <1>6, <3>2
        <4>2. QED BY <1>5, <4>1
      <3>3. QED BY <3>1, <3>2
    <2>2. QED BY <1>6, <2>1 DEF Reduces
  <1>9. Uncrossed(g) BY <1>1, <1>4, <1>8, UncrossedReduced
  <1> HIDE DEF o, l
  <1>10. /\ v \in [OrderIds -> Int] /\ v[id] = k + o.hidden
         /\ \A j \in OrderIds \ {id} : v[j] = owing[j]
    BY <1>1, <1>2
  <1> HIDE DEF v
  <1>11. Owes(v, g)
    <2>1. ASSUME NEW j \in DOMAIN g PROVE v[j] = g[j].rem + g[j].hidden
      <3>1. CASE j = id BY <1>6, <1>7, <1>10, <3>1
      <3>2. CASE j # id
        <4>1. j \in DOMAIN f /\ j \in OrderIds /\ g[j] = f[j] BY <1>1, <1>6, <3>2
        <4>2. owing[j] = f[j].rem + f[j].hidden BY <1>1, <4>1 DEF Owes
        <4>3. QED BY <1>10, <3>2, <4>1, <4>2
      <3>3. QED BY <3>1, <3>2
    <2>2. QED BY <2>1 DEF Owes
  <1>12. BookOK(c, v) BY <1>3, <1>9, <1>10, <1>11 DEF BookOK, g
  <1>13. QED BY <1>6, <1>12 DEF v, c, g, f, o

\* What is owed after an amendment, as TalliedAmendment has it.
AmendedOwing(e, owing, id, user, a) ==
    LET o == e.book.orders[id]
        tallied == Count!Fold(owing, HandleAmendOrder(e, id, user, a).events)
    IN  IF ~(OnBook(e.book, id) /\ o.user = user) THEN tallied
        ELSE IF PriceChanged(o, a) \/ QtyUp(o, a)
        THEN [tallied EXCEPT ![id] = @ + o.hidden]
        ELSE IF QtyDown(o, a) /\ a.qty > 0 THEN [owing EXCEPT ![id] = a.qty + o.hidden]
        ELSE tallied

\* AmendOrder keeps the invariant, whichever of its branches is taken.
LEMMA AmendOrderOK ==
    ASSUME NEW e, NEW owing, NEW n, EngineOK(e, owing, n), NEW id, NEW user,
           NEW a \in Amendments
    PROVE  EngineOK(HandleAmendOrder(e, id, user, a).engine, AmendedOwing(e, owing, id, user, a), n)
  <1> DEFINE b == e.book
             o == b.orders[id]
             reply == HandleAmendOrder(e, id, user, a)
             r == Count!Fold(owing, reply.events)
             v == AmendedOwing(e, owing, id, user, a)
  <1> SUFFICES EngineOK(reply.engine, v, n) OBVIOUS
  <1>1. Count!Fold(owing, <<Rejected(id)>>) = owing BY RejectedIs, TallyOne
  <1>2. CASE ~(OnBook(b, id) /\ o.user = user)
    <2>1. reply = Reply(e, <<Rejected(id)>>) BY <1>2 DEF HandleAmendOrder
    <2>2. reply.engine = e /\ reply.events = <<Rejected(id)>> BY <2>1 DEF Reply
    <2>3. v = r BY <1>2 DEF AmendedOwing
    <2>4. QED BY <1>1, <2>2, <2>3
  <1>3. CASE OnBook(b, id) /\ o.user = user /\ (PriceChanged(o, a) \/ QtyUp(o, a))
    <2>1. reply = AmendByReplacement(e, o, a) BY <1>3 DEF HandleAmendOrder
    <2>2. v = [r EXCEPT ![id] = @ + o.hidden] BY <1>3 DEF AmendedOwing
    <2>3. id \in DOMAIN b.orders BY <1>3 DEF OnBook
    <2> HIDE DEF reply, v
    <2>4. QED BY <2>1, <2>2, <2>3, ReplacedOK
  <1>4. CASE /\ OnBook(b, id) /\ o.user = user /\ ~(PriceChanged(o, a) \/ QtyUp(o, a))
             /\ QtyDown(o, a) /\ a.qty > 0
    <2> DEFINE c == UpdateQty(b, id, a.qty)
               w == [owing EXCEPT ![id] = a.qty + o.hidden]
    <2>1. BookOK(b, owing) BY DEF EngineOK
    <2>2. id \in DOMAIN b.orders /\ id \in OrderIds /\ o \in Orders
      BY <1>4, <2>1, GoodOrders DEF OnBook, BookOK
    <2>3. o.rem \in Nat BY <2>2, OrderHas
    <2>4. a.qty \in Nat /\ a.qty > 0 /\ a.qty <= o.rem
      <3>1. a.qty \in Int BY <1>4, EngineAssumption DEF QtyDown, Optional
      <3>2. QED BY <1>4, <2>3, <3>1 DEF QtyDown
    <2>5. reply = Reply([e EXCEPT !.book = c], <<Accepted(o, e.seq)>>)
      BY <1>4, <2>4 DEF HandleAmendOrder
    <2>6. reply.engine = [e EXCEPT !.book = c] BY <2>5 DEF Reply
    <2>7. v = w BY <1>4 DEF AmendedOwing
    <2>8. BookOK(c, w) /\ DOMAIN c.orders = DOMAIN b.orders BY <2>1, <2>2, <2>4, ReducedOK
    <2>9. \A j \in OrderIds \ DOMAIN b.orders : w[j] = owing[j]
      BY <2>1, <2>2 DEF BookOK
    <2> HIDE DEF reply, v, c, w
    <2>10. EngineOK([e EXCEPT !.book = c], w, n) BY <2>8, <2>9, BookOnlyOK
    <2>11. QED BY <2>6, <2>7, <2>10
  <1>5. CASE /\ OnBook(b, id) /\ o.user = user /\ ~(PriceChanged(o, a) \/ QtyUp(o, a))
             /\ ~(QtyDown(o, a) /\ a.qty > 0)
    <2>1. v = r BY <1>5 DEF AmendedOwing
    <2>2. CASE ~QtyDown(o, a)
      <3> DEFINE x == Accepted(o, e.seq)
      <3>1. reply = Reply(e, <<x>>) BY <1>5, <2>2 DEF HandleAmendOrder
      <3>2. reply.engine = e /\ reply.events = <<x>> BY <3>1 DEF Reply
      <3>3. BookOK(b, owing) BY DEF EngineOK
      <3>4. /\ o \in Orders /\ o.id = id /\ o.rem > 0 /\ owing[id] = o.rem + o.hidden
        BY <1>5, <3>3, GoodOrders DEF OnBook, BookOK, Owes
      <3>5. owing[id] # 0
        <4>1. o.rem \in Nat /\ o.hidden \in Nat BY <3>4, OrderHas
        <4>2. QED BY <3>4, <4>1
      <3>6. x.kind = "Accepted" /\ x.terms = Restrict(o, TermNames) BY DEF Accepted
      <3>7. x.terms.id = id BY <3>4, <3>6 DEF Restrict, TermNames, Orders
      <3> HIDE DEF x, reply, v, o
      <3>8. Tally(owing, x) = owing BY <3>5, <3>6, <3>7, TallyIs
      <3>9. QED BY <2>1, <3>2, <3>8, TallyOne
    <2>3. CASE QtyDown(o, a)
      <3>1. a.qty <= 0
        <4>1. a.qty \in Int BY <2>3, EngineAssumption DEF QtyDown, Optional
        <4>2. QED BY <1>5, <2>3, <4>1
      <3>2. reply = Reply(e, <<Rejected(id)>>) BY <1>5, <2>3, <3>1 DEF HandleAmendOrder
      <3>3. reply.engine = e /\ reply.events = <<Rejected(id)>> BY <3>2 DEF Reply
      <3>4. QED BY <1>1, <2>1, <3>3
    <2>4. QED BY <2>2, <2>3
  <1>6. QED BY <1>2, <1>3, <1>4, <1>5

-----------------------------------------------------------------------------
(* The loop that takes the chosen orders out of a vector.                  *)

\* The fold of the loop over its turns.
Turns == INSTANCE CollectionLaws WITH op <- ScanOne

\* The loop over the vector s after k turns: what it has passed is not chosen,
\* what it took out is apart from what is left.
Scanned(scan, s, chosen, k) ==
    /\ scan = [i |-> scan.i, kept |-> scan.kept, taken |-> scan.taken, chosen |-> chosen]
    /\ scan.kept \in Seq(Orders) /\ DistinctIds(scan.kept) /\ Range(scan.kept) \subseteq Range(s)
    /\ scan.taken \in Seq(Orders) /\ DistinctIds(scan.taken) /\ Range(scan.taken) \subseteq Range(s)
    /\ \A j \in DOMAIN scan.kept : \A l \in DOMAIN scan.taken : scan.kept[j].id # scan.taken[l].id
    /\ scan.i \in Nat \ {0} /\ Len(scan.kept) + k = Len(s) + scan.i - 1
    /\ \A j \in DOMAIN scan.kept : j < scan.i => scan.kept[j].id \notin chosen

\* A vector of orders and one more with an id of its own.
LEMMA MoreDistinct ==
    ASSUME NEW t \in Seq(Orders), DistinctIds(t), NEW x \in Orders,
           \A j \in DOMAIN t : t[j].id # x.id
    PROVE  /\ Append(t, x) \in Seq(Orders) /\ DistinctIds(Append(t, x))
           /\ Range(Append(t, x)) = Range(t) \cup {x}
           /\ \A j \in DOMAIN Append(t, x) :
                 \/ j \in DOMAIN t /\ Append(t, x)[j] = t[j]
                 \/ j = Len(t) + 1 /\ Append(t, x)[j] = x
  <1> DEFINE m == Len(t)
             w == Append(t, x)
  <1>1. /\ w \in Seq(Orders) /\ m \in Nat /\ DOMAIN t = 1 .. m /\ DOMAIN w = 1 .. m + 1
        /\ w[m + 1] = x /\ \A j \in 1 .. m : w[j] = t[j]
    BY AppendProperties
  <1>2. Range(w) = Range(t) \cup {x} BY AppendMembers
  <1> HIDE DEF w, m
  <1>3. ASSUME NEW j \in DOMAIN w
        PROVE  \/ j \in DOMAIN t /\ w[j] = t[j]
               \/ j = m + 1 /\ w[j] = x
    <2>1. j \in 1 .. m \/ j = m + 1 BY <1>1
    <2>2. QED BY <1>1, <2>1
  <1>4. DistinctIds(w) BY <1>3 DEF DistinctIds
  <1>5. QED BY <1>1, <1>2, <1>3, <1>4 DEF w, m

\* One turn of the loop keeps what is said of it.
LEMMA TurnKeeps ==
    ASSUME NEW s \in Seq(Orders), NEW chosen, NEW k \in Nat, k < Len(s),
           NEW scan, Scanned(scan, s, chosen, k), NEW turn
    PROVE  Scanned(ScanOne(scan, turn), s, chosen, k + 1)
  <1> DEFINE i == scan.i
             kept == scan.kept
             taken == scan.taken
             n == Len(kept)
             Made(j, a, b) == [i |-> j, kept |-> a, taken |-> b, chosen |-> chosen]
  <1>1. /\ scan = Made(i, kept, taken)
        /\ kept \in Seq(Orders) /\ DistinctIds(kept) /\ Range(kept) \subseteq Range(s)
        /\ taken \in Seq(Orders) /\ DistinctIds(taken) /\ Range(taken) \subseteq Range(s)
        /\ \A j \in DOMAIN kept : \A l \in DOMAIN taken : kept[j].id # taken[l].id
        /\ i \in Nat \ {0} /\ n + k = Len(s) + i - 1
        /\ \A j \in DOMAIN kept : j < i => kept[j].id \notin chosen
    BY DEF Scanned
  <1>2. n \in Nat /\ Len(s) \in Nat /\ DOMAIN kept = 1 .. n BY <1>1
  <1>3. i \in DOMAIN kept /\ i <= n BY <1>1, <1>2
  <1>4. \A j, a, b : /\ Made(j, a, b).i = j /\ Made(j, a, b).kept = a
                     /\ Made(j, a, b).taken = b /\ Made(j, a, b).chosen = chosen
    OBVIOUS
  <1>5. kept[i] \in Orders BY <1>1, <1>3
  <1>6. CASE kept[i].id \in chosen
    <2> DEFINE t == SwapRemove(kept, i)
               u == Append(taken, kept[i])
               c == Made(i, t, u)
    <2>1. TakesOut(t, kept, i) /\ Len(t) = n - 1
          /\ \A j \in 1 .. n - 1 : t[j] = IF j = i THEN kept[n] ELSE kept[j]
      BY <1>1, <1>3, SwapRemoveTakes
    <2>2. ScanOne(scan, turn) = c
      <3>1. scan.chosen = chosen BY <1>1, <1>4
      <3>2. ScanOne(scan, turn) = [scan EXCEPT !.kept = t, !.taken = u]
        BY <1>6, <3>1 DEF ScanOne
      <3> HIDE DEF t, u, i, kept, taken
      <3>3. [scan EXCEPT !.kept = t, !.taken = u] = Made(i, t, u)
        <4> DEFINE z == [scan EXCEPT !.kept = t]
        <4>1. [scan EXCEPT !.kept = t, !.taken = u] = [z EXCEPT !.taken = u] OBVIOUS
        <4>2. z = Made(i, t, taken) BY <1>1, SMTT(20)
        <4> HIDE DEF z
        <4>3. [z EXCEPT !.taken = u] = Made(i, t, u) BY <4>2
        <4>4. QED BY <4>1, <4>3
      <3>4. QED BY <3>2, <3>3
    <2>3. /\ u \in Seq(Orders) /\ DistinctIds(u) /\ Range(u) = Range(taken) \cup {kept[i]}
          /\ \A j \in DOMAIN u : \/ j \in DOMAIN taken /\ u[j] = taken[j]
                                 \/ j = Len(taken) + 1 /\ u[j] = kept[i]
      BY <1>1, <1>3, <1>5, MoreDistinct
    <2>4. kept[i] \in Range(s) BY <1>1, <1>3 DEF Range
    <2> HIDE DEF t, u, c, kept, taken, n, i, Made
    <2>5. /\ t \in Seq(Orders) /\ Range(t) \subseteq Range(kept) /\ DistinctIds(t)
          /\ \A j \in DOMAIN t : t[j].id # kept[i].id
      BY <2>1 DEF TakesOut
    <2>6. ASSUME NEW j \in DOMAIN t, NEW l \in DOMAIN u PROVE t[j].id # u[l].id
      <3>1. t[j] \in Range(kept) BY <2>5 DEF Range
      <3>2. PICK h \in DOMAIN kept : t[j] = kept[h] BY <3>1 DEF Range
      <3>3. QED BY <1>1, <2>3, <2>5, <3>2
    <2>7. ASSUME NEW j \in DOMAIN t, j < i PROVE t[j].id \notin chosen
      <3>1. j \in 1 .. n - 1 /\ j # i /\ j \in 1 .. n BY <1>1, <1>2, <2>1, <2>5, <2>7
      <3>2. t[j] = kept[j] BY <2>1, <3>1
      <3>3. QED BY <1>1, <1>2, <2>7, <3>1, <3>2
    <2>8. Len(t) + (k + 1) = Len(s) + i - 1 BY <1>1, <1>2, <2>1
    <2>9. c.i = i /\ c.kept = t /\ c.taken = u BY <1>4 DEF c
    <2>10. c = [i |-> c.i, kept |-> c.kept, taken |-> c.taken, chosen |-> chosen]
      BY <2>9 DEF c, Made
    <2>11. Scanned(c, s, chosen, k + 1)
      BY <1>1, <2>3, <2>4, <2>5, <2>6, <2>7, <2>8, <2>9, <2>10 DEF Scanned
    <2>12. QED BY <2>2, <2>11
  <1>7. CASE kept[i].id \notin chosen
    <2> DEFINE c == Made(i + 1, kept, taken)
    <2>1. ScanOne(scan, turn) = c
      <3>1. scan.chosen = chosen BY <1>1, <1>4
      <3>2. ScanOne(scan, turn) = [scan EXCEPT !.i = i + 1] BY <1>7, <3>1 DEF ScanOne
      <3> HIDE DEF i, kept, taken
      <3>3. QED BY <1>1, <3>2
    <2>2. c.i = i + 1 /\ c.kept = kept /\ c.taken = taken BY <1>4
    <2>3. c = [i |-> c.i, kept |-> c.kept, taken |-> c.taken, chosen |-> chosen] BY <2>2
    <2> HIDE DEF c, kept, taken, n, i, Made
    <2>4. i + 1 \in Nat \ {0} /\ n + (k + 1) = Len(s) + (i + 1) - 1 BY <1>1, <1>2
    <2>5. ASSUME NEW j \in DOMAIN kept, j < i + 1 PROVE kept[j].id \notin chosen
      <3>1. j < i \/ j = i BY <1>1, <1>2, <2>5
      <3>2. QED BY <1>1, <1>7, <3>1
    <2>6. Scanned(c, s, chosen, k + 1)
      BY <1>1, <2>2, <2>3, <2>4, <2>5 DEF Scanned, n
    <2>7. QED BY <2>1, <2>6
  <1>8. QED BY <1>6, <1>7

\* The whole loop.
LEMMA ScanKeeps ==
    ASSUME NEW s \in Seq(Orders), DistinctIds(s), NEW chosen
    PROVE  LET scan == Scan(s, chosen)
           IN  /\ scan.kept \in Seq(Orders) /\ DistinctIds(scan.kept)
               /\ Range(scan.kept) \subseteq Range(s)
               /\ scan.taken \in Seq(Orders) /\ DistinctIds(scan.taken)
               /\ Range(scan.taken) \subseteq Range(s)
               /\ \A j \in DOMAIN scan.kept : \A l \in DOMAIN scan.taken :
                     scan.kept[j].id # scan.taken[l].id
               /\ \A j \in DOMAIN scan.kept : scan.kept[j].id \notin chosen
  <1> DEFINE n == Len(s)
             base == [i |-> 1, kept |-> s, taken |-> << >>, chosen |-> chosen]
             scan == Scan(s, chosen)
  <1>1. n \in Nat OBVIOUS
  <1>2. scan = Turns!Fold(base, s)
    BY DEF Scan, Turns!Fold, FoldLeft, MapThenFoldSet, Max,
           Turns!FoldLeft, Turns!MapThenFoldSet, Turns!Max
  <1> HIDE DEF scan
  <1>3. Scanned(base, s, chosen, 0)
    <2>1. base.i = 1 /\ base.kept = s /\ base.taken = << >> OBVIOUS
    <2>2. base = [i |-> base.i, kept |-> base.kept, taken |-> base.taken, chosen |-> chosen]
      OBVIOUS
    <2> HIDE DEF base
    <2>3. << >> \in Seq(Orders) /\ DOMAIN << >> = {} OBVIOUS
    <2>4. DistinctIds(<< >>) /\ Range(<< >>) = {} BY <2>3 DEF DistinctIds, Range
    <2>5. \A j \in DOMAIN s : ~(j < 1) OBVIOUS
    <2>6. QED BY <1>1, <2>1, <2>2, <2>3, <2>4, <2>5 DEF Scanned
  <1> HIDE DEF base
  <1>4. PICK tr : Turns!IsTrace(tr, base, s) /\ scan = tr[n] BY <1>2, Turns!FoldTrace
  <1>5. tr[0] = base /\ \A i \in 1 .. n : tr[i] = ScanOne(tr[i - 1], s[i])
    BY <1>4 DEF Turns!IsTrace
  <1> DEFINE K == {k \in Nat : k <= n => Scanned(tr[k], s, chosen, k)}
  <1>6. 0 \in K BY <1>3, <1>5
  <1>7. ASSUME NEW k \in Nat, k \in K PROVE k + 1 \in K
    <2> SUFFICES ASSUME k + 1 <= n PROVE Scanned(tr[k + 1], s, chosen, k + 1) OBVIOUS
    <2>1. k < Len(s) /\ k + 1 \in 1 .. n /\ (k + 1) - 1 = k BY <1>1
    <2>2. tr[k + 1] = ScanOne(tr[k], s[k + 1]) BY <1>5, <2>1
    <2>3. Scanned(tr[k], s, chosen, k) BY <1>7, <2>1
    <2>4. QED BY <2>1, <2>2, <2>3, TurnKeeps
  <1> HIDE DEF K
  <1>8. n \in K BY <1>1, <1>6, <1>7, Induction
  <1>9. Scanned(scan, s, chosen, n) BY <1>1, <1>4, <1>8 DEF K
  <1>10. ASSUME NEW j \in DOMAIN scan.kept PROVE j < scan.i
    <2>1. scan.kept \in Seq(Orders) /\ scan.i \in Nat /\ Len(scan.kept) + n = n + scan.i - 1
      BY <1>9 DEF Scanned
    <2>2. j \in 1 .. Len(scan.kept) /\ Len(scan.kept) \in Nat BY <2>1
    <2>3. QED BY <1>1, <2>1, <2>2
  <1>11. QED BY <1>9, <1>10 DEF Scanned, scan

\* A range holds what the sequence has somewhere.
LEMMA RangeIs ==
    ASSUME NEW s, NEW t, Range(t) \subseteq Range(s), NEW j \in DOMAIN t
    PROVE  \E i \in DOMAIN s : t[j] = s[i]
  BY DEF Range

\* Orders that are canceled one after another.
Ends(gone) == [i \in DOMAIN gone |-> Canceled(gone[i])]

\* Cancelations touch what the canceled orders owe, nothing else.
LEMMA EndsIs ==
    ASSUME NEW gone \in Seq(Orders), NEW owing \in [OrderIds -> Int]
    PROVE  LET r == Count!Fold(owing, Ends(gone))
           IN  /\ r \in [OrderIds -> Int]
               /\ \A id \in OrderIds :
                     (\A j \in DOMAIN gone : gone[j].id # id) => r[id] = owing[id]
  <1> DEFINE n == Len(gone)
             s == Ends(gone)
             S == {Canceled(o) : o \in Orders}
             r == Count!Fold(owing, s)
             Kept(v, id) == v[id] = owing[id]
  <1>1. n \in Nat /\ DOMAIN gone = 1 .. n /\ \A i \in 1 .. n : gone[i] \in Orders OBVIOUS
  <1>2. /\ s \in Seq(S) /\ Len(s) = n /\ DOMAIN s = 1 .. n
        /\ \A i \in 1 .. n : s[i] = Canceled(gone[i])
    <2>1. s = [i \in 1 .. n |-> Canceled(gone[i])] BY <1>1 DEF Ends
    <2>2. \A i \in 1 .. n : Canceled(gone[i]) \in S BY <1>1
    <2> HIDE DEF s, S
    <2>3. QED BY <1>1, <2>1, <2>2
  <1> HIDE DEF s, S, n
  <1>3. PICK tr : Count!IsTrace(tr, owing, s) /\ r = tr[n] BY <1>2, Count!FoldTrace
  <1>4. tr[0] = owing /\ \A i \in 1 .. n : tr[i] = Tally(tr[i - 1], s[i])
    BY <1>2, <1>3 DEF Count!IsTrace
  <1> HIDE DEF r
  <1> DEFINE K == {k \in Nat : k <= n =>
                      /\ tr[k] \in [OrderIds -> Int]
                      /\ \A id \in OrderIds :
                            (\A j \in DOMAIN gone : gone[j].id # id) => tr[k][id] = owing[id]}
  <1>5. 0 \in K BY <1>4
  <1>6. ASSUME NEW k \in Nat, k \in K PROVE k + 1 \in K
    <2> DEFINE l == k + 1
    <2> SUFFICES ASSUME l <= n
                 PROVE  /\ tr[l] \in [OrderIds -> Int]
                        /\ \A id \in OrderIds :
                              (\A j \in DOMAIN gone : gone[j].id # id) => tr[l][id] = owing[id]
      OBVIOUS
    <2>1. l \in 1 .. n /\ l - 1 = k /\ k <= n BY <1>1
    <2> HIDE DEF l
    <2>2. tr[l] = Tally(tr[k], s[l]) /\ s[l] = Canceled(gone[l]) BY <1>2, <1>4, <2>1
    <2>3. tr[l] = [tr[k] EXCEPT ![gone[l].id] = 0] BY <2>2, CanceledIs
    <2>4. gone[l].id \in OrderIds BY <1>1, <2>1, OrderHas
    <2>5. tr[k] \in [OrderIds -> Int] BY <1>6, <2>1
    <2>6. \A id \in OrderIds : id # gone[l].id => tr[l][id] = tr[k][id] BY <2>3, <2>4, <2>5
    <2>7. ASSUME NEW id \in OrderIds, \A j \in DOMAIN gone : gone[j].id # id
          PROVE  tr[l][id] = owing[id]
      <3>1. tr[k][id] = owing[id] BY <1>6, <2>1, <2>7
      <3>2. gone[l].id # id BY <1>1, <2>1, <2>7
      <3>3. QED BY <2>6, <3>1, <3>2
    <2>8. tr[l] \in [OrderIds -> Int] BY <2>3, <2>4, <2>5
    <2>9. QED BY <2>7, <2>8
  <1> HIDE DEF K
  <1>7. n \in K BY <1>1, <1>5, <1>6, Induction
  <1>8. QED BY <1>1, <1>3, <1>7 DEF K, r, s

-----------------------------------------------------------------------------
(* CancelAllOrders.                                                        *)

\* The fold of CancelAllUserOrders over the ids of a user.
Removals == INSTANCE CollectionLaws WITH op <- RemoveOrder

\* One order after another leaves the book.
LEMMA RemovalsOK ==
    ASSUME NEW b, NEW owing, BookOK(b, owing), NEW ids \in Seq(OrderIds)
    PROVE  LET c == FoldLeft(RemoveOrder, b, ids)
           IN  /\ BookOK(c, owing)
               /\ DOMAIN c.orders \subseteq DOMAIN b.orders \ Range(ids)
  <1> DEFINE n == Len(ids)
             c == FoldLeft(RemoveOrder, b, ids)
  <1>1. n \in Nat /\ DOMAIN ids = 1 .. n OBVIOUS
  <1>2. c = Removals!Fold(b, ids)
    BY DEF Removals!Fold, FoldLeft, MapThenFoldSet, Max,
           Removals!FoldLeft, Removals!MapThenFoldSet, Removals!Max
  <1> HIDE DEF c, n
  <1>3. PICK tr : Removals!IsTrace(tr, b, ids) /\ c = tr[n]
    BY <1>2, Removals!FoldTrace DEF n
  <1>4. tr[0] = b /\ \A i \in 1 .. n : tr[i] = RemoveOrder(tr[i - 1], ids[i])
    BY <1>3 DEF Removals!IsTrace, n
  <1> DEFINE K == {k \in Nat : k <= n =>
                      /\ BookOK(tr[k], owing)
                      /\ DOMAIN tr[k].orders \subseteq DOMAIN b.orders
                      /\ \A j \in 1 .. k : ids[j] \notin DOMAIN tr[k].orders}
  <1>5. 0 \in K BY <1>4
  <1>6. ASSUME NEW k \in Nat, k \in K PROVE k + 1 \in K
    <2> DEFINE l == k + 1
    <2> SUFFICES ASSUME l <= n
                 PROVE  /\ BookOK(tr[l], owing)
                        /\ DOMAIN tr[l].orders \subseteq DOMAIN b.orders
                        /\ \A j \in 1 .. l : ids[j] \notin DOMAIN tr[l].orders
      OBVIOUS
    <2>1. l \in 1 .. n /\ l - 1 = k /\ k <= n /\ \A j \in 1 .. l : j \in 1 .. k \/ j = l
      BY <1>1
    <2> HIDE DEF l
    <2>2. tr[l] = RemoveOrder(tr[k], ids[l]) BY <1>4, <2>1
    <2>3. BookOK(tr[k], owing) BY <1>6, <2>1
    <2>4. BookOK(tr[l], owing) /\ DOMAIN tr[l].orders = DOMAIN tr[k].orders \ {ids[l]}
      BY <2>2, <2>3, RemoveOK
    <2>5. /\ DOMAIN tr[k].orders \subseteq DOMAIN b.orders
          /\ \A j \in 1 .. k : ids[j] \notin DOMAIN tr[k].orders
      BY <1>6, <2>1
    <2>6. QED BY <2>1, <2>4, <2>5
  <1> HIDE DEF K
  <1>7. n \in K BY <1>1, <1>5, <1>6, Induction
  <1>8. /\ BookOK(c, owing) /\ DOMAIN c.orders \subseteq DOMAIN b.orders
        /\ \A j \in 1 .. n : ids[j] \notin DOMAIN c.orders
    BY <1>1, <1>3, <1>7 DEF K
  <1>9. QED BY <1>1, <1>8 DEF Range, c

\* CancelAllOrders keeps the invariant: the user's orders leave the book and the
\* stops, everybody else's stay.
LEMMA CancelAllOK ==
    ASSUME NEW e, NEW owing, NEW n, EngineOK(e, owing, n), NEW user
    PROVE  LET reply == HandleCancelAll(e, user)
           IN  EngineOK(reply.engine, Count!Fold(owing, reply.events), n)
  <1> DEFINE reply == HandleCancelAll(e, user)
             b == e.book
             s == e.stops
             ids == UserOrders(b, user)
             scan == Scan(s, {o.id : o \in {p \in Range(s) : p.user = user}})
             resting == [i \in DOMAIN ids |-> b.orders[ids[i]]]
             c == FoldLeft(RemoveOrder, b, ids)
             kept == scan.kept
             taken == scan.taken
             gone == resting \o taken
             x == Put(e, c, kept)
             v == Count!Fold(owing, Ends(gone))
  <1>1. IsEngine(e) /\ BookOK(b, owing) /\ StopsOK(s, b, owing, n) BY DEF EngineOK
  <1>2. DOMAIN b.orders \subseteq OrderIds /\ owing \in [OrderIds -> Int] /\ GoodBook(b)
        /\ \A id \in DOMAIN b.orders : b.orders[id] \in Orders /\ b.orders[id].id = id
    BY <1>1, GoodOrders DEF BookOK
  <1>3. reply.engine = x /\ reply.events = Ends(gone)
    <2>1. reply = Reply([e EXCEPT !.book = CancelAllUserOrders(@, user), !.stops = kept],
                        Ends(gone))
      BY DEF HandleCancelAll, Ends
    <2>2. CancelAllUserOrders(b, user) = c BY DEF CancelAllUserOrders
    <2>3. [e EXCEPT !.book = CancelAllUserOrders(@, user), !.stops = kept] = x BY <2>2 DEF Put
    <2> HIDE DEF reply, x, gone
    <2>4. QED BY <2>1, <2>3 DEF Reply
  <1>4. /\ ids \in Seq(OrderIds) /\ \A i \in DOMAIN ids : ids[i] \in DOMAIN b.orders
    <2>1. CASE user \in DOMAIN b.users
      <3>1. ids = b.users[user] BY <2>1 DEF UserOrders, Get
      <3>2. ids \in Seq(OrderIds) BY <1>2, <2>1, <3>1 DEF GoodBook, IsBook, Maps, Lists
      <3>3. \A id \in Range(ids) : id \in DOMAIN b.orders
        BY <1>2, <2>1, <3>1 DEF GoodBook, ListAgrees
      <3>4. QED BY <3>2, <3>3 DEF Range
    <2>2. CASE user \notin DOMAIN b.users
      <3>1. ids = << >> BY <2>2 DEF UserOrders, Get
      <3>2. << >> \in Seq(OrderIds) /\ DOMAIN << >> = {} OBVIOUS
      <3>3. QED BY <3>1, <3>2
    <2>3. QED BY <2>1, <2>2
  <1>5. s \in Seq(Orders) /\ DistinctIds(s) BY <1>1 DEF StopsOK
  <1>6. /\ kept \in Seq(Orders) /\ DistinctIds(kept) /\ Range(kept) \subseteq Range(s)
        /\ taken \in Seq(Orders) /\ Range(taken) \subseteq Range(s)
        /\ \A j \in DOMAIN kept : \A l \in DOMAIN taken : kept[j].id # taken[l].id
    BY <1>5, ScanKeeps
  <1> HIDE DEF ids, scan, reply
  <1>7. /\ resting \in Seq(Orders) /\ DOMAIN resting = DOMAIN ids
        /\ \A i \in DOMAIN ids : resting[i].id = ids[i]
    <2>1. /\ DOMAIN ids = 1 .. Len(ids) /\ Len(ids) \in Nat
      BY <1>4
    <2>2. \A i \in 1 .. Len(ids) : b.orders[ids[i]] \in Orders /\ b.orders[ids[i]].id = ids[i]
      BY <1>2, <1>4, <2>1
    <2>3. resting = [i \in 1 .. Len(ids) |-> b.orders[ids[i]]] BY <2>1
    <2>4. QED BY <2>1, <2>2, <2>3
  <1>8. BookOK(c, owing) /\ DOMAIN c.orders \subseteq DOMAIN b.orders \ Range(ids)
    BY <1>1, <1>4, RemovalsOK
  <1> HIDE DEF resting, c, kept, taken
  <1>9. gone \in Seq(Orders) /\ \A j \in DOMAIN gone : \/ \E i \in DOMAIN resting : gone[j] = resting[i]
                                                      \/ \E i \in DOMAIN taken : gone[j] = taken[i]
    <2> DEFINE p == Len(resting)
               q == Len(taken)
    <2>1. /\ p \in Nat /\ q \in Nat /\ DOMAIN resting = 1 .. p /\ DOMAIN taken = 1 .. q
          /\ gone \in Seq(Orders) /\ DOMAIN gone = 1 .. p + q
          /\ \A j \in 1 .. p + q : gone[j] = IF j <= p THEN resting[j] ELSE taken[j - p]
      BY <1>6, <1>7, ConcatProperties
    <2> HIDE DEF p, q, gone
    <2>2. ASSUME NEW j \in DOMAIN gone
          PROVE  \/ \E i \in DOMAIN resting : gone[j] = resting[i]
                 \/ \E i \in DOMAIN taken : gone[j] = taken[i]
      <3>1. CASE j <= p
        <4>1. j \in DOMAIN resting /\ gone[j] = resting[j] BY <2>1, <3>1
        <4>2. QED BY <4>1
      <3>2. CASE ~(j <= p)
        <4>1. j - p \in DOMAIN taken /\ gone[j] = taken[j - p] BY <2>1, <3>2
        <4>2. QED BY <4>1
      <3>3. QED BY <3>1, <3>2
    <2>3. QED BY <2>1, <2>2
  <1> HIDE DEF gone
  <1>10. /\ v \in [OrderIds -> Int]
         /\ \A id \in OrderIds : (\A j \in DOMAIN gone : gone[j].id # id) => v[id] = owing[id]
    BY <1>2, <1>9, EndsIs
  <1> HIDE DEF v
  <1>11. IsEngine(x) /\ x.book = c /\ x.stops = kept
    BY <1>1, EngineBoth
  <1> HIDE DEF x, b, s
  \* What is gone was on the book and has left it, or was taken from the stops.
  <1>12. ASSUME NEW j \in DOMAIN gone
         PROVE  \/ gone[j].id \in DOMAIN b.orders /\ gone[j].id \notin DOMAIN c.orders
                \/ /\ gone[j].id \notin DOMAIN b.orders
                   /\ \E l \in DOMAIN taken : gone[j].id = taken[l].id
                   /\ \E i \in DOMAIN s : gone[j].id = s[i].id
    <2>1. CASE \E i \in DOMAIN resting : gone[j] = resting[i]
      <3>1. PICK i \in DOMAIN ids : gone[j].id = ids[i] BY <1>7, <2>1
      <3>2. ids[i] \in Range(ids) BY DEF Range
      <3>3. QED BY <1>4, <1>8, <3>1, <3>2
    <2>2. CASE \E i \in DOMAIN taken : gone[j] = taken[i]
      <3>1. PICK l \in DOMAIN taken : gone[j] = taken[l] BY <2>2
      <3>0. Range(taken) \subseteq Range(s) BY <1>6
      <3>2. PICK i \in DOMAIN s : taken[l] = s[i] BY <3>0, RangeIs
      <3>3. s[i].id \notin DOMAIN b.orders BY <1>1 DEF StopsOK
      <3>4. QED BY <3>1, <3>2, <3>3
    <2>3. QED BY <1>9, <2>1, <2>2
  <1>13. ASSUME NEW j \in DOMAIN kept
         PROVE  /\ \E k \in DOMAIN s : kept[j] = s[k]
                /\ kept[j].id \in OrderIds /\ kept[j].id \notin DOMAIN b.orders
                /\ v[kept[j].id] = owing[kept[j].id]
    <2>0. Range(kept) \subseteq Range(s) BY <1>6
    <2>1. PICK k \in DOMAIN s : kept[j] = s[k] BY <2>0, RangeIs
    <2>2. s[k].id \notin DOMAIN b.orders /\ s[k] \in Orders BY <1>1, <1>5 DEF StopsOK
    <2>3. kept[j].id \in OrderIds BY <2>1, <2>2, OrderHas
    <2>4. \A l \in DOMAIN gone : gone[l].id # kept[j].id BY <1>6, <1>12, <2>1, <2>2
    <2>5. QED BY <1>10, <2>1, <2>2, <2>3, <2>4
  <1>14. BookOK(c, v)
    <2>1. ASSUME NEW id \in DOMAIN c.orders PROVE v[id] = owing[id]
      <3>1. id \in DOMAIN b.orders /\ id \in OrderIds BY <1>2, <1>8
      <3>2. \A l \in DOMAIN gone : gone[l].id # id BY <1>12, <3>1
      <3>3. QED BY <1>10, <3>1, <3>2
    <2>2. QED BY <1>8, <1>10, <2>1, OwingElsewhere
  <1>15. EngineOK(x, v, n)
    <2>1. \A j \in DOMAIN x.stops :
             /\ \E k \in DOMAIN e.stops : SameStop(x.stops[j], e.stops[k])
             /\ x.stops[j].id \notin DOMAIN x.book.orders
             /\ v[x.stops[j].id] = owing[x.stops[j].id]
      BY <1>8, <1>11, <1>13 DEF SameStop, s
    <2>2. DOMAIN x.book.orders \subseteq Known(e) BY <1>8, <1>11 DEF Known, b
    <2>3. ASSUME NEW id \in OrderIds \ Known(e) PROVE v[id] = owing[id]
      <3>1. id \notin DOMAIN b.orders /\ \A i \in DOMAIN s : id # s[i].id BY DEF Known, b, s
      <3>2. \A l \in DOMAIN gone : gone[l].id # id BY <1>12, <3>1
      <3>3. QED BY <1>10, <3>2
    <2>4. x.stops \in Seq(Orders) /\ DistinctIds(x.stops) BY <1>6, <1>11
    <2>5. BookOK(x.book, v) BY <1>11, <1>14
    <2>6. QED BY <1>11, <2>1, <2>2, <2>3, <2>4, <2>5, SettledOK
  <1>16. QED BY <1>3, <1>15 DEF reply, v

-----------------------------------------------------------------------------
(* UpdateMarkPrice.                                                        *)

\* A mark price moves the peak of a trailing stop, nothing else.
LEMMA PeakedIs ==
    ASSUME NEW o \in Orders, NEW mark \in Int
    PROVE  /\ Peaked(o, mark) \in Orders
           /\ SameStop(Peaked(o, mark), o)
  <1>1. CASE o.type # "TrailingStop" \/ o.peak = None
    <2>1. Peaked(o, mark) = o BY <1>1 DEF Peaked
    <2>2. QED BY <2>1 DEF SameStop
  <1>2. CASE ~(o.type # "TrailingStop" \/ o.peak = None)
    <2> DEFINE peak == IF o.side = "sell" THEN Max({o.peak, mark}) ELSE Min({o.peak, mark})
    <2>1. o.peak \in Int BY <1>2 DEF Orders, Optional
    <2>2. peak \in Int
      <3>1. Max({o.peak, mark}) = IF o.peak >= mark THEN o.peak ELSE mark BY <2>1, MaxOfTwo
      <3>2. Min({o.peak, mark}) = IF o.peak <= mark THEN o.peak ELSE mark BY <2>1, MinOfTwo
      <3>3. QED BY <2>1, <3>1, <3>2
    <2>3. Peaked(o, mark) = [o EXCEPT !.peak = peak] BY <1>2 DEF Peaked
    <2> HIDE DEF peak
    <2>4. peak \in Optional(Int) BY <2>2 DEF Optional
    <2>5. QED BY <2>3, <2>4 DEF Orders, SameStop
  <1>3. QED BY <1>1, <1>2

\* A conditional order becomes a plain one of the same quantity.
LEMMA ConvertedIs ==
    ASSUME NEW o \in Orders
    PROVE  Converted(o) \in Orders /\ SameStop(Converted(o), o)
  <1>1. CASE IsLimit(o.type)
    <2>1. Converted(o) = [o EXCEPT !.type = "Limit"] BY <1>1 DEF Converted
    <2>2. "Limit" \in OrderTypes BY DEF OrderTypes
    <2>3. QED BY <2>1, <2>2 DEF Orders, SameStop
  <1>2. CASE ~IsLimit(o.type)
    <2> DEFINE p == SentinelPrice(o.side)
               a == [o EXCEPT !.type = "Market"]
               c == [a EXCEPT !.price = p]
    <2>1. Converted(o) = c BY <1>2 DEF Converted
    <2>2. "Market" \in OrderTypes BY DEF OrderTypes
    <2>3. p \in Nat BY PriceAssumption DEF SentinelPrice
    <2> HIDE DEF p
    <2>4. a \in Orders /\ SameStop(a, o) BY <2>2 DEF Orders, SameStop
    <2> HIDE DEF a
    <2>5. c \in Orders /\ SameStop(c, o) BY <2>3, <2>4 DEF Orders, SameStop
    <2>6. QED BY <2>1, <2>5
  <1>3. QED BY <1>1, <1>2

\* The engine after apply_mark_index_passive.
LEMMA MarkedIs ==
    ASSUME NEW e, IsEngine(e), e.stops \in Seq(Orders), DistinctIds(e.stops),
           NEW mark \in Int, NEW index \in Int
    PROVE  LET c == ApplyMark(e, mark, index)
           IN  /\ IsEngine(c) /\ c.book = e.book /\ c.mark = mark /\ c.expiry = e.expiry
               /\ c.stops \in Seq(Orders) /\ DistinctIds(c.stops)
               /\ DOMAIN c.stops = DOMAIN e.stops
               /\ \A i \in DOMAIN e.stops : SameStop(c.stops[i], e.stops[i])
  <1> DEFINE s == e.stops
             t == [i \in DOMAIN s |-> Peaked(s[i], mark)]
             a == [e EXCEPT !.mark = mark]
             b == [a EXCEPT !.index = index]
             c == ApplyMark(e, mark, index)
  <1>1. c = [b EXCEPT !.stops = t]
    <2>1. b.stops = s BY DEF IsEngine
    <2>2. c = [b EXCEPT !.stops = [i \in DOMAIN @ |-> Peaked(@[i], mark)]] BY DEF ApplyMark
    <2> HIDE DEF b
    <2>3. QED BY <2>1, <2>2
  <1>2. /\ t \in Seq(Orders) /\ DOMAIN t = DOMAIN s
        /\ \A i \in DOMAIN s : SameStop(t[i], s[i])
    <2>1. DOMAIN s = 1 .. Len(s) /\ Len(s) \in Nat /\ \A i \in 1 .. Len(s) : s[i] \in Orders
      OBVIOUS
    <2>2. \A i \in 1 .. Len(s) : t[i] \in Orders /\ SameStop(t[i], s[i])
      BY <2>1, PeakedIs
    <2>3. t = [i \in 1 .. Len(s) |-> t[i]] BY <2>1
    <2> DEFINE m == Len(s)
    <2> HIDE DEF t, m, s
    <2>4. t = [i \in 1 .. m |-> t[i]] /\ m \in Nat /\ \A i \in 1 .. m : t[i] \in Orders
      BY <2>1, <2>2, <2>3 DEF m
    <2>5. t \in Seq(Orders) /\ DOMAIN t = 1 .. m BY <2>4
    <2>6. QED BY <2>1, <2>2, <2>5 DEF m
  <1>3. IsEngine(a) /\ a.book = e.book /\ a.stops = s /\ a.mark = mark /\ a.expiry = e.expiry
    BY DEF IsEngine
  <1> HIDE DEF a
  <1>4. IsEngine(b) /\ b.book = e.book /\ b.stops = s /\ b.mark = mark /\ b.expiry = e.expiry
    BY <1>3 DEF IsEngine
  <1> HIDE DEF b, t, c
  <1>5. IsEngine(c) /\ c.book = e.book /\ c.stops = t /\ c.mark = mark /\ c.expiry = e.expiry
    BY <1>1, <1>4, EngineStops, ZenonT(30)
  <1>6. DistinctIds(t) BY <1>2 DEF DistinctIds, SameStop
  <1>7. QED BY <1>2, <1>5, <1>6 DEF c

\* The fold over the triggered orders.
Triggers == INSTANCE CollectionLaws WITH op <- RunTriggered

\* After the first k of the orders triggered: those that waited on the book f
\* or came from among these are on it, and nobody else's quantity is touched.
RunOK(run, f, owing, taken, k) ==
    LET v == Count!Fold(owing, run.events)
    IN  /\ IsSeq(run.events)
        /\ BookOK(run.book, v)
        /\ \A id \in DOMAIN run.book.orders :
              id \in DOMAIN f \/ \E j \in 1 .. k : taken[j].id = id
        /\ \A id \in OrderIds :
              id \notin DOMAIN f /\ (\A j \in 1 .. k : taken[j].id # id) => v[id] = owing[id]

\* One triggered order, matched and maybe rested, keeps what is said of the run.
LEMMA TriggerKeeps ==
    ASSUME NEW f, NEW owing, NEW taken \in Seq(Orders), DistinctIds(taken),
           NEW k \in Nat, k < Len(taken), NEW run, RunOK(run, f, owing, taken, k),
           taken[k + 1].id \notin DOMAIN f,
           owing[taken[k + 1].id] = taken[k + 1].rem + taken[k + 1].hidden
    PROVE  RunOK(RunTriggered(run, taken[k + 1]), f, owing, taken, k + 1)
  <1> DEFINE l == k + 1
             t == taken[l]
             o == Converted(t)
             b == run.book
             v == Count!Fold(owing, run.events)
             m == MatchOrder(b, o)
             new == RunTriggered(run, t)
  <1>1. /\ IsSeq(run.events) /\ BookOK(b, v)
        /\ \A id \in DOMAIN b.orders : id \in DOMAIN f \/ \E j \in 1 .. k : taken[j].id = id
        /\ \A id \in OrderIds :
              id \notin DOMAIN f /\ (\A j \in 1 .. k : taken[j].id # id) => v[id] = owing[id]
    BY DEF RunOK
  <1>2. /\ l \in DOMAIN taken /\ t \in Orders /\ 1 .. k \subseteq 1 .. l /\ l \in 1 .. l
        /\ \A j \in 1 .. k : j \in DOMAIN taken /\ j # l
    OBVIOUS
  <1>3. o \in Orders /\ o.id = t.id /\ o.rem = t.rem /\ o.hidden = t.hidden
    BY <1>2, ConvertedIs DEF SameStop
  <1>4. \A j \in 1 .. k : taken[j].id # t.id BY <1>2 DEF DistinctIds
  <1> HIDE DEF l
  <1>5. t.id \notin DOMAIN b.orders /\ t.id \in OrderIds /\ t.hidden \in Int
    BY <1>1, <1>2, <1>4, OrderHas DEF l
  <1>6. v[t.id] = t.rem + t.hidden BY <1>1, <1>4, <1>5 DEF l
  <1>7. CASE m.rejected
    <2>1. new = run BY <1>7 DEF RunTriggered
    <2> HIDE DEF new, t, v, b
    <2>2. RunOK(run, f, owing, taken, l) BY <1>1, <1>2 DEF RunOK, v, b
    <2>3. QED BY <2>1, <2>2 DEF new, l, t
  <1>8. CASE ~m.rejected
    <2> DEFINE fills == FillEvents(m)
               c == IF m.taker.rem # 0 /\ IsLimit(o.type) THEN InsertOrder(m.book, m.taker)
                    ELSE m.book
               r == Count!Fold(v, fills)
    <2> HIDE DEF o, v, t, b
    <2> DEFINE h == t.hidden
    <2>0. o \in Orders /\ BookOK(b, v) /\ h \in Int /\ ~MatchOrder(b, o).rejected
      BY <1>1, <1>3, <1>5, <1>8
    <2>1. v[o.id] = o.rem + h /\ o.id \notin DOMAIN b.orders BY <1>3, <1>5, <1>6
    <2> HIDE DEF h
    <2>2. /\ \A w \in [OrderIds -> Int] :
                w[o.id] = r[o.id] - h + o.hidden
                   /\ (\A id \in OrderIds \ {o.id} : w[id] = r[id])
                  => BookOK(c, w)
          /\ r \in [OrderIds -> Int]
          /\ DOMAIN c.orders \subseteq DOMAIN b.orders \cup {o.id}
          /\ \A id \in OrderIds \ DOMAIN b.orders : id # o.id => r[id] = v[id]
          /\ m.taker.type = o.type /\ IsSeq(fills)
      BY <2>0, <2>1, PlacedOK
    <2>3. new = [book |-> c, events |-> run.events \o fills]
      <3>1. new = [book |-> IF m.taker.rem # 0 /\ IsLimit(m.taker.type)
                            THEN InsertOrder(m.book, m.taker) ELSE m.book,
                   events |-> run.events \o fills]
        BY <1>8 DEF RunTriggered, o, b, t
      <3> HIDE DEF m, fills, new
      <3>2. QED BY <2>2, <3>1
    <2> HIDE DEF m, fills, c, new
    <2>4. new.book = c /\ new.events = run.events \o fills BY <2>3
    <2>5. Count!Fold(owing, new.events) = r
      BY <1>1, <2>2, <2>4, TallyThen DEF v
    <2>6. IsSeq(new.events) BY <1>1, <2>2, <2>4, SeqJoins
    <2> HIDE DEF r
    <2>7. BookOK(c, r)
      <3>1. r[o.id] \in Int BY <1>3, <1>5, <2>2
      <3>2. r[o.id] = r[o.id] - h + o.hidden BY <1>3, <1>5, <3>1 DEF h
      <3>3. QED BY <2>2, <3>2
    <2>8. ASSUME NEW id \in DOMAIN c.orders
          PROVE  id \in DOMAIN f \/ \E j \in 1 .. l : taken[j].id = id
      <3>1. id \in DOMAIN b.orders \/ id = t.id BY <1>3, <2>2
      <3>2. QED BY <1>1, <1>2, <3>1 DEF t
    <2>9. ASSUME NEW id \in OrderIds, id \notin DOMAIN f, \A j \in 1 .. l : taken[j].id # id
          PROVE  r[id] = owing[id]
      <3>1. id # o.id BY <1>2, <1>3, <2>9 DEF t
      <3>2. \A j \in 1 .. k : taken[j].id # id BY <1>2, <2>9
      <3>3. id \notin DOMAIN b.orders /\ v[id] = owing[id] BY <1>1, <2>9, <3>2
      <3>4. QED BY <2>2, <3>1, <3>3
    <2>10. RunOK(new, f, owing, taken, l)
      BY <2>4, <2>5, <2>6, <2>7, <2>8, <2>9 DEF RunOK
    <2>11. QED BY <2>10 DEF new, l, t
  <1>9. QED BY <1>7, <1>8

\* So do all of them, one after the other.
LEMMA TriggersOK ==
    ASSUME NEW b, NEW owing, BookOK(b, owing), NEW taken \in Seq(Orders), DistinctIds(taken),
           \A j \in DOMAIN taken : /\ taken[j].id \notin DOMAIN b.orders
                                   /\ owing[taken[j].id] = taken[j].rem + taken[j].hidden
    PROVE  RunOK(FoldLeft(RunTriggered, [book |-> b, events |-> << >>], taken),
                 b.orders, owing, taken, Len(taken))
  <1> DEFINE n == Len(taken)
             base == [book |-> b, events |-> << >>]
             run == FoldLeft(RunTriggered, base, taken)
             f == b.orders
  <1>1. n \in Nat /\ DOMAIN taken = 1 .. n OBVIOUS
  <1>2. run = Triggers!Fold(base, taken)
    BY DEF Triggers!Fold, FoldLeft, MapThenFoldSet, Max,
           Triggers!FoldLeft, Triggers!MapThenFoldSet, Triggers!Max
  <1>3. base.book = b /\ base.events = << >> OBVIOUS
  <1> HIDE DEF run, base, n
  <1>4. PICK tr : Triggers!IsTrace(tr, base, taken) /\ run = tr[n]
    BY <1>2, Triggers!FoldTrace DEF n
  <1>5. tr[0] = base /\ \A i \in 1 .. n : tr[i] = RunTriggered(tr[i - 1], taken[i])
    BY <1>4 DEF Triggers!IsTrace, n
  <1> DEFINE K == {k \in Nat : k <= n => RunOK(tr[k], f, owing, taken, k)}
  <1>6. 0 \in K
    <2>1. IsSeq(<< >>) BY ShortSeq
    <2>2. Count!Fold(owing, << >>) = owing BY Count!FoldEmpty
    <2>3. RunOK(base, f, owing, taken, 0) BY <1>3, <2>1, <2>2 DEF RunOK
    <2>4. QED BY <1>5, <2>3
  <1>7. ASSUME NEW k \in Nat, k \in K PROVE k + 1 \in K
    <2> SUFFICES ASSUME k + 1 <= n PROVE RunOK(tr[k + 1], f, owing, taken, k + 1) OBVIOUS
    <2>1. k < Len(taken) /\ k + 1 \in 1 .. n /\ (k + 1) - 1 = k /\ k <= n BY <1>1 DEF n
    <2>2. tr[k + 1] = RunTriggered(tr[k], taken[k + 1]) BY <1>5, <2>1
    <2>3. RunOK(tr[k], f, owing, taken, k) BY <1>7, <2>1
    <2>4. taken[k + 1].id \notin DOMAIN f
          /\ owing[taken[k + 1].id] = taken[k + 1].rem + taken[k + 1].hidden
      BY <1>1, <2>1
    <2>5. QED BY <2>1, <2>2, <2>3, <2>4, TriggerKeeps
  <1> HIDE DEF K
  <1>8. n \in K BY <1>1, <1>6, <1>7, Induction
  <1>9. QED BY <1>1, <1>4, <1>8 DEF K, run, base, n

\* UpdateMarkPrice keeps the invariant, and leaves no stop behind that the new
\* mark price triggers.
LEMMA UpdateMarkOK ==
    ASSUME NEW e, NEW owing, NEW n, EngineOK(e, owing, n), NEW mark \in Int, NEW index \in Int
    PROVE  LET reply == HandleUpdateMark(e, mark, index)
           IN  /\ EngineOK(reply.engine, Count!Fold(owing, reply.events), n)
               /\ reply.engine.mark = mark
               /\ \A o \in Range(reply.engine.stops) : ~ShouldTrigger(o, mark)
  <1> DEFINE reply == HandleUpdateMark(e, mark, index)
             b == e.book
             s == e.stops
             marked == ApplyMark(e, mark, index)
             t == marked.stops
             due == {o \in Range(t) : ShouldTrigger(o, mark)}
             chosen == {o.id : o \in due}
             scan == Scan(t, chosen)
             kept == scan.kept
             taken == scan.taken
             run == FoldLeft(RunTriggered, [book |-> b, events |-> << >>], taken)
             moved == [marked EXCEPT !.stops = kept]
             x == [moved EXCEPT !.book = run.book]
             mk == [kind |-> "Mark", mark |-> mark, index |-> index]
             v == Count!Fold(owing, run.events)
  <1>1. IsEngine(e) /\ BookOK(b, owing) /\ StopsOK(s, b, owing, n) BY DEF EngineOK
  <1>2. s \in Seq(Orders) /\ DistinctIds(s) BY <1>1 DEF StopsOK
  <1>3. /\ IsEngine(marked) /\ marked.book = b /\ marked.mark = mark
        /\ t \in Seq(Orders) /\ DistinctIds(t) /\ DOMAIN t = DOMAIN s
        /\ \A i \in DOMAIN s : SameStop(t[i], s[i])
    BY <1>1, <1>2, MarkedIs
  <1>4. reply.engine = x /\ reply.events = <<mk>> \o run.events
    <2>1. reply = Reply([marked EXCEPT !.stops = kept, !.book = run.book], <<mk>> \o run.events)
      BY DEF HandleUpdateMark
    <2> HIDE DEF reply, marked, kept, run, mk
    <2>2. [marked EXCEPT !.stops = kept, !.book = run.book] = x OBVIOUS
    <2> HIDE DEF x
    <2>3. QED BY <2>1, <2>2 DEF Reply
  <1> HIDE DEF reply, marked
  <1>5. /\ kept \in Seq(Orders) /\ DistinctIds(kept) /\ Range(kept) \subseteq Range(t)
        /\ taken \in Seq(Orders) /\ DistinctIds(taken) /\ Range(taken) \subseteq Range(t)
        /\ \A j \in DOMAIN kept : \A l \in DOMAIN taken : kept[j].id # taken[l].id
        /\ \A j \in DOMAIN kept : kept[j].id \notin chosen
    <2> HIDE DEF chosen, t
    <2>1. QED BY <1>3, ScanKeeps
  <1> HIDE DEF scan, kept, taken, t
  \* Every order of the marked stops is one of the engine's.
  <1>6. ASSUME NEW o, o \in Range(t)
        PROVE  \E i \in DOMAIN s : /\ SameStop(o, s[i]) /\ o.id \notin DOMAIN b.orders
                                   /\ owing[o.id] = o.rem + o.hidden
    <2>1. PICK i \in DOMAIN t : o = t[i] BY <1>6 DEF Range
    <2>2. i \in DOMAIN s /\ SameStop(o, s[i]) BY <1>3, <2>1
    <2>3. s[i].id \notin DOMAIN b.orders /\ owing[s[i].id] = s[i].rem + s[i].hidden
      BY <1>1, <2>2 DEF StopsOK
    <2>4. QED BY <2>2, <2>3 DEF SameStop
  <1>7. ASSUME NEW j \in DOMAIN taken
        PROVE  \E i \in DOMAIN s : /\ SameStop(taken[j], s[i]) /\ taken[j].id \notin DOMAIN b.orders
                                   /\ owing[taken[j].id] = taken[j].rem + taken[j].hidden
    <2>1. taken[j] \in Range(t) BY <1>5 DEF Range
    <2>2. QED BY <1>6, <2>1
  <1>8. ASSUME NEW j \in DOMAIN kept
        PROVE  /\ \E i \in DOMAIN s : SameStop(kept[j], s[i])
               /\ kept[j].id \notin DOMAIN b.orders /\ kept[j].id \in OrderIds
    <2>1. kept[j] \in Range(t) BY <1>5 DEF Range
    <2>2. kept[j] \in Orders BY <1>5
    <2>3. kept[j].id \in OrderIds BY <2>2, OrderHas
    <2>4. QED BY <1>6, <2>1, <2>3
  <1>9. RunOK(run, b.orders, owing, taken, Len(taken)) BY <1>1, <1>5, <1>7, TriggersOK
  <1> HIDE DEF run
  <1>10. /\ IsSeq(run.events) /\ BookOK(run.book, v)
         /\ \A id \in DOMAIN run.book.orders :
               id \in DOMAIN b.orders \/ \E j \in DOMAIN taken : taken[j].id = id
         /\ \A id \in OrderIds :
               id \notin DOMAIN b.orders /\ (\A j \in DOMAIN taken : taken[j].id # id)
                  => v[id] = owing[id]
    <2>1. DOMAIN taken = 1 .. Len(taken) BY <1>5
    <2>2. QED BY <1>9, <2>1 DEF RunOK
  <1>11. Count!Fold(owing, <<mk>> \o run.events) = v
    <2>1. mk.kind = "Mark" OBVIOUS
    <2> HIDE DEF mk
    <2>2. Tally(owing, mk) = owing BY <2>1, TallyIs
    <2>3. IsSeq(<<mk>>) BY ShortSeq
    <2>4. Count!Fold(owing, <<mk>>) = owing BY <2>2, TallyOne
    <2>5. Count!Fold(owing, <<mk>> \o run.events) = Count!Fold(Count!Fold(owing, <<mk>>), run.events)
      BY <1>10, <2>3, TallyThen
    <2>6. QED BY <2>4, <2>5
  <1> HIDE DEF v, mk
  <1>12. IsEngine(moved) /\ moved.stops = kept /\ moved.mark = mark
    BY <1>3, EngineStops
  <1> HIDE DEF moved
  <1>13. IsEngine(x) /\ x.book = run.book /\ x.stops = kept /\ x.mark = mark
    BY <1>12, EngineBook
  <1> HIDE DEF x, b, s
  <1>14. EngineOK(x, v, n)
    <2>1. ASSUME NEW j \in DOMAIN x.stops
          PROVE  /\ \E i \in DOMAIN e.stops : SameStop(x.stops[j], e.stops[i])
                 /\ x.stops[j].id \notin DOMAIN x.book.orders
                 /\ v[x.stops[j].id] = owing[x.stops[j].id]
      <3>1. j \in DOMAIN kept /\ x.stops[j] = kept[j] BY <1>13
      <3>2. \A l \in DOMAIN taken : taken[l].id # kept[j].id BY <1>5, <3>1
      <3>3. kept[j].id \notin DOMAIN run.book.orders BY <1>8, <1>10, <3>1, <3>2
      <3>4. v[kept[j].id] = owing[kept[j].id] BY <1>8, <1>10, <3>1, <3>2
      <3>5. QED BY <1>8, <1>13, <3>1, <3>3, <3>4 DEF s
    <2>2. ASSUME NEW id \in DOMAIN x.book.orders PROVE id \in Known(e)
      <3>1. CASE id \in DOMAIN b.orders BY <3>1 DEF Known, b
      <3>2. CASE id \notin DOMAIN b.orders
        <4>1. PICK j \in DOMAIN taken : taken[j].id = id BY <1>10, <1>13, <3>2
        <4>2. PICK i \in DOMAIN s : SameStop(taken[j], s[i]) BY <1>7
        <4>3. QED BY <4>1, <4>2 DEF Known, SameStop, s
      <3>3. QED BY <3>1, <3>2
    <2>3. ASSUME NEW id \in OrderIds \ Known(e) PROVE v[id] = owing[id]
      <3>1. id \notin DOMAIN b.orders /\ \A i \in DOMAIN s : id # s[i].id BY DEF Known, b, s
      <3>2. \A j \in DOMAIN taken : taken[j].id # id BY <1>7, <3>1 DEF SameStop
      <3>3. QED BY <1>10, <3>1, <3>2
    <2>4. x.stops \in Seq(Orders) /\ DistinctIds(x.stops) BY <1>5, <1>13
    <2>5. BookOK(x.book, v) BY <1>10, <1>13
    <2>6. DOMAIN x.book.orders \subseteq Known(e) BY <2>2
    <2>7. \A id \in OrderIds \ Known(e) : v[id] = owing[id] BY <2>3
    <2>8. \A j \in DOMAIN x.stops :
             /\ \E i \in DOMAIN e.stops : SameStop(x.stops[j], e.stops[i])
             /\ x.stops[j].id \notin DOMAIN x.book.orders
             /\ v[x.stops[j].id] = owing[x.stops[j].id]
      BY <2>1
    <2>9. QED BY <1>13, <2>4, <2>5, <2>6, <2>7, <2>8, SettledOK
  <1>15. ASSUME NEW o \in Range(x.stops) PROVE ~ShouldTrigger(o, mark)
    <2>1. PICK j \in DOMAIN kept : o = kept[j] BY <1>13 DEF Range
    <2>2. o \in Range(t) BY <1>5, <2>1 DEF Range
    <2>3. o.id \notin chosen BY <1>5, <2>1
    <2>4. QED BY <2>2, <2>3
  <1>16. QED BY <1>4, <1>11, <1>13, <1>14, <1>15 DEF reply

-----------------------------------------------------------------------------
(* The expiry of GTD orders.                                               *)

\* The fold over the due entries of the heap.
Pops == INSTANCE CollectionLaws WITH op <- PopExpired

\* An engine with another field of those the book does not depend on.
LEMMA FieldsOK ==
    ASSUME NEW e, NEW owing, NEW n, EngineOK(e, owing, n)
    PROVE  /\ EngineOK([e EXCEPT !.seq = @ + 1], owing, n)
           /\ \A premium : EngineOK([e EXCEPT !.premium = premium], owing, n)
           /\ \A gone : EngineOK([e EXCEPT !.expiry = @ \ gone], owing, n)
  <1>1. /\ IsEngine(e) /\ BookOK(e.book, owing) /\ StopsOK(e.stops, e.book, owing, n)
        /\ Fresh(e.book, owing, n)
    BY DEF EngineOK
  <1>2. ASSUME NEW x, IsEngine(x), x.book = e.book, x.stops = e.stops
        PROVE  EngineOK(x, owing, n)
    BY <1>1, <1>2 DEF EngineOK
  <1>3. EngineOK([e EXCEPT !.seq = @ + 1], owing, n)
    <2> DEFINE x == [e EXCEPT !.seq = @ + 1]
    <2>1. IsEngine(x) /\ x.book = e.book /\ x.stops = e.stops BY <1>1 DEF IsEngine
    <2>2. QED BY <1>2, <2>1
  <1>4. ASSUME NEW premium PROVE EngineOK([e EXCEPT !.premium = premium], owing, n)
    <2> DEFINE x == [e EXCEPT !.premium = premium]
    <2>1. IsEngine(x) /\ x.book = e.book /\ x.stops = e.stops BY <1>1 DEF IsEngine
    <2>2. QED BY <1>2, <2>1
  <1>5. ASSUME NEW gone PROVE EngineOK([e EXCEPT !.expiry = @ \ gone], owing, n)
    <2> DEFINE left == e.expiry \ gone
               x == [e EXCEPT !.expiry = left]
    <2>1. IsFiniteSet(left)
      <3>1. IsFiniteSet(e.expiry) BY <1>1 DEF IsEngine
      <3>2. QED BY <3>1, FS_Subset
    <2> HIDE DEF left
    <2>2. IsEngine(x) /\ x.book = e.book /\ x.stops = e.stops BY <1>1, <2>1 DEF IsEngine
    <2>3. EngineOK(x, owing, n) BY <1>2, <2>2
    <2>4. QED BY <2>3 DEF left
  <1>6. QED BY <1>3, <1>4, <1>5

\* After some entries of the heap are popped.
PopsOK(run, f, owing) ==
    LET v == Count!Fold(owing, run.events)
    IN  /\ IsSeq(run.events)
        /\ BookOK(run.book, v)
        /\ DOMAIN run.book.orders \subseteq DOMAIN f
        /\ \A id \in OrderIds \ DOMAIN f : v[id] = owing[id]

\* One entry of the heap, popped, keeps what is said of the run.
LEMMA PopKeeps ==
    ASSUME NEW f, NEW owing, NEW run, PopsOK(run, f, owing), NEW entry
    PROVE  PopsOK(PopExpired(run, entry), f, owing)
  <1> DEFINE b == run.book
             id == entry[2]
             v == Count!Fold(owing, run.events)
             new == PopExpired(run, entry)
  <1>1. /\ IsSeq(run.events) /\ BookOK(b, v) /\ DOMAIN b.orders \subseteq DOMAIN f
        /\ \A j \in OrderIds \ DOMAIN f : v[j] = owing[j]
    BY DEF PopsOK
  <1>2. CASE ~OnBook(b, id)
    <2>1. new = run BY <1>2 DEF PopExpired
    <2>2. QED BY <2>1
  <1>3. CASE OnBook(b, id)
    <2> DEFINE o == b.orders[id]
               c == RemoveOrder(b, id)
               gone == Canceled(o)
               w == [v EXCEPT ![id] = 0]
    <2>1. new = [book |-> c, events |-> Append(run.events, gone)] BY <1>3 DEF PopExpired
    <2>2. new.book = c /\ new.events = Append(run.events, gone) BY <2>1
    <2>3. id \in DOMAIN b.orders /\ id \in OrderIds /\ o.id = id
      BY <1>1, <1>3, GoodOrders DEF BookOK, OnBook
    <2>4. BookOK(c, v) /\ DOMAIN c.orders = DOMAIN b.orders \ {id} BY <1>1, RemoveOK
    <2> HIDE DEF new, c
    <2>5. BookOK(c, w) /\ \A j \in OrderIds \ {id} : w[j] = v[j] BY <2>3, <2>4, GoneOK
    <2>6. Tally(v, gone) = w BY <2>3, CanceledIs
    <2> HIDE DEF w, gone
    <2>7. Count!Fold(owing, new.events) = w BY <1>1, <2>2, <2>6, TallyMore
    <2>8. IsSeq(new.events) BY <1>1, <2>2, SeqGrows
    <2> HIDE DEF v, b, id
    <2>9. \A j \in OrderIds \ DOMAIN f : w[j] = owing[j] BY <1>1, <2>3, <2>5
    <2>10. DOMAIN c.orders \subseteq DOMAIN f BY <1>1, <2>4
    <2>11. PopsOK(new, f, owing) BY <2>2, <2>5, <2>7, <2>8, <2>9, <2>10 DEF PopsOK
    <2>12. QED BY <2>11 DEF new
  <1>4. QED BY <1>2, <1>3

\* check_expirations keeps the invariant.
LEMMA ExpirationsOK ==
    ASSUME NEW e, NEW owing, NEW n, EngineOK(e, owing, n), NEW now,
           NEW order \in HeapOrders(Due(e, now))
    PROVE  LET reply == CheckExpirations(e, order)
           IN  EngineOK(reply.engine, Count!Fold(owing, reply.events), n)
  <1> DEFINE base == [book |-> e.book, events |-> << >>]
             run == FoldLeft(PopExpired, base, order)
             m == Len(order)
             f == e.book.orders
             left == [e EXCEPT !.expiry = @ \ Range(order)]
             reply == CheckExpirations(e, order)
  <1>1. order \in Seq(Due(e, now)) /\ m \in Nat
    <2>1. IsFiniteSet(e.expiry) BY DEF EngineOK, IsEngine
    <2>2. IsFiniteSet(Due(e, now)) BY <2>1, FS_Subset DEF Due
    <2>3. order \in SetToSeqs(Due(e, now)) BY DEF HeapOrders
    <2>4. order \in Seq(Due(e, now)) BY <2>2, <2>3, SequencesOfSet
    <2>5. QED BY <2>4
  <1>2. run = Pops!Fold(base, order)
    BY DEF Pops!Fold, FoldLeft, MapThenFoldSet, Max,
           Pops!FoldLeft, Pops!MapThenFoldSet, Pops!Max
  <1>3. base.book = e.book /\ base.events = << >> OBVIOUS
  <1>4. reply.engine = [left EXCEPT !.book = run.book] /\ reply.events = run.events
    <2>1. reply = Reply([e EXCEPT !.expiry = @ \ Range(order), !.book = run.book], run.events)
      BY DEF CheckExpirations
    <2> HIDE DEF run, reply
    <2>2. [e EXCEPT !.expiry = @ \ Range(order), !.book = run.book] = [left EXCEPT !.book = run.book]
      OBVIOUS
    <2> HIDE DEF left
    <2>3. QED BY <2>1, <2>2 DEF Reply
  <1> HIDE DEF run, base, m, reply
  <1>5. PICK tr : Pops!IsTrace(tr, base, order) /\ run = tr[m] BY <1>1, <1>2, Pops!FoldTrace DEF m
  <1>6. tr[0] = base /\ \A i \in 1 .. m : tr[i] = PopExpired(tr[i - 1], order[i])
    BY <1>5 DEF Pops!IsTrace, m
  <1> DEFINE K == {k \in Nat : k <= m => PopsOK(tr[k], f, owing)}
  <1>7. 0 \in K
    <2>1. IsSeq(<< >>) BY ShortSeq
    <2>2. Count!Fold(owing, << >>) = owing BY Count!FoldEmpty
    <2>3. BookOK(e.book, owing) BY DEF EngineOK
    <2>4. PopsOK(base, f, owing) BY <1>3, <2>1, <2>2, <2>3 DEF PopsOK
    <2>5. QED BY <1>6, <2>4
  <1>8. ASSUME NEW k \in Nat, k \in K PROVE k + 1 \in K
    <2> SUFFICES ASSUME k + 1 <= m PROVE PopsOK(tr[k + 1], f, owing) OBVIOUS
    <2>1. k + 1 \in 1 .. m /\ (k + 1) - 1 = k /\ k <= m BY <1>1
    <2>2. tr[k + 1] = PopExpired(tr[k], order[k + 1]) BY <1>6, <2>1
    <2>3. PopsOK(tr[k], f, owing) BY <1>8, <2>1
    <2>4. QED BY <2>2, <2>3, PopKeeps
  <1> HIDE DEF K
  <1>9. m \in K BY <1>1, <1>7, <1>8, Induction
  <1>10. PopsOK(run, f, owing) BY <1>1, <1>5, <1>9 DEF K
  <1>11. EngineOK(left, owing, n) /\ left.book = e.book
    <2>1. left.book = e.book BY DEF EngineOK, IsEngine
    <2>2. QED BY <2>1, FieldsOK
  <1> HIDE DEF left
  <1>12. EngineOK([left EXCEPT !.book = run.book], Count!Fold(owing, run.events), n)
    BY <1>10, <1>11, BookOnlyOK DEF PopsOK
  <1>13. QED BY <1>4, <1>12 DEF reply

-----------------------------------------------------------------------------
(* The theorems.                                                           *)

\* The inductive invariant.
IInv == EngineOK(engine, owed, nextId)

\* The new engine satisfies the invariant.
LEMMA InitOK == Init => IInv
  <1> SUFFICES ASSUME Init PROVE IInv OBVIOUS
  <1> DEFINE b == EmptyBook
  <1>1. engine = NewEngine /\ nextId = 1 /\ owed = [id \in OrderIds |-> 0] BY DEF Init
  <1>2. /\ b.orders = << >> /\ b.users = << >> /\ b.levels = [s \in Sides |-> << >>]
        /\ b = [orders |-> b.orders, levels |-> b.levels, users |-> b.users]
    BY DEF EmptyBook
  <1>3. DOMAIN << >> = {} OBVIOUS
  <1>4. \A K, V : Maps(<< >>, K, V) BY <1>3 DEF Maps
  <1> HIDE DEF b
  <1>5. IsBook(b) BY <1>2, <1>4 DEF IsBook
  <1>6. GoodBook(b) BY <1>2, <1>3, <1>5 DEF GoodBook
  <1>7. BookOK(b, owed) BY <1>1, <1>2, <1>3, <1>6 DEF BookOK, Uncrossed, Owes
  <1>8. engine.book = b /\ engine.stops = << >> /\ IsEngine(engine)
    <2>1. IsFiniteSet({}) BY FS_EmptySet
    <2>2. QED BY <1>1, <2>1 DEF NewEngine, IsEngine, b
  <1>9. StopsOK(<< >>, b, owed, 1) BY <1>3 DEF StopsOK, DistinctIds
  <1>10. Fresh(b, owed, 1) BY <1>1, <1>2, <1>3 DEF Fresh
  <1>11. QED BY <1>1, <1>7, <1>8, <1>9, <1>10 DEF IInv, EngineOK

\* The engine a command finds, counted.
LEMMA CountedOK == IInv => EngineOK(Counted, owed, nextId) /\ Counted.book = engine.book
  <1> SUFFICES ASSUME IInv PROVE EngineOK(Counted, owed, nextId) /\ Counted.book = engine.book
    OBVIOUS
  <1>1. EngineOK(engine, owed, nextId) BY DEF IInv
  <1>2. EngineOK(Counted, owed, nextId) BY <1>1, FieldsOK DEF Counted
  <1>3. Counted.book = engine.book BY <1>1 DEF Counted, EngineOK, IsEngine
  <1>4. QED BY <1>2, <1>3

\* Every command, and the sweeper's call, keeps the invariant.
LEMMA NextOK == IInv /\ [Next]_vars => IInv'
  <1> SUFFICES ASSUME IInv, [Next]_vars PROVE IInv' OBVIOUS
  <1> DEFINE e == Counted
  <1>1. EngineOK(e, owed, nextId) /\ e.book = engine.book BY CountedOK
  <1>2. nextId \in Nat \ {0} BY <1>1 DEF EngineOK, Fresh
  <1> HIDE DEF e
  \* A command that is answered and tallied.
  <1>3. ASSUME NEW reply, Process(reply), Tallied, UNCHANGED nextId,
               EngineOK(reply.engine, Count!Fold(owed, reply.events), nextId)
        PROVE  IInv'
    <2>1. engine' = reply.engine /\ out' = reply.events BY <1>3 DEF Process
    <2>2. owed' = Count!Fold(owed, reply.events) BY <1>3, <2>1, TallyFolds DEF Tallied
    <2>3. QED BY <1>3, <2>1, <2>2 DEF IInv
  <1>4. ASSUME NEW r \in Requests, NewOrder(r) PROVE IInv'
    <2> DEFINE reply == HandleNewOrder(e, nextId, r)
    <2>1. nextId \in OrderIds
      <3>1. nextId <= MaxOrders BY <1>4 DEF NewOrder
      <3>2. QED BY <1>2, <3>1, EngineAssumption DEF OrderIds
    <2>2. EngineOK(reply.engine, Count!Fold(owed, reply.events), nextId + 1)
      BY <1>1, <2>1, NewOrderOK
    <2>3. Process(reply) /\ nextId' = nextId + 1 /\ Tallied BY <1>4 DEF NewOrder, e
    <2> HIDE DEF reply
    <2>4. engine' = reply.engine /\ out' = reply.events BY <2>3 DEF Process
    <2>5. owed' = Count!Fold(owed, reply.events) BY <2>3, <2>4, TallyFolds DEF Tallied
    <2>6. QED BY <2>2, <2>3, <2>4, <2>5 DEF IInv
  <1>5. ASSUME NEW id \in OrderIds, NEW user \in Users, CancelOrder(id, user) PROVE IInv'
    <2> DEFINE reply == HandleCancelOrder(e, id, user)
    <2>1. EngineOK(reply.engine, Count!Fold(owed, reply.events), nextId) BY <1>1, CancelOrderOK
    <2>2. Process(reply) /\ UNCHANGED nextId /\ Tallied BY <1>5 DEF CancelOrder, e
    <2> HIDE DEF reply
    <2>3. QED BY <1>3, <2>1, <2>2
  <1>6. ASSUME NEW id \in OrderIds, NEW user \in Users, NEW a \in Amendments,
               AmendOrder(id, user, a)
        PROVE  IInv'
    <2> DEFINE reply == HandleAmendOrder(e, id, user, a)
    <2>1. EngineOK(reply.engine, AmendedOwing(e, owed, id, user, a), nextId)
      BY <1>1, AmendOrderOK
    <2>2. Process(reply) /\ UNCHANGED nextId /\ TalliedAmendment(id, user, a)
      BY <1>6 DEF AmendOrder, e
    <2>3. engine' = reply.engine /\ out' = reply.events BY <2>2 DEF Process
    <2>4. owed' = AmendedOwing(e, owed, id, user, a)
      <3>1. FoldLeft(Tally, owed, out') = Count!Fold(owed, reply.events) BY <2>3, TallyFolds
      <3> DEFINE folded == FoldLeft(Tally, owed, out')
                 counted == Count!Fold(owed, reply.events)
      <3>2. folded = counted BY <3>1
      <3>3. AmendedOwing(e, owed, id, user, a)
              = LET o == engine.book.orders[id]
                IN  IF ~(OnBook(engine.book, id) /\ o.user = user) THEN counted
                    ELSE IF PriceChanged(o, a) \/ QtyUp(o, a)
                    THEN [counted EXCEPT ![id] = @ + o.hidden]
                    ELSE IF QtyDown(o, a) /\ a.qty > 0
                    THEN [owed EXCEPT ![id] = a.qty + o.hidden]
                    ELSE counted
        BY <1>1 DEF AmendedOwing
      <3>4. owed' \in {LET o == engine.book.orders[id]
                       IN  IF ~(OnBook(engine.book, id) /\ o.user = user) THEN folded
                           ELSE IF PriceChanged(o, a) \/ QtyUp(o, a)
                           THEN [folded EXCEPT ![id] = @ + o.hidden]
                           ELSE IF QtyDown(o, a) /\ a.qty > 0
                           THEN [owed EXCEPT ![id] = a.qty + o.hidden]
                           ELSE folded}
        BY <2>2 DEF TalliedAmendment
      <3> HIDE DEF folded, counted, reply
      <3>5. QED BY <3>2, <3>3, <3>4
    <2> HIDE DEF reply
    <2>5. QED BY <2>1, <2>2, <2>3, <2>4 DEF IInv
  <1>7. ASSUME NEW user \in Users, CancelAllOrders(user) PROVE IInv'
    <2> DEFINE reply == HandleCancelAll(e, user)
    <2>1. EngineOK(reply.engine, Count!Fold(owed, reply.events), nextId) BY <1>1, CancelAllOK
    <2>2. Process(reply) /\ UNCHANGED nextId /\ Tallied BY <1>7 DEF CancelAllOrders, e
    <2> HIDE DEF reply
    <2>3. QED BY <1>3, <2>1, <2>2
  <1>8. ASSUME NEW m \in MarkPrices, UpdateMarkPrice(m.mark, m.index) PROVE IInv'
    <2> DEFINE reply == HandleUpdateMark(e, m.mark, m.index)
    <2>1. m.mark \in Int /\ m.index \in Int BY EngineAssumption
    <2>2. EngineOK(reply.engine, Count!Fold(owed, reply.events), nextId)
      BY <1>1, <2>1, UpdateMarkOK
    <2>3. Process(reply) /\ UNCHANGED nextId /\ Tallied BY <1>8 DEF UpdateMarkPrice, e
    <2> HIDE DEF reply
    <2>4. QED BY <1>3, <2>2, <2>3
  <1>9. CASE ComputeFunding
    <2> DEFINE premium == IF e.index = 0 THEN <<0, 1>> ELSE <<e.mark - e.index, e.index>>
               event == [kind |-> "Funding", premium |-> premium]
               reply == HandleComputeFunding(e)
    <2>1. reply = Reply([e EXCEPT !.premium = premium], <<event>>) BY DEF HandleComputeFunding
    <2>2. Process(reply) /\ UNCHANGED <<nextId, owed>>
      BY <1>9 DEF ComputeFunding, Untallied, e
    <2> HIDE DEF premium, reply, event
    <2>3. engine' = [e EXCEPT !.premium = premium] BY <2>1, <2>2 DEF Process, Reply
    <2>4. QED BY <1>1, <2>2, <2>3, FieldsOK DEF IInv
  <1>10. CASE ExpireOrders
    <2>1. PICK order \in HeapOrders(Due(engine, engine.seq)) : Process(CheckExpirations(engine, order))
      BY <1>10 DEF ExpireOrders
    <2> DEFINE reply == CheckExpirations(engine, order)
               now == engine.seq
    <2>2. EngineOK(engine, owed, nextId) BY DEF IInv
    <2> HIDE DEF now
    <2>3. EngineOK(reply.engine, Count!Fold(owed, reply.events), nextId)
      BY <2>1, <2>2, ExpirationsOK DEF now
    <2>4. UNCHANGED nextId /\ Tallied BY <1>10 DEF ExpireOrders
    <2> HIDE DEF reply
    <2>5. Process(reply) BY <2>1 DEF reply
    <2>6. QED BY <1>3, <2>3, <2>4, <2>5
  <1>11. CASE UNCHANGED vars BY <1>11 DEF vars, IInv
  <1>12. QED BY <1>4, <1>5, <1>6, <1>7, <1>8, <1>9, <1>10, <1>11 DEF Next

\* What the invariant says of the state.
LEMMA WhatHolds == IInv => BookConsistent /\ BookUncrossed /\ QuantityConserved
  <1> SUFFICES ASSUME IInv PROVE BookConsistent /\ BookUncrossed /\ QuantityConserved OBVIOUS
  <1> DEFINE b == engine.book
             s == engine.stops
  <1>1. BookOK(b, owed) /\ StopsOK(s, b, owed, nextId) BY DEF IInv, EngineOK
  <1>2. GoodBook(b) /\ Uncrossed(b.orders) /\ Owes(owed, b.orders) BY <1>1 DEF BookOK
  <1>3. BookConsistent BY <1>2, GoodIsConsistent DEF BookConsistent
  <1>4. BookUncrossed BY <1>2 DEF BookUncrossed, Uncrossed, Range
  <1>5. ASSUME NEW o \in Live(engine) PROVE o.rem + o.hidden = owed[o.id]
    <2>1. CASE o \in Range(b.orders)
      <3>1. PICK id \in DOMAIN b.orders : o = b.orders[id] BY <2>1 DEF Range
      <3>2. o.id = id BY <1>2, <3>1, GoodOrders
      <3>3. QED BY <1>2, <3>1, <3>2 DEF Owes
    <2>2. CASE o \in Range(s)
      <3>1. PICK i \in DOMAIN s : o = s[i] BY <2>2 DEF Range
      <3>2. QED BY <1>1, <3>1 DEF StopsOK
    <2>3. QED BY <2>1, <2>2 DEF Live
  <1>6. QED BY <1>3, <1>4, <1>5 DEF QuantityConserved

\* The book's three copies of each fact always agree: orders, level queues with
\* their totals, and user lists (BookConsistent, orderbook.rs).
THEOREM BookAlwaysConsistent == Spec => []BookConsistent
  <1>1. Spec => []IInv BY InitOK, NextOK, PTL DEF Spec
  <1>2. IInv => BookConsistent BY WhatHolds
  <1>3. QED BY <1>1, <1>2, PTL

\* No two resting orders of which neither is an iceberg ever cross
\* (BookUncrossed): matching leaves nothing that could still trade.
THEOREM BookAlwaysUncrossed == Spec => []BookUncrossed
  <1>1. Spec => []IInv BY InitOK, NextOK, PTL DEF Spec
  <1>2. IInv => BookUncrossed BY WhatHolds
  <1>3. QED BY <1>1, <1>2, PTL

\* What an order shows and hides is always what was accepted and not yet
\* executed (QuantityConserved): no fill, refill, amendment or trigger makes or
\* loses quantity.
THEOREM QuantityAlwaysConserved == Spec => []QuantityConserved
  <1>1. Spec => []IInv BY InitOK, NextOK, PTL DEF Spec
  <1>2. IInv => QuantityConserved BY WhatHolds
  <1>3. QED BY <1>1, <1>2, PTL
=============================================================================
