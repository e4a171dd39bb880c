------------------------- MODULE MatchingStepProofs -------------------------
(***************************************************************************)
(* What a command of MatchingEngine may never do, for all requests,        *)
(* prices, users and bounds.  A mark price leaves no stop behind that it   *)
(* triggers (AllTriggered); makers are filled in price-time order          *)
(* (PriceTimePriority); orders keep their place in the queue (PlaceKept);  *)
(* new orders get what their time in force asks for (TimeInForceHonoured). *)
(*                                                                         *)
(* The proofs follow the road of MatchingProofs again, on the invariant    *)
(* proved there: what one operation of the book, one maker's turn, one     *)
(* match and one handler does to the places of the orders and tells in     *)
(* events.                                                                 *)
(***************************************************************************)
EXTENDS MatchingProofs

-----------------------------------------------------------------------------
(* The first event of every answer, and what a mark price leaves behind.   *)

\* Not what a mark price announces itself with.
Unmarked(events) == events # << >> => events[1].kind # "Mark"

\* The first event of an answer decides.
LEMMA FirstCounts ==
    ASSUME NEW x, x.kind # "Mark", NEW s, IsSeq(s)
    PROVE  Unmarked(<<x>>) /\ Unmarked(<<x>> \o s)
  <1>1. PICK S : s \in Seq(S) BY DEF IsSeq
  <1>2. (<<x>> \o s)[1] = x /\ <<x>>[1] = x
    <2> DEFINE R == S \cup {x}
    <2>1. <<x>> \in Seq(R) /\ s \in Seq(R) BY <1>1
    <2> HIDE DEF R
    <2>2. QED BY <2>1
  <1>3. QED BY <1>2 DEF Unmarked

\* The events of a match are a sequence.
LEMMA FillsInSeq ==
    ASSUME NEW b, GoodBook(b), NEW o \in Orders, o.id \notin DOMAIN b.orders,
           ~MatchOrder(b, o).rejected
    PROVE  IsSeq(FillEvents(MatchOrder(b, o)))
  <1> DEFINE m == MatchOrder(b, o)
  <1>1. m.fills \in Seq(Fills) BY MatchLeaves DEF Matched
  <1> HIDE DEF m
  <1>2. QED BY <1>1, FillEventsPay DEF IsSeq, m

\* NewOrder answers with an acceptance or a refusal.
LEMMA NewOrderUnmarked ==
    ASSUME NEW e, NEW owing, NEW n \in OrderIds, EngineOK(e, owing, n), NEW r \in Requests
    PROVE  Unmarked(HandleNewOrder(e, n, r).events)
  <1> DEFINE o == BookOrder(e, n, r)
             m == MatchOrder(e.book, o)
             acc == Accepted(o, e.seq)
             rej == Rejected(n)
             left == Refilled(m.taker)
             gone == Canceled(left)
             fills == FillEvents(m)
             events == HandleNewOrder(e, n, r).events
  <1>1. acc.kind = "Accepted" /\ rej.kind = "Rejected" BY DEF Accepted, Rejected
  <1>2. \/ events = <<rej>>
        \/ events = <<acc>>
        \/ /\ ~InvalidRequest(r) /\ ~OnBook(e.book, n) /\ ~m.rejected
           /\ events = <<acc>> \o fills \/ events = Append(<<acc>> \o fills, gone)
    <2> DEFINE reply == HandleNewOrder(e, n, r)
    <2>1. \/ reply.events = <<rej>>
          \/ reply.events = <<acc>>
          \/ /\ ~InvalidRequest(r) /\ ~OnBook(e.book, n) /\ ~m.rejected
             /\ \/ reply.events = <<acc>> \o fills
                \/ reply.events = Append(<<acc>> \o fills, gone)
      <3> DEFINE Is(s) == \E c : reply = [engine |-> c, events |-> s]
      <3>1. \/ Is(<<rej>>)
            \/ Is(<<acc>>)
            \/ /\ ~InvalidRequest(r) /\ ~OnBook(e.book, n) /\ ~m.rejected
               /\ Is(<<acc>> \o fills) \/ Is(Append(<<acc>> \o fills, gone))
        <4> DEFINE refused == InvalidRequest(r) \/ OnBook(e.book, n)
        <4>1. CASE refused
          <5>1. reply = Reply(e, <<rej>>) BY <4>1 DEF HandleNewOrder
          <5>2. QED BY <5>1 DEF Reply
        <4>2. CASE ~refused /\ Conditional(r.type)
          <5>1. reply = Reply([e EXCEPT !.stops = Append(@, o)], <<acc>>)
            BY <4>2 DEF HandleNewOrder
          <5>2. QED BY <5>1 DEF Reply
        <4>3. CASE ~refused /\ ~Conditional(r.type) /\ m.rejected
          <5>1. reply = Reply(e, <<rej>>) BY <4>3 DEF HandleNewOrder
          <5>2. QED BY <5>1 DEF Reply
        <4>4. CASE ~refused /\ ~Conditional(r.type) /\ ~m.rejected
          <5>1. \/ reply = Reply([e EXCEPT !.book = m.book], <<acc>> \o fills)
                \/ reply = Reply([e EXCEPT !.book = m.book], Append(<<acc>> \o fills, gone))
                \/ reply = Reply(Rested(e, m.book, left), <<acc>> \o fills)
            BY <4>4 DEF HandleNewOrder
          <5> HIDE DEF reply, fills, acc, gone, m, left
          <5>2. QED BY <4>4, <5>1 DEF Reply
        <4>5. QED BY <4>1, <4>2, <4>3, <4>4
      <3> HIDE DEF reply, fills, acc, gone, m, rej
      <3>2. QED BY <3>1
    <2>2. QED BY <2>1
  <1> HIDE DEF events, acc, rej, gone, fills
  <1>3. IsSeq(<< >>) BY ShortSeq
  <1>4. CASE events = <<rej>> BY <1>1, <1>3, <1>4, FirstCounts DEF events
  <1>5. CASE events = <<acc>> BY <1>1, <1>3, <1>5, FirstCounts DEF events
  <1>6. CASE /\ ~InvalidRequest(r) /\ ~OnBook(e.book, n) /\ ~m.rejected
             /\ events = <<acc>> \o fills \/ events = Append(<<acc>> \o fills, gone)
    <2>1. IsEngine(e) /\ GoodBook(e.book) BY DEF EngineOK, BookOK
    <2>2. o \in Orders /\ o.id = n BY <1>6, <2>1, BookOrderIs
    <2> HIDE DEF o
    <2>3. IsSeq(fills) BY <1>6, <2>1, <2>2, FillsInSeq DEF fills, OnBook
    <2> HIDE DEF m
    <2>4. IsSeq(<<acc>>) /\ IsSeq(<<gone>>) BY ShortSeq
    <2>5. IsSeq(Append(fills, gone)) BY <2>3, SeqGrows
    <2>6. Append(<<acc>> \o fills, gone) = <<acc>> \o Append(fills, gone)
      <3>1. PICK S : fills \in Seq(S) BY <2>3 DEF IsSeq
      <3> DEFINE R == S \cup {acc, gone}
      <3>2. <<acc>> \in Seq(R) /\ fills \in Seq(R) /\ gone \in R BY <3>1
      <3> HIDE DEF R
      <3>3. QED BY <3>2
    <2>7. Unmarked(<<acc>> \o fills) BY <1>1, <2>3, FirstCounts
    <2>8. Unmarked(<<acc>> \o Append(fills, gone)) BY <1>1, <2>5, FirstCounts
    <2>9. QED BY <1>6, <2>6, <2>7, <2>8 DEF events
  <1>7. QED BY <1>2, <1>4, <1>5, <1>6

\* CancelOrder answers with a cancelation or a refusal.
LEMMA CancelUnmarked ==
    ASSUME NEW e, NEW id, NEW user
    PROVE  Unmarked(HandleCancelOrder(e, id, user).events)
  <1> DEFINE reply == HandleCancelOrder(e, id, user)
             rej == Rejected(id)
             i == StopPosition(e, id)
  <1>1. rej.kind = "Rejected" /\ \A o : Canceled(o).kind = "Canceled" BY DEF Rejected, Canceled
  <1>2. \/ \E c : reply = Reply(c, <<rej>>)
        \/ \E c, o : reply = Reply(c, <<Canceled(o)>>)
    <2>1. CASE OnBook(e.book, id)
      <3> DEFINE o == e.book.orders[id]
      <3>1. \/ reply = Reply([e EXCEPT !.book = RemoveOrder(@, id)], <<Canceled(o)>>)
            \/ reply = Reply([e EXCEPT !.book = InsertOrder(RemoveOrder(@, id), o)], <<rej>>)
        BY <2>1 DEF HandleCancelOrder
      <3> HIDE DEF reply, rej, o
      <3>2. QED BY <3>1
    <2>2. CASE ~OnBook(e.book, id)
      <3>1. \/ reply = Reply(e, <<rej>>)
            \/ reply = Reply([e EXCEPT !.stops = RemoveAt(@, i)], <<Canceled(e.stops[i])>>)
            \/ reply = Reply([e EXCEPT !.stops = Append(RemoveAt(@, i), e.stops[i])], <<rej>>)
        BY <2>2 DEF HandleCancelOrder
      <3> HIDE DEF reply, rej, i
      <3>2. QED BY <3>1
    <2>3. QED BY <2>1, <2>2
  <1> HIDE DEF reply, rej
  <1>3. IsSeq(<< >>) BY ShortSeq
  <1>4. ASSUME NEW c, NEW x, x.kind # "Mark", reply = Reply(c, <<x>>) PROVE Unmarked(reply.events)
    <2>1. reply.events = <<x>> BY <1>4 DEF Reply
    <2>2. QED BY <1>3, <1>4, <2>1, FirstCounts
  <1>5. QED BY <1>1, <1>2, <1>4 DEF reply

\* Two events, one after the other.
LEMMA TwoJoined ==
    ASSUME NEW x, NEW y
    PROVE  <<x, y>> = <<x>> \o <<y>>
  <1> DEFINE s == <<x>> \o <<y>>
  <1>1. Len(s) = 2 /\ s[1] = x /\ s[2] = y OBVIOUS
  <1>2. s \in Seq({x, y}) OBVIOUS
  <1> HIDE DEF s
  <1>3. s = <<s[1], s[2]>> BY <1>1, <1>2
  <1>4. QED BY <1>1, <1>3 DEF s

\* So does AmendOrder, or with an acceptance.
LEMMA AmendUnmarked ==
    ASSUME NEW e, NEW owing, NEW n, EngineOK(e, owing, n), NEW id, NEW user, NEW a \in Amendments
    PROVE  Unmarked(HandleAmendOrder(e, id, user, a).events)
  <1> DEFINE b == e.book
             o == b.orders[id]
             reply == HandleAmendOrder(e, id, user, a)
             c == RemoveOrder(b, id)
             p == OrElse(a.price, o.price)
             q == OrElse(a.qty, o.rem)
             x == Repriced(o, p, q)
             m == MatchOrder(c, x)
             rej == Rejected(id)
             acc == Accepted(o, e.seq)
             gone == Canceled(o)
             again == Accepted(x, e.seq)
             fills == FillEvents(m)
  <1>1. /\ rej.kind = "Rejected" /\ acc.kind = "Accepted" /\ gone.kind = "Canceled"
    BY DEF Rejected, Canceled, Accepted
  <1>2. BookOK(b, owing) /\ GoodBook(b) BY DEF EngineOK, BookOK
  <1>3. \/ \E y : reply = Reply(y, <<rej>>)
        \/ \E y : reply = Reply(y, <<acc>>)
        \/ OnBook(b, id) /\ reply = AmendByReplacement(e, o, a)
    <2>1. CASE ~OnBook(b, id) \/ o.user # user BY <2>1 DEF HandleAmendOrder
    <2>2. CASE OnBook(b, id) /\ o.user = user
      <3>1. \/ reply = AmendByReplacement(e, o, a)
            \/ reply = Reply(e, <<acc>>)
            \/ reply = Reply(e, <<rej>>)
            \/ reply = Reply([e EXCEPT !.book = UpdateQty(@, id, a.qty)], <<acc>>)
        BY <2>2 DEF HandleAmendOrder
      <3> HIDE DEF reply, acc, rej
      <3>2. QED BY <2>2, <3>1
    <2>3. QED BY <2>1, <2>2
  <1>4. IsSeq(<< >>) BY ShortSeq
  <1>5. ASSUME NEW y, NEW z, z.kind # "Mark", reply = Reply(y, <<z>>) PROVE Unmarked(reply.events)
    <2>1. reply.events = <<z>> BY <1>5 DEF Reply
    <2>2. QED BY <1>4, <1>5, <2>1, FirstCounts
  <1>6. CASE OnBook(b, id) /\ reply = AmendByReplacement(e, o, a)
    <2>1. o \in Orders /\ o.id = id BY <1>2, <1>6, GoodOrders DEF OnBook
    <2>2. p \in Int /\ q \in Int
      <3>1. a.price \in Optional(Int) /\ a.qty \in Optional(Int) BY EngineAssumption
      <3>2. o.price \in Int /\ o.rem \in Int BY <2>1, OrderHas
      <3>3. QED BY <3>1, <3>2 DEF OrElse, Optional
    <2>3. GoodBook(c) /\ DOMAIN c.orders = DOMAIN b.orders \ {id} BY <1>2, RemoveOK DEF BookOK
    <2> HIDE DEF reply, b, o, p, q, c
    <2>4. CASE q <= 0 \/ p <= 0 \/ m.rejected
      <3>1. AmendByReplacement(e, o, a) = Reply([e EXCEPT !.book = c], <<gone, Rejected(o.id)>>)
        BY <2>1, <2>4 DEF AmendByReplacement, Repriced, b, c, p, q, o
      <3> HIDE DEF gone
      <3>2. reply.events = <<gone>> \o <<rej>>
        <4>1. <<gone, rej>> = <<gone>> \o <<rej>> BY TwoJoined
        <4>2. QED BY <1>6, <2>1, <3>1, <4>1 DEF Reply
      <3>3. IsSeq(<<rej>>) BY ShortSeq
      <3>4. QED BY <1>1, <3>2, <3>3, FirstCounts DEF reply
    <2>5. CASE ~(q <= 0 \/ p <= 0 \/ m.rejected)
      <3> DEFINE d == IF m.taker.rem # 0 /\ IsLimit(x.type) THEN InsertOrder(m.book, m.taker)
                      ELSE m.book
      <3>1. AmendByReplacement(e, o, a) = Reply([e EXCEPT !.book = d], <<gone, again>> \o fills)
        BY <2>1, <2>5 DEF AmendByReplacement, Repriced, b, c, p, q, o
      <3>2. p \in Nat /\ q \in Nat BY <2>2, <2>5
      <3>3. x \in Orders /\ x.id = id BY <2>1, <3>2, RepricedIs
      <3> HIDE DEF d, x
      <3>4. IsSeq(fills) BY <2>3, <2>5, <3>3, FillsInSeq
      <3> HIDE DEF fills, gone, again, m
      <3>5. IsSeq(<<again>> \o fills) /\ <<gone, again>> \o fills = <<gone>> \o (<<again>> \o fills)
        <4>1. PICK S : fills \in Seq(S) BY <3>4 DEF IsSeq
        <4> DEFINE R == S \cup {gone, again}
        <4>2. <<gone>> \in Seq(R) /\ fills \in Seq(R) /\ <<again>> \in Seq(R) /\ <<gone, again>> \in Seq(R)
          BY <4>1
        <4> HIDE DEF R
        <4>3. <<gone, again>> = <<gone>> \o <<again>> BY TwoJoined
        <4>4. <<again>> \o fills \in Seq(R) BY <4>2
        <4>5. (<<gone>> \o <<again>>) \o fills = <<gone>> \o (<<again>> \o fills) BY <4>2
        <4>6. QED BY <4>3, <4>4, <4>5 DEF IsSeq
      <3>6. reply.events = <<gone>> \o (<<again>> \o fills) BY <1>6, <3>1, <3>5 DEF Reply
      <3>7. QED BY <1>1, <3>5, <3>6, FirstCounts DEF reply
    <2>6. QED BY <2>4, <2>5
  <1> HIDE DEF reply, rej, acc
  <1>7. QED BY <1>1, <1>3, <1>5, <1>6 DEF reply

\* CancelAllOrders answers with cancelations.
LEMMA CancelAllUnmarked ==
    ASSUME NEW e, NEW owing, NEW n, EngineOK(e, owing, n), NEW user
    PROVE  Unmarked(HandleCancelAll(e, user).events)
  <1> DEFINE b == e.book
             s == e.stops
             ids == UserOrders(b, user)
             scan == Scan(s, {o.id : o \in {p \in Range(s) : p.user = user}})
             resting == [i \in DOMAIN ids |-> b.orders[ids[i]]]
             gone == resting \o scan.taken
             reply == HandleCancelAll(e, user)
  <1>1. GoodBook(b) /\ s \in Seq(Orders) /\ DistinctIds(s) BY DEF EngineOK, BookOK, StopsOK
  <1>2. reply.events = Ends(gone)
    <2>1. reply = Reply([e EXCEPT !.book = CancelAllUserOrders(@, user), !.stops = scan.kept],
                        Ends(gone))
      BY DEF HandleCancelAll, Ends
    <2> HIDE DEF reply, scan, gone
    <2>2. QED BY <2>1 DEF Reply
  <1>3. ids \in Seq(OrderIds)
    <2>1. CASE user \in DOMAIN b.users
      <3>1. ids = b.users[user] BY <2>1 DEF UserOrders, Get
      <3>2. QED BY <1>1, <2>1, <3>1 DEF GoodBook, IsBook, Maps, Lists
    <2>2. CASE user \notin DOMAIN b.users
      <3>1. ids = << >> BY <2>2 DEF UserOrders, Get
      <3>2. QED BY <3>1
    <2>3. QED BY <2>1, <2>2
  <1>4. scan.taken \in Seq(Orders) BY <1>1, ScanKeeps
  <1> HIDE DEF reply, ids, scan
  <1> DEFINE R == Orders \cup {b.orders[ids[i]] : i \in DOMAIN ids}
  <1>5. resting \in Seq(R)
    <2>1. DOMAIN ids = 1 .. Len(ids) /\ Len(ids) \in Nat BY <1>3
    <2>2. \A i \in 1 .. Len(ids) : b.orders[ids[i]] \in R BY <2>1
    <2>3. QED BY <2>1, <2>2
  <1>6. scan.taken \in Seq(R)
    <2>1. Orders \subseteq R OBVIOUS
    <2> HIDE DEF R
    <2>2. QED BY <1>4, <2>1
  <1> HIDE DEF R, resting
  <1>7. gone \in Seq(R) BY <1>5, <1>6
  <1> HIDE DEF gone
  <1>8. Unmarked(Ends(gone))
    <2> DEFINE l == Len(gone)
               x == Ends(gone)
    <2>1. l \in Nat /\ DOMAIN gone = 1 .. l BY <1>7
    <2>2. x = [i \in 1 .. l |-> Canceled(gone[i])] BY <2>1 DEF Ends
    <2>3. CASE l = 0
      <3>1. x = << >> BY <2>2, <2>3
      <3>2. QED BY <3>1 DEF Unmarked
    <2>4. CASE l > 0
      <3>1. x[1] = Canceled(gone[1]) BY <2>1, <2>2, <2>4
      <3>2. QED BY <3>1 DEF Unmarked, Canceled
    <2>5. QED BY <2>1, <2>3, <2>4
  <1>9. QED BY <1>2, <1>8 DEF reply

\* Popping one more entry leaves the first event a cancelation.
LEMMA PopUnmarked ==
    ASSUME NEW run, IsSeq(run.events), Unmarked(run.events), NEW entry
    PROVE  LET new == PopExpired(run, entry) IN IsSeq(new.events) /\ Unmarked(new.events)
  <1> DEFINE new == PopExpired(run, entry)
             o == run.book.orders[entry[2]]
             gone == Canceled(o)
  <1>1. CASE ~OnBook(run.book, entry[2]) BY <1>1 DEF PopExpired
  <1>2. CASE OnBook(run.book, entry[2])
    <2>1. new.events = Append(run.events, gone) BY <1>2 DEF PopExpired
    <2>2. gone.kind = "Canceled" BY DEF Canceled
    <2> HIDE DEF gone, new
    <2>3. PICK S : run.events \in Seq(S) BY DEF IsSeq
    <2>4. IsSeq(new.events) BY <2>1, SeqGrows
    <2>5. CASE run.events = << >>
      <3>1. new.events = <<gone>> BY <2>1, <2>5
      <3>2. QED BY <2>2, <2>4, <3>1 DEF Unmarked, new
    <2>6. CASE run.events # << >>
      <3> DEFINE R == S \cup {gone}
      <3>1. run.events \in Seq(R) /\ gone \in R BY <2>3
      <3> HIDE DEF R
      <3>2. Append(run.events, gone)[1] = run.events[1] BY <2>6, <3>1
      <3>3. QED BY <2>1, <2>4, <2>6, <3>2 DEF Unmarked, new
    <2>7. QED BY <2>5, <2>6
  <1>3. QED BY <1>1, <1>2

\* check_expirations answers with cancelations.
LEMMA ExpirationsUnmarked ==
    ASSUME NEW e, NEW owing, NEW n, EngineOK(e, owing, n), NEW now,
           NEW order \in HeapOrders(Due(e, now))
    PROVE  Unmarked(CheckExpirations(e, order).events)
  <1> DEFINE base == [book |-> e.book, events |-> << >>]
             run == FoldLeft(PopExpired, base, order)
             m == Len(order)
             reply == CheckExpirations(e, order)
  <1>1. order \in Seq(Due(e, now)) /\ m \in Nat
    <2>1. IsFiniteSet(e.expiry) BY DEF EngineOK, IsEngine
    <2>2. IsFiniteSet(Due(e, now)) BY <2>1, FS_Subset DEF Due
    <2>3. order \in SetToSeqs(Due(e, now)) BY DEF HeapOrders
    <2>4. order \in Seq(Due(e, now)) BY <2>2, <2>3, SequencesOfSet
    <2>5. QED BY <2>4
  <1>2. run = Pops!Fold(base, order)
    BY DEF Pops!Fold, FoldLeft, MapThenFoldSet, Max,
           Pops!FoldLeft, Pops!MapThenFoldSet, Pops!Max
  <1>3. base.events = << >> OBVIOUS
  <1>4. reply.events = run.events
    <2>1. reply = Reply([e EXCEPT !.expiry = @ \ Range(order), !.book = run.book], run.events)
      BY DEF CheckExpirations
    <2> HIDE DEF run, reply
    <2>2. QED BY <2>1 DEF Reply
  <1> HIDE DEF run, base, m, reply
  <1>5. PICK tr : Pops!IsTrace(tr, base, order) /\ run = tr[m] BY <1>1, <1>2, Pops!FoldTrace DEF m
  <1>6. tr[0] = base /\ \A i \in 1 .. m : tr[i] = PopExpired(tr[i - 1], order[i])
    BY <1>5 DEF Pops!IsTrace, m
  <1> DEFINE K == {k \in Nat : k <= m => IsSeq(tr[k].events) /\ Unmarked(tr[k].events)}
  <1>7. 0 \in K
    <2>1. IsSeq(<< >>) BY ShortSeq
    <2>2. Unmarked(<< >>) BY DEF Unmarked
    <2>3. QED BY <1>3, <1>6, <2>1, <2>2
  <1>8. ASSUME NEW k \in Nat, k \in K PROVE k + 1 \in K
    <2> SUFFICES ASSUME k + 1 <= m PROVE IsSeq(tr[k + 1].events) /\ Unmarked(tr[k + 1].events)
      OBVIOUS
    <2>1. k + 1 \in 1 .. m /\ (k + 1) - 1 = k /\ k <= m BY <1>1
    <2>2. tr[k + 1] = PopExpired(tr[k], order[k + 1]) BY <1>6, <2>1
    <2>3. IsSeq(tr[k].events) /\ Unmarked(tr[k].events) BY <1>8, <2>1
    <2>4. QED BY <2>2, <2>3, PopUnmarked
  <1> HIDE DEF K
  <1>9. m \in K BY <1>1, <1>7, <1>8, Induction
  <1>10. QED BY <1>1, <1>4, <1>5, <1>9 DEF K, reply

\* A step whose first event announces a mark price leaves no stop behind that
\* this mark price triggers.
NoneDue ==
    out' # << >> /\ out'[1].kind = "Mark"
        => \A o \in Range(engine'.stops) : ~ShouldTrigger(o, engine'.mark)

\* Only UpdateMarkPrice answers with a mark price, and it leaves no such stop.
LEMMA NextTriggers == IInv /\ [Next]_vars => NoneDue \/ UNCHANGED vars
  <1> SUFFICES ASSUME IInv, Next PROVE NoneDue OBVIOUS
  <1> DEFINE e == Counted
  <1>1. EngineOK(e, owed, nextId) BY CountedOK
  <1>2. nextId \in Nat \ {0} BY <1>1 DEF EngineOK, Fresh
  <1> HIDE DEF e
  <1>3. ASSUME NEW reply, Process(reply), Unmarked(reply.events) PROVE NoneDue
    BY <1>3 DEF Process, Unmarked, NoneDue
  <1>4. ASSUME NEW r \in Requests, NewOrder(r) PROVE NoneDue
    <2>1. nextId <= MaxOrders /\ Process(HandleNewOrder(e, nextId, r)) BY <1>4 DEF NewOrder, e
    <2>2. nextId \in OrderIds BY <1>2, <2>1, EngineAssumption DEF OrderIds
    <2>3. QED BY <1>1, <1>3, <2>1, <2>2, NewOrderUnmarked
  <1>5. ASSUME NEW id \in OrderIds, NEW user \in Users, CancelOrder(id, user) PROVE NoneDue
    <2>1. Process(HandleCancelOrder(e, id, user)) BY <1>5 DEF CancelOrder, e
    <2>2. QED BY <1>3, <2>1, CancelUnmarked
  <1>6. ASSUME NEW id \in OrderIds, NEW user \in Users, NEW a \in Amendments,
               AmendOrder(id, user, a)
        PROVE  NoneDue
    <2>1. Process(HandleAmendOrder(e, id, user, a)) BY <1>6 DEF AmendOrder, e
    <2>2. QED BY <1>1, <1>3, <2>1, AmendUnmarked
  <1>7. ASSUME NEW user \in Users, CancelAllOrders(user) PROVE NoneDue
    <2>1. Process(HandleCancelAll(e, user)) BY <1>7 DEF CancelAllOrders, e
    <2>2. QED BY <1>1, <1>3, <2>1, CancelAllUnmarked
  <1>8. ASSUME NEW m \in MarkPrices, UpdateMarkPrice(m.mark, m.index) PROVE NoneDue
    <2> DEFINE reply == HandleUpdateMark(e, m.mark, m.index)
    <2>1. m.mark \in Int /\ m.index \in Int BY EngineAssumption
    <2>2. /\ reply.engine.mark = m.mark
          /\ \A o \in Range(reply.engine.stops) : ~ShouldTrigger(o, m.mark)
      BY <1>1, <2>1, UpdateMarkOK
    <2>3. Process(reply) BY <1>8 DEF UpdateMarkPrice, e
    <2> HIDE DEF reply
    <2>4. engine' = reply.engine BY <2>3 DEF Process
    <2>5. QED BY <2>2, <2>4 DEF NoneDue
  <1>9. CASE ComputeFunding
    <2> DEFINE premium == IF e.index = 0 THEN <<0, 1>> ELSE <<e.mark - e.index, e.index>>
               event == [kind |-> "Funding", premium |-> premium]
               reply == HandleComputeFunding(e)
    <2>1. reply = Reply([e EXCEPT !.premium = premium], <<event>>) BY DEF HandleComputeFunding
    <2>2. Process(reply) BY <1>9 DEF ComputeFunding, e
    <2>3. event.kind = "Funding" OBVIOUS
    <2>4. IsSeq(<< >>) BY ShortSeq
    <2> HIDE DEF premium, reply, event
    <2>5. reply.events = <<event>> BY <2>1 DEF Reply
    <2>6. Unmarked(reply.events) BY <2>3, <2>4, <2>5, FirstCounts
    <2>7. QED BY <1>3, <2>2, <2>6
  <1>10. CASE ExpireOrders
    <2>1. PICK order \in HeapOrders(Due(engine, engine.seq)) : Process(CheckExpirations(engine, order))
      BY <1>10 DEF ExpireOrders
    <2> DEFINE now == engine.seq
    <2>2. EngineOK(engine, owed, nextId) BY DEF IInv
    <2> HIDE DEF now
    <2>3. Unmarked(CheckExpirations(engine, order).events)
      BY <2>1, <2>2, ExpirationsUnmarked DEF now
    <2>4. QED BY <1>3, <2>1, <2>3
  <1>11. QED BY <1>4, <1>5, <1>6, <1>7, <1>8, <1>9, <1>10 DEF Next

\* A mark price triggers every conditional order whose condition it meets, and
\* leaves none of them waiting (AllTriggered).
THEOREM NoStopLeftBehind == Spec => AllTriggered
  <1>1. Spec => []IInv BY InitOK, NextOK, PTL DEF Spec
  <1>2. IInv /\ [Next]_vars => [NoneDue]_vars BY NextTriggers
  <1>3. Spec => [][NoneDue]_vars BY <1>1, <1>2, PTL DEF Spec
  <1>4. QED BY <1>3 DEF AllTriggered, NoneDue

-----------------------------------------------------------------------------
(* Places in the queues.                                                   *)

\* In the terms of sequences: somebody precedes somebody in a queue.
QueuedBefore(levels, a, c) ==
    \E s \in Sides : \E p \in DOMAIN levels[s] : Before(levels[s][p].ids, a, c)

\* Ahead, in these terms.
LEMMA AheadIs ==
    ASSUME NEW b, NEW a, NEW c
    PROVE  Ahead(b, a, c) <=> /\ a \in DOMAIN b.orders /\ c \in DOMAIN b.orders
                              /\ QueuedBefore(b.levels, a, c)
  BY DEF Ahead, OnBook, Prices, Queue, QueuedBefore, Before

\* x precedes y in the queue of the side s and the price p.
InQueue(b, s, p, x, y) ==
    s \in Sides /\ p \in DOMAIN b.levels[s] /\ Before(b.levels[s][p].ids, x, y)

\* What a queue of a good book holds has its side and price, and of two orders in
\* it one only precedes the other.
LEMMA QueuedApart ==
    ASSUME NEW b, GoodBook(b), NEW s, NEW p, NEW x, NEW y, InQueue(b, s, p, x, y)
    PROVE  /\ b.orders[x].side = s /\ b.orders[x].price = p
           /\ b.orders[y].side = s /\ b.orders[y].price = p
           /\ ~InQueue(b, s, p, y, x)
  <1> DEFINE ids == b.levels[s][p].ids
  <1>1. s \in Sides /\ p \in DOMAIN b.levels[s] /\ Before(ids, x, y) BY DEF InQueue
  <1>2. LevelAgrees(b.orders, s, p, b.levels[s][p]) BY <1>1 DEF GoodBook
  <1>3. ids \in Seq(OrderIds)
    <2>1. Maps(b.levels[s], Nat, Levels) BY <1>1 DEF GoodBook, IsBook
    <2>2. b.levels[s][p] \in Levels BY <1>1, <2>1 DEF Maps
    <2>3. QED BY <2>2 DEF Levels
  <1>4. IsInjective(ids) /\ \A id \in Range(ids) : b.orders[id].side = s /\ b.orders[id].price = p
    BY <1>2 DEF LevelAgrees
  <1>5. ASSUME InQueue(b, s, p, y, x) PROVE Before(ids, y, x) BY <1>5 DEF InQueue
  <1> HIDE DEF ids
  <1>6. PICK i \in DOMAIN ids, j \in DOMAIN ids : i < j /\ ids[i] = x /\ ids[j] = y
    BY <1>1 DEF Before
  <1>7. DOMAIN ids \subseteq Int BY <1>3
  <1>8. x \in Range(ids) /\ y \in Range(ids) BY <1>6 DEF Range
  <1>9. ASSUME Before(ids, y, x) PROVE FALSE
    <2>1. PICK k \in DOMAIN ids, l \in DOMAIN ids : k < l /\ ids[k] = y /\ ids[l] = x
      BY <1>9 DEF Before
    <2>2. k = j /\ l = i BY <1>4, <1>6, <2>1 DEF IsInjective
    <2>3. QED BY <1>6, <1>7, <2>1, <2>2
  <1>10. QED BY <1>4, <1>5, <1>8, <1>9

\* In a good book who is ahead has the same side and price, and nobody is both
\* ahead and behind.
LEMMA AheadInGood ==
    ASSUME NEW b, GoodBook(b), NEW a, NEW c, Ahead(b, a, c)
    PROVE  /\ a \in DOMAIN b.orders /\ c \in DOMAIN b.orders
           /\ b.orders[a].side = b.orders[c].side /\ b.orders[a].price = b.orders[c].price
           /\ Before(b.levels[b.orders[c].side][b.orders[c].price].ids, a, c)
           /\ ~Ahead(b, c, a)
  <1> DEFINE f == b.orders
  <1>1. \A x, y : Ahead(b, x, y) => /\ x \in DOMAIN f /\ y \in DOMAIN f
                                    /\ \E s, p : InQueue(b, s, p, x, y)
    BY AheadIs DEF QueuedBefore, InQueue
  <1>2. PICK s, p : InQueue(b, s, p, a, c) BY <1>1
  <1>3. /\ f[a].side = s /\ f[a].price = p /\ f[c].side = s /\ f[c].price = p
        /\ ~InQueue(b, s, p, c, a)
    BY <1>2, QueuedApart
  <1>4. ASSUME Ahead(b, c, a) PROVE FALSE
    <2>1. PICK t, q : InQueue(b, t, q, c, a) BY <1>1, <1>4
    <2>2. f[a].side = t /\ f[a].price = q BY <2>1, QueuedApart
    <2>3. QED BY <1>3, <2>1, <2>2
  <1>5. Before(b.levels[s][p].ids, a, c) BY <1>2 DEF InQueue
  <1>6. QED BY <1>1, <1>3, <1>4, <1>5

\* Appending to a queue.
LEMMA AppendBefore ==
    ASSUME NEW S, NEW ids \in Seq(S), NEW i \in S
    PROVE  /\ \A a, c : Before(ids, a, c) => Before(Append(ids, i), a, c)
           /\ \A a \in Range(ids) : Before(Append(ids, i), a, i)
  <1>1. Append(ids, i) = ids \o <<i>> /\ <<i>> \in Seq(S) BY AppendIsConcat
  <1>2. i \in Range(<<i>>)
    <2>1. 1 \in DOMAIN <<i>> /\ <<i>>[1] = i OBVIOUS
    <2>2. QED BY <2>1 DEF Range
  <1>3. QED BY <1>1, <1>2, ConcatBefore

\* Taking another order out of a queue.
LEMMA RetainBefore ==
    ASSUME NEW S, NEW ids \in Seq(S), NEW id, NEW a, NEW c, a # id, c # id,
           Before(ids, a, c)
    PROVE  Before(Retain(ids, id), a, c)
  <1> DEFINE ss == [i \in DOMAIN ids |-> IF ids[i] = id THEN << >> ELSE <<ids[i]>>]
  <1>1. PICK i \in DOMAIN ids, j \in DOMAIN ids : i < j /\ ids[i] = a /\ ids[j] = c
    BY DEF Before
  <1>2. DOMAIN ids = 1 .. Len(ids) /\ Len(ids) \in Nat /\ \A k \in DOMAIN ids : ids[k] \in S
    OBVIOUS
  <1>3. \A k \in DOMAIN ids : ids[k] # id => ids[k] \in Range(ss[k])
    <2> SUFFICES ASSUME NEW k \in DOMAIN ids, ids[k] # id PROVE ids[k] \in Range(ss[k]) OBVIOUS
    <2>1. ss[k] = <<ids[k]>> OBVIOUS
    <2>2. 1 \in DOMAIN <<ids[k]>> /\ <<ids[k]>>[1] = ids[k] OBVIOUS
    <2> HIDE DEF ss
    <2>3. QED BY <2>1, <2>2 DEF Range
  <1>4. ss \in Seq(Seq(S)) /\ DOMAIN ss = DOMAIN ids
    <2>1. ss = [k \in 1 .. Len(ids) |-> ss[k]] BY <1>2
    <2>2. \A k \in 1 .. Len(ids) : ss[k] \in Seq(S) BY <1>2
    <2> DEFINE Z == Seq(S)
    <2>3. \A k \in 1 .. Len(ids) : ss[k] \in Z BY <2>2
    <2> HIDE DEF ss, Z
    <2>4. ss \in Seq(Z) BY <1>2, <2>1, <2>3
    <2>5. QED BY <1>2, <2>1, <2>4 DEF Z
  <1> HIDE DEF ss
  <1>5. a \in Range(ss[i]) /\ c \in Range(ss[j]) BY <1>1, <1>3
  <1>6. BeforeIn(ss, a, c) BY <1>1, <1>4, <1>5 DEF BeforeIn
  <1>7. Retain(ids, id) = FlattenSeq(ss) BY DEF Retain, ss
  <1>8. QED BY <1>4, <1>6, <1>7, FlattenBefore

\* Of the orders on both books, those ahead are still ahead.
KeepsPlaces(b, d) ==
    \A a, c : Ahead(b, a, c) /\ OnBook(d, a) /\ OnBook(d, c) => Ahead(d, a, c)

\* Placing an order puts it behind those of its level.
LEMMA InsertPlaces ==
    ASSUME NEW b, GoodBook(b), NEW o \in Orders, o.rem > 0, o.id \notin DOMAIN b.orders
    PROVE  LET d == InsertOrder(b, o)
           IN  KeepsPlaces(b, d) /\ \A a : ~Ahead(d, o.id, a)
  <1> DEFINE d == InsertOrder(b, o)
             s == o.side
             p == o.price
             i == o.id
             none == [total |-> 0, ids |-> << >>]
             level == Get(b.levels[s], p, none)
             joined == [total |-> level.total + o.rem, ids |-> Append(level.ids, i)]
             f == b.orders
  <1>1. /\ d.levels = [b.levels EXCEPT ![s] = With(@, p, joined)]
        /\ d.orders = With(f, i, o)
    BY DEF InsertOrder
  <1>2. i \in OrderIds /\ s \in Sides /\ i \notin DOMAIN f BY OrderHas
  <1>3. /\ b.levels = [t \in Sides |-> b.levels[t]]
        /\ \A t \in Sides : \A q \in DOMAIN b.levels[t] : b.levels[t][q].ids \in Seq(OrderIds)
        /\ \A t \in Sides : \A q \in DOMAIN b.levels[t] : LevelAgrees(f, t, q, b.levels[t][q])
    BY DEF GoodBook, IsBook, Maps, Levels
  <1>4. GoodBook(d) BY InsertKeeps
  <1>5. /\ p \in DOMAIN b.levels[s] => level = b.levels[s][p]
        /\ p \notin DOMAIN b.levels[s] => level = none
    BY DEF Get
  <1> HIDE DEF level
  <1>6. level.ids \in Seq(OrderIds)
    <2>1. none.ids = << >> /\ << >> \in Seq(OrderIds) OBVIOUS
    <2> HIDE DEF none
    <2>2. QED BY <1>2, <1>3, <1>5, <2>1
  <1>7. joined.ids = Append(level.ids, i) OBVIOUS
  <1> HIDE DEF d, s, p, i, joined, none, f
  <1>8. /\ d.levels[s] = With(b.levels[s], p, joined)
        /\ \A t \in Sides : t # s => d.levels[t] = b.levels[t]
    BY <1>1, <1>2, <1>3
  <1>9. /\ p \in DOMAIN d.levels[s] /\ d.levels[s][p] = joined
        /\ \A q \in DOMAIN b.levels[s] : /\ q \in DOMAIN d.levels[s]
                                         /\ q # p => d.levels[s][q] = b.levels[s][q]
    BY <1>8 DEF With
  <1>10. DOMAIN d.orders = DOMAIN f \cup {i} /\ d.orders[i] = o BY <1>1 DEF With
  <1>11. ASSUME NEW a, NEW c, Ahead(b, a, c) PROVE Ahead(d, a, c)
    <2>0. PICK t \in Sides : \E q \in DOMAIN b.levels[t] : Before(b.levels[t][q].ids, a, c)
      BY <1>11, AheadIs DEF QueuedBefore
    <2>1. PICK q \in DOMAIN b.levels[t] : Before(b.levels[t][q].ids, a, c) BY <2>0
    <2>2. a \in DOMAIN f /\ c \in DOMAIN f BY <1>11, AheadIs DEF f
    <2>3. q \in DOMAIN d.levels[t] /\ Before(d.levels[t][q].ids, a, c)
      <3>1. CASE t = s /\ q = p
        <4>1. Before(level.ids, a, c) BY <1>5, <2>1, <3>1
        <4>2. QED BY <1>2, <1>6, <1>7, <1>9, <3>1, <4>1, AppendBefore
      <3>2. CASE ~(t = s /\ q = p) BY <1>8, <1>9, <2>1, <3>2
      <3>3. QED BY <3>1, <3>2
    <2>4. QED BY <1>10, <2>2, <2>3, AheadIs DEF QueuedBefore
  <1>12. ASSUME NEW a, Ahead(d, i, a) PROVE FALSE
    <2>1. /\ a \in DOMAIN d.orders /\ d.orders[a].side = o.side /\ d.orders[a].price = o.price
          /\ Before(d.levels[o.side][o.price].ids, i, a) /\ ~Ahead(d, a, i)
      BY <1>4, <1>10, <1>12, AheadInGood
    <2>2. Before(Append(level.ids, i), i, a) BY <1>7, <1>9, <2>1 DEF s, p
    <2>3. a # i BY <2>1, <1>12
    <2>4. a \in Range(level.ids)
      <3>1. a \in Range(Append(level.ids, i)) BY <2>2 DEF Before, Range
      <3>2. QED BY <1>2, <1>6, <2>3, <3>1, AppendMembers
    <2>5. Before(joined.ids, a, i) BY <1>2, <1>6, <1>7, <2>4, AppendBefore
    <2>6. Ahead(d, a, i) BY <1>2, <1>9, <1>10, <2>1, <2>5, AheadIs DEF QueuedBefore
    <2>7. QED BY <2>1, <2>6
  <1>13. QED BY <1>11, <1>12 DEF KeepsPlaces, d, i

\* The queue of a level after an order has left the book.
LEMMA RemoveQueues ==
    ASSUME NEW b, GoodBook(b), NEW i, NEW s \in Sides, NEW p \in DOMAIN b.levels[s],
           p \in DOMAIN RemoveOrder(b, i).levels[s]
    PROVE  LET ids == b.levels[s][p].ids
           IN  RemoveOrder(b, i).levels[s][p].ids \in {ids, Retain(ids, i)}
  <1> DEFINE d == RemoveOrder(b, i)
             o == b.orders[i]
             rest == Retain(b.levels[s][p].ids, i)
             thinner == [total |-> b.levels[s][p].total - o.rem, ids |-> rest]
  <1>1. b.levels = [t \in Sides |-> b.levels[t]] /\ Maps(b.levels[s], Nat, Levels)
    BY DEF GoodBook, IsBook
  <1>2. CASE ~OnBook(b, i) BY <1>2 DEF RemoveOrder
  <1>3. CASE OnBook(b, i)
    <2>0. o.id = i /\ o.side \in Sides
      <3>1. Maps(b.orders, OrderIds, Orders) /\ i \in DOMAIN b.orders /\ Filed(b, i, o)
        BY <1>3 DEF GoodBook, IsBook, OnBook
      <3>2. QED BY <3>1, OrderHas DEF Filed, Maps
    <2>1. d.levels = [b.levels EXCEPT ![o.side] = LeaveLevel(b.levels[o.side], o)]
      <3>1. d = WithoutOrder(b, o, LeaveLevel(b.levels[o.side], o)) BY <1>3 DEF RemoveOrder
      <3> HIDE DEF d, o
      <3>2. QED BY <3>1 DEF WithoutOrder
    <2>2. CASE o.side # s
      <3>1. d.levels[s] = b.levels[s] BY <1>1, <2>1, <2>2
      <3>2. QED BY <3>1
    <2>3. CASE o.side = s
      <3>1. d.levels[s] = LeaveLevel(b.levels[s], o) BY <1>1, <2>1, <2>3
      <3>2. CASE o.price = p
        <4>1. LeaveLevel(b.levels[s], o)
                = IF rest = << >> THEN Drop(b.levels[s], p)
                  ELSE [b.levels[s] EXCEPT ![p] = thinner]
          BY <2>0, <3>2 DEF LeaveLevel
        <4> HIDE DEF d, o, thinner, rest
        <4>2. rest # << >>
          <5>1. p \notin DOMAIN Drop(b.levels[s], p) BY DEF Drop, Restrict
          <5>2. QED BY <3>1, <4>1, <5>1 DEF d
        <4>3. d.levels[s][p] = thinner BY <1>1, <3>1, <4>1, <4>2
        <4>4. QED BY <4>3 DEF d, thinner, rest
      <3>3. CASE o.price # p
        <4> DEFINE ids == Retain(b.levels[s][o.price].ids, o.id)
                   other == [total |-> b.levels[s][o.price].total - o.rem, ids |-> ids]
        <4>1. LeaveLevel(b.levels[s], o)
                = IF ids = << >> THEN Drop(b.levels[s], o.price)
                  ELSE [b.levels[s] EXCEPT ![o.price] = other]
          BY DEF LeaveLevel
        <4> HIDE DEF d, o, other, ids
        <4>2. d.levels[s][p] = b.levels[s][p]
          <5>1. p \in DOMAIN b.levels[s] \ {o.price} BY <3>3
          <5>2. Drop(b.levels[s], o.price)[p] = b.levels[s][p]
            BY <5>1 DEF Drop, Restrict
          <5>3. [b.levels[s] EXCEPT ![o.price] = other][p] = b.levels[s][p] BY <3>3
          <5>4. QED BY <3>1, <4>1, <5>2, <5>3
        <4>3. QED BY <4>2 DEF d
      <3>4. QED BY <3>2, <3>3
    <2>4. QED BY <2>2, <2>3
  <1>4. QED BY <1>2, <1>3

\* An order that leaves the book leaves the others where they are.
LEMMA RemovePlaces ==
    ASSUME NEW b, GoodBook(b), NEW i
    PROVE  KeepsPlaces(b, RemoveOrder(b, i))
  <1> DEFINE d == RemoveOrder(b, i)
             f == b.orders
  <1> SUFFICES ASSUME NEW a, NEW c, Ahead(b, a, c), OnBook(d, a), OnBook(d, c)
               PROVE  Ahead(d, a, c)
    BY DEF KeepsPlaces
  <1>1. GoodBook(d) /\ d.orders = Drop(f, i) BY RemoveKeeps
  <1> HIDE DEF d
  <1>2. a # i /\ c # i /\ d.orders[c] = f[c] /\ a \in DOMAIN d.orders /\ c \in DOMAIN d.orders
    BY <1>1 DEF OnBook, Drop, Restrict
  <1> DEFINE s == f[c].side
             p == f[c].price
             ids == b.levels[s][p].ids
  <1>3. Before(ids, a, c) /\ c \in DOMAIN f BY AheadInGood
  <1>4. /\ p \in DOMAIN b.levels[s] /\ s \in Sides /\ ids \in Seq(OrderIds)
    <2>1. Filed(b, c, f[c]) /\ Maps(f, OrderIds, Orders) BY <1>3 DEF GoodBook, IsBook
    <2>2. s \in Sides BY <1>3, <2>1, OrderHas DEF Maps
    <2>3. p \in DOMAIN b.levels[s] BY <2>1 DEF Filed
    <2>4. b.levels[s][p] \in Levels BY <2>2, <2>3 DEF GoodBook, IsBook, Maps
    <2>5. QED BY <2>2, <2>3, <2>4 DEF Levels
  <1>5. p \in DOMAIN d.levels[s]
    <2>1. Filed(d, c, f[c]) BY <1>1, <1>2 DEF GoodBook
    <2>2. QED BY <2>1 DEF Filed
  <1> HIDE DEF s, p, f
  <1>6. d.levels[s][p].ids \in {ids, Retain(ids, i)} BY <1>4, <1>5, RemoveQueues DEF d
  <1> HIDE DEF ids
  <1>7. Before(Retain(ids, i), a, c) BY <1>2, <1>3, <1>4, RetainBefore
  <1>8. QED BY <1>2, <1>3, <1>4, <1>5, <1>6, <1>7, AheadIs DEF QueuedBefore

\* An order that is reduced keeps its place, and the others theirs.
LEMMA UpdatePlaces ==
    ASSUME NEW b, GoodBook(b), NEW i, NEW n
    PROVE  KeepsPlaces(b, UpdateQty(b, i, n))
  <1> DEFINE d == UpdateQty(b, i, n)
             o == b.orders[i]
  <1>1. CASE ~OnBook(b, i) BY <1>1 DEF UpdateQty, KeepsPlaces
  <1>2. CASE OnBook(b, i)
    <2>1. /\ d.levels = [b.levels EXCEPT ![o.side][o.price].total = @ - (o.rem - n)]
          /\ d.orders = [b.orders EXCEPT ![i].rem = n]
      <3>1. b = [orders |-> b.orders, levels |-> b.levels, users |-> b.users]
        BY DEF GoodBook, IsBook
      <3>2. d = [b EXCEPT !.orders[i].rem = n, !.levels[o.side][o.price].total = @ - (o.rem - n)]
        BY <1>2 DEF UpdateQty
      <3> HIDE DEF d, o
      <3>3. QED BY <3>1, <3>2
    <2>2. DOMAIN d.orders = DOMAIN b.orders BY <2>1
    <2> HIDE DEF d, o
    <2>3. ASSUME NEW s \in Sides, NEW p \in DOMAIN b.levels[s]
          PROVE  p \in DOMAIN d.levels[s] /\ d.levels[s][p].ids = b.levels[s][p].ids
      <3>1. /\ b.levels = [t \in Sides |-> b.levels[t]] /\ Maps(b.levels[s], Nat, Levels)
            /\ b.levels[s][p] \in Levels
        BY DEF GoodBook, IsBook, Maps
      <3>2. d.levels[s] = IF o.side = s
                          THEN [b.levels[s] EXCEPT ![o.price].total = @ - (o.rem - n)]
                          ELSE b.levels[s]
        BY <2>1, <3>1
      <3>3. \A l \in Levels : \A x : [l EXCEPT !.total = x].ids = l.ids BY DEF Levels
      <3>4. d.levels[s][p] = IF o.side = s /\ o.price = p
                             THEN [b.levels[s][p] EXCEPT !.total = @ - (o.rem - n)]
                             ELSE b.levels[s][p]
        BY <3>2
      <3>5. DOMAIN d.levels[s] = DOMAIN b.levels[s] BY <3>2
      <3>6. QED BY <3>1, <3>3, <3>4, <3>5
    <2>4. \A a, c : QueuedBefore(b.levels, a, c) => QueuedBefore(d.levels, a, c)
      BY <2>3 DEF QueuedBefore
    <2>5. QED BY <2>2, <2>4, AheadIs DEF KeepsPlaces, d
  <1>3. QED BY <1>1, <1>2

\* One change after another keeps the places both keep, unless an order comes
\* back that had gone.
LEMMA PlacesThen ==
    ASSUME NEW b, NEW c, NEW d, KeepsPlaces(b, c), KeepsPlaces(c, d),
           DOMAIN b.orders \cap DOMAIN d.orders \subseteq DOMAIN c.orders
    PROVE  KeepsPlaces(b, d)
  BY AheadIs DEF KeepsPlaces, OnBook

-----------------------------------------------------------------------------
(* A match takes the makers in turn.                                       *)

\* The makers are in the order of their priority.
LEMMA MakersInTurn ==
    ASSUME NEW b, GoodBook(b), NEW taker \in Orders, NEW a, NEW c,
           HasPriority(b, a, c), c \in Range(Makers(b, taker))
    PROVE  Before(Makers(b, taker), a, c)
  <1> DEFINE s == Opposite(taker.side)
             R == Reachable(b, taker)
             prices == BestFirst(s, R)
             qs == Queues(b, taker)
             f == b.orders
  <1>1. s \in Sides BY OrderHas, OppositeIs
  <1>2. R \in SUBSET Prices(b, s) BY DEF Reachable
  <1>3. Prices(b, s) \in SUBSET Nat /\ IsFiniteSet(Prices(b, s)) BY <1>1, PricesFinite
  <1>4. R \in SUBSET Int /\ IsFiniteSet(R)
    <2>1. IsFiniteSet(R) BY <1>2, <1>3, FS_Subset
    <2>2. QED BY <1>2, <1>3, <2>1
  <1>5. qs = [i \in DOMAIN prices |-> b.levels[s][prices[i]].ids] BY DEF Queues, Queue
  <1>6. /\ a \in DOMAIN f /\ c \in DOMAIN f /\ f[a].side = f[c].side
        /\ Better(f[a].side, f[a].price, f[c].price) \/ Ahead(b, a, c)
    BY DEF HasPriority, OnBook
  <1>7. Within(taker, f[c]) BY MakersAre
  <1>8. f[c].side = s /\ f[a].side = s BY <1>6, <1>7 DEF Within
  <1>9. /\ f[a].price \in Nat /\ f[c].price \in Nat
        /\ Filed(b, a, f[a]) /\ Filed(b, c, f[c])
    <2>1. Maps(f, OrderIds, Orders) BY DEF GoodBook, IsBook
    <2>2. QED BY <1>6, <2>1, OrderHas DEF GoodBook, Maps
  <1>10. Within(taker, f[a])
    <2>1. CASE Better(s, f[a].price, f[c].price)
      <3>1. taker.side \in Sides /\ taker.price \in Nat BY OrderHas
      <3>2. QED BY <1>7, <1>8, <1>9, <2>1, <3>1 DEF Within, Crosses, Better, Opposite, Sides
    <2>2. CASE Ahead(b, a, c)
      <3>1. f[a].price = f[c].price BY <2>2, AheadInGood
      <3>2. QED BY <1>7, <1>8, <3>1 DEF Within
    <2>3. QED BY <1>6, <1>8, <2>1, <2>2
  <1>11. a \in Range(Makers(b, taker)) BY <1>6, <1>10, MakersAre
  <1> HIDE DEF s, R, prices, qs, f
  <1>12. prices \in Seq(R) /\ IsInjective(prices) /\ Range(prices) = R /\ Sorted(s, prices)
    BY <1>4, BestFirstIs DEF prices
  <1>13. \A x \in {a, c} : \E i \in DOMAIN prices :
            prices[i] = f[x].price /\ x \in Range(b.levels[s][prices[i]].ids)
    <2> SUFFICES ASSUME NEW x \in {a, c}
                 PROVE  \E i \in DOMAIN prices :
                           prices[i] = f[x].price /\ x \in Range(b.levels[s][prices[i]].ids)
      OBVIOUS
    <2>1. f[x].side = s /\ Filed(b, x, f[x]) /\ Within(taker, f[x])
      BY <1>7, <1>8, <1>9, <1>10 DEF f
    <2>2. f[x].price \in R BY <2>1 DEF R, Reachable, Filed, Prices, Within, s
    <2>3. PICK i \in DOMAIN prices : prices[i] = f[x].price BY <1>12, <2>2 DEF Range
    <2>4. QED BY <2>1, <2>3 DEF Filed
  <1>14. PICK i \in DOMAIN prices :
            prices[i] = f[a].price /\ a \in Range(b.levels[s][prices[i]].ids)
    BY <1>13
  <1>15. PICK j \in DOMAIN prices :
            prices[j] = f[c].price /\ c \in Range(b.levels[s][prices[j]].ids)
    BY <1>13
  <1>16. qs \in Seq(Seq(OrderIds)) /\ DOMAIN qs = DOMAIN prices
    <2>1. \A p \in Prices(b, s) : b.levels[s][p].ids \in Seq(OrderIds)
      <3>1. Maps(b.levels[s], Nat, Levels) BY <1>1 DEF GoodBook, IsBook
      <3>2. QED BY <3>1 DEF Prices, Maps, Levels
    <2>2. /\ DOMAIN prices = 1 .. Len(prices) /\ Len(prices) \in Nat
          /\ \A k \in DOMAIN prices : prices[k] \in R
      BY <1>12
    <2>3. qs = [k \in 1 .. Len(prices) |-> b.levels[s][prices[k]].ids] BY <1>5, <2>2
    <2>4. \A k \in 1 .. Len(prices) : b.levels[s][prices[k]].ids \in Seq(OrderIds)
      BY <1>2, <2>1, <2>2
    <2>5. QED BY <2>2, <2>3, <2>4
  <1>17. BeforeIn(qs, a, c)
    <2>1. CASE Ahead(b, a, c)
      <3>1. Before(b.levels[s][prices[j]].ids, a, c) BY <1>8, <1>15, <2>1, AheadInGood DEF f
      <3>2. QED BY <1>5, <1>15, <1>16, <3>1 DEF BeforeIn
    <2>2. CASE Better(s, f[a].price, f[c].price)
      <3>0. prices[i] \in Int /\ prices[j] \in Int BY <1>9, <1>14, <1>15 DEF f
      <3>1. ~(j < i) /\ i # j
        <4>1. ~Better(s, prices[j], prices[i]) /\ prices[i] # prices[j]
          BY <1>14, <1>15, <2>2, <3>0, BetterOrders
        <4>2. QED BY <1>12, <4>1 DEF Sorted
      <3>2. i < j
        <4>1. i \in Int /\ j \in Int BY <1>12
        <4>2. QED BY <3>1, <4>1
      <3>3. a \in Range(qs[i]) /\ c \in Range(qs[j]) BY <1>5, <1>14, <1>15
      <3>4. QED BY <1>16, <3>2, <3>3 DEF BeforeIn
    <2>3. QED BY <1>6, <1>8, <2>1, <2>2
  <1>18. Makers(b, taker) = FlattenSeq(qs) BY DEF Makers, qs
  <1>19. QED BY <1>16, <1>17, <1>18, FlattenBefore

\* Every fill's maker is met in its turn: those before it are off the book.
TurnsKept(s, m) ==
    \A x \in DOMAIN m.fills : \E j \in 1 .. Len(s) :
        /\ m.fills[x].maker = s[j]
        /\ \A i \in 1 .. Len(s) : i < j => s[i] \notin DOMAIN m.book.orders

\* One more turn.
LEMMA TurnInPlace ==
    ASSUME NEW b, NEW o, NEW s \in Seq(OrderIds), NEW f, NEW u, NEW k \in Nat, k + 1 <= Len(s),
           Maps(f, OrderIds, Orders), o \in Orders, o.id \notin DOMAIN f,
           SweepAt(f, o, s, k, u), KeepsPlaces(b, u.book), TurnsKept(s, u)
    PROVE  LET v == FillAgainst(u, s[k + 1]) IN KeepsPlaces(b, v.book) /\ TurnsKept(s, v)
  <1> DEFINE l == k + 1
             id == s[l]
             v == FillAgainst(u, id)
             g == u.book.orders
             h == v.book.orders
             left == MakerLeft(u, id)
             fill == [maker |-> id, makerUser |-> g[id].user, price |-> g[id].price,
                      qty |-> FillQty(u, id)]
  <1>1. l \in 1 .. Len(s) /\ \A i \in 1 .. Len(s) : i < l => i \in 1 .. k OBVIOUS
  <1>2. CASE u.taker.rem = 0 BY <1>2 DEF FillAgainst
  <1>3. CASE u.taker.rem # 0
    <2>1. Matched(f, o, u) /\ id \in DOMAIN g /\ g[id] = f[id]
      <3>1. l > k OBVIOUS
      <3>2. QED BY <1>1, <3>1 DEF SweepAt
    <2>2. u.taker.rem > 0 /\ GoodBook(u.book) /\ u.fills \in Seq(Fills)
      BY <1>3, <2>1 DEF Matched
    <2>3. DOMAIN h \subseteq DOMAIN g
      <3> HIDE DEF id, l
      <3>1. QED BY <1>3, <2>1, FillStep
    <2>4. /\ v.book = IF left = 0 THEN RemoveOrder(u.book, id) ELSE UpdateQty(u.book, id, left)
          /\ v.fills = Append(u.fills, fill)
      <3> HIDE DEF id, l, left
      <3>1. v = Traded(u, id, IF left = 0 THEN RemoveOrder(u.book, id)
                              ELSE UpdateQty(u.book, id, left))
        BY <1>3 DEF FillAgainst, left
      <3> HIDE DEF v
      <3>2. QED BY <3>1 DEF Traded
    <2> HIDE DEF v, left, l, id
    <2>5. KeepsPlaces(u.book, v.book) BY <2>2, <2>4, RemovePlaces, UpdatePlaces
    <2>6. KeepsPlaces(b, v.book) BY <2>3, <2>5, PlacesThen
    <2>7. TurnsKept(s, v)
      <3> DEFINE n == Len(u.fills)
      <3>1. /\ n \in Nat /\ DOMAIN u.fills = 1 .. n /\ DOMAIN v.fills = 1 .. n + 1
            /\ v.fills[n + 1] = fill /\ \A x \in 1 .. n : v.fills[x] = u.fills[x]
        BY <2>2, <2>4
      <3>2. fill.maker = id OBVIOUS
      <3> HIDE DEF fill, n
      <3> SUFFICES ASSUME NEW x \in DOMAIN v.fills
                   PROVE  \E j \in 1 .. Len(s) :
                             /\ v.fills[x].maker = s[j]
                             /\ \A i \in 1 .. Len(s) : i < j => s[i] \notin DOMAIN h
        BY DEF TurnsKept
      <3>3. CASE x \in 1 .. n
        <4>1. PICK j \in 1 .. Len(s) :
                 /\ u.fills[x].maker = s[j]
                 /\ \A i \in 1 .. Len(s) : i < j => s[i] \notin DOMAIN g
          BY <3>1, <3>3 DEF TurnsKept
        <4>2. QED BY <2>3, <3>1, <3>3, <4>1
      <3>4. CASE x = n + 1
        <4>1. v.fills[x].maker = s[l] BY <3>1, <3>2, <3>4 DEF id
        <4>2. \A i \in 1 .. Len(s) : i < l => s[i] \notin DOMAIN g
          BY <1>1, <2>2 DEF SweepAt
        <4>3. QED BY <1>1, <2>3, <4>1, <4>2
      <3>5. x \in 1 .. n \/ x = n + 1 BY <3>1
      <3>6. QED BY <3>3, <3>4, <3>5
    <2>8. QED BY <2>6, <2>7 DEF v, id, l
  <1>4. QED BY <1>2, <1>3

\* What a match owes the makers: those with priority over the maker of a fill are
\* gone, it trades only with makers within the taker's limit, and it leaves the
\* others in their places.
InTurn(b, o, m) ==
    /\ KeepsPlaces(b, m.book)
    /\ \A x \in DOMAIN m.fills :
          /\ m.fills[x].maker \in DOMAIN b.orders
          /\ Within(o, b.orders[m.fills[x].maker])
          /\ \A a : HasPriority(b, a, m.fills[x].maker) => a \notin DOMAIN m.book.orders

\* Nothing has happened.
LEMMA NothingInTurn ==
    ASSUME NEW b, NEW o, NEW m, m.book = b, m.fills = << >>
    PROVE  InTurn(b, o, m)
  BY DEF InTurn, KeepsPlaces

\* The sweep takes the makers in turn.
LEMMA SweepInTurn ==
    ASSUME NEW b, GoodBook(b), NEW o \in Orders, o.id \notin DOMAIN b.orders
    PROVE  InTurn(b, o, Swept(b, o))
  <1> DEFINE f == b.orders
             s == Makers(b, o)
             n == Len(s)
             m == Swept(b, o)
  <1>1. /\ s \in Seq(OrderIds) /\ n \in Nat /\ DOMAIN s = 1 .. n /\ IsInjective(s)
        /\ Range(s) = {id \in DOMAIN f : Within(o, f[id])}
    BY MakersAre
  <1>2. Maps(f, OrderIds, Orders) BY DEF GoodBook, IsBook
  <1>3. PICK tr : /\ IsSweep(tr, b, o, s)
                  /\ \A k \in Nat : k <= n => SweepAt(f, o, s, k, tr[k])
                  /\ m.book = tr[n].book /\ m.taker = tr[n].taker /\ m.fills = tr[n].fills
    BY SweepRuns
  <1>31. \A a, c : HasPriority(b, a, c) /\ c \in Range(s) => Before(s, a, c) BY MakersInTurn
  <1> HIDE DEF s, m, n
  <1>4. tr[0].book = b /\ tr[0].fills = << >>
        /\ \A k \in 1 .. n : tr[k] = FillAgainst(tr[k - 1], s[k])
    BY <1>3 DEF IsSweep, n
  <1> DEFINE K == {k \in Nat : k <= n => KeepsPlaces(b, tr[k].book) /\ TurnsKept(s, tr[k])}
  <1>5. 0 \in K BY <1>4 DEF KeepsPlaces, TurnsKept
  <1>6. ASSUME NEW k \in Nat, k \in K PROVE k + 1 \in K
    <2> SUFFICES ASSUME k + 1 <= n
                 PROVE  KeepsPlaces(b, tr[k + 1].book) /\ TurnsKept(s, tr[k + 1])
      OBVIOUS
    <2>1. k + 1 \in 1 .. n /\ (k + 1) - 1 = k /\ k <= n BY <1>1
    <2>2. tr[k + 1] = FillAgainst(tr[k], s[k + 1]) BY <1>4, <2>1
    <2>3. SweepAt(f, o, s, k, tr[k]) /\ KeepsPlaces(b, tr[k].book) /\ TurnsKept(s, tr[k])
      BY <1>3, <1>6, <2>1
    <2>4. QED BY <1>1, <1>2, <2>1, <2>2, <2>3, TurnInPlace DEF n
  <1> HIDE DEF K
  <1>7. n \in K BY <1>1, <1>5, <1>6, Induction
  <1>8. KeepsPlaces(b, m.book) /\ TurnsKept(s, m)
    <2>1. KeepsPlaces(b, tr[n].book) /\ TurnsKept(s, tr[n]) BY <1>1, <1>7 DEF K
    <2>2. QED BY <1>3, <2>1 DEF TurnsKept
  <1>9. ASSUME NEW x \in DOMAIN m.fills
        PROVE  /\ m.fills[x].maker \in DOMAIN f /\ Within(o, f[m.fills[x].maker])
               /\ \A a : HasPriority(b, a, m.fills[x].maker) => a \notin DOMAIN m.book.orders
    <2>1. PICK j \in 1 .. n : /\ m.fills[x].maker = s[j]
                              /\ \A i \in 1 .. n : i < j => s[i] \notin DOMAIN m.book.orders
      BY <1>8 DEF TurnsKept, n
    <2>2. s[j] \in Range(s) BY <1>1 DEF Range
    <2>3. ASSUME NEW a, HasPriority(b, a, s[j]) PROVE a \notin DOMAIN m.book.orders
      <3>1. PICK i \in DOMAIN s, l \in DOMAIN s : i < l /\ s[i] = a /\ s[l] = s[j]
        BY <1>31, <2>2, <2>3 DEF Before
      <3>2. l = j BY <1>1, <3>1 DEF IsInjective
      <3>3. QED BY <1>1, <2>1, <3>1, <3>2
    <2>4. QED BY <1>1, <2>1, <2>2, <2>3
  <1>10. QED BY <1>8, <1>9 DEF InTurn, f, m

\* So does every match.
LEMMA MatchInTurn ==
    ASSUME NEW b, GoodBook(b), NEW o \in Orders, o.id \notin DOMAIN b.orders
    PROVE  InTurn(b, o, MatchOrder(b, o))
  <1>1. \A rejected : InTurn(b, o, Unmatched(b, o, rejected))
    <2> SUFFICES ASSUME NEW rejected PROVE InTurn(b, o, Unmatched(b, o, rejected)) OBVIOUS
    <2> DEFINE m == Unmatched(b, o, rejected)
    <2>1. m.book = b /\ m.fills = << >> BY DEF Unmatched
    <2> HIDE DEF m
    <2>2. InTurn(b, o, m) BY <2>1, NothingInTurn
    <2>3. QED BY <2>2 DEF m
  <1>2. InTurn(b, o, Swept(b, o)) BY SweepInTurn
  <1>3. QED BY <1>1, <1>2 DEF MatchOrder


-----------------------------------------------------------------------------
(* What the events of a command tell of the book it leaves.                *)

\* A fill of a resting order.
MakerFill(x) == x.kind = "Filled" /\ x.maker

\* The events of a match: a maker's leg is about the maker of one of the fills.
LEMMA FillEventsAre ==
    ASSUME NEW m, m.fills \in Seq(Fills), NEW x \in Range(FillEvents(m))
    PROVE  /\ x.kind \in {"Filled", "Trade"}
           /\ MakerFill(x) => \E i \in DOMAIN m.fills : x.id = m.fills[i].maker
           /\ x.kind = "Filled" => x.qty \in Nat
           /\ x.kind = "Filled" /\ ~x.maker => x.id = m.taker.id
  <1> DEFINE n == Len(m.fills)
  <1>1. n \in Nat /\ DOMAIN m.fills = 1 .. n /\ \A i \in 1 .. n : m.fills[i] \in Fills OBVIOUS
  <1>2. PICK S : \E ss \in Seq(Seq(S)) :
              /\ FillEvents(m) = FlattenSeq(ss) /\ Len(ss) = n
              /\ \A i \in 1 .. n : ss[i] = Legs(m, m.fills[i])
    BY FillLegs
  <1>3. PICK ss \in Seq(Seq(S)) : /\ FillEvents(m) = FlattenSeq(ss) /\ Len(ss) = n
                                  /\ \A i \in 1 .. n : ss[i] = Legs(m, m.fills[i])
    BY <1>2
  <1>4. PICK i \in 1 .. n : x \in Range(ss[i])
    <2>1. x \in Held(ss) BY <1>3, FlattenMembers
    <2>2. DOMAIN ss = 1 .. n BY <1>3
    <2>3. QED BY <2>1, <2>2 DEF Held
  <1> DEFINE f == m.fills[i]
             a == MakerLeg(m, f)
             b == TakerLeg(m, f)
             c == Trade(f, m.taker)
  <1>5. x \in {a, b, c}
    <2>1. ss[i] = <<a, b, c>> BY <1>3 DEF Legs
    <2>2. Range(<<a, b, c>>) \subseteq {a, b, c}
      <3> HIDE DEF a, b, c
      <3>1. DOMAIN <<a, b, c>> = 1 .. 3 OBVIOUS
      <3>2. QED BY <3>1 DEF Range
    <2> HIDE DEF a, b, c
    <2>3. QED BY <1>4, <2>1, <2>2
  <1>6. f \in Fills /\ f.qty \in Nat /\ i \in DOMAIN m.fills BY <1>1 DEF Fills
  <1>7. CASE x = a
    <2>1. a.kind = "Filled" /\ a.maker = TRUE /\ a.id = f.maker /\ a.qty = f.qty
      BY DEF MakerLeg, Filled
    <2> HIDE DEF a, f
    <2>2. QED BY <1>6, <1>7, <2>1 DEF MakerFill, f
  <1>8. CASE x = b
    <2>1. b.kind = "Filled" /\ b.maker = FALSE /\ b.id = m.taker.id /\ b.qty = f.qty
      BY DEF TakerLeg, Filled
    <2> HIDE DEF b, f
    <2>2. QED BY <1>6, <1>8, <2>1 DEF MakerFill
  <1>9. CASE x = c
    <2>1. c.kind = "Trade" BY DEF Trade
    <2> HIDE DEF c
    <2>2. QED BY <1>9, <2>1 DEF MakerFill
  <1>10. QED BY <1>5, <1>7, <1>8, <1>9

\* The elements of a sequence put together.
LEMMA RangeOfShort ==
    ASSUME NEW x, NEW y
    PROVE  Range(<< >>) = {} /\ Range(<<x>>) = {x} /\ Range(<<x, y>>) = {x, y}
  <1>1. DOMAIN << >> = {} /\ DOMAIN <<x>> = {1} /\ DOMAIN <<x, y>> = {1, 2} OBVIOUS
  <1>2. QED BY <1>1 DEF Range

\* The events of one sequence after another.
LEMMA RangeJoins ==
    ASSUME NEW s, IsSeq(s), NEW t, IsSeq(t), NEW x
    PROVE  Range(s \o t) = Range(s) \cup Range(t) /\ Range(Append(s, x)) = Range(s) \cup {x}
  <1>1. PICK S : s \in Seq(S) /\ t \in Seq(S) /\ x \in S BY AnySeq
  <1>2. QED BY <1>1, ConcatMembers, AppendMembers

\* Every maker's fill came when the orders with priority over it had left.
FilledInTurn(b, d, events) ==
    \A x \in Range(events) :
        MakerFill(x) => \A a : HasPriority(b, a, x.id) => a \notin DOMAIN d.orders

\* Who loses its place is named.
Named(b, d, events) ==
    \A a, c : Ahead(b, a, c) /\ Ahead(d, c, a)
                => \E x \in Range(events) : x.kind \in {"Canceled", "Rejected"} /\ x.id = a

\* What a command that finds the book b, leaves d and answers with these events
\* owes to the orders that rest.
Orderly(b, d, events) == FilledInTurn(b, d, events) /\ Named(b, d, events)

\* Who keeps all places need not name anybody.
LEMMA KeptIsNamed ==
    ASSUME NEW b, NEW d, GoodBook(d), KeepsPlaces(b, d), NEW events
    PROVE  Named(b, d, events)
  BY AheadInGood DEF KeepsPlaces, Named, OnBook

\* Without fills, keeping the places is enough.
LEMMA QuietIsOrderly ==
    ASSUME NEW b, NEW d, GoodBook(d), KeepsPlaces(b, d),
           NEW events, \A x \in Range(events) : x.kind # "Filled"
    PROVE  Orderly(b, d, events)
  BY KeptIsNamed DEF Orderly, FilledInTurn, MakerFill

\* A book that stays as it is.
LEMMA StillIsOrderly ==
    ASSUME NEW b, GoodBook(b), NEW events, \A x \in Range(events) : x.kind # "Filled"
    PROVE  Orderly(b, b, events)
  BY QuietIsOrderly DEF KeepsPlaces

\* What is left of an order that was matched may rest, or not.
Settles(m, d) ==
    d = m.book \/ \E left \in Orders : /\ left.id = m.taker.id /\ left.rem > 0
                                       /\ d = InsertOrder(m.book, left)

\* A match, and what is left of it, keep the places; the fills come in turn.
LEMMA MatchIsOrderly ==
    ASSUME NEW b, GoodBook(b), NEW o \in Orders, o.id \notin DOMAIN b.orders,
           ~MatchOrder(b, o).rejected, NEW d, Settles(MatchOrder(b, o), d)
    PROVE  LET m == MatchOrder(b, o)
           IN  /\ GoodBook(d) /\ KeepsPlaces(b, d) /\ FilledInTurn(b, d, FillEvents(m))
               /\ \A x \in Range(FillEvents(m)) : x.kind \in {"Filled", "Trade"}
               /\ IsSeq(FillEvents(m))
               /\ DOMAIN d.orders \subseteq DOMAIN b.orders \cup {o.id}
               /\ \A id \in DOMAIN b.orders \cap DOMAIN d.orders :
                     /\ d.orders[id].side = b.orders[id].side
                     /\ d.orders[id].price = b.orders[id].price
               /\ \A x \in Range(FillEvents(m)) : MakerFill(x) =>
                     x.id \in DOMAIN b.orders /\ b.orders[x.id].side = Opposite(o.side)
               /\ \A a : ~Ahead(d, o.id, a)
  <1> DEFINE m == MatchOrder(b, o)
             f == b.orders
             g == m.book.orders
             h == d.orders
  <1>1. Matched(f, o, m) BY MatchLeaves
  <1>2. InTurn(b, o, m) BY MatchInTurn
  <1>3. Settles(m, d) OBVIOUS
  <1>4. IsSeq(FillEvents(m)) BY FillsInSeq
  <1> HIDE DEF m
  <1>5. /\ GoodBook(m.book) /\ DOMAIN g \subseteq DOMAIN f /\ Reduces(f, g)
        /\ m.fills \in Seq(Fills) /\ m.taker.id = o.id
    <2>1. m.taker.id = o.id
      <3> DEFINE t == m.taker.rem
      <3>1. t \in Nat /\ m.taker = Left(o, t) BY <1>1 DEF Matched
      <3> HIDE DEF t
      <3>2. Left(o, t).id = o.id BY <3>1, LeftIs
      <3>3. QED BY <3>1, <3>2
    <2>2. QED BY <1>1, <2>1 DEF Matched, Reduces
  <1>6. \A id \in DOMAIN g : g[id].side = f[id].side /\ g[id].price = f[id].price
    <2>1. Maps(f, OrderIds, Orders) /\ Maps(g, OrderIds, Orders) BY <1>5 DEF GoodBook, IsBook
    <2>2. QED BY <1>5, <2>1, ReducedIs
  <1>7. /\ GoodBook(d) /\ KeepsPlaces(b, d) /\ DOMAIN h \subseteq DOMAIN g \cup {o.id}
        /\ \A id \in DOMAIN g : id \in DOMAIN h /\ h[id] = g[id]
        /\ \A a : ~Ahead(d, o.id, a)
    <2>1. CASE d = m.book BY <1>2, <1>5, <2>1 DEF InTurn, Ahead, OnBook
    <2>2. CASE d # m.book
      <3>1. PICK left \in Orders : /\ left.id = m.taker.id /\ left.rem > 0
                                   /\ d = InsertOrder(m.book, left)
        BY <1>3, <2>2 DEF Settles
      <3>2. left.id = o.id /\ left.id \notin DOMAIN g BY <1>5, <3>1
      <3>3. GoodBook(d) /\ h = With(g, o.id, left) BY <1>5, <3>1, <3>2, InsertKeeps
      <3>4. KeepsPlaces(m.book, d) /\ \A a : ~Ahead(d, o.id, a)
        BY <1>5, <3>1, <3>2, InsertPlaces
      <3>5. /\ DOMAIN h = DOMAIN g \cup {o.id} /\ \A id \in DOMAIN g : h[id] = g[id]
        BY <3>2, <3>3 DEF With
      <3>6. DOMAIN f \cap DOMAIN h \subseteq DOMAIN g BY <3>5
      <3> HIDE DEF f, g, h
      <3>7. KeepsPlaces(b, d) BY <1>2, <3>4, <3>6, PlacesThen DEF InTurn, f, g, h
      <3>8. QED BY <3>3, <3>4, <3>5, <3>7
    <2>3. QED BY <2>1, <2>2
  <1>8. ASSUME NEW x \in Range(FillEvents(m)), MakerFill(x)
        PROVE  /\ x.id \in DOMAIN f /\ f[x.id].side = Opposite(o.side)
               /\ \A a : HasPriority(b, a, x.id) => a \notin DOMAIN h
    <2>1. PICK i \in DOMAIN m.fills : x.id = m.fills[i].maker BY <1>5, <1>8, FillEventsAre
    <2>2. /\ x.id \in DOMAIN f /\ Within(o, f[x.id])
          /\ \A a : HasPriority(b, a, x.id) => a \notin DOMAIN g
      BY <1>2, <2>1 DEF InTurn
    <2>3. \A a : HasPriority(b, a, x.id) => a \in DOMAIN f BY DEF HasPriority, OnBook
    <2>4. QED BY <1>7, <2>2, <2>3 DEF Within
  <1>9. \A x \in Range(FillEvents(m)) : x.kind \in {"Filled", "Trade"} BY <1>5, FillEventsAre
  <1>10. QED BY <1>4, <1>5, <1>6, <1>7, <1>8, <1>9 DEF FilledInTurn, m, f, h


-----------------------------------------------------------------------------
(* Every command is orderly.                                               *)

\* What NewOrder may answer, and the book it leaves.
LEMMA NewOrderReplies ==
    ASSUME NEW e, NEW owing, NEW n \in OrderIds, EngineOK(e, owing, n), NEW r \in Requests
    PROVE  LET o == BookOrder(e, n, r)
               m == MatchOrder(e.book, o)
               left == Refilled(m.taker)
               d == HandleNewOrder(e, n, r).engine.book
               events == HandleNewOrder(e, n, r).events
               full == <<Accepted(o, e.seq)>> \o FillEvents(m)
           IN  \/ d = e.book /\ events = <<Rejected(n)>>
               \/ d = e.book /\ events = <<Accepted(o, e.seq)>> /\ Conditional(r.type)
               \/ /\ ~InvalidRequest(r) /\ ~OnBook(e.book, n) /\ ~m.rejected
                  /\ \/ d = m.book /\ left.rem = 0 /\ events = full
                     \/ d = m.book /\ NeverRests(o) /\ events = Append(full, Canceled(left))
                     \/ /\ d = InsertOrder(m.book, left) /\ left.rem # 0 /\ ~NeverRests(o)
                        /\ events = full
  <1> DEFINE o == BookOrder(e, n, r)
             m == MatchOrder(e.book, o)
             left == Refilled(m.taker)
             reply == HandleNewOrder(e, n, r)
             acc == Accepted(o, e.seq)
             full == <<acc>> \o FillEvents(m)
             gone == Canceled(left)
             rej == Rejected(n)
             refused == InvalidRequest(r) \/ OnBook(e.book, n)
  <1>1. IsEngine(e) BY DEF EngineOK
  <1>2. \A c : [e EXCEPT !.book = c].book = c BY <1>1 DEF IsEngine
  <1>3. \A c : [e EXCEPT !.stops = c].book = e.book BY <1>1 DEF IsEngine
  <1>4. Rested(e, m.book, left).book = InsertOrder(m.book, left) BY <1>1 DEF Rested, IsEngine
  <1>5. CASE refused
    <2>1. reply = Reply(e, <<rej>>) BY <1>5 DEF HandleNewOrder
    <2>2. QED BY <2>1 DEF Reply
  <1>6. CASE ~refused /\ Conditional(r.type)
    <2>1. reply = Reply([e EXCEPT !.stops = Append(@, o)], <<acc>>)
      BY <1>6 DEF HandleNewOrder
    <2> HIDE DEF reply, acc, o
    <2>2. reply.engine.book = e.book /\ reply.events = <<acc>> BY <1>3, <2>1 DEF Reply
    <2>3. QED BY <1>6, <2>2 DEF reply, acc, o
  <1>7. CASE ~refused /\ ~Conditional(r.type) /\ m.rejected
    <2>1. reply = Reply(e, <<rej>>) BY <1>7 DEF HandleNewOrder
    <2>2. QED BY <2>1 DEF Reply
  <1>8. CASE ~refused /\ ~Conditional(r.type) /\ ~m.rejected
    <2>1. \/ left.rem = 0 /\ reply = Reply([e EXCEPT !.book = m.book], full)
          \/ NeverRests(o) /\ reply = Reply([e EXCEPT !.book = m.book], Append(full, gone))
          \/ /\ left.rem # 0 /\ ~NeverRests(o)
             /\ reply = Reply(Rested(e, m.book, left), full)
      BY <1>8 DEF HandleNewOrder
    <2> HIDE DEF reply, acc, full, gone, left, m, o
    <2>2. \/ left.rem = 0 /\ reply.engine.book = m.book /\ reply.events = full
          \/ NeverRests(o) /\ reply.engine.book = m.book /\ reply.events = Append(full, gone)
          \/ /\ left.rem # 0 /\ ~NeverRests(o)
             /\ reply.engine.book = InsertOrder(m.book, left) /\ reply.events = full
      <3>1. [e EXCEPT !.book = m.book].book = m.book BY <1>2
      <3>2. CASE left.rem = 0 /\ reply = Reply([e EXCEPT !.book = m.book], full)
        BY <3>1, <3>2 DEF Reply
      <3>3. CASE NeverRests(o) /\ reply = Reply([e EXCEPT !.book = m.book], Append(full, gone))
        BY <3>1, <3>3 DEF Reply
      <3>4. CASE /\ left.rem # 0 /\ ~NeverRests(o)
                 /\ reply = Reply(Rested(e, m.book, left), full)
        BY <1>4, <3>4 DEF Reply
      <3>5. QED BY <2>1, <3>2, <3>3, <3>4
    <2>3. QED BY <1>8, <2>2 DEF reply, acc, full, gone, left, m, o
  <1>9. QED BY <1>5, <1>6, <1>7, <1>8

\* The kinds of the events that are not about executions.
LEMMA KindsAre ==
    ASSUME NEW o, NEW id, NEW ts
    PROVE  /\ Accepted(o, ts).kind = "Accepted"
           /\ Rejected(id).kind = "Rejected" /\ Rejected(id).id = id
           /\ Canceled(o).kind = "Canceled" /\ Canceled(o).id = o.id
  BY DEF Accepted, Rejected, Canceled

\* NewOrder is orderly.
LEMMA NewOrderOrderly ==
    ASSUME NEW e, NEW owing, NEW n \in OrderIds, EngineOK(e, owing, n), NEW r \in Requests
    PROVE  LET reply == HandleNewOrder(e, n, r)
           IN  Orderly(e.book, reply.engine.book, reply.events)
  <1> DEFINE b == e.book
             o == BookOrder(e, n, r)
             m == MatchOrder(b, o)
             left == Refilled(m.taker)
             d == HandleNewOrder(e, n, r).engine.book
             events == HandleNewOrder(e, n, r).events
             acc == Accepted(o, e.seq)
             gone == Canceled(left)
             fills == FillEvents(m)
             full == <<acc>> \o fills
  <1>1. IsEngine(e) /\ GoodBook(b) BY DEF EngineOK, BookOK
  <1>2. \/ d = b /\ events = <<Rejected(n)>>
        \/ d = b /\ events = <<acc>>
        \/ /\ ~InvalidRequest(r) /\ ~OnBook(b, n) /\ ~m.rejected
           /\ \/ d = m.book /\ left.rem = 0 /\ events = full
              \/ d = m.book /\ NeverRests(o) /\ events = Append(full, gone)
              \/ d = InsertOrder(m.book, left) /\ left.rem # 0 /\ ~NeverRests(o) /\ events = full
    BY NewOrderReplies
  <1>3. acc.kind = "Accepted" /\ gone.kind = "Canceled" /\ Rejected(n).kind = "Rejected"
    BY KindsAre
  <1> HIDE DEF d, events, acc, gone
  <1>4. CASE d = b /\ \E x : events = <<x>> /\ x.kind # "Filled"
    <2>1. PICK x : events = <<x>> /\ x.kind # "Filled" BY <1>4
    <2>2. Range(events) = {x} BY <2>1, RangeOfShort
    <2>3. QED BY <1>1, <1>4, <2>1, <2>2, StillIsOrderly DEF d, events
  <1>5. CASE /\ ~InvalidRequest(r) /\ ~OnBook(b, n) /\ ~m.rejected
             /\ \/ d = m.book /\ left.rem = 0 /\ events = full
                \/ d = m.book /\ NeverRests(o) /\ events = Append(full, gone)
                \/ d = InsertOrder(m.book, left) /\ left.rem # 0 /\ ~NeverRests(o) /\ events = full
    <2>1. o \in Orders /\ o.id = n /\ (o.type = "Iceberg" => o.vis \in Nat)
      BY <1>1, <1>5, BookOrderIs
    <2> HIDE DEF o
    <2>2. n \notin DOMAIN b.orders BY <1>5 DEF OnBook
    <2>3. Matched(b.orders, o, m) BY <1>1, <1>5, <2>1, <2>2, MatchLeaves
    <2>4. left \in Orders /\ left.id = m.taker.id
      <3> DEFINE t == m.taker.rem
      <3>1. t \in Nat /\ m.taker = Left(o, t) BY <2>3 DEF Matched
      <3> HIDE DEF t, m
      <3>2. m.taker \in Orders /\ m.taker.type = o.type /\ m.taker.vis = o.vis
        BY <2>1, <3>1, LeftIs
      <3>3. QED BY <2>1, <3>2, RefilledIs
    <2>5. Settles(m, d)
      <3>1. CASE d = m.book BY <3>1 DEF Settles
      <3>2. CASE d = InsertOrder(m.book, left) /\ left.rem # 0
        <4>1. left.rem > 0 BY <2>4, <3>2, OrderHas
        <4> HIDE DEF m, left
        <4>2. QED BY <2>4, <3>2, <4>1 DEF Settles
      <3>3. QED BY <1>5, <3>1, <3>2
    <2>6. /\ GoodBook(d) /\ KeepsPlaces(b, d) /\ FilledInTurn(b, d, fills) /\ IsSeq(fills)
      BY <1>1, <1>5, <2>1, <2>2, <2>5, MatchIsOrderly
    <2> HIDE DEF fills, m, left
    <2>7. IsSeq(<<acc>>) /\ IsSeq(full) BY <2>6, AnySeq, ShortSeq
    <2>8. Range(full) = {acc} \cup Range(fills) /\ Range(Append(full, gone)) = Range(full) \cup {gone}
      <3>1. Range(<<acc>>) = {acc} BY RangeOfShort
      <3>2. Range(full) = Range(<<acc>>) \cup Range(fills) BY <2>6, <2>7, RangeJoins
      <3> HIDE DEF full
      <3>3. QED BY <2>7, <3>1, <3>2, RangeJoins
    <2> HIDE DEF full
    <2>9. Range(events) \subseteq {acc, gone} \cup Range(fills) BY <1>5, <2>8
    <2>10. FilledInTurn(b, d, events) BY <1>3, <2>6, <2>9 DEF FilledInTurn, MakerFill
    <2>11. QED BY <2>6, <2>10, KeptIsNamed DEF Orderly, d, events
  <1>6. QED BY <1>2, <1>3, <1>4, <1>5

\* An order put back behind the others of its level: only its place is lost.
LEMMA PutBackPlaces ==
    ASSUME NEW b, GoodBook(b), NEW id \in DOMAIN b.orders
    PROVE  LET d == InsertOrder(RemoveOrder(b, id), b.orders[id])
           IN  GoodBook(d) /\ \A a, c : Ahead(b, a, c) /\ Ahead(d, c, a) => a = id
  <1> DEFINE f == b.orders
             o == f[id]
             x == RemoveOrder(b, id)
             d == InsertOrder(x, o)
  <1>1. o \in Orders /\ o.id = id /\ o.rem > 0 BY GoodOrders
  <1>2. GoodBook(x) /\ x.orders = Drop(f, id) BY RemoveKeeps
  <1>3. KeepsPlaces(b, x) BY RemovePlaces
  <1> HIDE DEF o, x
  <1>4. DOMAIN x.orders = DOMAIN f \ {id} BY <1>2 DEF Drop, Restrict
  <1>5. GoodBook(d) /\ d.orders = With(x.orders, id, o) BY <1>1, <1>2, <1>4, InsertKeeps
  <1>6. KeepsPlaces(x, d) /\ \A a : ~Ahead(d, id, a) BY <1>1, <1>2, <1>4, InsertPlaces
  <1> HIDE DEF d
  <1>7. DOMAIN d.orders = DOMAIN f BY <1>4, <1>5 DEF With
  <1>8. ASSUME NEW a, NEW c, Ahead(b, a, c), Ahead(d, c, a), a # id PROVE FALSE
    <2>1. c # id BY <1>6, <1>8
    <2>2. a \in DOMAIN f /\ c \in DOMAIN f BY <1>8, AheadIs
    <2>3. Ahead(x, a, c) BY <1>3, <1>4, <1>8, <2>1, <2>2 DEF KeepsPlaces, OnBook
    <2>4. Ahead(d, a, c) BY <1>6, <1>7, <2>2, <2>3 DEF KeepsPlaces, OnBook
    <2>5. QED BY <1>5, <1>8, <2>4, AheadInGood
  <1>9. QED BY <1>5, <1>8 DEF d, x, o

\* CancelOrder is orderly: an order put back for somebody else's cancel is named.
LEMMA CancelOrderOrderly ==
    ASSUME NEW e, NEW owing, NEW n, EngineOK(e, owing, n), NEW id, NEW user
    PROVE  LET reply == HandleCancelOrder(e, id, user)
           IN  Orderly(e.book, reply.engine.book, reply.events)
  <1> DEFINE b == e.book
             o == b.orders[id]
             i == StopPosition(e, id)
             reply == HandleCancelOrder(e, id, user)
             d == reply.engine.book
             rej == Rejected(id)
  <1>1. IsEngine(e) /\ GoodBook(b) BY DEF EngineOK, BookOK
  <1>2. \A c : [e EXCEPT !.book = c].book = c /\ [e EXCEPT !.stops = c].book = b
    BY <1>1 DEF IsEngine
  <1>3. rej.kind = "Rejected" /\ rej.id = id /\ \A x : Canceled(x).kind = "Canceled"
    BY KindsAre
  <1>4. CASE OnBook(b, id)
    <2>1. \/ reply = Reply([e EXCEPT !.book = RemoveOrder(@, id)], <<Canceled(o)>>)
          \/ reply = Reply([e EXCEPT !.book = InsertOrder(RemoveOrder(@, id), o)], <<rej>>)
      BY <1>4 DEF HandleCancelOrder
    <2>2. CASE reply = Reply([e EXCEPT !.book = RemoveOrder(@, id)], <<Canceled(o)>>)
      <3> HIDE DEF reply, o
      <3>1. d = RemoveOrder(b, id) /\ reply.events = <<Canceled(o)>> BY <1>2, <2>2 DEF Reply
      <3>2. Range(reply.events) = {Canceled(o)} BY <3>1, RangeOfShort
      <3>3. GoodBook(d) /\ KeepsPlaces(b, d) BY <1>1, <3>1, RemoveKeeps, RemovePlaces
      <3>4. \A x \in Range(reply.events) : x.kind # "Filled" BY <1>3, <3>2
      <3>5. QED BY <3>3, <3>4, QuietIsOrderly DEF reply
    <2>3. CASE reply = Reply([e EXCEPT !.book = InsertOrder(RemoveOrder(@, id), o)], <<rej>>)
      <3> DEFINE c == InsertOrder(RemoveOrder(b, id), o)
      <3>0. GoodBook(c) /\ \A x, y : Ahead(b, x, y) /\ Ahead(c, y, x) => x = id
        BY <1>1, <1>4, PutBackPlaces DEF OnBook
      <3> HIDE DEF reply, o, rej
      <3>1. d = c /\ reply.events = <<rej>> BY <1>2, <2>3 DEF Reply
      <3> HIDE DEF c, d
      <3>2. Range(reply.events) = {rej} BY <3>1, RangeOfShort
      <3>3. FilledInTurn(b, d, reply.events) BY <1>3, <3>2 DEF FilledInTurn, MakerFill
      <3>4. Named(b, d, reply.events) BY <1>3, <3>0, <3>1, <3>2 DEF Named
      <3>5. QED BY <3>3, <3>4 DEF Orderly, reply, d
    <2>4. QED BY <2>1, <2>2, <2>3
  <1>5. CASE ~OnBook(b, id)
    <2>1. \/ reply = Reply(e, <<rej>>)
          \/ reply = Reply([e EXCEPT !.stops = RemoveAt(@, i)], <<Canceled(e.stops[i])>>)
          \/ reply = Reply([e EXCEPT !.stops = Append(RemoveAt(@, i), e.stops[i])], <<rej>>)
      BY <1>5 DEF HandleCancelOrder
    <2> HIDE DEF reply, rej, i
    <2>2. d = b /\ \E x : reply.events = <<x>> /\ x.kind # "Filled"
      <3>1. CASE reply = Reply(e, <<rej>>) BY <1>3, <3>1 DEF Reply
      <3>2. ASSUME NEW c, NEW x,
                   reply = Reply([e EXCEPT !.stops = c], <<x>>), x.kind # "Filled"
            PROVE  d = b /\ reply.events = <<x>> /\ x.kind # "Filled"
        BY <1>2, <3>2 DEF Reply
      <3>3. CASE reply = Reply([e EXCEPT !.stops = RemoveAt(@, i)], <<Canceled(e.stops[i])>>)
        BY <1>3, <3>2, <3>3
      <3>4. CASE reply = Reply([e EXCEPT !.stops = Append(RemoveAt(@, i), e.stops[i])], <<rej>>)
        BY <1>3, <3>2, <3>4
      <3>5. QED BY <2>1, <3>1, <3>3, <3>4
    <2>3. PICK x : reply.events = <<x>> /\ x.kind # "Filled" BY <2>2
    <2>4. Range(reply.events) = {x} BY <2>3, RangeOfShort
    <2>5. QED BY <1>1, <2>2, <2>3, <2>4, StillIsOrderly DEF reply
  <1>6. QED BY <1>4, <1>5


\* Priority lasts from one book to another that keeps the places, as long as both
\* orders stay with their side and price.
LEMMA PriorityLasts ==
    ASSUME NEW b, NEW c, KeepsPlaces(b, c), NEW a, NEW i, HasPriority(b, a, i),
           a \in DOMAIN c.orders, i \in DOMAIN c.orders,
           \A id \in {a, i} : /\ c.orders[id].side = b.orders[id].side
                              /\ c.orders[id].price = b.orders[id].price
    PROVE  HasPriority(c, a, i)
  BY DEF HasPriority, KeepsPlaces, OnBook

\* A better price or more quantity: the order canceled is named, and the fills of
\* its match come in turn.
LEMMA ReplacedOrderly ==
    ASSUME NEW e, NEW owing, NEW n, EngineOK(e, owing, n), NEW id \in DOMAIN e.book.orders,
           NEW a \in Amendments
    PROVE  LET reply == AmendByReplacement(e, e.book.orders[id], a)
           IN  Orderly(e.book, reply.engine.book, reply.events)
  <1> DEFINE b == e.book
             o == b.orders[id]
             reply == AmendByReplacement(e, o, a)
             c == RemoveOrder(b, id)
             p == OrElse(a.price, o.price)
             q == OrElse(a.qty, o.rem)
             x == Repriced(o, p, q)
             m == MatchOrder(c, x)
             gone == Canceled(o)
             rej == Rejected(id)
  <1>1. IsEngine(e) /\ GoodBook(b) BY DEF EngineOK, BookOK
  <1>2. \A y : [e EXCEPT !.book = y].book = y BY <1>1 DEF IsEngine
  <1>3. o \in Orders /\ o.id = id BY <1>1, GoodOrders
  <1>4. o.price \in Int /\ o.rem \in Int /\ o.side \in Sides BY <1>3, OrderHas
  <1>5. p \in Int /\ q \in Int
    <2>1. a.price \in Optional(Int) /\ a.qty \in Optional(Int) BY EngineAssumption
    <2>2. QED BY <1>4, <2>1 DEF OrElse, Optional
  <1>6. GoodBook(c) /\ c.orders = Drop(b.orders, id) /\ KeepsPlaces(b, c)
    BY <1>1, RemoveKeeps, RemovePlaces
  <1>7. /\ DOMAIN c.orders = DOMAIN b.orders \ {id}
        /\ \A j \in DOMAIN c.orders : c.orders[j] = b.orders[j]
    BY <1>6 DEF Drop, Restrict
  <1>8. gone.kind = "Canceled" /\ gone.id = id /\ rej.kind = "Rejected" BY <1>3, KindsAre
  <1> HIDE DEF b, o, c, p, q, gone, rej
  <1>9. CASE q <= 0 \/ p <= 0 \/ m.rejected
    <2>1. reply = Reply([e EXCEPT !.book = c], <<gone, Rejected(o.id)>>)
      BY <1>3, <1>9 DEF AmendByReplacement, Repriced, b, c, p, q, gone, o
    <2> HIDE DEF reply
    <2>2. reply.engine.book = c /\ reply.events = <<gone, rej>>
      BY <1>2, <1>3, <2>1 DEF Reply, rej
    <2>3. Range(reply.events) = {gone, rej} BY <2>2, RangeOfShort
    <2>4. \A y \in Range(reply.events) : y.kind # "Filled" BY <1>8, <2>3
    <2>5. QED BY <1>6, <2>2, <2>4, QuietIsOrderly DEF reply, b, o
  <1>10. CASE ~(q <= 0 \/ p <= 0 \/ m.rejected)
    <2> DEFINE fills == FillEvents(m)
               acc == Accepted(x, e.seq)
               d == IF m.taker.rem # 0 /\ IsLimit(x.type) THEN InsertOrder(m.book, m.taker)
                    ELSE m.book
               events == <<gone, acc>> \o fills
    <2>1. reply = Reply([e EXCEPT !.book = d], events)
      BY <1>3, <1>10 DEF AmendByReplacement, Repriced, b, c, p, q, gone, o
    <2>2. p \in Nat /\ q \in Nat BY <1>5, <1>10
    <2>3. x \in Orders /\ x.id = id /\ x.side = o.side BY <1>3, <2>2, RepricedIs
    <2>4. acc.kind = "Accepted" BY KindsAre
    <2> HIDE DEF reply, x, acc, d, events
    <2>5. reply.engine.book = d /\ reply.events = events
      <3>1. [e EXCEPT !.book = d].book = d BY <1>2
      <3>2. QED BY <2>1, <3>1 DEF Reply
    <2>6. x.id \notin DOMAIN c.orders /\ ~m.rejected BY <1>7, <1>10, <2>3
    <2>7. Settles(m, d)
      <3>1. Matched(c.orders, x, m) BY <1>6, <2>3, <2>6, MatchLeaves
      <3> HIDE DEF m
      <3> DEFINE t == m.taker.rem
      <3>2. t \in Nat /\ m.taker = Left(x, t) BY <3>1 DEF Matched
      <3> HIDE DEF t
      <3>3. m.taker \in Orders BY <2>3, <3>2, LeftIs
      <3>4. CASE m.taker.rem # 0 /\ IsLimit(x.type)
        <4>1. m.taker.rem > 0 BY <3>2, <3>4 DEF t
        <4>2. d = InsertOrder(m.book, m.taker) BY <3>4 DEF d
        <4>3. QED BY <3>3, <4>1, <4>2 DEF Settles
      <3>5. CASE ~(m.taker.rem # 0 /\ IsLimit(x.type)) BY <3>5 DEF Settles, d
      <3>6. QED BY <3>4, <3>5
    <2>8. /\ GoodBook(d) /\ KeepsPlaces(c, d) /\ FilledInTurn(c, d, fills) /\ IsSeq(fills)
          /\ DOMAIN d.orders \subseteq DOMAIN c.orders \cup {id}
          /\ \A y \in Range(fills) : MakerFill(y) =>
                y.id \in DOMAIN c.orders /\ c.orders[y.id].side = Opposite(o.side)
          /\ \A j : ~Ahead(d, id, j)
      <3> DEFINE i == x.id
                 w == x.side
      <3>1. /\ GoodBook(d) /\ KeepsPlaces(c, d) /\ FilledInTurn(c, d, fills) /\ IsSeq(fills)
            /\ DOMAIN d.orders \subseteq DOMAIN c.orders \cup {i}
            /\ \A y \in Range(fills) : MakerFill(y) =>
                  y.id \in DOMAIN c.orders /\ c.orders[y.id].side = Opposite(w)
            /\ \A j : ~Ahead(d, i, j)
        BY <1>6, <2>3, <2>6, <2>7, MatchIsOrderly
      <3>2. i = id /\ w = o.side BY <2>3
      <3> HIDE DEF i, w, fills
      <3>3. QED BY <3>1, <3>2
    <2> HIDE DEF fills, m
    <2>9. Range(events) = {gone, acc} \cup Range(fills)
      <3>1. IsSeq(<<gone, acc>>) BY ShortSeq
      <3>2. Range(<<gone, acc>>) = {gone, acc} BY RangeOfShort
      <3>3. QED BY <2>8, <3>1, <3>2, RangeJoins DEF events
    <2>10. ASSUME NEW y \in Range(events), MakerFill(y), NEW j, HasPriority(b, j, y.id)
           PROVE  j \notin DOMAIN d.orders
      <3>1. y \in Range(fills) BY <1>8, <2>4, <2>9, <2>10 DEF MakerFill
      <3>2. y.id \in DOMAIN c.orders /\ c.orders[y.id].side = Opposite(o.side)
        BY <2>8, <2>10, <3>1
      <3>3. j \in DOMAIN b.orders /\ b.orders[j].side = b.orders[y.id].side
        BY <2>10 DEF HasPriority, OnBook
      <3>4. j # id
        <4>1. b.orders[y.id].side = Opposite(o.side) BY <1>7, <3>2
        <4>2. Opposite(o.side) # o.side BY <1>4, OppositeIs
        <4>3. QED BY <3>3, <4>1, <4>2 DEF o
      <3>5. j \in DOMAIN c.orders BY <1>7, <3>3, <3>4
      <3>6. HasPriority(c, j, y.id)
        <4> DEFINE i == y.id
        <4>1. i \in DOMAIN c.orders /\ HasPriority(b, j, i) BY <2>10, <3>2
        <4> HIDE DEF i
        <4>2. \A k \in {j, i} : /\ c.orders[k].side = b.orders[k].side
                                /\ c.orders[k].price = b.orders[k].price
          BY <1>7, <3>5, <4>1
        <4>3. HasPriority(c, j, i) BY <1>6, <3>5, <4>1, <4>2, PriorityLasts
        <4>4. QED BY <4>3 DEF i
      <3>7. QED BY <2>8, <2>10, <3>1, <3>6 DEF FilledInTurn
    <2>11. ASSUME NEW j, NEW k, Ahead(b, j, k), Ahead(d, k, j) PROVE j = id
      <3>1. SUFFICES ASSUME j # id PROVE FALSE OBVIOUS
      <3>2. k # id BY <2>8, <2>11
      <3>3. j \in DOMAIN b.orders /\ k \in DOMAIN b.orders BY <2>11, AheadIs
      <3>4. Ahead(c, j, k) BY <1>6, <1>7, <2>11, <3>1, <3>2, <3>3 DEF KeepsPlaces, OnBook
      <3>5. j \in DOMAIN d.orders /\ k \in DOMAIN d.orders BY <2>11, AheadIs
      <3>6. Ahead(d, j, k) BY <2>8, <3>4, <3>5 DEF KeepsPlaces, OnBook
      <3>7. QED BY <2>8, <2>11, <3>6, AheadInGood
    <2>12. FilledInTurn(b, d, events) BY <2>10 DEF FilledInTurn
    <2>13. Named(b, d, events) BY <1>8, <2>9, <2>11 DEF Named
    <2>14. QED BY <2>5, <2>12, <2>13 DEF Orderly, reply, b, o
  <1>11. QED BY <1>9, <1>10

\* AmendOrder is orderly, whichever of its branches is taken.
LEMMA AmendOrderOrderly ==
    ASSUME NEW e, NEW owing, NEW n, EngineOK(e, owing, n), NEW id, NEW user,
           NEW a \in Amendments
    PROVE  LET reply == HandleAmendOrder(e, id, user, a)
           IN  Orderly(e.book, reply.engine.book, reply.events)
  <1> DEFINE b == e.book
             o == b.orders[id]
             reply == HandleAmendOrder(e, id, user, a)
             rej == Rejected(id)
             acc == Accepted(o, e.seq)
             reduced == UpdateQty(b, id, a.qty)
  <1>1. IsEngine(e) /\ GoodBook(b) BY DEF EngineOK, BookOK
  <1>2. \A y : [e EXCEPT !.book = y].book = y BY <1>1 DEF IsEngine
  <1>3. rej.kind = "Rejected" /\ acc.kind = "Accepted" BY KindsAre
  <1>4. \/ \E x \in {rej, acc} : reply = Reply(e, <<x>>)
        \/ OnBook(b, id) /\ reply = AmendByReplacement(e, o, a)
        \/ /\ OnBook(b, id) /\ QtyDown(o, a) /\ ~(a.qty <= 0)
           /\ reply = Reply([e EXCEPT !.book = reduced], <<acc>>)
    BY DEF HandleAmendOrder
  <1> HIDE DEF reply, rej, acc
  <1>5. CASE \E x \in {rej, acc} : reply = Reply(e, <<x>>)
    <2>1. PICK x \in {rej, acc} : reply = Reply(e, <<x>>) BY <1>5
    <2>2. reply.engine = e /\ reply.events = <<x>> BY <2>1 DEF Reply
    <2>3. Range(<<x>>) = {x} BY RangeOfShort
    <2>4. \A y \in Range(reply.events) : y.kind # "Filled" BY <1>3, <2>2, <2>3
    <2>5. QED BY <1>1, <2>2, <2>4, StillIsOrderly DEF reply
  <1>6. CASE OnBook(b, id) /\ reply = AmendByReplacement(e, o, a)
    BY <1>6, ReplacedOrderly DEF OnBook, reply
  <1>7. CASE /\ OnBook(b, id) /\ QtyDown(o, a) /\ ~(a.qty <= 0)
             /\ reply = Reply([e EXCEPT !.book = reduced], <<acc>>)
    <2>1. a.qty \in Nat /\ a.qty > 0
      <3>1. a.qty \in Int BY <1>7, EngineAssumption DEF QtyDown, Optional
      <3>2. QED BY <1>7, <3>1
    <2>2. GoodBook(reduced) /\ KeepsPlaces(b, reduced)
      BY <1>1, <1>7, <2>1, UpdateKeeps, UpdatePlaces
    <2> HIDE DEF reduced
    <2>3. reply.engine.book = reduced /\ reply.events = <<acc>>
      <3>1. [e EXCEPT !.book = reduced].book = reduced BY <1>2
      <3>2. QED BY <1>7, <3>1 DEF Reply
    <2>4. Range(<<acc>>) = {acc} BY RangeOfShort
    <2>5. \A y \in Range(reply.events) : y.kind # "Filled" BY <1>3, <2>3, <2>4
    <2>6. QED BY <2>2, <2>3, <2>5, QuietIsOrderly DEF reply
  <1>8. QED BY <1>4, <1>5, <1>6, <1>7


\* A book that orders have only left: the others keep their places.
Thinned(b, d) ==
    GoodBook(d) /\ KeepsPlaces(b, d) /\ DOMAIN d.orders \subseteq DOMAIN b.orders

\* One more order leaves.
LEMMA ThinnedMore ==
    ASSUME NEW b, NEW c, Thinned(b, c), NEW i
    PROVE  Thinned(b, RemoveOrder(c, i))
  <1> DEFINE d == RemoveOrder(c, i)
  <1>1. GoodBook(d) /\ d.orders = Drop(c.orders, i) /\ KeepsPlaces(c, d)
    BY RemoveKeeps, RemovePlaces DEF Thinned
  <1> HIDE DEF d
  <1>2. DOMAIN d.orders \subseteq DOMAIN c.orders BY <1>1 DEF Drop, Restrict
  <1>3. KeepsPlaces(b, d) BY <1>1, <1>2, PlacesThen DEF Thinned
  <1>4. QED BY <1>1, <1>2, <1>3 DEF Thinned, d

\* One order after another leaves.
LEMMA RemovalsThin ==
    ASSUME NEW b, GoodBook(b), NEW ids \in Seq(OrderIds)
    PROVE  Thinned(b, FoldLeft(RemoveOrder, b, ids))
  <1> DEFINE n == Len(ids)
             c == FoldLeft(RemoveOrder, b, ids)
  <1>1. n \in Nat /\ DOMAIN ids = 1 .. n OBVIOUS
  <1>2. c = Removals!Fold(b, ids)
    BY DEF Removals!Fold, FoldLeft, MapThenFoldSet, Max,
           Removals!FoldLeft, Removals!MapThenFoldSet, Removals!Max
  <1> HIDE DEF c, n
  <1>3. PICK tr : Removals!IsTrace(tr, b, ids) /\ c = tr[n]
    BY <1>2, Removals!FoldTrace DEF n
  <1>4. tr[0] = b /\ \A i \in 1 .. n : tr[i] = RemoveOrder(tr[i - 1], ids[i])
    BY <1>3 DEF Removals!IsTrace, n
  <1> DEFINE K == {k \in Nat : k <= n => Thinned(b, tr[k])}
  <1>5. 0 \in K BY <1>4 DEF Thinned, KeepsPlaces
  <1>6. ASSUME NEW k \in Nat, k \in K PROVE k + 1 \in K
    <2> SUFFICES ASSUME k + 1 <= n PROVE Thinned(b, tr[k + 1]) OBVIOUS
    <2>1. k + 1 \in 1 .. n /\ (k + 1) - 1 = k /\ k <= n BY <1>1
    <2>2. tr[k + 1] = RemoveOrder(tr[k], ids[k + 1]) BY <1>4, <2>1
    <2>3. Thinned(b, tr[k]) BY <1>6, <2>1
    <2>4. QED BY <2>2, <2>3, ThinnedMore
  <1> HIDE DEF K
  <1>7. n \in K BY <1>1, <1>5, <1>6, Induction
  <1>8. QED BY <1>1, <1>3, <1>7 DEF K, c

\* CancelAllOrders is orderly.
LEMMA CancelAllOrderly ==
    ASSUME NEW e, NEW owing, NEW n, EngineOK(e, owing, n), NEW user
    PROVE  LET reply == HandleCancelAll(e, user)
           IN  Orderly(e.book, reply.engine.book, reply.events)
  <1> DEFINE b == e.book
             s == e.stops
             ids == UserOrders(b, user)
             scan == Scan(s, {o.id : o \in {p \in Range(s) : p.user = user}})
             resting == [i \in DOMAIN ids |-> b.orders[ids[i]]]
             gone == resting \o scan.taken
             c == FoldLeft(RemoveOrder, b, ids)
             reply == HandleCancelAll(e, user)
  <1>1. IsEngine(e) /\ GoodBook(b) BY DEF EngineOK, BookOK
  <1>2. reply.engine.book = c /\ reply.events = Ends(gone)
    <2>1. reply = Reply([e EXCEPT !.book = CancelAllUserOrders(@, user), !.stops = scan.kept],
                        Ends(gone))
      BY DEF HandleCancelAll, Ends
    <2>2. CancelAllUserOrders(b, user) = c BY DEF CancelAllUserOrders
    <2> HIDE DEF reply, scan, gone, c
    <2>3. \A y : [e EXCEPT !.book = CancelAllUserOrders(@, user), !.stops = y].book = c
      BY <1>1, <2>2 DEF IsEngine
    <2>4. QED BY <2>1, <2>3 DEF Reply
  <1>3. ids \in Seq(OrderIds)
    <2>1. CASE user \in DOMAIN b.users
      <3>1. ids = b.users[user] BY <2>1 DEF UserOrders, Get
      <3>2. QED BY <1>1, <2>1, <3>1 DEF GoodBook, IsBook, Maps, Lists
    <2>2. CASE user \notin DOMAIN b.users
      <3>1. ids = << >> BY <2>2 DEF UserOrders, Get
      <3>2. QED BY <3>1
    <2>3. QED BY <2>1, <2>2
  <1>4. Thinned(b, c) BY <1>1, <1>3, RemovalsThin
  <1> HIDE DEF reply, gone, c
  <1>5. \A x \in Range(Ends(gone)) : x.kind # "Filled" BY DEF Range, Ends, Canceled
  <1>6. QED BY <1>2, <1>4, <1>5, QuietIsOrderly DEF Thinned, reply

\* check_expirations is orderly.
LEMMA ExpirationsOrderly ==
    ASSUME NEW e, NEW owing, NEW n, EngineOK(e, owing, n), NEW now,
           NEW order \in HeapOrders(Due(e, now))
    PROVE  LET reply == CheckExpirations(e, order)
           IN  Orderly(e.book, reply.engine.book, reply.events)
  <1> DEFINE b == e.book
             base == [book |-> b, events |-> << >>]
             run == FoldLeft(PopExpired, base, order)
             m == Len(order)
             reply == CheckExpirations(e, order)
             Quiet(r) == /\ Thinned(b, r.book) /\ IsSeq(r.events)
                         /\ \A x \in Range(r.events) : x.kind # "Filled"
  <1>1. order \in Seq(Due(e, now)) /\ m \in Nat
    <2>1. IsFiniteSet(e.expiry) BY DEF EngineOK, IsEngine
    <2>2. IsFiniteSet(Due(e, now)) BY <2>1, FS_Subset DEF Due
    <2>3. order \in SetToSeqs(Due(e, now)) BY DEF HeapOrders
    <2>4. order \in Seq(Due(e, now)) BY <2>2, <2>3, SequencesOfSet
    <2>5. QED BY <2>4
  <1>2. run = Pops!Fold(base, order)
    BY DEF Pops!Fold, FoldLeft, MapThenFoldSet, Max,
           Pops!FoldLeft, Pops!MapThenFoldSet, Pops!Max
  <1>3. base.book = b /\ base.events = << >> OBVIOUS
  <1>4. reply.engine.book = run.book /\ reply.events = run.events
    <2>1. reply = Reply([e EXCEPT !.expiry = @ \ Range(order), !.book = run.book], run.events)
      BY DEF CheckExpirations
    <2> HIDE DEF run, reply
    <2>2. \A c : [e EXCEPT !.expiry = @ \ Range(order), !.book = c].book = c
      BY DEF EngineOK, IsEngine
    <2>3. QED BY <2>1, <2>2 DEF Reply
  <1> HIDE DEF run, base, m, reply
  <1>5. PICK tr : Pops!IsTrace(tr, base, order) /\ run = tr[m] BY <1>1, <1>2, Pops!FoldTrace DEF m
  <1>6. tr[0] = base /\ \A i \in 1 .. m : tr[i] = PopExpired(tr[i - 1], order[i])
    BY <1>5 DEF Pops!IsTrace, m
  <1> DEFINE K == {k \in Nat : k <= m => Quiet(tr[k])}
  <1>7. 0 \in K
    <2>1. IsSeq(<< >>) /\ Range(<< >>) = {} BY ShortSeq, RangeOfShort
    <2>2. GoodBook(b) BY DEF EngineOK, BookOK
    <2>3. Thinned(b, b) BY <2>2 DEF Thinned, KeepsPlaces
    <2>4. QED BY <1>3, <1>6, <2>1, <2>3
  <1>8. ASSUME NEW k \in Nat, k \in K PROVE k + 1 \in K
    <2> SUFFICES ASSUME k + 1 <= m PROVE Quiet(tr[k + 1]) OBVIOUS
    <2> DEFINE r == tr[k]
               entry == order[k + 1]
               i == entry[2]
               gone == Canceled(r.book.orders[i])
    <2>1. k + 1 \in 1 .. m /\ (k + 1) - 1 = k /\ k <= m BY <1>1
    <2>2. tr[k + 1] = PopExpired(r, entry) BY <1>6, <2>1
    <2>3. Quiet(r) BY <1>8, <2>1
    <2> HIDE DEF r, entry
    <2>4. CASE ~OnBook(r.book, i) BY <2>2, <2>3, <2>4 DEF PopExpired
    <2>5. CASE OnBook(r.book, i)
      <3>1. tr[k + 1] = [book |-> RemoveOrder(r.book, i), events |-> Append(r.events, gone)]
        BY <2>2, <2>5 DEF PopExpired
      <3>2. gone.kind = "Canceled" BY KindsAre
      <3> HIDE DEF gone
      <3>3. IsSeq(Append(r.events, gone)) /\ Range(Append(r.events, gone)) = Range(r.events) \cup {gone}
        BY <2>3, SeqGrows, RangeJoins
      <3>4. Thinned(b, RemoveOrder(r.book, i)) BY <2>3, ThinnedMore
      <3>5. QED BY <2>3, <3>1, <3>2, <3>3, <3>4
    <2>6. QED BY <2>4, <2>5
  <1> HIDE DEF K
  <1>9. m \in K BY <1>1, <1>7, <1>8, Induction
  <1>10. Quiet(run) BY <1>1, <1>5, <1>9 DEF K
  <1>11. QED BY <1>4, <1>10, QuietIsOrderly DEF Thinned, reply

-----------------------------------------------------------------------------
(* A mark price and the orders it triggers.                                *)

\* What the orders triggered so far owe to the orders that rested on b.
RunInTurn(b, run) ==
    /\ KeepsPlaces(b, run.book) /\ FilledInTurn(b, run.book, run.events)
    /\ \A id \in DOMAIN b.orders \cap DOMAIN run.book.orders :
          /\ run.book.orders[id].side = b.orders[id].side
          /\ run.book.orders[id].price = b.orders[id].price

\* One triggered order takes its makers in turn.
LEMMA TriggerInTurn ==
    ASSUME NEW b, NEW owing, NEW taken \in Seq(Orders), DistinctIds(taken),
           NEW k \in Nat, k < Len(taken), NEW run, RunOK(run, b.orders, owing, taken, k),
           taken[k + 1].id \notin DOMAIN b.orders, RunInTurn(b, run)
    PROVE  RunInTurn(b, RunTriggered(run, taken[k + 1]))
  <1> DEFINE l == k + 1
             t == taken[l]
             o == Converted(t)
             c == run.book
             m == MatchOrder(c, o)
             new == RunTriggered(run, t)
             fills == FillEvents(m)
             d == IF m.taker.rem # 0 /\ IsLimit(m.taker.type) THEN InsertOrder(m.book, m.taker)
                  ELSE m.book
  <1>1. /\ IsSeq(run.events) /\ GoodBook(c)
        /\ \A id \in DOMAIN c.orders : id \in DOMAIN b.orders \/ \E j \in 1 .. k : taken[j].id = id
    BY DEF RunOK, BookOK
  <1>2. t \in Orders /\ \A j \in 1 .. k : taken[j].id # t.id
    <2>1. l \in DOMAIN taken /\ \A j \in 1 .. k : j \in DOMAIN taken /\ j # l OBVIOUS
    <2>2. QED BY <2>1 DEF DistinctIds
  <1> HIDE DEF l
  <1>3. t.id \notin DOMAIN c.orders /\ t.id \notin DOMAIN b.orders BY <1>1, <1>2 DEF l
  <1>4. o \in Orders /\ o.id = t.id BY <1>2, ConvertedIs DEF SameStop
  <1>5. CASE m.rejected
    <2>1. new = run BY <1>5 DEF RunTriggered
    <2>2. QED BY <2>1 DEF l
  <1>6. CASE ~m.rejected
    <2>1. new = [book |-> d, events |-> run.events \o fills] BY <1>6 DEF RunTriggered
    <2> HIDE DEF t, o, c
    <2>2. Settles(m, d)
      <3>1. Matched(c.orders, o, m) BY <1>1, <1>3, <1>4, <1>6, MatchLeaves
      <3> HIDE DEF m
      <3> DEFINE u == m.taker.rem
      <3>2. u \in Nat /\ m.taker = Left(o, u) BY <3>1 DEF Matched
      <3> HIDE DEF u
      <3>3. m.taker \in Orders BY <1>4, <3>2, LeftIs
      <3>4. CASE m.taker.rem # 0 /\ IsLimit(m.taker.type)
        <4>1. m.taker.rem > 0 BY <3>2, <3>4 DEF u
        <4>2. d = InsertOrder(m.book, m.taker) BY <3>4
        <4> HIDE DEF d
        <4>3. QED BY <3>3, <4>1, <4>2 DEF Settles
      <3>5. CASE ~(m.taker.rem # 0 /\ IsLimit(m.taker.type)) BY <3>5 DEF Settles
      <3>6. QED BY <3>4, <3>5
    <2> HIDE DEF d
    <2>3. /\ GoodBook(d) /\ KeepsPlaces(c, d) /\ FilledInTurn(c, d, fills) /\ IsSeq(fills)
          /\ DOMAIN d.orders \subseteq DOMAIN c.orders \cup {o.id}
          /\ \A id \in DOMAIN c.orders \cap DOMAIN d.orders :
                d.orders[id].side = c.orders[id].side /\ d.orders[id].price = c.orders[id].price
          /\ \A x \in Range(fills) : MakerFill(x) => x.id \in DOMAIN c.orders
      BY <1>1, <1>3, <1>4, <1>6, <2>2, MatchIsOrderly
    <2> HIDE DEF m, fills, new
    <2>4. DOMAIN b.orders \cap DOMAIN d.orders \subseteq DOMAIN c.orders BY <1>3, <1>4, <2>3
    <2>5. /\ KeepsPlaces(b, c) /\ FilledInTurn(b, c, run.events)
          /\ \A id \in DOMAIN b.orders \cap DOMAIN c.orders :
                c.orders[id].side = b.orders[id].side /\ c.orders[id].price = b.orders[id].price
      BY DEF RunInTurn, c
    <2>6. KeepsPlaces(b, d) BY <2>3, <2>4, <2>5, PlacesThen
    <2>7. \A id \in DOMAIN b.orders \cap DOMAIN d.orders :
             d.orders[id].side = b.orders[id].side /\ d.orders[id].price = b.orders[id].price
      BY <2>3, <2>4, <2>5
    <2>8. ASSUME NEW x \in Range(run.events \o fills), MakerFill(x), NEW a, HasPriority(b, a, x.id),
                 a \in DOMAIN d.orders
          PROVE  FALSE
      <3>1. Range(run.events \o fills) = Range(run.events) \cup Range(fills)
        BY <1>1, <2>3, RangeJoins
      <3>2. a \in DOMAIN b.orders /\ x.id \in DOMAIN b.orders BY <2>8 DEF HasPriority, OnBook
      <3>3. a \in DOMAIN c.orders BY <2>4, <2>8, <3>2
      <3>4. CASE x \in Range(run.events) BY <2>5, <2>8, <3>3, <3>4 DEF FilledInTurn
      <3>5. CASE x \in Range(fills)
        <4> DEFINE i == x.id
        <4>1. i \in DOMAIN c.orders /\ i \in DOMAIN b.orders /\ HasPriority(b, a, i)
          BY <2>3, <2>8, <3>2, <3>5
        <4> HIDE DEF i
        <4>2. \A id \in {a, i} : /\ c.orders[id].side = b.orders[id].side
                                 /\ c.orders[id].price = b.orders[id].price
          BY <2>5, <3>2, <3>3, <4>1
        <4>3. HasPriority(c, a, i) BY <2>5, <3>3, <4>1, <4>2, PriorityLasts
        <4>4. HasPriority(c, a, x.id) BY <4>3 DEF i
        <4>5. QED BY <2>3, <2>8, <3>5, <4>4 DEF FilledInTurn
      <3>6. QED BY <2>8, <3>1, <3>4, <3>5
    <2>9. FilledInTurn(b, d, run.events \o fills) BY <2>8 DEF FilledInTurn
    <2>10. new.book = d /\ new.events = run.events \o fills BY <2>1
    <2>11. RunInTurn(b, new) BY <2>6, <2>7, <2>9, <2>10 DEF RunInTurn
    <2>12. QED BY <2>11 DEF new, l, t
  <1>7. QED BY <1>5, <1>6

\* So do all of them, one after the other.
LEMMA TriggersInTurn ==
    ASSUME NEW b, NEW owing, BookOK(b, owing), NEW taken \in Seq(Orders), DistinctIds(taken),
           \A j \in DOMAIN taken : /\ taken[j].id \notin DOMAIN b.orders
                                   /\ owing[taken[j].id] = taken[j].rem + taken[j].hidden
    PROVE  LET run == FoldLeft(RunTriggered, [book |-> b, events |-> << >>], taken)
           IN  RunInTurn(b, run) /\ GoodBook(run.book) /\ IsSeq(run.events)
  <1> DEFINE n == Len(taken)
             base == [book |-> b, events |-> << >>]
             run == FoldLeft(RunTriggered, base, taken)
             f == b.orders
  <1>1. n \in Nat /\ DOMAIN taken = 1 .. n OBVIOUS
  <1>2. run = Triggers!Fold(base, taken)
    BY DEF Triggers!Fold, FoldLeft, MapThenFoldSet, Max,
           Triggers!FoldLeft, Triggers!MapThenFoldSet, Triggers!Max
  <1>3. base.book = b /\ base.events = << >> OBVIOUS
  <1> HIDE DEF run, base, n
  <1>4. PICK tr : Triggers!IsTrace(tr, base, taken) /\ run = tr[n]
    BY <1>2, Triggers!FoldTrace DEF n
  <1>5. tr[0] = base /\ \A i \in 1 .. n : tr[i] = RunTriggered(tr[i - 1], taken[i])
    BY <1>4 DEF Triggers!IsTrace, n
  <1> DEFINE K == {k \in Nat : k <= n => RunOK(tr[k], f, owing, taken, k) /\ RunInTurn(b, tr[k])}
  <1>6. 0 \in K
    <2>1. IsSeq(<< >>) /\ Range(<< >>) = {} BY ShortSeq, RangeOfShort
    <2>2. Count!Fold(owing, << >>) = owing BY Count!FoldEmpty
    <2>3. RunOK(base, f, owing, taken, 0) BY <1>3, <2>1, <2>2 DEF RunOK
    <2>4. RunInTurn(b, base) BY <1>3, <2>1 DEF RunInTurn, KeepsPlaces, FilledInTurn
    <2>5. QED BY <1>5, <2>3, <2>4
  <1>7. ASSUME NEW k \in Nat, k \in K PROVE k + 1 \in K
    <2> SUFFICES ASSUME k + 1 <= n
                 PROVE  RunOK(tr[k + 1], f, owing, taken, k + 1) /\ RunInTurn(b, tr[k + 1])
      OBVIOUS
    <2>1. k < Len(taken) /\ k + 1 \in 1 .. n /\ (k + 1) - 1 = k /\ k <= n BY <1>1 DEF n
    <2>2. tr[k + 1] = RunTriggered(tr[k], taken[k + 1]) BY <1>5, <2>1
    <2>3. RunOK(tr[k], f, owing, taken, k) /\ RunInTurn(b, tr[k]) BY <1>7, <2>1
    <2>4. taken[k + 1].id \notin DOMAIN f
          /\ owing[taken[k + 1].id] = taken[k + 1].rem + taken[k + 1].hidden
      BY <1>1, <2>1
    <2>5. RunOK(tr[k + 1], f, owing, taken, k + 1) BY <2>1, <2>2, <2>3, <2>4, TriggerKeeps
    <2>6. RunInTurn(b, tr[k + 1])
      <3>1. k \in Nat /\ taken \in Seq(Orders) /\ DistinctIds(taken) BY <1>1
      <3>2. RunInTurn(b, RunTriggered(tr[k], taken[k + 1]))
        BY <2>1, <2>3, <2>4, <3>1, TriggerInTurn, ZenonT(30)
      <3>3. QED BY <2>2, <3>2
    <2>7. QED BY <2>5, <2>6
  <1> HIDE DEF K
  <1>8. n \in K BY <1>1, <1>6, <1>7, Induction
  <1>9. RunOK(run, f, owing, taken, n) /\ RunInTurn(b, run) BY <1>1, <1>4, <1>8 DEF K
  <1>10. QED BY <1>9 DEF RunOK, BookOK, run, base


\* The chosen ones of the stops, after a mark price.
TakenStops(e, mark, index, chosen) == Scan(ApplyMark(e, mark, index).stops, chosen).taken

\* The stops a mark price takes wait for what they owe.
LEMMA StopsTaken ==
    ASSUME NEW e, NEW owing, NEW n, EngineOK(e, owing, n), NEW mark \in Int, NEW index \in Int,
           NEW chosen
    PROVE  LET taken == TakenStops(e, mark, index, chosen)
           IN  /\ taken \in Seq(Orders) /\ DistinctIds(taken)
               /\ \A j \in DOMAIN taken :
                     /\ taken[j].id \notin DOMAIN e.book.orders
                     /\ owing[taken[j].id] = taken[j].rem + taken[j].hidden
  <1> DEFINE s == e.stops
             t == ApplyMark(e, mark, index).stops
             taken == Scan(t, chosen).taken
  <1>1. IsEngine(e) /\ StopsOK(s, e.book, owing, n) BY DEF EngineOK
  <1>2. s \in Seq(Orders) /\ DistinctIds(s) BY <1>1 DEF StopsOK
  <1>3. /\ t \in Seq(Orders) /\ DistinctIds(t) /\ DOMAIN t = DOMAIN s
        /\ \A i \in DOMAIN s : SameStop(t[i], s[i])
    BY <1>1, <1>2, MarkedIs
  <1> HIDE DEF t
  <1>4. taken \in Seq(Orders) /\ DistinctIds(taken) /\ Range(taken) \subseteq Range(t)
    BY <1>3, ScanKeeps
  <1> HIDE DEF taken
  <1>5. ASSUME NEW j \in DOMAIN taken
        PROVE  /\ taken[j].id \notin DOMAIN e.book.orders
               /\ owing[taken[j].id] = taken[j].rem + taken[j].hidden
    <2>0. Range(taken) \subseteq Range(t) BY <1>4
    <2>1. PICK i \in DOMAIN t : taken[j] = t[i] BY <2>0, RangeIs
    <2>2. i \in DOMAIN s /\ SameStop(taken[j], s[i]) BY <1>3, <2>1
    <2>3. s[i].id \notin DOMAIN e.book.orders /\ owing[s[i].id] = s[i].rem + s[i].hidden
      BY <1>1, <2>2 DEF StopsOK
    <2>4. QED BY <2>2, <2>3 DEF SameStop
  <1>6. TakenStops(e, mark, index, chosen) = taken BY DEF TakenStops, taken, t
  <1>7. QED BY <1>4, <1>5, <1>6

\* UpdateMarkPrice is orderly.
LEMMA UpdateMarkOrderly ==
    ASSUME NEW e, NEW owing, NEW n, EngineOK(e, owing, n), NEW mark \in Int, NEW index \in Int
    PROVE  LET reply == HandleUpdateMark(e, mark, index)
           IN  Orderly(e.book, reply.engine.book, reply.events)
  <1> DEFINE reply == HandleUpdateMark(e, mark, index)
             b == e.book
             marked == ApplyMark(e, mark, index)
             chosen == {o.id : o \in {o \in Range(marked.stops) : ShouldTrigger(o, mark)}}
             scan == Scan(marked.stops, chosen)
             taken == scan.taken
             run == FoldLeft(RunTriggered, [book |-> b, events |-> << >>], taken)
             mk == [kind |-> "Mark", mark |-> mark, index |-> index]
  <1>1. IsEngine(e) /\ BookOK(b, owing) BY DEF EngineOK
  <1>2. IsEngine(marked)
    <2>1. e.stops \in Seq(Orders) /\ DistinctIds(e.stops) BY DEF EngineOK, StopsOK
    <2>2. QED BY <1>1, <2>1, MarkedIs
  <1>3. reply.engine.book = run.book /\ reply.events = <<mk>> \o run.events
    <2>1. reply = Reply([marked EXCEPT !.stops = scan.kept, !.book = run.book], <<mk>> \o run.events)
      BY DEF HandleUpdateMark
    <2> HIDE DEF reply, marked, scan, run, mk
    <2>2. [marked EXCEPT !.stops = scan.kept, !.book = run.book].book = run.book
      BY <1>2 DEF IsEngine
    <2>3. QED BY <2>1, <2>2 DEF Reply
  <1>4. /\ taken \in Seq(Orders) /\ DistinctIds(taken)
        /\ \A j \in DOMAIN taken : /\ taken[j].id \notin DOMAIN b.orders
                                   /\ owing[taken[j].id] = taken[j].rem + taken[j].hidden
    <2> DEFINE took == TakenStops(e, mark, index, chosen)
    <2> HIDE DEF chosen
    <2>1. /\ took \in Seq(Orders) /\ DistinctIds(took)
          /\ \A j \in DOMAIN took : /\ took[j].id \notin DOMAIN e.book.orders
                                   /\ owing[took[j].id] = took[j].rem + took[j].hidden
      BY StopsTaken
    <2>2. took = taken BY DEF TakenStops
    <2> HIDE DEF took, taken
    <2>3. QED BY <2>1, <2>2
  <1> HIDE DEF reply, taken
  <1>5. RunInTurn(b, run) /\ GoodBook(run.book) /\ IsSeq(run.events)
    BY <1>1, <1>4, TriggersInTurn
  <1>6. mk.kind = "Mark" OBVIOUS
  <1> HIDE DEF run, mk
  <1>7. Range(reply.events) = {mk} \cup Range(run.events)
    <2>1. IsSeq(<<mk>>) BY ShortSeq
    <2>2. Range(<<mk>>) = {mk} BY RangeOfShort
    <2>3. IsSeq(run.events) BY <1>5
    <2>4. Range(<<mk>> \o run.events) = Range(<<mk>>) \cup Range(run.events)
      BY <2>1, <2>3, RangeJoins
    <2>5. QED BY <1>3, <2>2, <2>4
  <1>8. FilledInTurn(b, run.book, reply.events)
    BY <1>5, <1>6, <1>7 DEF RunInTurn, FilledInTurn, MakerFill
  <1>9. QED BY <1>3, <1>5, <1>8, KeptIsNamed DEF RunInTurn, Orderly, reply

-----------------------------------------------------------------------------
(* Every step is orderly.                                                  *)

\* What a step owes to the orders that rest.
StepOrderly == Orderly(engine.book, engine'.book, out')

\* Every command, and the sweeper's call, is orderly.
LEMMA NextOrderly == IInv /\ [Next]_vars => StepOrderly \/ UNCHANGED vars
  <1> SUFFICES ASSUME IInv, Next PROVE StepOrderly OBVIOUS
  <1> DEFINE e == Counted
  <1>1. EngineOK(e, owed, nextId) /\ e.book = engine.book BY CountedOK
  <1>2. nextId \in Nat \ {0} BY <1>1 DEF EngineOK, Fresh
  <1> HIDE DEF e
  <1>3. ASSUME NEW reply, Process(reply), Orderly(engine.book, reply.engine.book, reply.events)
        PROVE  StepOrderly
    BY <1>3 DEF Process, StepOrderly
  <1>4. ASSUME NEW r \in Requests, NewOrder(r) PROVE StepOrderly
    <2>1. nextId <= MaxOrders /\ Process(HandleNewOrder(e, nextId, r)) BY <1>4 DEF NewOrder, e
    <2>2. nextId \in OrderIds BY <1>2, <2>1, EngineAssumption DEF OrderIds
    <2>3. QED BY <1>1, <1>3, <2>1, <2>2, NewOrderOrderly
  <1>5. ASSUME NEW id \in OrderIds, NEW user \in Users, CancelOrder(id, user) PROVE StepOrderly
    <2>1. Process(HandleCancelOrder(e, id, user)) BY <1>5 DEF CancelOrder, e
    <2>2. QED BY <1>1, <1>3, <2>1, CancelOrderOrderly
  <1>6. ASSUME NEW id \in OrderIds, NEW user \in Users, NEW a \in Amendments,
               AmendOrder(id, user, a)
        PROVE  StepOrderly
    <2>1. Process(HandleAmendOrder(e, id, user, a)) BY <1>6 DEF AmendOrder, e
    <2>2. QED BY <1>1, <1>3, <2>1, AmendOrderOrderly
  <1>7. ASSUME NEW user \in Users, CancelAllOrders(user) PROVE StepOrderly
    <2>1. Process(HandleCancelAll(e, user)) BY <1>7 DEF CancelAllOrders, e
    <2>2. QED BY <1>1, <1>3, <2>1, CancelAllOrderly
  <1>8. ASSUME NEW m \in MarkPrices, UpdateMarkPrice(m.mark, m.index) PROVE StepOrderly
    <2>1. m.mark \in Int /\ m.index \in Int BY EngineAssumption
    <2>2. Process(HandleUpdateMark(e, m.mark, m.index)) BY <1>8 DEF UpdateMarkPrice, e
    <2>3. QED BY <1>1, <1>3, <2>1, <2>2, UpdateMarkOrderly
  <1>9. CASE ComputeFunding
    <2> DEFINE premium == IF e.index = 0 THEN <<0, 1>> ELSE <<e.mark - e.index, e.index>>
               event == [kind |-> "Funding", premium |-> premium]
               reply == HandleComputeFunding(e)
    <2>1. reply = Reply([e EXCEPT !.premium = premium], <<event>>) BY DEF HandleComputeFunding
    <2>2. Process(reply) BY <1>9 DEF ComputeFunding, e
    <2>3. event.kind = "Funding" OBVIOUS
    <2>4. IsEngine(e) /\ GoodBook(e.book) BY <1>1 DEF EngineOK, BookOK
    <2> HIDE DEF premium, reply, event
    <2>5. [e EXCEPT !.premium = premium].book = e.book BY <2>4 DEF IsEngine
    <2>6. reply.engine.book = e.book /\ reply.events = <<event>> BY <2>1, <2>5 DEF Reply
    <2>7. Range(<<event>>) = {event} BY RangeOfShort
    <2>8. \A x \in Range(reply.events) : x.kind # "Filled" BY <2>3, <2>6, <2>7
    <2>9. QED BY <1>1, <1>3, <2>2, <2>4, <2>6, <2>8, StillIsOrderly
  <1>10. CASE ExpireOrders
    <2>1. PICK order \in HeapOrders(Due(engine, engine.seq)) : Process(CheckExpirations(engine, order))
      BY <1>10 DEF ExpireOrders
    <2> DEFINE now == engine.seq
    <2>2. EngineOK(engine, owed, nextId) BY DEF IInv
    <2> HIDE DEF now
    <2>3. QED BY <1>3, <2>1, <2>2, ExpirationsOrderly DEF now
  <1>11. QED BY <1>4, <1>5, <1>6, <1>7, <1>8, <1>9, <1>10 DEF Next

\* A maker is filled only when every order with priority over it has gone
\* (PriceTimePriority, match_order's loops): by a new order, an amended one or
\* one that a mark price triggered, each of which sees the book the one before
\* it left.
THEOREM AlwaysInPriceTimeOrder == Spec => PriceTimePriority
  <1> DEFINE A == \A i \in DOMAIN out' :
                     out'[i].kind = "Filled" /\ out'[i].maker
                       => \A a \in DOMAIN engine.book.orders :
                             HasPriority(engine.book, a, out'[i].id) => ~OnBook(engine'.book, a)
  <1>1. Spec => []IInv BY InitOK, NextOK, PTL DEF Spec
  <1>2. StepOrderly => A
    BY DEF StepOrderly, Orderly, FilledInTurn, MakerFill, Range, OnBook
  <1>3. IInv /\ [Next]_vars => [A]_vars BY <1>2, NextOrderly
  <1>4. Spec => [][A]_vars BY <1>1, <1>3, PTL DEF Spec
  <1>5. QED BY <1>4 DEF PriceTimePriority

\* Two orders queued in one level stay in that order while both stay in it,
\* unless the one ahead was canceled or its request refused (PlaceKept): an
\* order is put back at the end of its queue by an amendment, or by a cancel
\* that was not its owner's, and by nothing else.
THEOREM PlaceAlwaysKept == Spec => PlaceKept
  <1> DEFINE A == \A a, b \in OrderIds :
                     Ahead(engine.book, a, b) /\ Ahead(engine'.book, b, a)
                       => \E i \in DOMAIN out' : out'[i].kind \in {"Canceled", "Rejected"}
                                                 /\ out'[i].id = a
  <1>1. Spec => []IInv BY InitOK, NextOK, PTL DEF Spec
  <1>2. StepOrderly => A
    <2> SUFFICES ASSUME StepOrderly, NEW a \in OrderIds, NEW b \in OrderIds,
                        Ahead(engine.book, a, b) /\ Ahead(engine'.book, b, a)
                 PROVE  \E i \in DOMAIN out' : out'[i].kind \in {"Canceled", "Rejected"}
                                               /\ out'[i].id = a
      OBVIOUS
    <2>1. PICK x \in Range(out') : x.kind \in {"Canceled", "Rejected"} /\ x.id = a
      BY DEF StepOrderly, Orderly, Named
    <2>2. QED BY <2>1 DEF Range
  <1>3. IInv /\ [Next]_vars => [A]_vars BY <1>2, NextOrderly
  <1>4. Spec => [][A]_vars BY <1>1, <1>3, PTL DEF Spec
  <1>5. QED BY <1>4 DEF PlaceKept

-----------------------------------------------------------------------------
(* What a fill-or-kill order may count on is what it gets.                 *)

\* A maker's turn that leaves the taker something has emptied the maker.
LEMMA MakerEmptied ==
    ASSUME NEW m, m.taker.rem \in Nat, NEW id, m.book.orders[id].rem \in Nat,
           FillAgainst(m, id).taker.rem > 0, NEW o, m.taker = Left(o, m.taker.rem), o \in Orders
    PROVE  /\ m.taker.rem > 0
           /\ FillAgainst(m, id).taker.rem = m.taker.rem - m.book.orders[id].rem
  <1> DEFINE t == m.taker.rem
             q == m.book.orders[id].rem
             v == FillAgainst(m, id)
  <1>1. t # 0
    <2>1. ASSUME t = 0 PROVE FALSE
      <3>1. FillAgainst(m, id) = m BY <2>1 DEF FillAgainst
      <3>2. QED BY <2>1, <3>1
    <2>2. QED BY <2>1
  <1>2. v.taker = [m.taker EXCEPT !.rem = @ - FillQty(m, id)] BY <1>1 DEF FillAgainst, Traded
  <1>3. m.taker \in Orders BY LeftIs
  <1>4. v.taker.rem = t - FillQty(m, id) BY <1>2, <1>3 DEF Orders
  <1>5. FillQty(m, id) = IF t <= q THEN t ELSE q BY MinOfTwo DEF FillQty
  <1> HIDE DEF v, t, q
  <1>6. t \in Nat /\ q \in Nat /\ v.taker.rem > 0 BY DEF t, q, v
  <1>7. v.taker.rem = t - q BY <1>4, <1>5, <1>6
  <1>8. QED BY <1>1, <1>6, <1>7 DEF v, t, q

\* As long as the taker wants more, it has taken all that the makers had whose
\* turn it was.
LEMMA SweepTakes ==
    ASSUME NEW b, GoodBook(b), NEW o \in Orders, o.id \notin DOMAIN b.orders,
           Swept(b, o).taker.rem > 0
    PROVE  o.rem - Swept(b, o).taker.rem
             = SumFunctionOnSet(Quantities(b.orders),
                                {id \in DOMAIN b.orders : Within(o, b.orders[id])})
  <1> DEFINE f == b.orders
             s == Makers(b, o)
             n == Len(s)
             left == Swept(b, o).taker.rem
             W == {id \in DOMAIN f : Within(o, f[id])}
             Met(k) == {s[i] : i \in 1 .. k}
  <1>1. /\ s \in Seq(OrderIds) /\ IsInjective(s) /\ n \in Nat /\ DOMAIN s = 1 .. n
        /\ Range(s) = W
    BY MakersAre
  <1>2. Maps(f, OrderIds, Orders) BY DEF GoodBook, IsBook
  <1>3. PICK tr : /\ IsSweep(tr, b, o, s)
                  /\ \A k \in Nat : k <= n => SweepAt(f, o, s, k, tr[k])
                  /\ Swept(b, o).taker = tr[n].taker
    BY SweepRuns
  <1>4. o.rem \in Nat BY OrderHas
  <1> HIDE DEF s, n
  <1>5. Met(n) = W BY <1>1 DEF Range
  <1>6. \A k \in 0 .. n : Met(k) \subseteq W BY <1>1 DEF Range
  <1>7. \A k \in 0 .. n : IsFiniteSet(Met(k)) /\ IsIntOn(Quantities(f), Met(k))
    <2>1. IsFiniteSet(Range(s)) BY <1>1, RangeFinite
    <2>2. \A k \in 0 .. n : Met(k) \in SUBSET DOMAIN f BY <1>6
    <2> HIDE DEF Met, W, f
    <2>3. QED BY <1>1, <1>2, <1>6, <2>1, <2>2, FS_Subset, QuantitiesInt
  <1> DEFINE K == {k \in Nat : k <= n /\ tr[k].taker.rem > 0 =>
                     o.rem - tr[k].taker.rem = SumFunctionOnSet(Quantities(f), Met(k))}
  <1>8. 0 \in K
    <2>1. tr[0].taker = o BY <1>3 DEF IsSweep
    <2>2. Met(0) = {} OBVIOUS
    <2>3. SumFunctionOnSet(Quantities(f), Met(0)) = 0 BY <2>2, SumEmpty
    <2>4. o.rem - o.rem = 0 BY <1>4
    <2>5. QED BY <2>1, <2>3, <2>4
  <1>9. ASSUME NEW k \in Nat, k \in K PROVE k + 1 \in K
    <2> DEFINE l == k + 1
               u == tr[k]
               v == tr[l]
               id == s[l]
    <2> SUFFICES ASSUME l <= n, v.taker.rem > 0
                 PROVE  o.rem - v.taker.rem = SumFunctionOnSet(Quantities(f), Met(l))
      OBVIOUS
    <2>1. l \in 1 .. n /\ l - 1 = k /\ k <= n /\ k \in 0 .. n /\ l > k BY <1>1
    <2>2. SweepAt(f, o, s, k, u) BY <1>3, <2>1
    <2>3. v = FillAgainst(u, id) BY <1>3, <2>1 DEF IsSweep, n
    <2>4. id \in DOMAIN u.book.orders /\ u.book.orders[id] = f[id]
      BY <2>1, <2>2 DEF SweepAt, n
    <2>5. Matched(f, o, u) BY <2>2 DEF SweepAt
    <2>6. u.taker.rem \in Nat /\ u.taker = Left(o, u.taker.rem) BY <2>5 DEF Matched
    <2>7. id \in W BY <1>1, <2>1 DEF Range
    <2>8. f[id].rem \in Nat BY <1>2, <2>7, OrderHas DEF Maps
    <2>9. u.taker.rem > 0 /\ v.taker.rem = u.taker.rem - f[id].rem
      <3> HIDE DEF u, v, id, l, f
      <3>1. QED BY <2>3, <2>4, <2>6, <2>8, MakerEmptied, v.taker.rem > 0
    <2>10. o.rem - u.taker.rem = SumFunctionOnSet(Quantities(f), Met(k))
      BY <1>9, <2>1, <2>9
    <2>11. id \notin Met(k) /\ Met(l) = Met(k) \cup {id}
      <3>1. \A i \in 1 .. k : i \in 1 .. n /\ i # l BY <1>1, <2>1
      <3>2. \A i \in 1 .. k : s[i] # id BY <1>1, <2>1, <3>1 DEF IsInjective
      <3>3. 1 .. l = (1 .. k) \cup {l} BY <2>1
      <3> HIDE DEF l
      <3>4. QED BY <3>2, <3>3
    <2>12. l \in 0 .. n BY <1>1, <2>1
    <2>13. IsFiniteSet(Met(k)) /\ IsIntOn(Quantities(f), Met(l)) BY <1>7, <2>1, <2>12
    <2>14. Quantities(f)[id] = f[id].rem BY <2>7 DEF Quantities
    <2> HIDE DEF Met, l, id, v, u
    <2>15. SumFunctionOnSet(Quantities(f), Met(l))
             = SumFunctionOnSet(Quantities(f), Met(k)) + Quantities(f)[id]
      BY <2>11, <2>13, SumWith
    <2>16. QED BY <1>4, <2>6, <2>8, <2>9, <2>10, <2>14, <2>15
  <1>10. \A k \in Nat : k \in K
    <2> HIDE DEF K
    <2>1. QED BY <1>8, <1>9, Induction
  <1>11. n \in K /\ n <= n BY <1>1, <1>10
  <1>12. tr[n].taker.rem = left BY <1>3
  <1> HIDE DEF Met
  <1>13. QED BY <1>5, <1>11, <1>12

\* What the levels within a taker's limit hold is what their orders have.
LEMMA LevelsHold ==
    ASSUME NEW b, GoodBook(b), NEW o \in Orders
    PROVE  LET far == Opposite(o.side)
               W == {id \in DOMAIN b.orders : Within(o, b.orders[id])}
           IN  SumFunctionOnSet(Totals(b, far), Reachable(b, o))
                 = SumFunctionOnSet(Quantities(b.orders), W)
  <1> DEFINE f == b.orders
             far == Opposite(o.side)
             W == {id \in DOMAIN f : Within(o, f[id])}
             P == Reachable(b, o)
             q == Quantities(f)
             total == Totals(b, far)
             g == [p \in P |-> Range(b.levels[far][p].ids)]
  <1>1. o.side \in Sides /\ far \in Sides BY OrderHas, OppositeIs
  <1>2. Maps(f, OrderIds, Orders) /\ Maps(b.levels[far], Nat, Levels)
    BY <1>1 DEF GoodBook, IsBook
  <1>3. P \subseteq Prices(b, far) /\ Prices(b, far) = DOMAIN b.levels[far]
    BY DEF Reachable, Prices
  <1>4. IsFiniteSet(P)
    <2> HIDE DEF P, far
    <2>1. QED BY <1>1, <1>3, PricesFinite, FS_Subset
  <1>5. ASSUME NEW p \in P
        PROVE  /\ LevelAgrees(f, far, p, b.levels[far][p]) /\ b.levels[far][p].ids \in Seq(OrderIds)
               /\ g[p] = Range(b.levels[far][p].ids)
    <2>1. LevelAgrees(f, far, p, b.levels[far][p]) BY <1>1, <1>3 DEF GoodBook
    <2>2. b.levels[far][p] \in Levels BY <1>2, <1>3 DEF Maps
    <2>3. b.levels[far][p].ids \in Seq(OrderIds) BY <2>2 DEF Levels
    <2>4. QED BY <2>1, <2>3
  <1>6. ASSUME NEW p \in P
        PROVE  IsFiniteSet(g[p]) /\ IsIntOn(q, g[p]) /\ total[p] = SumFunctionOnSet(q, g[p])
    <2>1. g[p] \in SUBSET DOMAIN f BY <1>5 DEF LevelAgrees
    <2>2. total[p] = b.levels[far][p].total BY <1>3 DEF Totals
    <2>3. b.levels[far][p].total = SumFunctionOnSet(q, Range(b.levels[far][p].ids))
      BY <1>5 DEF LevelAgrees
    <2> HIDE DEF g, q, total, f
    <2>4. IsFiniteSet(g[p]) BY <1>5, RangeFinite
    <2>5. IsIntOn(q, g[p]) BY <1>2, <2>1, QuantitiesInt DEF q
    <2>6. QED BY <1>5, <2>2, <2>3, <2>4, <2>5
  <1>7. ASSUME NEW p \in P, NEW r \in P, p # r PROVE g[p] \cap g[r] = {}
    BY <1>5, <1>7 DEF LevelAgrees
  <1>8. Joined(g, P) = W
    <2>1. ASSUME NEW p \in P, NEW id \in g[p] PROVE id \in W
      <3>1. id \in DOMAIN f /\ f[id].side = far /\ f[id].price = p BY <1>5 DEF LevelAgrees
      <3>2. IsLimit(o.type) => Crosses(o.side, o.price, p) BY DEF Reachable
      <3>3. QED BY <3>1, <3>2 DEF Within
    <2>2. ASSUME NEW id \in W PROVE \E p \in P : id \in g[p]
      <3> DEFINE p == f[id].price
      <3>1. id \in DOMAIN f /\ Within(o, f[id]) BY <2>2
      <3>2. f[id].side = far /\ (IsLimit(o.type) => Crosses(o.side, o.price, p))
        BY <3>1 DEF Within
      <3>3. Filed(b, id, f[id]) BY <3>1 DEF GoodBook
      <3>4. p \in DOMAIN b.levels[far] /\ id \in Range(b.levels[far][p].ids)
        BY <3>2, <3>3 DEF Filed
      <3>5. p \in P BY <3>2, <3>4 DEF Reachable, Prices
      <3> HIDE DEF P, p
      <3>6. id \in g[p] BY <3>4, <3>5
      <3>7. QED BY <3>5, <3>6
    <2> HIDE DEF g, P, W
    <2>3. QED BY <2>1, <2>2 DEF Joined
  <1> HIDE DEF g, P, W, q, total, f, far
  <1>9. AreSums(total, P, q, g) BY <1>6, <1>7 DEF AreSums
  <1>10. SumFunctionOnSet(total, P) = SumFunctionOnSet(q, Joined(g, P))
    BY <1>4, <1>9, SumOfParts
  <1>11. QED BY <1>8, <1>10 DEF P, W, q, total, f, far

\* Fill-or-kill: an order that is not rejected is executed as far as it shows.
LEMMA FillOrKill ==
    ASSUME NEW b, GoodBook(b), NEW o \in Orders, o.id \notin DOMAIN b.orders,
           o.tif = "FOK", ~MatchOrder(b, o).rejected
    PROVE  MatchOrder(b, o).taker.rem = 0
  <1> DEFINE far == Opposite(o.side)
             W == {id \in DOMAIN b.orders : Within(o, b.orders[id])}
             held == SumFunctionOnSet(Quantities(b.orders), W)
             m == MatchOrder(b, o)
  <1>1. ~Unfillable(b, o)
    <2>1. ASSUME Unfillable(b, o) PROVE FALSE
      <3>1. MatchOrder(b, o) = Unmatched(b, o, TRUE) BY <2>1 DEF MatchOrder
      <3>2. QED BY <3>1 DEF Unmatched
    <2>2. QED BY <2>1
  <1>2. m = Swept(b, o) BY <1>1 DEF MatchOrder
  <1>3. Matched(b.orders, o, m) BY MatchLeaves
  <1>4. m.taker.rem \in Nat /\ o.rem \in Nat BY <1>3, OrderHas DEF Matched
  <1>5. SumFunctionOnSet(Totals(b, far), Reachable(b, o)) = held BY LevelsHold
  <1>6. ~(held < o.rem)
    <2>1. CASE IsLimit(o.type)
      <3>1. Reachable(b, o) = {p \in Prices(b, far) : Crosses(o.side, o.price, p)}
        BY <2>1 DEF Reachable
      <3>2. AvailableQty(b, o.side, o.price) = held BY <1>5, <3>1 DEF AvailableQty
      <3>3. QED BY <1>1, <2>1, <3>2 DEF Unfillable
    <2>2. CASE ~IsLimit(o.type)
      <3>1. Reachable(b, o) = Prices(b, far) BY <2>2 DEF Reachable
      <3>2. DOMAIN Totals(b, far) = Prices(b, far) BY DEF Totals
      <3>3. TotalOppositeQty(b, o.side) = held BY <1>5, <3>1, <3>2 DEF TotalOppositeQty, SumFunction
      <3>4. QED BY <1>1, <2>2, <3>3 DEF Unfillable
    <2>3. QED BY <2>1, <2>2
  <1>7. m.taker.rem > 0 => o.rem - m.taker.rem = held BY <1>2, SweepTakes
  <1> HIDE DEF m, held
  <1>8. QED BY <1>4, <1>6, <1>7 DEF m

-----------------------------------------------------------------------------
(* What the events tell a taker took.                                      *)

\* What one event tells that the order took.
TookOf(x, id) == IF x.kind = "Filled" /\ ~x.maker /\ x.id = id THEN x.qty ELSE 0

\* Fills of a whole quantity.
Countable(s) == \A x \in Range(s) : x.kind = "Filled" => x.qty \in Int

\* One more event.
LEMMA TakenMore ==
    ASSUME NEW S, NEW s \in Seq(S), Countable(s), NEW x \in S,
           x.kind = "Filled" => x.qty \in Int, NEW id
    PROVE  /\ TakerFills(s, id) \in Int /\ Countable(Append(s, x))
           /\ TakerFills(Append(s, x), id) = TakerFills(s, id) + TookOf(x, id)
  <1> DEFINE t == Append(s, x)
             n == Len(s)
             D == {j \in DOMAIN s : s[j].kind = "Filled" /\ ~s[j].maker /\ s[j].id = id}
             E == {j \in DOMAIN t : t[j].kind = "Filled" /\ ~t[j].maker /\ t[j].id = id}
             f == [i \in D |-> s[i].qty]
             g == [i \in E |-> t[i].qty]
  <1>1. /\ n \in Nat /\ DOMAIN s = 1 .. n /\ DOMAIN t = 1 .. n + 1
        /\ \A i \in 1 .. n : t[i] = s[i] /\ i # n + 1
        /\ t[n + 1] = x
    OBVIOUS
  <1>2. Range(t) = Range(s) \cup {x} BY AppendMembers
  <1>3. Countable(t) BY <1>2 DEF Countable
  <1>4. TakerFills(s, id) = SumFunctionOnSet(f, D) BY DEF TakerFills, SumFunction
  <1>5. TakerFills(t, id) = SumFunctionOnSet(g, E) BY DEF TakerFills, SumFunction
  <1>6. IsFiniteSet(D)
    <2>1. D \in SUBSET (1 .. n) /\ IsFiniteSet(1 .. n) BY <1>1, FS_Interval
    <2> HIDE DEF D
    <2>2. QED BY <2>1, FS_Subset
  <1>7. IsIntOn(f, D) BY DEF IsIntOn, Countable, Range
  <1>8. TakerFills(s, id) \in Int
    <2> HIDE DEF f, D
    <2>1. QED BY <1>4, <1>6, <1>7, SumInt
  <1> HIDE DEF t
  <1>9. D \subseteq E /\ n + 1 \notin D /\ E \subseteq D \cup {n + 1} BY <1>1
  <1>10. SameOn(f, g, D) BY <1>1, <1>9 DEF SameOn
  <1>11. IsIntOn(g, E) BY <1>3 DEF IsIntOn, Countable, Range
  <1>12. CASE x.kind = "Filled" /\ ~x.maker /\ x.id = id
    <2>1. E = D \cup {n + 1} BY <1>1, <1>9, <1>12
    <2>2. g[n + 1] = x.qty BY <1>1, <2>1
    <2> HIDE DEF f, g, D, E
    <2>3. SumFunctionOnSet(g, E) = SumFunctionOnSet(g, D) + g[n + 1]
      BY <1>6, <1>9, <1>11, <2>1, SumWith
    <2>4. SumFunctionOnSet(f, D) = SumFunctionOnSet(g, D) BY <1>6, <1>10, SumSame
    <2>5. QED BY <1>3, <1>4, <1>5, <1>8, <1>12, <2>2, <2>3, <2>4 DEF TookOf, t
  <1>13. CASE ~(x.kind = "Filled" /\ ~x.maker /\ x.id = id)
    <2>1. E = D BY <1>1, <1>9, <1>13
    <2> HIDE DEF f, g, D, E
    <2>2. SumFunctionOnSet(f, D) = SumFunctionOnSet(g, D) BY <1>6, <1>10, SumSame
    <2>3. QED BY <1>3, <1>4, <1>5, <1>8, <1>13, <2>1, <2>2 DEF TookOf, t
  <1>14. QED BY <1>12, <1>13

\* Nothing tells of nothing.
LEMMA TakenNone == ASSUME NEW id PROVE TakerFills(<< >>, id) = 0
  <1> DEFINE f == [i \in {} |-> << >>[i].qty]
  <1>1. TakerFills(<< >>, id) = SumFunctionOnSet(f, {})
    <2>1. DOMAIN << >> = {} OBVIOUS
    <2>2. {j \in DOMAIN << >> : << >>[j].kind = "Filled" /\ ~<< >>[j].maker /\ << >>[j].id = id} = {}
      BY <2>1
    <2>3. QED BY <2>2 DEF TakerFills, SumFunction
  <1>2. QED BY <1>1, SumEmpty

\* Events of a match in which the order is the taker only.
TakerOnly(s, n) ==
    \A x \in Range(s) : /\ x.kind \in {"Filled", "Trade"}
                        /\ x.kind = "Filled" => x.qty \in Int
                        /\ MakerFill(x) => x.id # n

\* What the fills of a taker take is what is owed less afterwards.
LEMMA TakenIsPaid ==
    ASSUME NEW S, NEW s \in Seq(S), NEW n \in OrderIds, TakerOnly(s, n), NEW first,
           first.kind = "Accepted", NEW owing \in [OrderIds -> Int]
    PROVE  /\ Count!Fold(owing, s)[n] = owing[n] - TakerFills(<<first>> \o s, n)
           /\ TakerFills(<<first>> \o s, n) \in Int /\ Countable(<<first>> \o s)
  <1> DEFINE X == {x \in S : /\ x.kind \in {"Filled", "Trade"}
                             /\ x.kind = "Filled" => x.qty \in Int
                             /\ MakerFill(x) => x.id # n}
             Y == X \cup {first}
             with(t) == <<first>> \o t
             T == {t \in Seq(X) : LET r == Count!Fold(owing, t)
                                  IN  /\ r \in [OrderIds -> Int]
                                      /\ r[n] = owing[n] - TakerFills(with(t), n)}
  <1>1. s \in Seq(X)
    <2>1. \A i \in 1 .. Len(s) : s[i] \in S /\ s[i] \in Range(s) BY DEF Range
    <2>2. \A i \in 1 .. Len(s) : s[i] \in X BY <2>1 DEF TakerOnly
    <2>3. s = [i \in 1 .. Len(s) |-> s[i]] /\ Len(s) \in Nat OBVIOUS
    <2> HIDE DEF X
    <2>4. QED BY <2>2, <2>3
  <1>2. owing[n] \in Int OBVIOUS
  <1>3. \A y \in Y : y.kind = "Filled" => y.qty \in Int OBVIOUS
  <1>4. \A x \in X : x \in Y OBVIOUS
  <1>5. ASSUME NEW t \in Seq(X)
        PROVE  /\ with(t) \in Seq(Y) /\ Countable(with(t))
               /\ \A x \in X : with(Append(t, x)) = Append(with(t), x)
    <2> HIDE DEF X
    <2>1. t \in Seq(Y) /\ <<first>> \in Seq(Y) OBVIOUS
    <2> HIDE DEF Y
    <2>2. with(t) \in Seq(Y) BY <2>1
    <2>3. Range(with(t)) \subseteq Y
      <3> HIDE DEF with
      <3>1. QED BY <2>2 DEF Range
    <2>4. Countable(with(t)) BY <1>3, <2>3 DEF Countable
    <2>5. \A x \in X : with(Append(t, x)) = Append(with(t), x) BY <2>1
    <2>6. QED BY <2>2, <2>4, <2>5
  <1>6. << >> \in T
    <2>1. Count!Fold(owing, << >>) = owing BY Count!FoldEmpty
    <2>2. with(<< >>) = Append(<< >>, first) OBVIOUS
    <2>3. << >> \in Seq({first}) /\ Countable(<< >>) BY DEF Countable, Range
    <2>4. TakerFills(Append(<< >>, first), n) = TakerFills(<< >>, n) + TookOf(first, n)
      BY <2>3, TakenMore
    <2>5. TakerFills(with(<< >>), n) = 0
      <3>1. TookOf(first, n) = 0 BY DEF TookOf
      <3> HIDE DEF with
      <3>2. QED BY <2>2, <2>4, <3>1, TakenNone
    <2> HIDE DEF with
    <2>6. QED BY <1>2, <2>1, <2>5
  <1> HIDE DEF with
  <1>7. ASSUME NEW t \in Seq(X), NEW x \in X, t \in T PROVE Append(t, x) \in T
    <2> DEFINE r == Count!Fold(owing, t)
               w == Count!Fold(owing, Append(t, x))
               taken == TakerFills(with(t), n)
               more == TakerFills(with(Append(t, x)), n)
    <2>1. r \in [OrderIds -> Int] /\ r[n] = owing[n] - taken BY <1>7
    <2>2. w = Tally(r, x)
      <3> HIDE DEF X
      <3>1. QED BY Count!FoldAppend
    <2>3. taken \in Int /\ more = taken + TookOf(x, n)
      <3>1. with(t) \in Seq(Y) /\ Countable(with(t)) /\ x \in Y BY <1>4, <1>5
      <3>2. x.kind = "Filled" => x.qty \in Int OBVIOUS
      <3>3. with(Append(t, x)) = Append(with(t), x) BY <1>5
      <3> HIDE DEF X, Y
      <3>4. QED BY <3>1, <3>2, <3>3, TakenMore
    <2>4. w \in [OrderIds -> Int] /\ w[n] = owing[n] - more
      <3> HIDE DEF r, w, taken, more
      <3>1. CASE x.kind = "Trade"
        <4>1. w = r BY <2>2, <3>1, TallyIs
        <4>2. TookOf(x, n) = 0 BY <3>1 DEF TookOf
        <4>3. QED BY <1>2, <2>1, <2>3, <4>1, <4>2
      <3>2. CASE x.kind = "Filled"
        <4> DEFINE q == x.qty
        <4>1. w = [r EXCEPT ![x.id] = @ - q] /\ q \in Int BY <2>2, <3>2, TallyIs
        <4>2. TookOf(x, n) = IF x.id = n THEN q ELSE 0 BY <3>2 DEF TookOf, MakerFill
        <4>3. w \in [OrderIds -> Int]
          <5>1. w = [i \in OrderIds |-> IF i = x.id THEN r[i] - q ELSE r[i]] BY <2>1, <4>1
          <5>2. \A i \in OrderIds : r[i] \in Int BY <2>1
          <5> HIDE DEF q
          <5>3. \A i \in OrderIds : (IF i = x.id THEN r[i] - q ELSE r[i]) \in Int BY <4>1, <5>2
          <5>4. QED BY <5>1, <5>3
        <4>4. w[n] = r[n] - IF x.id = n THEN q ELSE 0 BY <2>1, <4>1
        <4> HIDE DEF q
        <4>5. QED BY <1>2, <2>1, <2>3, <4>1, <4>2, <4>3, <4>4
      <3>3. QED BY <3>1, <3>2
    <2>5. Append(t, x) \in Seq(X) OBVIOUS
    <2>6. QED BY <2>4, <2>5
  <1>8. \A t \in Seq(X) : t \in T
    <2> HIDE DEF X, T
    <2>1. QED BY <1>6, <1>7, SequenceInduction
  <1>9. Count!Fold(owing, s)[n] = owing[n] - TakerFills(with(s), n) BY <1>1, <1>8
  <1>10. TakerFills(with(s), n) \in Int /\ Countable(with(s))
    <2>1. with(s) \in Seq(Y) /\ Countable(with(s)) BY <1>1, <1>5
    <2>2. first \in Y /\ (first.kind = "Filled" => first.qty \in Int) OBVIOUS
    <2> HIDE DEF Y
    <2>3. QED BY <2>1, <2>2, TakenMore
  <1>11. QED BY <1>9, <1>10 DEF with

\* A new order takes what is off its quantity after the match.
LEMMA TakenIs ==
    ASSUME NEW b, GoodBook(b), NEW o \in Orders, o.id \notin DOMAIN b.orders,
           ~MatchOrder(b, o).rejected, NEW ts, NEW gone, gone.kind = "Canceled"
    PROVE  LET m == MatchOrder(b, o)
               full == <<Accepted(o, ts)>> \o FillEvents(m)
           IN  /\ TakerFills(full, o.id) = o.rem - m.taker.rem
               /\ TakerFills(Append(full, gone), o.id) = o.rem - m.taker.rem
  <1> DEFINE m == MatchOrder(b, o)
             n == o.id
             fills == FillEvents(m)
             first == Accepted(o, ts)
             full == <<first>> \o fills
             owing == [id \in OrderIds |-> 0]
             r == Count!Fold(owing, fills)
  <1>1. Matched(b.orders, o, m) BY MatchLeaves
  <1>2. /\ m.taker.rem \in Nat /\ m.taker = Left(o, m.taker.rem) /\ m.fills \in Seq(Fills)
        /\ o.rem \in Nat /\ n \in OrderIds
    BY <1>1, OrderHas DEF Matched
  <1>3. InTurn(b, o, m) BY MatchInTurn
  <1>4. \A i \in DOMAIN m.fills : m.fills[i].maker # n BY <1>3 DEF InTurn
  <1>5. owing \in [OrderIds -> Int] /\ owing[n] = 0 BY <1>2
  <1> HIDE DEF m, owing
  <1>6. TakerOnly(fills, n)
    <2> SUFFICES ASSUME NEW x \in Range(fills)
                 PROVE  /\ x.kind \in {"Filled", "Trade"}
                        /\ x.kind = "Filled" => x.qty \in Int
                        /\ MakerFill(x) => x.id # n
      BY DEF TakerOnly
    <2>1. /\ x.kind \in {"Filled", "Trade"}
          /\ MakerFill(x) => \E i \in DOMAIN m.fills : x.id = m.fills[i].maker
          /\ x.kind = "Filled" => x.qty \in Nat
      BY <1>2, FillEventsAre
    <2>2. QED BY <1>4, <2>1
  <1>7. Settled(owing, r, b.orders, m.book.orders, o, m.taker.rem) BY <1>1, <1>5, FillsSettle
  <1>8. r[n] = 0 - (o.rem - m.taker.rem) BY <1>5, <1>7 DEF Settled
  <1>9. first.kind = "Accepted" BY KindsAre
  <1>10. PICK S : fills \in Seq(S) BY <1>2, FillEventsPay
  <1> HIDE DEF fills, first
  <1>11. /\ r[n] = owing[n] - TakerFills(full, n)
         /\ TakerFills(full, n) \in Int /\ Countable(full)
    BY <1>2, <1>5, <1>6, <1>9, <1>10, TakenIsPaid
  <1> HIDE DEF full, r
  <1>12. TakerFills(full, n) = o.rem - m.taker.rem BY <1>2, <1>5, <1>8, <1>11
  <1>13. TakerFills(Append(full, gone), n) = TakerFills(full, n)
    <2>1. IsSeq(full)
      <3>1. IsSeq(<<first>>) /\ IsSeq(fills) BY <1>10, ShortSeq DEF IsSeq
      <3>2. QED BY <3>1, SeqJoins DEF full
    <2>2. PICK R : full \in Seq(R) /\ gone \in R BY <2>1, AnySeq
    <2>3. TookOf(gone, n) = 0 BY DEF TookOf
    <2>4. TakerFills(Append(full, gone), n) = TakerFills(full, n) + TookOf(gone, n)
      BY <1>11, <2>2, TakenMore
    <2>5. QED BY <1>11, <2>3, <2>4
  <1>14. QED BY <1>12, <1>13 DEF full, fills, first, m
-----------------------------------------------------------------------------
(* Every new order is treated as its time in force asks.                   *)

\* What the acceptance x, among these events, promises of the book d left.
Honoured(x, events, d) ==
    LET o == x.terms
        taken == TakerFills(events, o.id)
    IN  /\ o.tif = "FOK" /\ o.type # "Iceberg" => taken = x.qty
        /\ o.tif = "PostOnly" => taken = 0
        /\ o.tif \in {"IOC", "FOK"} => ~OnBook(d, o.id)

\* What an acceptance says of the order.
LEMMA AcceptedSays ==
    ASSUME NEW o, NEW ts, DOMAIN o = {"id", "user", "side", "type", "tif", "price", "stop", "vis",
                                      "delta", "peak", "orig", "rem", "hidden", "expire"}
    PROVE  LET x == Accepted(o, ts)
           IN  /\ x.terms.id = o.id /\ x.terms.type = o.type /\ x.terms.tif = o.tif
               /\ x.qty = o.orig
  BY DEF Accepted, TermNames, Restrict

\* NewOrder honours the time in force of the order it places.
LEMMA NewOrderHonours ==
    ASSUME NEW e, NEW owing, NEW n \in OrderIds, EngineOK(e, owing, n), NEW r \in Requests
    PROVE  LET reply == HandleNewOrder(e, n, r)
           IN  \A x \in Range(reply.events) :
                  x.kind = "Accepted" /\ ~Conditional(x.terms.type)
                    => Honoured(x, reply.events, reply.engine.book)
  <1> DEFINE b == e.book
             o == BookOrder(e, n, r)
             m == MatchOrder(b, o)
             left == Refilled(m.taker)
             d == HandleNewOrder(e, n, r).engine.book
             events == HandleNewOrder(e, n, r).events
             acc == Accepted(o, e.seq)
             gone == Canceled(left)
             fills == FillEvents(m)
             full == <<acc>> \o fills
  <1> SUFFICES ASSUME NEW x \in Range(events), x.kind = "Accepted", ~Conditional(x.terms.type)
               PROVE  Honoured(x, events, d)
    OBVIOUS
  <1>1. IsEngine(e) /\ GoodBook(b) BY DEF EngineOK, BookOK
  <1>2. \/ d = b /\ events = <<Rejected(n)>>
        \/ d = b /\ events = <<acc>> /\ Conditional(r.type)
        \/ /\ ~InvalidRequest(r) /\ ~OnBook(b, n) /\ ~m.rejected
           /\ \/ d = m.book /\ left.rem = 0 /\ events = full
              \/ d = m.book /\ NeverRests(o) /\ events = Append(full, gone)
              \/ d = InsertOrder(m.book, left) /\ left.rem # 0 /\ ~NeverRests(o) /\ events = full
    BY NewOrderReplies
  <1>3. acc.kind = "Accepted" /\ gone.kind = "Canceled" /\ Rejected(n).kind = "Rejected"
    BY KindsAre
  <1>4. /\ DOMAIN o = {"id", "user", "side", "type", "tif", "price", "stop", "vis", "delta",
                       "peak", "orig", "rem", "hidden", "expire"}
        /\ o.id = n /\ o.type = r.type /\ o.orig = r.qty
        /\ o.type # "Iceberg" => o.rem = r.qty
    BY DEF BookOrder
  <1> HIDE DEF o
  <1>5. acc.terms.id = n /\ acc.terms.type = o.type /\ acc.terms.tif = o.tif /\ acc.qty = r.qty
    BY <1>4, AcceptedSays
  <1> HIDE DEF d, events, acc, gone
  <1>6. CASE d = b /\ events = <<Rejected(n)>>
    <2>1. Range(events) = {Rejected(n)} BY <1>6, RangeOfShort
    <2>2. QED BY <1>3, <2>1
  <1>7. CASE d = b /\ events = <<acc>> /\ Conditional(r.type)
    <2>1. Range(events) = {acc} BY <1>7, RangeOfShort
    <2>2. QED BY <1>4, <1>5, <1>7, <2>1
  <1>8. CASE /\ ~InvalidRequest(r) /\ ~OnBook(b, n) /\ ~m.rejected
             /\ \/ d = m.book /\ left.rem = 0 /\ events = full
                \/ d = m.book /\ NeverRests(o) /\ events = Append(full, gone)
                \/ d = InsertOrder(m.book, left) /\ left.rem # 0 /\ ~NeverRests(o) /\ events = full
    <2>1. o \in Orders BY <1>1, <1>8, BookOrderIs DEF o
    <2>2. n \notin DOMAIN b.orders BY <1>8 DEF OnBook
    <2>3. Matched(b.orders, o, m) BY <1>1, <1>4, <1>8, <2>1, <2>2, MatchLeaves
    <2>4. IsSeq(fills) BY <1>1, <1>4, <1>8, <2>1, <2>2, FillsInSeq
    <2>5. \A y \in Range(fills) : y.kind \in {"Filled", "Trade"}
      <3>1. m.fills \in Seq(Fills) BY <2>3 DEF Matched
      <3> HIDE DEF m
      <3>2. QED BY <3>1, FillEventsAre
    <2>6. x = acc
      <3>1. IsSeq(<<acc>>) /\ Range(<<acc>>) = {acc} BY ShortSeq, RangeOfShort
      <3> HIDE DEF fills
      <3>2. Range(full) = Range(<<acc>>) \cup Range(fills) BY <2>4, <3>1, RangeJoins
      <3>3. IsSeq(full) BY <2>4, <3>1, SeqJoins
      <3> HIDE DEF full
      <3>4. Range(Append(full, gone)) = Range(full) \cup {gone} BY <3>3, RangeJoins
      <3>5. Range(events) \subseteq {acc, gone} \cup Range(fills) BY <1>8, <3>1, <3>2, <3>4
      <3>6. QED BY <1>3, <2>5, <3>5
    <2>7. TakerFills(events, n) = o.rem - m.taker.rem
      <3>1. /\ TakerFills(full, n) = o.rem - m.taker.rem
            /\ TakerFills(Append(full, gone), n) = o.rem - m.taker.rem
        BY <1>1, <1>3, <1>4, <1>8, <2>1, <2>2, TakenIs DEF acc
      <3> HIDE DEF full, m
      <3>2. QED BY <1>8, <3>1
    <2>8. o.rem \in Nat /\ m.taker.rem \in Nat BY <2>1, <2>3, OrderHas DEF Matched
    <2>9. o.tif = "FOK" /\ o.type # "Iceberg" => TakerFills(events, n) = r.qty
      <3>1. o.tif = "FOK" => m.taker.rem = 0 BY <1>1, <1>4, <1>8, <2>1, <2>2, FillOrKill
      <3> HIDE DEF m
      <3>2. QED BY <1>4, <2>7, <2>8, <3>1
    <2>10. o.tif = "PostOnly" => TakerFills(events, n) = 0
      <3>1. o.tif = "PostOnly" => m.taker = o BY DEF MatchOrder, Unmatched
      <3> HIDE DEF m
      <3>2. QED BY <2>7, <2>8, <3>1
    <2>11. o.tif \in {"IOC", "FOK"} => ~OnBook(d, n)
      <3>1. DOMAIN m.book.orders \subseteq DOMAIN b.orders BY <2>3 DEF Matched, Reduces
      <3> HIDE DEF m
      <3>2. o.tif \in {"IOC", "FOK"} => NeverRests(o) BY DEF NeverRests
      <3>3. QED BY <1>8, <2>2, <3>1, <3>2 DEF OnBook
    <2>12. QED BY <1>5, <2>6, <2>9, <2>10, <2>11 DEF Honoured
  <1>9. QED BY <1>2, <1>6, <1>7, <1>8

\* What a step promises the new orders.
StepHonours ==
    \A i \in DOMAIN out' : PlacedAtOnce(out'[i]) => Honoured(out'[i], out', engine'.book)

\* Only NewOrder places new orders, and it honours their time in force.
LEMMA NextHonours == IInv /\ [Next]_vars => StepHonours \/ UNCHANGED vars
  <1> SUFFICES ASSUME IInv, Next PROVE StepHonours OBVIOUS
  <1> DEFINE e == Counted
  <1>1. EngineOK(e, owed, nextId) BY CountedOK
  <1>2. nextId \in Nat \ {0} BY <1>1 DEF EngineOK, Fresh
  <1>3. CASE UNCHANGED nextId BY <1>3 DEF StepHonours, PlacedAtOnce
  <1>4. ASSUME NEW r \in Requests, NewOrder(r) PROVE StepHonours
    <2>1. nextId <= MaxOrders /\ Process(HandleNewOrder(e, nextId, r)) BY <1>4 DEF NewOrder
    <2>2. nextId \in OrderIds BY <1>2, <2>1, EngineAssumption DEF OrderIds
    <2> DEFINE reply == HandleNewOrder(e, nextId, r)
    <2> HIDE DEF e
    <2>3. \A x \in Range(reply.events) : x.kind = "Accepted" /\ ~Conditional(x.terms.type)
              => Honoured(x, reply.events, reply.engine.book)
      BY <1>1, <2>2, NewOrderHonours
    <2>4. out' = reply.events /\ engine' = reply.engine BY <2>1 DEF Process
    <2> HIDE DEF reply
    <2>5. QED BY <2>3, <2>4 DEF StepHonours, PlacedAtOnce, Range
  <1>5. (\E r \in Requests : NewOrder(r)) \/ UNCHANGED nextId
    BY DEF Next, CancelOrder, AmendOrder, CancelAllOrders, UpdateMarkPrice, ComputeFunding,
           Untallied, ExpireOrders
  <1>6. QED BY <1>3, <1>4, <1>5

\* A new fill-or-kill order that is accepted is executed completely at once, a
\* post-only order takes nothing and an immediate-or-cancel order never rests
\* (TimeInForceHonoured): what the cached totals of the levels promise a
\* fill-or-kill order before the match is what the match finds there.
THEOREM TimeInForceAlwaysHonoured == Spec => TimeInForceHonoured
  <1>1. Spec => []IInv BY InitOK, NextOK, PTL DEF Spec
  <1>2. IInv /\ [Next]_vars => [StepHonours]_vars BY NextHonours
  <1>3. Spec => [][StepHonours]_vars BY <1>1, <1>2, PTL DEF Spec
  <1>4. QED BY <1>3 DEF TimeInForceHonoured, StepHonours, Honoured
=============================================================================
