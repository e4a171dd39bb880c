------------------------------ MODULE PostTrade ------------------------------
(***************************************************************************)
(* exg-clearing/src/post_trade.rs and position.rs, with the ledger below:  *)
(* what the matching thread does with the events of a command before it    *)
(* logs them, and what a boot rebuilds from the log.                       *)
(*                                                                         *)
(* Engine events are inputs here.  Of these OrderFilled, MarkPriceUpdate   *)
(* and FundingRateUpdate matter, and the log keeps no others.  A crash     *)
(* keeps any prefix of the log, so it may fall between the events of one   *)
(* command.  There is one symbol, and quantities, prices and rates are     *)
(* integers.                                                               *)
(***************************************************************************)
EXTENDS Ledger, SequencesExt

CONSTANTS
    Users,
    Sweeps,         \* takers: [user, side, legs], a leg being [maker, qty, price]
    MarkPrices,
    Rates,          \* funding rates
    Credits,        \* what operators credit: [user, amount]
    MaxCommands,    \* bound: commands processed
    MaxReboots      \* bound: boots after the first

Positive == Nat \ {0}

ASSUME PostTradeAssumption ==
    /\ IsFiniteSet(Users) /\ SYSTEM \notin Users
    /\ Sweeps \subseteq [user : Users, side : {"Buy", "Sell"},
                        legs : Seq([maker : Users, qty : Positive, price : Positive])]
    /\ MarkPrices \subseteq Positive
    /\ Rates \subseteq Int
    /\ Credits \subseteq [user : Users, amount : Positive]
    /\ {MaxCommands, MaxReboots} \subseteq Nat

VARIABLES
    post,       \* PostTradeProcessor
    log,        \* the events on disk or on their way to it
    commands,   \* commands processed so far
    reboots     \* boots after the first

vars == <<post, log, commands, reboots>>

NewProcessor ==
    [positions |-> << >>,       \* per user with one: side, size and entry price
     ledger    |-> NewLedger,
     mark      |-> 0,
     period    |-> 0,           \* funding_period_id
     seq       |-> 0]           \* pnl_seq

Init ==
    /\ post = NewProcessor
    /\ log = << >>
    /\ commands = 0
    /\ reboots = 0

-----------------------------------------------------------------------------
(* Events.                                                                 *)

OrderFilled(user, side, qty, price) ==
    [kind |-> "OrderFilled", user |-> user, side |-> side, qty |-> qty, price |-> price]
MarkPriceUpdate(price) == [kind |-> "MarkPriceUpdate", price |-> price]
FundingRateUpdate(rate) == [kind |-> "FundingRateUpdate", rate |-> rate]
RealizedPnl(user, amount) == [kind |-> "RealizedPnl", user |-> user, amount |-> amount]
FundingSettled(user, period, amount) ==
    [kind |-> "FundingSettled", user |-> user, period |-> period, amount |-> amount]
AdminCredited(user, amount, key) ==
    [kind |-> "AdminCredited", user |-> user, amount |-> amount, key |-> key]

Opposite(side) == IF side = "Buy" THEN "Sell" ELSE "Buy"

\* What the engine emits of a sweep, leg by leg: the maker's fill, the taker's.
FillsOf(sweep) ==
    FlattenSeq([i \in DOMAIN sweep.legs |->
        LET leg == sweep.legs[i]
        IN  <<OrderFilled(leg.maker, Opposite(sweep.side), leg.qty, leg.price),
              OrderFilled(sweep.user, sweep.side, leg.qty, leg.price)>>])

-----------------------------------------------------------------------------
(* Positions.  A position's side is that of the fills that open it.        *)

OpenOrIncrease(positions, user, side, qty, price) ==
    LET old == IF user \in DOMAIN positions THEN positions[user] ELSE [size |-> 0, entry |-> 0]
        size == old.size + qty
    IN  With(positions, user, [side |-> side, size |-> size,
                               entry |-> (old.size * old.entry + qty * price) \div size])

ReduceOrClose(positions, user, qty) ==
    IF qty = positions[user].size THEN Restrict(positions, DOMAIN positions \ {user})
    ELSE [positions EXCEPT ![user].size = @ - qty]

PnlOf(position, qty, price) ==
    qty * (IF position.side = "Buy" THEN price - position.entry ELSE position.entry - price)

ReduceQty(qty, size) == Min({qty, size})

\* Mutant: what exceeds the position is dropped, so a flip only closes.
NoFlipMutant(positions, user, side, qty, price) == positions
Flip(positions, user, side, leftover, price) ==
    IF leftover > 0 THEN OpenOrIncrease(positions, user, side, leftover, price)
    ELSE positions

ApplyFillToPosition(positions, f) ==
    LET old == positions[f.user]
        reduced == ReduceQty(f.qty, old.size)
    IN  IF f.user \notin DOMAIN positions \/ old.side = f.side
        THEN [pnl |-> 0,
              positions |-> OpenOrIncrease(positions, f.user, f.side, f.qty, f.price)]
        ELSE [pnl |-> PnlOf(old, reduced, f.price),
              positions |-> Flip(ReduceOrClose(positions, f.user, reduced),
                                 f.user, f.side, f.qty - reduced, f.price)]

-----------------------------------------------------------------------------
(* Live: consume and handle_admin_credit.  Each returns the processor and  *)
(* the facts to log.                                                       *)

Done(p, facts) == [post |-> p, facts |-> facts]

\* Mutant: the key of a loss nobody can pay is used up, and its number too.
PoisonKeyMutant(p, user, pnl) ==
    LET s == SettleCapped(GetOrCreateAccount(p.ledger, user), user, pnl,
                          <<"pnl", p.seq + 1, user>>)
    IN  Done([p EXCEPT !.ledger = s.ledger, !.seq = @ + 1],
             IF s.moved = 0 THEN << >> ELSE <<RealizedPnl(user, s.moved)>>)
\* A loss of a user without money settles nothing and uses no key.
SettleRealizedPnl(p, user, pnl) ==
    LET s == SettleCapped(GetOrCreateAccount(p.ledger, user), user, pnl,
                          <<"pnl", p.seq + 1, user>>)
    IN  IF pnl = 0 \/ (pnl < 0 /\ Available(p.ledger, user) = 0) THEN Done(p, << >>)
        ELSE IF s.moved = 0 THEN Done([p EXCEPT !.ledger = s.ledger], << >>)
        ELSE Done([p EXCEPT !.ledger = s.ledger, !.seq = @ + 1],
                  <<RealizedPnl(user, s.moved)>>)

ConsumeFill(p, f) ==
    LET a == ApplyFillToPosition(p.positions, f)
    IN  SettleRealizedPnl([p EXCEPT !.positions = a.positions], f.user, a.pnl)

\* What a position pays for funding; negative when it receives.
Payment(p, user, rate) ==
    p.positions[user].size * p.mark
        * (IF p.positions[user].side = "Buy" THEN rate ELSE -rate)

\* A row is a position's user and the rate of this tick.
SettleFundingOf(p, row) ==
    LET user == row.user
        payment == Payment(p, user, row.rate)
        s == SettleCapped(GetOrCreateAccount(p.ledger, user), user, -payment,
                          <<"funding", p.period, user>>)
    IN  IF payment = 0 THEN Done(p, << >>)
        ELSE Done([p EXCEPT !.ledger = s.ledger],
                  IF s.moved = 0 THEN << >>
                  ELSE <<FundingSettled(user, p.period, -s.moved)>>)

\* Steps one after the other, with their facts.
Chain(p, step(_, _), inputs) ==
    FoldLeft(LAMBDA done, x :
                LET next == step(done.post, x)
                IN  Done(next.post, done.facts \o next.facts),
             Done(p, << >>), inputs)

\* order lists the users with a position, as the iteration over the map does.
\* Without a mark price nothing happens, not even the period advances.
SettleFunding(p, rate, order) ==
    IF order # << >> /\ p.mark = 0 THEN Done(p, << >>)
    ELSE Chain([p EXCEPT !.period = @ + 1], SettleFundingOf,
               [i \in DOMAIN order |-> [user |-> order[i], rate |-> rate]])

HandleAdminCredit(p, user, amount, key) ==
    Done([p EXCEPT !.ledger = Deposit(GetOrCreateAccount(@, user), user, amount, key)],
         <<AdminCredited(user, amount, key)>>)

-----------------------------------------------------------------------------
(* Replay: apply_event.  Positions are projected again, money moves by the *)
(* recorded facts only.                                                    *)

ReplayRealizedPnl(p, e) ==
    LET s == SettleCapped(GetOrCreateAccount(p.ledger, e.user), e.user, e.amount,
                          <<"pnl", p.seq + 1, e.user>>)
    IN  [p EXCEPT !.ledger = s.ledger, !.seq = @ + 1]

\* Mutant: the period is not restored, so the next tick uses old keys.
ForgottenPeriodMutant(p, e) ==
    LET s == SettleCapped(GetOrCreateAccount(p.ledger, e.user), e.user, -e.amount,
                          <<"funding", e.period, e.user>>)
    IN  [p EXCEPT !.ledger = s.ledger]
ReplayFundingSettled(p, e) ==
    LET s == SettleCapped(GetOrCreateAccount(p.ledger, e.user), e.user, -e.amount,
                          <<"funding", e.period, e.user>>)
    IN  [p EXCEPT !.ledger = s.ledger, !.period = Max({@, e.period})]

ApplyEvent(p, e) ==
    CASE e.kind = "OrderFilled" ->
            [p EXCEPT !.positions = ApplyFillToPosition(@, e).positions]
      [] e.kind = "MarkPriceUpdate" -> [p EXCEPT !.mark = e.price]
      [] e.kind = "FundingRateUpdate" -> p
      [] e.kind = "AdminCredited" ->
            [p EXCEPT !.ledger = Deposit(GetOrCreateAccount(@, e.user), e.user, e.amount, e.key)]
      [] e.kind = "RealizedPnl" -> ReplayRealizedPnl(p, e)
      [] e.kind = "FundingSettled" -> ReplayFundingSettled(p, e)

Replayed(events) == FoldLeft(ApplyEvent, NewProcessor, events)

-----------------------------------------------------------------------------
(* The matching thread and the boot.                                       *)

\* Engine events first, then the facts.
Process(events, done) ==
    /\ commands < MaxCommands
    /\ commands' = commands + 1
    /\ post' = done.post
    /\ log' = log \o events \o done.facts
    /\ UNCHANGED reboots

Trade(sweep) ==
    Process(FillsOf(sweep), Chain(post, ConsumeFill, FillsOf(sweep)))

UpdateMark(price) ==
    Process(<<MarkPriceUpdate(price)>>, Done([post EXCEPT !.mark = price], << >>))

ComputeFunding(rate) ==
    \E order \in SetToSeqs(DOMAIN post.positions) :
        Process(<<FundingRateUpdate(rate)>>, SettleFunding(post, rate, order))

\* Keys carry a time stamp and a counter: no two credits share one.
AdminCredit(credit) ==
    LET key == <<"credit", commands, credit.user>>
    IN  Process(<< >>, HandleAdminCredit(post, credit.user, credit.amount, key))

Reboot ==
    /\ reboots < MaxReboots
    /\ reboots' = reboots + 1
    /\ \E n \in 0 .. Len(log) :
          /\ log' = SubSeq(log, 1, n)
          /\ post' = Replayed(SubSeq(log, 1, n))
    /\ UNCHANGED commands

Next ==
    \/ \E s \in Sweeps : Trade(s)
    \/ \E p \in MarkPrices : UpdateMark(p)
    \/ \E r \in Rates : ComputeFunding(r)
    \/ \E c \in Credits : AdminCredit(c)
    \/ Reboot

Spec == Init /\ [][Next]_vars

-----------------------------------------------------------------------------
(* Properties.                                                             *)

\* verify_all_invariants, on which settle_funding and the boot would panic,
\* holds at all times and for every log a crash may leave: no user is
\* overdrawn, and what users and SYSTEM hold is what came from outside.
LedgerVerified == VerifyAllInvariants(post.ledger)

\* Spec invariant 36: what a boot rebuilds from the log is what the matching
\* thread had, for every history of capped losses, funding and crashes.
ReplayEqualsLive ==
    LET r == Replayed(log)
    IN  /\ r.positions = post.positions
        /\ r.mark = post.mark /\ r.seq = post.seq
        /\ r.ledger.journal = post.ledger.journal
        /\ r.ledger.system = post.ledger.system
        /\ \A u \in Users : Available(r.ledger, u) = Available(post.ledger, u)

Forgetful(p) == [p EXCEPT !.ledger.keys = {}]

\* Idempotency keys never swallow a live settlement: a trade moves what it
\* would move in a ledger that has used no key, and a funding tick makes
\* every position pay what it owes or all its user has, or receive all.
SettledInFull ==
    [][/\ \A s \in Sweeps : Trade(s) =>
             \A u \in Users :
                Available(post'.ledger, u)
                  = Available(Chain(Forgetful(post), ConsumeFill, FillsOf(s)).post.ledger, u)
       /\ \A r \in Rates : ComputeFunding(r) /\ post.mark # 0 =>
             \A u \in DOMAIN post.positions :
                LET owed == Payment(post, u, r)
                    had == Available(post.ledger, u)
                IN  Available(post'.ledger, u) = had - Min({owed, had})]_vars

\* Spec invariant 34: a position is the net of its user's fills, flips and
\* reboots included.
Signed(side, qty) == IF side = "Buy" THEN qty ELSE -qty
Exposure(positions, user) ==
    IF user \in DOMAIN positions THEN Signed(positions[user].side, positions[user].size) ELSE 0
AddFill(nets, e) ==
    IF e.kind = "OrderFilled" THEN [nets EXCEPT ![e.user] = @ + Signed(e.side, e.qty)] ELSE nets
NetsOfFills(events) == FoldLeft(AddFill, [u \in Users |-> 0], events)
PositionsProjectFills ==
    LET nets == NetsOfFills(log)
    IN  \A u \in Users : nets[u] = Exposure(post.positions, u)

\* The journal accounts for every balance, though capped settlements move
\* less than they were asked to.
JournalExplainsBalances ==
    LET j == post.ledger.journal
        In(a) == {i \in DOMAIN j : j[i].credit.owner = a}
        Out(a) == {i \in DOMAIN j : j[i].debit.owner = a}
    IN  \A u \in Users : Available(post.ledger, u)
                            = SumFunctionOnSet(Amounts(j), In(u)) - SumFunctionOnSet(Amounts(j), Out(u))
=============================================================================
