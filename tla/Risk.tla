-------------------------------- MODULE Risk --------------------------------
(***************************************************************************)
(* exg-risk-engine and exg-clearing/src/risk_monitor.rs: what is computed  *)
(* about positions without changing them.  Rates, ratios and thresholds    *)
(* are in hundredths; an amount is an integer number of its last digit,    *)
(* and a division drops the rest.                                          *)
(***************************************************************************)
EXTENDS Integers, Sequences, FiniteSetsExt, SequencesExt

CONSTANTS
    Tiers,          \* margin tiers, lowest first: [floor, cap, rate, amount]
    MarginCall,     \* margin_call_threshold
    Liquidation     \* liquidation_threshold

ASSUME RiskAssumption ==
    /\ MarginCall \in Nat /\ Liquidation \in Nat
    /\ \A i \in DOMAIN Tiers :
          Tiers[i] \in [floor : Nat, cap : Nat, rate : Nat, amount : Nat]

Opposite(side) == IF side = "Long" THEN "Short" ELSE "Long"

\* Profit of qty at a price; unrealized when it is the mark price.
Pnl(position, qty, price) ==
    qty * (IF position.side = "Long" THEN price - position.entry ELSE position.entry - price)

\* Positive when the holder pays.
FundingFee(position, mark, rate) ==
    LET fee == (position.size * mark * Max({rate, -rate})) \div 100
    IN  IF (position.side = "Long") = (rate > 0) THEN fee ELSE -fee

\* The last tier also takes what lies above its cap.
TierOf(notional) ==
    {i \in DOMAIN Tiers : /\ notional >= Tiers[i].floor
                          /\ notional < Tiers[i].cap \/ i = Len(Tiers)}

MaintenanceMargin(position) ==
    LET notional == position.size * position.entry
        tier == Tiers[Min(TierOf(notional))]
    IN  IF TierOf(notional) = {} THEN 0
        ELSE (notional * tier.rate) \div 100 - tier.amount

\* calc_margin_ratio >= threshold; without equity the ratio is the largest
\* number there is.
RatioReaches(position, balance, mark, threshold) ==
    LET equity == balance + Pnl(position, position.size, mark)
    IN  equity <= 0 \/ (100 * MaintenanceMargin(position)) \div equity >= threshold

\* scan_positions, of users who hold one position each: whose orders are to
\* be cancelled, and whose position is to be liquidated.
ScanPositions(positions, balance, mark) ==
    LET Over(threshold) == {u \in DOMAIN positions :
                              RatioReaches(positions[u], balance[u], mark, threshold)}
    IN  [liquidate |-> Over(Liquidation),
         cancel    |-> Over(Liquidation) \cup Over(MarginCall)]

\* a's score, profit * notional / margin^2, is higher than b's.
HigherAdlScore(a, b, mark) ==
    Pnl(a, a.size, mark) * a.size * b.margin * b.margin
        > Pnl(b, b.size, mark) * b.size * a.margin * a.margin

\* Mutant: the ranking starts with those who lose most.
LowestFirstMutant(positions, users, mark) ==
    {order \in SetToSeqs({u \in users : positions[u].margin # 0}) :
        \A i, j \in DOMAIN order : i < j =>
            ~HigherAdlScore(positions[order[i]], positions[order[j]], mark)}
\* The orders calc_adl_ranking may return: ties stay as the map lists them.
AdlRankings(positions, users, mark) ==
    {order \in SetToSeqs({u \in users : positions[u].margin # 0}) :
        \A i, j \in DOMAIN order : i < j =>
            ~HigherAdlScore(positions[order[j]], positions[order[i]], mark)}
=============================================================================
