----------------------------- MODULE Valuation -----------------------------
(***************************************************************************)
(* The valuation calculator (valuation.py): a range from a business's type, *)
(* its revenue and profit, its growth and its churn.  A pure function.      *)
(*                                                                          *)
(* Decimals are integers here: figures in cents, percentages and multiples  *)
(* in hundredths, the two factors in units of 1/20000 and 1/4000.  All the  *)
(* program's divisions are then one, by Unit, and nothing is lost.          *)
(***************************************************************************)
EXTENDS Integers

Type == {"saas", "marketplace", "content", "ecommerce", "agency"}

Band == [low: Nat, high: Nat]

PROFIT_BANDS ==
    [type \in Type |->
        CASE type \in {"saas", "marketplace"} -> [low |-> 300, high |-> 500]
          [] type = "content"                 -> [low |-> 250, high |-> 400]
          [] type = "ecommerce"               -> [low |-> 200, high |-> 350]
          [] type = "agency"                  -> [low |-> 150, high |-> 250]]

REVENUE_BANDS ==
    [type \in Type |->
        CASE type \in {"saas", "marketplace"} -> [low |-> 200, high |-> 400]
          [] type = "content"                 -> [low |-> 150, high |-> 300]
          [] type = "ecommerce"               -> [low |-> 60, high |-> 120]
          [] type = "agency"                  -> [low |-> 50, high |-> 100]]

\* The fields of ValuationRequest, without the upper bounds on the figures.
Field == [type: Type, ttm_revenue: Nat, ttm_profit: Int, growth_pct: Int, churn_pct: Nat]

\* ValuationRequest: the percentages' bounds, and no more profit than revenue.
Business ==
    {b \in Field :
        /\ -10000 <= b.growth_pct /\ b.growth_pct <= 100000
        /\ b.churn_pct <= 10000
        /\ b.ttm_profit <= b.ttm_revenue}

Clamp(value, low, high) == IF value < low THEN low ELSE IF value > high THEN high ELSE value

----------------------------------------------------------------------------
GrowthFactor(growth) == 20000 + Clamp(growth, -5000, 10000)

ChurnFactor(churn) == 4000 - Clamp(churn, 0, 2000)

\* One is 80000000; between half of it and seven quarters.
Combined(b) ==
    Clamp(GrowthFactor(b.growth_pct) * ChurnFactor(b.churn_pct), 40000000, 140000000)

\* A cent times a hundredth times a factor, of a whole currency unit.
Unit == 800000000000

\* _round_to_unit: half up, of a value that is not negative.
Rounded(value) == (2 * value + Unit) \div (2 * Unit)

Driver(b) ==
    IF b.ttm_profit > 0 THEN "profit" ELSE IF b.ttm_revenue > 0 THEN "revenue" ELSE "none"

\* What the multiple is applied to, and the multiple's range.
Base(b) ==
    CASE Driver(b) = "profit"  -> b.ttm_profit
      [] Driver(b) = "revenue" -> b.ttm_revenue
      [] Driver(b) = "none"    -> 0

BandOf(b) == IF Driver(b) = "profit" THEN PROFIT_BANDS[b.type] ELSE REVENUE_BANDS[b.type]

\* estimate_valuation.
Low(b)  == Rounded(Base(b) * BandOf(b).low * Combined(b))
High(b) == Rounded(Base(b) * BandOf(b).high * Combined(b))
=============================================================================
