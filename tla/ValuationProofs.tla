--------------------------- MODULE ValuationProofs ---------------------------
(***************************************************************************)
(* What valuation.py says of its model: it is total, its range is in order, *)
(* and it is monotone.  The last holds of growth and of churn, and of       *)
(* profit only while the business stays profitable.                         *)
(***************************************************************************)
EXTENDS Valuation, TLAPS

----------------------------------------------------------------------------
(* Arithmetic. *)

\* A larger factor gives a larger product.
LEMMA MulMono ==
    ASSUME NEW a \in Nat, NEW b \in Nat, NEW c \in Nat, a <= b
    PROVE  /\ a * c \in Nat
           /\ b * c \in Nat
           /\ a * c <= b * c
<1>1. a * c \in Nat /\ b * c \in Nat
  BY SMT
<1>2. (b - a) * c >= 0
  BY SMT
<1>3. (b - a) * c = b * c - a * c
  BY SMT
<1> QED
  BY <1>1, <1>2, <1>3, SMT

\* Larger factors give a larger product.
LEMMA Mul3Mono ==
    ASSUME NEW a \in Nat, NEW b \in Nat, NEW c \in Nat,
           NEW d \in Nat, NEW e \in Nat, NEW f \in Nat,
           a <= d, b <= e, c <= f
    PROVE  /\ a * b * c \in Nat
           /\ d * e * f \in Nat
           /\ a * b * c <= d * e * f
<1>1. a * b \in Nat /\ d * b \in Nat /\ a * b <= d * b
  BY MulMono
<1>2. b * d \in Nat /\ e * d \in Nat /\ b * d <= e * d
  BY MulMono
<1>3. b * d = d * b /\ e * d = d * e
  BY SMT
<1>4. a * b \in Nat /\ d * e \in Nat /\ a * b <= d * e
  BY <1>1, <1>2, <1>3, SMT
<1> DEFINE x == a * b
           y == d * e
<1>5. x \in Nat /\ y \in Nat /\ x <= y
  BY <1>4
<1> HIDE DEF x, y
<1>6. x * c \in Nat /\ y * c \in Nat /\ x * c <= y * c
  BY <1>5, MulMono
<1>7. c * y \in Nat /\ f * y \in Nat /\ c * y <= f * y
  BY <1>5, MulMono
<1>8. c * y = y * c /\ f * y = y * f
  BY <1>5, SMT
<1>9. x * c \in Nat /\ y * f \in Nat /\ x * c <= y * f
  BY <1>5, <1>6, <1>7, <1>8, SMT
<1> QED
  BY <1>9 DEF x, y

\* Rounding keeps the order, and a natural number.
LEMMA RoundedMono ==
    ASSUME NEW x \in Nat, NEW y \in Nat, x <= y
    PROVE  /\ Rounded(x) \in Nat
           /\ Rounded(y) \in Nat
           /\ Rounded(x) <= Rounded(y)
BY SMT DEF Rounded, Unit

----------------------------------------------------------------------------
(* The parts of the estimate. *)

\* Where a business's figures lie.
LEMMA Figures ==
    ASSUME NEW b \in Business
    PROVE  /\ b.type \in Type
           /\ b.ttm_revenue \in Nat
           /\ b.ttm_profit \in Int
           /\ b.growth_pct \in Int
           /\ b.churn_pct \in Nat
<1>1. b \in Field
  BY DEF Business
<1> QED
  BY <1>1, SMT DEF Field

\* A band is in order.
LEMMA Bands ==
    ASSUME NEW b \in Business
    PROVE  /\ BandOf(b).low \in Nat
           /\ BandOf(b).high \in Nat
           /\ BandOf(b).low <= BandOf(b).high
<1>1. b.type \in {"saas", "marketplace", "content", "ecommerce", "agency"}
  BY Figures DEF Type
<1>2. \A t \in Type : /\ PROFIT_BANDS[t].low \in Nat
                      /\ PROFIT_BANDS[t].high \in Nat
                      /\ PROFIT_BANDS[t].low <= PROFIT_BANDS[t].high
  BY SMT DEF PROFIT_BANDS, Type
<1>3. \A t \in Type : /\ REVENUE_BANDS[t].low \in Nat
                      /\ REVENUE_BANDS[t].high \in Nat
                      /\ REVENUE_BANDS[t].low <= REVENUE_BANDS[t].high
  BY SMT DEF REVENUE_BANDS, Type
<1> QED
  BY <1>1, <1>2, <1>3, Figures DEF BandOf

\* What the multiple is applied to is never negative.
LEMMA BaseNat ==
    ASSUME NEW b \in Business
    PROVE  Base(b) \in Nat
BY Figures, SMT DEF Base, Driver

\* The clamp keeps the order and its bounds.
LEMMA ClampMono ==
    ASSUME NEW x \in Int, NEW y \in Int, NEW low \in Int, NEW high \in Int,
           x <= y, low <= high
    PROVE  /\ Clamp(x, low, high) \in Int
           /\ Clamp(y, low, high) \in Int
           /\ low <= Clamp(x, low, high)
           /\ Clamp(x, low, high) <= Clamp(y, low, high)
           /\ Clamp(y, low, high) <= high
BY SMT DEF Clamp

\* The factors are positive, whatever growth and churn are claimed.
LEMMA FactorsMono ==
    ASSUME NEW g \in Int, NEW h \in Int, NEW c \in Int, NEW d \in Int, g <= h, d <= c
    PROVE  /\ GrowthFactor(g) \in Nat /\ GrowthFactor(h) \in Nat
           /\ GrowthFactor(g) <= GrowthFactor(h)
           /\ ChurnFactor(c) \in Nat /\ ChurnFactor(d) \in Nat
           /\ ChurnFactor(c) <= ChurnFactor(d)
<1>1. /\ Clamp(g, -5000, 10000) \in Int /\ Clamp(h, -5000, 10000) \in Int
      /\ -5000 <= Clamp(g, -5000, 10000)
      /\ Clamp(g, -5000, 10000) <= Clamp(h, -5000, 10000)
  BY ClampMono, SMT
<1>2. /\ Clamp(d, 0, 2000) \in Int /\ Clamp(c, 0, 2000) \in Int
      /\ Clamp(d, 0, 2000) <= Clamp(c, 0, 2000)
      /\ Clamp(c, 0, 2000) <= 2000
  BY ClampMono, SMT
<1> QED
  BY <1>1, <1>2, SMT DEF GrowthFactor, ChurnFactor

\* More growth and less churn give no smaller an adjustment.
LEMMA CombinedMono ==
    ASSUME NEW b \in Business, NEW c \in Business,
           b.growth_pct <= c.growth_pct, c.churn_pct <= b.churn_pct
    PROVE  /\ Combined(b) \in Nat
           /\ Combined(c) \in Nat
           /\ Combined(b) <= Combined(c)
<1> DEFINE gb == GrowthFactor(b.growth_pct)
           gc == GrowthFactor(c.growth_pct)
           cb == ChurnFactor(b.churn_pct)
           cc == ChurnFactor(c.churn_pct)
<1>1. /\ gb \in Nat /\ gc \in Nat /\ gb <= gc
      /\ cb \in Nat /\ cc \in Nat /\ cb <= cc
  <2>1. /\ b.growth_pct \in Int /\ c.growth_pct \in Int
        /\ b.churn_pct \in Int /\ c.churn_pct \in Int
    BY Figures, SMT
  <2> QED
    BY <2>1, FactorsMono
<1> HIDE DEF gb, gc, cb, cc
<1>2. gb * cb * 1 \in Nat /\ gc * cc * 1 \in Nat /\ gb * cb * 1 <= gc * cc * 1
  BY <1>1, Mul3Mono, SMT
<1>3. gb * cb \in Int /\ gc * cc \in Int /\ gb * cb <= gc * cc
  BY <1>1, <1>2, SMT
<1> DEFINE x == gb * cb
           y == gc * cc
<1>4. x \in Int /\ y \in Int /\ x <= y
  BY <1>3
<1> HIDE DEF x, y
<1>5. /\ Clamp(x, 40000000, 140000000) \in Nat
      /\ Clamp(y, 40000000, 140000000) \in Nat
      /\ Clamp(x, 40000000, 140000000) <= Clamp(y, 40000000, 140000000)
  BY <1>4, SMT DEF Clamp
<1> QED
  BY <1>5 DEF x, y, gb, gc, cb, cc, Combined

----------------------------------------------------------------------------
(* The estimate. *)

\* The order of two estimates that use one band.
LEMMA RangeMono ==
    ASSUME NEW b \in Business, NEW c \in Business,
           BandOf(b) = BandOf(c), Base(b) <= Base(c), Combined(b) <= Combined(c)
    PROVE  Low(b) <= Low(c) /\ High(b) <= High(c)
<1>1. /\ Combined(b) \in Nat /\ Combined(c) \in Nat
      /\ Base(b) \in Nat /\ Base(c) \in Nat
      /\ BandOf(b).low \in Nat /\ BandOf(b).high \in Nat
  <2>1. b.growth_pct <= b.growth_pct /\ b.churn_pct <= b.churn_pct
    BY Figures, SMT
  <2>2. c.growth_pct <= c.growth_pct /\ c.churn_pct <= c.churn_pct
    BY Figures, SMT
  <2> QED
    BY <2>1, <2>2, CombinedMono, BaseNat, Bands
<1>2. \A m \in Nat : /\ Base(b) * m * Combined(b) \in Nat
                     /\ Base(c) * m * Combined(c) \in Nat
                     /\ Base(b) * m * Combined(b) <= Base(c) * m * Combined(c)
  <2> SUFFICES ASSUME NEW m \in Nat
               PROVE  /\ Base(b) * m * Combined(b) \in Nat
                      /\ Base(c) * m * Combined(c) \in Nat
                      /\ Base(b) * m * Combined(b) <= Base(c) * m * Combined(c)
    OBVIOUS
  <2>1. m <= m
    BY SMT
  <2> QED
    BY <1>1, <2>1, Mul3Mono
<1> QED
  BY <1>1, <1>2, RoundedMono DEF Low, High

\* For every business the calculator accepts, both ends are natural numbers and
\* in order, however absurd its growth and churn (valuation.py:61-68).
THEOREM RangeInOrder ==
    \A b \in Business : Low(b) \in Nat /\ High(b) \in Nat /\ Low(b) <= High(b)
<1> SUFFICES ASSUME NEW b \in Business
             PROVE  Low(b) \in Nat /\ High(b) \in Nat /\ Low(b) <= High(b)
  OBVIOUS
<1>1. /\ Base(b) \in Nat /\ Base(b) <= Base(b)
      /\ BandOf(b).low \in Nat /\ BandOf(b).high \in Nat
      /\ BandOf(b).low <= BandOf(b).high
  BY BaseNat, Bands, SMT
<1>2. Combined(b) \in Nat /\ Combined(b) <= Combined(b)
  BY CombinedMono, Figures, SMT
<1>3. /\ Base(b) * BandOf(b).low * Combined(b) \in Nat
      /\ Base(b) * BandOf(b).high * Combined(b) \in Nat
      /\ Base(b) * BandOf(b).low * Combined(b) <= Base(b) * BandOf(b).high * Combined(b)
  BY <1>1, <1>2, Mul3Mono
<1> QED
  BY <1>3, RoundedMono DEF Low, High

\* More growth never lowers the estimate, more churn never raises it
\* (valuation.py:21-22), with all else equal.
THEOREM MonotoneInGrowthAndChurn ==
    \A b, c \in Business :
        /\ b.type = c.type /\ b.ttm_revenue = c.ttm_revenue /\ b.ttm_profit = c.ttm_profit
        /\ b.growth_pct <= c.growth_pct /\ c.churn_pct <= b.churn_pct
        => Low(b) <= Low(c) /\ High(b) <= High(c)
<1> SUFFICES ASSUME NEW b \in Business, NEW c \in Business,
                    b.type = c.type, b.ttm_revenue = c.ttm_revenue,
                    b.ttm_profit = c.ttm_profit,
                    b.growth_pct <= c.growth_pct, c.churn_pct <= b.churn_pct
             PROVE  Low(b) <= Low(c) /\ High(b) <= High(c)
  OBVIOUS
<1>1. Driver(b) = Driver(c)
  BY DEF Driver
<1>2. BandOf(b) = BandOf(c)
  BY <1>1 DEF BandOf
<1>3. Base(b) = Base(c)
  BY <1>1 DEF Base
<1>4. Base(b) <= Base(c)
  BY <1>3, BaseNat, SMT
<1>5. Combined(b) <= Combined(c)
  BY CombinedMono
<1> QED
  BY <1>2, <1>4, <1>5, RangeMono

\* More profit never lowers the estimate of a business that is profitable
\* already (valuation.py:21-22), with all else equal.
THEOREM MonotoneInProfit ==
    \A b, c \in Business :
        /\ b.type = c.type /\ b.ttm_revenue = c.ttm_revenue
        /\ b.growth_pct = c.growth_pct /\ b.churn_pct = c.churn_pct
        /\ 0 < b.ttm_profit /\ b.ttm_profit <= c.ttm_profit
        => Low(b) <= Low(c) /\ High(b) <= High(c)
<1> SUFFICES ASSUME NEW b \in Business, NEW c \in Business,
                    b.type = c.type, b.growth_pct = c.growth_pct,
                    b.churn_pct = c.churn_pct,
                    0 < b.ttm_profit, b.ttm_profit <= c.ttm_profit
             PROVE  Low(b) <= Low(c) /\ High(b) <= High(c)
  OBVIOUS
<1>1. Driver(b) = "profit" /\ Driver(c) = "profit"
  BY Figures, SMT DEF Driver
<1>2. BandOf(b) = BandOf(c)
  BY <1>1 DEF BandOf
<1>3. Base(b) <= Base(c)
  BY <1>1 DEF Base
<1>4. b.growth_pct <= c.growth_pct /\ c.churn_pct <= b.churn_pct
  BY Figures, SMT
<1>5. Combined(b) <= Combined(c)
  BY <1>4, CombinedMono
<1> QED
  BY <1>2, <1>3, <1>5, RangeMono

\* But a business that starts to make a profit may lose most of its estimate:
\* with revenue of a million, one unit of profit replaces 2000000-4000000 by 3-5.
\* The profit is then the base, however small beside the revenue
\* (valuation.py:150-155); valuation.py:21-22 says more profit never lowers it.
THEOREM FirstProfitCanLower ==
    \E b, c \in Business :
        /\ b.type = c.type /\ b.ttm_revenue = c.ttm_revenue
        /\ b.growth_pct = c.growth_pct /\ b.churn_pct = c.churn_pct
        /\ b.ttm_profit < c.ttm_profit
        /\ High(c) < Low(b)
<1> DEFINE b == [type |-> "saas", ttm_revenue |-> 100000000, ttm_profit |-> 0,
                 growth_pct |-> 0, churn_pct |-> 0]
           c == [type |-> "saas", ttm_revenue |-> 100000000, ttm_profit |-> 100,
                 growth_pct |-> 0, churn_pct |-> 0]
<1>1. b \in Business /\ c \in Business
  <2>1. b \in Field /\ c \in Field
    BY SMT DEF Field, Type
  <2> QED
    BY <2>1, SMT DEF Business
<1>2. Combined(b) = 80000000 /\ Combined(c) = 80000000
  BY SMT DEF Combined, GrowthFactor, ChurnFactor, Clamp
<1>3. /\ Driver(b) = "revenue" /\ Base(b) = 100000000
      /\ Driver(c) = "profit" /\ Base(c) = 100
  BY SMT DEF Driver, Base
<1>4. BandOf(b).low = 200 /\ BandOf(c).high = 500
  BY <1>3, SMT DEF BandOf, PROFIT_BANDS, REVENUE_BANDS, Type
<1>5. Low(b) = 2000000 /\ High(c) = 5
  BY <1>2, <1>3, <1>4, SMT DEF Low, High, Rounded, Unit
<1>6. High(c) < Low(b)
  BY <1>5, SMT
<1> QED
  BY <1>1, <1>6
=============================================================================
