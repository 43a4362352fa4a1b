---------------------------- MODULE QuoterProofs ----------------------------
(***************************************************************************)
(* Theorems about Quoter, for every book, tick size, configuration and     *)
(* volatility: its type invariant; that its quotes are passive whatever    *)
(* the clamps and roundings do to each other; that a requote exceeds a cap *)
(* by a smallest order at most; that a surge leaves nothing resting; and   *)
(* that no addition worsens the average entry of its side.                 *)
(***************************************************************************)
EXTENDS Quoter, FiniteSetTheorems, SequenceTheorems, TLAPS

-----------------------------------------------------------------------------
(* Division *)

LEMMA DivBounds ==
  ASSUME NEW n \in Int, NEW u \in Nat \ {0}
  PROVE  n \div u \in Int /\ (n \div u) * u <= n /\ n < (n \div u) * u + u
OBVIOUS

LEMMA MulMono ==
  ASSUME NEW a \in Int, NEW b \in Int, NEW u \in Nat, a <= b
  PROVE  a * u <= b * u
OBVIOUS

LEMMA DivUnique ==
  ASSUME NEW n \in Int, NEW k \in Int, NEW u \in Nat \ {0}, k * u <= n, n < k * u + u
  PROVE  n \div u = k
<1> DEFINE d == n \div u
<1>1. d \in Int /\ d * u <= n /\ n < d * u + u
  BY DivBounds
<1> HIDE DEF d
<1>2. ASSUME d >= k + 1 PROVE FALSE
  <2>1. (k + 1) * u <= d * u
    BY <1>1, <1>2, MulMono
  <2> QED BY <1>1, <2>1
<1>3. ASSUME k >= d + 1 PROVE FALSE
  <2>1. (d + 1) * u <= k * u
    BY <1>1, <1>3, MulMono
  <2> QED BY <1>1, <2>1
<1>4. d = k
  BY <1>1, <1>2, <1>3
<1> QED BY <1>4 DEF d

LEMMA ModDef ==
  ASSUME NEW n \in Int, NEW u \in Nat \ {0}
  PROVE  n % u = n - (n \div u) * u
OBVIOUS

LEMMA Multiple ==
  ASSUME NEW k \in Int, NEW u \in Nat \ {0}
  PROVE  (k * u) \div u = k /\ (k * u) % u = 0
<1>1. k * u \in Int /\ k * u <= k * u /\ k * u < k * u + u
  OBVIOUS
<1>2. (k * u) \div u = k
  BY <1>1, DivUnique
<1> QED BY <1>1, <1>2, ModDef

\* A multiple of the tick, in units of a price.
LEMMA OfTicks ==
  ASSUME NEW b \in Int, NEW u \in Nat \ {0}, b % u = 0
  PROVE  b \div u \in Int /\ b = (b \div u) * u
<1>1. b \div u \in Int
  BY DivBounds
<1>2. b = (b % u) + (b \div u) * u
  <2>1. b % u = b - (b \div u) * u
    BY ModDef
  <2>2. (b \div u) * u \in Int
    BY <1>1
  <2> QED BY <2>1, <2>2
<1> QED BY <1>1, <1>2

-----------------------------------------------------------------------------
(* Prices *)

\* Rounding moves a price away from the middle, to a tick, and leaves a tick alone.
LEMMA Quantized ==
  ASSUME NEW s \in Sides, NEW p \in Int
  PROVE  LET q == quantize_price(s, p)
         IN /\ q \in Int /\ q % Tick = 0
            /\ s = "long" => 10000 * q <= p
            /\ s = "short" => 10000 * q >= p
<1> DEFINE q == quantize_price(s, p)
<1>1. Tick \in Nat \ {0} /\ Unit \in Nat \ {0} /\ Unit = 10000 * Tick
  BY TickAssumption DEF Unit
<1>2. CASE s = "long"
  <2> DEFINE k == p \div Unit
  <2>1. k \in Int /\ k * Unit <= p
    BY <1>1, DivBounds
  <2>2. q = k * Tick
    BY <1>2 DEF quantize_price
  <2> HIDE DEF k, q
  <2>3. q \in Int /\ q % Tick = 0
    BY <1>1, <2>1, <2>2, Multiple
  <2>4. 10000 * q = k * Unit
    BY <1>1, <2>1, <2>2
  <2> QED BY <1>2, <2>1, <2>3, <2>4 DEF q
<1>3. CASE s = "short"
  <2> DEFINE n == p + Unit - 1
             k == n \div Unit
  <2>0. n \in Int
    BY <1>1
  <2>1. k \in Int /\ n < k * Unit + Unit
    BY <1>1, <2>0, DivBounds
  <2>2. q = k * Tick
    BY <1>3 DEF quantize_price
  <2>3. p <= k * Unit
    <3> HIDE DEF k
    <3>1. k * Unit \in Int
      BY <1>1, <2>1
    <3> QED BY <1>1, <2>1, <3>1
  <2> HIDE DEF n, k, q
  <2>4. q \in Int /\ q % Tick = 0
    BY <1>1, <2>1, <2>2, Multiple
  <2>5. 10000 * q = k * Unit
    BY <1>1, <2>1, <2>2
  <2> QED BY <1>3, <2>3, <2>4, <2>5 DEF q
<1> QED BY <1>2, <1>3 DEF Sides

LEMMA OnTick ==
  ASSUME NEW s \in Sides, NEW b \in Int, b % Tick = 0
  PROVE  quantize_price(s, 10000 * b) = b
<1>1. Tick \in Nat \ {0} /\ Unit \in Nat \ {0} /\ Unit = 10000 * Tick
  BY TickAssumption DEF Unit
<1> DEFINE k == b \div Tick
<1>2. k \in Int /\ b = k * Tick
  BY <1>1, OfTicks
<1> HIDE DEF k
<1>3. 10000 * b = k * Unit /\ k * Unit \in Int
  BY <1>1, <1>2
<1>4. CASE s = "long"
  <2>1. (10000 * b) \div Unit = k
    BY <1>1, <1>2, <1>3, Multiple
  <2> QED BY <1>2, <1>4, <2>1 DEF quantize_price
<1>5. CASE s = "short"
  <2>1. (10000 * b + Unit - 1) \div Unit = k
    <3> DEFINE n == 10000 * b + Unit - 1
    <3>1. n \in Int /\ k * Unit <= n /\ n < k * Unit + Unit
      <4> DEFINE m == k * Unit
      <4>1. n = m + Unit - 1 /\ m \in Int
        BY <1>3
      <4> HIDE DEF n, m
      <4>2. n \in Int /\ m <= n /\ n < m + Unit
        BY <1>1, <4>1
      <4> QED BY <4>2 DEF m
    <3> HIDE DEF n
    <3>2. n \div Unit = k
      BY <1>1, <1>2, <3>1, DivUnique
    <3> QED BY <3>2 DEF n
  <2> QED BY <1>2, <1>5, <2>1 DEF quantize_price
<1> QED BY <1>4, <1>5 DEF Sides

\* The more passive of two prices.
LEMMA PassiveOf ==
  ASSUME NEW s \in Sides, NEW p \in Int, NEW q \in Int
  PROVE  /\ Passive(s, p, q) \in {p, q}
         /\ s = "long" => Passive(s, p, q) <= p /\ Passive(s, p, q) <= q
         /\ s = "short" => Passive(s, p, q) >= p /\ Passive(s, p, q) >= q
BY DEF Passive, Sides

-----------------------------------------------------------------------------
(* The configuration and what follows from it *)

LEMMA Extremes ==
  ASSUME NEW m \in Int, NEW n \in Int
  PROVE  /\ AtLeast(m, n) \in {m, n} /\ AtLeast(m, n) >= m /\ AtLeast(m, n) >= n
         /\ AtMost(m, n) \in {m, n} /\ AtMost(m, n) <= m /\ AtMost(m, n) <= n
BY DEF AtLeast, AtMost

LEMMA PercentTypes ==
  /\ \A p, n \in Int : Percent(p, n) \in Int
  /\ \A p, n \in Nat : Percent(p, n) \in Nat
<1>1. ASSUME NEW p \in Int, NEW n \in Int PROVE Percent(p, n) \in Int
  <2>1. p * n \in Int
    OBVIOUS
  <2> QED BY <2>1, DivBounds DEF Percent
<1>2. ASSUME NEW p \in Nat, NEW n \in Nat PROVE Percent(p, n) \in Nat
  <2> DEFINE m == p * n
  <2>1. m \in Nat
    OBVIOUS
  <2> HIDE DEF m
  <2>2. m \div 100 \in Nat
    BY <2>1
  <2> QED BY <2>2 DEF m, Percent
<1> QED BY <1>1, <1>2

LEMMA CfgTypes ==
  /\ cfg.levels = Levels /\ Levels \in Nat \ {0}
  /\ cfg.minimum \in Nat /\ cfg.spread \in Nat /\ cfg.step \in Nat
  /\ cfg.power \in Nat /\ cfg.gross \in Nat /\ cfg.side \in Nat
<1>1. /\ Levels \in Nat \ {0} /\ Power \in Nat /\ GridNatr \in Nat /\ Usdt \in Nat
  BY TickAssumption, MoneyAssumption, UsdtAssumption
<1>2. AtLeast(1, Levels) = Levels
  BY <1>1 DEF AtLeast
<1>3. SpreadFloor \in Nat
  BY DEF SpreadFloor, AtLeast, MakerFee, TakerFee
<1>4. Percent(30, GridNatr) \in Nat /\ Percent(45, GridNatr) \in Nat
  BY <1>1, PercentTypes
<1>5. AtLeast(SpreadFloor, Percent(30, GridNatr)) \in Nat
  BY <1>3, <1>4, Extremes
<1>6. 96 * Usdt \in Nat
  BY <1>1
<1> QED BY <1>1, <1>2, <1>3, <1>4, <1>5, <1>6 DEF cfg, compute_vamm_parameters

\* The types a quote is computed from.
MarketTypes ==
  /\ book \in [bid : Nat, ask : Nat, mark : Nat] /\ mid \in Nat
  /\ pos \in [Sides -> [amount : Nat, cost : Nat, filled : 0..MaxEvents, wait : 0..LevelCooldown]]

LEMMA FloorType ==
  ASSUME MarketTypes, mid # 0
  PROVE  calculate_spread_floor \in Nat
<1>1. mid \in Nat \ {0} /\ Tick \in Nat
  BY TickAssumption DEF MarketTypes
<1> DEFINE t == (20000 * Tick) \div mid
<1>2. t \in Int
  BY <1>1, DivBounds
<1>3. AtLeast(15, cfg.minimum) \in Int
  BY CfgTypes, Extremes
<1> HIDE DEF t
<1>4. t + 2 * MakerFee + AtLeast(15, cfg.minimum) \in Int
  BY <1>2, <1>3 DEF MakerFee
<1>5. AtLeast(25, t + 2 * MakerFee + AtLeast(15, cfg.minimum)) \in Nat
  BY <1>4, Extremes
<1> QED BY <1>5 DEF calculate_spread_floor, t

-----------------------------------------------------------------------------
(* The clamp *)

\* Half of the least distance between a bid and an ask, in ten thousandths.
Half == AtLeast((calculate_spread_floor * mid) \div 2, Unit)

LEMMA HalfFacts ==
  ASSUME MarketTypes, mid # 0
  PROVE  Half \in Int /\ 2 * Half >= calculate_spread_floor * mid - 1
<1> DEFINE n == calculate_spread_floor * mid
<1>1. n \in Int
  BY FloorType DEF MarketTypes
<1>2. Unit \in Int
  BY TickAssumption DEF Unit
<1> HIDE DEF n
<1>3. n \div 2 \in Int /\ 2 * (n \div 2) >= n - 1
  BY <1>1
<1>4. AtLeast(n \div 2, Unit) \in Int /\ AtLeast(n \div 2, Unit) >= n \div 2
  BY <1>2, <1>3, Extremes
<1> QED BY <1>1, <1>3, <1>4 DEF Half, n

\* What the clamp lets through stays behind the book and away from the mid.
LEMMA AllowedFacts ==
  ASSUME MarketTypes, mid # 0, NEW s \in Sides
  PROVE  /\ Allowed(s) \in Int /\ Allowed(s) % Tick = 0
         /\ s = "long" => /\ Allowed(s) <= book.bid
                          /\ 10000 * Allowed(s) <= 10000 * mid - Half
         /\ s = "short" => /\ Allowed(s) >= book.ask
                           /\ 10000 * Allowed(s) >= 10000 * mid + Half
<1>1. /\ book.bid \in Int /\ book.ask \in Int /\ mid \in Int /\ Tick \in Int /\ Half \in Int
  BY TickAssumption, HalfFacts DEF MarketTypes
<1> DEFINE near == IF s = "long" THEN book.bid ELSE book.ask
           far  == IF s = "long" THEN book.ask ELSE book.bid
           m == Off(s, 10000 * mid, Half)
           f == 10000 * Off(s, far, Tick)
           a == quantize_price(s, m)
           b == quantize_price(s, f)
           c == quantize_price(s, 10000 * near)
<1>2. /\ near \in Int /\ far \in Int /\ m \in Int /\ f \in Int
      /\ s = "long" => m = 10000 * mid - Half /\ near = book.bid
      /\ s = "short" => m = 10000 * mid + Half /\ near = book.ask
  BY <1>1 DEF Off
<1>3. Allowed(s) = Passive(s, a, Passive(s, b, c))
  BY DEF Allowed, Half
<1> HIDE DEF near, m, f
<1>4. /\ a \in Int /\ a % Tick = 0
      /\ s = "long" => 10000 * a <= m
      /\ s = "short" => 10000 * a >= m
  BY <1>2, Quantized
<1>5. b \in Int /\ b % Tick = 0
  BY <1>2, Quantized
<1>6. /\ c \in Int /\ c % Tick = 0
      /\ s = "long" => 10000 * c <= 10000 * near
      /\ s = "short" => 10000 * c >= 10000 * near
  <2>1. 10000 * near \in Int
    BY <1>2
  <2> QED BY <2>1, Quantized
<1> HIDE DEF a, b, c
<1> DEFINE d == Passive(s, b, c)
<1>7. /\ d \in {b, c}
      /\ s = "long" => d <= c
      /\ s = "short" => d >= c
  BY <1>5, <1>6, PassiveOf
<1> HIDE DEF d
<1>8. d \in Int /\ d % Tick = 0
  BY <1>5, <1>6, <1>7
<1> DEFINE e == Passive(s, a, d)
<1>9. /\ e \in {a, d}
      /\ s = "long" => e <= a /\ e <= d
      /\ s = "short" => e >= a /\ e >= d
  BY <1>4, <1>8, PassiveOf
<1>10. Allowed(s) = e
  BY <1>3 DEF d
<1> HIDE DEF e
<1>11. e \in Int /\ e % Tick = 0
  BY <1>4, <1>8, <1>9
<1>12. s = "long" => e <= near /\ 10000 * e <= m
  BY <1>2, <1>4, <1>6, <1>7, <1>8, <1>9, <1>11
<1>13. s = "short" => e >= near /\ 10000 * e >= m
  BY <1>2, <1>4, <1>6, <1>7, <1>8, <1>9, <1>11
<1> QED BY <1>1, <1>2, <1>10, <1>11, <1>12, <1>13

LEMMA ClampType ==
  ASSUME MarketTypes, mid # 0, NEW s \in Sides, NEW p \in Int
  PROVE  clamp_quote(s, p) \in Int
<1> DEFINE n == quantize_price(s, p)
           a == Allowed(s)
           b == Bound(s)
           safe == Passive(s, n, a)
           kept == IF b > 0 /\ safe = Passive(s, safe, b) THEN b ELSE safe
<1>1. n \in Int /\ a \in Int /\ b \in Int
  BY Quantized, AllowedFacts, MoneyAssumption DEF Bound
<1>2. clamp_quote(s, p) = IF Bounded(s) THEN 0
                          ELSE quantize_price(s, 10000 * Passive(s, kept, a))
  BY DEF clamp_quote
<1> HIDE DEF n, a, b
<1>3. safe \in Int
  BY <1>1, PassiveOf
<1> HIDE DEF safe
<1>4. kept \in Int
  BY <1>1, <1>3
<1> HIDE DEF kept
<1>5. 10000 * Passive(s, kept, a) \in Int
  <2>1. Passive(s, kept, a) \in Int
    BY <1>1, <1>4, PassiveOf
  <2> QED BY <2>1
<1>6. quantize_price(s, 10000 * Passive(s, kept, a)) \in Int
  BY <1>5, Quantized
<1> QED BY <1>2, <1>6

\* Price bounds lie on ticks, where they are set.
BoundsOnTicks == \A p \in {PriceFloor, PriceCeiling} : p > 0 => p % Tick = 0

\* A price that passes the clamp is a tick the clamp allows, within the bound of its
\* side, and either that bound or no less passive than the price asked for.
LEMMA ClampFacts ==
  ASSUME MarketTypes, mid # 0, BoundsOnTicks, NEW s \in Sides, NEW p \in Int,
         clamp_quote(s, p) > 0
  PROVE  LET q == clamp_quote(s, p)
         IN /\ q \in Int /\ q % Tick = 0
            /\ s = "long" => /\ q <= Allowed(s) /\ q >= PriceFloor
                             /\ q = PriceFloor \/ 10000 * q <= p
            /\ s = "short" => /\ q >= Allowed(s) /\ (PriceCeiling > 0 => q <= PriceCeiling)
                              /\ q = PriceCeiling \/ 10000 * q >= p
<1> DEFINE n == quantize_price(s, p)
           a == Allowed(s)
           b == Bound(s)
           safe == Passive(s, n, a)
           kept == IF b > 0 /\ safe = Passive(s, safe, b) THEN b ELSE safe
           q == clamp_quote(s, p)
<1>1. /\ a \in Int /\ a % Tick = 0
  BY AllowedFacts
<1>2. /\ n \in Int /\ n % Tick = 0
      /\ s = "long" => 10000 * n <= p
      /\ s = "short" => 10000 * n >= p
  BY Quantized
<1>3. /\ b \in Int /\ (b > 0 => b % Tick = 0)
      /\ s = "long" => b = PriceFloor
      /\ s = "short" => b = PriceCeiling
  BY MoneyAssumption DEF Bound, BoundsOnTicks, Sides
<1>4. ~Bounded(s) /\ q = quantize_price(s, 10000 * Passive(s, kept, a))
  BY DEF clamp_quote
<1>5. b > 0 => b = Passive(s, b, a)
  BY <1>4 DEF Bounded
<1> HIDE DEF n, a, b, q
<1>6. /\ safe \in {n, a}
      /\ s = "long" => safe <= n /\ safe <= a
      /\ s = "short" => safe >= n /\ safe >= a
  BY <1>1, <1>2, PassiveOf
<1>7. safe \in Int /\ safe % Tick = 0
  BY <1>1, <1>2, <1>6
<1> HIDE DEF safe
<1>8. /\ kept \in Int /\ kept % Tick = 0
      /\ kept = safe \/ (b > 0 /\ kept = b)
  BY <1>3, <1>7
<1>9. /\ s = "long" => (b > 0 /\ kept = b) \/ 10000 * kept <= p
      /\ s = "short" => (b > 0 /\ kept = b) \/ 10000 * kept >= p
  BY <1>2, <1>6, <1>7, <1>8
<1>10. /\ b > 0 /\ s = "long" => kept >= b /\ b <= a
       /\ b > 0 /\ s = "short" => kept <= b /\ b >= a
  <2>1. ASSUME b > 0, s = "long" PROVE kept >= b /\ b <= a
    <3>1. b <= a
      <4>1. b = Passive(s, b, a)
        BY <1>3, <1>5, <2>1
      <4>2. Passive(s, b, a) <= a
        BY <1>1, <1>3, <2>1, PassiveOf
      <4> QED BY <4>1, <4>2
    <3>2. safe # Passive(s, safe, b) => safe >= b
      BY <1>3, <1>7, <2>1 DEF Passive
    <3> QED BY <1>3, <1>7, <2>1, <3>1, <3>2
  <2>2. ASSUME b > 0, s = "short" PROVE kept <= b /\ b >= a
    <3>1. b >= a
      BY <1>1, <1>3, <1>5, <2>2, PassiveOf
    <3>2. safe # Passive(s, safe, b) => safe <= b
      BY <1>3, <1>7, <2>2 DEF Passive
    <3> QED BY <1>3, <1>7, <2>2, <3>1, <3>2
  <2> QED BY <2>1, <2>2
<1> HIDE DEF kept
<1> DEFINE r == Passive(s, kept, a)
<1>11. /\ r \in {kept, a}
       /\ s = "long" => r <= kept /\ r <= a
       /\ s = "short" => r >= kept /\ r >= a
  BY <1>1, <1>8, PassiveOf
<1>12. r \in Int /\ r % Tick = 0
  BY <1>1, <1>8, <1>11
<1>13. q = r
  BY <1>4, <1>12, OnTick
<1> HIDE DEF r
<1>14. r > 0
  BY <1>13 DEF q
<1>15. s = "long" => /\ r <= a /\ r >= PriceFloor
                     /\ r = PriceFloor \/ 10000 * r <= p
  <2> SUFFICES ASSUME s = "long" PROVE r <= a /\ r >= b /\ (r = b \/ 10000 * r <= p)
    BY <1>3
  <2>1. r <= a /\ r >= b
    BY <1>1, <1>3, <1>8, <1>10, <1>11, <1>12, <1>14
  <2>2. r = b \/ 10000 * r <= p
    BY <1>1, <1>3, <1>8, <1>9, <1>11, <1>12, <2>1
  <2> QED BY <2>1, <2>2
<1>16. s = "short" => /\ r >= a /\ (PriceCeiling > 0 => r <= PriceCeiling)
                      /\ r = PriceCeiling \/ 10000 * r >= p
  <2> SUFFICES ASSUME s = "short"
               PROVE  r >= a /\ (b > 0 => r <= b) /\ (r = b \/ 10000 * r >= p)
    BY <1>3
  <2>1. r >= a /\ (b > 0 => r <= b)
    BY <1>1, <1>3, <1>8, <1>10, <1>11, <1>12
  <2>2. r = b \/ 10000 * r >= p
    BY <1>1, <1>3, <1>8, <1>9, <1>10, <1>11, <1>12, <2>1
  <2> QED BY <2>1, <2>2
<1> QED BY <1>12, <1>13, <1>15, <1>16 DEF q, a

-----------------------------------------------------------------------------
(* The price asked for *)

LEMMA ValueTypes ==
  ASSUME MarketTypes, NEW s \in Sides
  PROVE  Value(s) \in Nat /\ Mark \in Nat
<1>1. book.mark \in Nat /\ mid \in Nat /\ pos[s].amount \in Nat /\ pos[s].cost \in Nat
  BY DEF MarketTypes
<1>2. pos[s].amount * book.mark \in Nat
  BY <1>1
<1> QED BY <1>1, <1>2 DEF Value, Mark

LEMMA CapType == Cap \in Nat \ {0}
BY CfgTypes, Extremes DEF Cap

LEMMA SkewType ==
  ASSUME MarketTypes, NEW s \in Sides
  PROVE  Skew(s) \in Nat
<1>1. /\ Cap \in Nat \ {0} /\ Value(s) \in Nat /\ SkewKappa \in Nat /\ cfg.spread \in Nat
  BY CapType, ValueTypes, CfgTypes, MoneyAssumption
<1>2. AtMost(Value(s), Cap) \in Nat
  BY <1>1, Extremes
<1> DEFINE n == 100 * AtMost(Value(s), Cap)
           d == n \div Cap
<1>3. n \in Nat
  BY <1>2
<1> HIDE DEF n
<1>4. d \in Nat
  BY <1>1, <1>3
<1> HIDE DEF d
<1>5. Percent(cfg.spread, d) \in Nat
  BY <1>1, <1>4, PercentTypes
<1>6. SkewKappa * Percent(cfg.spread, d) \in Nat
  BY <1>1, <1>5
<1>7. (SkewKappa * Percent(cfg.spread, d)) \div 100 \in Nat
  BY <1>6
<1> QED BY <1>7 DEF Skew, d, n

LEMMA NetShiftType ==
  ASSUME MarketTypes
  PROVE  NetShift \in Int
<1> DEFINE n == 100 * (Value("long") - Value("short"))
<1>1. n \in Int /\ Cap \in Nat \ {0} /\ SkewGammaNet \in Int
  BY CapType, ValueTypes, MoneyAssumption DEF Sides
<1> HIDE DEF n
<1>2. n \div Cap \in Int
  BY <1>1, DivBounds
<1>3. Clip(n \div Cap, 100) \in Int
  BY <1>2, Extremes DEF Clip
<1>4. Percent(SkewGammaNet, Clip(n \div Cap, 100)) \in Int
  BY <1>1, <1>3, PercentTypes
<1> QED BY <1>4 DEF NetShift, n

LEMMA SpreadFacts ==
  ASSUME MarketTypes, mid # 0, NEW s \in Sides, NEW i \in Nat, NEW mult \in Nat
  PROVE  Spread(s, i, mult) \in Int /\ Spread(s, i, mult) >= calculate_spread_floor
<1>1. /\ calculate_spread_floor \in Nat /\ Skew(s) \in Nat /\ cfg.spread \in Nat /\ cfg.step \in Nat
  BY FloorType, SkewType, CfgTypes
<1>2. Percent(cfg.spread, mult) \in Nat
  BY <1>1, PercentTypes
<1>3. i * cfg.step \in Nat
  BY <1>1
<1> DEFINE m == AtLeast(Percent(cfg.spread, mult) + Skew(s), calculate_spread_floor)
<1>4. m \in Int /\ m >= calculate_spread_floor
  BY <1>1, <1>2, Extremes
<1> HIDE DEF m
<1>5. m + i * cfg.step \in Int /\ m + i * cfg.step >= calculate_spread_floor
  BY <1>1, <1>3, <1>4
<1> QED BY <1>5 DEF Spread, m

\* The price asked for lies at least the floor away from the mid that the net inventory
\* has shifted, the shift being the same for both sides.
LEMMA RawFacts ==
  ASSUME MarketTypes, mid # 0, NEW s \in Sides, NEW i \in Nat, NEW mult \in Nat
  PROVE  LET shifted == mid * (10000 - NetShift)
             d == calculate_spread_floor * mid
         IN /\ RawPrice(s, i, mult) \in Int /\ shifted \in Int /\ d \in Int
            /\ s = "long" => RawPrice(s, i, mult) <= shifted - d
            /\ s = "short" => RawPrice(s, i, mult) >= shifted + d
<1> DEFINE x == Spread(s, i, mult)
           f == calculate_spread_floor
           t == NetShift
<1>1. /\ x \in Int /\ f \in Nat /\ x >= f /\ t \in Int /\ mid \in Nat
  BY SpreadFacts, FloorType, NetShiftType DEF MarketTypes
<1>2. RawPrice(s, i, mult) = mid * ((IF s = "long" THEN 10000 - x ELSE 10000 + x) - t)
  BY DEF RawPrice, Off
<1> HIDE DEF x, f, t
<1>3. f * mid <= x * mid /\ f * mid \in Int /\ x * mid \in Int /\ mid * (10000 - t) \in Int
  BY <1>1, MulMono
<1>4. CASE s = "long"
  <2>1. RawPrice(s, i, mult) = mid * (10000 - t) - x * mid
    BY <1>1, <1>2, <1>4
  <2> QED BY <1>3, <1>4, <2>1 DEF f, t
<1>5. CASE s = "short"
  <2>1. RawPrice(s, i, mult) = mid * (10000 - t) + x * mid
    BY <1>1, <1>2, <1>5
  <2> QED BY <1>3, <1>5, <2>1 DEF f, t
<1> QED BY <1>4, <1>5 DEF Sides

-----------------------------------------------------------------------------
(* A quote *)

LEMMA LevelFacts ==
  ASSUME MarketTypes, NEW s \in Sides, NextLevel(s) # {}
  PROVE  LET i == CHOOSE i \in NextLevel(s) : TRUE
         IN i \in Nat /\ i \in 0..(Levels - 1)
<1>1. Levels \in Nat \ {0} /\ cfg.levels = Levels
  BY CfgTypes
<1>2. pos[s].filled \in Nat
  <2>1. pos[s].filled \in 0..MaxEvents
    BY DEF MarketTypes
  <2> QED BY <2>1, WaitAssumption
<1>3. NextLevel(s) \subseteq 0..(Levels - 1)
  BY <1>1, <1>2 DEF NextLevel
<1>4. (CHOOSE i \in NextLevel(s) : TRUE) \in NextLevel(s)
  OBVIOUS
<1> QED BY <1>3, <1>4

LEMMA MoneyTypes ==
  ASSUME MarketTypes, NEW s \in Sides, NEW budget \in Int, NEW active \in Nat \ {0},
         NEW i \in 0..(Levels - 1)
  PROVE  WithinCap(s, LevelNotional(i, active, budget)) \in Int
<1>1. /\ cfg.levels = Levels /\ Levels \in Nat \ {0} /\ cfg.power \in Nat /\ cfg.side \in Nat
      /\ Value(s) \in Nat /\ MinNotional \in Nat
  BY CfgTypes, ValueTypes, TickAssumption
<1>2. Weight(cfg.levels, i) \in Int
  <2>1. 100 \div Levels \in Int
    BY <1>1, DivBounds
  <2>2. /\ Weights(Levels) \in Seq(Int)
        /\ Len(Weights(Levels)) \in Nat
    BY LenProperties DEF Weights
  <2>3. i < Len(Weights(Levels)) => Weights(Levels)[i + 1] \in Int
    <3>1. i \in Nat
      OBVIOUS
    <3>2. i < Len(Weights(Levels)) => i + 1 \in 1..Len(Weights(Levels))
      BY <2>2, <3>1
    <3> QED BY <2>2, <3>2, ElementOfSeq
  <2> QED BY <1>1, <2>1, <2>3 DEF Weight
<1>3. cfg.power \div active \in Int
  BY <1>1, DivBounds
<1>4. AtMost(cfg.power \div active, budget) \in Int
  BY <1>3, Extremes
<1> DEFINE m == LevelNotional(i, active, budget)
<1>5. m \in Int
  BY <1>2, <1>4, PercentTypes DEF LevelNotional
<1> HIDE DEF m
<1>6. cfg.side - Value(s) \in Int /\ MinNotional \in Int
  BY <1>1
<1>7. WithinCap(s, m) \in Int
  BY <1>5, <1>6, Extremes DEF WithinCap
<1> QED BY <1>7 DEF m

LEMMA AmountType ==
  ASSUME NEW price \in Nat \ {0}, NEW money \in Int
  PROVE  Amount(price, money) \in Int
<1>1. MinAmount * price \in Int /\ (21 * MinNotional) \div 20 \in Int
  <2>1. MinAmount \in Int /\ 21 * MinNotional \in Int
    BY MoneyAssumption, TickAssumption
  <2> QED BY <2>1, DivBounds
<1> DEFINE m == AtLeast(money, AtLeast(MinAmount * price, (21 * MinNotional) \div 20))
<1>2. m \in Int
  BY <1>1, Extremes
<1> HIDE DEF m
<1>3. m \div price \in Int
  BY <1>2, DivBounds
<1>4. m \div price + 1 \in Int
  BY <1>3
<1> QED BY <1>3, <1>4 DEF Amount, m

OpenSides == {t \in Sides : Open(t)}

LEMMA OpenFacts ==
  /\ Cardinality(OpenSides) \in Nat
  /\ \A s \in Sides : Open(s) => Cardinality(OpenSides) # 0
<1>1. IsFiniteSet(Sides) /\ OpenSides \subseteq Sides
  <2>1. IsFiniteSet({"long"})
    BY FS_Singleton
  <2>2. IsFiniteSet({"long"} \cup {"short"}) /\ Sides = {"long"} \cup {"short"}
    BY <2>1, FS_AddElement DEF Sides
  <2> QED BY <2>2 DEF OpenSides
<1>2. IsFiniteSet(OpenSides) /\ Cardinality(OpenSides) \in Nat
  BY <1>1, FS_Subset, FS_CardinalityType
<1>3. ASSUME NEW s \in Sides, Open(s) PROVE Cardinality(OpenSides) # 0
  <2>1. OpenSides # {}
    BY <1>3 DEF OpenSides
  <2> QED BY <1>2, <2>1, FS_EmptySet
<1> QED BY <1>2, <1>3

\* The money for level i of a side: no more than the budget, and beyond what the cap of
\* the side leaves by a smallest order at most.
Money(s, i, budget) ==
  AtMost(WithinCap(s, LevelNotional(i, Cardinality(OpenSides), budget)), budget)

LEMMA MoneyFacts ==
  ASSUME MarketTypes, NEW s \in Sides, NEW budget \in Int, NEW i \in 0..(Levels - 1), Open(s)
  PROVE  /\ Money(s, i, budget) \in Int /\ Money(s, i, budget) <= budget
         /\ Value(s) + Money(s, i, budget) <= cfg.side + MinNotional
<1> DEFINE m == LevelNotional(i, Cardinality(OpenSides), budget)
           w == WithinCap(s, m)
<1>1. Cardinality(OpenSides) \in Nat \ {0}
  BY OpenFacts
<1>2. w \in Int
  BY <1>1, MoneyTypes
<1>3. /\ Value(s) \in Nat /\ cfg.side \in Nat /\ MinNotional \in Nat /\ Value(s) < cfg.side
  BY ValueTypes, CfgTypes, TickAssumption DEF Open
<1> HIDE DEF m
<1>4. w = IF Value(s) + m > cfg.side THEN AtLeast(MinNotional, cfg.side - Value(s)) ELSE m
  BY DEF WithinCap
<1> HIDE DEF w
<1>5. Value(s) + w <= cfg.side + MinNotional
  <2>1. CASE Value(s) + m > cfg.side
    <3>1. w \in {MinNotional, cfg.side - Value(s)}
      BY <1>3, <1>4, <2>1, Extremes
    <3> QED BY <1>3, <3>1
  <2>2. CASE ~(Value(s) + m > cfg.side)
    <3>1. w = m
      BY <1>4, <2>2
    <3> QED BY <1>2, <1>3, <2>2, <3>1
  <2> QED BY <2>1, <2>2
<1>6. AtMost(w, budget) \in Int /\ AtMost(w, budget) <= budget /\ AtMost(w, budget) <= w
  BY <1>2, Extremes
<1> QED BY <1>2, <1>3, <1>5, <1>6 DEF Money, m, w

\* What calculate_quotes answers for a side: nothing, or a clamped price for a level and
\* an amount worth placing.
LEMMA QuoteFacts ==
  ASSUME MarketTypes, NEW s \in Sides, NEW mult \in VolMults, NEW budget \in Int,
         Quote(s, mult, budget) # NoQuote
  PROVE  LET q == Quote(s, mult, budget)
         IN /\ mid # 0 /\ Open(s) /\ NextLevel(s) # {} /\ budget >= MinNotional
            /\ q \in [price : Nat, amount : Nat, level : 0..(Levels - 1)]
            /\ q.price > 0 /\ q.amount > 0
            /\ \E i \in Nat : q.price = clamp_quote(s, RawPrice(s, i, mult))
            /\ \E i \in 0..(Levels - 1) : q.amount = Amount(q.price, Money(s, i, budget))
<1> DEFINE active == Cardinality(OpenSides)
           level  == CHOOSE i \in NextLevel(s) : TRUE
           price  == clamp_quote(s, RawPrice(s, level, mult))
           money  == Money(s, level, budget)
           amount == Amount(price, money)
           q == Quote(s, mult, budget)
<1>1. q = IF mid = 0 \/ ~Open(s) \/ NextLevel(s) = {} \/ budget < MinNotional THEN NoQuote
          ELSE IF price <= 0 THEN NoQuote
          ELSE IF amount * price < MinNotional THEN NoQuote
          ELSE [price |-> price, amount |-> amount, level |-> level]
  BY DEF Quote, Money, OpenSides
<1>2. mid # 0 /\ Open(s) /\ NextLevel(s) # {} /\ ~(budget < MinNotional)
  BY <1>1
<1>3. active \in Nat \ {0} /\ level \in Nat /\ level \in 0..(Levels - 1) /\ mult \in Nat
  BY <1>2, OpenFacts, LevelFacts, MoneyAssumption
<1>4. RawPrice(s, level, mult) \in Int
  BY <1>2, <1>3, RawFacts
<1>5. money \in Int
  BY <1>2, <1>3, MoneyFacts
<1> HIDE DEF active, level
<1>6. price \in Int
  BY <1>2, <1>4, ClampType
<1> HIDE DEF price
<1>7. ~(price <= 0) /\ ~(amount * price < MinNotional)
      /\ q = [price |-> price, amount |-> amount, level |-> level]
  BY <1>1
<1>8. price \in Nat \ {0}
  BY <1>6, <1>7
<1>9. amount \in Int
  BY <1>5, <1>8, AmountType
<1> HIDE DEF amount, q, money
<1>10. amount \in Nat \ {0}
  <2>1. MinNotional \in Nat \ {0} /\ amount * price \in Int
    BY <1>8, <1>9, TickAssumption
  <2>2. amount * price > 0
    BY <1>7, <2>1
  <2>3. ASSUME amount <= 0 PROVE FALSE
    <3>1. amount * price <= 0 * price
      BY <1>8, <1>9, <2>3, MulMono
    <3> QED BY <1>8, <2>1, <2>2, <3>1
  <2> QED BY <1>9, <2>3
<1>11. q \in [price : Nat, amount : Nat, level : 0..(Levels - 1)]
  BY <1>3, <1>7, <1>8, <1>10
<1>12. q.price = clamp_quote(s, RawPrice(s, level, mult)) /\ q.price > 0 /\ q.amount > 0
  BY <1>7, <1>8, <1>10 DEF price
<1>13. q.amount = Amount(q.price, Money(s, level, budget))
  BY <1>7 DEF amount, money
<1>14. budget >= MinNotional
  BY <1>2, TickAssumption
<1> QED BY <1>2, <1>3, <1>11, <1>12, <1>13, <1>14 DEF q

-----------------------------------------------------------------------------
(* Types *)

KnownTick == [age : 0..Lookback, price : Nat, mid : Nat]
SomeQuote == [price : Nat, amount : Nat, level : 0..(Levels - 1)]

\* Ticks are in the order they came in; a side has no more levels filled than there
\* were events.
TypeInv ==
  /\ TypeOK
  /\ ticks \in Seq(KnownTick)
  /\ \A i, j \in 1..Len(ticks) : i <= j => ticks[i].age >= ticks[j].age
  /\ left \in Nat /\ \A s \in Sides : pos[s].filled + left <= MaxEvents

LEMMA Types ==
  ASSUME TypeInv
  PROVE  /\ MarketTypes
         /\ book \in [bid : Nat, ask : Nat, mark : Nat] /\ mid \in Nat
         /\ ticks \in Seq(KnownTick) /\ Len(ticks) \in 0..MaxTicks
         /\ paused \in 0..PauseFor /\ natr \in 1..2000 /\ regime \in Regimes
         /\ pos \in [Sides -> [amount : Nat, cost : Nat, filled : 0..MaxEvents,
                               wait : 0..LevelCooldown]]
         /\ cooling \in [Sides -> 0..SideCooldown]
         /\ resting \in [Sides -> SomeQuote]
         /\ left \in Nat
<1>1. Len(ticks) \in Nat /\ Len(ticks) <= MaxTicks /\ MaxTicks \in Nat
  BY LenProperties, TimesAssumption DEF TypeInv, TypeOK
<1> QED BY <1>1 DEF TypeInv, TypeOK, MarketTypes, SomeQuote

\* The types from the parts that a step changes.
LEMMA Retyped ==
  ASSUME book' \in [bid : Nat, ask : Nat, mark : Nat], mid' \in Nat,
         ticks' \in Seq(KnownTick), Len(ticks') <= MaxTicks,
         \A i, j \in 1..Len(ticks') : i <= j => ticks'[i].age >= ticks'[j].age,
         paused' \in 0..PauseFor, natr' \in 1..2000, regime' \in Regimes,
         pos' \in [Sides -> [amount : Nat, cost : Nat, filled : 0..MaxEvents,
                             wait : 0..LevelCooldown]],
         cooling' \in [Sides -> 0..SideCooldown],
         resting' \in [Sides -> SomeQuote],
         left' \in Nat, \A s \in Sides : pos'[s].filled + left' <= MaxEvents
  PROVE  TypeInv'
<1>1. \A i \in DOMAIN ticks' : ticks'[i] \in KnownTick
  <2>1. DOMAIN ticks' = 1..Len(ticks')
    BY LenProperties
  <2> QED BY <2>1, ElementOfSeq
<1>2. TypeOK'
  BY <1>1 DEF TypeOK, KnownTick, SomeQuote
<1> QED BY <1>2 DEF TypeInv

LEMMA NoQuoteType == NoQuote \in SomeQuote
BY CfgTypes DEF NoQuote, SomeQuote

LEMMA FlatType ==
  Flat \in [amount : Nat, cost : Nat, filled : 0..MaxEvents, wait : 0..LevelCooldown]
BY WaitAssumption DEF Flat

LEMMA TypeInit == Init => TypeInv
<1> SUFFICES ASSUME Init PROVE TypeInv
  OBVIOUS
<1>1. /\ book = [bid |-> 0, ask |-> 0, mark |-> 0] /\ mid = 0
      /\ ticks = <<>> /\ paused = 0 /\ natr = 120 /\ regime = "NEUTRAL"
      /\ pos = [s \in Sides |-> Flat] /\ cooling = [s \in Sides |-> 0]
      /\ resting = [s \in Sides |-> NoQuote] /\ left = MaxEvents
  BY DEF Init, MarketInit
<1>2. ticks \in Seq(KnownTick) /\ Len(ticks) = 0 /\ DOMAIN ticks = {} /\ Len(ticks) <= MaxTicks
  BY <1>1, TimesAssumption
<1>3. /\ paused \in 0..PauseFor /\ regime \in Regimes /\ natr \in 1..2000
      /\ cooling \in [Sides -> 0..SideCooldown] /\ left \in Nat
  BY <1>1, TimesAssumption, RegimesAssumption, WaitAssumption
<1>4. /\ pos \in [Sides -> [amount : Nat, cost : Nat, filled : 0..MaxEvents,
                            wait : 0..LevelCooldown]]
      /\ \A s \in Sides : pos[s].filled + left <= MaxEvents
  <2>1. Flat.filled = 0 /\ 0 + MaxEvents <= MaxEvents
    BY WaitAssumption DEF Flat
  <2> QED BY <1>1, <2>1, FlatType
<1>5. resting \in [Sides -> SomeQuote]
  BY <1>1, NoQuoteType
<1>6. TypeOK
  BY <1>1, <1>2, <1>3, <1>4, <1>5 DEF TypeOK, SomeQuote
<1> QED BY <1>2, <1>3, <1>4, <1>6 DEF TypeInv

LEMMA TargetType ==
  ASSUME TypeInv, NEW s \in Sides, NEW mult \in VolMults, NEW free \in Frees
  PROVE  /\ Target(s, mult, free) \in SomeQuote
         /\ Target(s, mult, free) # NoQuote =>
              /\ mid # 0
              /\ Target(s, mult, free).price > 0
              /\ \E i \in Nat :
                   Target(s, mult, free).price = clamp_quote(s, RawPrice(s, i, mult))
<1>1. MarketTypes
  BY Types
<1> DEFINE a == Available(free)
           n == AtLeast(1, Cardinality(OpenSides))
<1>2. a \in Int
  <2>1. free \in Int
    BY MoneyAssumption
  <2>2. Used \in Int
    <3>1. pos["long"].amount \in Nat /\ pos["short"].amount \in Nat /\ mid \in Nat
      BY <1>1 DEF MarketTypes, Sides
    <3> QED BY <3>1 DEF Used
  <2>3. Percent(95, free) \in Int /\ cfg.power - Used \in Int
    <3>1. cfg.power \in Int
      BY CfgTypes
    <3>2. cfg.power - Used \in Int
      BY <2>2, <3>1
    <3>3. 95 \in Int
      OBVIOUS
    <3>4. Percent(95, free) \in Int
      BY <2>1, <3>3, PercentTypes
    <3> QED BY <3>2, <3>4
  <2>4. AtLeast(0, cfg.power - Used) \in Int
    BY <2>3, Extremes
  <2> QED BY <2>3, <2>4, Extremes DEF Available
<1>3. n \in Nat \ {0}
  BY OpenFacts, Extremes
<1>4. Target(s, mult, free) = Quote(s, mult, a \div n)
  BY DEF Target, OpenSides
<1> HIDE DEF a, n
<1>5. a \div n \in Int
  BY <1>2, <1>3, DivBounds
<1> QED BY <1>1, <1>4, <1>5, QuoteFacts, NoQuoteType DEF SomeQuote

\* A requote.
LEMMA RequoteTypes ==
  ASSUME TypeInv, Requote
  PROVE  TypeInv'
<1>1. UNCHANGED <<book, mid, ticks, paused, natr, regime, pos, cooling, left>>
  BY DEF Requote, marketVars
<1>2. resting' \in [Sides -> SomeQuote]
  <2>1. PICK mult \in VolMults, free \in Frees :
          \/ resting' = [s \in Sides |-> NoQuote]
          \/ UNCHANGED resting
          \/ resting' = [s \in Sides |-> Target(s, mult, free)]
    BY DEF Requote
  <2>2. \A s \in Sides : Target(s, mult, free) \in SomeQuote
    BY TargetType
  <2> QED BY <2>1, <2>2, NoQuoteType, Types
<1> QED BY <1>1, <1>2, Types, Retyped DEF TypeInv

\* A tick of the book.
LEMMA BookTypes ==
  ASSUME TypeInv, NEW b \in Books, UpdateTopOfBook(b)
  PROVE  /\ book' \in [bid : Nat, ask : Nat, mark : Nat] /\ mid' \in Nat
         /\ ticks' \in Seq(KnownTick) /\ Len(ticks') = Len(ticks) + 1
         /\ \A i, j \in 1..Len(ticks') : i <= j => ticks'[i].age >= ticks'[j].age
<1>1. b.bid \in Nat /\ b.ask \in Nat /\ b.mark \in Nat
  BY BooksAssumption
<1>2. book.bid \in Nat /\ book.ask \in Nat /\ book.mark \in Nat /\ mid \in Nat
  BY Types
<1> DEFINE new == Updated(b)
           raw == RawMid(new)
           t == [age |-> 0, price |-> Tracked(b), mid |-> raw]
<1>3. /\ book' = new
      /\ mid' = IF raw > 0 THEN Smoothed(mid, raw) ELSE IF mid = 0 THEN new.mark ELSE mid
      /\ ticks' = Append(ticks, t)
  BY DEF UpdateTopOfBook
<1>4. new \in [bid : Nat, ask : Nat, mark : Nat]
  BY <1>1, <1>2 DEF Updated
<1> HIDE DEF new
<1>5. raw \in Nat
  <2>1. (new.bid + new.ask) \div 2 \in Nat
    BY <1>4
  <2> QED BY <2>1 DEF RawMid
<1> HIDE DEF raw
<1>6. Tracked(b) \in Nat
  BY <1>1 DEF Tracked
<1>7. Lookback \in Nat
  BY TimesAssumption
<1>8. t \in KnownTick /\ t.age = 0
  BY <1>5, <1>6, <1>7 DEF KnownTick
<1>9. mid' \in Nat
  <2>1. Smoothed(mid, raw) \in Nat
    BY <1>2, <1>5 DEF Smoothed
  <2> QED BY <1>2, <1>3, <1>4, <2>1
<1> HIDE DEF t
<1>10. ticks \in Seq(KnownTick) /\ Len(ticks) \in Nat
  BY Types, LenProperties
<1>11. /\ ticks' \in Seq(KnownTick) /\ Len(ticks') = Len(ticks) + 1
       /\ \A i \in 1..Len(ticks) : ticks'[i] = ticks[i]
       /\ ticks'[Len(ticks) + 1] = t
  BY <1>3, <1>8, <1>10, AppendProperties
<1>12. ASSUME NEW i \in 1..Len(ticks'), NEW j \in 1..Len(ticks'), i <= j
       PROVE  ticks'[i].age >= ticks'[j].age
  <2>1. CASE j = Len(ticks) + 1
    <3>1. ticks'[i] \in KnownTick
      BY <1>11, ElementOfSeq
    <3>2. ticks'[i].age \in Nat /\ ticks'[j].age = 0
      BY <1>7, <1>8, <1>11, <2>1, <3>1 DEF KnownTick
    <3> QED BY <3>2
  <2>2. CASE j # Len(ticks) + 1
    <3>1. i \in 1..Len(ticks) /\ j \in 1..Len(ticks)
      BY <1>10, <1>11, <1>12, <2>2
    <3> QED BY <1>11, <1>12, <3>1 DEF TypeInv
  <2> QED BY <2>1, <2>2
<1> QED BY <1>3, <1>4, <1>9, <1>11, <1>12

LEMMA TickerTypes ==
  ASSUME TypeInv, OnTicker
  PROVE  TypeInv'
<1>1. PICK b \in Books : UpdateTopOfBook(b)
  BY DEF OnTicker
<1>2. /\ Len(ticks) < MaxTicks /\ left > 0 /\ left' = left - 1
      /\ UNCHANGED <<natr, regime, pos, cooling>>
      /\ \/ paused' = PauseFor /\ resting' = [s \in Sides |-> NoQuote]
         \/ UNCHANGED <<paused, resting>>
  BY DEF OnTicker
<1>3. /\ book' \in [bid : Nat, ask : Nat, mark : Nat] /\ mid' \in Nat
      /\ ticks' \in Seq(KnownTick) /\ Len(ticks') = Len(ticks) + 1
      /\ \A i, j \in 1..Len(ticks') : i <= j => ticks'[i].age >= ticks'[j].age
  BY <1>1, BookTypes
<1>4. Len(ticks') <= MaxTicks
  BY <1>2, <1>3, Types, TimesAssumption, SMTT(30)
<1>5. paused' \in 0..PauseFor
  BY <1>2, Types, TimesAssumption
<1>6. resting' \in [Sides -> SomeQuote]
  BY <1>2, Types, NoQuoteType
<1>7. left' \in Nat /\ \A s \in Sides : pos'[s].filled + left' <= MaxEvents
  <2>1. left' \in Nat /\ left' < left
    BY <1>2, Types
  <2>2. ASSUME NEW s \in Sides PROVE pos'[s].filled + left' <= MaxEvents
    <3>1. pos[s].filled \in Nat /\ pos[s].filled + left <= MaxEvents /\ MaxEvents \in Nat
      BY Types, WaitAssumption DEF TypeInv
    <3> QED BY <1>2, <2>1, <3>1, Types, SMTT(30)
  <2> QED BY <2>1, <2>2
<1>8. natr' \in 1..2000 /\ regime' \in Regimes /\ cooling' \in [Sides -> 0..SideCooldown]
  BY <1>2, Types
<1>9. pos' \in [Sides -> [amount : Nat, cost : Nat, filled : 0..MaxEvents,
                          wait : 0..LevelCooldown]]
  BY <1>2, Types
<1> QED BY <1>3, <1>4, <1>5, <1>6, <1>7, <1>8, <1>9, Retyped

\* The stream reconnects.
LEMMA ReconnectTypes ==
  ASSUME TypeInv, Reconnect
  PROVE  TypeInv' /\ Len(ticks') = Len(ticks)
<1>1. /\ ticks' = [i \in DOMAIN ticks |-> [ticks[i] EXCEPT !.price = 0]]
      /\ UNCHANGED <<book, mid, paused, natr, regime, pos, cooling, resting, left>>
  BY DEF Reconnect, workerVars
<1>2. /\ Len(ticks) \in Nat /\ DOMAIN ticks = 1..Len(ticks)
      /\ \A i \in 1..Len(ticks) : ticks[i] \in KnownTick
  BY Types, LenProperties, ElementOfSeq
<1>3. /\ DOMAIN ticks' = 1..Len(ticks)
      /\ \A i \in 1..Len(ticks) : ticks'[i] \in KnownTick /\ ticks'[i].age = ticks[i].age
  <2>1. ASSUME NEW i \in 1..Len(ticks)
        PROVE  ticks'[i] \in KnownTick /\ ticks'[i].age = ticks[i].age
    <3> DEFINE t == ticks[i]
    <3>1. ticks'[i] = [t EXCEPT !.price = 0] /\ t \in KnownTick
      BY <1>1, <1>2
    <3> HIDE DEF t
    <3>2. [t EXCEPT !.price = 0] \in KnownTick /\ [t EXCEPT !.price = 0].age = t.age
      BY <3>1 DEF KnownTick
    <3> QED BY <3>1, <3>2 DEF t
  <2> QED BY <1>1, <1>2, <2>1
<1>4. ticks' \in [1..Len(ticks) -> KnownTick]
  BY <1>1, <1>2, <1>3
<1>5. ticks' \in Seq(KnownTick)
  BY <1>2, <1>4, SeqDef
<1>6. Len(ticks') = Len(ticks)
  BY <1>2, <1>3, <1>5, LenProperties
<1>7. \A i, j \in 1..Len(ticks') : i <= j => ticks'[i].age >= ticks'[j].age
  BY <1>3, <1>6 DEF TypeInv
<1>8. TypeInv'
  BY <1>1, <1>5, <1>6, <1>7, Types, Retyped DEF TypeInv
<1> QED BY <1>6, <1>8

\* What a trade leaves of a quote.
LEMMA LeftType ==
  ASSUME NEW q \in SomeQuote, NEW n \in Nat, n <= q.amount
  PROVE  Left(q, n) \in SomeQuote
<1>1. q.amount - n \in Nat
  BY DEF SomeQuote
<1>2. [q EXCEPT !.amount = @ - n] \in SomeQuote
  BY <1>1 DEF SomeQuote
<1> QED BY <1>2, NoQuoteType DEF Left

\* A trade of the quote of a side.
LEMMA FilledTypes ==
  ASSUME TypeInv, NEW s \in Sides, Filled(s)
  PROVE  TypeInv'
<1> DEFINE q == resting[s]
           p == pos[s]
<1>1. q \in SomeQuote /\ q.amount \in Nat /\ q.price \in Nat
  BY Types DEF SomeQuote
<1>2. /\ p \in [amount : Nat, cost : Nat, filled : 0..MaxEvents, wait : 0..LevelCooldown]
      /\ p.amount \in Nat /\ p.cost \in Nat /\ p.filled \in Nat
      /\ p.filled + left <= MaxEvents /\ left \in Nat /\ MaxEvents \in Nat /\ LevelCooldown \in Nat
  <2>1. p \in [amount : Nat, cost : Nat, filled : 0..MaxEvents, wait : 0..LevelCooldown]
    BY Types
  <2>2. p.filled + left <= MaxEvents /\ left \in Nat
    BY DEF TypeInv
  <2> HIDE DEF p
  <2> QED BY <2>1, <2>2, WaitAssumption
<1>3. PICK n \in {q.amount, (q.amount + 1) \div 2} : Trade(s, n)
  BY DEF Filled
<1>4. /\ left > 0 /\ left' = left - 1
      /\ pos' = [pos EXCEPT ![s] = [amount |-> p.amount + n, cost |-> p.cost + n * q.price,
                                    filled |-> p.filled + 1, wait |-> LevelCooldown]]
      /\ resting' = [resting EXCEPT ![s] = Left(q, n)]
      /\ UNCHANGED <<book, mid, ticks, paused, natr, regime, cooling>>
  BY <1>3 DEF Trade, marketVars
<1>5. n \in Nat /\ n <= q.amount
  BY <1>1, <1>3
<1>6. Left(q, n) \in SomeQuote
  BY <1>1, <1>5, LeftType
<1>7. resting' \in [Sides -> SomeQuote]
  BY <1>4, <1>6, Types
<1> DEFINE np == [amount |-> p.amount + n, cost |-> p.cost + n * q.price,
                  filled |-> p.filled + 1, wait |-> LevelCooldown]
<1>8. np \in [amount : Nat, cost : Nat, filled : 0..MaxEvents, wait : 0..LevelCooldown]
  <2>1. p.amount + n \in Nat /\ n * q.price \in Nat
    BY <1>1, <1>2, <1>5
  <2>2. p.cost + n * q.price \in Nat
    BY <1>2, <2>1
  <2>3. p.filled + 1 \in 0..MaxEvents /\ LevelCooldown \in 0..LevelCooldown
    BY <1>2, <1>4
  <2> QED BY <2>1, <2>2, <2>3
<1>9. np.filled + left' <= MaxEvents /\ left' \in Nat
  BY <1>2, <1>4
<1>10. pos' = [pos EXCEPT ![s] = np]
  BY <1>4
<1> HIDE DEF np
<1>11. pos' \in [Sides -> [amount : Nat, cost : Nat, filled : 0..MaxEvents,
                           wait : 0..LevelCooldown]]
  BY <1>8, <1>10, Types
<1>12. ASSUME NEW t \in Sides PROVE pos'[t].filled + left' <= MaxEvents
  <2>1. CASE t = s
    BY <1>9, <1>10, <2>1, Types
  <2>2. CASE t # s
    <3>1. pos'[t] = pos[t]
      BY <1>10, <2>2, Types
    <3>2. pos[t].filled \in Nat /\ pos[t].filled + left <= MaxEvents
      BY Types, WaitAssumption DEF TypeInv
    <3> QED BY <1>2, <1>4, <3>1, <3>2
  <2> QED BY <2>1, <2>2
<1> QED BY <1>4, <1>7, <1>9, <1>11, <1>12, Types, Retyped DEF TypeInv

LEMMA ClosedTypes ==
  ASSUME TypeInv, NEW s \in Sides, Closed(s)
  PROVE  TypeInv'
<1>1. /\ left > 0 /\ left' = left - 1 /\ left \in Nat /\ MaxEvents \in Nat /\ SideCooldown \in Nat
      /\ pos' = [pos EXCEPT ![s] = Flat]
      /\ UNCHANGED <<book, mid, ticks, paused, natr, regime, resting>>
  BY Types, WaitAssumption DEF Closed, marketVars
<1>2. PICK c \in {0, SideCooldown} : cooling' = [cooling EXCEPT ![s] = c]
  BY DEF Closed
<1>3. cooling' \in [Sides -> 0..SideCooldown]
  <2>1. c \in 0..SideCooldown
    BY <1>1, <1>2
  <2> QED BY <1>2, <2>1, Types
<1>4. pos' \in [Sides -> [amount : Nat, cost : Nat, filled : 0..MaxEvents,
                          wait : 0..LevelCooldown]]
  BY <1>1, FlatType, Types
<1>5. ASSUME NEW t \in Sides PROVE pos'[t].filled + left' <= MaxEvents
  <2>1. pos[t].filled \in Nat /\ pos[t].filled + left <= MaxEvents
    BY Types, WaitAssumption DEF TypeInv
  <2>2. CASE t = s
    <3>1. pos'[t].filled = 0
      BY <1>1, <2>2, Types DEF Flat
    <3> QED BY <1>1, <2>1, <3>1
  <2>3. CASE t # s
    <3>1. pos'[t] = pos[t]
      BY <1>1, <2>3, Types
    <3> QED BY <1>1, <2>1, <3>1
  <2> QED BY <2>2, <2>3
<1>6. left' \in Nat
  BY <1>1
<1>7. /\ book' \in [bid : Nat, ask : Nat, mark : Nat] /\ mid' \in Nat
      /\ ticks' \in Seq(KnownTick) /\ Len(ticks') <= MaxTicks
      /\ paused' \in 0..PauseFor /\ natr' \in 1..2000 /\ regime' \in Regimes
      /\ resting' \in [Sides -> SomeQuote]
  BY <1>1, Types, TimesAssumption
<1>8. \A i, j \in 1..Len(ticks') : i <= j => ticks'[i].age >= ticks'[j].age
  BY <1>1 DEF TypeInv
<1> QED BY <1>3, <1>4, <1>5, <1>6, <1>7, <1>8, Retyped

LEMMA CandleTypes ==
  ASSUME TypeInv, Candle
  PROVE  TypeInv'
<1>1. /\ left > 0 /\ left' = left - 1 /\ left \in Nat /\ UNCHANGED <<pos, cooling, resting>>
  BY Types DEF Candle, workerVars
<1>2. UNCHANGED <<book, mid, ticks, paused>>
  BY DEF Candle, UpdateNatr, UpdateTrendBias
<1>3. natr' \in 1..2000
  <2>1. natr \in 1..2000
    BY Types
  <2>2. CASE UpdateTrendBias
    BY <2>1, <2>2 DEF UpdateTrendBias
  <2>3. CASE UpdateNatr
    <3> DEFINE R == 1..2000
    <3>1. PICK n \in Natrs : natr' = IF n \in R THEN n ELSE natr
      BY <2>3 DEF UpdateNatr
    <3>2. natr \in R
      BY <2>1
    <3> HIDE DEF R
    <3>3. natr' \in R
      BY <3>1, <3>2
    <3> QED BY <3>3 DEF R
  <2> QED BY <2>2, <2>3 DEF Candle
<1>4. regime' \in Regimes
  <2>1. regime \in Regimes
    BY Types
  <2>2. regime' = regime \/ regime' \in Regimes
    BY DEF Candle, UpdateNatr, UpdateTrendBias
  <2> QED BY <2>1, <2>2
<1>5. left' \in Nat
  BY <1>1
<1>6. ASSUME NEW t \in Sides PROVE pos'[t].filled + left' <= MaxEvents
  <2>1. pos[t].filled \in Nat /\ pos[t].filled + left <= MaxEvents /\ MaxEvents \in Nat
    BY Types, WaitAssumption DEF TypeInv
  <2> QED BY <1>1, <2>1
<1>7. /\ book' \in [bid : Nat, ask : Nat, mark : Nat] /\ mid' \in Nat
      /\ ticks' \in Seq(KnownTick) /\ Len(ticks') <= MaxTicks /\ paused' \in 0..PauseFor
      /\ pos' \in [Sides -> [amount : Nat, cost : Nat, filled : 0..MaxEvents,
                             wait : 0..LevelCooldown]]
      /\ cooling' \in [Sides -> 0..SideCooldown]
      /\ resting' \in [Sides -> SomeQuote]
  BY <1>1, <1>2, Types, TimesAssumption
<1>8. \A i, j \in 1..Len(ticks') : i <= j => ticks'[i].age >= ticks'[j].age
  BY <1>2 DEF TypeInv
<1> QED BY <1>3, <1>4, <1>5, <1>6, <1>7, <1>8, Retyped

\* Time goes by: what stays in the window is its tail, and none of it is too old, for the
\* first of it is not and the others are younger.
LEMMA AgingTypes ==
  ASSUME TypeInv, Aging
  PROVE  /\ ticks' \in Seq(KnownTick) /\ Len(ticks') <= Len(ticks)
         /\ \A i, j \in 1..Len(ticks') : i <= j => ticks'[i].age >= ticks'[j].age
<1>1. PICK n \in 0..Len(ticks) :
        /\ n < Len(ticks) => ticks[n + 1].age < Lookback
        /\ ticks' = [i \in 1..(Len(ticks) - n) |-> [ticks[i + n] EXCEPT !.age = @ + 1]]
  BY DEF Aging
<1> DEFINE m == Len(ticks) - n
<1>2. Len(ticks) \in Nat /\ Lookback \in Nat /\ \A i \in 1..Len(ticks) : ticks[i] \in KnownTick
  BY Types, LenProperties, ElementOfSeq, TimesAssumption
<1>3. n \in Nat /\ m \in Nat /\ m <= Len(ticks) /\ \A i \in 1..m : i + n \in 1..Len(ticks)
  BY <1>1, <1>2
<1> HIDE DEF m
<1>4. ASSUME NEW i \in 1..m
      PROVE  ticks'[i] \in KnownTick /\ ticks'[i].age = ticks[i + n].age + 1
  <2> DEFINE t == ticks[i + n]
  <2>1. t \in KnownTick /\ t.age \in Nat /\ t.age < Lookback
    <3>1. n < Len(ticks) /\ n + 1 \in 1..Len(ticks) /\ n + 1 <= i + n
      BY <1>2, <1>3 DEF m
    <3>2. ticks[n + 1].age < Lookback /\ ticks[n + 1].age >= t.age
      BY <1>1, <1>3, <3>1 DEF TypeInv
    <3>3. t \in KnownTick /\ ticks[n + 1] \in KnownTick
      BY <1>2, <1>3, <3>1
    <3>4. t.age \in Nat /\ ticks[n + 1].age \in Nat
      BY <1>2, <3>3 DEF KnownTick
    <3> HIDE DEF t
    <3> QED BY <1>2, <3>2, <3>3, <3>4
  <2>2. ticks'[i] = [t EXCEPT !.age = @ + 1]
    BY <1>1 DEF m
  <2> HIDE DEF t
  <2>3. t.age + 1 \in 0..Lookback
    BY <1>2, <2>1
  <2>4. [t EXCEPT !.age = @ + 1] \in KnownTick /\ [t EXCEPT !.age = @ + 1].age = t.age + 1
    BY <2>1, <2>3 DEF KnownTick
  <2> QED BY <2>2, <2>4 DEF t
<1>5. ticks' \in [1..m -> KnownTick] /\ DOMAIN ticks' = 1..m
  BY <1>1, <1>4 DEF m
<1>6. ticks' \in Seq(KnownTick)
  BY <1>3, <1>5, SeqDef
<1>7. Len(ticks') = m
  BY <1>3, <1>5, <1>6, LenProperties
<1>8. ASSUME NEW i \in 1..m, NEW j \in 1..m, i <= j
      PROVE  ticks'[i].age >= ticks'[j].age
  <2>1. i + n \in 1..Len(ticks) /\ j + n \in 1..Len(ticks) /\ i + n <= j + n
    BY <1>3, <1>8
  <2>2. ticks[i + n].age >= ticks[j + n].age
    BY <2>1 DEF TypeInv
  <2>3. ticks[i + n].age \in Nat /\ ticks[j + n].age \in Nat
    BY <1>2, <2>1 DEF KnownTick
  <2> QED BY <1>4, <2>2, <2>3, SMTT(30)
<1> QED BY <1>2, <1>3, <1>6, <1>7, <1>8

LEMMA TimeTypes ==
  ASSUME TypeInv, TimePasses
  PROVE  TypeInv'
<1>1. /\ Aging
      /\ pos' = [s \in Sides |-> [pos[s] EXCEPT !.wait = AtLeast(0, @ - 1)]]
      /\ cooling' = [s \in Sides |-> AtLeast(0, cooling[s] - 1)]
      /\ paused' = IF paused > 0 THEN paused - 1 ELSE 0
      /\ UNCHANGED <<book, mid, natr, regime, resting, left>>
  BY DEF TimePasses, Aging
<1>2. /\ PauseFor \in Nat /\ SideCooldown \in Nat /\ LevelCooldown \in Nat
      /\ \A n \in Nat : \A k \in 0..n : AtLeast(0, k - 1) \in 0..n
  BY TimesAssumption, WaitAssumption DEF AtLeast
<1>3. paused' \in 0..PauseFor
  BY <1>1, <1>2, Types
<1>4. cooling' \in [Sides -> 0..SideCooldown]
  <2>1. \A s \in Sides : cooling[s] \in 0..SideCooldown
    BY Types
  <2>2. \A s \in Sides : AtLeast(0, cooling[s] - 1) \in 0..SideCooldown
    BY <1>2, <2>1
  <2> QED BY <1>1, <2>2
<1>5. ASSUME NEW s \in Sides
      PROVE  /\ pos'[s] \in [amount : Nat, cost : Nat, filled : 0..MaxEvents,
                             wait : 0..LevelCooldown]
             /\ pos'[s].filled = pos[s].filled
  <2> DEFINE p == pos[s]
             w == AtLeast(0, p.wait - 1)
  <2>1. p \in [amount : Nat, cost : Nat, filled : 0..MaxEvents, wait : 0..LevelCooldown]
    BY Types
  <2>2. pos'[s] = [p EXCEPT !.wait = w]
    BY <1>1
  <2> HIDE DEF p
  <2>3. w \in 0..LevelCooldown
    BY <1>2, <2>1
  <2> HIDE DEF w
  <2>4. /\ [p EXCEPT !.wait = w] \in [amount : Nat, cost : Nat, filled : 0..MaxEvents,
                                      wait : 0..LevelCooldown]
        /\ [p EXCEPT !.wait = w].filled = p.filled
    BY <2>1, <2>3
  <2> QED BY <2>2, <2>4 DEF p
<1>6. pos' \in [Sides -> [amount : Nat, cost : Nat, filled : 0..MaxEvents,
                          wait : 0..LevelCooldown]]
  <2>1. DOMAIN pos' = Sides
    BY <1>1
  <2>2. pos' = [s \in Sides |-> pos'[s]]
    BY <1>1
  <2> QED BY <1>5, <2>2
<1>7. ASSUME NEW s \in Sides PROVE pos'[s].filled + left' <= MaxEvents
  BY <1>1, <1>5 DEF TypeInv
<1>8. /\ ticks' \in Seq(KnownTick) /\ Len(ticks') <= Len(ticks)
      /\ \A i, j \in 1..Len(ticks') : i <= j => ticks'[i].age >= ticks'[j].age
  BY <1>1, AgingTypes
<1>9. Len(ticks') <= MaxTicks
  BY <1>8, Types, TimesAssumption, LenProperties
<1>10. /\ book' \in [bid : Nat, ask : Nat, mark : Nat] /\ mid' \in Nat
       /\ natr' \in 1..2000 /\ regime' \in Regimes
       /\ resting' \in [Sides -> SomeQuote] /\ left' \in Nat
  BY <1>1, Types
<1> QED BY <1>3, <1>4, <1>6, <1>7, <1>8, <1>9, <1>10, Retyped

LEMMA TypeNext == TypeInv /\ [Next]_vars => TypeInv'
<1> SUFFICES ASSUME TypeInv, [Next]_vars PROVE TypeInv'
  OBVIOUS
<1>1. CASE OnTicker
  BY <1>1, TickerTypes
<1>2. CASE Reconnect
  BY <1>2, ReconnectTypes
<1>3. CASE Requote
  BY <1>3, RequoteTypes
<1>4. CASE TimePasses
  BY <1>4, TimeTypes
<1>5. CASE Candle
  BY <1>5, CandleTypes
<1>6. ASSUME NEW s \in Sides, Filled(s) PROVE TypeInv'
  BY <1>6, FilledTypes
<1>7. ASSUME NEW s \in Sides, Closed(s) PROVE TypeInv'
  BY <1>7, ClosedTypes
<1>8. CASE UNCHANGED vars
  <2>1. UNCHANGED <<book, mid, ticks, paused, natr, regime, pos, cooling, resting, left>>
    BY <1>8 DEF vars, marketVars, workerVars
  <2>2. /\ book' \in [bid : Nat, ask : Nat, mark : Nat] /\ mid' \in Nat
        /\ ticks' \in Seq(KnownTick) /\ Len(ticks') <= MaxTicks
        /\ paused' \in 0..PauseFor /\ natr' \in 1..2000 /\ regime' \in Regimes
        /\ pos' \in [Sides -> [amount : Nat, cost : Nat, filled : 0..MaxEvents,
                               wait : 0..LevelCooldown]]
        /\ cooling' \in [Sides -> 0..SideCooldown]
        /\ resting' \in [Sides -> SomeQuote] /\ left' \in Nat
    BY <2>1, Types, TimesAssumption
  <2>3. \A i, j \in 1..Len(ticks') : i <= j => ticks'[i].age >= ticks'[j].age
    BY <2>1 DEF TypeInv
  <2>4. \A s \in Sides : pos'[s].filled + left' <= MaxEvents
    BY <2>1 DEF TypeInv
  <2> QED BY <2>2, <2>3, <2>4, Retyped
<1> QED BY <1>1, <1>2, <1>3, <1>4, <1>5, <1>6, <1>7, <1>8 DEF Next

\* Every variable of the quoter and of the market it watches keeps its type: prices and
\* amounts never become negative, through every clamp, skew and rounding, no pause or
\* cooldown is longer than its setting, no tick stays beyond the window, and no quote has
\* a level the configuration does not have (calculate_quotes, MarketState).
THEOREM TypeCorrect == Spec => []TypeOK
<1>1. TypeInv => TypeOK
  BY DEF TypeInv
<1> QED BY TypeInit, TypeNext, <1>1, PTL DEF Spec

-----------------------------------------------------------------------------
(* A surge *)

\* No pair in a pause has a quote.
PauseInv == TypeInv /\ (paused > 0 => \A s \in Sides : resting[s] = NoQuote)

LEMMA PauseInit == Init => PauseInv
<1> SUFFICES ASSUME Init PROVE PauseInv
  OBVIOUS
<1>1. paused = 0
  BY DEF Init, MarketInit
<1> QED BY <1>1, TypeInit DEF PauseInv

LEMMA PauseNext == PauseInv /\ [Next]_vars => PauseInv'
<1> SUFFICES ASSUME PauseInv, [Next]_vars, paused' > 0
             PROVE  \A s \in Sides : resting'[s] = NoQuote
  BY TypeNext DEF PauseInv
<1>0. paused \in Nat /\ (paused > 0 => \A s \in Sides : resting[s] = NoQuote)
  BY Types, TimesAssumption DEF PauseInv
<1>1. CASE OnTicker
  BY <1>0, <1>1 DEF OnTicker
<1>2. CASE Reconnect
  BY <1>0, <1>2 DEF Reconnect, workerVars
<1>3. CASE Requote
  <2>1. UNCHANGED paused
    BY <1>3 DEF Requote, marketVars
  <2>2. ~Sane
    BY <1>0, <2>1 DEF Sane, BreakerActive
  <2> QED BY <1>3, <2>2 DEF Requote
<1>4. CASE TimePasses
  BY <1>0, <1>4 DEF TimePasses, Aging
<1>5. CASE Candle
  BY <1>0, <1>5 DEF Candle, UpdateNatr, UpdateTrendBias, workerVars
<1>6. ASSUME NEW s \in Sides, Filled(s) PROVE \A t \in Sides : resting'[t] = NoQuote
  <2>1. UNCHANGED paused /\ resting[s] # NoQuote
    BY <1>6 DEF Filled, Trade, marketVars
  <2> QED BY <1>0, <2>1
<1>7. ASSUME NEW s \in Sides, Closed(s) PROVE \A t \in Sides : resting'[t] = NoQuote
  BY <1>0, <1>7 DEF Closed, marketVars
<1>8. CASE UNCHANGED vars
  BY <1>0, <1>8 DEF vars, marketVars, workerVars
<1> QED BY <1>1, <1>2, <1>3, <1>4, <1>5, <1>6, <1>7, <1>8 DEF Next

\* Only a tick of the book lengthens the window.
LEMMA OnlyTicker ==
  ASSUME TypeInv, [Next]_vars, Len(ticks') > Len(ticks)
  PROVE  OnTicker
<1>1. Len(ticks) \in Nat
  BY Types
<1>2. CASE Reconnect
  BY <1>1, <1>2, ReconnectTypes
<1>3. CASE TimePasses
  <2>1. Len(ticks') <= Len(ticks) /\ Len(ticks') \in Nat
    BY <1>3, AgingTypes, LenProperties DEF TimePasses
  <2> QED BY <1>1, <2>1
<1>4. CASE ticks' = ticks
  BY <1>1, <1>4
<1>5. Requote => ticks' = ticks
  BY DEF Requote, marketVars
<1>6. Candle => ticks' = ticks
  BY DEF Candle, UpdateNatr, UpdateTrendBias
<1>7. \A s \in Sides : Filled(s) => ticks' = ticks
  BY DEF Filled, Trade, marketVars
<1>8. \A s \in Sides : Closed(s) => ticks' = ticks
  BY DEF Closed, marketVars
<1>9. UNCHANGED vars => ticks' = ticks
  BY DEF vars, marketVars
<1> QED BY <1>2, <1>3, <1>4, <1>5, <1>6, <1>7, <1>8, <1>9 DEF Next

\* A tick with which the window swings by the threshold leaves the pair in a pause and
\* without a quote, be it the tick that begins the pause or one that comes during it:
\* on_ticker_update prolongs no pause and cancels nothing then, and what rested was gone
\* already, since no requote places a quote before the pause has run out.
THEOREM SurgeStopsQuotes == Spec => SurgeStops
<1>1. PauseInv /\ [Next]_vars =>
        [Len(ticks') > Len(ticks) /\ Tripped(ticks') =>
           paused' > 0 /\ \A s \in Sides : resting'[s] = NoQuote]_vars
  <2> SUFFICES ASSUME PauseInv, [Next]_vars, Len(ticks') > Len(ticks), Tripped(ticks')
               PROVE  paused' > 0 /\ \A s \in Sides : resting'[s] = NoQuote
    OBVIOUS
  <2>1. OnTicker
    BY OnlyTicker DEF PauseInv
  <2>2. PauseFor > 0 /\ (paused > 0 => \A s \in Sides : resting[s] = NoQuote)
    BY TimesAssumption DEF PauseInv
  <2> QED BY <2>1, <2>2 DEF OnTicker, BreakerActive
<1> QED BY PauseInit, PauseNext, <1>1, PTL DEF Spec, SurgeStops

-----------------------------------------------------------------------------
(* Passive quotes *)

\* Quotes appear by a requote only: everything else that changes what rests changes the
\* window or a position too.
LEMMA OnlyRequote ==
  ASSUME TypeInv, [Next]_vars, ByRequote
  PROVE  Sane /\ Requote /\ UNCHANGED <<book, mid>>
<1>1. Sane /\ resting' # resting /\ UNCHANGED <<book, mid, ticks, pos>>
  BY DEF ByRequote, marketVars
<1>2. ~OnTicker
  <2>1. ASSUME OnTicker PROVE FALSE
    <3>1. Len(ticks') = Len(ticks) + 1
      BY <2>1, BookTypes DEF OnTicker
    <3>2. Len(ticks) \in Nat
      BY Types
    <3> QED BY <1>1, <3>1, <3>2
  <2> QED BY <2>1
<1>3. ~Reconnect /\ ~Candle /\ ~TimePasses
  BY <1>1 DEF Reconnect, Candle, TimePasses, workerVars
<1>4. ASSUME NEW s \in Sides, Filled(s) PROVE FALSE
  <2>1. PICK n : Trade(s, n)
    BY <1>4 DEF Filled
  <2>2. pos'[s].filled = pos[s].filled + 1 /\ pos[s].filled \in Nat
    BY <2>1, Types, WaitAssumption DEF Trade
  <2> QED BY <1>1, <2>2
<1>5. \A s \in Sides : ~Closed(s)
  BY <1>1 DEF Closed
<1>6. ~UNCHANGED vars
  BY <1>1 DEF vars, workerVars
<1> QED BY <1>1, <1>2, <1>3, <1>4, <1>5, <1>6 DEF Next

\* What a side sends is a tick behind its side of the book, within its price bound, half
\* the least distance from the mid and, away from the bound, a whole spread floor from the
\* mid that the net inventory has shifted.
LEMMA SentFacts ==
  ASSUME TypeInv, BoundsOnTicks, NEW s \in Sides, NEW mult \in VolMults, NEW free \in Frees,
         Target(s, mult, free) # NoQuote
  PROVE  LET q == Target(s, mult, free)
             d == calculate_spread_floor * mid
             shifted == mid * (10000 - NetShift)
         IN /\ mid # 0 /\ q.price \in Nat /\ q.price % Tick = 0
            /\ d \in Int /\ shifted \in Int
            /\ s = "long" =>
                 /\ q.price \in PriceFloor..book.bid
                 /\ 10000 * q.price <= 10000 * mid - Half
                 /\ q.price = PriceFloor \/ 10000 * q.price <= shifted - d
            /\ s = "short" =>
                 /\ q.price >= book.ask /\ (PriceCeiling > 0 => q.price <= PriceCeiling)
                 /\ 10000 * q.price >= 10000 * mid + Half
                 /\ q.price = PriceCeiling \/ 10000 * q.price >= shifted + d
<1> DEFINE q == Target(s, mult, free)
           d == calculate_spread_floor * mid
           shifted == mid * (10000 - NetShift)
           a == Allowed(s)
<1>1. /\ MarketTypes /\ mid # 0 /\ mult \in Nat
      /\ q \in SomeQuote /\ q.price > 0
  BY Types, TargetType, MoneyAssumption
<1>2. PICK i \in Nat : q.price = clamp_quote(s, RawPrice(s, i, mult))
  BY TargetType
<1> DEFINE p == RawPrice(s, i, mult)
           x == q.price
<1>3. /\ p \in Int /\ shifted \in Int /\ d \in Int
      /\ s = "long" => p <= shifted - d
      /\ s = "short" => p >= shifted + d
  BY <1>1, RawFacts
<1>4. /\ a \in Int /\ Half \in Int /\ mid \in Nat
      /\ s = "long" => a <= book.bid /\ 10000 * a <= 10000 * mid - Half
      /\ s = "short" => a >= book.ask /\ 10000 * a >= 10000 * mid + Half
  BY <1>1, AllowedFacts, HalfFacts DEF MarketTypes
<1>5. x = clamp_quote(s, p) /\ x \in Nat /\ x > 0
  BY <1>1, <1>2 DEF SomeQuote
<1> HIDE DEF p, q, d, shifted
<1>6. /\ x % Tick = 0
      /\ s = "long" => x <= a /\ x >= PriceFloor /\ (x = PriceFloor \/ 10000 * x <= p)
      /\ s = "short" => /\ x >= a /\ (PriceCeiling > 0 => x <= PriceCeiling)
                        /\ (x = PriceCeiling \/ 10000 * x >= p)
  BY <1>1, <1>3, <1>5, ClampFacts
<1>7. book.bid \in Nat /\ book.ask \in Nat /\ PriceFloor \in Int /\ PriceCeiling \in Int
  BY <1>1, MoneyAssumption DEF MarketTypes
<1> HIDE DEF x, a
<1>8. s = "long" => /\ x \in PriceFloor..book.bid
                    /\ 10000 * x <= 10000 * mid - Half
                    /\ x = PriceFloor \/ 10000 * x <= shifted - d
  BY <1>3, <1>4, <1>5, <1>6, <1>7
<1>9. s = "short" => /\ x >= book.ask /\ (PriceCeiling > 0 => x <= PriceCeiling)
                     /\ 10000 * x >= 10000 * mid + Half
                     /\ x = PriceCeiling \/ 10000 * x >= shifted + d
  BY <1>3, <1>4, <1>5, <1>6, <1>7
<1> QED BY <1>1, <1>3, <1>5, <1>6, <1>8, <1>9 DEF q, x, d, shifted

\* A bid and an ask of one requote.
LEMMA Apart ==
  ASSUME TypeInv, BoundsOnTicks, NEW mult \in VolMults, NEW free \in Frees,
         NEW q, q = [s \in Sides |-> Target(s, mult, free)],
         q["long"] # NoQuote, q["short"] # NoQuote
  PROVE  10000 * (q["short"].price - q["long"].price)
           >= (IF AtBound(q) THEN calculate_spread_floor * mid - 1
               ELSE 2 * calculate_spread_floor * mid)
<1> DEFINE x == q["long"].price
           y == q["short"].price
           d == calculate_spread_floor * mid
           shifted == mid * (10000 - NetShift)
<1>1. "long" \in Sides /\ "short" \in Sides /\ "long" # "short"
  BY DEF Sides
<1>2. q["long"] = Target("long", mult, free) /\ q["short"] = Target("short", mult, free)
  BY <1>1
<1>3. /\ mid # 0 /\ x \in Nat /\ d \in Int /\ shifted \in Int
      /\ 10000 * x <= 10000 * mid - Half
      /\ x = PriceFloor \/ 10000 * x <= shifted - d
  BY <1>1, <1>2, SentFacts
<1>4. /\ y \in Nat
      /\ 10000 * y >= 10000 * mid + Half
      /\ y = PriceCeiling \/ 10000 * y >= shifted + d
  BY <1>1, <1>2, SentFacts
<1>5. /\ Half \in Int /\ 2 * Half >= d - 1 /\ mid \in Nat /\ calculate_spread_floor \in Nat
  BY <1>3, Types, HalfFacts, FloorType
<1>6. 2 * calculate_spread_floor * mid = 2 * d
  BY <1>5
<1>7. AtBound(q) <=> x = PriceFloor \/ y = PriceCeiling
  BY DEF AtBound
<1> HIDE DEF x, y, d, shifted
<1>8. 10000 * (y - x) >= d - 1
  BY <1>3, <1>4, <1>5
<1>9. ~AtBound(q) => 10000 * (y - x) >= 2 * d
  BY <1>3, <1>4, <1>7
<1>10. CASE AtBound(q)
  BY <1>8, <1>10 DEF x, y, d
<1>11. CASE ~AtBound(q)
  BY <1>6, <1>9, <1>11 DEF x, y
<1> QED BY <1>10, <1>11

LEMMA RequotePassive ==
  ASSUME TypeInv, BoundsOnTicks, [Next]_vars, ByRequote
  PROVE  LET q == resting'
             sent == {s \in Sides : q[s] # NoQuote}
         IN /\ \A s \in sent : q[s].price % Tick = 0
            /\ "long" \in sent => q["long"].price \in PriceFloor..book.bid
            /\ "short" \in sent => q["short"].price >= book.ask
            /\ ("short" \in sent /\ PriceCeiling > 0) => q["short"].price <= PriceCeiling
            /\ sent = Sides =>
                 10000 * (q["short"].price - q["long"].price)
                   >= (IF AtBound(q) THEN calculate_spread_floor * mid - 1
                       ELSE 2 * calculate_spread_floor * mid)
<1> DEFINE q == resting'
           sent == {s \in Sides : q[s] # NoQuote}
<1>1. Sane /\ Requote /\ resting' # resting
  BY OnlyRequote DEF ByRequote
<1>2. PICK mult \in VolMults, free \in Frees :
        resting' = [s \in Sides |-> Target(s, mult, free)]
  BY <1>1 DEF Requote
<1>3. \A s \in sent : q[s] = Target(s, mult, free) /\ Target(s, mult, free) # NoQuote
  BY <1>2
<1>4. "long" \in Sides /\ "short" \in Sides
  BY DEF Sides
<1>5. ASSUME NEW s \in sent PROVE q[s].price % Tick = 0
  BY <1>3, <1>5, SentFacts
<1>6. "long" \in sent => q["long"].price \in PriceFloor..book.bid
  BY <1>3, SentFacts
<1>7. "short" \in sent => /\ q["short"].price >= book.ask
                          /\ PriceCeiling > 0 => q["short"].price <= PriceCeiling
  BY <1>3, SentFacts
<1>8. ASSUME sent = Sides
      PROVE  10000 * (q["short"].price - q["long"].price)
               >= (IF AtBound(q) THEN calculate_spread_floor * mid - 1
                   ELSE 2 * calculate_spread_floor * mid)
  <2>1. q["long"] # NoQuote /\ q["short"] # NoQuote
    BY <1>4, <1>8
  <2>2. q = [s \in Sides |-> Target(s, mult, free)]
    BY <1>2
  <2> HIDE DEF q
  <2> QED BY <2>1, <2>2, Apart
<1> QED BY <1>5, <1>6, <1>7, <1>8

\* Whatever the book, its mark, the inventory and the skew it makes, the measured
\* volatility and the price bounds: no requote crosses or joins the other side of the
\* book, stands before its own side, leaves the tick grid or the bounds of the
\* configuration, and a bid and an ask of one requote are at least twice the spread floor
\* apart, or half of that where a bound has moved one of them (calculate_quotes with
\* clamp_quote as its last word). Price bounds are to lie on ticks: clamp_quote rounds
\* the bound itself away from the mid otherwise, and out of the bounds.
THEOREM QuotesPassive ==
  ASSUME BoundsOnTicks
  PROVE  Spec => PassiveQuotes
<1>1. TypeInv /\ [Next]_vars =>
        [ByRequote =>
           LET q == resting'
               sent == {s \in Sides : q[s] # NoQuote}
           IN /\ \A s \in sent : q[s].price % Tick = 0
              /\ "long" \in sent => q["long"].price \in PriceFloor..book.bid
              /\ "short" \in sent => q["short"].price >= book.ask
              /\ ("short" \in sent /\ PriceCeiling > 0) => q["short"].price <= PriceCeiling
              /\ sent = Sides =>
                   10000 * (q["short"].price - q["long"].price)
                     >= (IF AtBound(q) THEN calculate_spread_floor * mid - 1
                         ELSE 2 * calculate_spread_floor * mid)]_vars
  BY RequotePassive
<1> QED BY TypeInit, TypeNext, <1>1, PTL DEF Spec, PassiveQuotes

-----------------------------------------------------------------------------
(* Exposure *)

\* An order costs no more than its money, or is a smallest one.
LEMMA AmountFacts ==
  ASSUME NEW price \in Nat \ {0}, NEW money \in Int
  PROVE  LET x == Amount(price, money) * price
         IN x \in Int /\ Smallest(price) \in Nat /\ (x <= money \/ x <= Smallest(price))
<1> DEFINE small == (21 * MinNotional) \div 20
           least == MinAmount * price
           m == AtLeast(money, AtLeast(least, small))
           raw == m \div price
<1>1. /\ small \in Nat /\ least \in Nat /\ MinNotional \in Nat
  <2>1. MinAmount \in Nat /\ MinNotional \in Nat
    BY MoneyAssumption, TickAssumption
  <2> QED BY <2>1
<1> HIDE DEF small, least
<1> DEFINE s2 == AtLeast(least, small)
<1>2. s2 \in Nat /\ s2 \in {least, small}
  BY <1>1, Extremes
<1> HIDE DEF s2
<1>3. Smallest(price) = AtLeast(MinNotional + price, s2)
  BY DEF Smallest, s2, least, small
<1>4. Smallest(price) \in Nat /\ Smallest(price) >= s2 /\ Smallest(price) >= MinNotional + price
  <2>1. MinNotional + price \in Nat
    BY <1>1
  <2> QED BY <1>2, <1>3, <2>1, Extremes
<1>5. m \in {money, s2} /\ m \in Int
  <2>1. m = AtLeast(money, s2)
    BY DEF m, s2
  <2> QED BY <1>2, <2>1, Extremes
<1>6. Amount(price, money) = IF raw * price < MinNotional THEN raw + 1 ELSE raw
  BY DEF Amount, raw, m, small, least
<1> HIDE DEF m
<1>7. raw \in Int /\ raw * price <= m
  BY <1>5, DivBounds
<1> HIDE DEF raw
<1>8. CASE raw * price < MinNotional
  <2>1. (raw + 1) * price = raw * price + price /\ raw * price \in Int
    BY <1>7
  <2>2. (raw + 1) * price <= MinNotional + price
    BY <1>1, <1>8, <2>1
  <2>3. (raw + 1) * price \in Int /\ (raw + 1) * price <= Smallest(price)
    BY <1>1, <1>4, <1>7, <2>1, <2>2
  <2> QED BY <1>4, <1>6, <1>8, <2>3
<1>9. CASE ~(raw * price < MinNotional)
  <2>1. raw * price \in Int
    BY <1>7
  <2>2. raw * price <= money \/ raw * price <= Smallest(price)
    BY <1>2, <1>4, <1>5, <1>7, <2>1
  <2> QED BY <1>4, <1>6, <1>9, <2>1, <2>2
<1> QED BY <1>8, <1>9

\* What a side of a requote is worth.
Budget(free) == Available(free) \div AtLeast(1, Cardinality(OpenSides))

LEMMA AvailableFacts ==
  ASSUME TypeInv, NEW free \in Frees
  PROVE  /\ Used \in Nat /\ Available(free) \in Int /\ Budget(free) \in Int
         /\ Available(free) <= AtLeast(0, Power - Used)
<1>1. Used \in Nat
  <2>1. pos["long"].amount \in Nat /\ pos["short"].amount \in Nat /\ mid \in Nat
    BY Types DEF MarketTypes, Sides
  <2> QED BY <2>1 DEF Used
<1>2. Power \in Nat /\ cfg.power = Power
  BY TickAssumption DEF cfg, compute_vamm_parameters
<1>3. Power - Used \in Int
  BY <1>1, <1>2
<1>4. AtLeast(0, Power - Used) \in Int
  BY <1>3, Extremes
<1>5. free \in Int /\ 95 \in Int
  BY MoneyAssumption
<1>6. Percent(95, free) \in Int
  BY <1>5, PercentTypes
<1>7. Available(free) \in Int /\ Available(free) <= AtLeast(0, Power - Used)
  BY <1>2, <1>4, <1>6, Extremes DEF Available
<1>8. AtLeast(1, Cardinality(OpenSides)) \in Nat \ {0}
  BY OpenFacts, Extremes
<1>9. Budget(free) \in Int
  BY <1>7, <1>8, DivBounds DEF Budget
<1> QED BY <1>1, <1>7, <1>9

\* What the order of a side costs, compared with the cap of the side and with the budget.
LEMMA CostFacts ==
  ASSUME TypeInv, NEW s \in Sides, NEW mult \in VolMults, NEW free \in Frees,
         Target(s, mult, free) # NoQuote
  PROVE  LET q == Target(s, mult, free)
             x == q.amount * q.price
         IN /\ Open(s) /\ Budget(free) >= MinNotional
            /\ x \in Nat /\ Smallest(q.price) \in Nat
            /\ Value(s) + x <= cfg.side + Smallest(q.price)
            /\ x <= Budget(free) \/ x <= Smallest(q.price)
<1> DEFINE q == Target(s, mult, free)
           x == q.amount * q.price
<1>1. /\ MarketTypes /\ Budget(free) \in Int
      /\ q = Quote(s, mult, Budget(free))
  BY Types, AvailableFacts DEF Target, Budget, OpenSides
<1> HIDE DEF q
<1>2. /\ Open(s) /\ Budget(free) >= MinNotional
      /\ q.price \in Nat \ {0} /\ q.amount \in Nat
      /\ \E i \in 0..(Levels - 1) : q.amount = Amount(q.price, Money(s, i, Budget(free)))
  BY <1>1, QuoteFacts DEF q
<1>3. PICK i \in 0..(Levels - 1) : q.amount = Amount(q.price, Money(s, i, Budget(free)))
  BY <1>2
<1> DEFINE m == Money(s, i, Budget(free))
<1>4. m \in Int /\ m <= Budget(free) /\ Value(s) + m <= cfg.side + MinNotional
  BY <1>1, <1>2, MoneyFacts
<1> HIDE DEF m
<1>5. Smallest(q.price) \in Nat /\ (x <= m \/ x <= Smallest(q.price))
  BY <1>2, <1>3, <1>4, AmountFacts DEF m
<1>6. x \in Nat
  BY <1>2
<1> HIDE DEF x
<1>7. Value(s) \in Nat /\ cfg.side \in Nat /\ Value(s) < cfg.side /\ MinNotional \in Nat
  BY <1>1, <1>2, ValueTypes, CfgTypes, TickAssumption DEF Open
<1>8. Smallest(q.price) >= MinNotional
  <2> DEFINE n == AtLeast(MinAmount * q.price, (21 * MinNotional) \div 20)
  <2>1. MinAmount * q.price \in Nat /\ (21 * MinNotional) \div 20 \in Nat
    <3>1. MinAmount \in Nat /\ 21 * MinNotional \in Nat
      BY <1>7, MoneyAssumption
    <3>2. (21 * MinNotional) \div 20 \in Nat
      BY <3>1
    <3> QED BY <1>2, <3>1, <3>2
  <2>2. n \in Int /\ MinNotional + q.price \in Int
    BY <1>2, <1>7, <2>1, Extremes
  <2> HIDE DEF n
  <2>3. Smallest(q.price) >= MinNotional + q.price
    BY <2>2, Extremes DEF Smallest, n
  <2> QED BY <1>2, <1>5, <1>7, <2>3
<1>9. Value(s) + x <= cfg.side + Smallest(q.price)
  BY <1>4, <1>5, <1>6, <1>7, <1>8
<1>10. x <= Budget(free) \/ x <= Smallest(q.price)
  BY <1>1, <1>4, <1>5, <1>6
<1> QED BY <1>2, <1>5, <1>6, <1>9, <1>10 DEF q, x

\* Budgets of the sides that are open are shares of what is available.
LEMMA Shares ==
  ASSUME TypeInv, NEW free \in Frees, Budget(free) > 0
  PROVE  /\ Budget(free) <= Available(free)
         /\ OpenSides = Sides => 2 * Budget(free) <= Available(free)
<1> DEFINE n == AtLeast(1, Cardinality(OpenSides))
           b == Budget(free)
           a == Available(free)
<1>1. a \in Int /\ b \in Int /\ n \in Nat \ {0} /\ n >= 1
  BY AvailableFacts, OpenFacts, Extremes
<1>2. b = a \div n
  BY DEF Budget
<1>3. OpenSides = Sides => n = 2
  <2>1. IsFiniteSet({"long"}) /\ Cardinality({"long"}) = 1
    BY FS_Singleton
  <2>2. Cardinality({"long"} \cup {"short"}) = 2 /\ Sides = {"long"} \cup {"short"}
    <3>1. Cardinality({"long"} \cup {"short"}) = Cardinality({"long"}) + 1
      BY <2>1, FS_AddElement, Zenon
    <3> QED BY <2>1, <3>1 DEF Sides
  <2>3. AtLeast(1, 2) = 2
    BY DEF AtLeast
  <2> QED BY <2>2, <2>3
<1> HIDE DEF n, a, b
<1>4. b * n <= a
  BY <1>1, <1>2, DivBounds
<1>5. b <= b * n
  <2>1. 1 * b <= n * b
    BY <1>1, MulMono DEF b
  <2> QED BY <1>1, <2>1
<1>6. b <= a
  BY <1>1, <1>4, <1>5
<1>7. n = 2 => 2 * b <= a
  BY <1>1, <1>4
<1> QED BY <1>3, <1>6, <1>7 DEF a, b

LEMMA RequoteBounded ==
  ASSUME TypeInv, [Next]_vars, ByRequote
  PROVE  LET q == resting'
             money == [s \in Sides |-> q[s].amount * q[s].price]
         IN /\ \A s \in Sides :
                 money[s] > 0 => Value(s) + money[s] <= cfg.side + Smallest(q[s].price)
            /\ Used + money["long"] + money["short"]
                 <= AtLeast(Used, Power) + Smallest(q["long"].price) + Smallest(q["short"].price)
<1> DEFINE q == resting'
           money == [s \in Sides |-> q[s].amount * q[s].price]
           x == money["long"]
           y == money["short"]
           v == Smallest(q["long"].price)
           w == Smallest(q["short"].price)
<1>1. Sane /\ Requote /\ resting' # resting
  BY OnlyRequote DEF ByRequote
<1>2. PICK mult \in VolMults, free \in Frees :
        resting' = [s \in Sides |-> Target(s, mult, free)]
  BY <1>1 DEF Requote
<1>3. \A s \in Sides : q[s] = Target(s, mult, free)
  BY <1>2
<1>4. /\ "long" \in Sides /\ "short" \in Sides /\ Sides = {"long", "short"}
      /\ x = q["long"].amount * q["long"].price /\ y = q["short"].amount * q["short"].price
  BY DEF Sides
<1>5. NoQuote.amount = 0 /\ NoQuote.price = 0 /\ MinNotional \in Nat \ {0} /\ MinAmount \in Nat
  BY TickAssumption, MoneyAssumption DEF NoQuote
<1>6. Smallest(0) \in Nat
  <2>1. MinNotional + 0 \in Nat /\ MinAmount * 0 \in Nat /\ (21 * MinNotional) \div 20 \in Nat
    BY <1>5
  <2> QED BY <2>1, Extremes DEF Smallest
<1>7. ASSUME NEW s \in Sides, q[s] # NoQuote
      PROVE  /\ Open(s) /\ Budget(free) > 0
             /\ money[s] \in Nat /\ Smallest(q[s].price) \in Nat
             /\ Value(s) + money[s] <= cfg.side + Smallest(q[s].price)
             /\ money[s] <= Budget(free) \/ money[s] <= Smallest(q[s].price)
  <2>1. Budget(free) \in Int
    BY AvailableFacts
  <2> DEFINE t == Target(s, mult, free)
  <2>2. t # NoQuote /\ q[s] = t /\ money[s] = t.amount * t.price
    BY <1>3, <1>7
  <2>3. /\ Open(s) /\ Budget(free) >= MinNotional
        /\ t.amount * t.price \in Nat /\ Smallest(t.price) \in Nat
        /\ Value(s) + t.amount * t.price <= cfg.side + Smallest(t.price)
        /\ t.amount * t.price <= Budget(free) \/ t.amount * t.price <= Smallest(t.price)
    BY <2>2, CostFacts
  <2> HIDE DEF q, money, t
  <2> QED BY <1>5, <2>1, <2>2, <2>3
<1>8. ASSUME NEW s \in Sides, q[s] = NoQuote
      PROVE  money[s] = 0 /\ Smallest(q[s].price) \in Nat
  BY <1>5, <1>6, <1>8
<1> DEFINE u == Used
           a == Available(free)
           b == Budget(free)
<1>9. u \in Nat /\ a \in Int /\ b \in Int /\ Power \in Nat /\ a <= AtLeast(0, Power - u)
  BY AvailableFacts, TickAssumption
<1>10. b > 0 => b <= a
  BY Shares
<1>11. b > 0 /\ Open("long") /\ Open("short") => 2 * b <= a
  <2>1. Open("long") /\ Open("short") => OpenSides = Sides
    BY <1>4 DEF OpenSides
  <2> QED BY <2>1, Shares
<1>12. x \in Nat /\ y \in Nat /\ v \in Nat /\ w \in Nat
  BY <1>4, <1>7, <1>8
<1>13. /\ x = 0 \/ (Open("long") /\ b > 0 /\ (x <= b \/ x <= v))
       /\ y = 0 \/ (Open("short") /\ b > 0 /\ (y <= b \/ y <= w))
  BY <1>4, <1>7, <1>8
<1>14. AtLeast(0, Power - u) + u = AtLeast(u, Power) /\ AtLeast(u, Power) \in Nat
       /\ u <= AtLeast(u, Power)
  BY <1>9 DEF AtLeast
<1>15. ASSUME NEW s \in Sides, money[s] > 0
       PROVE  Value(s) + money[s] <= cfg.side + Smallest(q[s].price)
  BY <1>7, <1>8, <1>15
<1> HIDE DEF q, money, x, y, v, w, u, a, b
<1> DEFINE c == AtLeast(u, Power)
<1>16. u + a <= c \/ b <= 0
  <2>1. AtLeast(0, Power - u) \in Int
    BY <1>9, Extremes
  <2> QED BY <1>9, <1>14, <2>1
<1>17. b > 0 => u + b <= c
  BY <1>9, <1>10, <1>14, <1>16
<1>18. b > 0 /\ Open("long") /\ Open("short") => u + 2 * b <= c
  BY <1>9, <1>11, <1>14, <1>16
<1> HIDE DEF c
<1>19. c \in Nat /\ u <= c
  BY <1>14 DEF c
<1>20. u + x + y <= c + v + w
  BY <1>9, <1>12, <1>13, <1>17, <1>18, <1>19
<1> QED BY <1>15, <1>20 DEF c, u, v, w, x, y, money, q

\* One requote takes no side beyond its cap and both no further than the margin of the
\* pair, but for a smallest order each, whatever the inventory, the free balance, the
\* weights of the levels and the price of a step: the sum of the roundings up in
\* calculate_quotes never costs more.
THEOREM ExposureCapped == Spec => ExposureBounded
<1>1. TypeInv /\ [Next]_vars =>
        [ByRequote =>
           LET q == resting'
               money == [s \in Sides |-> q[s].amount * q[s].price]
           IN /\ \A s \in Sides :
                   money[s] > 0 => Value(s) + money[s] <= cfg.side + Smallest(q[s].price)
              /\ Used + money["long"] + money["short"]
                   <= AtLeast(Used, Power) + Smallest(q["long"].price)
                        + Smallest(q["short"].price)]_vars
  BY RequoteBounded
<1> QED BY TypeInit, TypeNext, <1>1, PTL DEF Spec, ExposureBounded

-----------------------------------------------------------------------------
(* The ladder *)

\* Half of the least spread floor, in basis points.
LeastHalf == 14

\* The basis that check_market_sanity tolerates is less than a step of the levels and half
\* of the least spread floor together. It is for every pair the screener promotes with its
\* defaults: a basis of 0.4% (config.py, max_basis_pct), a volatility of at least 0.8%
\* (min_natr_pct) and so a step of at least 0.36%.
BasisWithinStep ==
  /\ MaxBasis \in 0..10000
  /\ (10000 - LeastHalf) * (10000 + MaxBasis) * (10000 - cfg.step) <= 1000000000000
  /\ (10000 + LeastHalf) * (10000 - MaxBasis) * (10000 + cfg.step) >= 1000000000000

LEMMA FloorLeast ==
  ASSUME MarketTypes, mid # 0
  PROVE  Half \in Int /\ Half >= LeastHalf * mid
<1> DEFINE f == calculate_spread_floor
           t == (20000 * Tick) \div mid
<1>1. /\ Half \in Int /\ 2 * Half >= f * mid - 1 /\ f \in Nat /\ mid \in Nat \ {0}
  BY HalfFacts, FloorType DEF MarketTypes
<1>2. t \in Nat
  <2>1. 20000 * Tick \in Nat
    BY TickAssumption
  <2> QED BY <1>1, <2>1
<1>3. f = AtLeast(25, t + 2 * MakerFee + AtLeast(15, cfg.minimum))
  BY DEF calculate_spread_floor
<1>4. cfg.minimum = 25
  BY DEF cfg, compute_vamm_parameters, SpreadFloor, AtLeast, MakerFee, TakerFee
<1> HIDE DEF t
<1>5. f >= 29
  BY <1>2, <1>3, <1>4 DEF AtLeast, MakerFee
<1> HIDE DEF f
<1>6. f * mid >= 29 * mid /\ f * mid \in Int
  BY <1>1, <1>5, MulMono
<1> QED BY <1>1, <1>6 DEF LeastHalf

\* The clamp has the last word, on the tick grid or not.
LEMMA ClampBehind ==
  ASSUME MarketTypes, mid # 0, NEW s \in Sides, NEW p \in Int, clamp_quote(s, p) > 0
  PROVE  LET q == clamp_quote(s, p)
         IN /\ q \in Int
            /\ s = "long" => 10000 * q <= 10000 * mid - Half
            /\ s = "short" => 10000 * q >= 10000 * mid + Half
<1> DEFINE n == quantize_price(s, p)
           a == Allowed(s)
           b == Bound(s)
           safe == Passive(s, n, a)
           kept == IF b > 0 /\ safe = Passive(s, safe, b) THEN b ELSE safe
           r == Passive(s, kept, a)
           q == clamp_quote(s, p)
<1>1. n \in Int /\ a \in Int /\ b \in Int /\ mid \in Int /\ Half \in Int
  BY Quantized, AllowedFacts, HalfFacts, MoneyAssumption DEF Bound, MarketTypes
<1>2. /\ s = "long" => 10000 * a <= 10000 * mid - Half
      /\ s = "short" => 10000 * a >= 10000 * mid + Half
  BY AllowedFacts
<1>3. q = quantize_price(s, 10000 * r)
  BY DEF clamp_quote
<1> HIDE DEF n, a, b, q
<1>4. safe \in Int
  BY <1>1, PassiveOf
<1> HIDE DEF safe
<1>5. kept \in Int
  BY <1>1, <1>4
<1> HIDE DEF kept
<1>6. /\ r \in Int
      /\ s = "long" => r <= a
      /\ s = "short" => r >= a
  BY <1>1, <1>5, PassiveOf
<1> HIDE DEF r
<1>7. 10000 * r \in Int
  BY <1>6
<1>8. /\ q \in Int
      /\ s = "long" => 10000 * q <= 10000 * r
      /\ s = "short" => 10000 * q >= 10000 * r
  BY <1>3, <1>7, Quantized
<1> QED BY <1>1, <1>2, <1>6, <1>8 DEF q

\* Of a mid near the mark, and a mark beyond the entry by a step: what is bought below the
\* one improves the other.
LEMMA BuysLower ==
  ASSUME BasisWithinStep, NEW x \in Nat, NEW m \in Nat, NEW k \in Nat, NEW n \in Nat, NEW c \in Nat,
         10000 * x <= (10000 - LeastHalf) * m,
         10000 * m <= (10000 + MaxBasis) * k,
         10000 * k * n <= (10000 - cfg.step) * c
  PROVE  x * n <= c
<1> DEFINE h == 10000 - LeastHalf
           u == 10000 + MaxBasis
           d == 10000 - cfg.step
<1>1. h \in Nat /\ u \in Nat /\ d \in Int /\ h * u * d <= 1000000000000
  BY CfgTypes DEF BasisWithinStep, LeastHalf
<1>2. 10000 * x <= h * m /\ 10000 * m <= u * k /\ 10000 * k * n <= d * c
  OBVIOUS
<1> HIDE DEF h, u, d
<1> DEFINE hm == h * m
           uk == u * k
           hu == h * u
<1>3. hm \in Nat /\ uk \in Nat /\ hu \in Nat
  BY <1>1
<1>4. 10000 * hm <= h * uk
  <2>1. (10000 * m) * h <= uk * h
    BY <1>1, <1>2, <1>3, MulMono
  <2> QED BY <1>1, <1>3, <2>1
<1>5. h * uk = hu * k
  BY <1>1
<1> HIDE DEF hm, uk, hu
<1>6. 100000000 * x <= hu * k /\ hu * k \in Nat
  BY <1>2, <1>3, <1>4, <1>5 DEF hm
<1>7. (100000000 * x) * n <= (hu * k) * n
  BY <1>6, MulMono
<1> DEFINE kn == k * n
           xn == x * n
           dc == d * c
<1>8. kn \in Nat /\ xn \in Nat /\ dc \in Int
  BY <1>1
<1>9. 100000000 * xn <= hu * kn
  BY <1>3, <1>7
<1>10. 10000 * kn <= dc
  BY <1>2
<1> HIDE DEF kn, xn, dc
<1>11. hu * (10000 * kn) <= hu * dc
  <2>1. (10000 * kn) * hu <= dc * hu
    BY <1>3, <1>8, <1>10, MulMono
  <2> QED BY <1>3, <1>8, <2>1
<1>12. hu * dc = (hu * d) * c /\ hu * d \in Int
  BY <1>1, <1>3 DEF dc
<1>13. (hu * d) * c <= 1000000000000 * c
  BY <1>1, <1>12, MulMono DEF hu
<1>14. 1000000000000 * xn <= 1000000000000 * c
  <2>1. 1000000000000 * xn <= 10000 * (hu * kn)
    BY <1>3, <1>8, <1>9
  <2>2. 10000 * (hu * kn) = hu * (10000 * kn)
    BY <1>3, <1>8
  <2>3. hu * kn \in Int /\ hu * dc \in Int
    BY <1>3, <1>8
  <2> QED BY <1>8, <1>11, <1>12, <1>13, <2>1, <2>2, <2>3
<1> QED BY <1>8, <1>14 DEF xn

LEMMA SellsHigher ==
  ASSUME BasisWithinStep, NEW x \in Nat, NEW m \in Nat, NEW k \in Nat, NEW n \in Nat, NEW c \in Nat,
         10000 * x >= (10000 + LeastHalf) * m,
         10000 * m >= (10000 - MaxBasis) * k,
         10000 * k * n >= (10000 + cfg.step) * c
  PROVE  x * n >= c
<1> DEFINE h == 10000 + LeastHalf
           u == 10000 - MaxBasis
           d == 10000 + cfg.step
<1>1. h \in Nat /\ u \in Nat /\ d \in Nat /\ h * u * d >= 1000000000000
  BY CfgTypes DEF BasisWithinStep, LeastHalf
<1>2. 10000 * x >= h * m /\ 10000 * m >= u * k /\ 10000 * k * n >= d * c
  OBVIOUS
<1> HIDE DEF h, u, d
<1> DEFINE hm == h * m
           uk == u * k
           hu == h * u
<1>3. hm \in Nat /\ uk \in Nat /\ hu \in Nat
  BY <1>1
<1>4. 10000 * hm >= h * uk
  <2>1. uk * h <= (10000 * m) * h
    BY <1>1, <1>2, <1>3, MulMono
  <2> QED BY <1>1, <1>3, <2>1
<1>5. h * uk = hu * k
  BY <1>1
<1> HIDE DEF hm, uk, hu
<1>6. hu * k <= 100000000 * x /\ hu * k \in Nat
  BY <1>2, <1>3, <1>4, <1>5 DEF hm
<1>7. (hu * k) * n <= (100000000 * x) * n
  BY <1>6, MulMono
<1> DEFINE kn == k * n
           xn == x * n
           dc == d * c
<1>8. kn \in Nat /\ xn \in Nat /\ dc \in Nat
  BY <1>1
<1>9. hu * kn <= 100000000 * xn
  BY <1>3, <1>7
<1>10. dc <= 10000 * kn
  BY <1>2
<1> HIDE DEF kn, xn, dc
<1>11. hu * dc <= hu * (10000 * kn)
  <2>1. dc * hu <= (10000 * kn) * hu
    BY <1>3, <1>8, <1>10, MulMono
  <2> QED BY <1>3, <1>8, <2>1
<1>12. hu * dc = (hu * d) * c /\ hu * d \in Int
  BY <1>1, <1>3 DEF dc
<1>13. 1000000000000 * c <= (hu * d) * c
  BY <1>1, <1>12, MulMono DEF hu
<1>14. 1000000000000 * c <= 1000000000000 * xn
  <2>1. 10000 * (hu * kn) <= 1000000000000 * xn
    BY <1>3, <1>8, <1>9
  <2>2. 10000 * (hu * kn) = hu * (10000 * kn)
    BY <1>3, <1>8
  <2>3. hu * kn \in Int /\ hu * dc \in Int
    BY <1>3, <1>8
  <2> QED BY <1>8, <1>11, <1>12, <1>13, <2>1, <2>2, <2>3
<1> QED BY <1>8, <1>14 DEF xn

\* A price at which adding to position p does not worsen its average entry.
Improves(s, price, p) ==
  IF s = "long" THEN price * p.amount <= p.cost ELSE price * p.amount >= p.cost

\* What a requote sends for a side with a position improves it.
LEMMA TargetImproves ==
  ASSUME TypeInv, BasisWithinStep, Sane, NEW s \in Sides, NEW mult \in VolMults, NEW free \in Frees,
         Target(s, mult, free) # NoQuote, pos[s].amount > 0, pos[s].filled > 0
  PROVE  Improves(s, Target(s, mult, free).price, pos[s])
<1> DEFINE q == Target(s, mult, free)
           x == q.price
           n == pos[s].amount
           c == pos[s].cost
<1>1. MarketTypes /\ mid # 0 /\ q \in SomeQuote /\ x > 0 /\ NextLevel(s) # {}
  <2>1. Budget(free) \in Int /\ q = Quote(s, mult, Budget(free))
    BY AvailableFacts DEF Target, Budget, OpenSides
  <2>2. MarketTypes
    BY Types
  <2> HIDE DEF q
  <2> QED BY <2>1, <2>2, QuoteFacts DEF SomeQuote, q
<1>2. PICK i \in Nat : x = clamp_quote(s, RawPrice(s, i, mult))
  BY TargetType
<1>3. RawPrice(s, i, mult) \in Int
  BY <1>1, RawFacts, MoneyAssumption
<1>4. /\ x \in Nat /\ mid \in Nat /\ n \in Nat /\ c \in Nat /\ Mark \in Nat
      /\ book.mark \in Nat
  BY <1>1, ValueTypes DEF SomeQuote, MarketTypes
<1> HIDE DEF q, x
<1>5. /\ s = "long" => 10000 * x <= 10000 * mid - Half
      /\ s = "short" => 10000 * x >= 10000 * mid + Half
  BY <1>1, <1>2, <1>3, ClampBehind DEF x
<1>6. Half \in Int /\ Half >= LeastHalf * mid
  BY <1>1, FloorLeast
<1>7. MaxBasis \in 0..10000
  BY DEF BasisWithinStep
<1>8. /\ 10000 * mid <= (10000 + MaxBasis) * Mark
      /\ 10000 * mid >= (10000 - MaxBasis) * Mark
  <2>1. CASE book.mark > 0
    <3>1. Mark = book.mark /\ Between(mid, Mark) * 10000 <= MaxBasis * Mark
      BY <2>1 DEF Sane, Mark
    <3>2. MaxBasis * Mark \in Int
      BY <1>4, <1>7
    <3>3. CASE mid > Mark
      BY <1>4, <1>7, <3>1, <3>2, <3>3 DEF Between
    <3>4. CASE ~(mid > Mark)
      BY <1>4, <1>7, <3>1, <3>2, <3>4 DEF Between
    <3> QED BY <3>3, <3>4
  <2>2. CASE ~(book.mark > 0)
    <3>1. Mark = mid /\ MaxBasis * mid \in Nat
      BY <1>4, <1>7, <2>2 DEF Mark
    <3> QED BY <1>4, <1>7, <3>1
  <2> QED BY <2>1, <2>2
<1>9. /\ s = "long" => 10000 * Mark * n <= (10000 - cfg.step) * c
      /\ s = "short" => 10000 * Mark * n >= (10000 + cfg.step) * c
  BY <1>1, <1>4 DEF NextLevel
<1>10. CASE s = "long"
  <2>1. 10000 * x <= (10000 - LeastHalf) * mid
    BY <1>4, <1>5, <1>6, <1>10 DEF LeastHalf
  <2>2. 10000 * Mark * n <= (10000 - cfg.step) * c
    BY <1>9, <1>10
  <2> HIDE DEF n, c
  <2>3. x * n <= c
    BY <1>4, <1>8, <2>1, <2>2, BuysLower
  <2> QED BY <1>10, <2>3 DEF n, c, Improves, x, q
<1>11. CASE s = "short"
  <2>1. 10000 * x >= (10000 + LeastHalf) * mid
    BY <1>4, <1>5, <1>6, <1>11 DEF LeastHalf
  <2>2. 10000 * Mark * n >= (10000 + cfg.step) * c
    BY <1>9, <1>11
  <2> HIDE DEF n, c
  <2>3. x * n >= c
    BY <1>4, <1>8, <2>1, <2>2, SellsHigher
  <2> QED BY <1>11, <2>3 DEF n, c, Improves, x, q
<1> QED BY <1>10, <1>11 DEF Sides

\* What rests improves the position of its side, however the position was filled: the rest
\* of a level has the price the level was opened at.
LadderInv ==
  /\ TypeInv
  /\ \A s \in Sides :
       /\ resting[s] # NoQuote => resting[s].amount > 0
       /\ pos[s].amount = 0 => pos[s].cost = 0
       /\ pos[s].amount > 0 => pos[s].filled > 0
       /\ resting[s] # NoQuote /\ pos[s].amount > 0 => Improves(s, resting[s].price, pos[s])

LEMMA LadderInit == Init => LadderInv
<1> SUFFICES ASSUME Init PROVE LadderInv
  OBVIOUS
<1>1. \A s \in Sides : resting[s] = NoQuote /\ pos[s] = Flat
  BY DEF Init
<1>2. Flat.amount = 0 /\ Flat.cost = 0
  BY DEF Flat
<1> QED BY <1>1, <1>2, TypeInit DEF LadderInv

\* A side whose quote and whose position, but for its cooldown, stay as they are.
LEMMA SideStays ==
  ASSUME LadderInv, NEW s \in Sides,
         resting'[s] = resting[s] \/ resting'[s] = NoQuote,
         pos'[s].amount = pos[s].amount, pos'[s].cost = pos[s].cost,
         pos'[s].filled = pos[s].filled
  PROVE  /\ resting'[s] # NoQuote => resting'[s].amount > 0
         /\ pos'[s].amount = 0 => pos'[s].cost = 0
         /\ pos'[s].amount > 0 => pos'[s].filled > 0
         /\ resting'[s] # NoQuote /\ pos'[s].amount > 0 =>
              Improves(s, resting'[s].price, pos'[s])
BY DEF LadderInv, Improves

\* A trade takes the position closer to the price of the quote, and what is left of the
\* quote has that price.
LEMMA TradeImproves ==
  ASSUME NEW s \in Sides, NEW a \in Nat, NEW c \in Nat, NEW n \in Nat, NEW x \in Nat,
         NEW p, NEW r, p.amount = a, p.cost = c, r.amount = a + n, r.cost = c + n * x,
         a = 0 => c = 0, a > 0 => Improves(s, x, p)
  PROVE  Improves(s, x, r)
<1> DEFINE xa == x * a
           xn == n * x
<1>1. xa \in Nat /\ xn \in Nat /\ x * (a + n) = xa + xn
  OBVIOUS
<1>2. a = 0 => xa = 0
  OBVIOUS
<1>3. /\ s = "long" /\ a > 0 => xa <= c
      /\ s # "long" /\ a > 0 => xa >= c
  BY DEF Improves
<1>4. r.cost = c + xn /\ x * r.amount = xa + xn
  BY <1>1
<1> HIDE DEF xa, xn
<1>5. /\ s = "long" => xa + xn <= c + xn
      /\ s # "long" => xa + xn >= c + xn
  BY <1>1, <1>2, <1>3
<1> QED BY <1>4, <1>5 DEF Improves

LEMMA FilledImproves ==
  ASSUME LadderInv, NEW s \in Sides, Filled(s)
  PROVE  LadderInv'
<1>0. TypeInv /\ TypeInv'
  BY FilledTypes DEF LadderInv
<1> DEFINE q == resting[s]
           p == pos[s]
<1>1. PICK n \in {q.amount, (q.amount + 1) \div 2} : Trade(s, n)
  BY DEF Filled
<1>2. /\ q # NoQuote /\ q \in SomeQuote /\ q.amount \in Nat /\ q.price \in Nat /\ q.amount > 0
  BY <1>0, <1>1, Types DEF Trade, LadderInv, SomeQuote
<1>3. n \in Nat /\ n > 0 /\ n <= q.amount
  BY <1>2
<1>4. /\ p.amount \in Nat /\ p.cost \in Nat /\ p.filled \in Nat
      /\ pos' = [pos EXCEPT ![s] = [amount |-> p.amount + n, cost |-> p.cost + n * q.price,
                                    filled |-> p.filled + 1, wait |-> LevelCooldown]]
      /\ resting' = [resting EXCEPT ![s] = Left(q, n)]
  <2>1. p \in [amount : Nat, cost : Nat, filled : 0..MaxEvents, wait : 0..LevelCooldown]
    BY <1>0, Types
  <2>2. p.amount \in Nat /\ p.cost \in Nat /\ p.filled \in Nat
    <3> HIDE DEF p
    <3> QED BY <2>1, WaitAssumption
  <2> QED BY <1>1, <2>2 DEF Trade
<1>5. ASSUME NEW t \in Sides, t # s
      PROVE  resting'[t] = resting[t] /\ pos'[t] = pos[t]
  BY <1>0, <1>4, <1>5, Types
<1>6. /\ resting'[s] = Left(q, n)
      /\ pos'[s].amount = p.amount + n /\ pos'[s].cost = p.cost + n * q.price
      /\ pos'[s].filled = p.filled + 1
  BY <1>0, <1>4, Types
<1>7. Left(q, n) # NoQuote => Left(q, n).amount > 0 /\ Left(q, n).price = q.price
  <2>1. ASSUME n # q.amount
        PROVE  Left(q, n).amount = q.amount - n /\ Left(q, n).price = q.price
    <3>1. Left(q, n) = [q EXCEPT !.amount = q.amount - n]
      BY <2>1 DEF Left
    <3> HIDE DEF q
    <3> QED BY <1>2, <3>1 DEF SomeQuote
  <2>2. n = q.amount => Left(q, n) = NoQuote
    BY DEF Left
  <2> QED BY <1>2, <1>3, <2>1, <2>2
<1>8. /\ p.amount = 0 => p.cost = 0
      /\ p.amount > 0 => Improves(s, q.price, p)
  BY <1>2 DEF LadderInv
<1> DEFINE r == pos'[s]
           x == q.price
<1>9. Improves(s, x, r)
  <2> HIDE DEF r, p, q, x
  <2>1. p.amount \in Nat /\ p.cost \in Nat /\ x \in Nat
    BY <1>2, <1>4 DEF x
  <2>2. r.amount = p.amount + n /\ r.cost = p.cost + n * x
    BY <1>6 DEF r, x
  <2>3. (p.amount = 0 => p.cost = 0) /\ (p.amount > 0 => Improves(s, x, p))
    BY <1>8 DEF x
  <2> QED BY <1>3, <2>1, <2>2, <2>3, TradeImproves
<1>10. /\ resting'[s] # NoQuote => resting'[s].amount > 0
       /\ pos'[s].amount = 0 => pos'[s].cost = 0
       /\ pos'[s].amount > 0 => pos'[s].filled > 0
       /\ resting'[s] # NoQuote /\ pos'[s].amount > 0 =>
            Improves(s, resting'[s].price, pos'[s])
  <2>1. pos'[s].amount > 0 /\ pos'[s].filled > 0
    BY <1>3, <1>4, <1>6
  <2>2. resting'[s] # NoQuote => resting'[s].price = x /\ resting'[s].amount > 0
    BY <1>6, <1>7
  <2> QED BY <1>9, <2>1, <2>2
<1>11. ASSUME NEW t \in Sides, t # s
       PROVE  /\ resting'[t] # NoQuote => resting'[t].amount > 0
              /\ pos'[t].amount = 0 => pos'[t].cost = 0
              /\ pos'[t].amount > 0 => pos'[t].filled > 0
              /\ resting'[t] # NoQuote /\ pos'[t].amount > 0 =>
                   Improves(t, resting'[t].price, pos'[t])
  BY <1>5, <1>11, SideStays
<1> QED BY <1>0, <1>10, <1>11 DEF LadderInv

LEMMA ClosedImproves ==
  ASSUME LadderInv, NEW s \in Sides, Closed(s)
  PROVE  LadderInv'
<1>0. TypeInv /\ TypeInv'
  BY ClosedTypes DEF LadderInv
<1>1. pos' = [pos EXCEPT ![s] = Flat] /\ resting' = resting
  BY DEF Closed
<1>2. pos'[s] = Flat /\ Flat.amount = 0 /\ Flat.cost = 0
  BY <1>0, <1>1, Types DEF Flat
<1>3. ASSUME NEW t \in Sides, t # s PROVE pos'[t] = pos[t]
  BY <1>0, <1>1, <1>3, Types
<1>4. /\ resting'[s] # NoQuote => resting'[s].amount > 0
      /\ pos'[s].amount = 0 => pos'[s].cost = 0
      /\ ~(pos'[s].amount > 0)
  BY <1>1, <1>2 DEF LadderInv
<1>5. ASSUME NEW t \in Sides, t # s
      PROVE  /\ resting'[t] # NoQuote => resting'[t].amount > 0
             /\ pos'[t].amount = 0 => pos'[t].cost = 0
             /\ pos'[t].amount > 0 => pos'[t].filled > 0
             /\ resting'[t] # NoQuote /\ pos'[t].amount > 0 =>
                  Improves(t, resting'[t].price, pos'[t])
  BY <1>1, <1>3, <1>5, SideStays
<1> QED BY <1>0, <1>4, <1>5 DEF LadderInv

LEMMA RequoteImproves ==
  ASSUME LadderInv, BasisWithinStep, Requote
  PROVE  LadderInv'
<1>0. TypeInv /\ TypeInv' /\ pos' = pos
  BY RequoteTypes DEF LadderInv, Requote
<1>1. CASE ~Sane
  <2>1. \A s \in Sides : resting'[s] = NoQuote
    BY <1>1 DEF Requote
  <2> QED BY <1>0, <2>1, SideStays DEF LadderInv
<1>2. CASE UNCHANGED resting
  BY <1>0, <1>2, SideStays DEF LadderInv
<1>3. CASE Sane /\ ~UNCHANGED resting
  <2>1. PICK mult \in VolMults, free \in Frees :
          resting' = [s \in Sides |-> Target(s, mult, free)]
    BY <1>3 DEF Requote
  <2>2. ASSUME NEW s \in Sides
        PROVE  /\ resting'[s] # NoQuote => resting'[s].amount > 0
               /\ pos'[s].amount = 0 => pos'[s].cost = 0
               /\ pos'[s].amount > 0 => pos'[s].filled > 0
               /\ resting'[s] # NoQuote /\ pos'[s].amount > 0 =>
                    Improves(s, resting'[s].price, pos'[s])
    <3> DEFINE q == Target(s, mult, free)
    <3>1. resting'[s] = q
      BY <2>1
    <3>2. q # NoQuote => q.amount > 0
      <4>1. MarketTypes /\ Budget(free) \in Int /\ q = Quote(s, mult, Budget(free))
        BY <1>0, Types, AvailableFacts DEF Target, Budget, OpenSides
      <4> HIDE DEF q
      <4> QED BY <4>1, QuoteFacts
    <3>3. /\ pos[s].amount = 0 => pos[s].cost = 0
          /\ pos[s].amount > 0 => pos[s].filled > 0
      BY DEF LadderInv
    <3>4. q # NoQuote /\ pos[s].amount > 0 => Improves(s, q.price, pos[s])
      BY <1>0, <1>3, <3>3, TargetImproves
    <3> HIDE DEF q
    <3> QED BY <1>0, <3>1, <3>2, <3>3, <3>4
  <2> QED BY <1>0, <2>2 DEF LadderInv
<1> QED BY <1>1, <1>2, <1>3

LEMMA LadderNext ==
  ASSUME BasisWithinStep
  PROVE  LadderInv /\ [Next]_vars => LadderInv'
<1> SUFFICES ASSUME LadderInv, [Next]_vars PROVE LadderInv'
  OBVIOUS
<1>0. TypeInv /\ TypeInv'
  BY TypeNext DEF LadderInv
<1>1. ASSUME \A s \in Sides : /\ resting'[s] = resting[s] \/ resting'[s] = NoQuote
                              /\ pos'[s].amount = pos[s].amount
                              /\ pos'[s].cost = pos[s].cost
                              /\ pos'[s].filled = pos[s].filled
      PROVE  LadderInv'
  BY <1>0, <1>1, SideStays DEF LadderInv
<1>2. CASE OnTicker
  <2>1. pos' = pos /\ (UNCHANGED resting \/ \A s \in Sides : resting'[s] = NoQuote)
    BY <1>2 DEF OnTicker
  <2> QED BY <1>1, <2>1
<1>3. CASE Reconnect
  BY <1>1, <1>3 DEF Reconnect, workerVars
<1>4. CASE Requote
  BY <1>4, RequoteImproves
<1>5. CASE TimePasses
  <2>1. ASSUME NEW s \in Sides
        PROVE  /\ pos'[s].amount = pos[s].amount /\ pos'[s].cost = pos[s].cost
               /\ pos'[s].filled = pos[s].filled
    <3> DEFINE p == pos[s]
    <3>1. pos'[s] = [p EXCEPT !.wait = AtLeast(0, p.wait - 1)]
      BY <1>5 DEF TimePasses
    <3>2. p \in [amount : Nat, cost : Nat, filled : 0..MaxEvents, wait : 0..LevelCooldown]
      BY <1>0, Types
    <3> HIDE DEF p
    <3>3. pos'[s].amount = p.amount /\ pos'[s].cost = p.cost /\ pos'[s].filled = p.filled
      BY <3>1, <3>2
    <3> QED BY <3>3 DEF p
  <2>2. resting' = resting
    BY <1>5 DEF TimePasses
  <2> QED BY <1>1, <2>1, <2>2
<1>6. CASE Candle
  BY <1>1, <1>6 DEF Candle, workerVars
<1>7. ASSUME NEW s \in Sides, Filled(s) PROVE LadderInv'
  BY <1>7, FilledImproves
<1>8. ASSUME NEW s \in Sides, Closed(s) PROVE LadderInv'
  BY <1>8, ClosedImproves
<1>9. CASE UNCHANGED vars
  BY <1>1, <1>9 DEF vars, workerVars
<1> QED BY <1>2, <1>3, <1>4, <1>5, <1>6, <1>7, <1>8, <1>9 DEF Next

\* Only a trade of a side adds to its position.
LEMMA OnlyTrades ==
  ASSUME TypeInv, [Next]_vars, NEW s \in Sides,
         pos[s].amount > 0, pos'[s].amount > pos[s].amount
  PROVE  resting[s] # NoQuote
<1>0. pos[s].amount \in Nat
  BY Types
<1>1. CASE UNCHANGED pos
  BY <1>0, <1>1
<1>2. ASSUME TimePasses PROVE FALSE
  <2> DEFINE p == pos[s]
  <2>1. pos'[s] = [p EXCEPT !.wait = AtLeast(0, p.wait - 1)]
    BY <1>2 DEF TimePasses
  <2>2. p \in [amount : Nat, cost : Nat, filled : 0..MaxEvents, wait : 0..LevelCooldown]
    BY Types
  <2> HIDE DEF p
  <2>3. pos'[s].amount = p.amount
    BY <2>1, <2>2
  <2> QED BY <1>0, <2>3 DEF p
<1>3. ASSUME NEW t \in Sides, Filled(t) PROVE resting[s] # NoQuote
  <2>1. PICK n : Trade(t, n)
    BY <1>3 DEF Filled
  <2>2. t # s => pos'[s] = pos[s]
    BY <2>1, Types DEF Trade
  <2>3. t = s
    BY <1>0, <2>2
  <2> QED BY <2>1, <2>3 DEF Trade
<1>4. ASSUME NEW t \in Sides, Closed(t) PROVE FALSE
  <2>1. pos'[s] = pos[s] \/ pos'[s] = Flat
    BY <1>4, Types DEF Closed
  <2>2. Flat.amount = 0
    BY DEF Flat
  <2> QED BY <1>0, <2>1, <2>2
<1>5. (OnTicker \/ Reconnect \/ Requote \/ Candle \/ UNCHANGED vars) => UNCHANGED pos
  BY DEF OnTicker, Reconnect, Requote, Candle, vars, workerVars
<1> QED BY <1>1, <1>2, <1>3, <1>4, <1>5 DEF Next

\* What is added to a position never worsens its average entry, however many trades fill a
\* level, in whatever order quotes are replaced, filled in part and left over, and
\* whatever the price does in between: calculate_quotes compares the mark with the average
\* entry, and the quote itself follows the smoothed mid, which may be a basis away from
\* the mark.
THEOREM LadderOnlyImproves ==
  ASSUME BasisWithinStep
  PROVE  Spec => LadderImproves
<1>1. LadderInv /\ [Next]_vars =>
        [\A s \in Sides : pos[s].amount > 0 /\ pos'[s].amount > pos[s].amount =>
           LET price == resting[s].price
           IN IF s = "long" THEN price * pos[s].amount <= pos[s].cost
              ELSE price * pos[s].amount >= pos[s].cost]_vars
  <2> SUFFICES ASSUME LadderInv, [Next]_vars, NEW s \in Sides,
                      pos[s].amount > 0, pos'[s].amount > pos[s].amount
               PROVE  Improves(s, resting[s].price, pos[s])
    BY DEF Improves
  <2>1. resting[s] # NoQuote
    BY OnlyTrades DEF LadderInv
  <2> QED BY <2>1 DEF LadderInv
<1>2. LadderInv /\ [Next]_vars => LadderInv'
  BY LadderNext
<1> QED BY LadderInit, <1>1, <1>2, PTL DEF Spec, LadderImproves
=============================================================================
