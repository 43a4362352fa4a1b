------------------------------- MODULE Quoter -------------------------------
(***************************************************************************)
(* app/core/quoter.py with the part of a worker that feeds it: one quote   *)
(* per side and level, passive, within the caps of the configuration and   *)
(* the margin of the pair, one level at a time.  Amounts are steps of the  *)
(* pair, money is half ticks times steps.  Cancels and placements are      *)
(* WorkerQuotes' business: here a requote replaces what rests.             *)
(***************************************************************************)
EXTENDS MarketState, Vamm

CONSTANTS
  Tick,           \* tick_size, in the unit of prices
  MinNotional, MinAmount,
  PriceFloor, PriceCeiling,   \* -1: none
  SkewKappa, SkewGammaNet,    \* hundredths, basis points
  PingPong,       \* ping_pong_enabled
  Power,          \* allocated margin times leverage
  Levels,         \* order_levels
  GridNatr,       \* volatility the screener measured when the pair was promoted
  VolMults,       \* hundredths get_volatility_multiplier may answer
  Frees,          \* what free balance, times leverage, may be
  LevelCooldown,  \* level_cooldown_sec
  SideCooldown,   \* cooldown of a side after a stop loss
  MaxEvents       \* bound: ticks, trades and changes the candles show

ASSUME TickAssumption == {Tick, MinNotional, Power, Levels} \subseteq Nat \ {0}
ASSUME MoneyAssumption ==
  /\ {MinAmount, SkewKappa, SkewGammaNet, GridNatr} \cup VolMults \cup Frees \subseteq Nat
  /\ {PriceFloor, PriceCeiling} \subseteq Int
ASSUME WaitAssumption == {LevelCooldown, SideCooldown, MaxEvents} \subseteq Nat

VARIABLES
  pos,      \* SidePositionState: amount, cost, levels filled, time to the next level
  cooling,  \* time each side is in cooldown
  resting,  \* the quote of each side, if any
  left      \* events the bound still allows

workerVars == <<pos, cooling, resting>>
vars == <<marketVars, workerVars, left>>

Sides == {"long", "short"}
Flat  == [amount |-> 0, cost |-> 0, filled |-> 0, wait |-> 0]
NoQuote == [price |-> 0, amount |-> 0, level |-> 0]

cfg == compute_vamm_parameters(GridNatr, Power, Levels)

Init ==
  /\ MarketInit
  /\ pos = [s \in Sides |-> Flat]
  /\ cooling = [s \in Sides |-> 0]
  /\ resting = [s \in Sides |-> NoQuote]
  /\ left = MaxEvents

-----------------------------------------------------------------------------
(* Prices.  A price in ten thousandths is rounded away from the middle: bids *)
(* down, asks up.                                                            *)

Unit == 10000 * Tick

quantize_price(s, p) ==
  IF s = "long" THEN (p \div Unit) * Tick ELSE ((p + Unit - 1) \div Unit) * Tick

\* The more passive of two prices.
Passive(s, p, q) == IF (s = "long") = (p < q) THEN p ELSE q

Off(s, p, d) == IF s = "long" THEN p - d ELSE p + d

calculate_spread_floor ==
  AtLeast(25, (20000 * Tick) \div mid + 2 * MakerFee + AtLeast(15, cfg.minimum))

\* Mutant: the clamp forgets the book.
AllowedByMid(s) ==
  quantize_price(s, Off(s, 10000 * mid, AtLeast((calculate_spread_floor * mid) \div 2, Unit)))

\* The least passive price clamp_quote lets through.
Allowed(s) ==
  LET half == AtLeast((calculate_spread_floor * mid) \div 2, Unit)
      near == IF s = "long" THEN book.bid ELSE book.ask
      far  == IF s = "long" THEN book.ask ELSE book.bid
  IN Passive(s, quantize_price(s, Off(s, 10000 * mid, half)),
       Passive(s, quantize_price(s, 10000 * Off(s, far, Tick)), quantize_price(s, 10000 * near)))

\* The price bound of the side, and whether it leaves no room.
Bound(s)   == IF s = "long" THEN PriceFloor ELSE PriceCeiling
Bounded(s) == Bound(s) > 0 /\ Bound(s) # Passive(s, Bound(s), Allowed(s))

\* clamp_quote; 0 for None.
clamp_quote(s, p) ==
  LET safe == Passive(s, quantize_price(s, p), Allowed(s))
      kept == IF Bound(s) > 0 /\ safe = Passive(s, safe, Bound(s)) THEN Bound(s) ELSE safe
  IN IF Bounded(s) THEN 0
     ELSE quantize_price(s, 10000 * Passive(s, kept, Allowed(s)))

-----------------------------------------------------------------------------
(* Inventory *)

\* Before the first mark a position is worth what it cost, and the mid stands in for it.
Value(s) == IF book.mark > 0 THEN pos[s].amount * book.mark ELSE pos[s].cost
Mark     == IF book.mark > 0 THEN book.mark ELSE mid
Cap      == AtLeast(1, cfg.side)
Other(s) == IF s = "long" THEN "short" ELSE "long"
Clip(n, m) == AtLeast(-m, AtMost(m, n))

\* Basis points by which the inventory of the side widens its spread, and by which the
\* net inventory shifts the reference price away from it.
Skew(s)  == (SkewKappa * Percent(cfg.spread, (100 * AtMost(Value(s), Cap)) \div Cap)) \div 100
NetShift == Percent(SkewGammaNet, Clip((100 * (Value("long") - Value("short"))) \div Cap, 100))

\* The distance of level i from the mid.
Spread(s, i, mult) ==
  AtLeast(Percent(cfg.spread, mult) + Skew(s), calculate_spread_floor) + i * cfg.step

RawPrice(s, i, mult) == mid * (Off(s, 10000, Spread(s, i, mult)) - NetShift)

Blocked(s) ==
  \/ regime = (IF s = "long" THEN "BEARISH" ELSE "BULLISH")
  \/ PingPong /\ pos[s].amount > 0
  \/ cooling[s] > 0

Open(s) ==
  /\ Value(s) < cfg.side
  /\ Value("long") + Value("short") < cfg.gross
  /\ ~Blocked(s)

\* Mutant: the next level does not wait for its price.
NextLevelAlways(s) ==
  IF pos[s].amount = 0 \/ pos[s].filled = 0 THEN {0}
  ELSE IF pos[s].filled < cfg.levels /\ pos[s].wait = 0 THEN {pos[s].filled} ELSE {}

\* One level at a time: the next one after its cooldown and beyond its price.
NextLevel(s) ==
  LET p == pos[s]
      beyond == IF s = "long"
                THEN 10000 * Mark * p.amount <= (10000 - cfg.step) * p.cost
                ELSE 10000 * Mark * p.amount >= (10000 + cfg.step) * p.cost
  IN IF p.amount = 0 \/ p.filled = 0 THEN {0}
     ELSE IF p.filled < cfg.levels /\ p.wait = 0 /\ beyond THEN {p.filled} ELSE {}

\* Money for level i, with active sides open and a budget for each.
LevelNotional(i, active, budget) ==
  Percent(Weight(cfg.levels, i), AtMost(cfg.power \div active, budget))

\* Mutant: what is left of the cap does not matter.
WithinCapNever(s, money) == money

\* What a cap leaves of it, at least the smallest order.
WithinCap(s, money) ==
  IF Value(s) + money > cfg.side THEN AtLeast(MinNotional, cfg.side - Value(s)) ELSE money

\* Steps bought for the money: at least the smallest order and a twentieth.
Amount(price, money) ==
  LET raw  == AtLeast(money, AtLeast(MinAmount * price, (21 * MinNotional) \div 20)) \div price
  IN IF raw * price < MinNotional THEN raw + 1 ELSE raw

\* calculate_quotes for one side: its quote, or none.
Quote(s, mult, budget) ==
  LET active == Cardinality({t \in Sides : Open(t)})
      level  == CHOOSE i \in NextLevel(s) : TRUE
      price  == clamp_quote(s, RawPrice(s, level, mult))
      money  == AtMost(WithinCap(s, LevelNotional(level, active, budget)), budget)
      amount == Amount(price, money)
  IN IF mid = 0 \/ ~Open(s) \/ NextLevel(s) = {} \/ budget < MinNotional THEN NoQuote
     ELSE IF price <= 0 THEN NoQuote
     ELSE IF amount * price < MinNotional THEN NoQuote
     ELSE [price |-> price, amount |-> amount, level |-> level]

-----------------------------------------------------------------------------
(* _requote *)

Used == (pos["long"].amount + pos["short"].amount) * mid

Available(free) == AtMost(Percent(95, free), AtLeast(0, cfg.power - Used))

\* The smallest margin with which it goes on, times leverage.
Required ==
  MinNotional * Cardinality({s \in Sides : ~(PingPong /\ pos[s].amount > 0) /\ cooling[s] = 0})

Target(s, mult, free) ==
  Quote(s, mult, Available(free) \div AtLeast(1, Cardinality({t \in Sides : Open(t)})))

Requote ==
  /\ \E mult \in VolMults, free \in Frees :
       IF ~Sane THEN resting' = [s \in Sides |-> NoQuote]
       ELSE IF Required > 0 /\ Available(free) < Required THEN UNCHANGED resting
       ELSE resting' = [s \in Sides |-> Target(s, mult, free)]
  /\ UNCHANGED <<marketVars, pos, cooling, left>>

\* on_ticker_update: the book, then _check_dynamic_circuit_breaker.  A pause that has
\* begun is not prolonged.
OnTicker ==
  /\ Len(ticks) < MaxTicks /\ left > 0
  /\ left' = left - 1
  /\ \E b \in Books : UpdateTopOfBook(b)
  /\ IF Tripped(ticks') /\ ~BreakerActive
       THEN paused' = PauseFor /\ resting' = [s \in Sides |-> NoQuote]
       ELSE UNCHANGED <<paused, resting>>
  /\ UNCHANGED <<natr, regime, pos, cooling>>

\* The stream reconnects: price_history_60s is cleared.
Reconnect ==
  /\ ticks' = [i \in DOMAIN ticks |-> [ticks[i] EXCEPT !.price = 0]]
  /\ UNCHANGED <<book, mid, paused, natr, regime, workerVars, left>>

\* What a trade leaves of a quote.
Left(q, amount) == IF amount = q.amount THEN NoQuote ELSE [q EXCEPT !.amount = @ - amount]

\* A trade of the quote of a side; on_fill counts each as a level.
Trade(s, amount) ==
  /\ resting[s] # NoQuote /\ left > 0
  /\ pos' = [pos EXCEPT ![s] = [amount |-> @.amount + amount,
                                cost |-> @.cost + amount * resting[s].price,
                                filled |-> @.filled + 1, wait |-> LevelCooldown]]
  /\ resting' = [resting EXCEPT ![s] = Left(@, amount)]
  /\ left' = left - 1
  /\ UNCHANGED <<marketVars, cooling>>

Filled(s) == \E n \in {resting[s].amount, (resting[s].amount + 1) \div 2} : Trade(s, n)

\* The side is closed, by a take profit or a stop loss.
Closed(s) ==
  /\ pos[s].amount > 0 /\ left > 0
  /\ pos' = [pos EXCEPT ![s] = Flat]
  /\ \E c \in {0, SideCooldown} : cooling' = [cooling EXCEPT ![s] = c]
  /\ left' = left - 1
  /\ UNCHANGED <<marketVars, resting>>

Candle ==
  /\ left > 0 /\ left' = left - 1
  /\ UpdateNatr \/ UpdateTrendBias
  /\ UNCHANGED workerVars

TimePasses ==
  /\ Aging
  /\ pos' = [s \in Sides |-> [pos[s] EXCEPT !.wait = AtLeast(0, @ - 1)]]
  /\ cooling' = [s \in Sides |-> AtLeast(0, cooling[s] - 1)]
  /\ UNCHANGED <<resting, left>>

Next ==
  \/ OnTicker \/ Reconnect \/ Requote \/ TimePasses
  \/ Candle
  \/ \E s \in Sides : Filled(s) \/ Closed(s)

Spec == Init /\ [][Next]_vars

-----------------------------------------------------------------------------
(* Properties *)

\* Every variable keeps its type.
TypeOK ==
  /\ book \in [bid : Nat, ask : Nat, mark : Nat] /\ mid \in Nat
  /\ Len(ticks) <= MaxTicks
  /\ \A i \in DOMAIN ticks : ticks[i] \in [age : 0..Lookback, price : Nat, mid : Nat]
  /\ paused \in 0..PauseFor /\ natr \in 1..2000 /\ regime \in Regimes
  /\ pos \in [Sides -> [amount : Nat, cost : Nat, filled : 0..MaxEvents, wait : 0..LevelCooldown]]
  /\ cooling \in [Sides -> 0..SideCooldown]
  /\ resting \in [Sides -> [price : Nat, amount : Nat, level : 0..(Levels - 1)]]

\* Only a requote changes what rests and neither the market nor a position.
ByRequote == Sane /\ resting' # resting /\ UNCHANGED <<marketVars, pos>>

\* A quote that the price bound of its side has moved towards the mid.
AtBound(q) == q["long"].price = PriceFloor \/ q["short"].price = PriceCeiling

\* Whatever the book, the skew and the bounds, a requote never crosses or joins the other
\* side of the book, stays behind its own, keeps to ticks and price bounds, and leaves at
\* least twice the spread floor, with its fees, between a bid and an ask; a price bound
\* leaves half of it.
PassiveQuotes ==
  [][ByRequote =>
       LET q == resting'
           sent == {s \in Sides : q[s] # NoQuote}
       IN /\ \A s \in sent : q[s].price % Tick = 0
          /\ "long" \in sent => q["long"].price \in PriceFloor..book.bid
          /\ "short" \in sent => q["short"].price >= book.ask
          /\ ("short" \in sent /\ PriceCeiling > 0) => q["short"].price <= PriceCeiling
          /\ sent = Sides =>
               10000 * (q["short"].price - q["long"].price)
                 >= (IF AtBound(q) THEN calculate_spread_floor * mid - 1
                     ELSE 2 * calculate_spread_floor * mid)]_vars

\* The smallest order at a price, or one made a step larger to reach the least notional.
Smallest(price) ==
  AtLeast(MinNotional + price, AtLeast(MinAmount * price, (21 * MinNotional) \div 20))

\* One requote can take a side beyond its cap, or both beyond the margin of the pair, by
\* no more than a smallest order each: a sum of roundings up that no test adds up.
ExposureBounded ==
  [][ByRequote =>
       LET q == resting'
           money == [s \in Sides |-> q[s].amount * q[s].price]
       IN /\ \A s \in Sides :
               money[s] > 0 => Value(s) + money[s] <= cfg.side + Smallest(q[s].price)
          /\ Used + money["long"] + money["short"]
               <= AtLeast(Used, Power) + Smallest(q["long"].price) + Smallest(q["short"].price)]_vars

\* A tick with which the window swings by the threshold leaves the pair without quotes
\* and in a pause, be it the first of a surge or one in a pause, after a reconnect or not.
SurgeStops ==
  [][Len(ticks') > Len(ticks) /\ Tripped(ticks') =>
       paused' > 0 /\ \A s \in Sides : resting'[s] = NoQuote]_vars

\* What is added to a position never worsens its average entry: the next level is quoted
\* only after its cooldown and beyond the entry, and the quote of a level before it is
\* gone or has the price it was opened at.
LadderImproves ==
  [][\A s \in Sides : pos[s].amount > 0 /\ pos'[s].amount > pos[s].amount =>
       LET price == resting[s].price
       IN IF s = "long" THEN price * pos[s].amount <= pos[s].cost
          ELSE price * pos[s].amount >= pos[s].cost]_vars
=============================================================================
