----------------------------- MODULE MarketState -----------------------------
(***************************************************************************)
(* app/core/market_state.py: what a worker knows of the market of its pair *)
(* and when that is too unsettled to quote.  Prices are half ticks, ratios *)
(* basis points, time is counted in units of which the window has          *)
(* Lookback.  The two histories are one sequence of ticks: a tick is known *)
(* to the breaker until the stream reconnects, and it has a mid if its     *)
(* book was in order.                                                      *)
(***************************************************************************)
EXTENDS Integers, FiniteSets, Sequences

CONSTANTS
  Books,         \* what a tick may say: bid, ask and mark, 0 where it says nothing
  Lookback,      \* circuit_breaker_lookback_sec and vol_lookback_sec
  PauseFor,      \* circuit_breaker_pause_sec
  MinThreshold,  \* circuit_breaker_min_threshold_pct
  Natrs,         \* 15 minute volatilities the candles may show
  Regimes,       \* trend regimes they may show
  MaxBookSpread, MaxBasis, VolPause,   \* of the configuration
  RawKept,       \* maxlen of price_history
  MaxTicks       \* bound: ticks in a window

ASSUME BooksAssumption == \A b \in Books : {b.bid, b.ask, b.mark} \subseteq Nat
ASSUME TimesAssumption == {Lookback, RawKept, MaxTicks} \subseteq Nat /\ PauseFor \in Nat \ {0}
ASSUME RegimesAssumption == "NEUTRAL" \in Regimes

VARIABLES
  book,     \* best_bid, best_ask, mark_price
  mid,      \* smoothed_mid; 0 before the first price, as raw_mid is then
  ticks,    \* ticks of the window, oldest first
  paused,   \* time until circuit_breaker_paused_until
  natr,     \* current_natr_15m
  regime    \* trend_bias_regime

marketVars == <<book, mid, ticks, paused, natr, regime>>

MarketInit ==
  /\ book = [bid |-> 0, ask |-> 0, mark |-> 0] /\ mid = 0
  /\ ticks = <<>> /\ paused = 0
  /\ natr = 120 /\ regime = "NEUTRAL"

-----------------------------------------------------------------------------
InOrder(b) == 0 < b.bid /\ b.bid < b.ask

\* What a tick leaves of the book: a side it does not give stays as it was.
Updated(b) ==
  [bid  |-> IF b.bid > 0 THEN b.bid ELSE book.bid,
   ask  |-> IF b.ask > 0 THEN b.ask ELSE book.ask,
   mark |-> IF b.mark > 0 THEN b.mark ELSE book.mark]

\* The price of a tick: its mark, else its own mid.
Tracked(b) ==
  CASE b.mark > 0              -> b.mark
    [] b.bid > 0 /\ b.ask > 0  -> (b.bid + b.ask) \div 2
    [] OTHER                   -> 0

RawMid(b) == IF InOrder(b) THEN (b.bid + b.ask) \div 2 ELSE 0

\* Exponential smoothing, three parts in ten, in whole half ticks.
Smoothed(old, raw) == IF old = 0 THEN raw ELSE (3 * raw + 7 * old) \div 10

\* update_top_of_book; a crossed book leaves the mid alone, unless there is none yet.
UpdateTopOfBook(b) ==
  LET new == Updated(b)
      raw == RawMid(new)
  IN /\ book' = new
     /\ mid' = IF raw > 0 THEN Smoothed(mid, raw)
               ELSE IF mid = 0 THEN new.mark ELSE mid
     /\ ticks' = Append(ticks, [age |-> 0, price |-> Tracked(b), mid |-> raw])

\* Prices the breaker sees and those check_market_sanity sees.
BreakerPrices(s) == {s[i].price : i \in DOMAIN s} \ {0}

SanityPrices(s) ==
  LET mids == {i \in DOMAIN s : s[i].mid > 0}
  IN {s[i].mid : i \in {i \in mids : Cardinality({j \in mids : j > i}) < RawKept}}

\* From the lowest to the highest price, as a share of the lowest, it is at least (or
\* more than) t.
Span(P) == (CHOOSE x \in P : \A y \in P : x >= y) - (CHOOSE x \in P : \A y \in P : x <= y)
Lowest(P) == CHOOSE x \in P : \A y \in P : x <= y

Swings(P, t) == P # {} /\ Span(P) * 10000 >= t * Lowest(P)
SwingsBeyond(P, t) == P # {} /\ Span(P) * 10000 > t * Lowest(P)

Threshold == IF MinThreshold > natr THEN MinThreshold ELSE natr

\* check_circuit_breaker
Tripped(s) == Swings(BreakerPrices(s), Threshold)

\* is_circuit_breaker_active
BreakerActive == paused > 0

Between(x, y) == IF x > y THEN x - y ELSE y - x

\* Mutant: the sanity of the market does not ask the breaker.
SaneInPause ==
  /\ InOrder(book)
  /\ (book.ask - book.bid) * 10000 <= MaxBookSpread * mid

\* check_market_sanity
Sane ==
  /\ ~BreakerActive
  /\ InOrder(book)
  /\ (book.ask - book.bid) * 10000 <= MaxBookSpread * mid
  /\ book.mark > 0 => Between(mid, book.mark) * 10000 <= MaxBasis * book.mark
  /\ ~SwingsBeyond(SanityPrices(ticks), VolPause)

\* Mutant: any volatility is taken.
UpdateNatrAny ==
  /\ \E n \in Natrs : natr' = n
  /\ UNCHANGED <<book, mid, ticks, paused, regime>>

\* update_natr_15m refuses what is not between 0.01% and 20%.
UpdateNatr ==
  /\ \E n \in Natrs : natr' = IF n \in 1..2000 THEN n ELSE natr
  /\ UNCHANGED <<book, mid, ticks, paused, regime>>

\* update_trend_bias: where the close stands to its average, by more than a buffer.
UpdateTrendBias ==
  /\ \E r \in Regimes : regime' = r
  /\ UNCHANGED <<book, mid, ticks, paused, natr>>

\* Time goes by: ticks leave the window at its head, while the head is too old, and the
\* pause runs out.
Aging ==
  /\ \E n \in 0..Len(ticks) :
       /\ \A i \in 1..n : ticks[i].age >= Lookback
       /\ n < Len(ticks) => ticks[n + 1].age < Lookback
       /\ ticks' = [i \in 1..(Len(ticks) - n) |-> [ticks[i + n] EXCEPT !.age = @ + 1]]
  /\ paused' = IF paused > 0 THEN paused - 1 ELSE 0
  /\ UNCHANGED <<book, mid, natr, regime>>
=============================================================================
