------------------------------ MODULE Screener ------------------------------
(***************************************************************************)
(* app/core/screener.py: which perpetual contracts are fit to make a       *)
(* market in, what each scores, and their ranking.  A profile is what one  *)
(* scan learns of a contract: volume in millions, depth in thousands,      *)
(* change and volatility in hundredths of a percent, spread in basis       *)
(* points, Hurst exponent and volatility ratio in hundredths, funding in   *)
(* thousandths of a percent.  Scores are hundredths.                       *)
(***************************************************************************)
EXTENDS Integers, FiniteSets, Sequences

CONSTANT Markets   \* the exchange's markets, in the order it lists them

ASSUME MarketsAssumption ==
  /\ Markets \in Seq({Markets[i] : i \in DOMAIN Markets}) /\ Len(Markets) > 0
  /\ \A i, j \in DOMAIN Markets : i # j => Markets[i] # Markets[j]

Symbols == {Markets[i] : i \in DOMAIN Markets}

MarketMetric ==
  [listed : BOOLEAN, answered : BOOLEAN, volume : Nat, change : Int, spread : Nat, natr : Nat,
   hurst : Int, ratio : Nat, depth : Nat, funding : Int]

Clamp(lo, n, hi) == IF n < lo THEN lo ELSE IF n > hi THEN hi ELSE n

-----------------------------------------------------------------------------
(* Hard filters.  A market that is not a linear USDT perpetual of a coin, or *)
(* is blacklisted, is not "listed"; one whose candles, ticker or evaluation  *)
(* failed is not "answered".                                                 *)

\* Reject: volume, change, spread, volatility, trend, spike.
Qualified(m) ==
  /\ m.listed /\ m.answered
  /\ m.volume >= 20
  /\ m.change \in -600..600
  /\ m.spread <= 8
  /\ m.natr \in 80..180
  /\ m.hurst < 46
  /\ m.ratio <= 125

-----------------------------------------------------------------------------
(* Scores *)

score_mean_reversion(hurst) == Clamp(0, (10000 * (46 - hurst)) \div 11, 10000)

score_natr_volatility(natr) ==
  CASE natr \in 100..150 -> 10000
    [] natr \in 80..99   -> 6000 + 200 * (natr - 80)
    [] natr \in 151..180 -> (10000 * (180 - natr)) \div 30
    [] natr > 180        -> 0
    [] OTHER             -> 75 * natr

score_liquidity(volume, depth) ==
  LET byVolume == IF volume < 20 THEN 250 * volume
                  ELSE Clamp(0, 5000 + (5000 * (volume - 20)) \div 180, 10000)
      byDepth  == IF depth < 50 THEN 140 * depth
                  ELSE Clamp(0, 7000 + (3000 * (depth - 50)) \div 150, 10000)
  IN (byVolume + byDepth) \div 2

score_funding_rate(funding) ==
  LET size == IF funding < 0 THEN -funding ELSE funding
  IN Clamp(0, (10000 * (100 - size)) \div 90, 10000)

\* The depth of the book if it could be read, else a thousandth of the volume.
Depth(m) == IF m.depth > 0 THEN m.depth ELSE Clamp(50, m.volume, 500)

compute_pmm_composite_score(m) ==
  (35 * score_mean_reversion(m.hurst) + 25 * score_natr_volatility(m.natr)
    + 20 * score_liquidity(m.volume, Depth(m)) + 20 * score_funding_rate(m.funding)) \div 100

-----------------------------------------------------------------------------
(* scan_and_rank_all_pairs.  The sort is stable, so equal scores keep the   *)
(* order of the markets.                                                    *)

Place(s) == CHOOSE i \in DOMAIN Markets : Markets[i] = s

Score(f, s) == compute_pmm_composite_score(f[s])

Before(f, s, t) ==
  \/ Score(f, s) > Score(f, t)
  \/ Score(f, s) = Score(f, t) /\ Place(s) < Place(t)

\* Ranked candidates of a scan that found f.
scan_and_rank_all_pairs(f) ==
  LET found == {s \in Symbols : Qualified(f[s])}
  IN [r \in 1..Cardinality(found) |->
        CHOOSE s \in found : Cardinality({t \in found : Before(f, t, s)}) = r - 1]
=============================================================================
