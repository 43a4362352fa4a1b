-------------------------------- MODULE Vamm --------------------------------
(***************************************************************************)
(* Grid parameters of a pair from its volatility, compute_vamm_parameters  *)
(* of app/core/screener.py with which the rebalancer configures the pairs  *)
(* it promotes, and the shares of the levels in app/core/quoter.py.        *)
(* Volatilities, fees and spreads are basis points, shares hundredths,     *)
(* amounts units of money.                                                 *)
(***************************************************************************)
EXTENDS Integers, Sequences

CONSTANT Usdt   \* units of money in one USDT

ASSUME UsdtAssumption == Usdt \in Nat \ {0}

Percent(p, n) == (p * n) \div 100

AtLeast(m, n) == IF m > n THEN m ELSE n
AtMost(m, n)  == IF m < n THEN m ELSE n

MakerFee == 2
TakerFee == 5

SpreadFloor == AtLeast(25, 2 * MakerFee + TakerFee + 10)

\* Power is margin times leverage; the caps are the pair's and one side's.
compute_vamm_parameters(natr, power, levels) ==
  [levels |-> AtLeast(1, levels), minimum |-> SpreadFloor,
   spread |-> AtLeast(SpreadFloor, Percent(30, natr)), step |-> Percent(45, natr),
   power |-> power, gross |-> power, side |-> 96 * Usdt]

\* Inverted sizing: the first level is the largest.  A level without a weight gets an
\* equal share.
Weights(levels) ==
  CASE levels = 3 -> <<50, 30, 20>>
    [] levels = 2 -> <<60, 40>>
    [] OTHER      -> <<100>>

Weight(levels, i) ==
  IF i < Len(Weights(levels)) THEN Weights(levels)[i + 1] ELSE 100 \div levels
=============================================================================
