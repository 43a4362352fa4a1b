---------------------------- MODULE MCRebalancer ----------------------------
(* A small instance of Rebalancer: three markets, two slots. *)
EXTENDS Rebalancer

CONSTANTS a, b, c

SomeMarkets == <<a, b, c>>

Good == [listed |-> TRUE, answered |-> TRUE, volume |-> 200, change |-> 100, spread |-> 3,
         natr |-> 120, hurst |-> 35, ratio |-> 100, depth |-> 200, funding |-> 10]

\* The best, one a little and one much less, one too wild, one that failed to answer.
SomeProfiles ==
  {Good, [Good EXCEPT !.hurst = 37], [Good EXCEPT !.natr = 175],
   [Good EXCEPT !.natr = 190], [Good EXCEPT !.answered = FALSE]}

\* Enough to fall behind and to be back, and a scan without candidates.
=============================================================================
