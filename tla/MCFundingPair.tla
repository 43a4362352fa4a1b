--------------------------- MODULE MCFundingPair ---------------------------
(* Small instances of FundingPair. *)
EXTENDS FundingPair, TLC

CONSTANTS poll, button   \* coroutines that run policies

Coroutines == Permutations({poll, button})
=============================================================================
