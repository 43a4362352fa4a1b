------------------------------ MODULE MCQuoter ------------------------------
(* A small instance of Quoter: a price of twenty with ticks of 0.01 and steps of 0.1, in  *)
(* half ticks and half ticks times steps.                                                *)
EXTENDS Quoter

Book(b, a, m) == [bid |-> b, ask |-> a, mark |-> m]

SomeBooks == {Book(3998, 4000, 3999), Book(3956, 3960, 3958), Book(4000, 3998, 0)}
=============================================================================
