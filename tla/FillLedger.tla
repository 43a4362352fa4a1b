----------------------------- MODULE FillLedger -----------------------------
(***************************************************************************)
(* What PositionTracker promises about the local position: it moves by a   *)
(* trade, each trade at most once however often its event is delivered and *)
(* by its own quantity, or it takes over a size that the exchange has had. *)
(* The ledger remembers every trade it has counted, without any bound on   *)
(* its memory.                                                             *)
(***************************************************************************)
EXTENDS Integers, Sequences

CONSTANT Sides             \* the position sides of a hedge-mode symbol

VARIABLES
  log,                     \* the trades executed at the exchange
  held,                    \* the exchange's sizes, before the first and after each trade
  counted,                 \* the positions in log of the trades counted
  position                 \* [Sides -> Nat], the local position sizes

ledgerVars == <<log, held, counted, position>>

LedgerInit ==
  /\ log = <<>>
  /\ held = <<[s \in Sides |-> 0]>>
  /\ counted = {}
  /\ position = [s \in Sides |-> 0]

\* A trade is executed; nothing is counted yet.
Trade ==
  /\ Len(log') = Len(log) + 1 /\ \A i \in DOMAIN log : log'[i] = log[i]
  /\ \A n \in 0..Len(log) : held'[n + 1] = held[n + 1]
  /\ UNCHANGED <<counted, position>>

\* Trade i is counted: only if it never was before.
Count(i) ==
  /\ i \notin counted
  /\ counted' = counted \cup {i}
  /\ LET s    == log[i].side
         qty  == log[i].qty
         from == position[s]
         to   == position'[s]
     IN /\ position' = [position EXCEPT ![s] = to]
        /\ to \in Nat
        /\ IF log[i].entry THEN to = from + qty
           ELSE to = from - qty \/ (to = 0 /\ qty >= from)
  /\ UNCHANGED <<log, held>>

\* Some sides take over the sizes that the exchange had after n trades.
Adopt(some, n) ==
  /\ position' = [s \in Sides |-> IF s \in some THEN held[n + 1][s] ELSE position[s]]
  /\ UNCHANGED <<log, held, counted>>

LedgerNext ==
  \/ Trade
  \/ \E i \in DOMAIN log : Count(i)
  \/ \E some \in SUBSET Sides, n \in 0..Len(log) : Adopt(some, n)

LedgerSpec == LedgerInit /\ [][LedgerNext]_ledgerVars
=============================================================================
