-------------------------- MODULE PositionTracker --------------------------
(***************************************************************************)
(* app/core/position_tracker.py: the local copy of the LONG and SHORT      *)
(* position of one symbol, kept from three sources that race:              *)
(*   - trade events of the private stream (on_fill), each delivered in     *)
(*     order, possibly lost, and redelivered after a reconnect;            *)
(*   - position events of the same stream, absolute sizes that BotManager  *)
(*     writes without taking the tracker's lock;                           *)
(*   - the REST snapshot of reconcile_with_exchange, requested, answered   *)
(*     and written in three steps while the tracker's lock is held.        *)
(* Sizes are whole lots; prices do not influence the size and are left out.*)
(***************************************************************************)
EXTENDS Integers, Sequences, FiniteSets

CONSTANTS
  Sides,              \* {LONG, SHORT}
  Lots,               \* the lot sizes a single trade may have
  Window,             \* maxlen of _processed_fill_order (10000 in the code)
  Lag,                \* how many processed fills back a redelivery may reach
  MaxTrades,          \* bound: number of trades of a run
  MaxPos,             \* bound: largest position at the exchange
  HasWatchPositions,  \* the exchange offers watchPositions
  LossyStream         \* trade events may be lost

ASSUME WindowAssumption == Window \in Nat \ {0}
ASSUME LagAssumption    == Lag \in Nat /\ Lag <= Window
ASSUME LotsAssumption   == Lots \subseteq Nat \ {0}
ASSUME BoundAssumption  == MaxTrades \in Nat /\ MaxPos \in Nat
ASSUME FlagAssumption   == HasWatchPositions \in BOOLEAN /\ LossyStream \in BOOLEAN

VARIABLES
  trades,      \* exchange: the trades executed so far, in order
  sizes,       \* exchange: the position sizes before the first and after each trade
  cursor,      \* private stream: trades delivered for the first time or lost
  posEvents,   \* private stream: position events not yet handled
  amount,      \* SidePositionState.amount
  levels,      \* SidePositionState.filled_levels_count
  ids,         \* _processed_fill_ids
  order,       \* _processed_fill_order
  fetch,       \* the REST position request that holds the tracker's lock
  history,     \* history variable: the fills applied so far, in order
  raced        \* history variable: a size was written that does not reflect
               \* exactly the trades delivered so far, or an event was lost

exchangeVars == <<trades, sizes>>
trackerVars  == <<amount, levels, ids, order>>
vars == <<trades, sizes, cursor, posEvents, amount, levels, ids, order, fetch,
          history, raced>>

Trade   == [side : Sides, entry : BOOLEAN, qty : Lots]
PosEvent == [side : Sides, size : Nat, covers : Nat]
Idle    == [phase |-> "idle"]
Asked   == [phase |-> "asked"]
Answer(snapshot, covers) ==
  [phase |-> "answered", snapshot |-> snapshot, covers |-> covers]
Members(seq) == {seq[k] : k \in DOMAIN seq}

\* The sizes after the first n trades, and the present ones.
SizesAfter(n) == sizes[n + 1]
real == SizesAfter(Len(trades))

Init ==
  /\ trades = <<>>
  /\ sizes = <<[s \in Sides |-> 0]>>
  /\ cursor = 0
  /\ posEvents = <<>>
  /\ amount = [s \in Sides |-> 0]
  /\ levels = [s \in Sides |-> 0]
  /\ ids = {}
  /\ order = <<>>
  /\ fetch = Idle
  /\ history = <<>>
  /\ raced = FALSE

-----------------------------------------------------------------------------
(* The exchange *)

\* A trade executes.  The exchange never lets an exit exceed the position.
Execute(t) ==
  LET size == IF t.entry THEN real[t.side] + t.qty ELSE real[t.side] - t.qty
  IN /\ Len(trades) < MaxTrades
     /\ size \in 0..MaxPos
     /\ trades' = Append(trades, t)
     /\ sizes' = Append(sizes, [real EXCEPT ![t.side] = size])
     /\ posEvents' = IF HasWatchPositions
                     THEN Append(posEvents, [side |-> t.side, size |-> size,
                                             covers |-> Len(trades) + 1])
                     ELSE posEvents
     /\ UNCHANGED <<cursor, trackerVars, fetch, history, raced>>

\* A trade event is lost between the exchange and the stream.
LoseEvent ==
  /\ LossyStream
  /\ cursor < Len(trades)
  /\ cursor' = cursor + 1
  /\ raced' = TRUE
  /\ UNCHANGED <<exchangeVars, posEvents, trackerVars, fetch, history>>

-----------------------------------------------------------------------------
(* on_fill *)

\* Mutant: the duplicate check is missing.
RememberUnchecked(i) ==
  LET full == Len(order) = Window
  IN /\ ids' = (IF full THEN ids \ {Head(order)} ELSE ids) \cup {i}
     /\ order' = Append(IF full THEN Tail(order) ELSE order, i)

\* The duplicate check, and the eviction of the oldest identifier once the
\* deque is full.
Remember(i) ==
  LET full == Len(order) = Window
      kept == IF full THEN Tail(order) ELSE order
  IN /\ i \notin ids
     /\ ids' = (IF full THEN ids \ {Head(order)} ELSE ids) \cup {i}
     /\ order' = Append(kept, i)

\* Mutants: the size is not clamped at zero; any exit is taken for a full one.
SizeAfterUnclamped(size, t) == IF t.entry THEN size + t.qty ELSE size - t.qty
SizeAfterFullExit(size, t) == IF t.entry THEN size + t.qty ELSE 0

\* The size after trade t: an entry adds, an exit subtracts down to zero.
SizeAfter(size, t) ==
  IF t.entry THEN size + t.qty ELSE IF size > t.qty THEN size - t.qty ELSE 0

\* Mutant: the level count is not reset when the side goes flat.
LevelsAfterNoReset(count, t, size) == IF t.entry THEN count + 1 ELSE count

\* Entries count a filled level, an exit that leaves the side flat resets them.
LevelsAfter(count, t, size) ==
  IF t.entry THEN count + 1 ELSE IF size = 0 THEN 0 ELSE count

ApplyFill(i) ==
  LET t == trades[i]
      size == SizeAfter(amount[t.side], t)
  IN /\ Remember(i)
     /\ amount' = [amount EXCEPT ![t.side] = size]
     /\ levels' = [levels EXCEPT ![t.side] = LevelsAfter(@, t, size)]
     /\ history' = Append(history, i)

IgnoreDuplicate(i) ==
  /\ i \in ids
  /\ UNCHANGED <<trackerVars, history>>

OnFill(i) == ApplyFill(i) \/ IgnoreDuplicate(i)

LockFree == fetch = Idle

\* The next trade event arrives for the first time.
Deliver ==
  /\ LockFree
  /\ cursor < Len(trades)
  /\ OnFill(cursor + 1)
  /\ cursor' = cursor + 1
  /\ UNCHANGED <<exchangeVars, posEvents, fetch, raced>>

\* A reconnect redelivers one of the Lag most recently processed fills.
Redeliver(k) ==
  /\ LockFree
  /\ k \in DOMAIN history
  /\ k > Len(history) - Lag
  /\ OnFill(history[k])
  /\ UNCHANGED <<exchangeVars, cursor, posEvents, fetch, raced>>

-----------------------------------------------------------------------------
(* reconcile_with_exchange *)

ReconcileBegin ==
  /\ LockFree
  /\ fetch' = Asked
  /\ UNCHANGED <<exchangeVars, cursor, posEvents, trackerVars, history, raced>>

ExchangeAnswers ==
  /\ fetch = Asked
  /\ fetch' = Answer(real, Len(trades))
  /\ UNCHANGED <<exchangeVars, cursor, posEvents, trackerVars, history, raced>>

\* fetch_positions_hedge returned (None, None): nothing is changed.
ReconcileFail ==
  /\ fetch = Asked
  /\ fetch' = Idle
  /\ UNCHANGED <<exchangeVars, cursor, posEvents, trackerVars, history, raced>>

\* A side that differs from the snapshot takes its size, and its level count is
\* made consistent with it.
LevelsSynced(s, size) ==
  IF amount[s] = size THEN levels[s]
  ELSE IF size = 0 THEN 0
  ELSE IF levels[s] = 0 THEN 1 ELSE levels[s]

\* Mutant: a side the snapshot does not list keeps its size.
ReconcileSyncListed ==
  /\ fetch.phase = "answered"
  /\ amount' = [s \in Sides |-> IF fetch.snapshot[s] = 0 THEN amount[s]
                               ELSE fetch.snapshot[s]]
  /\ levels' = [s \in Sides |-> LevelsSynced(s, fetch.snapshot[s])]
  /\ raced' = (raced \/ fetch.covers # cursor)
  /\ fetch' = Idle
  /\ UNCHANGED <<exchangeVars, cursor, posEvents, ids, order, history>>

ReconcileSync ==
  /\ fetch.phase = "answered"
  /\ amount' = [s \in Sides |-> fetch.snapshot[s]]
  /\ levels' = [s \in Sides |-> LevelsSynced(s, fetch.snapshot[s])]
  /\ raced' = (raced \/ fetch.covers # cursor)
  /\ fetch' = Idle
  /\ UNCHANGED <<exchangeVars, cursor, posEvents, ids, order, history>>

-----------------------------------------------------------------------------
(* BotManager._handle_position_update: an absolute write, not under the      *)
(* tracker's lock, so also while a reconcile is waiting for its answer.      *)

OnPositionUpdate ==
  /\ posEvents # <<>>
  /\ LET e == Head(posEvents)
     IN /\ amount' = [amount EXCEPT ![e.side] = e.size]
        /\ raced' = (raced \/ e.covers # cursor)
  /\ posEvents' = Tail(posEvents)
  /\ UNCHANGED <<exchangeVars, cursor, levels, ids, order, fetch, history>>

-----------------------------------------------------------------------------

Next ==
  \/ \E t \in Trade : Execute(t)
  \/ LoseEvent
  \/ Deliver
  \/ \E k \in DOMAIN history : Redeliver(k)
  \/ ReconcileBegin
  \/ ExchangeAnswers
  \/ ReconcileFail
  \/ ReconcileSync
  \/ OnPositionUpdate

(* The event loop runs every ready handler, the main worker loop reconciles   *)
(* every reconcile_interval_sec, and the exchange does not refuse for ever.   *)
Fairness ==
  /\ WF_vars(Deliver)
  /\ WF_vars(OnPositionUpdate)
  /\ WF_vars(ReconcileBegin)
  /\ SF_vars(ExchangeAnswers)
  /\ WF_vars(ReconcileSync)

Spec == Init /\ [][Next]_vars
FairSpec == Spec /\ Fairness

-----------------------------------------------------------------------------
(* Properties *)

\* Every variable keeps its type.
TypeOK ==
  /\ trades \in Seq(Trade)
  /\ sizes \in Seq([Sides -> Nat]) /\ Len(sizes) = Len(trades) + 1
  /\ cursor \in 0..Len(trades)
  /\ posEvents \in Seq(PosEvent)
  /\ amount \in [Sides -> Nat]
  /\ levels \in [Sides -> Nat]
  /\ ids \subseteq Nat
  /\ order \in Seq(Nat)
  /\ fetch \in {Idle, Asked} \cup
       [phase : {"answered"}, snapshot : [Sides -> Nat], covers : Nat]
  /\ history \in Seq(Nat)
  /\ raced \in BOOLEAN

\* The bounded deque forgets only what can no longer be redelivered: no fill is
\* ever applied twice, although the deque holds Window identifiers only
\* (on_fill's "exactly-once processing").
AppliedOnce ==
  \A j, k \in DOMAIN history : history[j] = history[k] => j = k

\* The level count that gates the next quote level is zero exactly when the side
\* is flat (on_fill's "Level state reset" and reconcile_with_exchange).  Only a
\* position event that covers other trades than those delivered may break it.
LevelsMatchAmount ==
  (HasWatchPositions => ~raced) => \A s \in Sides : amount[s] = 0 <=> levels[s] = 0

\* A lost event and a size that covers other trades than those delivered so far
\* are the only sources of drift: otherwise the local sizes are those the exchange
\* had after the trades delivered so far (on_fill's arithmetic and its clamp at zero
\* add no drift of their own).
DriftNeedsRace == ~raced => amount = SizesAfter(cursor)

\* Once trading stops the periodic reconcile heals every drift, for good.
EventuallyInSync == <>[](amount = real)

\* on_fill's promise of exactly-once processing, taken for the position: when no
\* event was lost and nothing is in flight, the local size is the real one.
InSyncWhenQuiet ==
  (cursor = Len(trades) /\ posEvents = <<>> /\ fetch = Idle) => amount = real

\* Once trading stops, a flat side ends with no filled levels.
LevelsEventuallyReset ==
  <>[](\A s \in Sides : amount[s] = 0 => levels[s] = 0)

Ledger == INSTANCE FillLedger
  WITH log <- trades, held <- sizes, counted <- Members(history), position <- amount

\* The bounded window implements the unbounded ledger: the local position only moves
\* by a trade never counted before, or to a size the exchange has really had.
ImplementsLedger == Ledger!LedgerSpec
=============================================================================
