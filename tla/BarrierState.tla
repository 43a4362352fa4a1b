---------------------------- MODULE BarrierState ----------------------------
(***************************************************************************)
(* app/core/executor.py: the levels of one position side's barrier (stop   *)
(* loss, guaranteed stop loss, trailing take profit, pyramid), the row of  *)
(* the barrier_state table that survives a restart, and the stop-loss      *)
(* counter of app/core/position_tracker.py.                                *)
(*                                                                         *)
(* Prices are ticks and grow in the direction that favours the position,   *)
(* so that the module stands for the LONG and the mirrored SHORT branch.   *)
(* Sizes are lots.  The program knows three of them: what the exchange     *)
(* holds, what the tracker has counted, and what the barrier believes to   *)
(* be left.  What happens between the gateway calls of a handler is the    *)
(* subject of ExitOrders; a handler is one action here.                    *)
(* config.trailing_stop is unset and config.time_limit is 0.               *)
(***************************************************************************)
EXTENDS Integers, Sequences

CONSTANTS
  Prices,      \* the prices of a run
  StopLoss,    \* config.stop_loss, in ticks below the entry price
  Activation,  \* trailing_tp_activation_pct, in ticks above it
  Callback,    \* trailing_tp_callback_pct
  Tightened,   \* the callback once a pyramid leg has filled
  Floor,       \* the spread floor above the average price
  Lock,        \* the ticks locked in above the initial entry price
  QuoteLots,   \* the sizes of an entry quote's fill
  LegLots,     \* the sizes of a pyramid leg (half of the initial size in the code)
  MaxEntries,  \* bound: number of entry fills, pyramid legs included
  MaxHits,     \* bound: stop losses in a row that are counted
  MaxCrashes,  \* bound: number of crashes
  MaxBehind,   \* bound: fills that wait to be handled when a resting order fills
  DbFaults,    \* the database may refuse to write, which is logged and ignored
  FetchFaults, \* the position query may fail
  CallFaults,  \* market orders may be refused, or filled in part
  LossyStream, \* fills may be lost with the stream's connection
  Pyramids     \* config.favorable_pyramiding_enabled

ASSUME PriceAssumption == Prices \subseteq Nat \ {0}
ASSUME LevelAssumption ==
  {StopLoss, Activation, Callback, Tightened, Floor, Lock} \subseteq Nat
ASSUME LotAssumption == QuoteLots \cup LegLots \subseteq Nat \ {0}
ASSUME BoundAssumption == {MaxEntries, MaxHits, MaxCrashes, MaxBehind} \subseteq Nat
ASSUME FlagAssumption  ==
  {DbFaults, FetchFaults, CallFaults, LossyStream, Pyramids} \subseteq BOOLEAN

VARIABLES
  mark,      \* the mark price
  size,      \* exchange: the size of the side's position
  cost,      \* exchange: its average entry price, 0 if flat
  fills,     \* private stream: fills not yet handled
  phase,     \* "down", "starting" (worker.start has asked for the position), "running"
  amount,    \* tracker: amount
  entry,     \* tracker: entry_price
  slCount,   \* tracker: consecutive_sl_count
  barrier,   \* ExecutorBarrierState, _is_exiting and _trailing_cb_override
  row,       \* the side's row of barrier_state
  book       \* history: entries, crashes, and what happened to this position

exchangeVars == <<size, cost>>
trackerVars  == <<amount, entry, slCount>>
vars == <<mark, exchangeVars, fills, phase, trackerVars, barrier, row, book>>

Up == phase # "down"

NoRow == [saved |-> FALSE, sl |-> 0, locked |-> FALSE, count |-> 0, peak |-> 0,
          trailing |-> FALSE]

\* pending: no pyramid order, one that waits for its fill, or one that has waited
\* for more than ten seconds.
Fresh == [active |-> FALSE, exiting |-> FALSE, remaining |-> 0, entry |-> 0,
          initial |-> 0, sl |-> 0, locked |-> FALSE, count |-> 0, pending |-> "none",
          trailing |-> FALSE, peak |-> 0, tight |-> FALSE]

\* cycle: the number of positions closed so far; promise: the guaranteed stop loss
\* of the present position, 0 if it has none; short: since then an exit was counted
\* that left the program less than the exchange held after it; legs: the pyramid
\* orders of the position; hits: the stop losses in a row.
NoBook == [entries |-> 0, crashes |-> 0, cycle |-> 0, promise |-> 0, short |-> FALSE,
           legs |-> 0, hits |-> 0]

Init ==
  /\ mark \in Prices /\ size = 0 /\ cost = 0 /\ fills = <<>>
  /\ phase = "running" /\ amount = 0 /\ entry = 0 /\ slCount = 0
  /\ barrier = Fresh /\ row = NoRow /\ book = NoBook

Higher(a, b) == IF a >= b THEN a ELSE b
Lower(a, b)  == IF a <= b THEN a ELSE b

\* Mutant: what remains may become negative.
LessUnclamped(a, b) == a - b

\* max(0, a - b)
Less(a, b) == IF a > b THEN a - b ELSE 0

\* One stop loss more.
Counted(n) == IF n < MaxHits THEN n + 1 ELSE n

\* The average price of n lots at price old and q more at price p.
Average(n, old, q, p) == (n * old + q * p) \div (n + q)

\* A fill of q lots at price p.  Its cycle and the size that the exchange has after
\* it are history: the stream does not carry them.
Fill(kind, q, p, after) ==
  [kind |-> kind, qty |-> q, price |-> p, after |-> after, cycle |-> book.cycle]

-----------------------------------------------------------------------------
(* The exchange *)

\* What is written down of a position when it closes: nothing remains, and stop
\* losses in a row are counted.
Closed(b, kind) ==
  [b EXCEPT !.cycle = @ + 1, !.promise = 0, !.short = FALSE, !.legs = 0,
            !.hits = IF kind = "sl" THEN Counted(@) ELSE 0]

\* An entry quote fills, also while the program is down.
QuoteFills ==
  /\ book.entries < MaxEntries /\ Len(fills) < MaxBehind
  /\ \E q \in QuoteLots :
       /\ size' = size + q
       /\ cost' = Average(size, cost, q, mark)
       /\ fills' = IF Up THEN Append(fills, Fill("quote", q, mark, size'))
                   ELSE fills
  /\ book' = [book EXCEPT !.entries = @ + 1]
  /\ UNCHANGED <<mark, phase, trackerVars, barrier, row>>

\* A take profit fills, also while the program is down: a level of the ladder, or a
\* part of an order.
TakeProfitFills ==
  /\ Len(fills) < MaxBehind
  /\ \E q \in 1..size :
       /\ size' = size - q
       /\ cost' = IF q = size THEN 0 ELSE cost
       /\ fills' = IF Up THEN Append(fills, Fill("tp", q, mark, size')) ELSE fills
       /\ book' = IF q = size THEN Closed(book, "tp") ELSE book
  /\ UNCHANGED <<mark, phase, trackerVars, barrier, row>>

LoseFill ==
  /\ LossyStream /\ fills # <<>>
  /\ fills' = Tail(fills)
  /\ UNCHANGED <<mark, exchangeVars, phase, trackerVars, barrier, row, book>>

-----------------------------------------------------------------------------
(* The database *)

RowOf(b) == [saved |-> TRUE, sl |-> b.sl, locked |-> b.locked, count |-> b.count,
             peak |-> b.peak, trailing |-> b.trailing]

\* Mutant: the row keeps the stop loss it was first saved with.
SaveFirst(b) ==
  row' = IF row.saved THEN row ELSE RowOf([b EXCEPT !.sl = b.entry - StopLoss])

\* save_barrier_state and delete_barrier_state: a failure is logged only.
Save(b) == row' = RowOf(b) \/ (DbFaults /\ row' = row)
Delete  == row' = NoRow \/ (DbFaults /\ row' = row)

-----------------------------------------------------------------------------
(* The barrier *)

BaseStop(e) == e - StopLoss

\* on_entry_fill for a quote: a locked stop loss stays where it is.
OnQuote(b, n, e) ==
  [b EXCEPT !.active = TRUE, !.exiting = FALSE, !.remaining = n, !.entry = e,
            !.initial = IF b.count = 0 \/ @ = 0 THEN e ELSE @,
            !.trailing = FALSE, !.peak = 0,
            !.sl = IF b.locked THEN @ ELSE BaseStop(e)]

\* on_entry_fill for a pyramid leg: lock the guaranteed stop loss.
OnPyramid(b, n, e) ==
  LET first == IF b.initial > 0 THEN b.initial ELSE e
  IN [b EXCEPT !.active = TRUE, !.exiting = FALSE, !.remaining = n,
               !.entry = e, !.count = 1, !.pending = "none",
               !.sl = Higher(e + Floor, first + Lock), !.locked = TRUE, !.tight = TRUE]

\* on_exit_fill once nothing remains; entry_price and sl_price are left.
OnClosed(b) == [Fresh EXCEPT !.entry = b.entry, !.sl = b.sl]

\* What the exchange, the stream and the tracker hold at some moment of a handler.
Present == [size |-> size, cost |-> cost, fills |-> fills, book |-> book,
            amount |-> amount, entry |-> entry]

\* The handler is through, with snapshot m and barrier b.
Take(m, b) ==
  /\ size' = m.size /\ cost' = m.cost /\ fills' = m.fills /\ book' = m.book
  /\ amount' = m.amount /\ entry' = m.entry
  /\ barrier' = b

\* A pyramid leg of q lots fills at price p; it opens the side if it has been closed
\* in the meantime.
WithLeg(m, q, p) ==
  [m EXCEPT !.size = @ + q, !.cost = Average(m.size, @, q, p),
            !.fills = Append(@, Fill("pyramid", q, p, m.size + q)),
            !.book.entries = @ + 1, !.book.legs = @ + 1]

\* A market exit closes q lots at the mark price.
WithExit(m, q, kind) ==
  [m EXCEPT !.size = @ - q, !.cost = IF q = m.size THEN 0 ELSE @,
            !.fills = Append(@, Fill(kind, q, mark, m.size - q)),
            !.book = IF q = m.size THEN Closed(@, kind) ELSE @]

\* reconcile_with_exchange: the tracker takes the exchange's position if the sizes
\* differ, unless the query fails.
Synced(m) ==
  {[m EXCEPT !.amount = m.size, !.entry = IF m.amount = m.size THEN @ ELSE m.cost]}
    \cup (IF FetchFaults THEN {m} ELSE {})

\* _place_take_profit_orders: an order for more than the exchange holds may be
\* rejected (-2022), and _safe_create_exit_order takes the tracker's new size.
PlaceTakeProfits(m, b) ==
  \/ Take(m, b)
  \/ /\ b.remaining > m.size
     /\ \E n \in Synced(m) :
          Take(n, [b EXCEPT !.remaining = n.amount, !.active = @ /\ n.amount > 0])

\* tracker.on_fill, then on_entry_fill.
HandleEntry(f) ==
  LET n == amount + f.qty
      e == Average(amount, entry, f.qty, f.price)
      m == [Present EXCEPT !.fills = Tail(@), !.amount = n, !.entry = e]
  IN /\ UNCHANGED slCount
     /\ \/ /\ f.kind = "quote"
           /\ PlaceTakeProfits(m, OnQuote(barrier, n, e)) /\ UNCHANGED row
        \/ /\ f.kind = "pyramid"
           /\ LET b == OnPyramid(barrier, n, e)
                  own == size > 0 /\ f.cycle = book.cycle
              IN /\ Save(b)
                 /\ PlaceTakeProfits([m EXCEPT !.book.promise = IF own THEN b.sl ELSE @], b)

\* History: the exit leaves the program less than the exchange held after it.
Short(f) ==
  /\ book.promise > 0 /\ f.cycle = book.cycle
  /\ Less(amount, f.qty) < f.after \/ Less(barrier.remaining, f.qty) < f.after

\* tracker.on_fill, then on_exit_fill: the barrier subtracts the fill from what
\* remains, and is reset with its row when nothing does.
HandleExit(f) ==
  LET m == [Present EXCEPT !.fills = Tail(@), !.amount = Less(@, f.qty),
                           !.entry = IF amount > f.qty THEN @ ELSE 0,
                           !.book.short = @ \/ Short(f)]
      b == [barrier EXCEPT !.remaining = Less(@, f.qty)]
      placing == b.active /\ ~b.exiting
  IN /\ f.kind \in {"sl", "tp"}
     /\ slCount' = IF f.kind = "sl" THEN Counted(slCount) ELSE 0
     /\ \/ b.remaining = 0 /\ Take(m, OnClosed(barrier)) /\ Delete
        \/ b.remaining > 0 /\ placing /\ PlaceTakeProfits(m, b) /\ UNCHANGED row
        \/ b.remaining > 0 /\ ~placing /\ Take(m, b) /\ UNCHANGED row

\* The handler of the oldest fill.
HandleFill ==
  /\ Up /\ fills # <<>>
  /\ HandleEntry(Head(fills)) \/ HandleExit(Head(fills))
  /\ UNCHANGED <<mark, phase>>

\* A market exit of q lots: it fills, in part if orders may fail, and a stop loss is
\* counted; or it is refused and the barrier stays as it was.
Ordered(m, b, q, kind) ==
  /\ 0 < q /\ q <= m.size
  /\ \/ /\ \E k \in IF CallFaults THEN 1..q ELSE {q} :
             Take(WithExit(m, k, kind), [b EXCEPT !.active = FALSE, !.exiting = TRUE])
        /\ slCount' = IF kind = "sl" THEN Counted(slCount) ELSE slCount
     \/ CallFaults /\ Take(m, b) /\ UNCHANGED slCount

\* _execute_market_exit: the order is for what the barrier believes to be left.  If
\* that is more than the exchange holds it is rejected (-2022), the tracker is
\* reconciled and the order tried once more, for its size.
MarketExit(m, b, kind) ==
  \/ Ordered(m, b, b.remaining, kind)
  \/ /\ b.remaining > m.size
     /\ \E n \in Synced(m) :
          LET r == [b EXCEPT !.remaining = n.amount]
              q == Lower(b.remaining, n.amount)
          IN \/ Ordered(n, r, q, kind)
             \/ (q = 0 \/ q > n.size) /\ Take(n, r) /\ UNCHANGED slCount

-----------------------------------------------------------------------------
(* check_runtime_barriers *)

Watching == barrier.active /\ barrier.remaining > 0 /\ ~barrier.exiting

StopAt(b) == IF b.sl > 0 THEN b.sl ELSE BaseStop(b.entry)

\* check_favorable_momentum_pyramid; the momentum of the last minute is an input.
MayPyramid(b, p) ==
  /\ Pyramids /\ book.entries < MaxEntries
  /\ b.count = 0 /\ b.pending = "none"
  /\ b.entry > 0 /\ p >= b.entry + Activation

\* The trailing take profit: activation is saved, later peaks are not.
Trail(m, b, p) ==
  LET starts == ~b.trailing /\ p >= b.entry + Activation
      b1 == IF starts THEN [b EXCEPT !.trailing = TRUE, !.peak = p]
            ELSE IF b.trailing THEN [b EXCEPT !.peak = Higher(@, p)] ELSE b
      back == IF b.tight THEN Tightened ELSE Callback
  IN /\ IF starts THEN Save(b1) ELSE UNCHANGED row
     /\ IF b1.trailing /\ p <= b1.peak - back THEN MarketExit(m, b1, "tp")
        ELSE Take(m, b1) /\ UNCHANGED slCount

\* The checks of one tick, in their order.  A barrier that a fill arms while worker.start
\* is under way is younger than min_holding_sec at the tick that primes the market.
Check(p) ==
  LET stale == barrier.pending = "stale"
      b == IF stale THEN [barrier EXCEPT !.pending = "none"] ELSE barrier
  IN \E m \in IF stale THEN Synced(Present) ELSE {Present} :
       \/ /\ p <= StopAt(b)
          /\ MarketExit(m, b, "sl") /\ UNCHANGED row
       \/ /\ p > StopAt(b)              \* within min_holding_sec
          /\ Take(m, b) /\ UNCHANGED <<slCount, row>>
       \/ /\ phase = "running" /\ p > StopAt(b)
          /\ Trail(m, b, p)
       \/ /\ phase = "running" /\ p > StopAt(b) /\ MayPyramid(b, p)
          /\ \E q \in LegLots :
               \/ Trail(WithLeg(m, q, p), [b EXCEPT !.pending = "fresh"], p)
               \/ CallFaults /\ Trail(WithLeg(m, q, p), b, p)

Tick(p) ==
  /\ mark' = p /\ UNCHANGED phase
  /\ IF Up /\ Watching THEN Check(p)
     ELSE UNCHANGED <<exchangeVars, fills, trackerVars, barrier, row, book>>

\* Ten seconds pass without the fill of the pyramid order.
TenSeconds ==
  /\ barrier.pending = "fresh"
  /\ barrier' = [barrier EXCEPT !.pending = "stale"]
  /\ UNCHANGED <<mark, exchangeVars, fills, phase, trackerVars, row, book>>

-----------------------------------------------------------------------------
(* reconcile_barrier *)

\* Without a position the barrier is dropped, if it is armed or has orders, and the row
\* deleted.
ReconcileFlat ==
  /\ amount = 0
  /\ \/ barrier' = [barrier EXCEPT !.active = FALSE, !.exiting = FALSE, !.count = 0,
                                   !.locked = FALSE, !.tight = FALSE]
     \/ ~barrier.active /\ UNCHANGED barrier
  /\ Delete
  /\ UNCHANGED <<exchangeVars, fills, trackerVars, book>>

\* Mutant: an armed barrier keeps its stop loss.
ArmedOnce(b, r, n, e) ==
  [b EXCEPT !.active = TRUE, !.exiting = FALSE, !.remaining = n, !.entry = e,
            !.sl = IF b.active THEN @ ELSE BaseStop(e)]

\* The levels for n lots at entry price e: a locked row is restored, all of it while
\* its stop loss is below the mark price; otherwise the stop loss is computed anew.
Armed(b, r, n, e) ==
  LET b1 == [b EXCEPT !.active = TRUE, !.exiting = FALSE, !.remaining = n, !.entry = e]
  IN IF r.saved /\ r.locked
     THEN IF r.sl < mark
          THEN [b1 EXCEPT !.sl = r.sl, !.locked = TRUE, !.count = r.count,
                          !.peak = r.peak, !.trailing = r.trailing, !.tight = TRUE]
          ELSE [b1 EXCEPT !.sl = r.sl, !.locked = TRUE]
     ELSE [b1 EXCEPT !.sl = BaseStop(e)]

ReconcileOpen ==
  /\ amount > 0
  /\ \E r \in {row} \cup (IF DbFaults THEN {NoRow} ELSE {}) :
       LET b == Armed(barrier, r, amount, entry)
       IN \/ /\ mark <= b.sl
             /\ MarketExit(Present, b, "sl")
          \/ /\ mark > b.sl /\ mark >= entry + Activation  \* no take profit is open
             /\ MarketExit(Present, b, "tp")
          \/ /\ mark > b.sl
             /\ PlaceTakeProfits(Present, b) /\ UNCHANGED slCount
  /\ UNCHANGED row

\* worker.reconcile_barriers, in the worker loop and at the end of worker.start.
Reconcile ==
  /\ Up /\ phase' = "running"
  /\ UNCHANGED mark
  /\ ReconcileFlat \/ ReconcileOpen

\* tracker.reconcile_with_exchange, in the worker loop before the barriers are
\* reconciled, and as a background task of a requote.
SyncTracker ==
  /\ Up
  /\ \E m \in Synced(Present) : Take(m, barrier)
  /\ UNCHANGED <<mark, phase, slCount, row>>

\* _handle_position_update: the tracker is overwritten, also if the sizes agree.
PositionEvent ==
  /\ Up
  /\ Take([Present EXCEPT !.amount = size, !.entry = cost], barrier)
  /\ UNCHANGED <<mark, phase, slCount, row>>

-----------------------------------------------------------------------------
(* Crash and restart *)

Crash ==
  /\ Up /\ book.crashes < MaxCrashes
  /\ phase' = "down"
  /\ fills' = <<>> /\ amount' = 0 /\ entry' = 0 /\ slCount' = 0 /\ barrier' = Fresh
  /\ book' = [book EXCEPT !.crashes = @ + 1, !.hits = 0]
  /\ UNCHANGED <<mark, exchangeVars, row>>

\* worker.start up to _init_market_state: the result of the query is ignored.  Fills
\* are handled from now on, ticks only once the barriers are reconciled.
Start ==
  /\ phase = "down" /\ phase' = "starting"
  /\ \E m \in Synced(Present) : Take(m, barrier)
  /\ UNCHANGED <<mark, slCount, row>>

Next ==
  \/ QuoteFills \/ TakeProfitFills \/ LoseFill
  \/ HandleFill
  \/ \E p \in Prices : Tick(p)
  \/ TenSeconds
  \/ Reconcile \/ SyncTracker \/ PositionEvent
  \/ Crash \/ Start

Spec == Init /\ [][Next]_vars

(* Ticks keep coming, also while the price does not move; fills are handled as *)
(* they arrive; the worker loop reconciles the tracker and the barriers every  *)
(* reconcile_interval_sec; a crashed program is started again.                 *)
Fairness ==
  /\ WF_vars(HandleFill) /\ WF_vars(Tick(mark)) /\ WF_vars(Start)
  /\ SF_vars(SyncTracker) /\ SF_vars(Reconcile)

FairSpec == Spec /\ Fairness

-----------------------------------------------------------------------------
(* Properties *)

\* Every variable keeps its type.
TypeOK ==
  /\ mark \in Prices /\ size \in Nat /\ cost \in Nat
  /\ phase \in {"down", "starting", "running"}
  /\ fills \in Seq([kind : {"quote", "pyramid", "sl", "tp"}, qty : Nat \ {0},
                   price : Prices, after : Nat, cycle : Nat])
  /\ amount \in Nat /\ entry \in Nat /\ slCount \in Nat
  /\ barrier \in [active : BOOLEAN, exiting : BOOLEAN, remaining : Nat, entry : Nat,
                   initial : Nat, sl : Int, locked : BOOLEAN, count : 0..1,
                   pending : {"none", "fresh", "stale"}, trailing : BOOLEAN,
                   peak : Nat, tight : BOOLEAN]
  /\ row \in [saved : BOOLEAN, sl : Int, locked : BOOLEAN, count : 0..1, peak : Nat,
               trailing : BOOLEAN]
  /\ book \in [entries : Nat, crashes : Nat, cycle : Nat, promise : Nat,
                short : BOOLEAN, legs : Nat, hits : Nat]

Guarding ==
  phase = "running" /\ size > 0 /\ barrier.active /\ barrier.remaining > 0

\* "Flag confirming Stop Loss is locked to guaranteed breakeven/profit": a stop loss,
\* once locked for a position, guards that position until it closes.
GuaranteeAlways ==
  Guarding /\ book.promise > 0 => barrier.locked /\ barrier.sl >= book.promise

\* The same through partial exits, re-entries, reconciles, refused and partial
\* orders, lost fills, crashes and restarts, unless an exit was counted that left
\* the program less than the exchange held: one that a reconcile had counted before,
\* one that arrived while the program was starting, or one after a lost entry.
GuaranteeKept == ~book.short => GuaranteeAlways

\* A locked stop loss closes the position at breakeven or better ("Stop Loss is
\* locked to guaranteed breakeven/profit").
LockedInProfit ==
  Guarding /\ barrier.locked /\ fills = <<>> => barrier.sl >= cost

\* A position cycle has at most one pyramid leg ("favorable pyramid fills in
\* current position cycle (max 1)").
OneLegPerCycle == book.legs <= 1

\* The lock and the pyramid count belong to the position at hand, never to an
\* earlier one.
LockIsEarned == Guarding /\ fills = <<>> /\ barrier.locked => book.legs > 0

\* The peak of an active trailing take profit never falls, so that its trigger
\* never gives back profit it had secured.
PeakNeverFalls ==
  [][Guarding /\ Guarding' /\ barrier.trailing /\ barrier'.trailing
       => barrier'.peak >= barrier.peak]_vars

\* The progressive cooldown counts each stop loss once ("Number of consecutive
\* stop-loss hits").
StopLossCountedOnce == slCount <= book.hits

\* A position whose mark price is at or beyond the stop loss of its average price
\* gets closed or recovers: no combination of sizes, flags, rows, lost fills and
\* partial exits disables the stop loss, but for the lock of an earlier position
\* (LockIsEarned) and an entry price that no reconcile corrects since the sizes agree.
StaleLock  == barrier.locked /\ book.promise = 0
StalePrice == amount = size /\ entry # cost
Breached == size > 0 /\ mark <= BaseStop(cost) /\ ~StaleLock /\ ~StalePrice
StopLossFires == Breached ~> ~Breached
=============================================================================
