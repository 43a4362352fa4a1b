# PMM_Simple in TLA+

PMM_Simple is a market-making bot for Binance USD-M futures in hedge mode. It quotes
entry orders around a smoothed mid price (one worker per pair), guards every
position side with a triple barrier (take-profit ladder, stop loss, time limit, and
a favourable-momentum pyramid with a guaranteed stop loss), and flattens the account
in an emergency. It is one asyncio program: nothing runs in parallel, but every
`await` lets other coroutines run, the exchange moves meanwhile, and the private
stream and the REST answers tell of the same trades in different orders. The modules
here model that core, TLC checks it on small instances, and TLAPS proves for all sizes
every safety property that the passing runs check, in each of the eight components. Beside the market maker the program runs a rebalancer
that decides which pairs are quoted, and a second engine that trades funding rates with one leg
on each of two exchanges; both are modelled too.

Paths are relative to the repository's root (`app/...`, `tests/...`).

## 1. Inventory

| component | state | operations | talks to |
|---|---|---|---|
| Position tracker, `app/core/position_tracker.py` | `amount`, `entry_price`, `filled_levels_count`, `consecutive_sl_count` per side; a deque and a set of 10000 processed fill ids; a lock | `on_fill`, `reconcile_with_exchange`, `set_sl_cooldown`; `BotManager._handle_position_update` writes `amount` without the lock | gateway (`fetch_positions_hedge`), called by worker and executor |
| Triple-barrier executor, `app/core/executor.py` | `ExecutorBarrierState` per side (active, remaining_qty, sl_price, tp_orders, passive exit, trailing and pyramid flags), `_is_exiting`, one lock | `on_entry_fill`, `on_exit_fill`, `reconcile_barrier`, `check_runtime_barriers`, `check_favorable_momentum_pyramid`, `_place_take_profit_orders`, `_execute_market_exit`, `_cleanup_all_barrier_orders` | gateway, tracker, database; called by the worker on fills, ticks and its loop |
| Pair worker, `app/core/worker.py` | `_active_quote_orders`, `_running`, `_paused`, `is_draining`, `is_locked_killed`, background tasks, `_lock` | main loop, `_requote`, `_cancel_active_quotes`, `reconcile_open_orders`, `on_fill`, `on_order_update`, `on_ticker_update`, start/stop/pause/drain/unlock, `_trigger_isolated_kill`, volatility breaker | gateway, executor, tracker; driven by the manager |
| Bot manager, `app/core/manager.py` | `workers`, `circuit_breaker`, health task, `_kill_all_lock` | routing of events, start/stop/register/delete/unlock of pairs, `emergency_kill_all`, `_health_monitor_loop` | everything above; called by API, dashboard, rebalancer |
| Account circuit breaker, `app/core/circuit_breaker.py` | `_tripped`, reason, window of the loss | `check_account_health`, `reset` | the health monitor |
| Exchange gateway, `app/core/gateway.py` | ccxt clients, stream tasks, `_last_exit_error`, authentication breaker | orders, cancels, queries, `_watch_*` loops | exchange |
| Persistence, `app/persistence/db.py` | SQLite; the table `barrier_state` is read back | save/load/delete of a barrier row; append-only logs | executor |
| Quoter, `app/core/quoter.py`, `vamm_calculator.py` | none (tick sizes and minima of the pair) | `calculate_quotes`: skew, spread floor, clamp to the book and the bounds, next level, caps, sizes | worker |
| Market state, `app/core/market_state.py` | book, smoothed mid, two price histories of 60 s, `circuit_breaker_paused_until`, NATR, trend regime | `update_top_of_book`, `check_circuit_breaker`, `check_market_sanity`, `update_natr_15m`, `update_trend_bias` | worker, quoter |
| Rate limiter, `app/core/ratelimit.py` | tokens per bucket | acquire, with a priority lane | both gateways |
| Pair rebalancer, `app/core/pair_rebalancer.py` | configuration, lock, loop task; works on the manager's `workers` | `execute_rebalance_cycle`: retire flat draining pairs, scan, drain by rank with hysteresis, promote into free slots | manager, screener |
| Screener, `app/core/screener.py` | last scan | `scan_and_rank_all_pairs`: filters, scores, ranks; `compute_vamm_parameters` | gateway; called by the rebalancer |
| Funding-rate execution, `app/core/fr_execution/` | legs and status per pair, a lock per symbol, paused symbols, tripped exchanges, the global switch | `execute_policy` (open with rollback, hold, reduce, exit, pause), manual close, reconcile loop, `emergency_kill_all` | its own clients of two exchanges; driven by a decision layer over HTTP and by the dashboard |
| Configuration stores, API, dashboard, `app/persistence/store.py`, `app/api/`, `app/ui/` | files, none, none | thin wrappers | manager |

**What is hard here.**
*Interleaving:* handlers hold a lock across gateway calls, but the isolated kill, the sweeps,
the syncs and the position events take none.
*Ordering:* a REST answer is older or newer than the events already handled; a fill reaches the
tracker before it gets the executor's lock.
*Failure:* gateway calls return `None`, `False`, `[]` or `(None, None)` instead of raising, and
most callers ignore it; an order may be accepted with its answer lost; the stream loses
trades with its connection and repeats them after a reconnect; the database logs and ignores its
errors.
*Crash:* everything but the `barrier_state` rows and the orders at the exchange is lost.
*Liveness:* whether a position gets its barrier back depends on combinations of `active`,
`remaining_qty` and `_is_exiting` that seven handlers set; whether a funding-rate pair gets closed,
on what a rollback, an exit and a reconcile leave of its sizes.
*Two legs:* the exchanges share no transaction, so an order that fails, fills in part, fills
unseen, or fills after its timeout leaves one leg alone.
*Arithmetic:* clamps, roundings up to minima and percentages of caps follow each other, and
each can undo what the one before has ensured.

**What makes each component correct.**
The tracker counts each trade once, explains every drift by a race, and heals it.
The executor knows every exit order that rests, never closes more than the position, arms every open
position and disarms a flat one; a guaranteed stop loss guards its position until it
closes, also over a restart; a breached stop loss closes the position.
The worker has one quote per level, knows its orders in the end, and stops quoting when told.
A kill-all that says COMPLETED has closed what was open, and a tripped breaker leads to one.
Quotes never take, stay within the caps, vanish in a surge, and never worsen an entry.
The rebalancer stays within its slots, does not drain and promote a pair at once, and ends every drain.
A funding-rate pair has both legs or none, or says so, and can always be left.

## 2. Modules

| module | stands for | abstraction |
|---|---|---|
| `FillLedger` | what the tracker promises: the position moves by a trade counted at most once, or to a size the exchange has had | unbounded memory |
| `PositionTracker` | `position_tracker.py`, the position events of `manager.py`, the trade stream of `gateway.py` | lots, no prices |
| `*Proofs` | theorems about the module of that name (section 4): `PositionTracker`, `ExitOrders`, `BarrierState`, `WorkerQuotes`, `EmergencyKillAll`, `FundingPair`, `Rebalancer`, `Quoter` | |
| `ExitOrders` | the executor's orders, one gateway call per step; isolated kill; restart | one side, lots, no prices: a breach is an input |
| `BarrierState` | the executor's levels, the sizes that exchange, tracker and barrier believe in, the persisted row, the stop-loss counter, crash and restart | one side, price ticks, lots; a handler is one step |
| `WorkerQuotes` | quotes of one worker, one gateway call per step, and its lifecycle | slot and mid price of a quote; whether a requote is due is an input |
| `Vamm` | grid parameters of a pair from its volatility (`screener.py`), shares of the levels (`quoter.py`) | basis points; operators only |
| `MarketState` | `market_state.py` | half ticks, basis points, units of time; one sequence stands for both histories |
| `Quoter` | `quoter.py` with the part of the worker that feeds it (`on_ticker_update`, `_requote`), composed with `MarketState` and `Vamm` | a requote replaces what rests, its cancels and orders are `WorkerQuotes`' |
| `Screener` | filters, scores and ranking of `screener.py` | candle statistics are inputs; operators only |
| `Rebalancer` | `pair_rebalancer.py` with the manager's calls it shares pairs with, composed with `Screener` | a worker is seven flags |
| `FundingPair` | `fr_execution/`: engine, gateway, tracker with its exchange labels, kill switch, loops, for one pair in either orientation | lots, no prices; a leg stands for its exchange |
| `EmergencyKillAll` | kill-all, health monitor, breaker, and the calls that change the pairs | legs with lots; a worker's requote is one step |

`ExitOrders` and `BarrierState` are two views of one class, split where its two difficulties
lie: `ExitOrders` keeps every await and drops the prices, `BarrierState` keeps prices and sizes and
makes a handler atomic. `PositionTracker` is where tracker and manager meet,
`ExitOrders` where executor and worker meet (the isolated kill runs beside the lock),
`EmergencyKillAll` where manager, breaker and workers meet.

How state and actions correspond:

* **PositionTracker.** `amount` and `levels` are the fields of `SidePositionState`; `order` and `ids` are
  the deque and the set of processed ids; `fetch` is a reconcile that holds the lock
  (asked, answered). `trades`, `sizes`, `posEvents` are the exchange and the stream. `Deliver`
  and `Redeliver` call `on_fill` (`ApplyFill` or `IgnoreDuplicate`); `OnPositionUpdate` is
  the manager's write without the lock. A reconcile whose answer shows no difference leaves the level
  count alone, as the code does.
* **ExitOrders.** `agenda` is the program counter of whoever holds the executor's lock: a sequence of
  gateway calls, each with the code that follows it. A handler (`HandleFill`, `BreachTick`,
  `TimeLimitTick`, `PassiveTimeoutTick`, `ReconcileBarrier`) starts with an empty agenda, runs to
  its first await and leaves the rest on the agenda; `Continue` does the next call. The outcomes of a
  call are `Accepted`, `AnswerLost`, `Refused` and `Oversized` (error -2022, followed by
  a sync of the tracker and one retry). `inbox` holds fills that the tracker has counted
  and that wait for the lock. `tps` are the take profits whose status is not FILLED, for only
  those are ever cancelled.
* **BarrierState.** `barrier` is `ExecutorBarrierState`, `row` the row in SQLite. The position has three sizes: `size` (with its
  average price `cost`) at the exchange, `amount` (with `entry`) in the tracker, `barrier.remaining` in the executor. Fills move the first at once, the
  second and the third when they are handled (`HandleFill`); `SyncTracker` and `PositionEvent` copy the first into the second, a reconcile of the
  barrier the second into the third, and a market exit or a take profit that is too large (-2022) does both. Exits may be
  partial: a level of the ladder, a part of an order, a market order for a stale `remaining`. `book.promise` is the
  guaranteed stop loss that was locked in for the present position, `book.short` that an exit was counted which left the program less than
  the exchange held after it. Prices grow in the favourable direction, so the LONG and the SHORT branch are one.
* **WorkerQuotes.** `tracked` is `_active_quote_orders`, `live` what rests. `requote` is the one
  `_requote` under `_lock` (sweep, margin query, cancels with placements); `sweep` are the
  `_cancel_active_quotes` of drain, volatility breaker, isolated kill and stop; `sync` are the two callers of
  `reconcile_open_orders`; `spawned` are background tasks that have not begun.
* **EmergencyKillAll.** `kill.pc` is the phase, `todo` the symbols it has not reached. The stop phase
  iterates over the live dictionary, so a pair added or deleted meanwhile makes it raise
  (`KillRaises`). A stopped worker sweeps its quotes, of which some may stay (`Swept`). `book.since` is what has been open since the kill-all began, `book.owed` what has
  been open since the breaker tripped.
* **MarketState, Quoter.** `book`, `mid`, `paused`, `natr`, `regime` are the fields of `MarketState`; `ticks` stands for
  `price_history_60s` and `price_history` at once: a reconnect clears the first (`Reconnect`), a crossed book is
  missing from the second. `OnTicker` is `on_ticker_update` with its breaker, `Requote` is `_requote`: sanity, margin
  guard, then `Quote` per side, which is `calculate_quotes`. Prices are whole half ticks and money is half
  ticks times steps, so that roundings happen where the code rounds.
* **Rebalancer.** `pc` is where the cycle awaits: stopping a retired pair, scanning, starting a promoted one; everybody
  else moves only there (`Awaiting`). `free` is `available_slots`, counted once. A scan is any ranking that the
  profiles of the markets lead to (`Scans`), with the pairs `Evict` would drain. An isolated kill (`Lock`) disables its pair, as `worker.py:306`
  does: it frees its slot and is a candidate again. Its market order may fail.
* **FundingPair.** `run` has one entry per coroutine that executes a policy and one for the close button, which takes no lock;
  `lock` is `_execution_locks[symbol]`. `held` is what the exchanges hold, `size` and `status` the tracker's. `OpenLeg` and `CloseLeg` are the
  answers of orders sent together; `Measure`, `CloseBack`, `Residual` the rollback. `ghost` are orders
  cancelled by the timeout that may fill. `recon` and `kill` are the loop and the kill-all beside them. `home` are the exchange labels of the legs
  in the tracker: a policy writes those of its pair, a reconcile that meets an unknown pair the default (long on Binance, short on Bybit). A reconcile takes a
  leg only from the exchange of its label and on the side it reads (`Takes`, `ReadSide`), an exit sends its orders where the labels say (`astray`).
  `Crossed` is a pair held the other way round, `Indexed` whether Bybit's positions carry `positionIdx`. A close may fill in part
  (`CloseOrder`), and whoever does not look again books it in full.

External parts (exchange, stream) are modelled from how the code uses them: orders rest until
filled or cancelled, a reduce order larger than the position is refused, trade events come in
order, may be lost and may come again.

## 3. What TLC checks

`MC*.tla` instantiate the modules; each run is a `.cfg` file (`tlc -config X.cfg M`).

| run | configuration | checked | shows |
|---|---|---|---|
| `tracker` | `MCPositionTracker.cfg` | `TypeOK`, `AppliedOnce`, `LevelsMatchAmount`, `DriftNeedsRace`, `ImplementsLedger`, `EventuallyInSync` | both sides, lost and repeated trades, position events and reconciles in every order: no trade counts twice, every drift has a race behind it, and the reconcile heals it |
| `exits` | `MCExitOrders.cfg` | `TypeOK`, `NoOrphans`, `WithinRemaining`, `FlatGetsDisarmed` | as long as orders fill whole and calls succeed, the executor knows every order, the ladder never exceeds what the barrier guards, and a flat side is disarmed |
| `exits_armed` | `MCExitOrders_armed.cfg` | `ExposedGetsArmed` | with failing calls, lost answers, lost fills, passive exits, a restart and an isolated kill, no open position stays without barrier (a killed symbol aside) |
| `barrier` | `MCBarrierState.cfg` | `TypeOK`, `GuaranteeKept`, `StopLossFires` | given that database and position query answer, a guaranteed stop loss survives partial exits, reconciles and position events at any moment, lost fills, refused and partial orders, a crash and a restart, unless an exit was counted short; a position beyond its stop loss gets closed or recovers |
| `quotes` | `MCWorkerQuotes.cfg` | `TypeOK`, `DrainStopsQuoting`, `OneQuotePerSlot` | a draining worker places at most what the requote under way had planned; requotes, sweeps, fills and late events do not double a quote |
| `quotes_live` | `MCWorkerQuotes_live.cfg` | `GhostsGetTracked` | whatever fails, and whoever pauses, drains, kills or restarts the worker, the periodic sync finds every forgotten order while it runs |
| `killall` | `MCEmergencyKillAll.cfg` | `TypeOK`, `CompletedMeansClosed`, `BreakerFlattens` | COMPLETED is true when the position queries answer; a tripped breaker leads to flat positions although a changing set of pairs aborts the stop phase |
| `quoter` | `MCQuoter.cfg` | `TypeOK`, `PassiveQuotes`, `ExposureBounded`, `SurgeStops`, `LadderImproves` | whatever the book, the inventory and the margin, quotes are passive and a fee apart, overshoot a cap by a smallest order at most, are gone with the tick of a surge, and never add to a position at a worse price |
| `rebalancer` | `MCRebalancer.cfg` | `TypeOK`, `SlotsBounded`, `NoChurn`, `DrainEnds` | cycles beside trades, operators, isolated kills, the breaker and a lost connection keep to the slots, do not promote what they drain, and stop what is drained and flat |
| `fr` | `MCFundingPair.cfg` | `TypeOK`, `NoNakedLeg`, `CompletedMeansClosed` | two coroutines, reconciles and a kill-all with failing, partial and unseen fills of opens and closes: a leg alone is reported or excused, COMPLETED is true |
| `fr_live` | `MCFundingPair_live.cfg` | `ExitPrevails` | a decision layer that keeps asking for an exit gets one, for a pair that is long on Binance |
| `killall_confirm` | `MCEmergencyKillAll_confirm.cfg` | `CompletedMeansClosed` | violated: a divergence, section 6 |

**Bounds.**

* `tracker`: two sides, lots 1 and 2, three trades, positions up to 2, a window of 2 ids and a
  redelivery that reaches 2 back. Three trades overflow the window, which is where a bounded memory
  could fail; exits of more than the local size happen after a lost event.
* `exits`: entries of 1 or 2 lots, two entries, positions up to 3, two order ids, one take-profit level.
  Two entries are needed for a ladder to be replaced while its predecessor fills.
  `exits_armed` has one entry of two lots with everything that may fail. With two levels or more `WithinRemaining` is
  not promised: after a -2022 each level is resized by itself.
* `barrier`: prices 5 and 7 with a stop loss, activation and callback of 2, a tightened callback, a floor and a lock of 1: an entry at 7 can be
  stopped at 5, an entry at 5 activates the trailing take profit and the pyramid at 7, whose guaranteed stop loss is then hit at 5. Quotes of 2 lots and
  pyramid legs of 1, so that an exit can be partial in several ways; two entries (two positions, or one with a leg), one crash, orders that are
  refused or filled in part, a lossy stream. `MaxBehind = 1` bounds the fills that wait when a resting order fills; the fills of orders the program
  sends itself come on top. `MaxHits` is 0: the number of stop losses in a row sets the length of a cooldown and no guard of the module reads it (section 6
  has the run about the count). `MCBarrierState_reentry` has three entries, so that a position is entered again after a locked one has closed, and no
  failing orders or lost fills; `TypeOK` and `GuaranteeKept` hold in its 1.9 million states.
* `quotes`: one slot, so that every second order is a double, two mid prices, so that a quote drifts, two ids, and one
  drain or stop (`MaxOps`; taking it back is free: the worker drains no longer, or is started again); no
  fault and no sync, since both excuse a double. `quotes_live`: one slot, price and id, a fault, syncs, and one
  drain, pause, stop, isolated kill or trip of the volatility breaker. Ids are used again once nothing refers to them, so
  runs are unbounded in length; they are symmetric in `quotes`.
* `quoter`: a calm, a fallen (a surge) and a crossed book without mark, three ticks in the window, five events, a unit of time as
  lookback, pause and cooldowns, three levels of the grid the screener gives for 1.3%, a power (margin times leverage) of 250 USDT so that the side's
  cap of 96 USDT binds, free balance none or ample, a
  volatility multiplier of one or three, volatilities inside and outside what is accepted, a bullish and a
  neutral regime. The prices are twenty with ticks of a hundredth, so that the spread floor counts ticks as well as
  fees. The floor is just below the calm book, where it moves the deeper bids, and after the fall leaves no room for any; the ceiling is half
  a percent above. Both lie on ticks, and the tolerated basis (0.71%) is smaller than a step and half the least
  spread: the two hypotheses of section 4.
* `rebalancer`: three markets, two slots, so that one pair at a time is in and one out; five profiles (best, a
  little less, much less, too wild, silent) reach both rules of the hysteresis; `RankThreshold` is 3, above
  the slots as in the defaults (7 and 5); two operations of others, or one trip of the breaker or one lost connection, beside any number of trades. The cycles are unbounded.
* `fr`: a pair that is long on Bybit with indexed positions, opens of two lots, one open, two faults, two policy coroutines and a kill-all: partial fills
  of opens and closes leave one lot, and a reduce leaves one. `fr_live`: a pair that is long on Binance, whose Bybit positions carry no index; one
  lot, one open, one fault, one crash, one close by hand, and every policy but REDUCE.
  `ExitPrevails` holds there with indexed positions as well, and for a pair that is long on Bybit if its positions are indexed and nothing crashes
  (`Crossed`, `Indexed`, `MaxCrashes = 0`); without either it fails (section 6).
* `killall`: two symbols and one side (the sides of a symbol are independent
  legs of the same fetch), two fills, two calls of UI or rebalancer.

`CHECK_DEADLOCK FALSE` stands where a bound or a stop really ends the system: all trades
done, worker stopped, symbol killed.

**Fairness** is that of one event loop and one exchange that is not down for ever:
a ready handler or coroutine runs (WF). `asyncio.Lock` is first come, first served, so a
coroutine that keeps asking gets the lock although others take it in between (SF).
The worker's loop reconciles every `reconcile_interval_sec` and the monitor looks every ten
seconds (WF/SF on their start). An exchange that may answer infinitely often does (SF on answers).
Ticks keep coming at an unchanged price (`WF_vars(Tick(mark))`), so a closing order that was refused is tried again.
In `FundingPair` coroutines go on (WF), a policy that waits gets the lock (SF, first come, first served), a decision layer that
wants out sends EXIT with every poll (WF), and the reconcile loop, which runs every minute for ever, again and again gets an answer
while no order is on its way (`[]<><<ReconApply /\ Quiet>>`). In `Rebalancer` the cycle goes on and the loop comes back (WF). Nothing is assumed of
trades, fills of resting orders, prices, operators, faults, or crashes; a crashed bot is started again.

**Conditions in the properties.** `OneQuotePerSlot` excuses a failed cancel, a lost answer and a sync that
forgot a resting order: there the code does double a quote until the next sync and requote.
`GuaranteeKept` excuses a position of which an exit was counted short (`book.short`): one that a reconcile had counted before, one whose
entry was lost, one that came while the program was starting; `GuaranteeAlways` is the same without the excuse, and fails.
`StopLossFires` excuses a position that carries the lock of an earlier one (`StaleLock`; `LockIsEarned` is the
property that fails there, section 6), and one whose entry price no reconcile corrects since the sizes agree (`StalePrice`, section 6). `BreakerFlattens` ends with a reset or with a kill-all that
reported PARTIAL: the failure is then the operator's. `NoNakedLeg` excuses what the code cannot know: a query that failed, a fill
without an answer, an answer older than an order, an open on top of a rest or beside the close button, a close filled in part (`Excuses`; `ExitMeansFlat`
fails on the last); `ExitPrevails` excuses a paused
symbol, whose exits the switch blocks too. `SlotsBounded` and `NoChurn` count what others did since the slots were counted (`beside`).

Every property of a passing run has been checked against a mutant of the code: the
definitions marked `Mutant` are those plausible bugs, and TLC refutes the property under each.

## 4. What is proved

Every invariant and every action property that a passing run checks, and the refinement of the ledger, is a theorem:
TLC shows it on the instance of section 3, the theorem for every value of the constants that the named
assumptions of the modules allow. Those assumptions say what kind of thing a constant is (numbers, finite sets,
flags) and little else; what else is needed is a hypothesis of the theorem (`ASSUME` in its statement).

| module | theorem | statement | hypothesis |
|---|---|---|---|
| `PositionTrackerProofs` | `TypeCorrect` | `[]TypeOK` | |
| | `ExactlyOnce` | `[]AppliedOnce` | |
| | `DriftExplained` | `[]DriftNeedsRace` | |
| | `LevelsCoherent` | `[]LevelsMatchAmount` | |
| | `LedgerImplemented` | `ImplementsLedger` | |
| `ExitOrdersProofs` | `TypeCorrect` | `[]TypeOK` | |
| | `OrdersKnown` | `[]NoOrphans` | `Undisturbed` |
| | `LadderFits` | `[]WithinRemaining` | `Undisturbed`, `Parts = 1` |
| `BarrierStateProofs` | `TypeCorrect` | `[]TypeOK` | |
| | `GuaranteeHolds` | `[]GuaranteeKept` | `~DbFaults`, `~FetchFaults` |
| `WorkerQuotesProofs` | `TypeCorrect` | `[]TypeOK` | |
| | `OneQuote` | `[]OneQuotePerSlot` | |
| | `DrainStops` | `[]DrainStopsQuoting` | |
| `EmergencyKillAllProofs` | `TypeCorrect` | `[]TypeOK` | |
| | `CompletedClosed` | `[]CompletedMeansClosed` | `~FetchFaults` |
| `FundingPairProofs` | `TypeCorrect` | `[]TypeOK` | |
| | `CompletedClosed` | `[]CompletedMeansClosed` | |
| | `NoLegAlone` | `[]NoNakedLeg` | |
| `RebalancerProofs` | `TypeCorrect` | `[]TypeOK` | |
| | `PromotionsBounded` | `SlotsBounded` | |
| | `DrainedNotPromoted` | `NoChurn` | `MaxActive <= RankThreshold` |
| | `RankedByScore` | the ranking of a scan | |
| `QuoterProofs` | `TypeCorrect` | `[]TypeOK` | |
| | `QuotesPassive` | `PassiveQuotes` | `BoundsOnTicks` |
| | `ExposureCapped` | `ExposureBounded` | |
| | `SurgeStopsQuotes` | `SurgeStops` | |
| | `LadderOnlyImproves` | `LadderImproves` | `BasisWithinStep` |

**The hypotheses** are the faults a run excludes too, or what a configuration must satisfy, and each is needed:

* `Undisturbed` (orders fill whole, calls succeed, no passive exit, no kill, no restart): `MCExitOrders` with any one of
  `PartialFills`, `Faults`, `PassiveExits`, `Kills` switched on, or with `MaxRestarts = 1`, violates `NoOrphans`, and likewise
  `WithinRemaining`. So does `Parts = 2` the latter: after a -2022 each level of a longer ladder is resized by itself.
* `~DbFaults`, `~FetchFaults` in `GuaranteeHolds`: section 6 has the counterexample for either. Crashes, refused and partial orders and a lossy
  stream are allowed, for any prices, levels, lots and number of entries.
* `~FetchFaults` in `CompletedClosed` of the manager's kill-all: the run `killall_confirm`. `FundingPair`'s needs none, since its
  property excuses the failed query itself.
* `MaxActive <= RankThreshold`: the last row of section 6. The defaults are 5 and 7.
* `BoundsOnTicks`: price bounds that are set lie on the tick grid. `clamp_quote` rounds a bound away from the mid
  like any other price, hence out of the bounds (section 6): `MCQuoter` with a floor of 3953 or a ceiling of 4019 violates `PassiveQuotes`.
* `BasisWithinStep`: the deviation of the mark from the mid that `check_market_sanity` tolerates is smaller than a step of the grid and half the least
  spread. The code compares the average entry with the mark, but places the quote around the smoothed mid; a mid
  that lags by more lets a worse price through: `MCQuoter` with `MaxBasis = 300`, no price bounds and the books 3956/3960/3958 and
  4020/4022/3910 violates `LadderImproves`. The defaults satisfy it: a basis of 0.4%, against a step of 0.36% (the grid of the
  least volatility that is quoted) and 0.14%.

**PositionTracker.** Everything is proved from `LagAssumption`: a redelivery reaches back no further than the window.

* `AppliedOnce` is not inductive: nothing in it relates the history to the deque. `IInv` adds
  `HistoryDelivered` (what was applied had been delivered) and `WindowIsRecent` (the deque holds the
  last `Window` applied fills in order, the set holds the deque). A redelivered fill is among the
  last `Lag` of the history (`RedeliveredIsKnown`), hence in the window, hence known; a new fill slides the
  window (`ApplySlidesWindow`).
* `DriftNeedsRace` needs `DInv`: the exchange's sizes follow its trades (`SizesFollowTrades`), and every event or
  answer on its way carries the size after the trades it covers (`EventsCarrySizes`,
  `AnswerCarriesSizes`). Then a size that is written without a race is the one the
  tracker would have counted itself.
* `LevelsMatchAmount` needs `DInv` for position events: one that covers just the trades
  delivered changes nothing, every other one sets `raced`.
* `LedgerImplemented` maps `trades`, `sizes`, `Members(history)`, `amount` to the ledger. By `IInv` an
  applied fill is one the ledger has not counted, and `SizeAfter` is the ledger's `Count`; by `DInv` what a
  reconcile or a position event writes are sizes the exchange has had, the ledger's `Adopt`.

**ExitOrders.** A handler is an agenda of gateway calls, so the invariant says which agendas there are (`Shape`) and what is at rest at
each of their points. A handler that ends a position (`cleaned`, `reset`, `disarm`) forgets the take profits; before it does, a
cancel of all that rests heads its agenda, so `NoOrphans` survives. `KnownInv` also needs identifiers to be
unique among resting orders, and no fill to be on its way of an order that still rests (`Gone`), or a recycled identifier would be
taken for an old one. For `LadderFits`, a fill lowers `remaining` only after the order is gone, and a ladder in the making finds nothing at
rest (`FitInv`). Type correctness needs `RefreshInv`: the passive exit is refreshed twice at most.

**BarrierState.** `GuaranteeKept` speaks of the barrier; a crash loses it, so `Guarantee` puts the same promise into the row, which must be
saved as long as a promise stands. A row is deleted when the side looks flat, to the tracker or to the barrier. `Sound` says that a position with a promise is
open, that all fills that wait are its own, in order, and that an exit among them has left something of it (`Queue`): so a handler that finds nothing left
after such an exit has counted less than the exchange held, which is the excuse `short`. Without it `Guarantee` also keeps the
tracker's amount above zero, so no reconcile takes the side for flat. A handler changes exchange, tracker, barrier and row one after another; the lemmas
follow it through its snapshots (`Handled`).

**WorkerQuotes.** A quote doubles when an order rests that the worker does not know, or when a requote places into a slot that has not been
emptied: `Known` (what rests is tracked or sent by the requote under way) and `MakesRoom` (what occupies a slot the requote will fill
is still to be cancelled). For `DrainStops` the placements since the drain and those still planned are together at most one per slot; sets of
quotes must be finite to be counted, which is where `SlotAssumption` comes in.

**EmergencyKillAll, FundingPair.** COMPLETED is reported after a query that finds nothing, but the query asks for one symbol (one leg) at a time, and fills,
operators and reconciles go on. What was open at the start and still is has not been asked for yet, or was found and is
about to be closed (`RoundCovers`, `SeesOwed`): the last round finds it, so it cannot report COMPLETED. `book.since` and `book.owed` shrink
with each closing, and what they hold is held (`SinceOpen`, `OwedHeld`).
`NoLegAlone` is the hardest: as long as no excuse is noted, the tracker's sizes are the exchanges' but for the legs that the one coroutine
with the lock is just opening or closing (`TrackerRight`, `OpeningHolds`); a leg is closed by one coroutine (`ClosesOnce`), and
openings run alone (`OpensAlone`, from `LockInv`). A close that was filled in part is an excuse, for the tracker is wrong from then on. That orders go to
the right exchanges needs `HomeInv`: as long as nothing is excused, a pair that is known carries its own labels, whichever way round it is held. Then equal
sizes in an idle tracker are equal legs.

**Rebalancer.** `free` is counted once and others move during the awaits: `SlotInv` bounds the slots in use and the free ones together by the
slots and what others took since; a kill only frees a slot. `DrainedNotPromoted` counts the candidates: whoever waits ahead of a drained pair ranks better,
and with a buffer of at least the portfolio those are enough to use up what is free (`DrainedLast`). That rests on `RankedByScore`: the
ranking lists each qualified market once, the better first.

**Quoter.** There is little state and much arithmetic. `QuotesPassive` follows a price through skew, quantization, spread floor, clamp to
the book and clamp to the bounds: the last two may undo the floor, and the lemmas say by how much. `ExposureCapped` follows the money of a quote: it is cut to what is left
of the cap and to the side's share of the margin, then each of three roundings (to the least notional, by a twentieth, to whole steps) may raise it again, and
together they add a smallest order at most (`Money`, `Budget`). `SurgeStops` needs that a pause has no quotes (`PauseInv`), since a
second surge within a pause cancels nothing. `LadderImproves` needs that what rests improves its position whenever it fills
(`LadderInv`), in parts or whole, and that a position has levels filled exactly when it is one.

**Model-checked only.** Liveness (`EventuallyInSync`, `FlatGetsDisarmed`, `ExposedGetsArmed`, `StopLossFires`, `GhostsGetTracked`, `BreakerFlattens`, `DrainEnds`,
`ExitPrevails`): the proof system has no `ENABLED`, on which fairness rests. No module declares a recursive operator. The
theorems say nothing about a state the models leave out (section 5), and nothing about the properties of section 6, which fail.

## 5. Not modelled

*In modelled components:* prices and notional in the tracker; realised PnL and the time part of cooldowns; the legacy
trailing stop; the isolated kill for an entry price of zero; `ERROR_NO_GATEWAY`, `start_gateway` of a running manager,
`start_all` and shutdown in the kill-all; two main loops of one worker
(kill, unlock and start before the old loop notices); the text of `_last_exit_error`, which a success does not clear, so that a
later failure may be taken for a -2022;
the gateway's authentication breaker. A barrier that a fill arms while `worker.start` is under way is taken to be younger than
`min_holding_sec` at the tick that primes the market (with 0 that tick could save an unlocked trailing row before the row is restored), and the mark
price to be known. The statistics of candles (NATR, Hurst exponent, volatility ratio, trend) and the
volatility multiplier are inputs. Flat sizing and `level_notionals` of the quoter, which no running configuration uses.
Several funding-rate symbols at once (they share nothing but margin), funding payments, metrics and
the set-up of hedge mode.

*Whole components:* the rate limiter (it only delays; every model already interleaves at a call of any length), configuration
and credential stores, API and dashboard (wrappers and presentation), `vamm_calculator.py`, backtest and scripts
(offline tools).

## 6. Where code and documentation disagree

TLC refutes each property below under the configuration named. The first is a run of the project; the others
are checked the same way by hand, with the configuration kept beside the modules or the one described (the property in place of those
listed there).

| configuration | property | what happens, and what it contradicts |
|---|---|---|
| `MCEmergencyKillAll_confirm` | `CompletedMeansClosed` | a failed query `(None, None)` counts as flat in the final check (`manager.py:363`). `manager.py:259`: "Re-fetch positions to confirm 100% position amount = 0" |
| `MCBarrierState_always` | `GuaranteeAlways` | `remaining_qty` is set by a reconcile (`executor.py:212`, `:464`) and lowered by an exit fill it already contains (`:317`): at 0 the stop loss is unlocked and its row deleted (`:362`) with a lot open, and the next reconcile arms the base stop (`:255`). `app/models/state.py:148`: "Flag confirming Stop Loss is locked to guaranteed breakeven/profit" |
| `MCFundingPair_flat` | `ExitMeansFlat` | any answer that is a dict counts as a full close (`fr_execution/engine.py:433`, `:375` for a reduce). `engine.py:445`: "Account is 100% FLAT." |
| `MCFundingPair_crossed` | `ExitPrevails` | a pair unknown to the tracker gets the labels of the default orientation, the guards of `fr_execution/position_tracker.py:164` and `:190` ignore both its legs, and every EXIT answers ALREADY_FLAT (`engine.py:412`). Without an index a fault does the same without a crash (`MCFundingPair_live` with `Crossed = TRUE`, `MaxCrashes = 0`). `position_tracker.py:141`: "Reconcile internal position tracker against REST snapshot from both exchanges." |
| `MCExitOrders_partial` | `NoOrphans` | a partial fill marks a take profit FILLED (`executor.py:360`); its rest is not cancelled when the ladder is placed anew. `executor.py:490`: "Cancel any previous TP orders before placing new ones" |
| `MCBarrierState_fetch` | `GuaranteeKept` | `start` ignores a failed reconcile (`worker.py:170`), the side looks flat and the saved row is deleted. `tests/test_barrier_state_restore.py:28`: the saved state "is restored" upon restart |
| `MCPositionTracker_double` | `InSyncWhenQuiet` | a reconcile covers a trade whose event comes later, which then counts again until the next reconcile. `position_tracker.py:98`: "exactly-once processing" |
| `MCPositionTracker_levels` | `LevelsEventuallyReset` | a position event with size 0 leaves `filled_levels_count`, and the reconcile then sees no difference (`manager.py:107`). `position_tracker.py:165`: "Level state reset." |
| `MCExitOrders`, `PassiveExits = TRUE` | `NoTPWithPassive` | an entry fill forgets the passive exit without cancelling it (`executor.py:147`). `tests/test_passive_exit_no_overlap.py:39`: "Prevent Passive Exit and TP overlap" |
| `MCExitOrders_reset` | `ResetOnlyWhenFlat` | a reconcile between an exit and its fill makes the fill count twice against `remaining_qty` (`executor.py:317`). `executor.py:363`: "Position fully closed" |
| `MCExitOrders_kill` | `KillLeavesNothingNaked` | the isolated kill ignores the result of its market order (`worker.py:323`). `worker.py:318`: "Market close open positions" |
| `MCExitOrders`, `MaxRestarts = 1` | `FlatGetsDisarmed` | take profits of the previous run are unknown to the executor (`executor.py:184`). `executor.py:170`: "Clean up any stale barrier orders" |
| `MCBarrierState_fetch`, `DbFaults` for `FetchFaults`, `MaxCrashes = 0` | `GuaranteeKept` | without a saved row the reconcile replaces the locked stop loss by the base one (`executor.py:255`). `app/models/state.py:148`: "locked to guaranteed breakeven/profit" |
| `MCBarrierState_profit` | `LockedInProfit` | a quote that fills after the lock moves the average past the locked stop loss (`executor.py:151`). `app/models/state.py:148` |
| `MCBarrierState_profit` | `OneLegPerCycle` | the watchdog forgets a pyramid order that may have filled (`executor.py:681`). `app/models/state.py:145`: "(max 1)" |
| `MCBarrierState_profit`, `MaxCrashes = 1` | `LockIsEarned` | a row saved by a late pyramid fill outlives its position (`executor.py:122`). `db.py:218`: "Delete persisted barrier state upon full position close." |
| `MCBarrierState_profit` | `PeakNeverFalls` | the reconcile loads the peak of the last save over the running one (`executor.py:237`). `app/models/state.py:135`: "Peak price tracked" |
| `MCBarrierState_profit`, `MaxHits = 2` | `StopLossCountedOnce` | a stop loss is counted by its answer and by its fills (`executor.py:942`). `app/models/state.py:107`: "Number of consecutive stop-loss hits" |
| `MCWorkerQuotes_sync` | `SyncForgetsNothing` | an answer older than a placement replaces the tracked orders (`worker.py:506`). `worker.py:496`: "Prevents ghost orders" |
| `MCWorkerQuotes_drain` | `DrainCancelsQuotes` | the sweep of a drain misses the order a requote has in flight (`worker.py:124`). `worker.py:118`: "Any active quote orders are immediately cancelled." |
| `MCWorkerQuotes_stop` | `StopCancelsQuotes` | a background requote outlives `stop` (`worker.py:230`). `worker.py:212`: "Stop worker and cancel all open quote orders." |
| `MCWorkerQuotes_pause` | `PauseStopsQuoting` | the requote of a fill does not ask whether the worker is paused (`worker.py:477`). `worker.py:234`: "Pause quoting" |
| `MCEmergencyKillAll`, `Spec`, no `CallFaults`, no `Changes` | `NoStartWhileTripped` | `unlock_pair` does not ask the breaker (`manager.py:228`). `manager.py:121`: "Circuit breaker is TRIPPED!" |
| `MCEmergencyKillAll_monitor` | `BreachTrips` | the monitor ends with its first kill-all (`manager.py:403`). `manager.py:379`: "Periodic background task to check account circuit breaker" |
| `MCFundingPair_tripped` | `TrippedBlocksOpens` | the engine asks the kill switch without an exchange, so a tripped exchange blocks nothing (`fr_execution/engine.py:48`). `tests/test_fr_execution.py:304`: "Tier 2: Exchange Trip blocks orders involving that exchange." |
| `MCRebalancer`, `Spec`, `MaxOps = 0` | `RetiredHoldsNothing` | a retired pair may fill before its quotes are cancelled, and nobody looks after the position (`pair_rebalancer.py:123`). `pair_rebalancer.py:130`: "Positions 100% Flat. Worker safely stopped" |
| `MCRebalancer`, `Spec`, `MaxOps = 1` | `TrippedStartsNothing` | the rebalancer starts pairs while the breaker is tripped (`manager.py:148`). `manager.py:121`: "Circuit breaker is TRIPPED!" |
| `MCRebalancer`, `Spec`, `MaxOps = 0` | `SlotsFilled` | a draining pair that is promoted again, or one that is locked, uses up a free slot (`pair_rebalancer.py:323`); an isolated kill frees the pair's slot and makes it such a candidate (`worker.py:306`). `pair_rebalancer.py:100`: "Fill free slots with Top Candidates." |
| `MCRebalancer`, `Spec`, `RankThreshold = 1` | `NoChurn` | with `rank_threshold` below `max_active_pairs`, which `pair_rebalancer.py:37` allows, one cycle drains and promotes the same pair |

Read in the code and not checked as properties, because the models follow the code there:

* `fr_execution/engine.py:84` promises None for a failed query ("fail-closed"), but the gateway answers `[]` (`gateway.py:388`), so
  the branches for a failed measurement never run; this is the excuse "blind" above.
* The rollback looks at the confirmed leg only (`engine.py:219`): an unconfirmed fill of the other leg is left to the reconcile.
* `engine.py:450` and `:389` leave the residual of a partial exit or reduce to the reconcile, which never updates a leg that
  is no longer listed (`position_tracker.py:145`): a flat leg keeps its old size there.
* Positions on Bybit come through the gateway without an index (`fr_execution/gateway.py:374`, unlike `app/core/gateway.py:501`): the reconcile reads any
  side but BUY as SHORT (`position_tracker.py:176`), and the kill-all closes a short as a LONG (`kill_switch.py:156`), which the exchange refuses; it then
  reports PARTIAL_REMAINING.
* `reconcile_with_exchange` compares sizes only (`position_tracker.py:210`): when they agree, a wrong entry price stays, and with it base stop and take profits.
* An exit fill that arrives while `worker.start` is under way finds a barrier that is not restored yet, and deletes the saved row (`worker.py:169`, `executor.py:388`).
* An exit that ends writes zero over a leg adopted in between (`engine.py:436`); the close button runs an exit beside the lock (`manager.py:164`).
* A paused symbol and the global switch block EXIT as they block OPEN (`kill_switch.py:76`); a policy's `expiry_at` is not looked at.
* `price_floor` and `price_ceiling` off the tick grid are rounded out of their bounds (`quoter.py:126`, `:148`).
* With its margin exhausted a worker returns early and leaves its quotes resting (`worker.py:717`).
* The grid's docstring speaks of flat 30 USDT per level (`screener.py:328`), yet inverted sizing splits the side 50/30/20 (`quoter.py:276`).
* A pair whose evaluation failed once ranks 999 and is drained (`pair_rebalancer.py:156`); `start_pair` leaves a draining pair draining (`manager.py:139`).
* A promoted pair whose worker raises in its start stays enabled without running, and takes a slot (`pair_rebalancer.py:204`).

## 7. How the modules were ordered

1. `PositionTracker` with `FillLedger`: everything else decides on its sizes.
2. `ExitOrders`, then `BarrierState`: what protects money once a position is open.
3. `WorkerQuotes`: what opens positions.
4. `EmergencyKillAll`: what closes everything.
5. `FundingPair`: the second engine, with the same kinds of failure and no second chance on the other leg.
6. `MarketState`, `Vamm`, `Quoter`: what is quoted, and when nothing is.
7. `Screener`, `Rebalancer`: which pairs are quoted at all.

## 8. Plan

Next modules, in order:

1. `TokenBucket` (`ratelimit.py`): priority lane, deficit, starvation, requests above the capacity, and `configure`, which
   replaces a bucket while consumers loop on the old one.
2. The manager's remaining calls (`start_gateway`, `start_all`, `shutdown`) in `EmergencyKillAll`, and a second main loop in `WorkerQuotes`.
3. The gateway's authentication breaker.

Next proofs:

1. An abstract specification beside `FillLedger` for a component whose promise is a protocol, with its refinement proved:
   a kill-all that only closes and reports (`EmergencyKillAll` and `FundingPair` would both implement it).
2. `OrdersKnown` with restarts and kills, by an excuse as in `OneQuotePerSlot` in place of `Undisturbed`.
3. `FlatGetsDisarmed` and the other liveness properties stay with TLC. Of their safety halves (no state from which
   no handler can go on) `ExposedGetsArmed` is the one worth an invariant: an open, unarmed side always has a fill, a reconcile or a restart ahead.
