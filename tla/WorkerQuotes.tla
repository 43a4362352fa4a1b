---------------------------- MODULE WorkerQuotes ----------------------------
(***************************************************************************)
(* The entry quotes of one pair: PMMWorker of app/core/worker.py with the  *)
(* order calls of app/core/gateway.py and the lifecycle calls of           *)
(* app/core/manager.py.  The worker keeps _active_quote_orders (tracked)   *)
(* beside the orders that rest on the exchange (live).  Five kinds of      *)
(* coroutine change it, and every await may let another one run:           *)
(*   - _requote, one at a time under _lock, from the main loop or as a     *)
(*     background task;                                                    *)
(*   - _cancel_active_quotes, without the lock (a sweep);                  *)
(*   - reconcile_open_orders, without the lock (a sync);                   *)
(*   - the handlers of the order stream and of the fill stream.            *)
(* A quote is a slot (side and level) and the mid price it was made for.   *)
(***************************************************************************)
EXTENDS Integers, FiniteSets

CONSTANTS
  Slots,       \* side and level of a quote
  Mids,        \* the values of smoothed_mid a run tells apart
  OrderIds,    \* order ids; one is used again once nothing refers to it
  MaxFaults,   \* bound: failed calls and lost events
  MaxOps,      \* bound: calls that take quoting away, breaker trips included;
               \* giving it back is free
  Syncs,       \* reconcile_open_orders runs
  Breaker,     \* circuit_breaker_enabled
  Drains, Pauses, Stops, Kills   \* which operations a run contains

ASSUME SlotAssumption  == IsFiniteSet(Slots) /\ IsFiniteSet(OrderIds) /\ Slots # {} /\ Mids # {}
ASSUME BoundAssumption == {MaxFaults, MaxOps} \subseteq Nat
ASSUME FlagAssumption  == {Syncs, Breaker, Drains, Pauses, Stops, Kills} \subseteq BOOLEAN

VARIABLES
  live,     \* exchange: the orders that rest
  quote,    \* exchange: what each order quotes
  events,   \* streams: updates of orders and fills not yet handled
  tracked,  \* _active_quote_orders
  flag,     \* _running, _paused, is_draining, is_locked_killed, and whether the
            \* circuit breaker's pause is set
  loop,     \* _main_worker_loop: what it does
  requote,  \* the _requote that holds _lock
  sweep,    \* the _cancel_active_quotes that run
  sync,     \* the reconcile_open_orders that run
  spawned,  \* background tasks not yet started; two of a kind count as one
  book      \* history: faults, operations, orders sent, excuses

exchangeVars == <<live, quote, events>>
vars == <<exchangeVars, tracked, flag, loop, requote, sweep, sync, spawned, book>>

Quotes   == [slot : Slots, mid : Mids]
AnyQuote == CHOOSE q \in Quotes : TRUE   \* of an id that no order has
Sweepers == {"drain", "breaker", "kill", "stop"}
Syncers  == {"loop", "task"}

\* todo: orders to cancel; place: quotes to place; sent: the order in flight.
IdleRequote == [pc |-> "idle", by |-> "task", todo |-> {}, place |-> {}, sent |-> {}]
IdleSweep   == [pc |-> "idle", todo |-> {}]
IdleSync    == [pc |-> "idle", seen |-> {}]

Init ==
  /\ live = {} /\ events = {}
  /\ quote = [i \in OrderIds |-> AnyQuote]
  /\ tracked = {}
  /\ flag = [running |-> TRUE, paused |-> FALSE, draining |-> FALSE, locked |-> FALSE,
             tripped |-> FALSE]
  /\ loop = "idle" /\ requote = IdleRequote
  /\ sweep = [s \in Sweepers |-> IdleSweep]
  /\ sync = [s \in Syncers |-> IdleSync]
  /\ spawned = {}
  /\ book = [faults |-> 0, ops |-> 0, sinceDrain |-> 0, sincePause |-> 0, excused |-> FALSE]

-----------------------------------------------------------------------------
(* The exchange and its streams *)

Referred == live \cup tracked \cup requote.todo \cup requote.sent
            \cup {e.id : e \in events}
            \cup UNION {sweep[s].todo : s \in Sweepers}
            \cup UNION {sync[s].seen : s \in Syncers}
Unused == OrderIds \ Referred

Faulty == book.faults < MaxFaults
Fault(b) == [b EXCEPT !.faults = @ + 1]

Operate == book.ops < MaxOps
Op(b)   == [b EXCEPT !.ops = @ + 1]

\* A quote fills: one event on each stream.
Fill(i) ==
  /\ i \in live
  /\ live' = live \ {i}
  /\ events' = events \cup [kind : {"order", "fill"}, id : {i}]
  /\ UNCHANGED <<quote, tracked, flag, loop, requote, sweep, sync, spawned, book>>

\* on_order_update with a final status.
HandleOrder(e) ==
  /\ e \in events /\ e.kind = "order"
  /\ events' = events \ {e}
  /\ tracked' = tracked \ {e.id}
  /\ UNCHANGED <<live, quote, flag, loop, requote, sweep, sync, spawned, book>>

\* The end of on_fill: a requote unless the worker is locked or draining.
HandleFill(e) ==
  /\ e \in events /\ e.kind = "fill"
  /\ events' = events \ {e}
  /\ spawned' = IF flag.locked \/ flag.draining THEN spawned ELSE spawned \cup {"requote"}
  /\ UNCHANGED <<live, quote, tracked, flag, loop, requote, sweep, sync, book>>

LoseEvent(e) ==
  /\ e \in events /\ Faulty
  /\ events' = events \ {e}
  /\ book' = Fault(book)
  /\ UNCHANGED <<live, quote, tracked, flag, loop, requote, sweep, sync, spawned>>

\* gateway.cancel_order(i): accepted; refused because the order is gone; or failed,
\* with the order still there or not.
Cancel(i, ok) ==
  \/ /\ i \in live /\ ok
     /\ live' = live \ {i}
     /\ events' = events \cup {[kind |-> "order", id |-> i]}
     /\ tracked' = tracked \ {i}
     /\ UNCHANGED book
  \/ /\ i \notin live /\ ~ok
     /\ UNCHANGED <<live, events, tracked, book>>
  \/ /\ i \in live /\ ~ok /\ Faulty
     /\ UNCHANGED <<live, events, tracked>>
     /\ book' = [Fault(book) EXCEPT !.excused = TRUE]
  \/ /\ i \in live /\ ~ok /\ Faulty
     /\ live' = live \ {i}
     /\ events' = events \cup {[kind |-> "order", id |-> i]}
     /\ book' = Fault(book)
     /\ UNCHANGED tracked

-----------------------------------------------------------------------------
(* _requote *)

\* _check_should_requote; its timers and price triggers fire at any time.
ShouldRequote == flag.running /\ ~flag.paused /\ ~flag.locked /\ ~flag.draining

LoopRequote ==
  /\ loop = "idle" /\ ShouldRequote
  /\ loop' = "wait"
  /\ UNCHANGED <<exchangeVars, tracked, flag, requote, sweep, sync, spawned, book>>

\* The circuit breaker's pause expires.
BreakerRequote ==
  /\ flag.tripped
  /\ flag' = [flag EXCEPT !.tripped = FALSE]
  /\ spawned' = spawned \cup {"requote"}
  /\ UNCHANGED <<exchangeVars, tracked, loop, requote, sweep, sync, book>>

\* Mutant: the requote does not look at is_draining.
MayQuoteAlways == TRUE

\* The first check under the lock.
MayQuote == ~flag.draining

\* The requote takes the lock; a draining worker, or one whose market is not sane,
\* cancels all its quotes instead.
Acquire(by) ==
  /\ requote.pc = "idle"
  /\ \/ by = "loop" /\ loop = "wait" /\ loop' = "requote" /\ UNCHANGED spawned
     \/ by = "task" /\ "requote" \in spawned /\ spawned' = spawned \ {"requote"}
        /\ UNCHANGED loop
  /\ \/ requote' = [IdleRequote EXCEPT !.pc = "sweep", !.by = by, !.todo = tracked]
     \/ /\ MayQuote
        /\ requote' = [IdleRequote EXCEPT !.pc = "margin", !.by = by]
  /\ UNCHANGED <<exchangeVars, tracked, flag, sweep, sync, book>>

LoopBack(by) == loop' = IF by = "loop" THEN "idle" ELSE loop

\* Tracked orders that are kept: one for each target quote that has any.
Matches(keep, targets) ==
  /\ keep \subseteq tracked
  /\ {quote[i] : i \in keep} = {quote[i] : i \in tracked} \cap targets
  /\ \A i, j \in keep : quote[i] = quote[j] => i = j

\* Mutant: a target is placed although an order for it is kept.
MissingAll(targets, keep) == targets

\* The targets that no order is kept for.
Missing(targets, keep) == targets \ {quote[i] : i \in keep}

\* The balance is there: return if the margin is exhausted; or decide which slots to
\* quote, which orders to keep, to cancel and to place.
Plan ==
  /\ requote.pc = "margin"
  /\ \/ requote' = IdleRequote /\ LoopBack(requote.by)
     \/ \E mid \in Mids, wanted \in SUBSET Slots, keep \in SUBSET tracked :
          LET targets == [slot : wanted, mid : {mid}]
          IN /\ Matches(keep, targets)
             /\ requote' = [requote EXCEPT !.pc = "cancel", !.todo = tracked \ keep,
                                           !.place = Missing(targets, keep)]
             /\ UNCHANGED loop
  /\ UNCHANGED <<exchangeVars, tracked, flag, sweep, sync, spawned, book>>

\* One cancel of the requote. A failure keeps the order tracked; outside the sweep
\* it also starts a sync.
RequoteCancels(i) ==
  /\ requote.pc \in {"sweep", "cancel"} /\ i \in requote.todo
  /\ requote' = [requote EXCEPT !.todo = @ \ {i}]
  /\ \E ok \in BOOLEAN :
       /\ Cancel(i, ok)
       /\ spawned' = IF ok \/ requote.pc = "sweep" THEN spawned ELSE spawned \cup {"sync"}
  /\ UNCHANGED <<quote, flag, loop, sweep, sync>>

Ready == requote.pc = "cancel" /\ requote.todo = {} /\ requote.sent = {}

\* More than a requote places are not counted any further.
OneMore(n) == IF n <= Cardinality(Slots) THEN n + 1 ELSE n

\* create_quote_order reaches the exchange.
Send(q) ==
  /\ Ready /\ q \in requote.place
  /\ \E i \in Unused :
       /\ live' = live \cup {i}
       /\ quote' = [j \in OrderIds |-> CASE j = i -> q
                                          [] j \in Unused \ {i} -> AnyQuote
                                          [] OTHER -> quote[j]]
       /\ requote' = [requote EXCEPT !.place = @ \ {q}, !.sent = {i}]
  /\ book' = [book EXCEPT !.sinceDrain = IF flag.draining THEN OneMore(@) ELSE 0,
                          !.sincePause = IF flag.paused THEN OneMore(@) ELSE 0]
  /\ UNCHANGED <<events, tracked, flag, loop, sweep, sync, spawned>>

\* It is refused: post-only, margin, rate limit.
Refuse(q) ==
  /\ Ready /\ q \in requote.place
  /\ requote' = [requote EXCEPT !.place = @ \ {q}]
  /\ UNCHANGED <<exchangeVars, tracked, flag, loop, sweep, sync, spawned, book>>

\* The answer arrives, or is lost and taken for a refusal.
Answer ==
  /\ requote.sent # {}
  /\ requote' = [requote EXCEPT !.sent = {}]
  /\ \/ tracked' = tracked \cup requote.sent /\ UNCHANGED book
     \/ /\ Faulty /\ UNCHANGED tracked
        /\ book' = [Fault(book) EXCEPT !.excused = TRUE]
  /\ UNCHANGED <<exchangeVars, flag, loop, sweep, sync, spawned>>

Release ==
  /\ requote.pc \in {"sweep", "cancel"}
  /\ requote.todo = {} /\ requote.place = {} /\ requote.sent = {}
  /\ requote' = IdleRequote /\ LoopBack(requote.by)
  /\ UNCHANGED <<exchangeVars, tracked, flag, sweep, sync, spawned, book>>

-----------------------------------------------------------------------------
(* _cancel_active_quotes, without the lock *)

\* The list of orders is taken once.
SweepStarts(s) ==
  /\ sweep[s].pc = "start"
  /\ sweep' = [sweep EXCEPT ![s] = [pc |-> "run", todo |-> tracked]]
  /\ UNCHANGED <<exchangeVars, tracked, flag, loop, requote, sync, spawned, book>>

SweepCancels(s, i) ==
  /\ sweep[s].pc = "run" /\ i \in sweep[s].todo
  /\ sweep' = [sweep EXCEPT ![s].todo = @ \ {i}]
  /\ \E ok \in BOOLEAN : Cancel(i, ok)
  /\ UNCHANGED <<quote, flag, loop, requote, sync, spawned>>

\* The isolated kill ends by stopping the worker.
SweepEnds(s) ==
  /\ sweep[s].pc = "run" /\ sweep[s].todo = {}
  /\ sweep' = [sweep EXCEPT ![s] = IdleSweep]
  /\ flag' = IF s = "kill" THEN [flag EXCEPT !.running = FALSE, !.paused = TRUE] ELSE flag
  /\ UNCHANGED <<exchangeVars, tracked, loop, requote, sync, spawned, book>>

\* The dynamic circuit breaker trips.
BreakerTrips ==
  /\ Breaker /\ Operate /\ ~flag.tripped /\ sweep["breaker"].pc = "idle"
  /\ flag' = [flag EXCEPT !.tripped = TRUE]
  /\ sweep' = [sweep EXCEPT !["breaker"] = [pc |-> "run", todo |-> tracked]]
  /\ book' = Op(book)
  /\ UNCHANGED <<exchangeVars, tracked, loop, requote, sync, spawned>>

-----------------------------------------------------------------------------
(* reconcile_open_orders, without the lock *)

LoopSync ==
  /\ Syncs /\ loop = "idle" /\ flag.running
  /\ loop' = "sync"
  /\ sync' = [sync EXCEPT !["loop"].pc = "start"]
  /\ UNCHANGED <<exchangeVars, tracked, flag, requote, sweep, spawned, book>>

TaskSync ==
  /\ "sync" \in spawned /\ sync["task"].pc = "idle"
  /\ spawned' = spawned \ {"sync"}
  /\ sync' = [sync EXCEPT !["task"].pc = "start"]
  /\ UNCHANGED <<exchangeVars, tracked, flag, loop, requote, sweep, book>>

\* The exchange answers fetch_open_orders; a failure is an empty answer.
Fetch(s) ==
  /\ sync[s].pc = "start"
  /\ \/ sync' = [sync EXCEPT ![s] = [pc |-> "fetched", seen |-> live]] /\ UNCHANGED book
     \/ /\ Faulty /\ book' = Fault(book)
        /\ sync' = [sync EXCEPT ![s].pc = "fetched"]
  /\ UNCHANGED <<exchangeVars, tracked, flag, loop, requote, sweep, spawned>>

\* Mutant: orders the worker does not know are not taken over.
AdoptedKnown(seen) == tracked \cap seen

\* The tracked orders are replaced by the answer.
Adopted(seen) == seen

Adopt(s) ==
  /\ sync[s].pc = "fetched"
  /\ tracked' = Adopted(sync[s].seen)
  /\ sync' = [sync EXCEPT ![s] = IdleSync]
  /\ LoopBack(s)
  /\ book' = [book EXCEPT !.excused = @ \/ ~(live \cap tracked \subseteq sync[s].seen)]
  /\ UNCHANGED <<exchangeVars, flag, requote, sweep, spawned>>

-----------------------------------------------------------------------------
(* Lifecycle *)

\* set_drain_mode(True): the sweep is a background task.
Drain ==
  /\ Drains /\ Operate /\ ~flag.draining /\ sweep["drain"].pc = "idle"
  /\ flag' = [flag EXCEPT !.draining = TRUE]
  /\ sweep' = [sweep EXCEPT !["drain"].pc = "start"]
  /\ book' = [Op(book) EXCEPT !.sinceDrain = 0]
  /\ UNCHANGED <<exchangeVars, tracked, loop, requote, sync, spawned>>

Undrain ==
  /\ flag.draining
  /\ flag' = [flag EXCEPT !.draining = FALSE]
  /\ book' = [book EXCEPT !.sinceDrain = 0]
  /\ UNCHANGED <<exchangeVars, tracked, loop, requote, sweep, sync, spawned>>

Pause ==
  /\ Pauses /\ Operate /\ ~flag.paused
  /\ flag' = [flag EXCEPT !.paused = TRUE]
  /\ book' = [Op(book) EXCEPT !.sincePause = 0]
  /\ UNCHANGED <<exchangeVars, tracked, loop, requote, sweep, sync, spawned>>

Resume ==
  /\ flag.paused /\ ~flag.locked
  /\ flag' = [flag EXCEPT !.paused = FALSE]
  /\ book' = [book EXCEPT !.sincePause = 0]
  /\ UNCHANGED <<exchangeVars, tracked, loop, requote, sweep, sync, spawned>>

\* Mutant: the cancelled loop keeps the lock.
InterruptedHeld == requote

\* The main loop is cancelled at the await where it is: `async with` releases the
\* lock.
Interrupted == IF requote.by = "loop" THEN IdleRequote ELSE requote

\* stop: the main loop is cancelled, which forgets an order in flight; then the
\* quotes are swept.
Stop ==
  /\ Stops /\ Operate /\ flag.running /\ sweep["stop"].pc = "idle"
  /\ flag' = [flag EXCEPT !.running = FALSE]
  /\ loop' = "off"
  /\ requote' = Interrupted
  /\ sync' = [sync EXCEPT !["loop"] = IdleSync]
  /\ sweep' = [sweep EXCEPT !["stop"].pc = "start"]
  /\ book' = [Op(book) EXCEPT !.excused = @ \/ (requote.by = "loop" /\ requote.sent # {})]
  /\ UNCHANGED <<exchangeVars, tracked, spawned>>

\* _trigger_isolated_kill, from the ticker or a fill.
Kill ==
  /\ Kills /\ Operate /\ ~flag.locked /\ sweep["kill"].pc = "idle"
  /\ flag' = [flag EXCEPT !.locked = TRUE]
  /\ sweep' = [sweep EXCEPT !["kill"] = [pc |-> "run", todo |-> tracked]]
  /\ book' = Op(book)
  /\ UNCHANGED <<exchangeVars, tracked, loop, requote, sync, spawned>>

LoopEnds ==
  /\ loop = "idle" /\ ~flag.running
  /\ loop' = "off"
  /\ UNCHANGED <<exchangeVars, tracked, flag, requote, sweep, sync, spawned, book>>

Unlock ==
  /\ flag.locked
  /\ flag' = [flag EXCEPT !.locked = FALSE, !.paused = FALSE]
  /\ UNCHANGED <<exchangeVars, tracked, loop, requote, sweep, sync, spawned, book>>

Start ==
  /\ ~flag.running /\ ~flag.locked /\ loop = "off"
  /\ flag' = [flag EXCEPT !.running = TRUE, !.paused = FALSE]
  /\ loop' = "idle"
  /\ UNCHANGED <<exchangeVars, tracked, requote, sweep, sync, spawned, book>>

-----------------------------------------------------------------------------
RequoteStep ==
  \/ \E by \in Syncers : Acquire(by)
  \/ Plan
  \/ \E i \in OrderIds : RequoteCancels(i)
  \/ \E q \in Quotes : Send(q) \/ Refuse(q)
  \/ Answer \/ Release

SweepStep(s) == SweepStarts(s) \/ SweepEnds(s) \/ \E i \in OrderIds : SweepCancels(s, i)

SyncStep == TaskSync \/ \E s \in Syncers : Fetch(s) \/ Adopt(s)

StreamStep == \E e \in events : HandleOrder(e) \/ HandleFill(e)

Next ==
  \/ BreakerTrips \/ BreakerRequote
  \/ \E i \in OrderIds : Fill(i)
  \/ StreamStep \/ \E e \in events : LoseEvent(e)
  \/ LoopRequote \/ RequoteStep
  \/ \E s \in Sweepers : SweepStep(s)
  \/ LoopSync \/ SyncStep
  \/ Drain \/ Undrain \/ Pause \/ Resume \/ Stop \/ Kill \/ LoopEnds \/ Unlock \/ Start

Spec == Init /\ [][Next]_vars

(* Coroutines that may go on do; asyncio.Lock is first come, first served, so *)
(* the main loop gets it; the main loop reconciles every                      *)
(* reconcile_interval_sec, however often it requotes in between.              *)
Fairness ==
  /\ WF_vars(RequoteStep) /\ WF_vars(SyncStep) /\ WF_vars(StreamStep)
  /\ \A s \in Sweepers : WF_vars(SweepStep(s))
  /\ SF_vars(Acquire("loop")) /\ SF_vars(LoopSync) /\ WF_vars(LoopEnds)

FairSpec == Spec /\ Fairness

-----------------------------------------------------------------------------
(* Properties *)

\* Every variable keeps its type.
TypeOK ==
  /\ live \subseteq OrderIds /\ tracked \subseteq OrderIds
  /\ quote \in [OrderIds -> Quotes]
  /\ events \subseteq [kind : {"order", "fill"}, id : OrderIds]
  /\ flag \in [running : BOOLEAN, paused : BOOLEAN, draining : BOOLEAN, locked : BOOLEAN,
              tripped : BOOLEAN]
  /\ loop \in {"off", "idle", "wait", "requote", "sync"}
  /\ requote \in [pc : {"idle", "sweep", "margin", "cancel"}, by : Syncers,
                  todo : SUBSET OrderIds, place : SUBSET Quotes, sent : SUBSET OrderIds]
  /\ Cardinality(requote.sent) <= 1
  /\ (loop = "requote") <=> (requote.pc # "idle" /\ requote.by = "loop")
  /\ sweep \in [Sweepers -> [pc : {"idle", "start", "run"}, todo : SUBSET OrderIds]]
  /\ sync \in [Syncers -> [pc : {"idle", "start", "fetched"}, seen : SUBSET OrderIds]]
  /\ spawned \subseteq {"requote", "sync"}
  /\ book \in [faults : 0..MaxFaults, ops : 0..MaxOps, sinceDrain : Nat, sincePause : Nat,
               excused : BOOLEAN]

\* A worker that has been told to drain places no more than the quotes of the one
\* requote that had already passed the check: no fill, timer or breaker that comes
\* later makes it quote again ("No new entry quote orders will be placed").
DrainStopsQuoting == book.sinceDrain <= Cardinality(Slots)

\* Two orders rest for the same side and level only after a cancel failed, an answer
\* was lost, or a sync forgot an order that rests; requotes, sweeps, fills and
\* updates that arrive late do not double the exposure by themselves.
OneQuotePerSlot ==
  ~book.excused =>
    \A i, j \in live : quote[i].slot = quote[j].slot => i = j

\* reconcile_open_orders "Prevents ghost orders": it never forgets an order that
\* rests.
SyncForgetsNothing ==
  [][\A i \in live \cap live' \cap tracked : i \in tracked']_vars

\* reconcile_open_orders "heals state desynchronization": an order the running
\* worker does not know is known or gone in the end.
Ghost(i) == i \in live /\ i \notin tracked
GhostsGetTracked ==
  \A i \in OrderIds : Ghost(i) /\ flag.running ~> ~Ghost(i) \/ ~flag.running

\* set_drain_mode: "Any active quote orders are immediately cancelled."
DrainCancelsQuotes == flag.draining ~> live = {} \/ ~flag.draining

\* stop: "Stop worker and cancel all open quote orders."
StopCancelsQuotes == ~flag.running ~> live = {} \/ flag.running

\* pause: "Pause quoting": at most the quotes of the requote under way are placed.
PauseStopsQuoting == book.sincePause <= Cardinality(Slots)
=============================================================================
