----------------------------- MODULE ExitOrders -----------------------------
(***************************************************************************)
(* app/core/executor.py: the exit orders that TripleBarrierExecutor keeps  *)
(* at the exchange for one position side, and the isolated kill of         *)
(* app/core/worker.py that interferes with them.                           *)
(*                                                                         *)
(* Every handler of the executor runs under its lock but awaits the        *)
(* gateway once per order.  agenda is what the holder of the lock has      *)
(* still to do: each element is one gateway call with the code that        *)
(* follows it up to the next await.  Between two of them the exchange      *)
(* fills orders, the stream delivers fills to the tracker, the worker      *)
(* reconciles the tracker, and the isolated kill, which does not take the  *)
(* lock, cancels orders and closes the position.                           *)
(*                                                                         *)
(* Sizes are whole lots.  Prices are left out: whether a tick breaches the *)
(* stop loss, the trailing take profit or the time limit is an input.      *)
(* passive_exit_active and passive_exit_order_id are always set and        *)
(* cleared together, so that the set passive stands for both.              *)
(***************************************************************************)
EXTENDS Integers, Sequences, FiniteSetsExt

CONSTANTS
  EntryLots,     \* the sizes of entry fills
  Parts,         \* number of take-profit levels, of equal fractions
  OrderIds,      \* identifiers of exit orders, reused once forgotten
  MaxPos,        \* bound: largest position
  MaxEntries,    \* bound: number of entry fills
  MaxRestarts,   \* bound: number of restarts of the program
  PartialFills,  \* resting orders may fill in parts
  PassiveExits,  \* config.time_limit > 0
  Faults,        \* gateway calls may fail, or succeed with their answer lost, and
                 \* fills may be lost with the stream's connection
  Kills          \* a risk limit may be breached

ASSUME LotAssumption   == EntryLots \subseteq Nat \ {0} /\ Parts \in Nat \ {0}
ASSUME IdAssumption    == OrderIds \subseteq Nat \ {0}
ASSUME BoundAssumption == {MaxPos, MaxEntries, MaxRestarts} \subseteq Nat
ASSUME FlagAssumption  ==
  {PartialFills, PassiveExits, Faults, Kills} \subseteq BOOLEAN

VARIABLES
  pos,        \* exchange: size of the position
  live,       \* exchange: resting exit orders
  entries,    \* exchange: number of entry fills so far
  fills,      \* private stream: fills not yet delivered
  inbox,      \* fills the tracker has counted, waiting for the executor's lock
  amount,     \* tracker: SidePositionState.amount
  active,     \* state.active
  exiting,    \* _is_exiting
  remaining,  \* state.remaining_qty
  tps,        \* orders of state.tp_orders whose status is not FILLED
  passive,    \* state.passive_exit_order_id, a set of at most one order
  refreshes,  \* state.passive_exit_refresh_count
  agenda,     \* what the holder of the executor's lock has still to do
  kill,       \* progress of _trigger_isolated_kill
  restarts    \* number of restarts so far

exchangeVars == <<pos, live, entries>>
barrierVars  == <<active, exiting, remaining, tps, passive, refreshes>>
control      == <<kill, restarts>>
vars == <<exchangeVars, fills, inbox, amount, barrierVars, agenda, control>>

Order == [id : OrderIds, kind : {"tp", "pe"}, qty : Nat]
Fill  == [kind : {"quote", "pyramid", "exit"}, id : OrderIds \cup {0}, qty : Nat]

\* The calls of an agenda.
Cancelling(ids)    == IF ids = {} THEN <<>> ELSE <<[op |-> "cancel", ids |-> ids]>>
Then(op)           == <<[op |-> op]>>
Creating(op, kind, qty) == [op |-> op, kind |-> kind, qty |-> qty]

\* Mutant: the difference is not clamped at zero.
LessUnclamped(a, b) == a - b
Min2(a, b) == IF a <= b THEN a ELSE b
Less(a, b) == IF a >= b THEN a - b ELSE 0
LockFree   == agenda = <<>>
Now(op)    == agenda # <<>> /\ Head(agenda).op = op
Rest       == Tail(agenda)

KillOff  == [step |-> "off", ids |-> {}]
Killed   == [step |-> "done", ids |-> {}]

\* An identifier nothing refers to any more.
Forgotten(id) ==
  /\ id \notin {o.id : o \in live} \cup tps \cup passive \cup kill.ids
  /\ \A k \in DOMAIN fills : fills[k].id # id
  /\ \A k \in DOMAIN inbox : inbox[k].id # id
  /\ \A k \in DOMAIN agenda : agenda[k].op = "cancel" => id \notin agenda[k].ids

Init ==
  /\ pos = 0 /\ live = {} /\ entries = 0
  /\ fills = <<>> /\ inbox = <<>> /\ amount = 0
  /\ active = FALSE /\ exiting = FALSE /\ remaining = 0
  /\ tps = {} /\ passive = {} /\ refreshes = 0
  /\ agenda = <<>> /\ kill = KillOff /\ restarts = 0

-----------------------------------------------------------------------------
(* The exchange and the tracker *)

\* An entry quote, or the market order of a pyramid, fills.
Enter(kind, qty) ==
  /\ entries < MaxEntries /\ pos + qty <= MaxPos
  /\ kind = "pyramid" => pos > 0
  /\ kill.step # "done"
  /\ pos' = pos + qty /\ entries' = entries + 1
  /\ fills' = Append(fills, [kind |-> kind, id |-> 0, qty |-> qty])
  /\ UNCHANGED <<live, inbox, amount, barrierVars, agenda, control>>

\* A resting exit order fills, never beyond the position.
FillResting(o, qty) ==
  /\ qty \in 1..Min2(o.qty, pos)
  /\ qty = o.qty \/ PartialFills
  /\ pos' = pos - qty
  /\ live' = (live \ {o}) \cup
             (IF qty = o.qty THEN {} ELSE {[o EXCEPT !.qty = @ - qty]})
  /\ fills' = Append(fills, [kind |-> "exit", id |-> o.id, qty |-> qty])
  /\ UNCHANGED <<entries, inbox, amount, barrierVars, agenda, control>>

\* worker.on_fill: the tracker counts the fill, then the executor is called.
OnFill ==
  /\ fills # <<>>
  /\ LET f == Head(fills)
     IN /\ amount' = IF f.kind = "exit" THEN Less(amount, f.qty) ELSE amount + f.qty
        /\ inbox' = Append(inbox, f)
  /\ fills' = Tail(fills)
  /\ UNCHANGED <<exchangeVars, barrierVars, agenda, control>>

\* The stream's connection breaks and a fill is never delivered.
LoseFill ==
  /\ Faults /\ fills # <<>>
  /\ fills' = Tail(fills)
  /\ UNCHANGED <<exchangeVars, inbox, amount, barrierVars, agenda, control>>

\* The worker loop calls tracker.reconcile_with_exchange; a failure changes
\* nothing.
SyncTracker ==
  /\ kill.step # "done"
  /\ amount' = pos
  /\ UNCHANGED <<exchangeVars, fills, inbox, barrierVars, agenda, control>>

-----------------------------------------------------------------------------
(* The parts that several handlers share *)

\* Mutant: the previous take profits are not cancelled.
PlaceTPsUncancelled(open) == Then("ladder")

\* _place_take_profit_orders: cancel the open orders, then place the ladder.
PlaceTPs(open) == Cancelling(open) \o Then("ladder")

\* _cleanup_all_barrier_orders
Cleanup(open) == Cancelling(open \cup passive) \o Then("cleaned")

\* _execute_market_exit: the barrier is marked before the first await.
MarketExit ==
  /\ exiting' = TRUE /\ active' = FALSE
  /\ agenda' = Cleanup(tps) \o <<Creating("create", "mkt", remaining)>>
  /\ UNCHANGED <<remaining, tps, passive>>

-----------------------------------------------------------------------------
(* Handlers of the executor *)

\* on_entry_fill: arm the barrier for the tracker's size.  A quote fill forgets
\* the passive exit without cancelling it; a pyramid fill keeps it.
OnEntryFill(f) ==
  /\ f.kind # "exit"
  /\ IF amount = 0 THEN UNCHANGED <<barrierVars, agenda>>
     ELSE /\ active' = TRUE /\ exiting' = FALSE /\ remaining' = amount
          /\ passive' = IF f.kind = "quote" THEN {} ELSE passive
          /\ agenda' = PlaceTPs(tps)
          /\ UNCHANGED <<tps, refreshes>>

\* on_exit_fill: the order of the fill is marked FILLED, whatever is left of it.
OnExitFill(f) ==
  LET left == Less(remaining, f.qty)
      open == tps \ {f.id}
  IN /\ f.kind = "exit"
     /\ remaining' = left
     /\ tps' = open
     /\ agenda' = IF left = 0 THEN Cleanup(open) \o Then("reset")
                  ELSE IF passive # {} THEN Cancelling(passive) \o Then("replenish")
                  ELSE IF active /\ ~exiting THEN PlaceTPs(open)
                  ELSE <<>>
     /\ UNCHANGED <<active, exiting, passive, refreshes>>

\* The executor's turn for the oldest fill that waits for its lock.
HandleFill ==
  /\ LockFree /\ inbox # <<>>
  /\ OnEntryFill(Head(inbox)) \/ OnExitFill(Head(inbox))
  /\ inbox' = Tail(inbox)
  /\ UNCHANGED <<exchangeVars, fills, amount, control>>

Watching == LockFree /\ active /\ remaining > 0 /\ ~exiting

\* check_runtime_barriers: the stop loss or a trailing barrier is breached.
BreachTick ==
  /\ Watching
  /\ MarketExit
  /\ UNCHANGED <<exchangeVars, fills, inbox, amount, refreshes, control>>

\* _handle_passive_time_limit_exit without a passive exit: take profits are
\* cancelled and a passive exit is placed.
PassiveExit(qty) ==
  Cancelling(tps) \o Then("cleared") \o <<Creating("create", "pe", qty)>>

TimeLimitTick ==
  /\ Watching /\ PassiveExits /\ passive = {}
  /\ agenda' = PassiveExit(remaining)
  /\ UNCHANGED <<exchangeVars, fills, inbox, amount, barrierVars, control>>

\* ... with one that did not fill in time.
PassiveTimeoutTick ==
  /\ Watching /\ PassiveExits /\ passive # {}
  /\ refreshes' = refreshes + 1
  /\ agenda' = Cancelling(passive) \o Then("refreshed")
  /\ UNCHANGED <<exchangeVars, fills, inbox, amount, active, exiting, remaining,
                 tps, passive, control>>

\* Mutants of reconcile_barrier: a flat side keeps its orders; an open position
\* is armed only if it was armed before.
ReconcileFlatKeeps ==
  /\ amount = 0
  /\ UNCHANGED <<active, exiting, remaining, tps, passive, refreshes, agenda>>
ReconcileOpenIfArmed(breach) ==
  /\ amount > 0
  /\ remaining' = amount
  /\ exiting' = FALSE /\ agenda' = PlaceTPs(tps)
  /\ UNCHANGED <<active, tps, passive, refreshes>>

\* reconcile_barrier without a position.
ReconcileFlat ==
  /\ amount = 0
  /\ agenda' = IF active \/ tps # {} \/ passive # {}
               THEN Cleanup(tps) \o Then("disarm") ELSE <<>>
  /\ UNCHANGED barrierVars

\* reconcile_barrier with a position: arm it; a mark price beyond the stop loss,
\* or beyond the take profit while no take profit is open, closes it.
ReconcileOpen(breach) ==
  /\ amount > 0
  /\ breach = "tp" => tps = {}
  /\ remaining' = amount
  /\ IF breach = "none"
     THEN active' = TRUE /\ exiting' = FALSE /\ agenda' = PlaceTPs(tps)
     ELSE /\ exiting' = TRUE /\ active' = FALSE
          /\ agenda' = Cleanup(tps) \o <<Creating("create", "mkt", amount)>>
  /\ UNCHANGED <<tps, passive, refreshes>>

ReconcileBarrier ==
  /\ LockFree /\ kill.step # "done"
  /\ ReconcileFlat \/ \E b \in {"none", "sl", "tp"} : ReconcileOpen(b)
  /\ UNCHANGED <<exchangeVars, fills, inbox, amount, control>>

-----------------------------------------------------------------------------
(* What follows an await inside a handler *)

\* gateway.cancel_order: its result is ignored.
CancelNext ==
  /\ Now("cancel")
  /\ \E id \in Head(agenda).ids :
       LET left == Head(agenda).ids \ {id}
       IN /\ live' = {o \in live : o.id # id} \/ (Faults /\ live' = live)
          /\ agenda' = Cancelling(left) \o Rest
  /\ UNCHANGED <<pos, entries, fills, inbox, amount, barrierVars, control>>

\* Mutant: the ladder is sized by the tracker, not by the barrier.
LadderFromTracker ==
  /\ Now("ladder")
  /\ tps' = {}
  /\ LET qty == amount \div Parts
     IN agenda' = (IF qty = 0 THEN <<>>
                   ELSE [k \in 1..Parts |-> Creating("create", "tp", qty)]) \o Rest
  /\ UNCHANGED <<exchangeVars, fills, inbox, amount, active, exiting, remaining,
                 passive, refreshes, control>>

\* tp_orders.clear(), then one order per level whose quantised size is not zero.
Ladder ==
  /\ Now("ladder")
  /\ tps' = {}
  /\ LET qty == remaining \div Parts
     IN agenda' = (IF qty = 0 THEN <<>>
                   ELSE [k \in 1..Parts |-> Creating("create", "tp", qty)]) \o Rest
  /\ UNCHANGED <<exchangeVars, fills, inbox, amount, active, exiting, remaining,
                 passive, refreshes, control>>

\* The end of _cleanup_all_barrier_orders, and of the loop that cancels the take
\* profits before a passive exit.
Forget ==
  /\ Now("cleaned") \/ Now("cleared")
  /\ tps' = {}
  /\ passive' = IF Now("cleaned") THEN {} ELSE passive
  /\ agenda' = Rest
  /\ UNCHANGED <<exchangeVars, fills, inbox, amount, active, exiting, remaining,
                 refreshes, control>>

\* The end of on_exit_fill for a closed position, and of reconcile_barrier.
Disarm ==
  /\ Now("reset") \/ Now("disarm")
  /\ active' = FALSE /\ exiting' = FALSE
  /\ passive' = IF Now("reset") THEN {} ELSE passive
  /\ refreshes' = IF Now("reset") THEN 0 ELSE refreshes
  /\ agenda' = Rest
  /\ UNCHANGED <<exchangeVars, fills, inbox, amount, remaining, tps, control>>

\* on_exit_fill after it cancelled the passive exit.
Replenish ==
  /\ Now("replenish")
  /\ passive' = {}
  /\ agenda' = IF active /\ ~exiting THEN PlaceTPs(tps) ELSE <<>>
  /\ UNCHANGED <<exchangeVars, fills, inbox, amount, active, exiting, remaining,
                 tps, refreshes, control>>

\* The time limit after it cancelled the passive exit: place it anew, or escalate
\* to a market exit the second time.
Refreshed ==
  /\ Now("refreshed")
  /\ passive' = {}
  /\ IF refreshes >= 2
     THEN /\ refreshes' = 0 /\ exiting' = TRUE /\ active' = FALSE
          /\ agenda' = Cancelling(tps) \o Then("cleaned")
                       \o <<Creating("create", "mkt", remaining)>>
     ELSE /\ agenda' = PassiveExit(remaining)
          /\ UNCHANGED <<refreshes, exiting, active>>
  /\ UNCHANGED <<exchangeVars, fills, inbox, amount, remaining, tps, control>>

-----------------------------------------------------------------------------
(* _safe_create_exit_order and gateway.create_exit_order.  "create" is the     *)
(* first attempt, "sync" the reconcile after a -2022, "retry" the second one.  *)

Attempt == Now("create") \/ Now("retry")

\* The order takes effect at the exchange.
Effect(c, id) ==
  /\ c.qty <= pos
  /\ IF c.kind = "mkt"
     THEN /\ id = 0
          /\ pos' = pos - c.qty
          /\ fills' = Append(fills, [kind |-> "exit", id |-> 0, qty |-> c.qty])
          /\ UNCHANGED live
     ELSE /\ id # 0 /\ Forgotten(id)
          /\ live' = live \cup {[id |-> id, kind |-> c.kind, qty |-> c.qty]}
          /\ UNCHANGED <<pos, fills>>

\* None is returned: a market exit that failed arms the barrier again.
Failed(c) ==
  IF c.kind = "mkt" THEN active' = TRUE /\ exiting' = FALSE
  ELSE UNCHANGED <<active, exiting>>

Accepted(id) ==
  /\ Attempt
  /\ LET c == Head(agenda)
     IN /\ Effect(c, id)
        /\ tps' = IF c.kind = "tp" THEN tps \cup {id} ELSE tps
        /\ passive' = IF c.kind = "pe" THEN {id} ELSE passive
  /\ agenda' = Rest
  /\ UNCHANGED <<entries, inbox, amount, active, exiting, remaining, refreshes,
                 control>>

\* The order is placed but its answer is lost.
AnswerLost(id) ==
  /\ Attempt /\ Faults
  /\ Effect(Head(agenda), id)
  /\ Failed(Head(agenda))
  /\ agenda' = Rest
  /\ UNCHANGED <<entries, inbox, amount, remaining, tps, passive, refreshes, control>>

\* The order is not placed: a post-only order would take, the connection broke,
\* or the second attempt is too large as well.
Refused ==
  /\ Attempt
  /\ LET c == Head(agenda)
     IN /\ c.kind # "mkt" \/ Faults \/ (Now("retry") /\ c.qty > pos)
        /\ Failed(c)
  /\ agenda' = Rest
  /\ UNCHANGED <<exchangeVars, fills, inbox, amount, remaining, tps, passive,
                 refreshes, control>>

\* -2022: the order is larger than the position.
Oversized ==
  /\ Now("create") /\ Head(agenda).qty > pos
  /\ agenda' = <<[Head(agenda) EXCEPT !.op = "sync"]>> \o Rest
  /\ UNCHANGED <<exchangeVars, fills, inbox, amount, barrierVars, control>>

\* The reconcile after a -2022: give up on a flat position, else try again.
SyncThenRetry ==
  /\ Now("sync")
  /\ amount' \in {pos} \cup (IF Faults THEN {amount} ELSE {})
  /\ remaining' = amount'
  /\ LET c == Head(agenda)
     IN IF amount' = 0
        THEN /\ IF c.kind = "mkt" THEN Failed(c)
                ELSE active' = FALSE /\ UNCHANGED exiting
             /\ agenda' = Rest
        ELSE /\ agenda' = <<Creating("retry", c.kind, Min2(c.qty, amount'))>> \o Rest
             /\ UNCHANGED <<active, exiting>>
  /\ UNCHANGED <<exchangeVars, fills, inbox, tps, passive, refreshes, control>>

-----------------------------------------------------------------------------
(* worker._trigger_isolated_kill: without the executor's lock *)

KillBegin ==
  /\ Kills /\ kill = KillOff
  /\ kill' = [step |-> "cancel", ids |-> tps \cup passive]
  /\ UNCHANGED <<exchangeVars, fills, inbox, amount, barrierVars, agenda, restarts>>

KillCancel(id) ==
  /\ kill.step = "cancel" /\ id \in kill.ids
  /\ live' = {o \in live : o.id # id} \/ (Faults /\ live' = live)
  /\ kill' = [kill EXCEPT !.ids = @ \ {id}]
  /\ UNCHANGED <<pos, entries, fills, inbox, amount, barrierVars, agenda, restarts>>

KillDisarm ==
  /\ kill.step = "cancel" /\ kill.ids = {}
  /\ tps' = {} /\ passive' = {} /\ active' = FALSE
  /\ kill' = [kill EXCEPT !.step = "close"]
  /\ UNCHANGED <<exchangeVars, fills, inbox, amount, exiting, remaining,
                 refreshes, agenda, restarts>>

\* The position is closed at market; the result of the call is ignored.
KillClose ==
  /\ kill.step = "close"
  /\ kill' = Killed
  /\ \/ /\ amount \in 1..pos
        /\ pos' = pos - amount
        /\ fills' = Append(fills, [kind |-> "exit", id |-> 0, qty |-> amount])
     \/ /\ amount \notin 1..pos \/ Faults
        /\ UNCHANGED <<pos, fills>>
  /\ UNCHANGED <<live, entries, inbox, amount, barrierVars, agenda, restarts>>

-----------------------------------------------------------------------------

\* The program stops, on purpose or not, and starts again: what it knew of its
\* exit orders is gone, and nothing cancels them.  A symbol whose kill had begun
\* comes back locked (config.is_locked is saved) and is not started.
Restart ==
  /\ restarts < MaxRestarts /\ restarts' = restarts + 1
  /\ fills' = <<>> /\ inbox' = <<>> /\ amount' = 0
  /\ active' = FALSE /\ exiting' = FALSE /\ remaining' = 0
  /\ tps' = {} /\ passive' = {} /\ refreshes' = 0
  /\ agenda' = <<>>
  /\ kill' = IF kill = KillOff THEN KillOff ELSE Killed
  /\ UNCHANGED exchangeVars

Continue ==
  \/ CancelNext \/ Ladder \/ Forget \/ Disarm \/ Replenish \/ Refreshed
  \/ Oversized \/ SyncThenRetry \/ Refused
  \/ \E id \in OrderIds \cup {0} : Accepted(id) \/ AnswerLost(id)

KillStep == \/ KillDisarm \/ KillClose \/ \E id \in OrderIds : KillCancel(id)

Next ==
  \/ \E kind \in {"quote", "pyramid"}, qty \in EntryLots : Enter(kind, qty)
  \/ \E o \in live : \E qty \in 1..MaxPos : FillResting(o, qty)
  \/ OnFill \/ LoseFill \/ SyncTracker
  \/ HandleFill \/ BreachTick \/ TimeLimitTick \/ PassiveTimeoutTick
  \/ ReconcileBarrier
  \/ Continue
  \/ KillBegin \/ KillStep
  \/ Restart

Spec == Init /\ [][Next]_vars

(* The event loop runs every ready task, and asyncio locks are granted in the  *)
(* order they were asked for; the worker loop reconciles every                 *)
(* reconcile_interval_sec, and the exchange's position query does not fail for *)
(* ever.                                                                       *)
Fairness ==
  /\ WF_vars(OnFill) /\ WF_vars(SyncTracker)
  /\ SF_vars(HandleFill)
  /\ SF_vars(ReconcileBarrier)
  /\ WF_vars(Continue)
  /\ WF_vars(KillStep)

FairSpec == Spec /\ Fairness

-----------------------------------------------------------------------------
(* Properties *)

Call ==
  [op : {"cancel"}, ids : SUBSET OrderIds]
  \cup [op : {"ladder", "cleaned", "cleared", "reset", "disarm", "replenish",
               "refreshed"}]
  \cup [op : {"create", "sync", "retry"}, kind : {"tp", "pe", "mkt"}, qty : Nat]

\* Every variable keeps its type.
TypeOK ==
  /\ pos \in Nat /\ live \subseteq Order /\ entries \in Nat
  /\ fills \in Seq(Fill) /\ inbox \in Seq(Fill) /\ amount \in Nat
  /\ active \in BOOLEAN /\ exiting \in BOOLEAN /\ remaining \in Nat
  /\ tps \subseteq OrderIds /\ passive \subseteq OrderIds
  /\ Cardinality(passive) <= 1 /\ refreshes \in 0..2
  /\ agenda \in Seq(Call)
  /\ kill \in [step : {"off", "cancel", "close", "done"}, ids : SUBSET OrderIds]
  /\ restarts \in 0..MaxRestarts

\* Every exit order that rests at the exchange is known to the executor, in every
\* state between two of its gateway calls: whoever places new orders cancels the
\* previous ones first ("Cancel any previous TP orders before placing new ones").
NoOrphans == \A o \in live : o.id \in tps \cup passive

\* A passive exit and a take profit never rest together: both would close the
\* same lots.
NoTPWithPassive == ~ \E o, p \in live : o.kind = "tp" /\ p.kind = "pe"

\* The orders at rest never close more than the size the barrier guards.
WithinRemaining ==
  LockFree => MapThenSumSet(LAMBDA o : o.qty, live) <= remaining

\* Only a closed position resets the barrier ("Position fully closed -> Reset all
\* barrier state"); the lots of an entry fill still under way do not count.
ResetOnlyWhenFlat ==
  LET underway == {fills[k].kind : k \in DOMAIN fills}
                  \cup {inbox[k].kind : k \in DOMAIN inbox}
  IN Now("reset") /\ underway \subseteq {"exit"} => pos = 0

\* An open position gets its barrier armed, whichever calls fail, unless it is
\* closed or the symbol is killed first: no sequence of exits leaves the executor
\* inactive for good (_is_exiting, a reset or a -2022 notwithstanding).
ExposedGetsArmed == (pos > 0) ~> (active \/ pos = 0 \/ kill # KillOff)

\* Once the side is flat for good, the barrier is disarmed and no exit order stays
\* at the exchange, which would open the opposite trade at its price.
FlatGetsDisarmed == <>[](pos = 0) => <>[](~active /\ live = {})

\* The isolated kill ends with the position closed, or with its barrier armed.
KillLeavesNothingNaked == (kill = Killed) ~> (pos = 0 \/ active)
=============================================================================
