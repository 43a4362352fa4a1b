-------------------------- MODULE EmergencyKillAll --------------------------
(***************************************************************************)
(* app/core/manager.py: emergency_kill_all, the health monitor that calls  *)
(* it, the account circuit breaker (app/core/circuit_breaker.py), and the  *)
(* calls of the UI, the API and the rebalancer that may run at any await   *)
(* of the kill-all.                                                        *)
(*                                                                         *)
(* The phases of a kill-all go over the symbols one call at a time:        *)
(* stop, cancel, then three rounds that fetch the positions and (but for   *)
(* the last) close what was found.  A worker's own requotes are the        *)
(* subject of WorkerQuotes; here one may place quotes whether or not its   *)
(* worker runs.  The gateway stays connected.                              *)
(***************************************************************************)
EXTENDS Integers, FiniteSets

CONSTANTS
  Symbols,      \* the symbols of the configuration store
  Sides,        \* LONG and SHORT
  MaxLots,      \* bound: size of a position
  MaxFills,     \* bound: entry fills
  MaxOps,       \* bound: calls of the UI and of the rebalancer
  FetchFaults,  \* fetch_positions_hedge may fail, which it answers with (None, None)
  CallFaults,   \* orders and cancels may fail
  Changes,      \* pairs may be added and deleted
  Unlocks       \* pairs may be locked by their own kill switch and unlocked

ASSUME SymbolAssumption == IsFiniteSet(Symbols) /\ IsFiniteSet(Sides)
ASSUME BoundAssumption  == {MaxLots, MaxFills, MaxOps} \subseteq Nat
ASSUME FlagAssumption   == {FetchFaults, CallFaults, Changes, Unlocks} \subseteq BOOLEAN

VARIABLES
  pos,        \* exchange: the size of each position
  resting,    \* exchange: the legs with a resting entry quote
  workers,    \* the keys of manager.workers
  running,    \* the workers that run
  locked,     \* the workers that an isolated kill has locked
  requoting,  \* the workers with a requote on its way
  breach,     \* the account's loss or margin ratio is beyond its limit
  tripped,    \* circuit_breaker._tripped
  health,     \* _health_monitor_loop
  waiting,    \* callers that wait for _kill_all_lock
  kill,       \* the kill-all that holds the lock
  status,     \* the status the last one reported
  book        \* history: fills, operations, and what has been open since the kill-all
              \* began (since), and since the breaker tripped without a kill-all
              \* that reported to have failed (owed)

exchangeVars == <<pos, resting>>
workerVars   == <<workers, running, locked, requoting>>
healthVars   == <<breach, tripped, health>>
killVars     == <<waiting, kill, status>>
vars == <<exchangeVars, workerVars, healthVars, killVars, book>>

Legs     == Symbols \X Sides
LegsOf(s) == {s} \X Sides
Callers  == {"health", "operator"}

\* The open positions of the bot's pairs.
Managed == {l \in Legs : l[1] \in workers /\ pos[l] > 0}

\* size: number of workers when the stop phase began to iterate; todo: symbols the
\* phase has not reached; done: workers it has stopped; found: positions to close.
Idle == [pc |-> "idle", by |-> "operator", size |-> 0, round |-> 0, done |-> {},
         todo |-> {}, found |-> {}]

Init ==
  /\ pos = [l \in Legs |-> 0] /\ resting = {}
  /\ workers = Symbols /\ running = Symbols /\ locked = {} /\ requoting = {}
  /\ breach = FALSE /\ tripped = FALSE /\ health = "on"
  /\ waiting = {} /\ kill = Idle /\ status = "none"
  /\ book = [fills |-> 0, ops |-> 0, since |-> {}, owed |-> {}]

-----------------------------------------------------------------------------
(* The exchange and the workers *)

Quotes(s) == \E ls \in SUBSET LegsOf(s) : resting' = resting \cup ls

Quote(s) ==
  /\ s \in running
  /\ Quotes(s)
  /\ UNCHANGED <<pos, workerVars, healthVars, killVars, book>>

\* A background requote, which no longer asks whether its worker runs.
Requote(s) ==
  /\ s \in requoting
  /\ Quotes(s)
  /\ requoting' = requoting \ {s}
  /\ UNCHANGED <<pos, workers, running, locked, healthVars, killVars, book>>

\* An entry fills; the worker's on_fill starts a requote unless it is locked.
Fill(l) ==
  /\ l \in resting /\ pos[l] < MaxLots /\ book.fills < MaxFills
  /\ pos' = [pos EXCEPT ![l] = @ + 1]
  /\ resting' = resting \ {l}
  /\ requoting' = requoting \cup ({l[1]} \cap (workers \ locked))
  /\ book' = [book EXCEPT !.fills = @ + 1]
  /\ UNCHANGED <<workers, running, locked, healthVars, killVars>>

\* a lots of a position are closed.
Close(l, a) ==
  /\ pos' = [pos EXCEPT ![l] = @ - a]
  /\ book' = IF pos[l] = a THEN [book EXCEPT !.since = @ \ {l}, !.owed = @ \ {l}]
           ELSE book

\* A barrier of the executor closes a position, or part of it.
Exit(l) ==
  /\ \E a \in 1..pos[l] : Close(l, a)
  /\ UNCHANGED <<resting, workerVars, healthVars, killVars>>

-----------------------------------------------------------------------------
(* The health monitor *)

\* A change while the monitor waits for its kill-all is seen, and so modelled, after it.
Breach ==
  /\ health # "killing"
  /\ breach' = ~breach
  /\ UNCHANGED <<exchangeVars, workerVars, tripped, health, killVars, book>>

\* check_account_health; a breaker that has tripped stays so.
CheckHealth ==
  /\ health = "on" /\ (tripped \/ breach)
  /\ tripped' = TRUE
  /\ health' = "killing"
  /\ waiting' = waiting \cup {"health"}
  /\ book' = IF tripped THEN book ELSE [book EXCEPT !.owed = Managed]
  /\ UNCHANGED <<exchangeVars, workerVars, breach, kill, status>>

\* Mutant: the monitor also ends when the kill-all raised an exception.
HealthAfterAlways(how) == "off"

\* The monitor ends after a kill-all, and tries again after an exception.
HealthAfter(how) == IF how = "raised" THEN "on" ELSE "off"

-----------------------------------------------------------------------------
(* emergency_kill_all *)

KillStarts(by) ==
  /\ kill.pc = "idle" /\ by \in waiting
  /\ waiting' = waiting \ {by}
  /\ kill' = [Idle EXCEPT !.pc = "stop", !.by = by, !.size = Cardinality(workers)]
  /\ status' = "none"
  /\ book' = [book EXCEPT !.since = Managed]
  /\ UNCHANGED <<exchangeVars, workerVars, healthVars>>

Resized == Cardinality(workers) # kill.size

\* worker.stop() sweeps the quotes of symbol s; a quote whose cancel fails stays.
Swept(s) ==
  \E left \in SUBSET (resting \cap LegsOf(s)) :
    /\ left # {} => CallFaults
    /\ resting' = (resting \ LegsOf(s)) \cup left

\* Phase 1: the next worker is stopped.
StopWorker(s) ==
  /\ kill.pc = "stop" /\ ~Resized /\ s \in workers \ kill.done
  /\ running' = running \ {s}
  /\ Swept(s)
  /\ kill' = [kill EXCEPT !.done = @ \cup {s}]
  /\ UNCHANGED <<pos, workers, locked, requoting, healthVars, waiting, status, book>>

Ends(how) ==
  /\ kill' = Idle /\ status' = how
  /\ health' = IF kill.by = "health" THEN HealthAfter(how) ELSE health
  /\ book' = IF how = "partial" THEN [book EXCEPT !.owed = {}] ELSE book
  /\ UNCHANGED <<exchangeVars, workerVars, breach, tripped, waiting>>

\* A dictionary that changed its size raises an exception in its iteration.
KillRaises ==
  /\ kill.pc = "stop" /\ Resized
  /\ Ends("raised")

StopDone ==
  /\ kill.pc = "stop" /\ ~Resized /\ workers \subseteq kill.done
  /\ kill' = [kill EXCEPT !.pc = "cancel", !.todo = workers]
  /\ UNCHANGED <<exchangeVars, workerVars, healthVars, waiting, status, book>>

\* Phase 2: the result of cancel_all_symbol_orders is ignored.
CancelAll(s) ==
  /\ kill.pc = "cancel" /\ s \in kill.todo
  /\ \/ resting' = resting \ LegsOf(s)
     \/ CallFaults /\ UNCHANGED resting
  /\ kill' = [kill EXCEPT !.todo = @ \ {s}]
  /\ UNCHANGED <<pos, workerVars, healthVars, waiting, status, book>>

\* The next round fetches the positions of all workers.
Round(n) ==
  kill' = [kill EXCEPT !.pc = "fetch", !.round = n, !.todo = workers, !.found = {}]

CancelDone ==
  /\ kill.pc = "cancel" /\ kill.todo = {}
  /\ Round(1)
  /\ UNCHANGED <<exchangeVars, workerVars, healthVars, waiting, status, book>>

\* The positions of a symbol on the exchange.
OpenLegs(s) == {l \in LegsOf(s) : pos[l] > 0}

\* Phases 3 and 5 and the final check.
Fetch(s) ==
  /\ kill.pc = "fetch" /\ s \in kill.todo
  /\ \E seen \in {OpenLegs(s)} \cup (IF FetchFaults THEN {{}} ELSE {}) :
       kill' = [kill EXCEPT !.todo = @ \ {s},
                            !.found = @ \cup {<<l, pos[l]>> : l \in seen}]
  /\ UNCHANGED <<exchangeVars, workerVars, healthVars, waiting, status, book>>

FetchDone ==
  /\ kill.pc = "fetch" /\ kill.todo = {} /\ kill.round < 3
  /\ kill' = [kill EXCEPT !.pc = "exit"]
  /\ UNCHANGED <<exchangeVars, workerVars, healthVars, waiting, status, book>>

\* Phase 4 and the second pass: a market order for the size that was fetched, refused
\* if the position has become smaller.
ExitFound(l, a) ==
  /\ kill.pc = "exit" /\ <<l, a>> \in kill.found
  /\ kill' = [kill EXCEPT !.found = @ \ {<<l, a>>}]
  /\ \/ pos[l] >= a /\ Close(l, a)
     \/ (pos[l] < a \/ CallFaults) /\ UNCHANGED <<pos, book>>
  /\ UNCHANGED <<resting, workerVars, healthVars, waiting, status>>

ExitDone ==
  /\ kill.pc = "exit" /\ kill.found = {}
  /\ Round(kill.round + 1)
  /\ UNCHANGED <<exchangeVars, workerVars, healthVars, waiting, status, book>>

\* Mutant: the second pass is taken to have closed everything.
VerdictUnchecked(found) == "completed"

Verdict(found) == IF found = {} THEN "completed" ELSE "partial"

KillEnds ==
  /\ kill.pc = "fetch" /\ kill.todo = {} /\ kill.round = 3
  /\ Ends(Verdict(kill.found))

-----------------------------------------------------------------------------
(* The UI, the API and the rebalancer *)

Operate == book.ops < MaxOps
Op(b)   == [b EXCEPT !.ops = @ + 1]

OperatorKills ==
  /\ Operate /\ "operator" \notin waiting
  /\ waiting' = waiting \cup {"operator"}
  /\ book' = Op(book)
  /\ UNCHANGED <<exchangeVars, workerVars, healthVars, kill, status>>

\* worker.start() of a worker that is not locked.
Starts(s) == running' = running \cup ({s} \ locked)

StartPair(s) ==
  /\ Operate /\ ~tripped
  /\ workers' = workers \cup {s} /\ Starts(s)
  /\ s \notin workers => Changes
  /\ book' = Op(book)
  /\ UNCHANGED <<exchangeVars, locked, requoting, healthVars, killVars>>

\* register_dynamic_pair, which does not ask the breaker.
Register(s) ==
  /\ Changes /\ Operate
  /\ workers' = workers \cup {s} /\ Starts(s)
  /\ book' = Op(book)
  /\ UNCHANGED <<exchangeVars, locked, requoting, healthVars, killVars>>

\* Mutant: a deleted worker is not stopped.
WithoutUnstopped(s) == running

Without(s) == running \ {s}

\* delete_pair: the position of a deleted pair is no longer the bot's.
Delete(s) ==
  /\ Changes /\ Operate /\ s \in workers
  /\ workers' = workers \ {s} /\ running' = Without(s)
  /\ locked' = locked \ {s} /\ requoting' = requoting \ {s}
  /\ Swept(s)
  /\ kill' = [kill EXCEPT !.done = @ \ {s}]
  /\ book' = [Op(book) EXCEPT !.since = @ \ LegsOf(s), !.owed = @ \ LegsOf(s)]
  /\ UNCHANGED <<pos, healthVars, waiting, status>>

\* An isolated kill locks and stops a worker; unlock_pair starts it again, without
\* asking the breaker.
LockPair(s) ==
  /\ Unlocks /\ Operate /\ s \in running
  /\ locked' = locked \cup {s} /\ running' = running \ {s}
  /\ Swept(s)
  /\ book' = Op(book)
  /\ UNCHANGED <<pos, workers, requoting, healthVars, killVars>>

UnlockPair(s) ==
  /\ Operate /\ s \in locked
  /\ locked' = locked \ {s} /\ running' = running \cup {s}
  /\ book' = Op(book)
  /\ UNCHANGED <<exchangeVars, workers, requoting, healthVars, killVars>>

\* circuit_breaker.reset() restarts the window of the loss.
Reset ==
  /\ Operate /\ tripped
  /\ tripped' = FALSE /\ breach' = FALSE
  /\ book' = [Op(book) EXCEPT !.owed = {}]
  /\ UNCHANGED <<exchangeVars, workerVars, health, killVars>>

-----------------------------------------------------------------------------
KillStep ==
  \/ \E by \in Callers : KillStarts(by)
  \/ \E s \in Symbols : StopWorker(s) \/ CancelAll(s) \/ Fetch(s)
  \/ StopDone \/ KillRaises \/ CancelDone \/ FetchDone
  \/ \E l \in Legs, a \in 1..MaxLots : ExitFound(l, a)
  \/ ExitDone \/ KillEnds

Next ==
  \/ \E s \in Symbols : Quote(s) \/ Requote(s)
  \/ \E l \in Legs : Fill(l) \/ Exit(l)
  \/ Breach \/ CheckHealth
  \/ KillStep
  \/ OperatorKills \/ Reset
  \/ \E s \in Symbols : StartPair(s) \/ Register(s) \/ Delete(s)
                        \/ LockPair(s) \/ UnlockPair(s)

Spec == Init /\ [][Next]_vars

(* The monitor checks every ten seconds; a kill-all that holds the lock goes   *)
(* on, and the lock is first come, first served.                              *)
Fairness ==
  /\ WF_vars(CheckHealth) /\ WF_vars(KillStep)
  /\ SF_vars(KillStarts("health"))

FairSpec == Spec /\ Fairness

-----------------------------------------------------------------------------
(* Properties *)

\* Every variable keeps its type.
TypeOK ==
  /\ pos \in [Legs -> 0..MaxLots] /\ resting \subseteq Legs
  /\ workers \subseteq Symbols /\ running \subseteq workers
  /\ locked \subseteq workers /\ requoting \subseteq workers
  /\ {breach, tripped} \subseteq BOOLEAN /\ health \in {"on", "killing", "off"}
  /\ waiting \subseteq Callers
  /\ kill \in [pc : {"idle", "stop", "cancel", "fetch", "exit"}, by : Callers, size : Nat,
               round : 0..3, done : SUBSET Symbols, todo : SUBSET Symbols,
               found : SUBSET (Legs \X (1..MaxLots))]
  /\ status \in {"none", "raised", "completed", "partial"}
  /\ book \in [fills : 0..MaxFills, ops : 0..MaxOps, since : SUBSET Legs,
               owed : SUBSET Legs]
  /\ health = "killing" <=> "health" \in waiting \/ (kill.pc # "idle" /\ kill.by = "health")

\* A kill-all that reports COMPLETED ("All positions 100% Flat.") has closed every
\* position that was open when it began, whatever fills, requotes, restarts and
\* failed orders came in between.
CompletedMeansClosed == status = "completed" => book.since = {}

\* The positions that are open when the breaker trips get closed, unless it is reset,
\* or the kill-all reports that it failed: it is not lost or aborted for good, whatever
\* the UI and the rebalancer do to the pairs meanwhile.
BreakerFlattens == book.owed # {} ~> book.owed = {}

\* No pair starts while the breaker is tripped.
NoStartWhileTripped == [][tripped /\ tripped' => running' \subseteq running]_vars

\* The account is watched at all times: a breach that lasts trips the breaker.
BreachTrips == breach ~> tripped \/ ~breach
=============================================================================
