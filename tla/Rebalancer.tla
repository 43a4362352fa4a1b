----------------------------- MODULE Rebalancer -----------------------------
(***************************************************************************)
(* app/core/pair_rebalancer.py: the cycle that retires drained pairs, ranks *)
(* the markets anew, drains pairs that fell behind and promotes better ones *)
(* into the free slots, beside an operator, the breaker and the pairs' own  *)
(* trading.  Coroutines share one thread: another one runs only while the   *)
(* cycle awaits.  A worker is what the cycle can see and change of it; its  *)
(* quotes and positions are modelled in WorkerQuotes and PositionTracker.   *)
(***************************************************************************)
EXTENDS Screener

CONSTANTS
  Profiles,        \* what a scan may learn of a market
  MaxActive,       \* max_active_pairs
  RankThreshold,   \* rank_threshold
  MaxOps           \* bound: what operator, breaker and network do

ASSUME SlotsAssumption    == {MaxActive, RankThreshold, MaxOps} \subseteq Nat
ASSUME ProfilesAssumption == Profiles \subseteq MarketMetric

VARIABLES
  worker,      \* the worker of each market and its configuration
  connected,   \* gateway._is_connected
  tripped,     \* circuit_breaker.is_tripped
  pc,          \* where the cycle is
  todo,        \* workers it has still to look at for retirement
  cands,       \* candidates it has still to look at, best first
  free,        \* available_slots
  at,          \* the pair whose stop or start it awaits
  ops,         \* operations the bound still allows
  drained,     \* history: pairs this cycle has set draining
  beside       \* history: slots taken by others since it counted them

cycle == <<pc, todo, cands, free, at, drained>>
vars  == <<worker, connected, tripped, cycle, ops, beside>>

NoWorker == [known |-> FALSE, enabled |-> FALSE, draining |-> FALSE, running |-> FALSE,
             locked |-> FALSE, pos |-> FALSE, quotes |-> FALSE]
Running  == [NoWorker EXCEPT !.known = TRUE, !.enabled = TRUE, !.running = TRUE]

\* start_gateway has started the configured pairs, one fewer than there are slots.
Init ==
  /\ worker = [s \in Symbols |-> IF Place(s) < MaxActive THEN Running ELSE NoWorker]
  /\ connected = TRUE /\ tripped = FALSE
  /\ pc = "idle" /\ todo = {} /\ cands = <<>> /\ free = 0 /\ at = Markets[1]
  /\ ops = MaxOps /\ drained = {} /\ beside = 0

-----------------------------------------------------------------------------
(* The cycle *)

Active(s) == worker[s].enabled /\ ~worker[s].draining

\* Mutant: a pair that drains no longer counts.
OccupiedActive(w) == Cardinality({s \in Symbols : w[s].enabled /\ ~w[s].draining})

\* Slots in use: pairs that are enabled, unless they drain and are flat.
Occupied(w) ==
  Cardinality({s \in Symbols : w[s].enabled /\ (w[s].draining => w[s].pos)})

\* Mutant: more slots in use than there are leave a negative number.
AvailableBare(w) == MaxActive - Occupied(w)

Available(w) == Clamp(0, MaxActive - Occupied(w), MaxActive)

\* The cycle is over; what it knew is forgotten.
End ==
  /\ pc' = "idle" /\ cands' = <<>> /\ free' = 0 /\ at' = Markets[1]
  /\ drained' = {} /\ beside' = 0

Begin ==
  /\ pc = "idle" /\ connected
  /\ pc' = "retire" /\ todo' = {s \in Symbols : worker[s].known}
  /\ UNCHANGED <<worker, connected, tripped, cands, free, at, drained, ops, beside>>

Retires(s) == worker[s].draining /\ ~worker[s].pos

\* Mutant: the pair is disabled and its worker runs on.
VisitDisables(s) ==
  /\ pc = "retire" /\ s \in todo /\ Retires(s) /\ todo' = todo \ {s}
  /\ worker' = [worker EXCEPT ![s].enabled = FALSE]
  /\ UNCHANGED <<connected, tripped, pc, cands, free, at, drained, ops, beside>>

\* Step 1, as far as the next worker that drains and is flat, past some that do not:
\* it is stopped and its pair disabled.
Visit(s) ==
  /\ pc = "retire" /\ s \in todo /\ Retires(s)
  /\ \E passed \in SUBSET {t \in todo : ~Retires(t)} : todo' = todo \ (passed \cup {s})
  /\ worker' = [worker EXCEPT ![s].enabled = FALSE, ![s].running = FALSE]
  /\ pc' = "stopping" /\ at' = s
  /\ UNCHANGED <<connected, tripped, cands, free, drained, ops, beside>>

\* worker.stop has cancelled what still rested.
Stopped ==
  /\ pc = "stopping"
  /\ worker' = [worker EXCEPT ![at].quotes = FALSE]
  /\ pc' = "retire" /\ at' = Markets[1]
  /\ UNCHANGED <<connected, tripped, todo, cands, free, drained, ops, beside>>

Visited ==
  /\ pc = "retire" /\ ~\E s \in todo : Retires(s)
  /\ pc' = "scan" /\ todo' = {}
  /\ UNCHANGED <<worker, connected, tripped, cands, free, at, drained, ops, beside>>

Rank(ranked, s) ==
  IF \E r \in DOMAIN ranked : ranked[r] = s THEN CHOOSE r \in DOMAIN ranked : ranked[r] = s
  ELSE 999

\* By a tenth of its score (of at least one) or more, t is ahead of what s scores.
Ahead(f, t, s) ==
  LET own == IF Qualified(f[s]) THEN Score(f, s) ELSE 0
  IN 10 * (Score(f, t) - own) >= Clamp(100, own, 10000)

\* Mutant: the last rank inside is outside.
EvictEarly(f, ranked, s) == Rank(ranked, s) >= MaxActive

\* Step 3, the hysteresis: beyond the buffer, or beyond the slots and well behind the
\* last candidate inside.
Evict(f, ranked, s) ==
  \/ Rank(ranked, s) > RankThreshold
  \/ /\ Rank(ranked, s) > MaxActive
     /\ Len(ranked) >= MaxActive /\ Ahead(f, ranked[MaxActive], s)

\* What a scan may answer: the candidates, and the pairs it would have drained.
Scans ==
  {LET ranked == scan_and_rank_all_pairs(f)
   IN [ranked |-> ranked, evict |-> {s \in Symbols : Evict(f, ranked, s)}]
     : f \in [Symbols -> Profiles]}

\* Steps 2 to 4 up to the first promotion: no candidates, no changes.
Scanned ==
  /\ pc = "scan"
  /\ UNCHANGED <<connected, tripped, todo, ops>>
  /\ \E scan \in Scans :
       LET out == {s \in scan.evict : Active(s)}
           w   == [s \in Symbols |-> IF s \in out THEN [worker[s] EXCEPT !.draining = TRUE]
                                     ELSE worker[s]]
       IN IF scan.ranked = <<>>
            THEN End /\ UNCHANGED worker
            ELSE /\ pc' = "promote" /\ cands' = scan.ranked
                 /\ drained' = out /\ worker' = w /\ free' = Available(w)
                 /\ UNCHANGED <<at, beside>>

\* register_dynamic_pair of the next candidate: it takes a slot whether its worker is
\* started, runs already or refuses because it is locked.
Promote ==
  /\ pc = "promote" /\ free > 0 /\ cands # <<>>
  /\ LET s == Head(cands)
     IN IF Active(s) \/ ~connected
          THEN cands' = Tail(cands) /\ UNCHANGED <<worker, free, at, pc>>
          ELSE /\ worker' = [worker EXCEPT ![s].known = TRUE, ![s].enabled = TRUE,
                                           ![s].draining = FALSE]
               /\ cands' = Tail(cands)
               /\ IF worker[s].locked \/ worker[s].running
                    THEN free' = free - 1 /\ UNCHANGED <<at, pc>>
                    ELSE pc' = "starting" /\ at' = s /\ UNCHANGED free
  /\ UNCHANGED <<connected, tripped, todo, drained, ops, beside>>

\* worker.start has set the symbol up and reconciled.
Started ==
  /\ pc = "starting"
  /\ worker' = [worker EXCEPT ![at].running = TRUE]
  /\ pc' = "promote" /\ free' = free - 1 /\ at' = Markets[1]
  /\ UNCHANGED <<connected, tripped, todo, cands, drained, ops, beside>>

\* It raises: the cycle ends, the loop tries again later.
StartFailed ==
  /\ pc = "starting" /\ ops > 0 /\ ops' = ops - 1
  /\ End
  /\ UNCHANGED <<worker, connected, tripped, todo>>

Finished ==
  /\ pc = "promote" /\ (free = 0 \/ cands = <<>>)
  /\ End
  /\ UNCHANGED <<worker, connected, tripped, todo, ops>>

CycleStep ==
  \/ Begin \/ Stopped \/ Visited \/ Scanned \/ Promote \/ Started \/ Finished
  \/ \E s \in Symbols : Visit(s)

-----------------------------------------------------------------------------
(* Everybody else, while the cycle awaits *)

Awaiting == pc \in {"idle", "stopping", "scan", "starting"}

\* What concerns the whole account spends the bound at once.
SpendAll == ops > 0 /\ ops = MaxOps /\ ops' = 0

\* A step of others: it spends the bound's operations and may take slots.
Beside(w, cost) ==
  /\ Awaiting /\ ops >= cost /\ ops' = ops - cost
  /\ worker' = w
  /\ beside' = IF pc = "starting" /\ Occupied(w) > Occupied(worker)
               THEN beside + Occupied(w) - Occupied(worker) ELSE beside
  /\ UNCHANGED <<connected, tripped, cycle>>

\* _requote and a trade: draining pairs place nothing new.
Quoted(s) ==
  /\ worker[s].running /\ Active(s) /\ ~worker[s].locked /\ ~worker[s].quotes
  /\ Beside([worker EXCEPT ![s].quotes = TRUE], 0)

Filled(s) ==
  /\ worker[s].quotes
  /\ Beside([worker EXCEPT ![s].pos = TRUE, ![s].quotes = FALSE], 0)

\* The quotes of a pair that drains are cancelled in the background.
Cancelled(s) ==
  /\ worker[s].draining /\ worker[s].quotes
  /\ Beside([worker EXCEPT ![s].quotes = FALSE], 0)

\* Its barrier closes the position.
Closed(s) ==
  /\ worker[s].pos /\ worker[s].running
  /\ Beside([worker EXCEPT ![s].pos = FALSE], 0)

\* start_pair: is_draining stays what it was.
StartPair(s) ==
  /\ ~tripped /\ connected /\ worker[s].known
  /\ Beside([worker EXCEPT ![s].enabled = TRUE, ![s].running = @ \/ ~worker[s].locked], 1)

\* stop_pair
StopPair(s) ==
  /\ worker[s].known
  /\ Beside([worker EXCEPT ![s].enabled = FALSE, ![s].running = FALSE, ![s].quotes = FALSE], 1)

\* drain_and_retire_pair
DrainPair(s) ==
  /\ worker[s].known
  /\ Beside(IF worker[s].pos THEN [worker EXCEPT ![s].draining = TRUE]
            ELSE [worker EXCEPT ![s].draining = TRUE, ![s].enabled = FALSE,
                                ![s].running = FALSE, ![s].quotes = FALSE], 1)

\* The isolated kill switch of a running pair, or of one whose start arms its barriers:
\* it is locked and disabled, its quotes are cancelled and its position is closed, unless
\* the market order fails, whose answer nobody reads.
Lock(s) ==
  /\ ~worker[s].locked /\ (worker[s].running \/ (pc = "starting" /\ at = s))
  /\ \E held \in {worker[s].pos, FALSE} :
       Beside([worker EXCEPT ![s].locked = TRUE, ![s].enabled = FALSE, ![s].running = FALSE,
                             ![s].pos = held, ![s].quotes = FALSE], 1)

\* unlock_pair
Unlock(s) ==
  /\ worker[s].locked
  /\ Beside([worker EXCEPT ![s].locked = FALSE, ![s].enabled = TRUE, ![s].running = TRUE], 0)

\* The account's breaker trips and the kill-all stops and closes every pair.
Trip ==
  /\ Awaiting /\ SpendAll /\ ~tripped /\ tripped' = TRUE
  /\ worker' = [s \in Symbols |-> [worker[s] EXCEPT !.running = FALSE, !.pos = FALSE,
                                                    !.quotes = FALSE]]
  /\ UNCHANGED <<connected, cycle, beside>>

Reset ==
  /\ Awaiting /\ tripped /\ tripped' = FALSE
  /\ UNCHANGED <<worker, connected, cycle, ops, beside>>

\* The gateway's connection is lost, and found again.
Disconnect ==
  /\ Awaiting /\ connected /\ SpendAll
  /\ connected' = FALSE
  /\ UNCHANGED <<worker, tripped, cycle, beside>>

Connect ==
  /\ Awaiting /\ ~connected /\ connected' = TRUE
  /\ UNCHANGED <<worker, tripped, cycle, ops, beside>>

Others ==
  \/ StartFailed \/ Trip \/ Reset \/ Disconnect \/ Connect
  \/ \E s \in Symbols :
       \/ Quoted(s) \/ Filled(s) \/ Cancelled(s) \/ Closed(s)
       \/ StartPair(s) \/ StopPair(s) \/ DrainPair(s) \/ Lock(s) \/ Unlock(s)

Next == CycleStep \/ Others

Spec == Init /\ [][Next]_vars

\* The loop comes back after every cycle, whatever it raised, and what it awaits answers.
FairSpec == Spec /\ WF_vars(CycleStep)

-----------------------------------------------------------------------------
(* Properties *)

\* Every variable keeps its type, and nothing runs that nobody registered.
TypeOK ==
  /\ worker \in [Symbols -> [known : BOOLEAN, enabled : BOOLEAN, draining : BOOLEAN,
                             running : BOOLEAN, locked : BOOLEAN, pos : BOOLEAN,
                             quotes : BOOLEAN]]
  /\ \A s \in Symbols : worker[s].running => worker[s].known
  /\ connected \in BOOLEAN /\ tripped \in BOOLEAN
  /\ pc \in {"idle", "retire", "stopping", "scan", "promote", "starting"}
  /\ {todo, drained} \subseteq SUBSET Symbols /\ at \in Symbols /\ cands \in Seq(Symbols)
  /\ free \in 0..MaxActive /\ ops \in 0..MaxOps /\ beside \in Nat

\* A promotion never takes the pairs that may open positions or hold one beyond the slots
\* of the portfolio, but for what others started or filled since the slots were counted.
SlotsBounded ==
  [][pc = "promote" /\ worker' # worker =>
       Cardinality({s \in Symbols : LET w == worker'[s]
                                    IN w.enabled /\ (~w.draining \/ w.pos)})
         <= MaxActive + beside]_vars

\* A pair drained for its rank is not promoted again by the same cycle: enough better
\* ones are left for the slots, as long as nobody else fills them meanwhile.
NoChurn ==
  [][\A s \in drained : beside = 0 /\ worker[s].draining => worker'[s].draining]_vars

\* A pair that drains and is flat gets its worker stopped, unless it is promoted again,
\* trades once more or the gateway is down: no slot is held by a pair that does nothing.
DrainEnds ==
  \A s \in Symbols :
    worker[s].draining /\ worker[s].running /\ ~worker[s].pos
      ~> (~worker[s].running \/ ~worker[s].draining \/ worker[s].pos \/ ~connected)

-----------------------------------------------------------------------------
(* Refuted *)

\* A retired pair holds nothing.
RetiredHoldsNothing ==
  \A s \in Symbols : worker[s].draining /\ ~worker[s].running => ~worker[s].pos

\* A tripped breaker keeps the rebalancer from starting pairs.
TrippedStartsNothing ==
  [][\A s \in Symbols : tripped /\ ~worker[s].running => ~worker'[s].running]_vars

\* A cycle that has given every free slot away leaves all of them in use.
SlotsFilled ==
  [][pc = "promote" /\ pc' = "promote" /\ free' = 0 /\ free = 1
       => Occupied(worker') >= MaxActive]_vars
=============================================================================
