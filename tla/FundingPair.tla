----------------------------- MODULE FundingPair -----------------------------
(***************************************************************************)
(* One pair of the funding-rate arbitrage, app/core/fr_execution/: a long  *)
(* leg on one exchange and a short leg on the other.  The engine opens     *)
(* both legs at once and rolls one back when the other fails; policies run *)
(* under a lock per symbol, the manual close, the reconcile loop and the   *)
(* emergency kill-all run beside it.  Each leg has an exchange of its own, *)
(* which the tracker knows by a label; sizes are lots, prices and margins  *)
(* are inputs.                                                             *)
(***************************************************************************)
EXTENDS Integers, FiniteSets

CONSTANTS
  Policies,    \* coroutines that run policies: the polling loop, the poll button
  Actions,     \* which of OPEN, HOLD, REDUCE, EXIT, PAUSE the decision layer sends
  Qty,         \* lots of an OPEN
  Keep,        \* lots a REDUCE leaves
  MaxOpens,    \* bound: OPEN policies
  MaxFaults,   \* bound: orders that fail or go unanswered, queries that fail
  MaxCrashes,  \* bound: crashes
  MaxManual,   \* bound: uses of the close button
  Kills, Leaves,  \* a run has a kill-all, a decision layer that wants out
  Crossed,        \* the pair is long on Bybit and short on Binance
  Indexed         \* positions that Bybit reports carry their positionIdx

ASSUME PolicyAssumption == Policies \cap {"manual", "nobody"} = {}
ASSUME QtyAssumption   == Qty \in Nat \ {0} /\ Keep \in 1..Qty
ASSUME BoundAssumption == {MaxOpens, MaxFaults, MaxCrashes, MaxManual} \subseteq Nat
ASSUME FlagAssumption  == {Kills, Leaves, Crossed, Indexed} \subseteq BOOLEAN
ASSUME ActionAssumption == Actions \subseteq {"OPEN", "HOLD", "REDUCE", "EXIT", "PAUSE"}

VARIABLES
  held,    \* exchanges: lots of each leg
  ghost,   \* exchanges: legs whose order the engine gave up and that may yet fill
  size,    \* FRPositionTracker: lots of each leg
  status,  \* FRPositionTracker: status of the pair
  home,    \* FRPositionTracker: the exchange each leg is labelled with
  switch,  \* ThreeTierKillSwitch: paused, tripped (exchanges), global
  run,     \* what each coroutine does with the pair
  lock,    \* _execution_locks[symbol]: who holds it
  recon,   \* _reconciliation_loop
  kill,    \* emergency_kill_all
  book     \* history: bounds, excuses, and what properties compare with

exchangeVars == <<held, ghost>>
trackerVars  == <<size, status, home>>
vars == <<exchangeVars, trackerVars, switch, run, lock, recon, kill, book>>

Legs    == {"long", "short"}
Runners == Policies \cup {"manual"}
Nobody  == "nobody"
None    == [l \in Legs |-> 0]

\* Where the legs are, where get_or_create_position puts a pair by default, and the
\* labels of a pair that the tracker does not know.
Default == [l \in Legs |-> IF l = "long" THEN "binance" ELSE "bybit"]
Venue   == IF Crossed THEN [l \in Legs |-> IF l = "long" THEN "bybit" ELSE "binance"] ELSE Default
Nowhere == [l \in Legs |-> "none"]

\* The leg on exchange x.
At(x) == IF Venue["long"] = x THEN "long" ELSE "short"

First(S) == IF "long" \in S THEN "long" ELSE "short"
Larger(m, n) == IF m > n THEN m ELSE n

\* todo: legs not answered yet; ok: legs whose order succeeded; want: lots of each leg;
\* astray: the labels send the orders to the wrong exchanges.
IdleTask == [pc |-> "idle", act |-> "EXIT", todo |-> {}, ok |-> {}, want |-> None,
             astray |-> FALSE]

NoSwitch == [paused |-> FALSE, tripped |-> {}, global |-> FALSE]
NoRecon  == [pc |-> "idle", seen |-> None]
NoKill   == [pc |-> "off", leg |-> At("binance"), seen |-> None]

Init ==
  /\ held = None /\ ghost = {}
  /\ size = None /\ status = "FLAT" /\ home = Nowhere /\ switch = NoSwitch
  /\ run = [r \in Runners |-> IdleTask] /\ lock = Nobody
  /\ recon = NoRecon /\ kill = NoKill
  /\ book = [faults |-> 0, opens |-> 0, crashes |-> 0, manual |-> 0, leaving |-> FALSE,
             excuses |-> {}, owed |-> None]

Faulty   == book.faults < MaxFaults
Fault(b) == [b EXCEPT !.faults = @ + 1]

\* Why tracker and exchanges may disagree: a query failed, an order filled unseen, an
\* answer was old or came amid an order, an open went on top of what was left or ran
\* beside the close button, which does not take the lock, an exit or a reduce that was
\* filled in part is booked in full.
Excuses == {"blind", "unseen", "stale", "over", "beside", "part"}
Excuse(b, e) == [b EXCEPT !.excuses = @ \cup {e}]

\* What is held changes: the kill-all owes what has been open ever since it began.
Hold(b, h) == [b EXCEPT !.owed = [l \in Legs |-> IF @[l] > h[l] THEN h[l] ELSE @[l]]]

-----------------------------------------------------------------------------
(* The gateway *)

\* fetch_positions answers n lots of leg l; a failure is an empty list.
Query(l, n) ==
  \/ n = held[l] /\ UNCHANGED book
  \/ /\ held[l] > 0 /\ n = 0 /\ Faulty
     /\ book' = Fault(Excuse(book, "blind"))

\* A market order opens leg l: filled, whole or in part, with the lots c it confirms;
\* refused; filled without an answer; or cut off by the timeout.
OpenOrder(l, ok, c) ==
  \/ /\ ok /\ c = Qty
     /\ held' = [held EXCEPT ![l] = @ + Qty]
     /\ UNCHANGED <<ghost, book>>
  \/ /\ ok /\ Faulty
     /\ \E k \in 1..(Qty - 1) :
          c \in {k, Qty} /\ held' = [held EXCEPT ![l] = @ + k]
     /\ book' = Fault(Excuse(book, "unseen"))
     /\ UNCHANGED ghost
  \/ /\ ~ok /\ c = 0 /\ Faulty /\ book' = Fault(book)
     /\ UNCHANGED <<held, ghost>>
  \/ /\ ~ok /\ c = 0 /\ Faulty
     /\ held' = [held EXCEPT ![l] = @ + Qty]
     /\ book' = Fault(Excuse(book, "unseen"))
     /\ UNCHANGED ghost
  \/ /\ ~ok /\ c = 0 /\ Faulty /\ book' = Fault(book)
     /\ ghost' = ghost \cup {l} /\ UNCHANGED held

\* A market order for n lots of leg l, without reduceOnly: filled, whole or in part (the
\* answer is the same, and callers that do not look again, E, earn an excuse); refused;
\* filled without an answer.  In hedge mode no more can be closed than there is.
CloseOrder(l, n, ok, E) ==
  /\ UNCHANGED ghost
  /\ \/ /\ ok /\ n <= held[l]
        /\ held' = [held EXCEPT ![l] = @ - n]
        /\ book' = Hold(book, held')
     \/ /\ ok /\ Faulty /\ n <= held[l]
        /\ \E k \in 0..(n - 1) : held' = [held EXCEPT ![l] = @ - k]
        /\ book' = Fault([Hold(book, held') EXCEPT !.excuses = @ \cup E])
     \/ ~ok /\ n > held[l] /\ UNCHANGED <<held, book>>
     \/ ~ok /\ Faulty /\ book' = Fault(book) /\ UNCHANGED held
     \/ /\ ~ok /\ Faulty /\ n <= held[l]
        /\ held' = [held EXCEPT ![l] = @ - n]
        /\ book' = Fault(Excuse(Hold(book, held'), "unseen"))

\* An order that was given up fills after all, or never.
GhostEnds(l) ==
  /\ l \in ghost
  /\ ghost' = ghost \ {l}
  /\ \/ UNCHANGED <<held, book>>
     \/ /\ held' = [held EXCEPT ![l] = @ + Qty]
        /\ book' = Excuse(book, "unseen")
  /\ UNCHANGED <<trackerVars, switch, run, lock, recon, kill>>

-----------------------------------------------------------------------------
(* execute_policy *)

Set(r, task) == run' = [run EXCEPT ![r] = task]

\* The handler returns; `async with` gives the lock back.
Return(r) ==
  /\ Set(r, IdleTask)
  /\ lock' = IF lock = r THEN Nobody ELSE lock

\* is_execution_allowed(symbol): the engine passes no exchange.
Allowed == ~switch.global /\ ~switch.paused

\* The switch is asked before the lock is.
Ask(r, a) ==
  /\ run[r].pc = "idle" /\ Allowed
  /\ book.leaving => a = "EXIT"
  /\ a = "OPEN" => book.opens < MaxOpens
  /\ Set(r, [IdleTask EXCEPT !.pc = "wait", !.act = a])
  /\ book' = IF a = "OPEN" THEN [book EXCEPT !.opens = @ + 1] ELSE book
  /\ UNCHANGED <<exchangeVars, trackerVars, switch, lock, recon, kill>>

\* The lock is granted; get_or_create_position keeps the labels of a pair it knows.
Granted(r, a) ==
  /\ run[r].pc = "wait" /\ run[r].act = a /\ lock = Nobody
  /\ home' = IF home = Nowhere THEN Venue ELSE home

\* _handle_open
AlreadyOpen == status = "OPEN" /\ \A l \in Legs : size[l] > 0

StartOpen(r) ==
  /\ Granted(r, "OPEN")
  /\ IF AlreadyOpen
       THEN Return(r)
       ELSE lock' = r /\ Set(r, [IdleTask EXCEPT !.pc = "check"])
  /\ UNCHANGED <<exchangeVars, size, status, switch, recon, kill, book>>

\* Margins and prices are there: nothing is sent if they do not suffice; otherwise
\* both orders are.
CheckOpen(r) ==
  /\ run[r].pc = "check"
  /\ \/ Return(r) /\ UNCHANGED <<status, book>>
     \/ /\ Set(r, [run[r] EXCEPT !.pc = "open", !.todo = Legs])
        /\ status' = "OPENING"
        /\ book' = LET b == IF held = None THEN book ELSE Excuse(book, "over")
                   IN IF run["manual"].pc = "idle" THEN b ELSE Excuse(b, "beside")
        /\ UNCHANGED lock
  /\ UNCHANGED <<exchangeVars, size, home, switch, recon, kill>>

OpenLeg(r, l) ==
  /\ run[r].pc = "open" /\ l \in run[r].todo
  /\ \E ok \in BOOLEAN, c \in 0..Qty :
       /\ OpenOrder(l, ok, c)
       /\ Set(r, [run[r] EXCEPT !.todo = @ \ {l}, !.want[l] = c,
                                !.ok = IF ok THEN @ \cup {l} ELSE @])
  /\ UNCHANGED <<trackerVars, switch, lock, recon, kill>>

\* The legs the rollback measures: the one that was confirmed; both if none was.
Measured(ok) == IF ok = {} THEN Legs ELSE ok

OpenEnds(r) ==
  /\ run[r].pc = "open" /\ run[r].todo = {}
  /\ IF run[r].ok = Legs
       THEN /\ size' = [l \in Legs |-> Qty] /\ status' = "OPEN" /\ home' = Venue
            /\ Return(r)
       ELSE /\ Set(r, [run[r] EXCEPT !.pc = "measure", !.todo = Measured(run[r].ok)])
            /\ UNCHANGED <<trackerVars, lock>>
  /\ UNCHANGED <<exchangeVars, switch, recon, kill, book>>

\* The rollback is over, or goes on with the legs todo.
RolledBack(r, pc, todo, want) ==
  IF todo = {} THEN status' = "FLAT" /\ Return(r)
  ELSE Set(r, [run[r] EXCEPT !.pc = pc, !.todo = todo, !.want = want])
       /\ UNCHANGED <<status, lock>>

\* _actual_leg_size: the larger of what was confirmed and what the exchange reports.
Measure(r) ==
  LET l == First(run[r].todo)
  IN /\ run[r].pc = "measure" /\ run[r].todo # {}
     /\ \E n \in 0..held[l] :
          /\ Query(l, n)
          /\ LET want == [run[r].want EXCEPT ![l] = Larger(@, n)]
                 left == run[r].todo \ {l}
             IN IF left # {} THEN RolledBack(r, "measure", left, want)
                ELSE RolledBack(r, "close", {k \in Legs : want[k] > 0}, want)
     /\ UNCHANGED <<exchangeVars, size, home, switch, recon, kill>>

CloseBack(r) ==
  LET l == First(run[r].todo)
  IN /\ run[r].pc = "close"
     /\ \E ok \in BOOLEAN : CloseOrder(l, run[r].want[l], ok, {})
     /\ Set(r, [run[r] EXCEPT !.pc = "residual"])
     /\ UNCHANGED <<trackerVars, switch, lock, recon, kill>>

\* Mutant: what is left after the rollback trips nothing.
TripNone(l, n) == switch.tripped

\* The exchanges that are tripped when n lots are left on leg l.
Tripped(l, n) == IF n > 0 THEN switch.tripped \cup {l} ELSE switch.tripped

Residual(r) ==
  LET l == First(run[r].todo)
  IN /\ run[r].pc = "residual"
     /\ \E n \in 0..held[l] :
          /\ Query(l, n)
          /\ switch' = [switch EXCEPT !.tripped = Tripped(l, n)]
     /\ RolledBack(r, "close", run[r].todo \ {l}, run[r].want)
     /\ UNCHANGED <<exchangeVars, size, home, recon, kill>>

\* _handle_exit, up to its first await.
BeginExit(r) ==
  IF size = None
    THEN status' = "FLAT" /\ Return(r)
    ELSE LET open == {l \in Legs : size[l] > 0}
         IN /\ status' = "CLOSING"
            /\ Set(r, [IdleTask EXCEPT !.pc = "exit", !.todo = open, !.want = size,
                                     !.ok = Legs \ open, !.astray = home # Venue])
            /\ lock' = IF r \in Policies THEN r ELSE lock

StartExit(r) ==
  /\ Granted(r, "EXIT") /\ BeginExit(r)
  /\ UNCHANGED <<exchangeVars, size, switch, recon, kill, book>>

\* manual_close_pair of a pair the tracker knows: without the lock.
ManualExit ==
  /\ book.manual < MaxManual /\ run["manual"].pc = "idle" /\ home # Nowhere
  /\ BeginExit("manual")
  /\ book' = LET b == [book EXCEPT !.manual = @ + 1]
             IN IF lock = Nobody THEN b ELSE Excuse(b, "beside")
  /\ UNCHANGED <<exchangeVars, size, home, switch, recon, kill>>

\* On an exchange that does not hold the leg the order is refused.
CloseLeg(r, l) ==
  /\ run[r].pc \in {"exit", "reduce"} /\ l \in run[r].todo
  /\ \E ok \in BOOLEAN :
       /\ IF run[r].astray THEN ~ok /\ UNCHANGED <<exchangeVars, book>>
          ELSE CloseOrder(l, run[r].want[l], ok, {"part"})
       /\ Set(r, [run[r] EXCEPT !.todo = @ \ {l}, !.ok = IF ok THEN @ \cup {l} ELSE @])
  /\ UNCHANGED <<trackerVars, switch, lock, recon, kill>>

StatusAfterExit(ok) == IF ok = Legs THEN "FLAT" ELSE "CLOSING"

ExitEnds(r) ==
  /\ run[r].pc = "exit" /\ run[r].todo = {}
  /\ size' = [l \in Legs |-> IF l \in run[r].ok THEN 0 ELSE size[l]]
  /\ status' = StatusAfterExit(run[r].ok)
  /\ Return(r)
  /\ UNCHANGED <<exchangeVars, home, switch, recon, kill, book>>

\* _handle_hold: prices are asked for; a loss beyond the stop loss becomes an exit.
StartHold(r) ==
  /\ Granted(r, "HOLD")
  /\ lock' = r /\ Set(r, [IdleTask EXCEPT !.pc = "hold"])
  /\ UNCHANGED <<exchangeVars, size, status, switch, recon, kill, book>>

HoldEnds(r) ==
  /\ run[r].pc = "hold"
  /\ \/ Return(r) /\ UNCHANGED status
     \/ BeginExit(r)
  /\ UNCHANGED <<exchangeVars, size, home, switch, recon, kill, book>>

\* _handle_reduce: the same lots of both legs.
\* Mutant: a pair below its target is reduced as well.
ExcessBare(n) == n - Keep

Excess(n) == Larger(0, n - Keep)

StartReduce(r) ==
  LET least == IF size["long"] < size["short"] THEN size["long"] ELSE size["short"]
  IN /\ Granted(r, "REDUCE")
     /\ IF Excess(least) = 0 THEN Return(r)
        ELSE /\ lock' = r
             /\ Set(r, [IdleTask EXCEPT !.pc = "reduce", !.todo = Legs,
                                        !.want = [l \in Legs |-> Excess(least)],
                                        !.astray = home' # Venue])
     /\ UNCHANGED <<exchangeVars, size, status, switch, recon, kill, book>>

ReduceEnds(r) ==
  /\ run[r].pc = "reduce" /\ run[r].todo = {}
  /\ size' = [l \in Legs |->
                IF l \in run[r].ok THEN Larger(0, size[l] - run[r].want[l]) ELSE size[l]]
  /\ Return(r)
  /\ UNCHANGED <<exchangeVars, status, home, switch, recon, kill, book>>

\* _handle_pause: the symbol is paused, then orders are cancelled; none rests.
StartPause(r) ==
  /\ Granted(r, "PAUSE")
  /\ switch' = [switch EXCEPT !.paused = TRUE]
  /\ lock' = r /\ Set(r, [IdleTask EXCEPT !.pc = "cancel"])
  /\ UNCHANGED <<exchangeVars, size, status, recon, kill, book>>

PauseEnds(r) ==
  /\ run[r].pc = "cancel" /\ Return(r)
  /\ UNCHANGED <<exchangeVars, trackerVars, switch, recon, kill, book>>

\* The button that pauses and resumes.
TogglePause ==
  /\ switch' = [switch EXCEPT !.paused = ~@]
  /\ UNCHANGED <<exchangeVars, trackerVars, run, lock, recon, kill, book>>

-----------------------------------------------------------------------------
(* The reconcile loop *)

StatusOf(s) ==
  CASE \A l \in Legs : s[l] > 0 -> "OPEN"
    [] s = None                 -> "FLAT"
    [] OTHER                    -> "OPENING"

\* The side that is read off the position of leg l: without an index a position on Bybit
\* is short unless its side is BUY, a word the gateway's positions do not use.
ReadSide(l) == IF Venue[l] = "bybit" /\ ~Indexed THEN "short" ELSE l

\* The tracker takes an answer for its leg s: it is listed where h says that the leg is,
\* and on that side.
Takes(h, s, seen) == seen[At(h[s])] > 0 /\ ReadSide(At(h[s])) = s

\* Mutant: a pair the tracker does not know is not adopted.
AdoptedKnown(h, seen) ==
  [s \in Legs |-> IF size # None /\ Takes(h, s, seen) THEN seen[At(h[s])] ELSE size[s]]

\* The lots of the legs, those the tracker takes an answer for updated.
Adopted(h, seen) == [s \in Legs |-> IF Takes(h, s, seen) THEN seen[At(h[s])] ELSE size[s]]

\* reconcile_with_exchange_positions: a pair that is listed but not known becomes known,
\* with the default labels.
Reconcile(seen) ==
  LET h == IF home = Nowhere /\ seen # None THEN Default ELSE home
  IN /\ home' = h
     /\ size' = Adopted(h, seen)
     /\ status' = IF \E s \in Legs : Takes(h, s, seen) THEN StatusOf(size') ELSE status

\* No order of the pair is on its way.
Quiet == lock = Nobody /\ run["manual"].pc = "idle"

\* An answer that is older than a change of the pair, or applied amid one.
Aged(b, seen) == IF seen = held /\ Quiet THEN b ELSE Excuse(b, "stale")

\* The answer about the leg on exchange x.
Asked(x) ==
  LET l == At(x)
  IN \E n \in 0..held[l] :
       Query(l, n) /\ recon' = [pc |-> x, seen |-> [recon.seen EXCEPT ![l] = n]]

ReconBinance ==
  /\ recon.pc = "idle" /\ Asked("binance")
  /\ UNCHANGED <<exchangeVars, trackerVars, switch, run, lock, kill>>

ReconBybit ==
  /\ recon.pc = "binance" /\ Asked("bybit")
  /\ UNCHANGED <<exchangeVars, trackerVars, switch, run, lock, kill>>

ReconApply ==
  /\ recon.pc = "bybit"
  /\ Reconcile(recon.seen)
  /\ recon' = NoRecon
  /\ book' = Aged(book, recon.seen)
  /\ UNCHANGED <<exchangeVars, switch, run, lock, kill>>

-----------------------------------------------------------------------------
(* emergency_kill_all, beside the lock of the symbol *)

KillBegins ==
  /\ Kills /\ kill.pc = "off"
  /\ kill' = [NoKill EXCEPT !.pc = "fetch"]
  /\ switch' = [switch EXCEPT !.global = TRUE]
  /\ book' = [book EXCEPT !.owed = held]
  /\ UNCHANGED <<exchangeVars, trackerVars, run, lock, recon>>

\* After the leg on Binance comes the one on Bybit, after the closes the confirmation.
NextLeg(pc, after) ==
  IF kill.leg = At("binance") THEN [kill EXCEPT !.pc = pc, !.leg = At("bybit")]
  ELSE [kill EXCEPT !.pc = after, !.leg = At("binance")]

KillFetches ==
  /\ kill.pc = "fetch"
  /\ \E n \in 0..held[kill.leg] :
       /\ Query(kill.leg, n)
       /\ kill' = IF n > 0 THEN [kill EXCEPT !.pc = "close", !.seen[kill.leg] = n]
                  ELSE NextLeg("fetch", "confirm")
  /\ UNCHANGED <<exchangeVars, trackerVars, switch, run, lock, recon>>

\* Without an index a position on Bybit is closed as a long one; the exchange refuses to
\* if it is short.
KillCloses ==
  /\ kill.pc = "close"
  /\ IF Venue[kill.leg] = "bybit" /\ kill.leg = "short" /\ ~Indexed
       THEN UNCHANGED <<exchangeVars, book>>
       ELSE \E ok \in BOOLEAN : CloseOrder(kill.leg, kill.seen[kill.leg], ok, {})
  /\ kill' = NextLeg("fetch", "confirm")
  /\ UNCHANGED <<trackerVars, switch, run, lock, recon>>

KillConfirms ==
  /\ kill.pc = "confirm"
  /\ \E n \in 0..held[kill.leg] :
       /\ Query(kill.leg, n)
       /\ kill' = [NextLeg("confirm", "report") EXCEPT !.seen[kill.leg] = n]
  /\ UNCHANGED <<exchangeVars, trackerVars, switch, run, lock, recon>>

\* Mutant: the report does not look at what remains.
VerdictBlind(seen) == "COMPLETED"

Verdict(seen) == IF seen = None THEN "COMPLETED" ELSE "PARTIAL_REMAINING"

KillReports ==
  /\ kill.pc = "report"
  /\ Reconcile(kill.seen)
  /\ kill' = [kill EXCEPT !.pc = Verdict(kill.seen)]
  /\ book' = Aged(book, kill.seen)
  /\ UNCHANGED <<exchangeVars, switch, run, lock, recon>>

-----------------------------------------------------------------------------
\* Nothing of the pair is kept on disk; an order on its way may fill later.
Crash ==
  /\ book.crashes < MaxCrashes
  /\ size' = None /\ status' = "FLAT" /\ home' = Nowhere /\ switch' = NoSwitch
  /\ run' = [r \in Runners |-> IdleTask] /\ lock' = Nobody
  /\ recon' = NoRecon /\ kill' = NoKill
  /\ \E S \in SUBSET {l \in Legs : \E r \in Policies : run[r].pc = "open" /\ l \in run[r].todo} :
       ghost' = ghost \cup S
  /\ book' = Excuse([book EXCEPT !.crashes = @ + 1], "unseen")
  /\ UNCHANGED held

\* From now on the decision layer wants the pair closed.
Leave ==
  /\ Leaves /\ ~book.leaving
  /\ book' = [book EXCEPT !.leaving = TRUE]
  /\ UNCHANGED <<exchangeVars, trackerVars, switch, run, lock, recon, kill>>

Start(r) == StartOpen(r) \/ StartExit(r) \/ StartHold(r) \/ StartReduce(r) \/ StartPause(r)

Proceed(r) ==
  \/ CheckOpen(r) \/ OpenEnds(r) \/ Measure(r) \/ CloseBack(r) \/ Residual(r)
  \/ ExitEnds(r) \/ HoldEnds(r) \/ ReduceEnds(r) \/ PauseEnds(r)
  \/ \E l \in Legs : OpenLeg(r, l) \/ CloseLeg(r, l)

ReconStep == ReconBinance \/ ReconBybit \/ ReconApply
KillStep  == KillFetches \/ KillCloses \/ KillConfirms \/ KillReports

Next ==
  \/ \E r \in Policies : Start(r) \/ \E a \in Actions : Ask(r, a)
  \/ \E r \in Runners : Proceed(r)
  \/ ManualExit \/ ("PAUSE" \in Actions /\ TogglePause)
  \/ ReconStep \/ KillBegins \/ KillStep
  \/ \E l \in Legs : GhostEnds(l)
  \/ Crash \/ Leave

Spec == Init /\ [][Next]_vars

(* One event loop and exchanges that answer: what may go on does.  A decision    *)
(* layer that wants out says so in every poll; asyncio.Lock is first come, first *)
(* served.                                                                       *)
Fairness ==
  /\ \A r \in Runners : WF_vars(Proceed(r))
  /\ \A r \in Policies : SF_vars(StartExit(r)) /\ WF_vars(Start(r))
                        /\ WF_vars(book.leaving /\ Ask(r, "EXIT"))
  /\ WF_vars(ReconStep) /\ WF_vars(KillStep)
  /\ \A l \in Legs : WF_vars(GhostEnds(l))
  /\ []<><<ReconApply /\ Quiet>>_vars

FairSpec == Spec /\ Fairness

-----------------------------------------------------------------------------
(* Properties *)

\* Every variable keeps its type.
TypeOK ==
  /\ held \in [Legs -> Nat] /\ ghost \subseteq Legs
  /\ size \in [Legs -> Nat] /\ status \in {"FLAT", "OPENING", "OPEN", "CLOSING"}
  /\ home \in {Nowhere, Default, Venue}
  /\ switch \in [paused : BOOLEAN, tripped : SUBSET Legs, global : BOOLEAN]
  /\ run \in [Runners -> [pc : {"idle", "wait", "check", "open", "measure", "close", "residual",
                                "exit", "hold", "reduce", "cancel"},
                          act : Actions \cup {"EXIT"}, todo : SUBSET Legs, ok : SUBSET Legs,
                          want : [Legs -> Nat], astray : BOOLEAN]]
  /\ lock \in Policies \cup {Nobody}
  /\ recon \in [pc : {"idle", "binance", "bybit"}, seen : [Legs -> Nat]]
  /\ kill \in [pc : {"off", "fetch", "close", "confirm", "report", "COMPLETED",
                     "PARTIAL_REMAINING"}, leg : Legs, seen : [Legs -> Nat]]
  /\ book \in [faults : 0..MaxFaults, opens : 0..MaxOpens, crashes : 0..MaxCrashes,
               manual : 0..MaxManual, leaving : BOOLEAN, excuses : SUBSET Excuses,
               owed : [Legs -> Nat]]

Working == ~Quiet \/ ghost # {} \/ kill.pc # "off"

Reported ==
  status \in {"OPENING", "CLOSING"} \/ switch.tripped # {} \/ size["long"] # size["short"]

\* Legging risk: when nothing is on its way both legs have the same size, or the tracker
\* or a tripped exchange says that they do not; an answer that failed, was lost, stale or
\* double, or an exit or reduce filled in part, excuses the difference.
NoNakedLeg == Working \/ book.excuses # {} \/ held["long"] = held["short"] \/ Reported

\* "Dual-Leg Position EXIT completed. Account is 100% FLAT.": an exit that ends with the
\* pair flat leaves nothing on the exchanges, whatever its orders were filled with.
ExitMeansFlat ==
  [][\A r \in Runners :
       ExitEnds(r) /\ status' = "FLAT" /\ book.excuses \subseteq {"part"} => held' = None]_vars

\* A kill-all that reports COMPLETED has closed what was open from its beginning to its
\* end, whatever policies and reconciles did beside it, unless a position query failed.
CompletedMeansClosed == kill.pc = "COMPLETED" /\ "blind" \notin book.excuses => book.owed = None

\* An open is sent only while no exchange of the pair is tripped, what
\* test_three_tier_kill_switch_hierarchy asks of the switch and the engine never does.
TrippedBlocksOpens ==
  [][\A r \in Policies : run[r].pc = "check" /\ run'[r].pc = "open" => switch.tripped = {}]_vars

\* When the decision layer keeps asking for an exit, the pair ends up closed: after failed
\* rollbacks and exits, partial and unseen fills, old answers, the close button and a
\* crash; only a paused symbol stays.
ExitPrevails == book.leaving ~> held = None \/ switch.paused
=============================================================================
