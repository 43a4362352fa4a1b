-------------------------- MODULE FundingPairProofs --------------------------
(***************************************************************************)
(* Theorems about FundingPair, for every set of policies, every size and   *)
(* every bound: its types, that a kill-all which reports COMPLETED has     *)
(* closed what it began with, and that a leg alone is always reported.     *)
(***************************************************************************)
EXTENDS FundingPair, TLAPS

-----------------------------------------------------------------------------
(* Types *)

Sizes      == [Legs -> Nat]
Homes      == {Nowhere, Default, Venue}
SwitchType == [paused : BOOLEAN, tripped : SUBSET Legs, global : BOOLEAN]
TaskType   == [pc : {"idle", "wait", "check", "open", "measure", "close", "residual",
                     "exit", "hold", "reduce", "cancel"},
               act : Actions \cup {"EXIT"}, todo : SUBSET Legs, ok : SUBSET Legs, want : Sizes,
               astray : BOOLEAN]
ReconType  == [pc : {"idle", "binance", "bybit"}, seen : Sizes]
KillType   == [pc : {"off", "fetch", "close", "confirm", "report", "COMPLETED",
                     "PARTIAL_REMAINING"}, leg : Legs, seen : Sizes]
BookType   == [faults : 0..MaxFaults, opens : 0..MaxOpens, crashes : 0..MaxCrashes,
               manual : 0..MaxManual, leaving : BOOLEAN, excuses : SUBSET Excuses,
               owed : Sizes]

\* The types of TypeOK by name.
LEMMA Types ==
  TypeOK <=> /\ held \in Sizes /\ ghost \subseteq Legs
             /\ size \in Sizes /\ status \in {"FLAT", "OPENING", "OPEN", "CLOSING"}
             /\ home \in Homes
             /\ switch \in SwitchType /\ run \in [Runners -> TaskType]
             /\ lock \in Policies \cup {Nobody}
             /\ recon \in ReconType /\ kill \in KillType /\ book \in BookType
BY DEF TypeOK, Sizes, Homes, SwitchType, TaskType, ReconType, KillType, BookType

\* The two legs are on two exchanges.
LEMMA AtLegs ==
  /\ Legs = {At("binance"), At("bybit")} /\ At("binance") # At("bybit")
  /\ \A x : At(x) \in Legs
  /\ \A s \in Legs : At(Venue[s]) = s
BY DEF At, Venue, Default, Legs

\* The constants of the initial state.
LEMMA InitTypes ==
  /\ None \in Sizes /\ \A l \in Legs : None[l] = 0
  /\ IdleTask \in TaskType /\ IdleTask.pc = "idle"
  /\ NoSwitch \in SwitchType /\ NoRecon \in ReconType
  /\ NoKill \in KillType /\ NoKill.pc = "off"
BY AtLegs DEF None, IdleTask, NoSwitch, NoRecon, NoKill, Sizes, TaskType, SwitchType,
       ReconType, KillType, Legs

\* A fault is counted within its bound.
LEMMA FaultType ==
  ASSUME NEW b \in BookType, b.faults < MaxFaults
  PROVE  /\ Fault(b) \in BookType
         /\ Fault(b).excuses = b.excuses /\ Fault(b).owed = b.owed
BY BoundAssumption DEF Fault, BookType

\* An excuse is noted.
LEMMA ExcuseType ==
  ASSUME NEW b \in BookType, NEW e \in Excuses
  PROVE  /\ Excuse(b, e) \in BookType /\ e \in Excuse(b, e).excuses
         /\ b.excuses \subseteq Excuse(b, e).excuses
         /\ Excuse(b, e).owed = b.owed /\ Excuse(b, e).faults = b.faults
BY DEF Excuse, BookType

\* What the kill-all owes is no more than it was, nor than what is held.
LEMMA HoldType ==
  ASSUME NEW b \in BookType, NEW h \in Sizes
  PROVE  /\ Hold(b, h) \in BookType
         /\ \A l \in Legs : Hold(b, h).owed[l] <= h[l] /\ Hold(b, h).owed[l] <= b.owed[l]
         /\ Hold(b, h).excuses = b.excuses /\ Hold(b, h).faults = b.faults
<1> DEFINE owed == [l \in Legs |-> IF b.owed[l] > h[l] THEN h[l] ELSE b.owed[l]]
<1>1. owed \in Sizes /\ \A l \in Legs : owed[l] <= h[l] /\ owed[l] <= b.owed[l]
  BY DEF Sizes, BookType
<1>2. Hold(b, h) = [b EXCEPT !.owed = owed]
  BY DEF Hold
<1> HIDE DEF owed
<1> QED BY <1>1, <1>2 DEF BookType

\* What the kill-all owes is held.
OwedHeld == \A l \in Legs : book.owed[l] <= held[l]

\* A position query.
LEMMA QueryStep ==
  ASSUME TypeOK, NEW l \in Legs, NEW n \in 0..held[l], Query(l, n)
  PROVE  /\ n \in Nat
         /\ book' \in BookType /\ book'.owed = book.owed
         /\ book.excuses \subseteq book'.excuses
         /\ "blind" \in book'.excuses \/ (n = held[l] /\ book' = book)
<1>1. held[l] \in Nat /\ book \in BookType
  BY Types DEF Sizes
<1>2. CASE n = held[l] /\ UNCHANGED book
  BY <1>1, <1>2
<1>3. CASE Faulty /\ book' = Fault(Excuse(book, "blind"))
  <2> DEFINE b == Excuse(book, "blind")
  <2>1. /\ b \in BookType /\ "blind" \in b.excuses /\ book.excuses \subseteq b.excuses
        /\ b.owed = book.owed /\ b.faults = book.faults
    BY <1>1, ExcuseType DEF Excuses
  <2> HIDE DEF b
  <2>2. b.faults < MaxFaults /\ book' = Fault(b)
    BY <1>3, <2>1 DEF Faulty, b
  <2> QED BY <1>1, <2>1, <2>2, FaultType
<1> QED BY <1>2, <1>3 DEF Query

\* A lot or some of a leg change hands.
LEMMA HeldType ==
  ASSUME TypeOK, NEW l \in Legs, NEW n \in Nat
  PROVE  /\ [held EXCEPT ![l] = @ + n] \in Sizes
         /\ n <= held[l] => [held EXCEPT ![l] = @ - n] \in Sizes
BY Types DEF Sizes

\* An order that opens a leg: without an excuse it fills whole and is confirmed, or it
\* fails and nothing is held.
LEMMA OpenOrderStep ==
  ASSUME TypeOK, NEW l \in Legs, NEW ok \in BOOLEAN, NEW c \in 0..Qty, OpenOrder(l, ok, c)
  PROVE  /\ held' \in Sizes /\ ghost' \subseteq Legs /\ \A k \in Legs : held[k] <= held'[k]
         /\ book' \in BookType /\ book'.owed = book.owed /\ book.excuses \subseteq book'.excuses
         /\ \/ book'.excuses # {}
            \/ ok /\ c = Qty /\ held' = [held EXCEPT ![l] = @ + Qty]
            \/ ~ok /\ c = 0 /\ held' = held
<1>0. held \in Sizes /\ ghost \subseteq Legs /\ book \in BookType /\ Qty \in Nat
  BY Types, QtyAssumption
<1>1. ASSUME NEW n \in Nat, held' = [held EXCEPT ![l] = @ + n]
      PROVE  held' \in Sizes /\ \A k \in Legs : held[k] <= held'[k]
  BY <1>0, <1>1 DEF Sizes
<1>2. Faulty => /\ Fault(book) \in BookType
                /\ Fault(book).excuses = book.excuses /\ Fault(book).owed = book.owed
  BY <1>0, FaultType DEF Faulty
<1>3. Faulty => LET b == Fault(Excuse(book, "unseen")) IN
                /\ b \in BookType /\ b.excuses # {} /\ book.excuses \subseteq b.excuses
                /\ b.owed = book.owed
  <2> DEFINE b == Excuse(book, "unseen")
  <2>1. /\ b \in BookType /\ "unseen" \in b.excuses /\ book.excuses \subseteq b.excuses
        /\ b.owed = book.owed /\ b.faults = book.faults
    BY <1>0, ExcuseType DEF Excuses
  <2> HIDE DEF b
  <2>2. Faulty => b.faults < MaxFaults
    BY <2>1 DEF Faulty
  <2>3. Faulty => /\ Fault(b) \in BookType /\ Fault(b).excuses # {}
                  /\ book.excuses \subseteq Fault(b).excuses /\ Fault(b).owed = book.owed
    BY <2>1, <2>2, FaultType
  <2> QED BY <2>3 DEF b
<1>4. \A k \in Legs : held[k] <= held[k]
  BY <1>0 DEF Sizes
<1>5. CASE ok /\ c = Qty /\ held' = [held EXCEPT ![l] = @ + Qty] /\ UNCHANGED <<ghost, book>>
  BY <1>0, <1>1, <1>5
<1>6. CASE /\ ok /\ Faulty
           /\ \E k \in 1..(Qty - 1) : c \in {k, Qty} /\ held' = [held EXCEPT ![l] = @ + k]
           /\ book' = Fault(Excuse(book, "unseen")) /\ UNCHANGED ghost
  <2>1. PICK k \in 1..(Qty - 1) : held' = [held EXCEPT ![l] = @ + k]
    BY <1>6
  <2>2. k \in Nat
    BY <1>0
  <2> QED BY <1>0, <1>1, <1>3, <1>6, <2>1, <2>2
<1>7. CASE /\ ~ok /\ c = 0 /\ Faulty /\ book' = Fault(book) /\ UNCHANGED <<held, ghost>>
  BY <1>0, <1>2, <1>4, <1>7
<1>8. CASE /\ ~ok /\ c = 0 /\ Faulty /\ held' = [held EXCEPT ![l] = @ + Qty]
           /\ book' = Fault(Excuse(book, "unseen")) /\ UNCHANGED ghost
  BY <1>0, <1>1, <1>3, <1>8
<1>9. CASE /\ ~ok /\ c = 0 /\ Faulty /\ book' = Fault(book)
           /\ ghost' = ghost \cup {l} /\ UNCHANGED held
  BY <1>0, <1>2, <1>4, <1>9
<1> QED BY <1>5, <1>6, <1>7, <1>8, <1>9 DEF OpenOrder

\* An order that closes lots of a leg: the kill-all owes no more than is held; without
\* an excuse its answer is true.
LEMMA CloseOrderStep ==
  ASSUME TypeOK, OwedHeld, NEW l \in Legs, NEW n \in Nat, NEW ok \in BOOLEAN,
         NEW E \in SUBSET Excuses, CloseOrder(l, n, ok, E)
  PROVE  /\ held' \in Sizes /\ UNCHANGED ghost
         /\ \A k \in Legs : held'[k] <= held[k] /\ (k # l => held'[k] = held[k])
         /\ book' \in BookType /\ book.excuses \subseteq book'.excuses
         /\ OwedHeld' /\ \A k \in Legs : book'.owed[k] <= book.owed[k]
         /\ \/ book'.excuses # {}
            \/ ok /\ n <= held[l] /\ held'[l] = held[l] - n
            \/ ok /\ E = {}
            \/ ~ok /\ held' = held
<1>0. held \in Sizes /\ book \in BookType /\ UNCHANGED ghost
  BY Types DEF CloseOrder
<1>1. ASSUME n <= held[l], held' = [held EXCEPT ![l] = @ - n]
      PROVE  /\ held' \in Sizes /\ held'[l] = held[l] - n
             /\ \A k \in Legs : held'[k] <= held[k] /\ (k # l => held'[k] = held[k])
  BY <1>0, <1>1 DEF Sizes
<1>2. ASSUME held' = held
      PROVE  /\ held' \in Sizes
             /\ \A k \in Legs : held'[k] <= held[k] /\ (k # l => held'[k] = held[k])
  BY <1>0, <1>2 DEF Sizes
<1>3. Faulty => /\ Fault(book) \in BookType
                /\ Fault(book).excuses = book.excuses /\ Fault(book).owed = book.owed
  BY <1>0, FaultType DEF Faulty
<1>4. book \in BookType /\ book.owed \in Sizes
  BY <1>0 DEF BookType
<1>5. held' \in Sizes => LET b == Hold(book, held') IN
        /\ b \in BookType /\ b.excuses = book.excuses /\ b.faults = book.faults
        /\ \A k \in Legs : b.owed[k] <= held'[k] /\ b.owed[k] <= book.owed[k]
  BY <1>0, HoldType
<1>6. Faulty /\ held' \in Sizes => LET b == Fault(Excuse(Hold(book, held'), "unseen")) IN
        /\ b \in BookType /\ b.excuses # {} /\ book.excuses \subseteq b.excuses
        /\ \A k \in Legs : b.owed[k] <= held'[k] /\ b.owed[k] <= book.owed[k]
  <2> SUFFICES ASSUME Faulty, held' \in Sizes
               PROVE  LET b == Fault(Excuse(Hold(book, held'), "unseen")) IN
                        /\ b \in BookType /\ b.excuses # {} /\ book.excuses \subseteq b.excuses
                        /\ \A k \in Legs : b.owed[k] <= held'[k] /\ b.owed[k] <= book.owed[k]
    OBVIOUS
  <2> DEFINE h == Hold(book, held')
             e == Excuse(h, "unseen")
  <2>1. /\ h \in BookType /\ h.excuses = book.excuses /\ h.faults = book.faults
        /\ \A k \in Legs : h.owed[k] <= held'[k] /\ h.owed[k] <= book.owed[k]
    BY <1>5
  <2> HIDE DEF h
  <2>2. /\ e \in BookType /\ "unseen" \in e.excuses /\ h.excuses \subseteq e.excuses
        /\ e.owed = h.owed /\ e.faults = h.faults
    BY <2>1, ExcuseType DEF Excuses
  <2> HIDE DEF e
  <2>3. /\ Fault(e) \in BookType /\ Fault(e).excuses = e.excuses /\ Fault(e).owed = e.owed
    BY <2>1, <2>2, FaultType DEF Faulty
  <2> QED BY <2>1, <2>2, <2>3 DEF e, h
<1>7. \A k \in Legs : book.owed[k] <= book.owed[k] /\ book.owed[k] <= held[k]
  BY <1>4 DEF OwedHeld, Sizes
<1> USE DEF OwedHeld
<1>8. CASE /\ ok /\ n <= held[l] /\ held' = [held EXCEPT ![l] = @ - n]
           /\ book' = Hold(book, held')
  BY <1>0, <1>1, <1>5, <1>8
<1>9. CASE ~ok /\ n > held[l] /\ UNCHANGED <<held, book>>
  BY <1>0, <1>2, <1>7, <1>9
<1>10. CASE ~ok /\ Faulty /\ book' = Fault(book) /\ UNCHANGED held
  BY <1>0, <1>2, <1>3, <1>7, <1>10
<1>11. CASE /\ ~ok /\ Faulty /\ n <= held[l] /\ held' = [held EXCEPT ![l] = @ - n]
            /\ book' = Fault(Excuse(Hold(book, held'), "unseen"))
  BY <1>0, <1>1, <1>6, <1>11
<1>12. CASE /\ ok /\ Faulty /\ n <= held[l]
            /\ \E k \in 0..(n - 1) : held' = [held EXCEPT ![l] = @ - k]
            /\ book' = Fault([Hold(book, held') EXCEPT !.excuses = @ \cup E])
  <2>1. PICK k \in 0..(n - 1) : held' = [held EXCEPT ![l] = @ - k]
    BY <1>12
  <2>2. k \in Nat /\ k <= held[l]
    BY <1>0, <1>12 DEF Sizes
  <2>3. /\ held' \in Sizes
        /\ \A j \in Legs : held'[j] <= held[j] /\ (j # l => held'[j] = held[j])
    BY <1>0, <2>1, <2>2 DEF Sizes
  <2> DEFINE h == Hold(book, held')
             e == [h EXCEPT !.excuses = @ \cup E]
  <2>4. /\ h \in BookType /\ h.excuses = book.excuses /\ h.faults = book.faults
        /\ \A j \in Legs : h.owed[j] <= held'[j] /\ h.owed[j] <= book.owed[j]
    BY <1>5, <2>3
  <2> HIDE DEF h
  <2>5. /\ e \in BookType /\ e.excuses = book.excuses \cup E /\ e.owed = h.owed
        /\ e.faults = book.faults
    BY <2>4 DEF BookType
  <2>6. book' = Fault(e)
    BY <1>12 DEF h
  <2> HIDE DEF e
  <2>7. /\ book' \in BookType /\ book'.excuses = book.excuses \cup E /\ book'.owed = h.owed
    BY <1>12, <2>5, <2>6, FaultType DEF Faulty
  <2> QED BY <1>0, <1>12, <2>3, <2>4, <2>7
<1> QED BY <1>8, <1>9, <1>10, <1>11, <1>12 DEF CloseOrder

\* A policy that has begun its work holds the lock; the close button only exits.
Busy(task) == task.pc \notin {"idle", "wait"}
LockInv ==
  /\ \A r \in Policies : Busy(run[r]) <=> lock = r
  /\ run["manual"].pc \in {"idle", "exit"}

\* The invariant the others rest on.
TypeInv == TypeOK /\ OwedHeld /\ LockInv

\* A coroutine goes on with another task and keeps the lock as it is.
LEMMA SetStep ==
  ASSUME TypeInv, NEW r \in Runners, NEW task \in TaskType, Set(r, task), UNCHANGED lock,
         Busy(task) <=> Busy(run[r]),
         r = "manual" => task.pc \in {"idle", "exit"}
  PROVE  /\ run' \in [Runners -> TaskType]
         /\ run'[r] = task /\ \A q \in Runners \ {r} : run'[q] = run[q]
         /\ LockInv'
<1>1. run \in [Runners -> TaskType] /\ run' = [run EXCEPT ![r] = task]
  BY Types DEF TypeInv, Set
<1>2. /\ run' \in [Runners -> TaskType]
      /\ run'[r] = task /\ \A q \in Runners \ {r} : run'[q] = run[q]
  BY <1>1
<1> QED BY <1>2, PolicyAssumption DEF TypeInv, LockInv, Runners

\* A policy gets the lock and begins.
LEMMA GrantStep ==
  ASSUME TypeInv, NEW r \in Policies, NEW task \in TaskType, Set(r, task),
         lock = Nobody \/ lock = r, lock' = r, Busy(task)
  PROVE  /\ run' \in [Runners -> TaskType] /\ lock' \in Policies \cup {Nobody}
         /\ run'[r] = task /\ \A q \in Runners \ {r} : run'[q] = run[q]
         /\ LockInv'
<1>1. run \in [Runners -> TaskType] /\ run' = [run EXCEPT ![r] = task]
  BY Types DEF TypeInv, Set
<1>2. /\ run' \in [Runners -> TaskType]
      /\ run'[r] = task /\ \A q \in Runners \ {r} : run'[q] = run[q]
  BY <1>1 DEF Runners
<1> QED BY <1>2, PolicyAssumption DEF TypeInv, LockInv, Runners, Nobody

\* A handler returns.
LEMMA ReturnStep ==
  ASSUME TypeInv, NEW r \in Runners, Return(r)
  PROVE  /\ run' \in [Runners -> TaskType] /\ lock' \in Policies \cup {Nobody}
         /\ run'[r] = IdleTask /\ run'[r].pc = "idle"
         /\ \A q \in Runners \ {r} : run'[q] = run[q]
         /\ LockInv'
<1>1. run \in [Runners -> TaskType] /\ run' = [run EXCEPT ![r] = IdleTask]
      /\ lock \in Policies \cup {Nobody}
  BY Types DEF TypeInv, Return, Set
<1>2. /\ run' \in [Runners -> TaskType]
      /\ run'[r] = IdleTask /\ \A q \in Runners \ {r} : run'[q] = run[q]
  BY <1>1, InitTypes
<1>3. IdleTask.pc = "idle" /\ lock' = IF lock = r THEN Nobody ELSE lock
  BY InitTypes DEF Return
<1> QED BY <1>1, <1>2, <1>3, PolicyAssumption DEF TypeInv, LockInv, Runners, Nobody, Busy

\* The task of an exit.
ExitTask ==
  [IdleTask EXCEPT !.pc = "exit", !.todo = {l \in Legs : size[l] > 0}, !.want = size,
                   !.ok = Legs \ {l \in Legs : size[l] > 0}, !.astray = home # Venue]

LEMMA ExitTaskType ==
  ASSUME TypeOK
  PROVE  /\ ExitTask \in TaskType /\ ExitTask.pc = "exit" /\ ExitTask.want = size
         /\ ExitTask.ok = {l \in Legs : size[l] = 0}
<1>1. size \in Sizes
  BY Types
<1> DEFINE open == {l \in Legs : size[l] > 0}
<1>2. /\ ExitTask \in TaskType /\ ExitTask.pc = "exit" /\ ExitTask.want = size
      /\ ExitTask.ok = Legs \ open
  <2>1. ExitTask = [IdleTask EXCEPT !.pc = "exit", !.todo = open, !.want = size,
                                    !.ok = Legs \ open, !.astray = home # Venue]
    BY DEF ExitTask
  <2>2. open \subseteq Legs
    OBVIOUS
  <2> HIDE DEF open
  <2> QED BY <1>1, <2>1, <2>2, InitTypes DEF TaskType
<1>3. Legs \ {l \in Legs : size[l] > 0} = {l \in Legs : size[l] = 0}
  BY <1>1 DEF Sizes
<1> QED BY <1>2, <1>3

\* An exit begins, or there is nothing to close.
LEMMA BeginExitStep ==
  ASSUME TypeInv, NEW r \in Runners, BeginExit(r),
         r \in Policies => lock = Nobody \/ lock = r
  PROVE  /\ run' \in [Runners -> TaskType] /\ lock' \in Policies \cup {Nobody}
         /\ run'[r] \in {IdleTask, ExitTask} /\ \A q \in Runners \ {r} : run'[q] = run[q]
         /\ status' \in {"FLAT", "CLOSING"}
         /\ LockInv'
<1>1. CASE size = None
  <2>1. Return(r) /\ status' = "FLAT"
    BY <1>1 DEF BeginExit
  <2> QED BY <2>1, ReturnStep
<1>2. CASE size # None
  <2>1. /\ Set(r, ExitTask) /\ status' = "CLOSING"
        /\ lock' = IF r \in Policies THEN r ELSE lock
    BY <1>2 DEF BeginExit, ExitTask
  <2>2. ExitTask \in TaskType /\ ExitTask.pc = "exit" /\ Busy(ExitTask)
    BY ExitTaskType DEF TypeInv, Busy
  <2>3. CASE r \in Policies
    BY <2>1, <2>2, <2>3, GrantStep
  <2>4. CASE r \notin Policies
    <3>1. r = "manual" /\ run \in [Runners -> TaskType] /\ lock \in Policies \cup {Nobody}
      BY <2>4, Types DEF Runners, TypeInv
    <3>2. run' = [run EXCEPT ![r] = ExitTask]
      BY <2>1 DEF Set
    <3>3. LockInv'
      BY <2>1, <2>2, <2>4, <3>1, <3>2, PolicyAssumption DEF TypeInv, LockInv, Runners
    <3> QED BY <2>1, <2>2, <2>4, <3>1, <3>2, <3>3
  <2> QED BY <2>3, <2>4
<1> QED BY <1>1, <1>2

\* The rollback goes on with the legs todo, or is over.
LEMMA RolledBackStep ==
  ASSUME TypeInv, NEW r \in Runners, run[r].pc \in {"measure", "residual"},
         NEW pc \in {"measure", "close"}, NEW todo \in SUBSET Legs, NEW want \in Sizes,
         RolledBack(r, pc, todo, want)
  PROVE  /\ run' \in [Runners -> TaskType] /\ lock' \in Policies \cup {Nobody}
         /\ status' \in {"FLAT", "OPENING", "OPEN", "CLOSING"}
         /\ \A q \in Runners \ {r} : run'[q] = run[q]
         /\ \/ todo = {} /\ run'[r] = IdleTask
            \/ /\ run'[r].pc = pc /\ run'[r].todo = todo /\ run'[r].want = want
               /\ run'[r].ok = run[r].ok
         /\ LockInv'
<1>1. CASE todo = {}
  BY <1>1, ReturnStep DEF RolledBack
<1>2. CASE todo # {}
  <2> DEFINE task == [run[r] EXCEPT !.pc = pc, !.todo = todo, !.want = want]
  <2>1. run[r] \in TaskType /\ status \in {"FLAT", "OPENING", "OPEN", "CLOSING"}
        /\ lock \in Policies \cup {Nobody}
    BY Types DEF TypeInv
  <2>2. /\ task \in TaskType /\ task.pc = pc /\ task.todo = todo /\ task.want = want
        /\ task.ok = run[r].ok
    BY <2>1 DEF TaskType
  <2>3. Set(r, task) /\ UNCHANGED <<status, lock>>
    BY <1>2 DEF RolledBack
  <2> HIDE DEF task
  <2>4. Busy(task) /\ Busy(run[r]) /\ r # "manual"
    BY <2>2 DEF Busy, TypeInv, LockInv
  <2> QED BY <2>1, <2>2, <2>3, <2>4, SetStep
<1> QED BY <1>1, <1>2

\* The types hold in the next state if each variable has its own.
LEMMA TypesNext ==
  ASSUME held' \in Sizes, ghost' \subseteq Legs,
         size' \in Sizes, status' \in {"FLAT", "OPENING", "OPEN", "CLOSING"},
         home' \in Homes, switch' \in SwitchType, run' \in [Runners -> TaskType],
         lock' \in Policies \cup {Nobody},
         recon' \in ReconType, kill' \in KillType, book' \in BookType
  PROVE  TypeOK'
BY DEF TypeOK, Sizes, Homes, SwitchType, TaskType, ReconType, KillType, BookType

\* The tracker takes an answer over: a leg that it has labelled right gets the lots that
\* are held, or keeps what it has; nothing is taken if nothing is listed.
LEMMA ReconcileStep ==
  ASSUME TypeOK, NEW seen \in Sizes, Reconcile(seen)
  PROVE  /\ size' \in Sizes /\ status' \in {"FLAT", "OPENING", "OPEN", "CLOSING"}
         /\ home' \in Homes
         /\ seen = None => home' = home /\ size' = size
         /\ home = Venue => home' = home /\ \A l \in Legs : size'[l] \in {size[l], seen[l]}
         /\ home' = Nowhere => seen = None
<1>1. /\ size \in Sizes /\ status \in {"FLAT", "OPENING", "OPEN", "CLOSING"} /\ home \in Homes
  BY Types
<1>2. StatusOf(size') \in {"FLAT", "OPENING", "OPEN"}
  BY DEF StatusOf
<1>3. Default # Nowhere /\ Venue # Nowhere
  BY DEF Default, Venue, Nowhere, Legs
<1>4. /\ home' = IF home = Nowhere /\ seen # None THEN Default ELSE home
      /\ size' = [s \in Legs |-> IF Takes(home', s, seen) THEN seen[At(home'[s])] ELSE size[s]]
      /\ status' \in {status, StatusOf(size')}
  BY DEF Reconcile, Adopted
<1>5. \A s \in Legs : seen[At(home'[s])] \in Nat
  BY AtLegs DEF Sizes
<1>6. size' \in Sizes
  BY <1>1, <1>4, <1>5 DEF Sizes
<1>7. ASSUME seen = None PROVE home' = home /\ size' = size
  <2>1. \A s \in Legs : ~Takes(home', s, seen)
    BY <1>7, AtLegs, InitTypes DEF Takes
  <2> QED BY <1>1, <1>4, <1>7, <2>1 DEF Sizes
<1>8. ASSUME home = Venue PROVE home' = home /\ \A l \in Legs : size'[l] \in {size[l], seen[l]}
  BY <1>3, <1>4, <1>8, AtLegs
<1> QED BY <1>1, <1>2, <1>3, <1>4, <1>6, <1>7, <1>8 DEF Homes

\* The age of an answer is an excuse.
LEMMA AgedType ==
  ASSUME TypeOK, NEW seen \in Sizes
  PROVE  /\ Aged(book, seen) \in BookType /\ Aged(book, seen).owed = book.owed
         /\ book.excuses \subseteq Aged(book, seen).excuses
         /\ Aged(book, seen).excuses # {} \/ (seen = held /\ Quiet)
<1>1. book \in BookType
  BY Types
<1> QED BY <1>1, ExcuseType DEF Aged, Excuses

\* A coroutine that has just begun.
LEMMA NewTask ==
  /\ \A a \in Actions : LET task == [IdleTask EXCEPT !.pc = "wait", !.act = a]
                        IN task \in TaskType /\ task.pc = "wait"
  /\ \A pc \in {"check", "hold", "cancel"} :
       LET task == [IdleTask EXCEPT !.pc = pc]
       IN task \in TaskType /\ task.pc = pc /\ Busy(task)
<1>1. IdleTask \in TaskType
  BY InitTypes
<1>2. \A pc \in {"check", "hold", "cancel"} :
        LET task == [IdleTask EXCEPT !.pc = pc]
        IN task \in TaskType /\ task.pc = pc /\ Busy(task)
  BY <1>1 DEF TaskType, Busy
<1>3. \A a \in Actions : LET task == [IdleTask EXCEPT !.pc = "wait", !.act = a]
                         IN task \in TaskType /\ task.pc = "wait"
  BY <1>1 DEF TaskType
<1> QED BY <1>2, <1>3

\* A reduction that has just begun.
LEMMA ReduceTask ==
  ASSUME NEW n \in Nat, NEW b \in BOOLEAN
  PROVE  LET task == [IdleTask EXCEPT !.pc = "reduce", !.todo = Legs,
                                      !.want = [l \in Legs |-> n], !.astray = b]
         IN task \in TaskType /\ task.pc = "reduce" /\ Busy(task) /\ task.ok = {}
<1>1. IdleTask \in TaskType /\ IdleTask.ok = {}
  BY InitTypes DEF IdleTask
<1> DEFINE want == [l \in Legs |-> n]
<1>2. want \in Sizes
  BY DEF Sizes
<1> HIDE DEF want
<1>3. LET task == [IdleTask EXCEPT !.pc = "reduce", !.todo = Legs, !.want = want, !.astray = b]
      IN task \in TaskType /\ task.pc = "reduce" /\ Busy(task) /\ task.ok = {}
  BY <1>1, <1>2 DEF TaskType, Busy
<1> QED BY <1>3 DEF want

-----------------------------------------------------------------------------
(* The invariant of a pair *)

\* Unless a query failed, a leg in which the kill-all saw nothing is closed.
SeesOwed ==
  "blind" \notin book.excuses =>
    /\ kill.pc = "confirm" /\ kill.leg = At("bybit") =>
         (kill.seen[At("binance")] = 0 => book.owed[At("binance")] = 0)
    /\ kill.pc = "report" =>
         \A l \in Legs : kill.seen[l] = 0 => book.owed[l] = 0

KillInv == SeesOwed /\ CompletedMeansClosed

\* Nothing excuses a difference of the legs, no exchange is tripped, no kill-all runs.
Clear == book.excuses = {} /\ switch.tripped = {} /\ kill.pc = "off"

Closing == {"exit", "reduce"}
Opening == {"open", "measure", "close", "residual"}

\* The legs of which coroutine r has closed lots that the tracker still has.
Done(r) ==
  {l \in Legs : run[r].pc \in Closing /\ l \in run[r].ok /\ run[r].want[l] > 0}

NoOpening == \A r \in Policies : run[r].pc \notin Opening

\* Outside an opening the tracker is right but for what one coroutine has closed.
TrackerRight ==
  NoOpening =>
    /\ \A l \in Legs : (\A r \in Runners : l \notin Done(r)) => held[l] = size[l]
    /\ \A r \in Runners : \A l \in Done(r) :
         /\ held[l] = size[l] - run[r].want[l]
         /\ \A q \in Runners \ {r} : l \notin Done(q)

\* A leg is closed once; an exit closes all that the tracker has of it, or more.
ClosesOnce ==
  \A r \in Runners :
    /\ run[r].pc \in Closing => run[r].todo \cap run[r].ok = {}
    /\ run[r].pc = "exit" => \A l \in Legs : run[r].want[l] >= size[l]

\* A pair is opened from nothing, and without the close button.
OpensAlone ==
  \A r \in Policies : run[r].pc \in Opening => size = None /\ run["manual"].pc = "idle"

\* What an opening holds: a leg for each order that was confirmed, then what the
\* rollback measured, then what it has not closed yet.
OpeningHolds ==
  \A r \in Policies :
    /\ run[r].pc = "check" => run[r].ok = {} /\ run[r].want = None
    /\ run[r].pc = "open" => \A l \in Legs :
         IF l \in run[r].ok
           THEN run[r].want[l] = Qty /\ held[l] = Qty /\ l \notin run[r].todo
           ELSE run[r].want[l] = 0 /\ held[l] = 0
    /\ run[r].pc = "measure" => run[r].want = held
    /\ run[r].pc \in {"close", "residual"} => \A l \in Legs \ run[r].todo : held[l] = 0

LegInv == Clear => TrackerRight /\ ClosesOnce /\ OpensAlone /\ OpeningHolds

\* Unless something excuses it, the tracker labels a pair that it knows rightly; of a pair
\* that it does not know it has nothing.
HomeInv ==
  /\ home = Nowhere => size = None
  /\ Clear => home \in {Nowhere, Venue}

PairInv == TypeInv /\ KillInv /\ LegInv

\* Steps that are not the kill-all's keep what it has seen.
LEMMA KillKept ==
  ASSUME TypeInv, TypeInv', KillInv, book.excuses \subseteq book'.excuses,
         \A l \in Legs : book'.owed[l] <= book.owed[l], kill' = kill
  PROVE  KillInv'
<1>1. book.owed \in Sizes /\ book'.owed \in Sizes
  BY DEF TypeInv, TypeOK, Sizes
<1>2. \A l \in Legs : book.owed[l] = 0 => book'.owed[l] = 0
  BY <1>1 DEF Sizes
<1>3. book.owed = None => book'.owed = None
  BY <1>1, <1>2 DEF Sizes, None
<1> QED BY <1>2, <1>3, AtLegs DEF KillInv, SeesOwed, CompletedMeansClosed

\* What is excused stays excused.
LEMMA LegExcused ==
  ASSUME book'.excuses # {} \/ switch'.tripped # {} \/ kill'.pc # "off"
  PROVE  LegInv'
BY DEF LegInv, Clear

\* A step that changes neither the lots nor the coroutines.
LEMMA LegKept ==
  ASSUME TypeInv, LegInv, UNCHANGED <<held, size, run>>,
         book'.excuses = {} => book.excuses = {},
         switch'.tripped = {} => switch.tripped = {},
         kill'.pc = "off" => kill.pc = "off"
  PROVE  LegInv'
BY DEF LegInv, Clear, TrackerRight, NoOpening, Done, ClosesOnce, OpensAlone, OpeningHolds

\* Two coroutines that work on the pair: one of them is the close button.
LEMMA OneIsManual ==
  ASSUME TypeInv, NEW r \in Runners, NEW q \in Runners, q # r, Busy(run[r]), Busy(run[q])
  PROVE  r = "manual" \/ q = "manual"
BY DEF TypeInv, LockInv, Runners

\* A policy that works keeps the others from opening.
LEMMA OthersIdle ==
  ASSUME TypeInv, NEW r \in Policies, Busy(run[r])
  PROVE  \A q \in Policies \ {r} : run[q].pc \in {"idle", "wait"}
BY DEF TypeInv, LockInv, Busy

\* A coroutine that closes nothing and opens nothing goes on, to begin an exit or a
\* reduction at most.
LEMMA LegBegins ==
  ASSUME TypeInv, TypeInv', LegInv, NEW r \in Runners, UNCHANGED <<held, size>>,
         run[r].pc \in {"idle", "wait", "check", "hold", "cancel"},
         \A q \in Runners \ {r} : run'[q] = run[q],
         r = "manual" => lock = Nobody,
         \/ run'[r].pc \in {"idle", "wait", "hold", "cancel"}
         \/ run'[r].pc = "check" /\ run'[r].ok = {} /\ run'[r].want = None
         \/ run'[r].pc = "reduce" /\ run'[r].ok = {}
         \/ run'[r] = ExitTask,
         book'.excuses = {} => book.excuses = {},
         switch'.tripped = {} => switch.tripped = {},
         kill'.pc = "off" => kill.pc = "off"
  PROVE  LegInv'
<1> SUFFICES ASSUME Clear' PROVE TrackerRight' /\ ClosesOnce' /\ OpensAlone' /\ OpeningHolds'
  BY DEF LegInv
<1>1. TrackerRight /\ ClosesOnce /\ OpensAlone /\ OpeningHolds
  BY DEF LegInv, Clear
<1>2. /\ ExitTask.pc = "exit" /\ ExitTask.want = size
      /\ ExitTask.ok = {l \in Legs : size[l] = 0}
      /\ ExitTask.todo = {l \in Legs : size[l] > 0}
  BY ExitTaskType DEF TypeInv, ExitTask
<1>3. size \in Sizes
  BY Types DEF TypeInv
<1>4. Done(r) = {} /\ Done(r)' = {}
  <2>1. \A l \in Legs : size[l] = 0 => ~(size[l] > 0)
    BY <1>3 DEF Sizes
  <2> QED BY <1>2, <2>1 DEF Done, Closing
<1>5. \A q \in Runners \ {r} : Done(q)' = Done(q)
  BY DEF Done
<1>6. run[r].pc \notin Opening /\ run'[r].pc \notin Opening
  BY <1>2 DEF Opening
<1>7. TrackerRight'
  <2>1. NoOpening' => NoOpening
    BY <1>6 DEF NoOpening, Runners
  <2> QED BY <1>1, <1>4, <1>5, <2>1 DEF TrackerRight
<1>8. ClosesOnce'
  BY <1>1, <1>2, <1>3 DEF ClosesOnce, Closing, Sizes
<1>9. OpensAlone'
  <2>1. r = "manual" => NoOpening
    BY PolicyAssumption DEF TypeInv, LockInv, Busy, NoOpening, Opening, Nobody
  <2>2. r # "manual" => run'["manual"] = run["manual"]
    BY DEF Runners
  <2> QED BY <1>1, <1>6, <2>1, <2>2 DEF OpensAlone, NoOpening, Runners
<1>10. OpeningHolds'
  BY <1>1, <1>2, <1>6 DEF OpeningHolds, Opening, Runners
<1> QED BY <1>7, <1>8, <1>9, <1>10

\* A handler that has nothing to do with lots returns, or one is granted the lock.
LEMMA StartStep ==
  ASSUME PairInv, NEW r \in Policies, Start(r)
  PROVE  PairInv'
<1> USE DEF PairInv
<1>1. /\ r \in Runners /\ run[r].pc = "wait" /\ lock = Nobody /\ r # "manual"
      /\ UNCHANGED <<held, ghost, size, recon, kill, book>>
      /\ home' = IF home = Nowhere THEN Venue ELSE home
  BY PolicyAssumption DEF Start, StartOpen, StartExit, StartHold, StartReduce, StartPause,
       Granted, Runners, exchangeVars, trackerVars
<1>2. /\ held \in Sizes /\ ghost \subseteq Legs /\ size \in Sizes /\ switch \in SwitchType
      /\ status \in {"FLAT", "OPENING", "OPEN", "CLOSING"} /\ home' \in Homes
      /\ recon \in ReconType /\ kill \in KillType /\ book \in BookType
  BY <1>1, Types DEF TypeInv, Homes
<1>3. ASSUME NEW task \in TaskType, Set(r, task), lock' = r, Busy(task)
      PROVE  /\ run' \in [Runners -> TaskType] /\ lock' \in Policies \cup {Nobody}
             /\ run'[r] = task /\ \A q \in Runners \ {r} : run'[q] = run[q]
             /\ LockInv'
  BY <1>1, <1>3, GrantStep
<1>4. /\ run' \in [Runners -> TaskType] /\ lock' \in Policies \cup {Nobody}
      /\ status' \in {"FLAT", "OPENING", "OPEN", "CLOSING"}
      /\ switch' \in SwitchType /\ switch'.tripped = switch.tripped
      /\ \A q \in Runners \ {r} : run'[q] = run[q]
      /\ LockInv'
      /\ \/ run'[r].pc \in {"idle", "wait", "hold", "cancel"}
         \/ run'[r].pc = "check" /\ run'[r].ok = {} /\ run'[r].want = None
         \/ run'[r].pc = "reduce" /\ run'[r].ok = {}
         \/ run'[r] = ExitTask
  <2>1. CASE Return(r) /\ UNCHANGED <<status, switch>>
    BY <1>1, <1>2, <2>1, ReturnStep
  <2>2. CASE StartOpen(r)
    <3>1. UNCHANGED <<status, switch>>
      BY <2>2 DEF StartOpen
    <3>2. CASE ~Return(r)
      <4> DEFINE task == [IdleTask EXCEPT !.pc = "check"]
      <4>1. lock' = r /\ Set(r, task)
        BY <2>2, <3>2 DEF StartOpen
      <4>2. /\ task \in TaskType /\ task.pc = "check" /\ Busy(task)
            /\ task.ok = {} /\ task.want = None
        BY NewTask DEF IdleTask
      <4> HIDE DEF task
      <4> QED BY <1>2, <1>3, <3>1, <4>1, <4>2
    <3> QED BY <2>1, <3>1, <3>2
  <2>3. CASE StartExit(r)
    <3>1. BeginExit(r) /\ UNCHANGED switch
      BY <2>3 DEF StartExit
    <3>2. IdleTask.pc = "idle"
      BY InitTypes
    <3> QED BY <1>1, <1>2, <3>1, <3>2, BeginExitStep
  <2>4. CASE StartHold(r)
    <3> DEFINE task == [IdleTask EXCEPT !.pc = "hold"]
    <3>1. lock' = r /\ Set(r, task) /\ UNCHANGED <<status, switch>>
      BY <2>4 DEF StartHold
    <3>2. task \in TaskType /\ task.pc = "hold" /\ Busy(task)
      BY NewTask
    <3> HIDE DEF task
    <3> QED BY <1>2, <1>3, <3>1, <3>2
  <2>5. CASE StartReduce(r)
    <3>1. UNCHANGED <<status, switch>>
      BY <2>5 DEF StartReduce
    <3>2. CASE ~Return(r)
      <4> DEFINE astray == home' # Venue
                 least == IF size["long"] < size["short"] THEN size["long"] ELSE size["short"]
                 task == [IdleTask EXCEPT !.pc = "reduce", !.todo = Legs,
                                          !.want = [l \in Legs |-> Excess(least)],
                                          !.astray = astray]
      <4>1. lock' = r /\ Set(r, task)
        BY <2>5, <3>2 DEF StartReduce
      <4>2. Excess(least) \in Nat
        BY <1>2, QtyAssumption DEF Excess, Larger, Sizes, Legs
      <4>4. astray \in BOOLEAN
        OBVIOUS
      <4> HIDE DEF least, astray
      <4>3. task \in TaskType /\ task.pc = "reduce" /\ Busy(task) /\ task.ok = {}
        BY <4>2, <4>4, ReduceTask
      <4> HIDE DEF task
      <4> QED BY <1>2, <1>3, <3>1, <4>1, <4>3
    <3> QED BY <2>1, <3>1, <3>2
  <2>6. CASE StartPause(r)
    <3> DEFINE task == [IdleTask EXCEPT !.pc = "cancel"]
    <3>1. lock' = r /\ Set(r, task) /\ UNCHANGED status
      BY <2>6 DEF StartPause
    <3>2. task \in TaskType /\ task.pc = "cancel" /\ Busy(task)
      BY NewTask
    <3>3. switch' \in SwitchType /\ switch'.tripped = switch.tripped
      BY <1>2, <2>6 DEF StartPause, SwitchType
    <3> HIDE DEF task
    <3> QED BY <1>2, <1>3, <3>1, <3>2, <3>3
  <2> QED BY <2>2, <2>3, <2>4, <2>5, <2>6 DEF Start
<1>5. TypeInv'
  BY <1>1, <1>2, <1>4, TypesNext DEF TypeInv, OwedHeld
<1>6. LegInv'
  BY <1>1, <1>4, <1>5, LegBegins
<1>7. KillInv'
  BY <1>1, <1>2, <1>5, KillKept DEF BookType, Sizes
<1> QED BY <1>5, <1>6, <1>7

LEMMA AskStep ==
  ASSUME PairInv, NEW r \in Policies, NEW a \in Actions, Ask(r, a)
  PROVE  PairInv'
<1> USE DEF PairInv
<1>1. /\ r \in Runners /\ run[r].pc = "idle" /\ r # "manual"
      /\ UNCHANGED <<held, ghost, size, home, status, switch, lock, recon, kill>>
  BY PolicyAssumption DEF Ask, Runners, exchangeVars, trackerVars
<1>2. book' \in BookType /\ book'.owed = book.owed /\ book'.excuses = book.excuses
  BY Types, BoundAssumption DEF Ask, TypeInv, BookType
<1> DEFINE task == [IdleTask EXCEPT !.pc = "wait", !.act = a]
<1>3. Set(r, task) /\ task \in TaskType /\ task.pc = "wait"
  BY NewTask DEF Ask
<1> HIDE DEF task
<1>4. /\ run' \in [Runners -> TaskType] /\ run'[r] = task /\ LockInv'
      /\ \A q \in Runners \ {r} : run'[q] = run[q]
  BY <1>1, <1>3, SetStep DEF Busy
<1>5. TypeInv'
  BY <1>1, <1>2, <1>4, Types, TypesNext DEF TypeInv, OwedHeld
<1>6. LegInv'
  BY <1>1, <1>2, <1>3, <1>4, <1>5, LegBegins
<1>7. KillInv'
  BY <1>1, <1>2, <1>5, KillKept DEF BookType, Sizes
<1> QED BY <1>5, <1>6, <1>7

\* What a coroutine in the midst of an opening or a hold says of the lock.
LEMMA Owner ==
  ASSUME TypeInv, NEW r \in Runners, run[r].pc \notin {"idle", "wait", "exit"}
  PROVE  /\ r \in Policies /\ r # "manual" /\ lock = r /\ Busy(run[r])
         /\ \A q \in Policies \ {r} : run[q].pc \in {"idle", "wait"}
BY PolicyAssumption DEF TypeInv, LockInv, Runners, Busy

\* Coroutines that wait, and a close button that is not used, have closed nothing.
LEMMA NothingDone ==
  ASSUME NEW r \in Runners, run["manual"].pc = "idle",
         \A q \in Policies \ {r} : run[q].pc \in {"idle", "wait"}
  PROVE  /\ \A q \in Runners \ {r} : Done(q) = {}
         /\ run[r].pc \notin Closing => Done(r) = {}
         /\ run[r].ok = {} => Done(r) = {}
BY DEF Done, Closing, Runners

\* Both orders of an opening are sent.
LEMMA CheckOpenStep ==
  ASSUME PairInv, NEW r \in Runners, CheckOpen(r)
  PROVE  PairInv'
<1> USE DEF PairInv
<1>1. /\ run[r].pc = "check"
      /\ UNCHANGED <<held, ghost, size, home, switch, recon, kill>>
  BY DEF CheckOpen, exchangeVars
<1>2. /\ r \in Policies /\ r # "manual" /\ lock = r /\ Busy(run[r])
      /\ \A q \in Policies \ {r} : run[q].pc \in {"idle", "wait"}
  BY <1>1, Owner
<1>3. CASE Return(r) /\ UNCHANGED <<status, book>>
  <2>1. /\ run' \in [Runners -> TaskType] /\ lock' \in Policies \cup {Nobody}
        /\ run'[r].pc = "idle" /\ \A q \in Runners \ {r} : run'[q] = run[q]
        /\ LockInv'
    BY <1>3, ReturnStep
  <2>2. TypeInv'
    BY <1>1, <1>3, <2>1, Types, TypesNext DEF TypeInv, OwedHeld
  <2>3. LegInv'
    BY <1>1, <1>2, <1>3, <2>1, <2>2, LegBegins
  <2>4. KillInv'
    <3>1. book \in BookType
      BY Types DEF TypeInv
    <3> QED BY <1>1, <1>3, <2>2, <3>1, KillKept DEF BookType, Sizes
  <2> QED BY <2>2, <2>3, <2>4
<1>4. CASE /\ Set(r, [run[r] EXCEPT !.pc = "open", !.todo = Legs])
           /\ status' = "OPENING" /\ UNCHANGED lock
           /\ book' = LET b == IF held = None THEN book ELSE Excuse(book, "over")
                      IN IF run["manual"].pc = "idle" THEN b ELSE Excuse(b, "beside")
  <2> DEFINE task == [run[r] EXCEPT !.pc = "open", !.todo = Legs]
             b    == IF held = None THEN book ELSE Excuse(book, "over")
  <2>1. /\ task \in TaskType /\ task.pc = "open" /\ task.todo = Legs
        /\ task.ok = run[r].ok /\ task.want = run[r].want
    <3>1. run[r] \in TaskType
      BY Types DEF TypeInv
    <3> QED BY <3>1 DEF TaskType
  <2>2. Set(r, task)
    BY <1>4
  <2> HIDE DEF task
  <2>3. /\ run' \in [Runners -> TaskType] /\ run'[r] = task /\ LockInv'
        /\ \A q \in Runners \ {r} : run'[q] = run[q]
    BY <1>2, <1>4, <2>1, <2>2, SetStep DEF Busy
  <2>4. /\ book' \in BookType /\ book'.owed = book.owed /\ book.excuses \subseteq book'.excuses
        /\ book'.excuses = {} => held = None /\ run["manual"].pc = "idle"
    <3>1. book \in BookType
      BY Types DEF TypeInv
    <3>2. /\ b \in BookType /\ b.owed = book.owed /\ book.excuses \subseteq b.excuses
          /\ b.excuses = {} => held = None
      BY <3>1, ExcuseType DEF Excuses
    <3> HIDE DEF b
    <3>3. book' = IF run["manual"].pc = "idle" THEN b ELSE Excuse(b, "beside")
      BY <1>4 DEF b
    <3> QED BY <3>2, <3>3, ExcuseType DEF Excuses
  <2>5. TypeInv'
    BY <1>1, <1>4, <2>3, <2>4, Types, TypesNext DEF TypeInv, OwedHeld
  <2>6. KillInv'
    BY <1>1, <2>4, <2>5, KillKept DEF TypeInv, TypeOK, Sizes
  <2>7. LegInv'
    <3> SUFFICES ASSUME Clear' PROVE TrackerRight' /\ ClosesOnce' /\ OpensAlone' /\ OpeningHolds'
      BY DEF LegInv
    <3>1. TrackerRight /\ ClosesOnce /\ OpensAlone /\ OpeningHolds
      BY <1>1, <2>4 DEF LegInv, Clear
    <3>2. held = None /\ run["manual"].pc = "idle"
      BY <2>4 DEF Clear
    <3>3. run'["manual"] = run["manual"] /\ "manual" \in Runners
      BY <1>2, <2>3 DEF Runners
    <3>4. TrackerRight'
      BY <1>2, <2>1, <2>3 DEF TrackerRight, NoOpening, Opening, Runners
    <3>5. ClosesOnce'
      BY <1>1, <2>1, <2>3, <3>1 DEF ClosesOnce, Closing
    <3>6. size = None
      <4>1. NoOpening
        BY <1>1, <1>2 DEF NoOpening, Opening
      <4>2. \A q \in Runners : Done(q) = {}
        BY <1>1, <1>2, <3>2 DEF Done, Closing, Runners
      <4>3. \A l \in Legs : held[l] = size[l]
        BY <3>1, <4>1, <4>2 DEF TrackerRight
      <4> QED BY <3>2, <4>3 DEF TypeInv, TypeOK, None
    <3>7. OpensAlone'
      BY <1>1, <3>2, <3>3, <3>6 DEF OpensAlone
    <3>8. OpeningHolds'
      <4>1. run[r].ok = {} /\ run[r].want = None /\ \A l \in Legs : None[l] = 0
        BY <1>1, <1>2, <3>1, InitTypes DEF OpeningHolds
      <4>2. \A q \in Policies \ {r} : run'[q].pc \in {"idle", "wait"}
        BY <1>2, <2>3 DEF Runners
      <4> QED BY <1>1, <2>1, <2>3, <3>2, <4>1, <4>2 DEF OpeningHolds
    <3> QED BY <3>4, <3>5, <3>7, <3>8
  <2> QED BY <2>5, <2>6, <2>7
<1> QED BY <1>3, <1>4 DEF CheckOpen

\* A leg of the opening is answered.
LEMMA OpenLegStep ==
  ASSUME PairInv, NEW r \in Runners, NEW l \in Legs, OpenLeg(r, l)
  PROVE  PairInv'
<1> USE DEF PairInv
<1>1. PICK ok \in BOOLEAN, c \in 0..Qty :
        /\ OpenOrder(l, ok, c)
        /\ Set(r, [run[r] EXCEPT !.todo = @ \ {l}, !.want[l] = c,
                                 !.ok = IF ok THEN @ \cup {l} ELSE @])
  BY DEF OpenLeg
<1>2. /\ run[r].pc = "open" /\ l \in run[r].todo
      /\ UNCHANGED <<size, home, status, switch, lock, recon, kill>>
  BY DEF OpenLeg, trackerVars
<1>3. /\ r \in Policies /\ r # "manual" /\ lock = r /\ Busy(run[r])
      /\ \A q \in Policies \ {r} : run[q].pc \in {"idle", "wait"}
  BY <1>2, Owner
<1>4. /\ held' \in Sizes /\ ghost' \subseteq Legs /\ \A k \in Legs : held[k] <= held'[k]
      /\ book' \in BookType /\ book'.owed = book.owed /\ book.excuses \subseteq book'.excuses
      /\ \/ book'.excuses # {}
         \/ ok /\ c = Qty /\ held' = [held EXCEPT ![l] = @ + Qty]
         \/ ~ok /\ c = 0 /\ held' = held
  BY <1>1, OpenOrderStep DEF TypeInv
<1> DEFINE oks  == IF ok THEN run[r].ok \cup {l} ELSE run[r].ok
           task == [run[r] EXCEPT !.todo = @ \ {l}, !.want[l] = c, !.ok = oks]
<1>5. /\ task \in TaskType /\ task.pc = "open" /\ task.todo = run[r].todo \ {l}
      /\ task.ok = oks /\ task.want = [run[r].want EXCEPT ![l] = c]
  <2>1. run[r] \in TaskType
    BY Types DEF TypeInv
  <2>2. c \in Nat /\ oks \in SUBSET Legs
    BY <2>1, QtyAssumption DEF TaskType
  <2> DEFINE want == [run[r].want EXCEPT ![l] = c]
             todo == run[r].todo \ {l}
  <2>3. want \in Sizes /\ todo \subseteq Legs
    BY <2>1, <2>2 DEF TaskType, Sizes
  <2> HIDE DEF oks
  <2>4. task = [run[r] EXCEPT !.todo = todo, !.want = want, !.ok = oks]
    BY <2>1 DEF TaskType
  <2> HIDE DEF want, todo, task
  <2>5. /\ task \in TaskType /\ task.pc = run[r].pc /\ task.todo = todo /\ task.ok = oks
        /\ task.want = want
    BY <2>1, <2>2, <2>3, <2>4 DEF TaskType
  <2> QED BY <1>2, <2>5 DEF want, todo
<1>6. Set(r, task)
  BY <1>1
<1> HIDE DEF task
<1>7. /\ run' \in [Runners -> TaskType] /\ run'[r] = task /\ LockInv'
      /\ \A q \in Runners \ {r} : run'[q] = run[q]
  BY <1>2, <1>3, <1>5, <1>6, SetStep DEF Busy
<1>8. OwedHeld'
  <2>1. held \in Sizes /\ book.owed \in Sizes
    BY DEF TypeInv, TypeOK, Sizes
  <2> QED BY <1>4, <2>1 DEF TypeInv, OwedHeld, Sizes
<1>9. TypeInv'
  BY <1>2, <1>4, <1>7, <1>8, Types, TypesNext DEF TypeInv
<1>10. KillInv'
  BY <1>2, <1>4, <1>9, KillKept DEF TypeInv, TypeOK, Sizes
<1>11. LegInv'
  <2> SUFFICES ASSUME Clear' PROVE TrackerRight' /\ ClosesOnce' /\ OpensAlone' /\ OpeningHolds'
    BY DEF LegInv
  <2>1. TrackerRight /\ ClosesOnce /\ OpensAlone /\ OpeningHolds
    BY <1>2, <1>4 DEF LegInv, Clear
  <2>2. \/ ok /\ c = Qty /\ held' = [held EXCEPT ![l] = @ + Qty]
        \/ ~ok /\ c = 0 /\ held' = held
    BY <1>4 DEF Clear
  <2>3. TrackerRight'
    BY <1>3, <1>5, <1>7 DEF TrackerRight, NoOpening, Opening, Runners
  <2>4. ClosesOnce'
    BY <1>2, <1>5, <1>7, <2>1 DEF ClosesOnce, Closing
  <2>5. OpensAlone'
    <3>1. run'["manual"] = run["manual"] /\ size = None /\ run["manual"].pc = "idle"
      BY <1>2, <1>3, <1>7, <2>1 DEF OpensAlone, Opening, Runners
    <3> QED BY <1>2, <3>1 DEF OpensAlone
  <2>6. OpeningHolds'
    <3>1. \A q \in Policies \ {r} : run'[q].pc \in {"idle", "wait"}
      BY <1>3, <1>7 DEF Runners
    <3>2. held \in Sizes /\ run[r].want \in Sizes /\ Qty \in Nat
      BY Types, QtyAssumption DEF TypeInv, TaskType
    <3>3. \A k \in Legs :
            IF k \in run[r].ok
              THEN run[r].want[k] = Qty /\ held[k] = Qty /\ k \notin run[r].todo
              ELSE run[r].want[k] = 0 /\ held[k] = 0
      BY <1>2, <1>3, <2>1 DEF OpeningHolds
    <3>4. \A k \in Legs :
            IF k \in task.ok
              THEN task.want[k] = Qty /\ held'[k] = Qty /\ k \notin task.todo
              ELSE task.want[k] = 0 /\ held'[k] = 0
      <4>1. CASE ok /\ c = Qty /\ held' = [held EXCEPT ![l] = @ + Qty]
        BY <1>2, <1>5, <3>2, <3>3, <4>1 DEF Sizes
      <4>2. CASE ~ok /\ c = 0 /\ held' = held
        BY <1>2, <1>5, <3>2, <3>3, <4>2 DEF Sizes
      <4> QED BY <2>2, <4>1, <4>2
    <3> QED BY <1>5, <1>7, <3>1, <3>4 DEF OpeningHolds
  <2> QED BY <2>3, <2>4, <2>5, <2>6
<1> QED BY <1>9, <1>10, <1>11

\* A rollback or an opening is over: what is held is what the tracker then says.
LEMMA LegOpened ==
  ASSUME TypeInv, LegInv, NEW r \in Policies, run[r].pc \in Opening,
         run'[r] = IdleTask, \A q \in Runners \ {r} : run'[q] = run[q],
         Clear' => Clear /\ \A l \in Legs : held'[l] = size'[l]
  PROVE  LegInv'
<1> SUFFICES ASSUME Clear' PROVE TrackerRight' /\ ClosesOnce' /\ OpensAlone' /\ OpeningHolds'
  BY DEF LegInv
<1>1. TrackerRight /\ ClosesOnce /\ OpensAlone /\ OpeningHolds
  BY DEF LegInv
<1>2. IdleTask.pc = "idle" /\ run'[r].pc = "idle"
  BY InitTypes
<1>3. r \in Runners /\ run[r].pc \notin {"idle", "wait", "exit"}
  BY DEF Opening, Runners
<1>4. r # "manual" /\ \A q \in Policies \ {r} : run[q].pc \in {"idle", "wait"}
  BY <1>3, Owner
<1>5. run["manual"].pc = "idle"
  BY <1>1 DEF OpensAlone
<1>6. \A q \in Runners : run'[q].pc \in {"idle", "wait"}
  BY <1>2, <1>4, <1>5 DEF Runners
<1>7. \A q \in Runners : Done(q)' = {}
  BY <1>6 DEF Done, Closing
<1>8. TrackerRight'
  BY <1>7 DEF TrackerRight
<1> QED BY <1>6, <1>8 DEF ClosesOnce, OpensAlone, OpeningHolds, Closing, Opening, Runners

\* An opening goes on to its rollback.
LEMMA LegRollsBack ==
  ASSUME TypeInv, LegInv, NEW r \in Policies, run[r].pc \in Opening,
         run'[r].pc \in {"measure", "close", "residual"},
         \A q \in Runners \ {r} : run'[q] = run[q], UNCHANGED size,
         Clear' => /\ Clear
                   /\ run'[r].pc = "measure" => run'[r].want = held'
                   /\ run'[r].pc # "measure" => \A l \in Legs \ run'[r].todo : held'[l] = 0
  PROVE  LegInv'
<1> SUFFICES ASSUME Clear' PROVE TrackerRight' /\ ClosesOnce' /\ OpensAlone' /\ OpeningHolds'
  BY DEF LegInv
<1>1. TrackerRight /\ ClosesOnce /\ OpensAlone /\ OpeningHolds
  BY DEF LegInv
<1>2. r \in Runners /\ run[r].pc \notin {"idle", "wait", "exit"}
  BY DEF Opening, Runners
<1>3. r # "manual" /\ \A q \in Policies \ {r} : run[q].pc \in {"idle", "wait"}
  BY <1>2, Owner
<1>4. \A q \in Policies \ {r} : run'[q].pc \in {"idle", "wait"}
  BY <1>3 DEF Runners
<1>5. run'["manual"] = run["manual"] /\ run["manual"].pc = "idle" /\ size = None
  BY <1>1, <1>3 DEF OpensAlone, Runners
<1>6. TrackerRight'
  BY DEF TrackerRight, NoOpening, Opening
<1>7. ClosesOnce'
  BY <1>4, <1>5 DEF ClosesOnce, Closing, Runners
<1>8. OpensAlone'
  BY <1>5 DEF OpensAlone
<1>9. OpeningHolds'
  BY <1>4 DEF OpeningHolds
<1> QED BY <1>6, <1>7, <1>8, <1>9

\* Both legs are open, or the rollback begins.
LEMMA OpenEndsStep ==
  ASSUME PairInv, NEW r \in Runners, OpenEnds(r)
  PROVE  PairInv'
<1> USE DEF PairInv
<1>1. /\ run[r].pc = "open" /\ run[r].todo = {}
      /\ UNCHANGED <<held, ghost, switch, recon, kill, book>>
  BY DEF OpenEnds, exchangeVars
<1>2. /\ r \in Policies /\ r # "manual" /\ lock = r /\ Busy(run[r])
      /\ \A q \in Policies \ {r} : run[q].pc \in {"idle", "wait"}
  BY <1>1, Owner
<1>3. book \in BookType /\ run[r] \in TaskType
  BY Types DEF TypeInv
<1>4. Clear => \A l \in Legs : IF l \in run[r].ok THEN run[r].want[l] = Qty /\ held[l] = Qty
                               ELSE run[r].want[l] = 0 /\ held[l] = 0
  BY <1>1, <1>2 DEF LegInv, OpeningHolds
<1>5. CASE /\ run[r].ok = Legs /\ Return(r)
           /\ size' = [l \in Legs |-> Qty] /\ status' = "OPEN" /\ home' = Venue
  <2>1. /\ run' \in [Runners -> TaskType] /\ lock' \in Policies \cup {Nobody}
        /\ run'[r] = IdleTask /\ \A q \in Runners \ {r} : run'[q] = run[q]
        /\ LockInv'
    BY <1>5, ReturnStep
  <2>2. size' \in Sizes /\ \A l \in Legs : size'[l] = Qty
    BY <1>5, QtyAssumption DEF Sizes
  <2>3. TypeInv'
    BY <1>1, <1>5, <2>1, <2>2, Types, TypesNext DEF TypeInv, OwedHeld, Homes
  <2>4. LegInv'
    BY <1>1, <1>2, <1>4, <1>5, <2>1, <2>2, LegOpened DEF Opening, Clear
  <2> QED BY <1>1, <1>3, <2>3, <2>4, KillKept DEF BookType, Sizes
<1>6. CASE /\ Set(r, [run[r] EXCEPT !.pc = "measure", !.todo = Measured(run[r].ok)])
           /\ UNCHANGED <<size, home, status, lock>>
  <2> DEFINE task == [run[r] EXCEPT !.pc = "measure", !.todo = Measured(run[r].ok)]
  <2>1. task \in TaskType /\ task.pc = "measure" /\ task.want = run[r].want /\ Busy(task)
    <3>1. Measured(run[r].ok) \subseteq Legs
      BY <1>3 DEF Measured, TaskType
    <3> QED BY <1>3, <3>1 DEF TaskType, Busy
  <2>2. Set(r, task)
    BY <1>6
  <2> HIDE DEF task
  <2>3. /\ run' \in [Runners -> TaskType] /\ run'[r] = task /\ LockInv'
        /\ \A q \in Runners \ {r} : run'[q] = run[q]
    BY <1>2, <1>6, <2>1, <2>2, SetStep
  <2>4. TypeInv'
    BY <1>1, <1>6, <2>3, Types, TypesNext DEF TypeInv, OwedHeld
  <2>5. Clear => run[r].want = held
    <3>1. run[r].want \in Sizes /\ held \in Sizes
      BY Types DEF TypeInv, TaskType
    <3>2. Clear => \A l \in Legs : run[r].want[l] = held[l]
      BY <1>4
    <3> QED BY <3>1, <3>2 DEF Sizes
  <2>6. LegInv'
    BY <1>1, <1>2, <1>6, <2>1, <2>3, <2>5, LegRollsBack DEF Opening, Clear
  <2> QED BY <1>1, <1>3, <2>4, <2>6, KillKept DEF BookType, Sizes
<1> QED BY <1>5, <1>6 DEF OpenEnds, trackerVars

\* The rollback measures a leg.
LEMMA MeasureStep ==
  ASSUME PairInv, NEW r \in Runners, Measure(r)
  PROVE  PairInv'
<1> USE DEF PairInv
<1> DEFINE l == First(run[r].todo)
           left == run[r].todo \ {l}
<1>1. PICK n \in 0..held[l] :
        /\ Query(l, n)
        /\ LET want == [run[r].want EXCEPT ![l] = Larger(@, n)]
           IN IF left # {} THEN RolledBack(r, "measure", left, want)
              ELSE RolledBack(r, "close", {k \in Legs : want[k] > 0}, want)
  BY DEF Measure
<1>2. run[r].pc = "measure" /\ UNCHANGED <<held, ghost, size, home, switch, recon, kill>>
  BY DEF Measure, exchangeVars
<1>3. /\ r \in Policies /\ r # "manual" /\ lock = r /\ Busy(run[r])
      /\ \A q \in Policies \ {r} : run[q].pc \in {"idle", "wait"}
  BY <1>2, Owner
<1>4. run[r] \in TaskType /\ held \in Sizes /\ l \in Legs /\ left \in SUBSET Legs
  BY Types DEF TypeInv, First, Legs, TaskType
<1>5. /\ n \in Nat /\ book' \in BookType /\ book'.owed = book.owed
      /\ book.excuses \subseteq book'.excuses
      /\ "blind" \in book'.excuses \/ (n = held[l] /\ book' = book)
  BY <1>1, <1>4, QueryStep DEF TypeInv
<1> DEFINE want == [run[r].want EXCEPT ![l] = Larger(@, n)]
           todo == IF left # {} THEN left ELSE {k \in Legs : want[k] > 0}
           pc   == IF left # {} THEN "measure" ELSE "close"
<1>6. want \in Sizes
  BY <1>4, <1>5 DEF Larger, TaskType, Sizes
<1>7. Clear' => Clear /\ want = held
  <2>1. Clear' => Clear /\ n = held[l] /\ run[r].want = held
    BY <1>2, <1>3, <1>5 DEF Clear, LegInv, OpeningHolds
  <2> QED BY <1>4, <2>1 DEF Larger, Sizes
<1>8. /\ RolledBack(r, pc, todo, want)
      /\ pc \in {"measure", "close"} /\ todo \in SUBSET Legs
      /\ pc = "measure" => todo # {}
      /\ pc = "close" => todo = {k \in Legs : want[k] > 0}
  BY <1>1, <1>4
<1> HIDE DEF want, todo, pc
<1>9. /\ run' \in [Runners -> TaskType] /\ lock' \in Policies \cup {Nobody}
      /\ status' \in {"FLAT", "OPENING", "OPEN", "CLOSING"}
      /\ \A q \in Runners \ {r} : run'[q] = run[q]
      /\ \/ todo = {} /\ run'[r] = IdleTask
         \/ run'[r].pc = pc /\ run'[r].todo = todo /\ run'[r].want = want
      /\ LockInv'
  BY <1>2, <1>6, <1>8, RolledBackStep
<1>10. TypeInv'
  BY <1>2, <1>5, <1>9, Types, TypesNext DEF TypeInv, OwedHeld
<1>11. LegInv'
  <2>1. pc = "close" => \A k \in Legs \ todo : want[k] = 0
    BY <1>6, <1>8 DEF Sizes
  <2>2. CASE todo = {} /\ run'[r] = IdleTask
    <3>1. Clear' => \A k \in Legs : held'[k] = size'[k]
      <4>1. pc = "close"
        BY <1>8, <2>2
      <4>2. Clear' => size = None
        BY <1>2, <1>3, <1>7 DEF LegInv, OpensAlone, Opening
      <4> QED BY <1>2, <1>7, <2>1, <2>2, <4>1, <4>2 DEF None
    <3> QED BY <1>2, <1>3, <1>7, <1>9, <2>2, <3>1, LegOpened DEF Opening
  <2>3. CASE run'[r].pc = pc /\ run'[r].todo = todo /\ run'[r].want = want
    BY <1>2, <1>3, <1>7, <1>8, <1>9, <2>1, <2>3, LegRollsBack DEF Opening
  <2> QED BY <1>9, <2>2, <2>3
<1>12. KillInv'
  BY <1>2, <1>5, <1>10, KillKept DEF BookType, Sizes
<1> QED BY <1>10, <1>11, <1>12

\* The rollback closes a leg.
LEMMA CloseBackStep ==
  ASSUME PairInv, NEW r \in Runners, CloseBack(r)
  PROVE  PairInv'
<1> USE DEF PairInv
<1> DEFINE l == First(run[r].todo)
<1>1. PICK ok \in BOOLEAN : CloseOrder(l, run[r].want[l], ok, {})
  BY DEF CloseBack
<1>2. /\ run[r].pc = "close" /\ Set(r, [run[r] EXCEPT !.pc = "residual"])
      /\ UNCHANGED <<size, home, status, switch, lock, recon, kill>>
  BY DEF CloseBack, trackerVars
<1>3. /\ r \in Policies /\ r # "manual" /\ lock = r /\ Busy(run[r])
  BY <1>2, Owner
<1>4. run[r] \in TaskType /\ held \in Sizes /\ l \in Legs /\ run[r].want[l] \in Nat
  BY Types DEF TypeInv, First, Legs, TaskType, Sizes
<1>5. /\ held' \in Sizes /\ UNCHANGED ghost /\ \A k \in Legs : held'[k] <= held[k]
      /\ book' \in BookType /\ book.excuses \subseteq book'.excuses
      /\ OwedHeld' /\ \A k \in Legs : book'.owed[k] <= book.owed[k]
  BY <1>1, <1>4, CloseOrderStep DEF TypeInv
<1> DEFINE task == [run[r] EXCEPT !.pc = "residual"]
<1>6. /\ task \in TaskType /\ task.pc = "residual" /\ task.todo = run[r].todo /\ Busy(task)
      /\ Set(r, task)
  BY <1>2, <1>4 DEF TaskType, Busy
<1> HIDE DEF task
<1>7. /\ run' \in [Runners -> TaskType] /\ run'[r] = task /\ LockInv'
      /\ \A q \in Runners \ {r} : run'[q] = run[q]
  BY <1>2, <1>3, <1>6, SetStep
<1>8. TypeInv'
  BY <1>2, <1>5, <1>7, Types, TypesNext DEF TypeInv
<1>9. KillInv'
  BY <1>2, <1>5, <1>8, KillKept
<1>10. Clear' => Clear /\ \A k \in Legs \ run'[r].todo : held'[k] = 0
  <2>1. Clear' => Clear /\ \A k \in Legs \ run[r].todo : held[k] = 0
    BY <1>2, <1>3, <1>5 DEF Clear, LegInv, OpeningHolds
  <2> QED BY <1>4, <1>5, <1>6, <1>7, <2>1 DEF Sizes
<1>11. LegInv'
  BY <1>2, <1>3, <1>6, <1>7, <1>10, LegRollsBack DEF Opening
<1> QED BY <1>8, <1>9, <1>11

\* What is left of a leg is looked at, and trips its exchange.
LEMMA ResidualStep ==
  ASSUME PairInv, NEW r \in Runners, Residual(r)
  PROVE  PairInv'
<1> USE DEF PairInv
<1> DEFINE l    == First(run[r].todo)
           left == run[r].todo \ {l}
<1>1. PICK n \in 0..held[l] : /\ Query(l, n)
                             /\ switch' = [switch EXCEPT !.tripped = Tripped(l, n)]
  BY DEF Residual
<1>2. /\ run[r].pc = "residual" /\ RolledBack(r, "close", left, run[r].want)
      /\ UNCHANGED <<held, ghost, size, home, recon, kill>>
  BY DEF Residual, exchangeVars
<1>3. /\ r \in Policies /\ r # "manual" /\ lock = r /\ Busy(run[r])
  BY <1>2, Owner
<1>4. /\ run[r] \in TaskType /\ held \in Sizes /\ l \in Legs /\ left \in SUBSET Legs
      /\ run[r].want \in Sizes /\ switch \in SwitchType
  BY Types DEF TypeInv, First, Legs, TaskType
<1>5. /\ n \in Nat /\ book' \in BookType /\ book'.owed = book.owed
      /\ book.excuses \subseteq book'.excuses
      /\ "blind" \in book'.excuses \/ (n = held[l] /\ book' = book)
  BY <1>1, <1>4, QueryStep DEF TypeInv
<1>6. /\ switch' \in SwitchType
      /\ switch'.tripped = {} => switch.tripped = {} /\ n = 0
  <2>1. /\ Tripped(l, n) \in SUBSET Legs
        /\ Tripped(l, n) = {} => switch.tripped = {} /\ n = 0
    BY <1>4, <1>5 DEF Tripped, SwitchType
  <2>2. /\ switch' = [switch EXCEPT !.tripped = Tripped(l, n)]
    BY <1>1
  <2> QED BY <1>4, <2>1, <2>2 DEF SwitchType
<1>7. /\ run' \in [Runners -> TaskType] /\ lock' \in Policies \cup {Nobody}
      /\ status' \in {"FLAT", "OPENING", "OPEN", "CLOSING"}
      /\ \A q \in Runners \ {r} : run'[q] = run[q]
      /\ \/ left = {} /\ run'[r] = IdleTask
         \/ run'[r].pc = "close" /\ run'[r].todo = left
      /\ LockInv'
  <2>1. RolledBack(r, "close", left, run[r].want)
    BY <1>2
  <2> HIDE DEF left
  <2> QED BY <1>2, <1>4, <2>1, RolledBackStep
<1>8. TypeInv'
  BY <1>2, <1>5, <1>6, <1>7, Types, TypesNext DEF TypeInv, OwedHeld
<1>9. KillInv'
  BY <1>2, <1>5, <1>8, KillKept DEF BookType, Sizes
<1>10. Clear' => Clear /\ \A k \in Legs \ left : held'[k] = 0
  <2>1. Clear' => Clear /\ held[l] = 0
    BY <1>2, <1>5, <1>6 DEF Clear
  <2>2. Clear => \A k \in Legs \ run[r].todo : held[k] = 0
    BY <1>2, <1>3 DEF LegInv, OpeningHolds
  <2> QED BY <1>2, <2>1, <2>2
<1>11. CASE left = {} /\ run'[r] = IdleTask
  <2>1. Clear => size = None
    BY <1>2, <1>3 DEF LegInv, OpensAlone, Opening
  <2>2. Clear' => \A k \in Legs : held'[k] = size'[k]
    BY <1>2, <1>10, <1>11, <2>1 DEF None
  <2> QED BY <1>2, <1>3, <1>7, <1>8, <1>9, <1>10, <1>11, <2>2, LegOpened DEF Opening
<1>12. CASE run'[r].pc = "close" /\ run'[r].todo = left
  BY <1>2, <1>3, <1>7, <1>8, <1>9, <1>10, <1>12, LegRollsBack DEF Opening
<1> QED BY <1>7, <1>11, <1>12

\* A leg of an exit or of a reduction is answered.
LEMMA CloseLegStep ==
  ASSUME PairInv, NEW r \in Runners, NEW l \in Legs, CloseLeg(r, l)
  PROVE  PairInv'
<1> USE DEF PairInv
<1>1. PICK ok \in BOOLEAN :
        /\ IF run[r].astray THEN ~ok /\ UNCHANGED <<exchangeVars, book>>
           ELSE CloseOrder(l, run[r].want[l], ok, {"part"})
        /\ Set(r, [run[r] EXCEPT !.todo = @ \ {l}, !.ok = IF ok THEN @ \cup {l} ELSE @])
  BY DEF CloseLeg
<1>2. /\ run[r].pc \in Closing /\ l \in run[r].todo
      /\ UNCHANGED <<size, home, status, switch, lock, recon, kill>>
  BY DEF CloseLeg, Closing, trackerVars
<1>3. /\ run[r] \in TaskType /\ held \in Sizes /\ size \in Sizes
      /\ run[r].want \in Sizes /\ run[r].want[l] \in Nat
  BY Types DEF TypeInv, TaskType, Sizes
<1>4. /\ held' \in Sizes /\ UNCHANGED ghost
      /\ \A k \in Legs : held'[k] <= held[k] /\ (k # l => held'[k] = held[k])
      /\ book' \in BookType /\ book.excuses \subseteq book'.excuses
      /\ OwedHeld' /\ \A k \in Legs : book'.owed[k] <= book.owed[k]
      /\ \/ book'.excuses # {}
         \/ ok /\ run[r].want[l] <= held[l] /\ held'[l] = held[l] - run[r].want[l]
         \/ ~ok /\ held' = held
  <2>1. CASE run[r].astray
    <3>1. ~ok /\ UNCHANGED <<held, ghost, book>>
      BY <1>1, <2>1 DEF exchangeVars
    <3>2. book \in BookType /\ book.owed \in Sizes /\ OwedHeld
      BY Types DEF TypeInv, BookType
    <3> QED BY <1>3, <3>1, <3>2 DEF OwedHeld, Sizes
  <2>2. CASE ~run[r].astray
    <3>1. CloseOrder(l, run[r].want[l], ok, {"part"}) /\ {"part"} \in SUBSET Excuses
      BY <1>1, <2>2 DEF Excuses
    <3> QED BY <1>3, <3>1, CloseOrderStep DEF TypeInv
  <2> QED BY <2>1, <2>2
<1> DEFINE oks  == IF ok THEN run[r].ok \cup {l} ELSE run[r].ok
           task == [run[r] EXCEPT !.todo = @ \ {l}, !.ok = oks]
<1>5. /\ task \in TaskType /\ task.pc = run[r].pc /\ task.todo = run[r].todo \ {l}
      /\ task.ok = oks /\ task.want = run[r].want
  BY <1>3 DEF TaskType
<1>6. Set(r, task)
  BY <1>1
<1> HIDE DEF task
<1>7. /\ run' \in [Runners -> TaskType] /\ run'[r] = task /\ LockInv'
      /\ \A q \in Runners \ {r} : run'[q] = run[q]
  BY <1>2, <1>5, <1>6, SetStep DEF Busy, TypeInv, LockInv
<1>8. TypeInv'
  BY <1>2, <1>4, <1>7, Types, TypesNext DEF TypeInv
<1>9. KillInv'
  BY <1>2, <1>4, <1>8, KillKept
<1>10. LegInv'
  <2> SUFFICES ASSUME Clear' PROVE TrackerRight' /\ ClosesOnce' /\ OpensAlone' /\ OpeningHolds'
    BY DEF LegInv
  <2>1. TrackerRight /\ ClosesOnce /\ OpensAlone /\ OpeningHolds
    BY <1>2, <1>4 DEF LegInv, Clear
  <2>2. \A q \in Runners : run'[q].pc = run[q].pc /\ run'[q].want = run[q].want
    BY <1>5, <1>7
  <2>3. Busy(run[r]) /\ \A q \in Runners : run[q].pc \in Closing => Busy(run[q])
    BY <1>2 DEF Busy, Closing
  <2>4. NoOpening
    <3>1. CASE r = "manual"
      BY <1>2, <2>1, <3>1 DEF NoOpening, OpensAlone, Closing
    <3>2. CASE r \in Policies
      <4>1. \A q \in Policies \ {r} : run[q].pc \in {"idle", "wait"}
        BY <2>3, <3>2, OthersIdle
      <4> QED BY <1>2, <4>1 DEF NoOpening, Opening, Closing
    <3> QED BY <3>1, <3>2 DEF Runners
  <2>5. /\ \A k \in Legs : (\A q \in Runners : k \notin Done(q)) => held[k] = size[k]
        /\ \A q \in Runners : \A k \in Done(q) :
             /\ held[k] = size[k] - run[q].want[k]
             /\ \A p \in Runners \ {q} : k \notin Done(p)
    BY <2>1, <2>4 DEF TrackerRight
  <2>6. l \notin Done(r)
    BY <1>2, <2>1 DEF Done, ClosesOnce
  <2>7. \A q \in Runners \ {r} : Done(q)' = Done(q)
    BY <1>7 DEF Done
  <2>8. TrackerRight'
    <3>1. CASE ~ok /\ held' = held
      <4>1. Done(r)' = Done(r)
        BY <1>5, <1>7, <3>1 DEF Done
      <4> QED BY <1>2, <2>2, <2>5, <2>7, <3>1, <4>1 DEF TrackerRight
    <3>2. CASE /\ ok /\ run[r].want[l] = 0 /\ held'[l] = held[l] - run[r].want[l]
      <4>1. Done(r)' = Done(r)
        BY <1>5, <1>7, <3>2 DEF Done
      <4>2. \A k \in Legs : held'[k] = held[k]
        BY <1>3, <1>4, <3>2 DEF Sizes
      <4>3. \A q \in Runners : Done(q) \subseteq Legs
        BY DEF Done
      <4> QED BY <1>2, <2>2, <2>5, <2>7, <4>1, <4>2, <4>3 DEF TrackerRight
    <3>3. CASE /\ ok /\ run[r].want[l] > 0
               /\ run[r].want[l] <= held[l] /\ held'[l] = held[l] - run[r].want[l]
      <4>1. Done(r)' = Done(r) \cup {l}
        BY <1>2, <1>5, <1>7, <3>3 DEF Done
      <4>2. \A q \in Runners \ {r} : l \notin Done(q)
        <5> SUFFICES ASSUME NEW q \in Runners \ {r}, l \in Done(q) PROVE FALSE
          OBVIOUS
        <5>1. run[q].pc \in Closing /\ run[q].want[l] > 0 /\ run[q].want \in Sizes
          BY Types DEF Done, TypeInv, TaskType
        <5>2. r = "manual" \/ q = "manual"
          BY <2>3, <5>1, OneIsManual
        <5>3. held[l] = size[l] - run[q].want[l]
          BY <2>5
        <5>4. run["manual"].pc \in {"idle", "exit"}
          BY DEF TypeInv, LockInv
        <5>5. run[r].want[l] >= size[l] \/ run[q].want[l] >= size[l]
          BY <1>2, <2>1, <5>1, <5>2, <5>4 DEF ClosesOnce, Closing
        <5> QED BY <1>3, <3>3, <5>1, <5>3, <5>5 DEF Sizes
      <4>3. held[l] = size[l]
        BY <2>5, <2>6, <4>2
      <4>4. \A q \in Runners : Done(q) \subseteq Legs
        BY DEF Done
      <4>5. \A k \in Legs : (\A q \in Runners : k \notin Done(q)') => held'[k] = size'[k]
        BY <1>2, <1>4, <2>5, <2>7, <4>1
      <4>6. ASSUME NEW q \in Runners, NEW k \in Done(q)'
            PROVE  /\ held'[k] = size'[k] - run'[q].want[k]
                   /\ \A p \in Runners \ {q} : k \notin Done(p)'
        <5>1. CASE k = l
          <6>1. q = r
            BY <2>7, <4>2, <5>1
          <6> QED BY <1>2, <2>2, <2>7, <3>3, <4>2, <4>3, <5>1, <6>1
        <5>2. CASE k # l
          <6>1. k \in Done(q) /\ \A p \in Runners : k \in Done(p)' <=> k \in Done(p)
            BY <2>7, <4>1, <5>2
          <6> QED BY <1>2, <1>4, <2>2, <2>5, <4>4, <5>2, <6>1
        <5> QED BY <5>1, <5>2
      <4> QED BY <4>5, <4>6 DEF TrackerRight
    <3>4. run[r].want[l] = 0 \/ run[r].want[l] > 0
      BY <1>3
    <3> QED BY <1>4, <3>1, <3>2, <3>3, <3>4 DEF Clear
  <2>9. ClosesOnce'
    <3>1. task.todo \cap task.ok = {}
      BY <1>2, <1>5, <2>1 DEF ClosesOnce
    <3> QED BY <1>2, <1>7, <2>1, <2>2, <3>1 DEF ClosesOnce
  <2>10. OpensAlone' /\ OpeningHolds'
    <3>1. \A q \in Policies : run'[q].pc \notin Opening
      BY <2>2, <2>4 DEF NoOpening, Runners
    <3>2. \A q \in Policies : run[q].pc = "check" => run'[q] = run[q]
      BY <1>2, <1>7 DEF Closing, Runners
    <3> QED BY <2>1, <2>2, <3>1, <3>2 DEF OpensAlone, OpeningHolds, Opening, Runners
  <2> QED BY <2>8, <2>9, <2>10
<1> QED BY <1>8, <1>9, <1>10

\* Nothing is opened while lots are closed.
LEMMA ClosingAlone ==
  ASSUME TypeInv, OpensAlone, NEW r \in Runners, run[r].pc \in Closing
  PROVE  NoOpening
<1>1. CASE r = "manual"
  BY <1>1 DEF NoOpening, OpensAlone, Closing
<1>2. CASE r \in Policies
  <2>1. \A q \in Policies \ {r} : run[q].pc \in {"idle", "wait"}
    BY <1>2, OthersIdle DEF Busy, Closing
  <2> QED BY <2>1 DEF NoOpening, Opening, Closing
<1> QED BY <1>1, <1>2 DEF Runners

\* The tracker takes over what an exit or a reduction has closed.
LEMMA LegEnds ==
  ASSUME TypeInv, TypeInv', LegInv, NEW r \in Runners, run[r].pc \in Closing,
         run'[r] = IdleTask, \A q \in Runners \ {r} : run'[q] = run[q],
         UNCHANGED held, Clear' => Clear,
         Clear => \A l \in Legs :
           size'[l] = IF l \in run[r].ok THEN Larger(0, size[l] - run[r].want[l]) ELSE size[l]
  PROVE  LegInv'
<1> SUFFICES ASSUME Clear' PROVE TrackerRight' /\ ClosesOnce' /\ OpensAlone' /\ OpeningHolds'
  BY DEF LegInv
<1>1. Clear /\ TrackerRight /\ ClosesOnce /\ OpensAlone /\ OpeningHolds
  BY DEF LegInv
<1>2. NoOpening
  BY <1>1, ClosingAlone
<1>3. held \in Sizes /\ size \in Sizes /\ \A q \in Runners : run[q].want \in Sizes
  BY Types DEF TypeInv, TaskType
<1>4. /\ \A l \in Legs : (\A q \in Runners : l \notin Done(q)) => held[l] = size[l]
      /\ \A q \in Runners : \A l \in Done(q) :
           /\ held[l] = size[l] - run[q].want[l]
           /\ \A p \in Runners \ {q} : l \notin Done(p)
  BY <1>1, <1>2 DEF TrackerRight
<1>5. \A l \in Legs : l \in Done(r) => size'[l] = held[l]
  BY <1>1, <1>3, <1>4 DEF Done, Larger, Sizes
<1>6. \A l \in Legs : l \notin Done(r) => size'[l] = size[l]
  BY <1>1, <1>3 DEF Done, Larger, Sizes
<1>7. IdleTask.pc = "idle" /\ run'[r].pc = "idle"
  BY InitTypes
<1>8. Done(r)' = {} /\ \A q \in Runners \ {r} : Done(q)' = Done(q)
  BY <1>7 DEF Done, Closing
<1>9. TrackerRight'
  <2>1. ASSUME NEW l \in Legs, \A q \in Runners : l \notin Done(q)'
        PROVE  held'[l] = size'[l]
    BY <1>4, <1>5, <1>6, <1>8, <2>1
  <2>2. ASSUME NEW q \in Runners, NEW l \in Done(q)'
        PROVE  /\ held'[l] = size'[l] - run'[q].want[l]
               /\ \A p \in Runners \ {q} : l \notin Done(p)'
    <3>1. q # r /\ l \in Done(q) /\ l \in Legs
      BY <1>8 DEF Done
    <3> QED BY <1>4, <1>6, <1>8, <3>1
  <2> QED BY <2>1, <2>2 DEF TrackerRight
<1>10. ClosesOnce'
  <2>1. \A l \in Legs : size'[l] <= size[l]
    BY <1>1, <1>3 DEF Larger, Sizes
  <2>2. size' \in Sizes
    BY DEF TypeInv, TypeOK, Sizes
  <2>3. ASSUME NEW q \in Runners, run'[q].pc = "exit", NEW l \in Legs
        PROVE  run'[q].want[l] >= size'[l]
    <3>1. run'[q] = run[q] /\ run[q].want[l] >= size[l]
      BY <1>1, <1>7, <2>3 DEF ClosesOnce
    <3> QED BY <1>3, <2>1, <2>2, <3>1 DEF Sizes
  <2> QED BY <1>1, <1>7, <2>3 DEF ClosesOnce, Closing
<1>11. OpensAlone' /\ OpeningHolds'
  BY <1>1, <1>2, <1>7 DEF OpensAlone, OpeningHolds, NoOpening, Opening, Runners
<1> QED BY <1>9, <1>10, <1>11

\* An exit ends.
LEMMA ExitEndsStep ==
  ASSUME PairInv, NEW r \in Runners, ExitEnds(r)
  PROVE  PairInv'
<1> USE DEF PairInv
<1>1. /\ run[r].pc = "exit" /\ Return(r)
      /\ size' = [l \in Legs |-> IF l \in run[r].ok THEN 0 ELSE size[l]]
      /\ status' \in {"FLAT", "CLOSING"}
      /\ UNCHANGED <<held, ghost, home, switch, recon, kill, book>>
  BY DEF ExitEnds, StatusAfterExit, exchangeVars
<1>2. size \in Sizes /\ run[r].want \in Sizes /\ book.owed \in Sizes
  BY Types DEF TypeInv, TaskType, BookType
<1>3. /\ run' \in [Runners -> TaskType] /\ lock' \in Policies \cup {Nobody}
      /\ run'[r] = IdleTask /\ \A q \in Runners \ {r} : run'[q] = run[q]
      /\ LockInv'
  BY <1>1, ReturnStep
<1>4. size' \in Sizes
  BY <1>1, <1>2 DEF Sizes
<1>5. TypeInv'
  BY <1>1, <1>3, <1>4, Types, TypesNext DEF TypeInv, OwedHeld
<1>6. Clear => \A l \in Legs :
        size'[l] = IF l \in run[r].ok THEN Larger(0, size[l] - run[r].want[l]) ELSE size[l]
  BY <1>1, <1>2 DEF LegInv, ClosesOnce, Larger, Sizes
<1>7. LegInv'
  BY <1>1, <1>3, <1>5, <1>6, LegEnds DEF Clear, Closing
<1> QED BY <1>1, <1>2, <1>5, <1>7, KillKept DEF Sizes

\* A reduction ends.
LEMMA ReduceEndsStep ==
  ASSUME PairInv, NEW r \in Runners, ReduceEnds(r)
  PROVE  PairInv'
<1> USE DEF PairInv
<1>1. /\ run[r].pc = "reduce" /\ Return(r)
      /\ size' = [l \in Legs |->
                    IF l \in run[r].ok THEN Larger(0, size[l] - run[r].want[l]) ELSE size[l]]
      /\ UNCHANGED <<held, ghost, status, home, switch, recon, kill, book>>
  BY DEF ReduceEnds, exchangeVars
<1>2. size \in Sizes /\ run[r].want \in Sizes /\ book.owed \in Sizes
  BY Types DEF TypeInv, TaskType, BookType
<1>3. /\ run' \in [Runners -> TaskType] /\ lock' \in Policies \cup {Nobody}
      /\ run'[r] = IdleTask /\ \A q \in Runners \ {r} : run'[q] = run[q]
      /\ LockInv'
  BY <1>1, ReturnStep
<1>4. size' \in Sizes
  BY <1>1, <1>2 DEF Larger, Sizes
<1>5. TypeInv'
  BY <1>1, <1>3, <1>4, Types, TypesNext DEF TypeInv, OwedHeld
<1>6. LegInv'
  BY <1>1, <1>3, <1>5, LegEnds DEF Clear, Closing
<1> QED BY <1>1, <1>2, <1>5, <1>6, KillKept DEF Sizes

\* A hold ends or becomes an exit, a pause ends.
LEMMA HoldEndsStep ==
  ASSUME PairInv, NEW r \in Runners, HoldEnds(r) \/ PauseEnds(r)
  PROVE  PairInv'
<1> USE DEF PairInv
<1>1. /\ run[r].pc \in {"hold", "cancel"}
      /\ (Return(r) /\ UNCHANGED status) \/ BeginExit(r)
      /\ UNCHANGED <<held, ghost, size, home, switch, recon, kill, book>>
  BY DEF HoldEnds, PauseEnds, exchangeVars, trackerVars
<1>2. r \in Policies /\ r # "manual" /\ lock = r
  BY <1>1, Owner
<1>3. IdleTask.pc = "idle" /\ book.owed \in Sizes
  BY InitTypes, Types DEF TypeInv, BookType
<1>4. /\ run' \in [Runners -> TaskType] /\ lock' \in Policies \cup {Nobody}
      /\ status' \in {"FLAT", "OPENING", "OPEN", "CLOSING"}
      /\ run'[r] \in {IdleTask, ExitTask} /\ \A q \in Runners \ {r} : run'[q] = run[q]
      /\ LockInv'
  <2>1. CASE Return(r) /\ UNCHANGED status
    BY <2>1, ReturnStep, Types DEF TypeInv
  <2>2. CASE BeginExit(r)
    BY <1>2, <2>2, BeginExitStep
  <2> QED BY <1>1, <2>1, <2>2
<1>5. TypeInv'
  BY <1>1, <1>4, Types, TypesNext DEF TypeInv, OwedHeld
<1>6. LegInv'
  BY <1>1, <1>2, <1>3, <1>4, <1>5, LegBegins
<1> QED BY <1>1, <1>3, <1>5, <1>6, KillKept DEF Sizes

\* The close button begins an exit, beside a policy perhaps.
LEMMA ManualExitStep ==
  ASSUME PairInv, ManualExit
  PROVE  PairInv'
<1> USE DEF PairInv
<1> DEFINE b == [book EXCEPT !.manual = @ + 1]
<1>1. /\ run["manual"].pc = "idle" /\ BeginExit("manual") /\ book.manual < MaxManual
      /\ book' = IF lock = Nobody THEN b ELSE Excuse(b, "beside")
      /\ UNCHANGED <<held, ghost, size, home, switch, recon, kill>>
  BY DEF ManualExit, exchangeVars
<1>2. book \in BookType /\ "manual" \in Runners /\ "manual" \notin Policies
  BY Types, PolicyAssumption DEF TypeInv, Runners
<1>3. b \in BookType /\ b.owed = book.owed /\ b.excuses = book.excuses
  BY <1>1, <1>2, BoundAssumption DEF BookType
<1> HIDE DEF b
<1>4. /\ book' \in BookType /\ book'.owed = book.owed /\ book.excuses \subseteq book'.excuses
      /\ lock = Nobody \/ book'.excuses # {}
  BY <1>1, <1>3, ExcuseType DEF Excuses
<1>5. IdleTask.pc = "idle"
  BY InitTypes
<1>6. /\ run' \in [Runners -> TaskType] /\ lock' \in Policies \cup {Nobody}
      /\ status' \in {"FLAT", "OPENING", "OPEN", "CLOSING"}
      /\ run'["manual"] \in {IdleTask, ExitTask}
      /\ \A q \in Runners \ {"manual"} : run'[q] = run[q]
      /\ LockInv'
  BY <1>1, <1>2, BeginExitStep
<1>7. TypeInv'
  BY <1>1, <1>4, <1>6, Types, TypesNext DEF TypeInv, OwedHeld
<1>8. LegInv'
  <2>1. CASE lock = Nobody
    BY <1>1, <1>2, <1>4, <1>5, <1>6, <1>7, <2>1, LegBegins
  <2>2. CASE book'.excuses # {}
    BY <2>2, LegExcused
  <2> QED BY <1>4, <2>1, <2>2
<1> QED BY <1>1, <1>2, <1>4, <1>7, <1>8, KillKept DEF BookType, Sizes

\* A coroutine proceeds.
LEMMA ProceedStep ==
  ASSUME PairInv, NEW r \in Runners, Proceed(r)
  PROVE  PairInv'
BY CheckOpenStep, OpenLegStep, OpenEndsStep, MeasureStep, CloseBackStep, ResidualStep,
   CloseLegStep, ExitEndsStep, ReduceEndsStep, HoldEndsStep DEF Proceed

\* The pause button, and the decision layer that wants out.
LEMMA ButtonStep ==
  ASSUME PairInv, TogglePause \/ Leave
  PROVE  PairInv'
<1> USE DEF PairInv
<1>1. /\ UNCHANGED <<held, ghost, size, home, status, run, lock, recon, kill>>
      /\ switch' \in SwitchType /\ switch'.tripped = switch.tripped
      /\ book' \in BookType /\ book'.excuses = book.excuses /\ book'.owed = book.owed
  <2>1. switch \in SwitchType /\ book \in BookType
    BY Types DEF TypeInv
  <2> QED BY <2>1 DEF TogglePause, Leave, SwitchType, BookType, exchangeVars, trackerVars
<1>2. TypeInv'
  BY <1>1, Types, TypesNext DEF TypeInv, OwedHeld, LockInv
<1>3. LegInv'
  BY <1>1, LegKept
<1> QED BY <1>1, <1>2, <1>3, KillKept DEF BookType, Sizes

\* The reconcile loop asks for the legs one after the other.
LEMMA ReconAsks ==
  ASSUME PairInv, ReconBinance \/ ReconBybit
  PROVE  PairInv'
<1> USE DEF PairInv
<1>1. PICK x \in {"binance", "bybit"} : Asked(x)
  BY DEF ReconBinance, ReconBybit
<1> DEFINE l == At(x)
<1>2. l \in Legs
  BY AtLegs
<1>8. PICK n \in 0..held[l] :
        Query(l, n) /\ recon' = [pc |-> x, seen |-> [recon.seen EXCEPT ![l] = n]]
  BY <1>1 DEF Asked
<1> HIDE DEF l
<1>3. UNCHANGED <<held, ghost, size, home, status, switch, run, lock, kill>>
  BY DEF ReconBinance, ReconBybit, exchangeVars, trackerVars
<1>4. /\ n \in Nat /\ book' \in BookType /\ book'.owed = book.owed
      /\ book.excuses \subseteq book'.excuses
  BY <1>2, <1>8, QueryStep DEF TypeInv
<1>5. recon' \in ReconType
  <2>1. recon.seen \in Sizes
    BY Types DEF TypeInv, ReconType
  <2>2. \A s \in Sizes : [s EXCEPT ![l] = n] \in Sizes
    BY <1>4 DEF Sizes
  <2> QED BY <1>1, <1>8, <2>1, <2>2 DEF ReconType
<1>6. TypeInv'
  BY <1>3, <1>4, <1>5, Types, TypesNext DEF TypeInv, OwedHeld, LockInv
<1>7. LegInv'
  BY <1>3, <1>4, LegKept
<1> QED BY <1>3, <1>4, <1>6, <1>7, KillKept DEF BookType, Sizes

\* The tracker takes over what the reconcile loop has seen.
LEMMA ReconApplies ==
  ASSUME PairInv, HomeInv, ReconApply
  PROVE  PairInv'
<1> USE DEF PairInv
<1>1. /\ Reconcile(recon.seen) /\ recon' = NoRecon /\ book' = Aged(book, recon.seen)
      /\ UNCHANGED <<held, ghost, switch, run, lock, kill>>
  BY DEF ReconApply, exchangeVars
<1>2. recon.seen \in Sizes /\ size \in Sizes /\ held \in Sizes
  BY Types DEF TypeInv, ReconType
<1>3. /\ size' \in Sizes /\ status' \in {"FLAT", "OPENING", "OPEN", "CLOSING"}
      /\ home' \in Homes /\ (recon.seen = None => size' = size)
      /\ home = Venue => \A l \in Legs : size'[l] \in {size[l], recon.seen[l]}
  BY <1>1, <1>2, ReconcileStep DEF TypeInv
<1>4. /\ book' \in BookType /\ book'.owed = book.owed /\ book.excuses \subseteq book'.excuses
      /\ book'.excuses # {} \/ (recon.seen = held /\ Quiet)
  BY <1>1, <1>2, AgedType DEF TypeInv
<1>5. TypeInv'
  BY <1>1, <1>3, <1>4, InitTypes, Types, TypesNext DEF TypeInv, OwedHeld, LockInv
<1>6. LegInv'
  <2>1. CASE book'.excuses # {}
    BY <2>1, LegExcused
  <2>2. CASE book'.excuses = {} /\ ~Clear
    BY <1>1, <1>4, <2>2 DEF LegInv, Clear
  <2>3. CASE book'.excuses = {} /\ Clear
    <3>1. recon.seen = held /\ lock = Nobody /\ run["manual"].pc = "idle"
      BY <1>4, <2>3 DEF Quiet
    <3>2. \A q \in Runners : run[q].pc \in {"idle", "wait"}
      BY <3>1, PolicyAssumption DEF TypeInv, LockInv, Busy, Runners, Nobody
    <3>3. \A l \in Legs : held[l] = size[l]
      BY <2>3, <3>2 DEF LegInv, TrackerRight, NoOpening, Opening, Done, Closing, Runners
    <3>4. size' = size
      <4>1. held = size
        BY <1>2, <3>3 DEF Sizes
      <4>2. CASE home = Nowhere
        BY <1>3, <3>1, <4>1, <4>2 DEF HomeInv
      <4>3. CASE home = Venue
        BY <1>2, <1>3, <3>1, <4>1, <4>3 DEF Sizes
      <4> QED BY <2>3, <4>2, <4>3 DEF HomeInv
    <3> QED BY <1>1, <1>4, <3>4, LegKept
  <2> QED BY <2>1, <2>2, <2>3
<1> QED BY <1>1, <1>2, <1>4, <1>5, <1>6, KillKept DEF BookType, Sizes

\* The kill-all begins; it owes what is held.
LEMMA KillBeginsStep ==
  ASSUME PairInv, KillBegins
  PROVE  PairInv'
<1> USE DEF PairInv
<1>1. /\ kill' = [NoKill EXCEPT !.pc = "fetch"] /\ switch' = [switch EXCEPT !.global = TRUE]
      /\ book' = [book EXCEPT !.owed = held]
      /\ UNCHANGED <<held, ghost, size, home, status, run, lock, recon>>
  BY DEF KillBegins, exchangeVars, trackerVars
<1>2. switch \in SwitchType /\ book \in BookType /\ held \in Sizes
  BY Types DEF TypeInv
<1>3. /\ switch' \in SwitchType /\ book' \in BookType /\ book'.owed = held
      /\ kill' \in KillType /\ kill'.pc = "fetch"
  BY <1>1, <1>2, InitTypes DEF SwitchType, BookType, KillType
<1>4. TypeInv'
  <2>1. OwedHeld'
    BY <1>1, <1>2, <1>3 DEF OwedHeld, Sizes
  <2> QED BY <1>1, <1>3, <2>1, Types, TypesNext DEF TypeInv, LockInv
<1>5. KillInv'
  BY <1>3 DEF KillInv, SeesOwed, CompletedMeansClosed
<1>6. LegInv'
  BY <1>3, LegExcused
<1> QED BY <1>4, <1>5, <1>6

\* The kill-all goes on to its next leg.
LEMMA NextLegType ==
  ASSUME kill \in KillType, NEW pc \in {"fetch", "confirm"}, NEW after \in {"confirm", "report"}
  PROVE  /\ NextLeg(pc, after) \in KillType /\ NextLeg(pc, after).seen = kill.seen
         /\ \/ /\ kill.leg = At("binance") /\ NextLeg(pc, after).pc = pc
               /\ NextLeg(pc, after).leg = At("bybit")
            \/ /\ kill.leg = At("bybit") /\ NextLeg(pc, after).pc = after
               /\ NextLeg(pc, after).leg = At("binance")
<1> DEFINE x == At("binance")
           y == At("bybit")
<1>1. Legs = {x, y} /\ x # y
  BY AtLegs
<1>2. NextLeg(pc, after) = IF kill.leg = x THEN [kill EXCEPT !.pc = pc, !.leg = y]
                           ELSE [kill EXCEPT !.pc = after, !.leg = x]
  BY DEF NextLeg
<1> HIDE DEF x, y
<1>3. /\ NextLeg(pc, after) \in KillType /\ NextLeg(pc, after).seen = kill.seen
      /\ \/ kill.leg = x /\ NextLeg(pc, after).pc = pc /\ NextLeg(pc, after).leg = y
         \/ kill.leg = y /\ NextLeg(pc, after).pc = after /\ NextLeg(pc, after).leg = x
  BY <1>1, <1>2 DEF KillType
<1> QED BY <1>3 DEF x, y

\* The kill-all asks for a leg and closes it.
LEMMA KillClosesStep ==
  ASSUME PairInv, KillFetches \/ KillCloses
  PROVE  PairInv'
<1> USE DEF PairInv
<1>1. /\ kill.pc \in {"fetch", "close"}
      /\ UNCHANGED <<size, home, status, switch, run, lock, recon>>
  BY DEF KillFetches, KillCloses, exchangeVars, trackerVars
<1>2. /\ kill \in KillType /\ kill.leg \in Legs /\ kill.seen \in Sizes
      /\ book \in BookType /\ held \in Sizes /\ ghost \subseteq Legs
  BY Types DEF TypeInv, KillType
<1>3. NextLeg("fetch", "confirm") \in KillType
      /\ \/ NextLeg("fetch", "confirm").pc = "fetch"
         \/ /\ NextLeg("fetch", "confirm").pc = "confirm"
            /\ NextLeg("fetch", "confirm").leg = At("binance")
  BY <1>2, NextLegType
<1>4. /\ held' \in Sizes /\ ghost' \subseteq Legs /\ book' \in BookType /\ OwedHeld'
      /\ kill' \in KillType
      /\ kill'.pc \in {"fetch", "close"} \/ (kill'.pc = "confirm" /\ kill'.leg = At("binance"))
  <2>1. CASE KillFetches
    <3>1. PICK n \in 0..held[kill.leg] :
            /\ Query(kill.leg, n)
            /\ kill' = IF n > 0 THEN [kill EXCEPT !.pc = "close", !.seen[kill.leg] = n]
                       ELSE NextLeg("fetch", "confirm")
      BY <2>1 DEF KillFetches
    <3>2. /\ n \in Nat /\ book' \in BookType /\ book'.owed = book.owed
      BY <1>2, <3>1, QueryStep DEF TypeInv
    <3> DEFINE seen == [kill.seen EXCEPT ![kill.leg] = n]
               next == [kill EXCEPT !.pc = "close", !.seen = seen]
    <3>3. seen \in Sizes
      BY <1>2, <3>2 DEF Sizes
    <3>4. kill' = IF n > 0 THEN next ELSE NextLeg("fetch", "confirm")
      BY <1>2, <3>1 DEF KillType
    <3>5. next \in KillType /\ next.pc = "close"
      <4> HIDE DEF seen
      <4> QED BY <1>2, <3>3 DEF KillType
    <3>6. UNCHANGED <<held, ghost>>
      BY <2>1 DEF KillFetches, exchangeVars
    <3> HIDE DEF next
    <3> QED BY <1>2, <1>3, <3>2, <3>4, <3>5, <3>6 DEF TypeInv, OwedHeld
  <2>2. CASE KillCloses
    <3>1. \/ UNCHANGED <<held, ghost, book>>
          \/ \E ok \in BOOLEAN : CloseOrder(kill.leg, kill.seen[kill.leg], ok, {})
      BY <2>2 DEF KillCloses, exchangeVars
    <3>2. kill.seen[kill.leg] \in Nat /\ kill' = NextLeg("fetch", "confirm")
      BY <1>2, <2>2 DEF Sizes, KillCloses
    <3>3. CASE UNCHANGED <<held, ghost, book>>
      BY <1>2, <1>3, <3>2, <3>3 DEF TypeInv, OwedHeld
    <3>4. CASE \E ok \in BOOLEAN : CloseOrder(kill.leg, kill.seen[kill.leg], ok, {})
      BY <1>2, <1>3, <3>2, <3>4, CloseOrderStep DEF TypeInv
    <3> QED BY <3>1, <3>3, <3>4
  <2> QED BY <2>1, <2>2
<1>5. TypeInv'
  BY <1>1, <1>4, Types, TypesNext DEF TypeInv, LockInv
<1>6. KillInv'
  BY <1>4, AtLegs DEF KillInv, SeesOwed, CompletedMeansClosed
<1> QED BY <1>4, <1>5, <1>6, LegExcused

\* It looks whether the legs are closed: where it sees nothing, it owes nothing.
LEMMA KillConfirmsStep ==
  ASSUME PairInv, KillConfirms
  PROVE  PairInv'
<1> USE DEF PairInv
<1>1. PICK n \in 0..held[kill.leg] :
        /\ Query(kill.leg, n)
        /\ kill' = [NextLeg("confirm", "report") EXCEPT !.seen[kill.leg] = n]
  BY DEF KillConfirms
<1>2. /\ kill.pc = "confirm"
      /\ UNCHANGED <<held, ghost, size, home, status, switch, run, lock, recon>>
  BY DEF KillConfirms, exchangeVars, trackerVars
<1>3. /\ kill \in KillType /\ kill.leg \in Legs /\ kill.seen \in Sizes
      /\ held \in Sizes /\ book.owed \in Sizes
  BY Types DEF TypeInv, KillType, BookType
<1>4. /\ n \in Nat /\ book' \in BookType /\ book'.owed = book.owed
      /\ book.excuses \subseteq book'.excuses
      /\ "blind" \in book'.excuses \/ n = held[kill.leg]
  BY <1>1, <1>3, QueryStep DEF TypeInv
<1> DEFINE x    == At("binance")
           y    == At("bybit")
           next == NextLeg("confirm", "report")
           seen == [kill.seen EXCEPT ![kill.leg] = n]
<1>5. /\ next \in KillType /\ next.seen = kill.seen
      /\ \/ kill.leg = x /\ next.pc = "confirm" /\ next.leg = y
         \/ kill.leg = y /\ next.pc = "report" /\ next.leg = x
  BY <1>3, NextLegType
<1>6. seen \in Sizes
  BY <1>3, <1>4 DEF Sizes
<1> HIDE DEF next
<1>7. kill' = [next EXCEPT !.seen = seen]
  BY <1>1, <1>5 DEF next, KillType
<1>8. \A l \in Legs : seen[l] = IF l = kill.leg THEN n ELSE kill.seen[l]
  BY <1>3 DEF Sizes
<1> HIDE DEF seen
<1>9. /\ kill' \in KillType /\ kill'.seen = seen
      /\ kill'.pc = next.pc /\ kill'.leg = next.leg
  BY <1>5, <1>6, <1>7 DEF KillType
<1>10. TypeInv'
  BY <1>2, <1>4, <1>9, Types, TypesNext DEF TypeInv, OwedHeld, LockInv
<1>11. KillInv'
  <2>1. "blind" \notin book'.excuses /\ n = 0 => book.owed[kill.leg] = 0
    BY <1>3, <1>4 DEF TypeInv, OwedHeld, Sizes
  <2>2. Legs = {x, y} /\ x # y
    BY AtLegs
  <2>3. CASE kill.leg = x
    <3>1. kill'.pc = "confirm" /\ kill'.leg = y /\ kill'.seen[x] = n
      BY <1>5, <1>8, <1>9, <2>2, <2>3
    <3> QED BY <1>4, <2>1, <2>3, <3>1 DEF KillInv, SeesOwed, CompletedMeansClosed
  <2>4. CASE kill.leg = y
    <3>1. kill'.pc = "report" /\ kill'.seen[y] = n /\ kill'.seen[x] = kill.seen[x]
      BY <1>5, <1>8, <1>9, <2>2, <2>4
    <3>2. "blind" \notin book'.excuses => (kill.seen[x] = 0 => book.owed[x] = 0)
      BY <1>2, <1>4, <2>4 DEF KillInv, SeesOwed
    <3>3. "blind" \notin book'.excuses => \A l \in Legs : kill'.seen[l] = 0 => book'.owed[l] = 0
      BY <1>4, <2>1, <2>2, <2>4, <3>1, <3>2
    <3> QED BY <3>1, <3>3 DEF KillInv, SeesOwed, CompletedMeansClosed
  <2> QED BY <1>3, <2>2, <2>3, <2>4
<1>12. LegInv'
  BY <1>5, <1>9, LegExcused
<1> QED BY <1>10, <1>11, <1>12

\* It reports.
LEMMA KillReportsStep ==
  ASSUME PairInv, KillReports
  PROVE  PairInv'
<1> USE DEF PairInv
<1>1. /\ kill.pc = "report" /\ Reconcile(kill.seen) /\ book' = Aged(book, kill.seen)
      /\ kill' = [kill EXCEPT !.pc = Verdict(kill.seen)]
      /\ UNCHANGED <<held, ghost, switch, run, lock, recon>>
  BY DEF KillReports, exchangeVars
<1>2. kill \in KillType /\ kill.seen \in Sizes /\ book.owed \in Sizes
  BY Types DEF TypeInv, KillType, BookType
<1>3. size' \in Sizes /\ status' \in {"FLAT", "OPENING", "OPEN", "CLOSING"} /\ home' \in Homes
  BY <1>1, <1>2, ReconcileStep DEF TypeInv
<1>4. /\ book' \in BookType /\ book'.owed = book.owed /\ book.excuses \subseteq book'.excuses
  BY <1>1, <1>2, AgedType DEF TypeInv
<1>5. /\ kill' \in KillType /\ kill'.pc \in {"COMPLETED", "PARTIAL_REMAINING"}
      /\ kill'.pc = "COMPLETED" => kill.seen = None
  BY <1>1, <1>2 DEF Verdict, KillType
<1>6. TypeInv'
  BY <1>1, <1>3, <1>4, <1>5, Types, TypesNext DEF TypeInv, OwedHeld, LockInv
<1>7. KillInv'
  <2>1. "blind" \notin book'.excuses /\ kill.seen = None => book.owed = None
    BY <1>1, <1>2, <1>4 DEF KillInv, SeesOwed, None, Sizes
  <2> QED BY <1>4, <1>5, <2>1 DEF KillInv, SeesOwed, CompletedMeansClosed
<1>8. LegInv'
  BY <1>5, LegExcused
<1> QED BY <1>6, <1>7, <1>8

\* An order that was given up fills after all, or never.
LEMMA GhostStep ==
  ASSUME PairInv, NEW l \in Legs, GhostEnds(l)
  PROVE  PairInv'
<1> USE DEF PairInv
<1>1. /\ ghost' = ghost \ {l}
      /\ UNCHANGED <<size, home, status, switch, run, lock, recon, kill>>
  BY DEF GhostEnds, trackerVars
<1>2. /\ book \in BookType /\ held \in Sizes /\ ghost \subseteq Legs
      /\ Qty \in Nat /\ book.owed \in Sizes
  BY Types, QtyAssumption DEF TypeInv, BookType
<1>3. /\ held' \in Sizes /\ book' \in BookType /\ book'.owed = book.owed
      /\ book.excuses \subseteq book'.excuses /\ OwedHeld'
      /\ held' = held \/ book'.excuses # {}
  <2>1. CASE UNCHANGED <<held, book>>
    BY <1>2, <2>1 DEF TypeInv, OwedHeld
  <2>2. CASE held' = [held EXCEPT ![l] = @ + Qty] /\ book' = Excuse(book, "unseen")
    <3>1. held' \in Sizes /\ \A k \in Legs : held[k] <= held'[k]
      BY <1>2, <2>2 DEF Sizes
    <3>2. /\ book' \in BookType /\ book'.owed = book.owed /\ "unseen" \in book'.excuses
          /\ book.excuses \subseteq book'.excuses
      BY <1>2, <2>2, ExcuseType DEF Excuses
    <3>3. OwedHeld'
      BY <1>2, <3>1, <3>2 DEF TypeInv, OwedHeld, Sizes
    <3> QED BY <3>1, <3>2, <3>3
  <2> QED BY <2>1, <2>2 DEF GhostEnds
<1>4. TypeInv'
  BY <1>1, <1>2, <1>3, Types, TypesNext DEF TypeInv, LockInv
<1>5. LegInv'
  <2>1. CASE book'.excuses # {}
    BY <2>1, LegExcused
  <2>2. CASE held' = held
    BY <1>1, <1>3, <2>2, LegKept
  <2> QED BY <1>3, <2>1, <2>2
<1> QED BY <1>1, <1>2, <1>3, <1>4, <1>5, KillKept DEF Sizes

\* Whatever is under way is lost.
LEMMA CrashStep ==
  ASSUME PairInv, Crash
  PROVE  PairInv'
<1> USE DEF PairInv
<1>1. /\ size' = None /\ status' = "FLAT" /\ home' = Nowhere /\ switch' = NoSwitch
      /\ run' = [r \in Runners |-> IdleTask] /\ lock' = Nobody
      /\ recon' = NoRecon /\ kill' = NoKill /\ held' = held /\ book.crashes < MaxCrashes
      /\ book' = Excuse([book EXCEPT !.crashes = @ + 1], "unseen")
  BY DEF Crash
<1>2. ghost' \subseteq Legs
  BY Types DEF Crash, TypeInv
<1> DEFINE b == [book EXCEPT !.crashes = @ + 1]
<1>3. b \in BookType /\ b.owed = book.owed /\ b.excuses = book.excuses
  BY <1>1, Types, BoundAssumption DEF TypeInv, BookType
<1> HIDE DEF b
<1>4. /\ book' \in BookType /\ book'.owed = book.owed /\ "unseen" \in book'.excuses
  BY <1>1, <1>3, ExcuseType DEF b, Excuses
<1>5. LockInv'
  BY <1>1, InitTypes, PolicyAssumption DEF LockInv, Busy, Runners, Nobody
<1>6. TypeInv'
  BY <1>1, <1>2, <1>4, <1>5, InitTypes, Types, TypesNext DEF TypeInv, OwedHeld, Homes
<1>7. KillInv'
  BY <1>1, InitTypes DEF KillInv, SeesOwed, CompletedMeansClosed
<1> QED BY <1>4, <1>6, <1>7, LegExcused

-----------------------------------------------------------------------------
(* The theorems *)

LEMMA PairInit == Init => PairInv
<1> SUFFICES ASSUME Init PROVE PairInv
  OBVIOUS
<1>1. /\ held = None /\ ghost = {} /\ size = None /\ status = "FLAT"
      /\ home = Nowhere /\ switch = NoSwitch
      /\ run = [r \in Runners |-> IdleTask] /\ lock = Nobody
      /\ recon = NoRecon /\ kill = NoKill
      /\ book = [faults |-> 0, opens |-> 0, crashes |-> 0, manual |-> 0, leaving |-> FALSE,
                 excuses |-> {}, owed |-> None]
  BY DEF Init
<1>2. book \in BookType /\ book.owed = None
  BY <1>1, InitTypes, BoundAssumption DEF BookType
<1>3. \A r \in Runners : run[r].pc = "idle"
  BY <1>1, InitTypes
<1>4. TypeInv
  <2>1. LockInv
    BY <1>1, <1>3, PolicyAssumption DEF LockInv, Busy, Runners, Nobody
  <2>2. OwedHeld
    BY <1>1, <1>2, InitTypes DEF OwedHeld
  <2> QED BY <1>1, <1>2, <2>1, <2>2, InitTypes, Types DEF TypeInv, Homes
<1>5. KillInv
  BY <1>1, InitTypes DEF KillInv, SeesOwed, CompletedMeansClosed
<1>6. LegInv
  BY <1>1, <1>3 DEF LegInv, TrackerRight, ClosesOnce, OpensAlone, OpeningHolds, Done,
     Closing, Opening, Runners
<1> QED BY <1>4, <1>5, <1>6 DEF PairInv

LEMMA PairStutter ==
  ASSUME PairInv, UNCHANGED vars
  PROVE  PairInv'
<1> USE DEF PairInv
<1>1. UNCHANGED <<held, ghost, size, home, status, switch, run, lock, recon, kill, book>>
  BY DEF vars, exchangeVars, trackerVars
<1>2. TypeInv'
  BY <1>1, Types, TypesNext DEF TypeInv, OwedHeld, LockInv
<1>3. LegInv'
  BY <1>1, LegKept
<1> QED BY <1>1, <1>2, <1>3, KillKept, Types DEF TypeInv, BookType, Sizes

\* Every step keeps the invariant.
LEMMA PairNext ==
  ASSUME PairInv, HomeInv, [Next]_vars
  PROVE  PairInv'
<1>1. ASSUME NEW r \in Policies, Start(r) PROVE PairInv'
  BY <1>1, StartStep
<1>2. ASSUME NEW r \in Policies, NEW a \in Actions, Ask(r, a) PROVE PairInv'
  BY <1>2, AskStep
<1>3. ASSUME NEW r \in Runners, Proceed(r) PROVE PairInv'
  BY <1>3, ProceedStep
<1>4. CASE ManualExit
  BY <1>4, ManualExitStep
<1>5. CASE TogglePause \/ Leave
  BY <1>5, ButtonStep
<1>6. CASE ReconStep
  BY <1>6, ReconAsks, ReconApplies DEF ReconStep
<1>7. CASE KillBegins
  BY <1>7, KillBeginsStep
<1>8. CASE KillStep
  BY <1>8, KillClosesStep, KillConfirmsStep, KillReportsStep DEF KillStep
<1>9. ASSUME NEW l \in Legs, GhostEnds(l) PROVE PairInv'
  BY <1>9, GhostStep
<1>10. CASE Crash
  BY <1>10, CrashStep
<1>11. CASE UNCHANGED vars
  BY <1>11, PairStutter
<1> QED BY <1>1, <1>2, <1>3, <1>4, <1>5, <1>6, <1>7, <1>8, <1>9, <1>10, <1>11 DEF Next

\* Excuses, trips and a kill-all stay until a crash, which excuses.
Stays ==
  /\ book.excuses \subseteq book'.excuses /\ switch.tripped \subseteq switch'.tripped
  /\ kill.pc = "off" \/ kill'.pc # "off"

\* A coroutine that begins, or goes on.
LEMMA RunnersStay ==
  ASSUME PairInv, NEW r \in Runners,
         \/ r \in Policies /\ Start(r)
         \/ r \in Policies /\ \E a \in Actions : Ask(r, a)
         \/ Proceed(r)
  PROVE  Stays
<1> USE DEF PairInv
<1>1. /\ book \in BookType /\ switch \in SwitchType /\ run \in [Runners -> TaskType]
      /\ run[r] \in TaskType /\ held \in Sizes
  BY Types DEF TypeInv
<1>2. ASSUME NEW b \in BookType, NEW e \in Excuses
      PROVE  b.excuses \subseteq Excuse(b, e).excuses
  BY <1>2, ExcuseType
<1>3. CASE r \in Policies /\ Start(r)
  BY <1>1, <1>3 DEF Start, StartOpen, StartExit, StartHold, StartReduce, StartPause, Stays,
       SwitchType
<1>4. CASE r \in Policies /\ \E a \in Actions : Ask(r, a)
  BY <1>1, <1>4 DEF Ask, Stays, BookType
<1>5. CASE CheckOpen(r)
  <2>1. Excuse(book, "over") \in BookType /\ book.excuses \subseteq Excuse(book, "over").excuses
    BY <1>1, ExcuseType DEF Excuses
  <2>2. \A b \in BookType : b.excuses \subseteq Excuse(b, "beside").excuses
    BY <1>2 DEF Excuses
  <2> QED BY <1>1, <1>5, <2>1, <2>2 DEF CheckOpen, Stays
<1>6. ASSUME NEW l \in Legs, OpenLeg(r, l) PROVE Stays
  BY <1>6, OpenOrderStep DEF OpenLeg, Stays, TypeInv
<1>7. CASE OpenEnds(r) \/ ExitEnds(r) \/ ReduceEnds(r) \/ HoldEnds(r) \/ PauseEnds(r)
  BY <1>7 DEF OpenEnds, ExitEnds, ReduceEnds, HoldEnds, PauseEnds, Stays
<1>9. CASE Measure(r)
  <2>1. PICK n \in 0..held[First(run[r].todo)] : Query(First(run[r].todo), n)
    BY <1>9 DEF Measure
  <2>2. First(run[r].todo) \in Legs
    BY DEF First, Legs
  <2> QED BY <1>9, <2>1, <2>2, QueryStep DEF Measure, Stays, TypeInv
<1>10. CASE CloseBack(r)
  <2>1. First(run[r].todo) \in Legs
    BY DEF First, Legs
  <2>2. run[r].want[First(run[r].todo)] \in Nat
    BY <1>1, <2>1 DEF TaskType, Sizes
  <2> QED BY <1>10, <2>1, <2>2, CloseOrderStep DEF CloseBack, Stays, TypeInv
<1>11. CASE Residual(r)
  <2>1. PICK n \in 0..held[First(run[r].todo)] :
          /\ Query(First(run[r].todo), n)
          /\ switch' = [switch EXCEPT !.tripped = Tripped(First(run[r].todo), n)]
    BY <1>11 DEF Residual
  <2>2. First(run[r].todo) \in Legs
    BY DEF First, Legs
  <2>3. book.excuses \subseteq book'.excuses
    BY <2>1, <2>2, QueryStep DEF TypeInv
  <2>4. switch.tripped \subseteq switch'.tripped
    BY <1>1, <2>1 DEF Tripped, SwitchType
  <2> QED BY <1>11, <2>3, <2>4 DEF Residual, Stays
<1>12. ASSUME NEW l \in Legs, CloseLeg(r, l) PROVE Stays
  <2>1. PICK ok \in BOOLEAN :
          IF run[r].astray THEN UNCHANGED <<exchangeVars, book>>
          ELSE CloseOrder(l, run[r].want[l], ok, {"part"})
    BY <1>12 DEF CloseLeg
  <2>2. run[r].want[l] \in Nat /\ {"part"} \in SUBSET Excuses
    BY <1>1 DEF TaskType, Sizes, Excuses
  <2>3. book.excuses \subseteq book'.excuses
    BY <2>1, <2>2, CloseOrderStep DEF TypeInv
  <2> QED BY <1>12, <2>3 DEF CloseLeg, Stays
<1> QED BY <1>3, <1>4, <1>5, <1>6, <1>7, <1>9, <1>10, <1>11, <1>12 DEF Proceed

\* The buttons, the reconcile loop, the kill-all and late fills.
LEMMA OthersStay ==
  ASSUME PairInv,
         \/ ManualExit \/ TogglePause \/ Leave \/ ReconStep \/ KillBegins \/ KillStep
         \/ \E l \in Legs : GhostEnds(l)
  PROVE  Stays
<1> USE DEF PairInv
<1>1. /\ book \in BookType /\ switch \in SwitchType /\ kill \in KillType /\ recon \in ReconType
      /\ kill.leg \in Legs /\ kill.seen \in Sizes /\ recon.seen \in Sizes
  BY Types DEF TypeInv, KillType, ReconType
<1>2. CASE ManualExit
  <2> DEFINE b == [book EXCEPT !.manual = @ + 1]
  <2>1. b \in BookType /\ b.excuses = book.excuses
    BY <1>1, <1>2, BoundAssumption DEF BookType, ManualExit
  <2>2. book' = IF lock = Nobody THEN b ELSE Excuse(b, "beside")
    BY <1>2 DEF ManualExit
  <2> HIDE DEF b
  <2>3. book.excuses \subseteq book'.excuses
    BY <2>1, <2>2, ExcuseType DEF Excuses
  <2> QED BY <1>2, <2>3 DEF ManualExit, Stays
<1>3. CASE TogglePause \/ Leave
  BY <1>1, <1>3 DEF TogglePause, Leave, Stays, BookType, SwitchType
<1>4. CASE ReconBinance \/ ReconBybit
  <2>1. \E x \in {"binance", "bybit"} : \E n \in 0..held[At(x)] : Query(At(x), n)
    BY <1>4 DEF ReconBinance, ReconBybit, Asked
  <2>2. book.excuses \subseteq book'.excuses
    BY <2>1, AtLegs, QueryStep DEF TypeInv
  <2> QED BY <1>4, <2>2 DEF ReconBinance, ReconBybit, Stays
<1>5. CASE ReconApply
  BY <1>1, <1>5, AgedType DEF ReconApply, Stays, TypeInv
<1>6. CASE KillBegins
  BY <1>1, <1>6, InitTypes DEF KillBegins, Stays, BookType, SwitchType
<1>7. ASSUME NEW pc \in {"fetch", "confirm"}, NEW after \in {"confirm", "report"}
      PROVE  NextLeg(pc, after) \in KillType /\ NextLeg(pc, after).pc # "off"
  BY <1>1, <1>7, NextLegType
<1>8. CASE KillFetches
  <2>1. PICK n \in 0..held[kill.leg] :
          /\ Query(kill.leg, n)
          /\ \/ kill' = [kill EXCEPT !.pc = "close", !.seen[kill.leg] = n]
             \/ kill' = NextLeg("fetch", "confirm")
    BY <1>8 DEF KillFetches
  <2>2. book.excuses \subseteq book'.excuses
    BY <1>1, <2>1, QueryStep DEF TypeInv
  <2>3. kill'.pc # "off"
    BY <1>1, <1>7, <2>1 DEF KillType
  <2> QED BY <1>8, <2>2, <2>3 DEF KillFetches, Stays
<1>9. CASE KillCloses
  <2>1. \/ UNCHANGED book
        \/ \E ok \in BOOLEAN : CloseOrder(kill.leg, kill.seen[kill.leg], ok, {})
    BY <1>9 DEF KillCloses
  <2>2. kill.seen[kill.leg] \in Nat
    BY <1>1 DEF Sizes
  <2>3. book.excuses \subseteq book'.excuses
    BY <1>1, <2>1, <2>2, CloseOrderStep DEF TypeInv
  <2> QED BY <1>7, <1>9, <2>3 DEF KillCloses, Stays
<1>10. CASE KillConfirms
  <2>1. PICK n \in 0..held[kill.leg] :
          /\ Query(kill.leg, n)
          /\ kill' = [NextLeg("confirm", "report") EXCEPT !.seen[kill.leg] = n]
    BY <1>10 DEF KillConfirms
  <2>2. book.excuses \subseteq book'.excuses
    BY <1>1, <2>1, QueryStep DEF TypeInv
  <2>3. kill'.pc # "off"
    BY <1>7, <2>1 DEF KillType
  <2> QED BY <1>10, <2>2, <2>3 DEF KillConfirms, Stays
<1>11. CASE KillReports
  <2>1. kill'.pc # "off"
    BY <1>1, <1>11 DEF KillReports, Verdict, KillType
  <2> QED BY <1>1, <1>11, <2>1, AgedType DEF KillReports, Stays, TypeInv
<1>12. ASSUME NEW l \in Legs, GhostEnds(l) PROVE Stays
  <2>1. "unseen" \in Excuses
    BY DEF Excuses
  <2> QED BY <1>1, <1>12, <2>1, ExcuseType DEF GhostEnds, Stays
<1> QED BY <1>2, <1>3, <1>4, <1>5, <1>6, <1>8, <1>9, <1>10, <1>11, <1>12 DEF ReconStep, KillStep

\* Labels and lots that stay, or labels put right.
LEMMA HomeKept ==
  ASSUME HomeInv, Stays, home' \in {home, Venue}, size = None => size' = None \/ home' = Venue
  PROVE  HomeInv'
BY DEF HomeInv, Stays, Clear, Venue, Default, Nowhere, Legs

\* An answer that is taken over: it puts a pair that was not known under the default
\* labels, and if nothing excuses it, it lists nothing that the tracker does not have.
LEMMA HomeReconciled ==
  ASSUME PairInv, HomeInv, ReconApply \/ KillReports
  PROVE  HomeInv'
<1> USE DEF PairInv
<1>1. Stays
  BY OthersStay DEF ReconStep, KillStep
<1>2. /\ held \in Sizes /\ size \in Sizes /\ recon.seen \in Sizes /\ kill.seen \in Sizes
      /\ kill \in KillType
  BY Types DEF TypeInv, ReconType, KillType
<1>3. PICK seen \in Sizes : /\ Reconcile(seen) /\ book' = Aged(book, seen)
                            /\ kill'.pc = "off" => UNCHANGED <<run, lock>>
  BY <1>2 DEF ReconApply, KillReports
<1>4. /\ seen = None => home' = home /\ size' = size
      /\ home = Venue => home' = home
      /\ home' = Nowhere => seen = None
  BY <1>3, ReconcileStep DEF TypeInv
<1>5. home' = Nowhere => size' = None
  BY <1>4 DEF HomeInv
<1>6. ASSUME Clear' PROVE home' \in {Nowhere, Venue}
  <2>1. Clear /\ book'.excuses = {}
    BY <1>1, <1>6 DEF Stays, Clear
  <2>2. seen = held /\ lock = Nobody /\ run["manual"].pc = "idle"
    BY <1>3, <2>1, AgedType DEF TypeInv, Quiet
  <2>3. \A q \in Runners : run[q].pc \in {"idle", "wait"}
    BY <2>2, PolicyAssumption DEF TypeInv, LockInv, Busy, Runners, Nobody
  <2>4. \A l \in Legs : held[l] = size[l]
    BY <2>1, <2>3 DEF LegInv, TrackerRight, NoOpening, Opening, Done, Closing, Runners
  <2>5. home = Nowhere => seen = None
    BY <1>2, <2>2, <2>4 DEF HomeInv, Sizes
  <2> QED BY <1>4, <2>1, <2>5 DEF HomeInv
<1> QED BY <1>5, <1>6 DEF HomeInv

\* Every step keeps the labels right.
LEMMA HomeNext ==
  ASSUME PairInv, HomeInv, [Next]_vars
  PROVE  HomeInv'
<1> USE DEF PairInv
<1>1. size \in Sizes /\ run \in [Runners -> TaskType] /\ \A r \in Runners : run[r].want \in Sizes
  BY Types DEF TypeInv, TaskType
<1>2. ASSUME NEW r \in Policies, Start(r) PROVE HomeInv'
  <2>1. home' \in {home, Venue} /\ size' = size
    BY <1>2 DEF Start, StartOpen, StartExit, StartHold, StartReduce, StartPause, Granted
  <2> QED BY <1>2, <2>1, RunnersStay, HomeKept DEF Runners
<1>3. ASSUME NEW r \in Policies, NEW a \in Actions, Ask(r, a) PROVE HomeInv'
  <2>1. UNCHANGED <<size, home>>
    BY <1>3 DEF Ask, trackerVars
  <2> QED BY <1>3, <2>1, RunnersStay, HomeKept DEF Runners
<1>4. ASSUME NEW r \in Runners, Proceed(r) PROVE HomeInv'
  <2>1. CASE ExitEnds(r) \/ ReduceEnds(r)
    <3>1. home' = home /\ size' \in [Legs -> Int]
          /\ \A l \in Legs : size'[l] \in {0, size[l], Larger(0, size[l] - run[r].want[l])}
      BY <1>1, <2>1 DEF ExitEnds, ReduceEnds, Larger, Sizes
    <3>2. size = None => size' = None
      BY <1>1, <3>1 DEF None, Larger, Sizes
    <3> QED BY <1>4, <3>1, <3>2, RunnersStay, HomeKept
  <2>2. CASE OpenEnds(r)
    <3>1. home' = Venue \/ UNCHANGED <<size, home>>
      BY <2>2 DEF OpenEnds, trackerVars
    <3> QED BY <1>4, <3>1, RunnersStay, HomeKept
  <2>3. CASE ~ExitEnds(r) /\ ~ReduceEnds(r) /\ ~OpenEnds(r)
    <3>1. UNCHANGED <<size, home>>
      BY <1>4, <2>3 DEF Proceed, CheckOpen, Measure, CloseBack, Residual, HoldEnds, PauseEnds,
           OpenLeg, CloseLeg, trackerVars
    <3> QED BY <1>4, <3>1, RunnersStay, HomeKept
  <2> QED BY <2>1, <2>2, <2>3
<1>5. CASE ReconApply \/ KillReports
  BY <1>5, HomeReconciled
<1>6. CASE \/ ManualExit \/ TogglePause \/ Leave \/ ReconBinance \/ ReconBybit
           \/ KillBegins \/ KillFetches \/ KillCloses \/ KillConfirms
           \/ \E l \in Legs : GhostEnds(l)
  <2>1. UNCHANGED <<size, home>>
    BY <1>6 DEF ManualExit, TogglePause, Leave, ReconBinance, ReconBybit, KillBegins,
         KillFetches, KillCloses, KillConfirms, GhostEnds, trackerVars
  <2>2. Stays
    BY <1>6, OthersStay DEF ReconStep, KillStep
  <2> QED BY <2>1, <2>2, HomeKept
<1>7. CASE Crash
  <2>1. size' = None /\ home' = Nowhere
    BY <1>7 DEF Crash
  <2> QED BY <2>1 DEF HomeInv
<1>8. CASE UNCHANGED vars
  <2>1. UNCHANGED <<size, home, book, switch, kill>>
    BY <1>8 DEF vars, trackerVars
  <2> QED BY <2>1 DEF HomeInv, Clear
<1> QED BY <1>2, <1>3, <1>4, <1>5, <1>6, <1>7, <1>8 DEF Next, ReconStep, KillStep

\* The invariant of the proofs.
LEMMA PairInvariant == Spec => [](PairInv /\ HomeInv)
<1>1. Init => PairInv /\ HomeInv
  BY PairInit DEF Init, HomeInv
<1>2. PairInv /\ HomeInv /\ [Next]_vars => PairInv' /\ HomeInv'
  BY PairNext, HomeNext
<1> QED BY <1>1, <1>2, PTL DEF Spec

\* Every variable of the pair keeps its type, and the history its bounds.
THEOREM TypeCorrect == Spec => []TypeOK
<1>1. PairInv => TypeOK
  BY DEF PairInv, TypeInv
<1> QED BY <1>1, PairInvariant, PTL

\* A kill-all of the pair that reports COMPLETED has closed every lot that was open from
\* its beginning to its end, whatever policies, reconciles, the close button and crashes
\* did beside it, and however many orders failed; only a failed position query excuses it.
THEOREM CompletedClosed == Spec => []CompletedMeansClosed
<1>1. PairInv => CompletedMeansClosed
  BY DEF PairInv, KillInv
<1> QED BY <1>1, PairInvariant, PTL

\* Legging risk: however failures, rollbacks, exits, reductions and reconciles interleave,
\* when nothing is on its way and nothing excuses a difference, the legs are equal or the
\* tracker or a tripped exchange says that they are not.
THEOREM NoLegAlone == Spec => []NoNakedLeg
<1>1. PairInv => NoNakedLeg
  <2> SUFFICES ASSUME PairInv, ~Working, book.excuses = {}, switch.tripped = {},
                      size["long"] = size["short"]
               PROVE  held["long"] = held["short"]
    BY DEF NoNakedLeg, Reported
  <2>1. Clear /\ lock = Nobody /\ run["manual"].pc = "idle"
    BY DEF Clear, Working, Quiet
  <2>2. \A r \in Runners : run[r].pc \in {"idle", "wait"}
    BY <2>1, PolicyAssumption DEF PairInv, TypeInv, LockInv, Busy, Runners, Nobody
  <2>3. \A l \in Legs : held[l] = size[l]
    BY <2>1, <2>2 DEF PairInv, LegInv, TrackerRight, NoOpening, Opening, Done, Closing, Runners
  <2> QED BY <2>3 DEF Legs
<1> QED BY <1>1, PairInvariant, PTL
=============================================================================
