------------------------ MODULE EmergencyKillAllProofs ------------------------
(***************************************************************************)
(* Theorems about EmergencyKillAll, for every set of symbols and sides and *)
(* every bound: its types, and that a kill-all whose position queries      *)
(* answer reports COMPLETED only when it has closed what it started with.  *)
(***************************************************************************)
EXTENDS EmergencyKillAll, FiniteSetTheorems, TLAPS

-----------------------------------------------------------------------------
(* Types *)

BookType == [fills : 0..MaxFills, ops : 0..MaxOps, since : SUBSET Legs, owed : SUBSET Legs]
KillType == [pc : {"idle", "stop", "cancel", "fetch", "exit"}, by : Callers, size : Nat,
             round : 0..3, done : SUBSET Symbols, todo : SUBSET Symbols,
             found : SUBSET (Legs \X (1..MaxLots))]

\* Only the first two rounds of a kill-all close positions.
ClosesTwice == kill.pc = "exit" => kill.round < 3

\* The monitor does not ask for a second kill-all while its first one runs.
AsksOnce == kill.pc # "idle" /\ kill.by = "health" => "health" \notin waiting

TypeInv == TypeOK /\ ClosesTwice /\ AsksOnce

\* An operation is counted within its bound.
LEMMA OpType ==
  ASSUME TypeOK, Operate
  PROVE  Op(book) \in BookType
BY BoundAssumption DEF TypeOK, Operate, Op, BookType

\* Closing lots of a leg that has as many.
LEMMA CloseType ==
  ASSUME TypeOK, NEW l \in Legs, NEW a \in 1..MaxLots, a <= pos[l], Close(l, a)
  PROVE  pos' \in [Legs -> 0..MaxLots] /\ book' \in BookType
<1>1. pos' = [pos EXCEPT ![l] = pos[l] - a] /\ pos[l] - a \in 0..MaxLots
  BY BoundAssumption DEF Close, TypeOK
<1>2. CASE pos[l] = a
  <2>1. book' = [book EXCEPT !.since = @ \ {l}, !.owed = @ \ {l}] /\ book \in BookType
    BY <1>2 DEF Close, TypeOK, BookType
  <2>2. [book EXCEPT !.since = @ \ {l}, !.owed = @ \ {l}] \in BookType
    BY <2>1 DEF BookType
  <2> QED BY <1>1, <2>1, <2>2 DEF TypeOK
<1>3. CASE pos[l] # a
  BY <1>1, <1>3 DEF Close, TypeOK, BookType
<1> QED BY <1>2, <1>3

\* The next round of fetches.
LEMMA RoundType ==
  ASSUME TypeOK, NEW n \in 0..3, Round(n)
  PROVE  kill' \in KillType /\ kill'.pc = "fetch" /\ kill'.by = kill.by
BY DEF Round, TypeOK, KillType

\* How a kill-all ends: the monitor no longer waits for it.
LEMMA EndStep ==
  ASSUME TypeInv, kill.pc # "idle",
         NEW how \in {"raised", "completed", "partial"}, Ends(how)
  PROVE  TypeInv'
<1> USE DEF TypeOK, TypeInv, ClosesTwice, AsksOnce, Ends, exchangeVars, workerVars
<1>1. kill' = Idle /\ kill' \in KillType /\ kill'.pc = "idle"
  BY DEF Idle, KillType, Callers
<1>2. book' \in BookType
  BY DEF BookType
<1>3. health' = "killing" <=> "health" \in waiting
  BY DEF HealthAfter
<1>4. health' \in {"on", "killing", "off"}
  BY DEF HealthAfter
<1>5. waiting' = waiting /\ status' \in {"none", "raised", "completed", "partial"}
  OBVIOUS
<1> HIDE DEF Ends
<1> QED BY <1>1, <1>2, <1>3, <1>4, <1>5 DEF KillType, BookType, Ends, Legs

\* The step that preserves the types, one case per action.
LEMMA TypeStep ==
  ASSUME TypeInv, [Next]_vars
  PROVE  TypeInv'
<1> USE DEF TypeInv, ClosesTwice, AsksOnce, TypeOK, Legs, LegsOf, Callers, exchangeVars, workerVars, healthVars, killVars
<1>1. ASSUME NEW s \in Symbols, Quote(s) \/ Requote(s) PROVE TypeInv'
  <2>1. resting' \subseteq Legs
    BY <1>1 DEF Quote, Requote, Quotes
  <2>2. requoting' \subseteq workers
    BY <1>1 DEF Quote, Requote
  <2>3. UNCHANGED <<pos, workers, running, locked, healthVars, killVars, book>>
    BY <1>1 DEF Quote, Requote
  <2> QED BY <2>1, <2>2, <2>3
<1>2. ASSUME NEW l \in Legs, Fill(l) PROVE TypeInv'
  BY <1>2, BoundAssumption DEF Fill
<1>3. ASSUME NEW l \in Legs, Exit(l) PROVE TypeInv'
  <2>1. PICK a \in 1..pos[l] : Close(l, a)
    BY <1>3 DEF Exit
  <2>2. a \in 1..MaxLots /\ a <= pos[l]
    BY <2>1, BoundAssumption
  <2> QED BY <1>3, <2>1, <2>2, CloseType DEF Exit, BookType
<1>4. CASE Breach
  BY <1>4 DEF Breach
<1>5. CASE CheckHealth
  BY <1>5 DEF CheckHealth, Managed
<1>6. ASSUME NEW by \in Callers, KillStarts(by) PROVE TypeInv'
  <2>1. Cardinality(workers) \in Nat
    BY SymbolAssumption, FS_Subset, FS_CardinalityType
  <2>2. kill' \in KillType /\ kill'.pc = "stop" /\ kill'.by = by
    <3>1. kill' = [pc |-> "stop", by |-> by, size |-> Cardinality(workers), round |-> 0,
                   done |-> {}, todo |-> {}, found |-> {}]
      BY <1>6 DEF KillStarts, Idle
    <3> QED BY <2>1, <3>1 DEF KillType
  <2>3. book' \in BookType
    BY <1>6 DEF KillStarts, Managed, BookType
  <2> QED BY <1>6, <2>2, <2>3 DEF KillStarts, KillType, BookType
<1>7. ASSUME NEW s \in Symbols, StopWorker(s) PROVE TypeInv'
  BY <1>7 DEF StopWorker, Swept
<1>8. ASSUME NEW s \in Symbols, CancelAll(s) PROVE TypeInv'
  BY <1>8 DEF CancelAll
<1>9. ASSUME NEW s \in Symbols, Fetch(s) PROVE TypeInv'
  <2>1. PICK seen \in {OpenLegs(s)} \cup (IF FetchFaults THEN {{}} ELSE {}) :
          kill' = [kill EXCEPT !.todo = @ \ {s},
                               !.found = @ \cup {<<l, pos[l]>> : l \in seen}]
    BY <1>9 DEF Fetch
  <2>2. \A l \in seen : l \in Legs /\ pos[l] \in 1..MaxLots
    BY <2>1, BoundAssumption DEF OpenLegs
  <2>3. {<<l, pos[l]>> : l \in seen} \subseteq Legs \X (1..MaxLots)
    BY <2>2
  <2>4. kill' \in KillType /\ kill'.pc = kill.pc /\ kill'.by = kill.by
    BY <2>1, <2>3 DEF KillType
  <2> QED BY <1>9, <2>4 DEF Fetch, KillType
<1>10. CASE StopDone
  BY <1>10 DEF StopDone
<1>11. CASE KillRaises
  BY <1>11, EndStep DEF KillRaises
<1>12. CASE CancelDone
  BY <1>12, RoundType DEF CancelDone, KillType
<1>13. CASE FetchDone
  BY <1>13 DEF FetchDone
<1>14. ASSUME NEW l \in Legs, NEW a \in 1..MaxLots, ExitFound(l, a) PROVE TypeInv'
  <2>1. kill' \in KillType /\ kill'.pc = kill.pc /\ kill'.by = kill.by
    BY <1>14 DEF ExitFound, KillType
  <2>2. pos' \in [Legs -> 0..MaxLots] /\ book' \in BookType
    BY <1>14, CloseType DEF ExitFound, BookType
  <2> QED BY <1>14, <2>1, <2>2 DEF ExitFound, KillType, BookType
<1>15. CASE ExitDone
  <2>1. kill.round + 1 \in 0..3
    BY <1>15 DEF ExitDone
  <2> QED BY <1>15, <2>1, RoundType DEF ExitDone, KillType
<1>16. CASE KillEnds
  BY <1>16, EndStep DEF KillEnds, Verdict
<1>17. CASE OperatorKills
  BY <1>17, BoundAssumption DEF OperatorKills, Operate, Op
<1>18. CASE Reset
  <2>1. book' \in BookType
    <3>1. Op(book) \in BookType /\ book' = [Op(book) EXCEPT !.owed = {}]
      BY <1>18, OpType DEF Reset
    <3> HIDE DEF TypeInv
    <3> QED BY <3>1 DEF BookType
  <2> QED BY <1>18, <2>1 DEF Reset, BookType
<1>19. ASSUME NEW s \in Symbols, StartPair(s) \/ Register(s) PROVE TypeInv'
  BY <1>19, BoundAssumption DEF StartPair, Register, Starts, Operate, Op
<1>20. ASSUME NEW s \in Symbols, Delete(s) PROVE TypeInv'
  <2>1. book' \in BookType
    <3>1. Op(book) \in BookType
      BY <1>20, OpType DEF Delete
    <3>2. book' = [Op(book) EXCEPT !.since = @ \ LegsOf(s), !.owed = @ \ LegsOf(s)]
      BY <1>20 DEF Delete
    <3> DEFINE b == Op(book)
               b1 == [b EXCEPT !.since = @ \ LegsOf(s)]
    <3>3. b1 \in BookType
      BY <3>1 DEF BookType
    <3> HIDE DEF b
    <3>4. book' = [b1 EXCEPT !.owed = b.owed \ LegsOf(s)]
      BY <3>2 DEF b
    <3> HIDE DEF b1
    <3> QED BY <3>1, <3>3, <3>4 DEF BookType, b
  <2>2. kill' \in KillType /\ kill'.pc = kill.pc /\ kill'.by = kill.by
    BY <1>20 DEF Delete, KillType
  <2> QED BY <1>20, <2>1, <2>2 DEF Delete, Swept, Without, BookType, KillType
<1>21. ASSUME NEW s \in Symbols, LockPair(s) \/ UnlockPair(s) PROVE TypeInv'
  BY <1>21, BoundAssumption DEF LockPair, Swept, UnlockPair, Operate, Op
<1>22. CASE UNCHANGED vars
  BY <1>22 DEF vars
<1> QED
  BY <1>1, <1>2, <1>3, <1>4, <1>5, <1>6, <1>7, <1>8, <1>9, <1>10, <1>11, <1>12, <1>13,
     <1>14, <1>15, <1>16, <1>17, <1>18, <1>19, <1>20, <1>21, <1>22 DEF Next, KillStep

LEMMA TypeInvariant == Spec => []TypeInv
<1>1. Init => TypeInv
  <2> SUFFICES ASSUME Init PROVE TypeInv
    OBVIOUS
  <2>1. pos \in [Legs -> 0..MaxLots]
    BY BoundAssumption DEF Init
  <2>2. kill \in KillType /\ kill.pc = "idle"
    BY DEF Init, Idle, KillType, Callers
  <2>3. book \in BookType
    BY BoundAssumption DEF Init, BookType
  <2> QED BY <2>1, <2>2, <2>3 DEF Init, TypeInv, TypeOK, ClosesTwice, AsksOnce,
             KillType, BookType, Callers
<1>2. TypeInv /\ [Next]_vars => TypeInv'
  BY TypeStep
<1> QED BY <1>1, <1>2, PTL DEF Spec

\* Every reachable state has the types of TypeOK.
THEOREM TypeCorrect == Spec => []TypeOK
<1>1. TypeInv => TypeOK
  BY DEF TypeInv
<1> QED BY <1>1, TypeInvariant, PTL

-----------------------------------------------------------------------------
(* COMPLETED means closed *)

\* What has been open since the kill-all began still is, and is a worker's.
SinceOpen == \A l \in book.since : l[1] \in workers /\ pos[l] > 0

\* A round of fetches misses none of it: its symbol is still to be asked, or its size
\* has been found.
RoundCovers ==
  kill.pc = "fetch" =>
    \A l \in book.since : l[1] \in kill.todo \/ \E a \in 1..MaxLots : <<l, a>> \in kill.found

\* The inductive invariant behind CompletedMeansClosed.
ClosedInv == SinceOpen /\ RoundCovers /\ CompletedMeansClosed

\* Closing lots of a leg leaves what is still open.
LEMMA CloseKeepsSince ==
  ASSUME TypeOK, SinceOpen, NEW l \in Legs, NEW a \in 1..MaxLots, a <= pos[l], Close(l, a)
  PROVE  /\ book'.since \subseteq book.since
         /\ \A k \in book'.since : k[1] \in workers /\ pos'[k] > 0
<1>1. pos' = [pos EXCEPT ![l] = pos[l] - a] /\ pos[l] \in 0..MaxLots
  BY DEF Close, TypeOK
<1>2. CASE pos[l] = a
  <2>1. book'.since = book.since \ {l}
    BY <1>2 DEF Close, TypeOK
  <2> QED BY <1>1, <2>1 DEF SinceOpen, TypeOK
<1>3. CASE pos[l] # a
  <2>1. book' = book /\ pos'[l] > 0
    BY <1>1, <1>3, BoundAssumption DEF Close, TypeOK
  <2> QED BY <1>1, <2>1 DEF SinceOpen, TypeOK
<1> QED BY <1>2, <1>3

\* A round starts with every worker to be asked.
LEMMA RoundStarts ==
  ASSUME TypeInv, SinceOpen, NEW n \in 0..3, Round(n), UNCHANGED <<workers, book>>
  PROVE  RoundCovers'
<1>1. kill'.todo = workers
  BY DEF Round, TypeInv, TypeOK
<1> QED BY <1>1 DEF RoundCovers, SinceOpen

LEMMA ClosedStep ==
  ASSUME TypeInv, ClosedInv, ~FetchFaults, [Next]_vars
  PROVE  ClosedInv'
<1> USE DEF TypeInv, TypeOK, ClosedInv, SinceOpen, RoundCovers, CompletedMeansClosed,
           exchangeVars, workerVars, healthVars, killVars
<1>1. ASSUME NEW s \in Symbols, Quote(s) \/ Requote(s) PROVE ClosedInv'
  BY <1>1 DEF Quote, Requote
<1>2. ASSUME NEW l \in Legs, Fill(l) PROVE ClosedInv'
  <2>1. /\ pos' = [pos EXCEPT ![l] = pos[l] + 1] /\ book'.since = book.since
        /\ UNCHANGED <<workers, kill, status>>
    BY <1>2 DEF Fill
  <2>2. \A k \in book.since : pos'[k] > 0
    BY <2>1, BoundAssumption
  <2> QED BY <2>1, <2>2
<1>3. ASSUME NEW l \in Legs, Exit(l) PROVE ClosedInv'
  <2>1. PICK a \in 1..pos[l] : Close(l, a)
    BY <1>3 DEF Exit
  <2>2. a \in 1..MaxLots /\ a <= pos[l]
    BY <2>1, BoundAssumption
  <2> QED BY <1>3, <2>1, <2>2, CloseKeepsSince DEF Exit
<1>4. CASE Breach
  BY <1>4 DEF Breach
<1>5. CASE CheckHealth
  BY <1>5 DEF CheckHealth
<1>6. ASSUME NEW by \in Callers, KillStarts(by) PROVE ClosedInv'
  <2>1. book'.since = Managed /\ status' = "none" /\ kill'.pc = "stop"
    BY <1>6 DEF KillStarts, Idle
  <2> QED BY <1>6, <2>1 DEF KillStarts, Managed
<1>7. ASSUME NEW s \in Symbols, StopWorker(s) PROVE ClosedInv'
  BY <1>7 DEF StopWorker
<1>8. ASSUME NEW s \in Symbols, CancelAll(s) PROVE ClosedInv'
  BY <1>8 DEF CancelAll
<1>9. ASSUME NEW s \in Symbols, Fetch(s) PROVE ClosedInv'
  <2>1. /\ kill'.todo = kill.todo \ {s} /\ kill'.pc = "fetch"
        /\ kill'.found = kill.found \cup {<<l, pos[l]>> : l \in OpenLegs(s)}
    BY <1>9 DEF Fetch
  <2>2. ASSUME NEW l \in book.since, l[1] = s
        PROVE  \E a \in 1..MaxLots : <<l, a>> \in kill'.found
    <3>1. l \in OpenLegs(s) /\ pos[l] \in 1..MaxLots
      BY <2>2, BoundAssumption DEF OpenLegs, LegsOf, Legs
    <3> QED BY <2>1, <3>1
  <2> QED BY <1>9, <2>1, <2>2 DEF Fetch
<1>10. CASE StopDone
  BY <1>10 DEF StopDone
<1>11. CASE KillRaises
  BY <1>11 DEF KillRaises, Ends, Idle
<1>12. CASE CancelDone
  BY <1>12, RoundStarts DEF CancelDone
<1>13. CASE FetchDone
  BY <1>13 DEF FetchDone
<1>14. ASSUME NEW l \in Legs, NEW a \in 1..MaxLots, ExitFound(l, a) PROVE ClosedInv'
  <2>1. kill'.pc = "exit"
    BY <1>14 DEF ExitFound
  <2> QED BY <1>14, <2>1, CloseKeepsSince DEF ExitFound
<1>15. CASE ExitDone
  <2>1. kill.round + 1 \in 0..3
    BY <1>15 DEF ExitDone, ClosesTwice
  <2> QED BY <1>15, <2>1, RoundStarts DEF ExitDone
<1>16. CASE KillEnds
  <2>1. kill.found = {} => book.since = {}
    BY <1>16 DEF KillEnds
  <2> QED BY <1>16, <2>1 DEF KillEnds, Ends, Verdict, Idle
<1>17. CASE OperatorKills
  BY <1>17 DEF OperatorKills, Op
<1>18. CASE Reset
  BY <1>18 DEF Reset, Op
<1>19. ASSUME NEW s \in Symbols, StartPair(s) \/ Register(s) PROVE ClosedInv'
  BY <1>19 DEF StartPair, Register, Op
<1>20. ASSUME NEW s \in Symbols, Delete(s) PROVE ClosedInv'
  <2>1. book'.since = book.since \ LegsOf(s)
    BY <1>20 DEF Delete, Op
  <2>2. kill'.pc = kill.pc /\ kill'.todo = kill.todo /\ kill'.found = kill.found
    BY <1>20 DEF Delete
  <2>3. \A l \in book'.since : l[1] # s
    BY <2>1 DEF LegsOf, Legs
  <2> QED BY <1>20, <2>1, <2>2, <2>3 DEF Delete
<1>21. ASSUME NEW s \in Symbols, LockPair(s) \/ UnlockPair(s) PROVE ClosedInv'
  BY <1>21 DEF LockPair, UnlockPair, Op
<1>22. CASE UNCHANGED vars
  BY <1>22 DEF vars
<1> QED
  BY <1>1, <1>2, <1>3, <1>4, <1>5, <1>6, <1>7, <1>8, <1>9, <1>10, <1>11, <1>12, <1>13,
     <1>14, <1>15, <1>16, <1>17, <1>18, <1>19, <1>20, <1>21, <1>22 DEF Next, KillStep

\* When position queries do not fail, a kill-all that reports COMPLETED has closed every
\* position that was open when it began, for any number of symbols and operations.
THEOREM CompletedClosed ==
  ASSUME ~FetchFaults
  PROVE  Spec => []CompletedMeansClosed
<1>1. Init => ClosedInv
  BY DEF Init, Idle, ClosedInv, SinceOpen, RoundCovers, CompletedMeansClosed
<1>2. TypeInv /\ ClosedInv /\ [Next]_vars => ClosedInv'
  BY ClosedStep
<1>3. ClosedInv => CompletedMeansClosed
  BY DEF ClosedInv
<1> QED BY <1>1, <1>2, <1>3, TypeInvariant, PTL DEF Spec
=============================================================================
