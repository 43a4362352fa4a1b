-------------------------- MODULE WorkerQuotesProofs --------------------------
(***************************************************************************)
(* Theorems about WorkerQuotes, for every set of slots, mid prices and     *)
(* orders and every bound: its types, that a draining worker places at     *)
(* most the quotes of one requote, and that its coroutines never make two  *)
(* orders rest in one slot by themselves.                                  *)
(***************************************************************************)
EXTENDS WorkerQuotes, FiniteSetTheorems, TLAPS

-----------------------------------------------------------------------------
(* Types *)

RequoteType == [pc : {"idle", "sweep", "margin", "cancel"}, by : Syncers,
                todo : SUBSET OrderIds, place : SUBSET Quotes, sent : SUBSET OrderIds]
SweepType   == [pc : {"idle", "start", "run"}, todo : SUBSET OrderIds]
SyncType    == [pc : {"idle", "start", "fetched"}, seen : SUBSET OrderIds]
EventType   == [kind : {"order", "fill"}, id : OrderIds]
BookType    == [faults : 0..MaxFaults, ops : 0..MaxOps, sinceDrain : Nat, sincePause : Nat,
                excused : BOOLEAN]

\* The main loop does not go on while its sync has not answered.
LoopWaits == sync["loop"].pc # "idle" => loop = "sync"

\* No update is under way of an order that rests.
EventsFinal == \A e \in events : e.id \notin live

\* The requote places and sends only after its plan.
PlacesLast == requote.pc # "cancel" => requote.place = {} /\ requote.sent = {}

\* The inductive invariant behind TypeOK.
TypeInv == TypeOK /\ LoopWaits /\ EventsFinal /\ PlacesLast

\* A fault is counted within its bound.
LEMMA FaultType ==
  ASSUME TypeOK, Faulty
  PROVE  /\ Fault(book) \in BookType
         /\ [Fault(book) EXCEPT !.excused = TRUE] \in BookType
<1> DEFINE b == [book EXCEPT !.faults = book.faults + 1]
<1>1. b \in BookType /\ Fault(book) = b
  BY BoundAssumption DEF TypeOK, Faulty, Fault, BookType
<1> HIDE DEF b
<1> QED BY <1>1 DEF BookType

\* A fault leaves the other counts.
LEMMA FaultCounts ==
  ASSUME TypeOK, Faulty
  PROVE  /\ Fault(book).sinceDrain = book.sinceDrain
         /\ [Fault(book) EXCEPT !.excused = TRUE].sinceDrain = book.sinceDrain
<1> DEFINE b == Fault(book)
<1>1. b \in BookType /\ b.sinceDrain = book.sinceDrain
  BY FaultType DEF Fault, TypeOK
<1> HIDE DEF b
<1>2. [b EXCEPT !.excused = TRUE].sinceDrain = book.sinceDrain
  BY <1>1 DEF BookType
<1> QED BY <1>1, <1>2 DEF b

\* An operation is counted within its bound.
LEMMA OpType ==
  ASSUME TypeOK, Operate
  PROVE  /\ Op(book) \in BookType
         /\ Op(book).sinceDrain = book.sinceDrain
         /\ Op(book).sincePause = book.sincePause
         /\ Op(book).excused = book.excused
BY BoundAssumption DEF TypeOK, Operate, Op, BookType

\* A cancel, whatever it answers.
LEMMA CancelType ==
  ASSUME TypeInv, NEW i \in OrderIds, NEW ok \in BOOLEAN, Cancel(i, ok)
  PROVE  /\ live' \subseteq live /\ tracked' \subseteq tracked
         /\ events' \subseteq EventType
         /\ \A e \in events' : e.id \notin live'
         /\ book' \in BookType
<1>1. book \in BookType /\ [kind |-> "order", id |-> i] \in EventType
  BY DEF TypeInv, TypeOK, BookType, EventType
<1>2. Faulty => /\ Fault(book) \in BookType
                /\ [Fault(book) EXCEPT !.excused = TRUE] \in BookType
  BY FaultType DEF TypeInv
<1>3. events \subseteq EventType
  BY DEF TypeInv, TypeOK, EventType
<1>4. CASE live' = live \ {i} /\ events' = events \cup {[kind |-> "order", id |-> i]}
           /\ tracked' \subseteq tracked /\ book' \in BookType
  BY <1>1, <1>3, <1>4 DEF TypeInv, EventsFinal
<1>5. CASE UNCHANGED <<live, events>> /\ tracked' \subseteq tracked /\ book' \in BookType
  BY <1>3, <1>5 DEF TypeInv, EventsFinal
<1> QED BY <1>1, <1>2, <1>4, <1>5 DEF Cancel

\* A cancel counts as no quote.
LEMMA CancelCounts ==
  ASSUME TypeInv, NEW i \in OrderIds, NEW ok \in BOOLEAN, Cancel(i, ok)
  PROVE  book'.sinceDrain = book.sinceDrain
<1>1. Faulty => /\ Fault(book).sinceDrain = book.sinceDrain
                /\ [Fault(book) EXCEPT !.excused = TRUE].sinceDrain = book.sinceDrain
  BY FaultCounts DEF TypeInv
<1>2. \/ book' = book
      \/ Faulty /\ book' = Fault(book)
      \/ Faulty /\ book' = [Fault(book) EXCEPT !.excused = TRUE]
  BY Zenon DEF Cancel
<1> QED BY <1>1, <1>2, Zenon

\* Where the loop goes on after it has waited for a requote or a sync.
LEMMA LoopBackType ==
  ASSUME TypeInv, NEW by \in Syncers, LoopBack(by)
  PROVE  /\ loop' \in {"off", "idle", "wait", "requote", "sync"}
         /\ by = "loop" => loop' = "idle"
         /\ by # "loop" => loop' = loop
BY DEF LoopBack, TypeInv, TypeOK

\* A sweep that has been asked for.
LEMMA StartsType ==
  ASSUME TypeOK, NEW s \in Sweepers
  PROVE  [sweep EXCEPT ![s].pc = "start"] \in [Sweepers -> SweepType]
BY DEF TypeOK, SweepType

\* A placed quote has its slot and its mid price.
LEMMA QuoteType == AnyQuote \in Quotes
<1>1. \E s \in Slots, m \in Mids : [slot |-> s, mid |-> m] \in Quotes
  BY SlotAssumption DEF Quotes
<1> QED BY <1>1 DEF AnyQuote

\* What a quote that is sent adds to the two counts.
LEMMA CountType ==
  ASSUME NEW n \in Nat
  PROVE  OneMore(n) \in Nat /\ OneMore(n) <= n + 1
BY DEF OneMore

\* The order of a quote rests on the exchange, its answer is on its way.
LEMMA SendType ==
  ASSUME TypeInv, NEW q \in Quotes, NEW i \in Unused,
         Ready, q \in requote.place,
         live' = live \cup {i},
         quote' = [j \in OrderIds |-> CASE j = i -> q
                                        [] j \in Unused \ {i} -> AnyQuote
                                        [] OTHER -> quote[j]],
         requote' = [requote EXCEPT !.place = @ \ {q}, !.sent = {i}]
  PROVE  /\ i \in OrderIds
         /\ quote' \in [OrderIds -> Quotes]
         /\ requote' \in RequoteType
         /\ requote'.pc = "cancel" /\ requote'.by = requote.by
         /\ requote'.todo = requote.todo
         /\ requote'.place = requote.place \ {q} /\ requote'.sent = {i}
         /\ Cardinality(requote'.sent) <= 1
<1> USE DEF TypeInv, TypeOK
<1>1. i \in OrderIds
  BY DEF Unused
<1>2. quote' \in [OrderIds -> Quotes]
  <2> DEFINE f(j) == CASE j = i -> q [] j \in Unused \ {i} -> AnyQuote [] OTHER -> quote[j]
  <2>1. \A j \in OrderIds : f(j) \in Quotes
    BY QuoteType
  <2>2. quote' = [j \in OrderIds |-> f(j)]
    OBVIOUS
  <2> HIDE DEF f
  <2> QED BY <2>1, <2>2
<1>3. requote' = [pc |-> requote.pc, by |-> requote.by, todo |-> requote.todo,
                  place |-> requote.place \ {q}, sent |-> {i}]
  BY DEF RequoteType
<1>4. Cardinality({i}) <= 1
  <2>1. Cardinality({i}) = 1
    BY FS_Singleton, Zenon
  <2> QED BY <2>1
<1> QED BY <1>1, <1>2, <1>3, <1>4 DEF Ready, RequoteType

\* A step of the requote that touches neither the exchange nor what is tracked.
LEMMA InMemoryStep ==
  ASSUME TypeInv, UNCHANGED <<live, quote, events, tracked, flag, sweep, sync, book>>,
         requote' \in RequoteType, requote'.sent = requote.sent,
         loop' \in {"off", "idle", "wait", "requote", "sync"},
         (loop' = "requote") <=> (requote'.pc # "idle" /\ requote'.by = "loop"),
         sync["loop"].pc # "idle" => loop' = "sync",
         requote'.pc # "cancel" => requote'.place = {} /\ requote'.sent = {},
         spawned' \subseteq {"requote", "sync"}
  PROVE  TypeInv'
<1>1. TypeOK'
  BY DEF TypeInv, TypeOK, RequoteType
<1>2. LoopWaits' /\ EventsFinal' /\ PlacesLast'
  BY DEF TypeInv, LoopWaits, EventsFinal, PlacesLast
<1> QED BY <1>1, <1>2 DEF TypeInv

LEMMA TypeStep == TypeInv /\ [Next]_vars => TypeInv'
<1> SUFFICES ASSUME TypeInv, [Next]_vars
             PROVE  TypeInv'
  OBVIOUS
<1> USE DEF TypeInv, TypeOK, LoopWaits, EventsFinal, PlacesLast, exchangeVars
<1>1. CASE BreakerTrips
  <2>1. book' \in BookType
    BY <1>1, OpType DEF BreakerTrips
  <2>2. sweep' \in [Sweepers -> SweepType]
    BY <1>1 DEF BreakerTrips, SweepType
  <2> QED BY <1>1, <2>1, <2>2 DEF BreakerTrips, BookType, SweepType
<1>2. CASE BreakerRequote
  BY <1>2 DEF BreakerRequote
<1>3. ASSUME NEW i \in OrderIds, Fill(i) PROVE TypeInv'
  <2>1. \A e \in [kind : {"order", "fill"}, id : {i}] : e \in EventType /\ e.id = i
    BY DEF EventType
  <2> QED BY <1>3, <2>1 DEF Fill, EventType
<1>4. ASSUME NEW e \in events, HandleOrder(e) PROVE TypeInv'
  BY <1>4 DEF HandleOrder
<1>5. ASSUME NEW e \in events, HandleFill(e) PROVE TypeInv'
  BY <1>5 DEF HandleFill
<1>6. ASSUME NEW e \in events, LoseEvent(e) PROVE TypeInv'
  <2>1. book' \in BookType
    BY <1>6, FaultType DEF LoseEvent
  <2> QED BY <1>6, <2>1 DEF LoseEvent, BookType
<1>7. CASE LoopRequote
  BY <1>7 DEF LoopRequote
<1>8. ASSUME NEW by \in Syncers, Acquire(by) PROVE TypeInv'
  <2>1. /\ requote' \in RequoteType /\ requote'.pc # "idle" /\ requote'.by = by
        /\ requote'.pc # "cancel" /\ requote'.place = {} /\ requote'.sent = {}
    <3>1. CASE requote' = [IdleRequote EXCEPT !.pc = "sweep", !.by = by, !.todo = tracked]
      BY <3>1 DEF IdleRequote, RequoteType, Syncers
    <3>2. CASE requote' = [IdleRequote EXCEPT !.pc = "margin", !.by = by]
      BY <3>2 DEF IdleRequote, RequoteType, Syncers
    <3> QED BY <1>8, <3>1, <3>2 DEF Acquire
  <2>2. requote'.sent = requote.sent
    BY <1>8, <2>1 DEF Acquire
  <2>3. /\ UNCHANGED <<live, quote, events, tracked, flag, sweep, sync, book>>
        /\ requote.pc = "idle"
        /\ \/ by = "loop" /\ loop = "wait" /\ loop' = "requote" /\ UNCHANGED spawned
           \/ by = "task" /\ spawned' = spawned \ {"requote"} /\ UNCHANGED loop
    BY <1>8 DEF Acquire
  <2>4. spawned' \subseteq {"requote", "sync"}
    BY <2>3
  <2>5. /\ loop' \in {"off", "idle", "wait", "requote", "sync"}
        /\ (loop' = "requote") <=> (requote'.pc # "idle" /\ requote'.by = "loop")
        /\ sync["loop"].pc # "idle" => loop' = "sync"
    BY <2>1, <2>3
  <2> HIDE DEF TypeInv
  <2> QED BY <2>1, <2>2, <2>3, <2>4, <2>5, InMemoryStep
<1>9. CASE Plan
  <2>1. CASE requote' = IdleRequote /\ LoopBack(requote.by)
    <3>1. requote' \in RequoteType /\ requote'.pc = "idle" /\ requote'.place = {}
          /\ requote'.sent = {}
      BY <2>1 DEF IdleRequote, RequoteType, Syncers
    <3>2. requote.by \in Syncers /\ requote.pc = "margin"
      BY <1>9 DEF Plan
    <3>3. requote'.sent = requote.sent
      BY <3>1, <3>2
    <3>4. UNCHANGED <<live, quote, events, tracked, flag, sweep, sync, spawned, book>>
      BY <1>9 DEF Plan
    <3>5. /\ loop' \in {"off", "idle", "wait", "requote", "sync"}
          /\ requote.by = "loop" => loop' = "idle"
          /\ requote.by # "loop" => loop' = loop
      BY <2>1, <3>2, LoopBackType
    <3>6. /\ loop' # "requote"
          /\ sync["loop"].pc # "idle" => loop' = "sync"
      BY <3>2, <3>5
    <3> HIDE DEF TypeInv
    <3> QED BY <3>1, <3>3, <3>4, <3>5, <3>6, InMemoryStep DEF TypeInv
  <2>2. ASSUME NEW mid \in Mids, NEW wanted \in SUBSET Slots, NEW keep \in SUBSET tracked,
               requote' = [requote EXCEPT !.pc = "cancel", !.todo = tracked \ keep,
                             !.place = Missing([slot : wanted, mid : {mid}], keep)],
               UNCHANGED loop
        PROVE  TypeInv'
    <3>1. Missing([slot : wanted, mid : {mid}], keep) \subseteq Quotes
      BY DEF Missing, Quotes
    <3>2. requote' = [pc |-> "cancel", by |-> requote.by, todo |-> tracked \ keep,
                      place |-> Missing([slot : wanted, mid : {mid}], keep),
                      sent |-> requote.sent]
      BY <2>2
    <3> HIDE DEF Missing
    <3>3. /\ requote' \in RequoteType /\ requote'.pc = "cancel"
          /\ requote'.by = requote.by /\ requote'.sent = requote.sent
      BY <3>1, <3>2 DEF RequoteType
    <3>4. /\ UNCHANGED <<live, quote, events, tracked, flag, sweep, sync, spawned, book>>
          /\ requote.pc = "margin"
      BY <1>9 DEF Plan
    <3>5. /\ loop' \in {"off", "idle", "wait", "requote", "sync"}
          /\ (loop' = "requote") <=> (requote'.pc # "idle" /\ requote'.by = "loop")
          /\ sync["loop"].pc # "idle" => loop' = "sync"
          /\ spawned' \subseteq {"requote", "sync"}
      BY <2>2, <3>3, <3>4
    <3> HIDE DEF TypeInv
    <3> QED BY <3>3, <3>4, <3>5, InMemoryStep
  <2>3. \/ requote' = IdleRequote /\ LoopBack(requote.by)
        \/ \E mid \in Mids, wanted \in SUBSET Slots, keep \in SUBSET tracked :
             /\ requote' = [requote EXCEPT !.pc = "cancel", !.todo = tracked \ keep,
                              !.place = Missing([slot : wanted, mid : {mid}], keep)]
             /\ UNCHANGED loop
    <3> HIDE DEF TypeInv, TypeOK, LoopWaits, EventsFinal, PlacesLast
    <3> QED BY <1>9, Zenon DEF Plan
  <2> HIDE DEF TypeInv
  <2> QED BY <2>1, <2>2, <2>3
<1>10. ASSUME NEW i \in OrderIds, RequoteCancels(i) PROVE TypeInv'
  <2>1. PICK ok \in BOOLEAN : Cancel(i, ok)
    BY <1>10 DEF RequoteCancels
  <2>2. /\ requote' \in RequoteType /\ requote'.pc = requote.pc /\ requote'.by = requote.by
        /\ requote'.place = requote.place /\ requote'.sent = requote.sent
    BY <1>10 DEF RequoteCancels, RequoteType
  <2>3. spawned' \subseteq {"requote", "sync"}
        /\ UNCHANGED <<quote, flag, loop, sweep, sync>>
    BY <1>10 DEF RequoteCancels
  <2>4. /\ live' \subseteq live /\ tracked' \subseteq tracked
        /\ events' \subseteq EventType /\ book' \in BookType
        /\ \A e \in events' : e.id \notin live'
    BY <2>1, CancelType
  <2> QED BY <2>2, <2>3, <2>4 DEF RequoteType, EventType, BookType
<1>11. ASSUME NEW q \in Quotes, Send(q) PROVE TypeInv'
  <2>1. PICK i \in Unused :
          /\ live' = live \cup {i}
          /\ quote' = [j \in OrderIds |-> CASE j = i -> q
                                            [] j \in Unused \ {i} -> AnyQuote
                                            [] OTHER -> quote[j]]
          /\ requote' = [requote EXCEPT !.place = @ \ {q}, !.sent = {i}]
    BY <1>11 DEF Send
  <2>2. Ready /\ q \in requote.place
    BY <1>11 DEF Send
  <2>3. /\ i \in OrderIds /\ quote' \in [OrderIds -> Quotes] /\ requote' \in RequoteType
        /\ requote'.pc = "cancel" /\ requote'.by = requote.by
        /\ Cardinality(requote'.sent) <= 1
    <3> HIDE DEF TypeInv, TypeOK, LoopWaits, EventsFinal, PlacesLast
    <3> QED BY <2>1, <2>2, SendType
  <2>4. requote.pc = "cancel"
    BY <2>2 DEF Ready
  <2>5. book' \in BookType
    <3> DEFINE n == IF flag.draining THEN OneMore(book.sinceDrain) ELSE 0
               m == IF flag.paused THEN OneMore(book.sincePause) ELSE 0
    <3>1. n \in Nat /\ m \in Nat
      BY CountType
    <3>2. book' = [book EXCEPT !.sinceDrain = n, !.sincePause = m]
      BY <1>11 DEF Send
    <3> HIDE DEF n, m
    <3>3. book' = [faults |-> book.faults, ops |-> book.ops, sinceDrain |-> n,
                   sincePause |-> m, excused |-> book.excused]
      BY <3>2
    <3> QED BY <3>1, <3>3 DEF BookType
  <2>6. \A e \in events : e.id # i
    BY DEF Unused, Referred
  <2>7. \A e \in events : e.id \notin live'
    BY <2>1, <2>6
  <2>8. UNCHANGED <<events, tracked, flag, loop, sweep, sync, spawned>>
    BY <1>11 DEF Send
  <2> QED BY <2>1, <2>3, <2>4, <2>5, <2>7, <2>8 DEF RequoteType, BookType
<1>12. ASSUME NEW q \in Quotes, Refuse(q) PROVE TypeInv'
  <2>1. requote' = [requote EXCEPT !.place = requote.place \ {q}] /\ requote.pc = "cancel"
    BY <1>12 DEF Refuse, Ready
  <2> QED BY <1>12, <2>1 DEF Refuse
<1>13. CASE Answer
  <2>1. requote' = [requote EXCEPT !.sent = {}] /\ Cardinality({}) = 0
    BY <1>13, FS_EmptySet DEF Answer
  <2>2. book' \in BookType
    BY <1>13, FaultType DEF Answer, BookType
  <2>3. tracked' \subseteq OrderIds
    BY <1>13 DEF Answer
  <2> QED BY <1>13, <2>1, <2>2, <2>3 DEF Answer, BookType
<1>14. CASE Release
  <2>1. /\ requote' \in RequoteType /\ requote'.pc = "idle"
        /\ requote'.place = {} /\ requote'.sent = requote.sent /\ requote'.sent = {}
    BY <1>14 DEF Release, IdleRequote, RequoteType, Syncers
  <2>2. requote.by \in Syncers /\ LoopBack(requote.by) /\ requote.pc # "idle"
    BY <1>14 DEF Release
  <2> QED BY <1>14, <2>1, <2>2, LoopBackType DEF Release, RequoteType, Syncers
<1>15. ASSUME NEW s \in Sweepers, SweepStarts(s) PROVE TypeInv'
  BY <1>15 DEF SweepStarts
<1>16. ASSUME NEW s \in Sweepers, SweepEnds(s) PROVE TypeInv'
  <2>1. sweep' \in [Sweepers -> SweepType]
    BY <1>16 DEF SweepEnds, IdleSweep, SweepType
  <2>2. flag' \in [running : BOOLEAN, paused : BOOLEAN, draining : BOOLEAN,
                   locked : BOOLEAN, tripped : BOOLEAN]
    BY <1>16 DEF SweepEnds
  <2> QED BY <1>16, <2>1, <2>2 DEF SweepEnds, SweepType
<1>17. ASSUME NEW s \in Sweepers, NEW i \in OrderIds, SweepCancels(s, i) PROVE TypeInv'
  <2>1. PICK ok \in BOOLEAN : Cancel(i, ok)
    BY <1>17 DEF SweepCancels
  <2>2. sweep' \in [Sweepers -> SweepType] /\ UNCHANGED <<quote, flag, loop, requote, sync, spawned>>
    BY <1>17 DEF SweepCancels, SweepType
  <2>3. /\ live' \subseteq live /\ tracked' \subseteq tracked
        /\ events' \subseteq EventType /\ book' \in BookType
        /\ \A e \in events' : e.id \notin live'
    BY <2>1, CancelType
  <2> QED BY <2>2, <2>3 DEF SweepType, EventType, BookType
<1>18. CASE LoopSync
  BY <1>18 DEF LoopSync, Syncers
<1>19. CASE TaskSync
  BY <1>19 DEF TaskSync, Syncers
<1>20. ASSUME NEW s \in Syncers, Fetch(s) PROVE TypeInv'
  <2>1. book' \in BookType
    BY <1>20, FaultType DEF Fetch, BookType
  <2>2. /\ sync' \in [Syncers -> SyncType]
        /\ sync'["loop"].pc # "idle" => loop = "sync"
    BY <1>20 DEF Fetch, SyncType, Syncers
  <2>3. UNCHANGED <<exchangeVars, tracked, flag, loop, requote, sweep, spawned>>
    BY <1>20 DEF Fetch
  <2> QED BY <2>1, <2>2, <2>3 DEF SyncType, BookType
<1>21. ASSUME NEW s \in Syncers, Adopt(s) PROVE TypeInv'
  <2>1. book' \in BookType
    BY <1>21 DEF Adopt, BookType
  <2>2. tracked' \subseteq OrderIds
    BY <1>21 DEF Adopt, Adopted
  <2>3. /\ sync' \in [Syncers -> SyncType]
        /\ sync'["loop"].pc # "idle" => loop' = "sync"
    BY <1>21, LoopBackType DEF Adopt, SyncType, IdleSync, Syncers
  <2>4. /\ loop' \in {"off", "idle", "wait", "requote", "sync"}
        /\ loop' = "requote" <=> loop = "requote"
    BY <1>21, LoopBackType DEF Adopt, Syncers
  <2>5. UNCHANGED <<exchangeVars, flag, requote, sweep, spawned>>
    BY <1>21 DEF Adopt
  <2> QED BY <2>1, <2>2, <2>3, <2>4, <2>5 DEF SyncType, BookType
<1>22. CASE Drain
  <2>1. book' \in BookType
    <3>1. Op(book) \in BookType /\ book' = [Op(book) EXCEPT !.sinceDrain = 0]
      BY <1>22, OpType DEF Drain
    <3> HIDE DEF TypeInv
    <3> QED BY <3>1 DEF BookType
  <2>2. sweep' \in [Sweepers -> SweepType]
    BY <1>22, StartsType DEF Drain, Sweepers
  <2> QED BY <1>22, <2>1, <2>2 DEF Drain, BookType, SweepType
<1>23. CASE Undrain
  BY <1>23 DEF Undrain
<1>24. CASE Pause
  <2>1. book' \in BookType
    <3>1. Op(book) \in BookType /\ book' = [Op(book) EXCEPT !.sincePause = 0]
      BY <1>24, OpType DEF Pause
    <3> HIDE DEF TypeInv
    <3> QED BY <3>1 DEF BookType
  <2> QED BY <1>24, <2>1 DEF Pause, BookType
<1>25. CASE Resume
  BY <1>25 DEF Resume
<1>26. CASE Stop
  <2>1. book' \in BookType
    <3>1. Op(book) \in BookType
          /\ book' = [Op(book) EXCEPT !.excused = @ \/ (requote.by = "loop" /\ requote.sent # {})]
      BY <1>26, OpType DEF Stop
    <3> HIDE DEF TypeInv
    <3> QED BY <3>1 DEF BookType
  <2>2. /\ requote' \in RequoteType /\ Cardinality(requote'.sent) <= 1
        /\ requote'.pc # "cancel" => requote'.place = {} /\ requote'.sent = {}
        /\ ~(requote'.pc # "idle" /\ requote'.by = "loop")
    BY <1>26, FS_EmptySet DEF Stop, Interrupted, IdleRequote, RequoteType, Syncers
  <2>3. sync' \in [Syncers -> SyncType] /\ sync'["loop"].pc = "idle"
    BY <1>26 DEF Stop, IdleSync, SyncType, Syncers
  <2>4. sweep' \in [Sweepers -> SweepType]
    BY <1>26, StartsType DEF Stop, Sweepers
  <2>5. UNCHANGED <<exchangeVars, tracked, spawned>> /\ loop' = "off"
        /\ flag' = [flag EXCEPT !.running = FALSE]
    BY <1>26 DEF Stop
  <2> QED BY <2>1, <2>2, <2>3, <2>4, <2>5 DEF RequoteType, SyncType, SweepType, BookType
<1>27. CASE Kill
  <2>1. book' \in BookType
    BY <1>27, OpType DEF Kill
  <2> QED BY <1>27, <2>1 DEF Kill, BookType, Sweepers
<1>28. CASE LoopEnds
  BY <1>28 DEF LoopEnds
<1>29. CASE Unlock
  BY <1>29 DEF Unlock
<1>30. CASE Start
  BY <1>30 DEF Start
<1>31. CASE UNCHANGED vars
  BY <1>31 DEF vars
<1> QED
  BY <1>1, <1>2, <1>3, <1>4, <1>5, <1>6, <1>7, <1>8, <1>9, <1>10, <1>11, <1>12, <1>13,
     <1>14, <1>15, <1>16, <1>17, <1>18, <1>19, <1>20, <1>21, <1>22, <1>23, <1>24, <1>25,
     <1>26, <1>27, <1>28, <1>29, <1>30, <1>31
  DEF Next, StreamStep, RequoteStep, SweepStep, SyncStep

LEMMA TypeInvariant == Spec => []TypeInv
<1>1. Init => TypeInv
  <2> SUFFICES ASSUME Init PROVE TypeInv
    OBVIOUS
  <2>1. quote \in [OrderIds -> Quotes]
    BY QuoteType DEF Init
  <2>2. requote \in RequoteType /\ Cardinality(requote.sent) <= 1 /\ requote.pc = "idle"
        /\ requote.place = {} /\ requote.sent = {}
    BY FS_EmptySet DEF Init, IdleRequote, RequoteType, Syncers
  <2>3. sweep \in [Sweepers -> SweepType] /\ sync \in [Syncers -> SyncType]
        /\ sync["loop"].pc = "idle"
    BY DEF Init, IdleSweep, IdleSync, SweepType, SyncType, Syncers
  <2>4. book \in BookType
    BY BoundAssumption DEF Init, BookType
  <2> QED BY <2>1, <2>2, <2>3, <2>4
          DEF Init, TypeInv, TypeOK, LoopWaits, EventsFinal, PlacesLast, RequoteType,
              SweepType, SyncType, BookType
<1>2. TypeInv /\ [Next]_vars => TypeInv'
  BY TypeStep
<1> QED BY <1>1, <1>2, PTL DEF Spec

\* Every reachable state of a worker's quotes has the types of TypeOK.
THEOREM TypeCorrect == Spec => []TypeOK
<1>1. TypeInv => TypeOK
  BY DEF TypeInv
<1> QED BY <1>1, TypeInvariant, PTL

-----------------------------------------------------------------------------
(* One quote per slot *)

\* What is to be placed has one quote per slot.
PlacedOnce == \A p, q \in requote.place : p.slot = q.slot => p = q

\* An order that rests is tracked, or its answer is on its way.
Known == live \subseteq tracked \cup requote.sent

\* An order in the slot of a quote that is to be placed is to be cancelled before.
MakesRoom ==
  requote.pc = "cancel" =>
    \A i \in live, q \in requote.place : quote[i].slot = q.slot => i \in requote.todo

\* The inductive invariant behind OneQuotePerSlot.
QuoteInv == PlacedOnce /\ (~book.excused => Known /\ MakesRoom /\ OneQuotePerSlot)

\* A plan has one quote per slot, and none in the slot of an order it keeps.
LEMMA PlanFits ==
  ASSUME NEW keep, NEW targets, Matches(keep, targets),
         \A p, q \in targets : p.slot = q.slot => p = q
  PROVE  /\ \A p, q \in Missing(targets, keep) : p.slot = q.slot => p = q
         /\ \A i \in keep, q \in Missing(targets, keep) : quote[i].slot # q.slot
<1>1. \A i \in keep : quote[i] \in targets
  BY DEF Matches
<1> QED BY <1>1 DEF Missing

\* A cancel brings no order and makes an exception for those it leaves.
LEMMA CancelKeepsKnown ==
  ASSUME TypeInv, NEW i \in OrderIds, NEW ok \in BOOLEAN, Cancel(i, ok), ~book'.excused
  PROVE  /\ ~book.excused
         /\ live' = live \ {i}
         /\ live' \cap tracked \subseteq tracked'
<1> DEFINE b == Fault(book)
<1>1. b \in [faults : Int, ops : 0..MaxOps, sinceDrain : Nat, sincePause : Nat, excused : BOOLEAN]
      /\ b.excused = book.excused
  BY DEF TypeInv, TypeOK, Fault
<1> HIDE DEF b
<1>2. [b EXCEPT !.excused = TRUE].excused
  BY <1>1
<1>3. book' # [b EXCEPT !.excused = TRUE]
  BY <1>2
<1>4. live \subseteq OrderIds /\ (live \ {i}) \cap tracked \subseteq tracked \ {i}
  BY DEF TypeInv, TypeOK
<1> QED BY <1>1, <1>3, <1>4 DEF Cancel, b

\* What a step that does not plan or send leaves of the orders and the plan.
LEMMA QuoteInvKept ==
  ASSUME TypeInv, QuoteInv, live' \subseteq live,
         \A i \in live' : quote'[i] = quote[i],
         requote'.place \subseteq requote.place,
         ~book'.excused => ~book.excused,
         ~book'.excused => live' \subseteq tracked' \cup requote'.sent,
         ~book'.excused /\ requote'.pc = "cancel" =>
           requote.pc = "cancel" /\ requote.todo \cap live' \subseteq requote'.todo
  PROVE  QuoteInv'
BY DEF QuoteInv, PlacedOnce, Known, MakesRoom, OneQuotePerSlot

LEMMA QuoteStep == TypeInv /\ QuoteInv /\ [Next]_vars => QuoteInv'
<1> SUFFICES ASSUME TypeInv, QuoteInv, [Next]_vars
             PROVE  QuoteInv'
  OBVIOUS
<1>0. book.excused \in BOOLEAN
  BY DEF TypeInv, TypeOK
<1>1. CASE BreakerTrips
  BY <1>1, OpType, QuoteInvKept DEF BreakerTrips, exchangeVars, QuoteInv, Known, TypeInv
<1>2. CASE BreakerRequote
  BY <1>2, QuoteInvKept DEF BreakerRequote, exchangeVars, QuoteInv, Known
<1>3. ASSUME NEW i \in OrderIds, Fill(i) PROVE QuoteInv'
  BY <1>3, QuoteInvKept DEF Fill, QuoteInv, Known
<1>4. ASSUME NEW e \in events, HandleOrder(e) PROVE QuoteInv'
  <2>1. e.id \notin live
    BY DEF TypeInv, EventsFinal
  <2> QED BY <1>4, <2>1, QuoteInvKept DEF HandleOrder, QuoteInv, Known
<1>5. ASSUME NEW e \in events, HandleFill(e) PROVE QuoteInv'
  BY <1>5, QuoteInvKept DEF HandleFill, QuoteInv, Known
<1>6. ASSUME NEW e \in events, LoseEvent(e) PROVE QuoteInv'
  <2>1. book'.excused = book.excused
    BY <1>6 DEF LoseEvent, Fault, TypeInv, TypeOK
  <2> QED BY <1>6, <2>1, QuoteInvKept DEF LoseEvent, QuoteInv, Known
<1>7. CASE LoopRequote
  BY <1>7, QuoteInvKept DEF LoopRequote, exchangeVars, QuoteInv, Known
<1>8. ASSUME NEW by \in Syncers, Acquire(by) PROVE QuoteInv'
  <2>1. requote'.pc # "cancel" /\ requote'.place = {}
    BY <1>8 DEF Acquire, IdleRequote
  <2>2. requote.pc = "idle" /\ requote.sent = {}
    BY <1>8 DEF Acquire, TypeInv, PlacesLast
  <2>3. UNCHANGED <<exchangeVars, tracked, book>>
    BY <1>8 DEF Acquire
  <2> QED BY <2>1, <2>2, <2>3, QuoteInvKept DEF exchangeVars, QuoteInv, Known
<1>9. CASE Plan
  <2>1. requote.pc = "margin" /\ requote.sent = {} /\ UNCHANGED <<exchangeVars, tracked, book>>
    BY <1>9 DEF Plan, TypeInv, PlacesLast
  <2>2. CASE requote' = IdleRequote
    <3>1. requote'.pc # "cancel" /\ requote'.place = {}
      BY <2>2 DEF IdleRequote
    <3> QED BY <2>1, <3>1, QuoteInvKept DEF exchangeVars, QuoteInv, Known
  <2>3. ASSUME NEW mid \in Mids, NEW wanted \in SUBSET Slots, NEW keep \in SUBSET tracked,
               NEW targets, targets = [slot : wanted, mid : {mid}], Matches(keep, targets),
               requote' = [requote EXCEPT !.pc = "cancel", !.todo = tracked \ keep,
                                          !.place = Missing(targets, keep)]
        PROVE  QuoteInv'
    <3> DEFINE place == Missing(targets, keep)
    <3>1. /\ \A p, q \in place : p.slot = q.slot => p = q
          /\ \A i \in keep, q \in place : quote[i].slot # q.slot
      <4>1. \A p, q \in targets : p.slot = q.slot => p = q
        BY <2>3
      <4>2. Matches(keep, targets)
        BY <2>3
      <4> QED BY <4>1, <4>2, PlanFits, Zenon
    <3> HIDE DEF place
    <3>2. requote'.pc = "cancel" /\ requote'.todo = tracked \ keep /\ requote'.place = place
          /\ requote'.sent = {}
      BY <2>1, <2>3 DEF TypeInv, TypeOK, place
    <3>3. ~book.excused => live \subseteq tracked
      BY <2>1 DEF QuoteInv, Known
    <3>4. PlacedOnce'
      BY <3>1, <3>2 DEF PlacedOnce
    <3>5. ~book.excused => Known' /\ MakesRoom'
      BY <2>1, <3>1, <3>2, <3>3 DEF exchangeVars, Known, MakesRoom
    <3> QED BY <2>1, <3>4, <3>5 DEF exchangeVars, QuoteInv, OneQuotePerSlot
  <2> QED BY <1>9, <2>2, <2>3 DEF Plan
<1>10. ASSUME NEW i \in OrderIds, RequoteCancels(i) PROVE QuoteInv'
  <2>1. PICK ok \in BOOLEAN : Cancel(i, ok)
    BY <1>10 DEF RequoteCancels
  <2>2. /\ requote'.pc = requote.pc /\ requote'.todo = requote.todo \ {i}
        /\ requote'.place = requote.place /\ requote'.sent = requote.sent
        /\ quote' = quote
    BY <1>10 DEF RequoteCancels, TypeInv, TypeOK
  <2>3. live' \subseteq live
    BY <2>1, CancelType
  <2>4. ~book'.excused => /\ ~book.excused /\ i \notin live'
                          /\ live' \cap tracked \subseteq tracked'
    BY <2>1, CancelKeepsKnown
  <2>5. ~book'.excused => live' \subseteq tracked' \cup requote'.sent
    BY <2>2, <2>3, <2>4 DEF QuoteInv, Known
  <2> QED BY <2>2, <2>3, <2>4, <2>5, QuoteInvKept
<1>11. ASSUME NEW q \in Quotes, Send(q) PROVE QuoteInv'
  <2>1. PICK i \in Unused :
          /\ live' = live \cup {i}
          /\ quote' = [j \in OrderIds |-> CASE j = i -> q
                                            [] j \in Unused \ {i} -> AnyQuote
                                            [] OTHER -> quote[j]]
          /\ requote' = [requote EXCEPT !.place = @ \ {q}, !.sent = {i}]
    BY <1>11 DEF Send
  <2>2. Ready /\ q \in requote.place
    BY <1>11 DEF Send
  <2>3. /\ i \in OrderIds /\ requote'.todo = requote.todo
        /\ requote'.place = requote.place \ {q} /\ requote'.sent = {i}
    BY <2>1, <2>2, SendType
  <2>4. requote.pc = "cancel" /\ requote.todo = {} /\ requote.sent = {}
    BY <2>2 DEF Ready
  <2>5. /\ quote'[i] = q
        /\ \A j \in live : j # i /\ quote'[j] = quote[j]
    <3>1. \A j \in live : j \in OrderIds /\ j \notin Unused
      BY DEF Unused, Referred, TypeInv, TypeOK
    <3> HIDE DEF Unused
    <3> QED BY <2>1, <2>3, <3>1
  <2>6. tracked' = tracked /\ book'.excused = book.excused
    BY <1>11 DEF Send, TypeInv, TypeOK
  <2>7. ~book.excused => \A j \in live, p \in requote.place : quote[j].slot # p.slot
    BY <2>4 DEF QuoteInv, MakesRoom
  <2>8. PlacedOnce'
    BY <2>3 DEF QuoteInv, PlacedOnce
  <2>9. ~book.excused => Known'
    BY <2>1, <2>3, <2>4, <2>6 DEF QuoteInv, Known
  <2>10. ~book.excused => MakesRoom'
    BY <2>1, <2>2, <2>3, <2>5, <2>7 DEF QuoteInv, PlacedOnce, MakesRoom
  <2>11. ~book.excused => OneQuotePerSlot'
    BY <2>1, <2>2, <2>5, <2>7 DEF QuoteInv, OneQuotePerSlot
  <2> QED BY <2>6, <2>8, <2>9, <2>10, <2>11 DEF QuoteInv
<1>12. ASSUME NEW q \in Quotes, Refuse(q) PROVE QuoteInv'
  <2>1. /\ requote'.pc = requote.pc /\ requote'.todo = requote.todo
        /\ requote'.place = requote.place \ {q} /\ requote'.sent = requote.sent
    BY <1>12 DEF Refuse, TypeInv, TypeOK
  <2> QED BY <1>12, <2>1, QuoteInvKept DEF Refuse, exchangeVars, QuoteInv, Known
<1>13. CASE Answer
  <2>1. /\ requote'.pc = requote.pc /\ requote'.todo = requote.todo
        /\ requote'.place = requote.place /\ requote'.sent = {}
    BY <1>13 DEF Answer, TypeInv, TypeOK
  <2>2. CASE tracked' = tracked \cup requote.sent /\ UNCHANGED book
    BY <1>13, <2>1, <2>2, QuoteInvKept DEF Answer, exchangeVars, QuoteInv, Known
  <2>3. CASE book' = [Fault(book) EXCEPT !.excused = TRUE]
    <3>1. book'.excused
      BY <2>3 DEF Fault, TypeInv, TypeOK
    <3> QED BY <1>13, <2>1, <3>1, QuoteInvKept DEF Answer, exchangeVars
  <2> QED BY <1>13, <2>2, <2>3 DEF Answer
<1>14. CASE Release
  <2>1. requote'.pc # "cancel" /\ requote'.place = {} /\ requote.sent = {}
    BY <1>14 DEF Release, IdleRequote
  <2> QED BY <1>14, <2>1, QuoteInvKept DEF Release, exchangeVars, QuoteInv, Known
<1>15. ASSUME NEW s \in Sweepers, SweepStarts(s) PROVE QuoteInv'
  BY <1>15, QuoteInvKept DEF SweepStarts, exchangeVars, QuoteInv, Known
<1>16. ASSUME NEW s \in Sweepers, SweepEnds(s) PROVE QuoteInv'
  BY <1>16, QuoteInvKept DEF SweepEnds, exchangeVars, QuoteInv, Known
<1>17. ASSUME NEW s \in Sweepers, NEW i \in OrderIds, SweepCancels(s, i) PROVE QuoteInv'
  <2>1. PICK ok \in BOOLEAN : Cancel(i, ok)
    BY <1>17 DEF SweepCancels
  <2>2. requote' = requote /\ quote' = quote
    BY <1>17 DEF SweepCancels
  <2>3. live' \subseteq live
    BY <2>1, CancelType
  <2>4. ~book'.excused => ~book.excused /\ live' \cap tracked \subseteq tracked'
    BY <2>1, CancelKeepsKnown
  <2>5. ~book'.excused => live' \subseteq tracked' \cup requote'.sent
    BY <2>2, <2>3, <2>4 DEF QuoteInv, Known
  <2> QED BY <2>2, <2>3, <2>4, <2>5, QuoteInvKept
<1>18. CASE LoopSync
  BY <1>18, QuoteInvKept DEF LoopSync, exchangeVars, QuoteInv, Known
<1>19. CASE TaskSync
  BY <1>19, QuoteInvKept DEF TaskSync, exchangeVars, QuoteInv, Known
<1>20. ASSUME NEW s \in Syncers, Fetch(s) PROVE QuoteInv'
  <2>1. book'.excused = book.excused
    BY <1>20 DEF Fetch, Fault, TypeInv, TypeOK
  <2> QED BY <1>20, <2>1, QuoteInvKept DEF Fetch, exchangeVars, QuoteInv, Known
<1>21. ASSUME NEW s \in Syncers, Adopt(s) PROVE QuoteInv'
  <2>1. book'.excused <=> book.excused \/ ~(live \cap tracked \subseteq sync[s].seen)
    BY <1>21 DEF Adopt, TypeInv, TypeOK
  <2>2. tracked' = sync[s].seen /\ UNCHANGED <<live, quote, requote>>
    BY <1>21 DEF Adopt, Adopted, exchangeVars
  <2> QED BY <2>1, <2>2, QuoteInvKept DEF QuoteInv, Known
<1>22. CASE Drain
  <2>1. book'.excused = book.excused
    BY <1>22 DEF Drain, Op, TypeInv, TypeOK
  <2> QED BY <1>22, <2>1, QuoteInvKept DEF Drain, exchangeVars, QuoteInv, Known
<1>23. CASE Undrain
  <2>1. book'.excused = book.excused
    BY <1>23 DEF Undrain, TypeInv, TypeOK
  <2> QED BY <1>23, <2>1, QuoteInvKept DEF Undrain, exchangeVars, QuoteInv, Known
<1>24. CASE Pause
  <2>1. book'.excused = book.excused
    BY <1>24 DEF Pause, Op, TypeInv, TypeOK
  <2> QED BY <1>24, <2>1, QuoteInvKept DEF Pause, exchangeVars, QuoteInv, Known
<1>25. CASE Resume
  <2>1. book'.excused = book.excused
    BY <1>25 DEF Resume, TypeInv, TypeOK
  <2> QED BY <1>25, <2>1, QuoteInvKept DEF Resume, exchangeVars, QuoteInv, Known
<1>26. CASE Stop
  <2>1. book'.excused <=> book.excused \/ (requote.by = "loop" /\ requote.sent # {})
    <3>1. /\ Op(book).excused = book.excused /\ Op(book) \in BookType
          /\ book' = [Op(book) EXCEPT !.excused = @ \/ (requote.by = "loop" /\ requote.sent # {})]
      BY <1>26, OpType DEF Stop, TypeInv
    <3> QED BY <3>1 DEF BookType
  <2>2. UNCHANGED <<live, quote, tracked>> /\ requote' = Interrupted
    BY <1>26 DEF Stop, exchangeVars
  <2>3. CASE requote.by = "loop"
    <3>1. requote'.pc # "cancel" /\ requote'.place = {}
      BY <2>2, <2>3 DEF Interrupted, IdleRequote
    <3> QED BY <2>1, <2>2, <2>3, <3>1, QuoteInvKept DEF QuoteInv, Known
  <2>4. CASE requote.by # "loop"
    <3>1. requote' = requote
      BY <2>2, <2>4 DEF Interrupted
    <3> QED BY <2>1, <2>2, <2>4, <3>1, QuoteInvKept DEF QuoteInv, Known
  <2> QED BY <2>3, <2>4
<1>27. CASE Kill
  <2>1. book'.excused = book.excused
    BY <1>27, OpType DEF Kill, TypeInv
  <2> QED BY <1>27, <2>1, QuoteInvKept DEF Kill, exchangeVars, QuoteInv, Known
<1>28. CASE LoopEnds
  BY <1>28, QuoteInvKept DEF LoopEnds, exchangeVars, QuoteInv, Known
<1>29. CASE Unlock
  BY <1>29, QuoteInvKept DEF Unlock, exchangeVars, QuoteInv, Known
<1>30. CASE Start
  BY <1>30, QuoteInvKept DEF Start, exchangeVars, QuoteInv, Known
<1>31. CASE UNCHANGED vars
  BY <1>31, QuoteInvKept DEF vars, exchangeVars, QuoteInv, Known
<1> QED
  BY <1>1, <1>2, <1>3, <1>4, <1>5, <1>6, <1>7, <1>8, <1>9, <1>10, <1>11, <1>12, <1>13,
     <1>14, <1>15, <1>16, <1>17, <1>18, <1>19, <1>20, <1>21, <1>22, <1>23, <1>24, <1>25,
     <1>26, <1>27, <1>28, <1>29, <1>30, <1>31
  DEF Next, StreamStep, RequoteStep, SweepStep, SyncStep

LEMMA QuoteInvariant == Spec => []QuoteInv
<1>1. Init => QuoteInv
  BY DEF Init, IdleRequote, QuoteInv, PlacedOnce, Known, MakesRoom, OneQuotePerSlot
<1>2. TypeInv /\ QuoteInv /\ [Next]_vars => QuoteInv'
  BY QuoteStep
<1> QED BY <1>1, <1>2, TypeInvariant, PTL DEF Spec

\* Requotes, sweeps, syncs that see all orders, fills and late updates never make two
\* orders of one slot rest, for any number of slots, orders, faults and operations.
THEOREM OneQuote == Spec => []OneQuotePerSlot
<1>1. QuoteInv => OneQuotePerSlot
  BY DEF QuoteInv, OneQuotePerSlot
<1> QED BY <1>1, QuoteInvariant, PTL

-----------------------------------------------------------------------------
(* Draining *)

\* What a draining worker has placed and what its requote still has to place are no
\* more than one requote's quotes; it had planned before it was told to drain.
DrainInv ==
  /\ IsFiniteSet(requote.place)
  /\ book.sinceDrain + Cardinality(requote.place) <= Cardinality(Slots)
  /\ requote.pc = "margin" => book.sinceDrain = 0
  /\ ~flag.draining => book.sinceDrain = 0

\* Quotes of different slots are no more than there are slots.
LEMMA AtMostSlots ==
  ASSUME NEW P \in SUBSET Quotes, \A p, q \in P : p.slot = q.slot => p = q
  PROVE  IsFiniteSet(P) /\ Cardinality(P) \in Nat /\ Cardinality(P) <= Cardinality(Slots)
<1> DEFINE f == [p \in P |-> p.slot]
<1>1. f \in Injection(P, Slots)
  BY DEF Injection, IsInjective, Quotes
<1>2. IsFiniteSet(P) /\ Cardinality(P) <= Cardinality(Slots)
  BY <1>1, SlotAssumption, FS_Injection
<1> QED BY <1>2, FS_CardinalityType

\* The quotes of the plan under way.
LEMMA PlaceFits ==
  ASSUME TypeOK, PlacedOnce
  PROVE  /\ IsFiniteSet(requote.place)
         /\ Cardinality(requote.place) \in Nat
         /\ Cardinality(requote.place) <= Cardinality(Slots)
<1>1. requote.place \in SUBSET Quotes
  BY DEF TypeOK
<1> QED BY <1>1, AtMostSlots DEF PlacedOnce

\* A step that places nothing and plans nothing new.
LEMMA DrainInvKept ==
  ASSUME TypeInv, PlacedOnce, TypeInv', PlacedOnce', DrainInv,
         requote'.place \subseteq requote.place,
         book'.sinceDrain \in {0, book.sinceDrain},
         requote'.pc = "margin" => book'.sinceDrain = 0,
         ~flag'.draining => book'.sinceDrain = 0
  PROVE  DrainInv'
<1>1. /\ IsFiniteSet(requote.place) /\ Cardinality(requote.place) \in Nat
      /\ Cardinality(requote.place) <= Cardinality(Slots)
  BY PlaceFits DEF TypeInv
<1>2. /\ IsFiniteSet(requote'.place) /\ Cardinality(requote'.place) \in Nat
      /\ Cardinality(requote'.place) <= Cardinality(requote.place)
  BY <1>1, FS_Subset, FS_CardinalityType
<1>3. book.sinceDrain \in Nat /\ Cardinality(Slots) \in Nat
  BY SlotAssumption, FS_CardinalityType DEF TypeInv, TypeOK
<1> QED BY <1>1, <1>2, <1>3 DEF DrainInv

LEMMA DrainStep ==
  ASSUME TypeInv, PlacedOnce, TypeInv', PlacedOnce', DrainInv, [Next]_vars
  PROVE  DrainInv'
<1>0. /\ book.sinceDrain \in Nat /\ flag.draining \in BOOLEAN
      /\ Cardinality(Slots) \in Nat
  BY SlotAssumption, FS_CardinalityType DEF TypeInv, TypeOK
<1>a. ASSUME UNCHANGED <<flag, requote>>, book'.sinceDrain = book.sinceDrain
      PROVE  DrainInv'
  BY <1>a, DrainInvKept DEF DrainInv
<1>1. CASE BreakerTrips
  <2>1. book'.sinceDrain = book.sinceDrain /\ flag'.draining = flag.draining
    BY <1>1, OpType DEF BreakerTrips, TypeInv, TypeOK
  <2> QED BY <1>1, <2>1, DrainInvKept DEF BreakerTrips, DrainInv
<1>2. CASE BreakerRequote
  <2>1. flag'.draining = flag.draining
    BY <1>2 DEF BreakerRequote, TypeInv, TypeOK
  <2> QED BY <1>2, <2>1, DrainInvKept DEF BreakerRequote, DrainInv
<1>3. ASSUME NEW i \in OrderIds, Fill(i) PROVE DrainInv'
  BY <1>3, <1>a DEF Fill
<1>4. ASSUME NEW e \in events, HandleOrder(e) PROVE DrainInv'
  BY <1>4, <1>a DEF HandleOrder
<1>5. ASSUME NEW e \in events, HandleFill(e) PROVE DrainInv'
  BY <1>5, <1>a DEF HandleFill
<1>6. ASSUME NEW e \in events, LoseEvent(e) PROVE DrainInv'
  <2>1. book'.sinceDrain = book.sinceDrain
    BY <1>6 DEF LoseEvent, Fault, TypeInv, TypeOK
  <2> QED BY <1>6, <2>1, <1>a DEF LoseEvent
<1>7. CASE LoopRequote
  BY <1>7, <1>a DEF LoopRequote
<1>8. ASSUME NEW by \in Syncers, Acquire(by) PROVE DrainInv'
  <2>1. requote'.place = {} /\ (requote'.pc = "margin" => ~flag.draining)
    <3>1. CASE requote' = [IdleRequote EXCEPT !.pc = "sweep", !.by = by, !.todo = tracked]
      BY <3>1 DEF IdleRequote
    <3>2. CASE MayQuote /\ requote' = [IdleRequote EXCEPT !.pc = "margin", !.by = by]
      BY <3>2 DEF IdleRequote, MayQuote
    <3> QED BY <1>8, <3>1, <3>2 DEF Acquire
  <2> QED BY <1>8, <2>1, DrainInvKept DEF Acquire, DrainInv
<1>9. CASE Plan
  <2>1. requote.pc = "margin" /\ UNCHANGED <<flag, book>> /\ book.sinceDrain = 0
    BY <1>9 DEF Plan, DrainInv
  <2>2. /\ IsFiniteSet(requote'.place) /\ Cardinality(requote'.place) \in Nat
        /\ Cardinality(requote'.place) <= Cardinality(Slots)
    <3>1. requote'.place \in SUBSET Quotes
      BY DEF TypeInv, TypeOK
    <3>2. \A p, q \in requote'.place : p.slot = q.slot => p = q
      BY DEF PlacedOnce
    <3> QED BY <3>1, <3>2, AtMostSlots
  <2> QED BY <2>1, <2>2, <1>0 DEF DrainInv
<1>10. ASSUME NEW i \in OrderIds, RequoteCancels(i) PROVE DrainInv'
  <2>1. PICK ok \in BOOLEAN : Cancel(i, ok)
    BY <1>10 DEF RequoteCancels
  <2>2. book'.sinceDrain = book.sinceDrain
    BY <2>1, CancelCounts
  <2>3. requote'.pc = requote.pc /\ requote'.place = requote.place /\ flag' = flag
    BY <1>10 DEF RequoteCancels, TypeInv, TypeOK
  <2> QED BY <2>2, <2>3, DrainInvKept DEF DrainInv
<1>11. ASSUME NEW q \in Quotes, Send(q) PROVE DrainInv'
  <2>1. /\ q \in requote.place /\ requote'.pc = "cancel"
        /\ requote'.place = requote.place \ {q} /\ flag' = flag
    BY <1>11 DEF Send, Ready, TypeInv, TypeOK
  <2>2. /\ IsFiniteSet(requote'.place)
        /\ Cardinality(requote'.place) = Cardinality(requote.place) - 1
    BY <2>1, FS_RemoveElement DEF DrainInv
  <2>3. Cardinality(requote.place) \in Nat
    BY PlaceFits DEF TypeInv
  <2>4. book'.sinceDrain = IF flag.draining THEN OneMore(book.sinceDrain) ELSE 0
    BY <1>11 DEF Send, TypeInv, TypeOK
  <2> QED BY <2>1, <2>2, <2>3, <2>4, <1>0, CountType DEF DrainInv
<1>12. ASSUME NEW q \in Quotes, Refuse(q) PROVE DrainInv'
  <2>1. requote'.pc = requote.pc /\ requote'.place = requote.place \ {q}
    BY <1>12 DEF Refuse, TypeInv, TypeOK
  <2> QED BY <1>12, <2>1, DrainInvKept DEF Refuse, DrainInv
<1>13. CASE Answer
  <2>1. requote'.pc = requote.pc /\ requote'.place = requote.place
    BY <1>13 DEF Answer, TypeInv, TypeOK
  <2>2. book'.sinceDrain = book.sinceDrain
    <3>1. Faulty => [Fault(book) EXCEPT !.excused = TRUE].sinceDrain = book.sinceDrain
      BY FaultCounts DEF TypeInv
    <3> QED BY <1>13, <3>1 DEF Answer
  <2> QED BY <1>13, <2>1, <2>2, DrainInvKept DEF Answer, DrainInv
<1>14. CASE Release
  <2>1. requote'.pc = "idle" /\ requote'.place = {}
    BY <1>14 DEF Release, IdleRequote
  <2> QED BY <1>14, <2>1, DrainInvKept DEF Release, DrainInv
<1>15. ASSUME NEW s \in Sweepers, SweepStarts(s) PROVE DrainInv'
  BY <1>15, <1>a DEF SweepStarts
<1>16. ASSUME NEW s \in Sweepers, SweepEnds(s) PROVE DrainInv'
  <2>1. flag'.draining = flag.draining
    BY <1>16 DEF SweepEnds, TypeInv, TypeOK
  <2> QED BY <1>16, <2>1, DrainInvKept DEF SweepEnds, DrainInv
<1>17. ASSUME NEW s \in Sweepers, NEW i \in OrderIds, SweepCancels(s, i) PROVE DrainInv'
  <2>1. PICK ok \in BOOLEAN : Cancel(i, ok)
    BY <1>17 DEF SweepCancels
  <2>2. book'.sinceDrain = book.sinceDrain
    BY <2>1, CancelCounts
  <2> QED BY <1>17, <2>2, <1>a DEF SweepCancels
<1>18. CASE LoopSync
  BY <1>18, <1>a DEF LoopSync
<1>19. CASE TaskSync
  BY <1>19, <1>a DEF TaskSync
<1>20. ASSUME NEW s \in Syncers, Fetch(s) PROVE DrainInv'
  <2>1. book'.sinceDrain = book.sinceDrain
    BY <1>20, FaultCounts DEF Fetch, TypeInv
  <2> QED BY <1>20, <2>1, <1>a DEF Fetch
<1>21. ASSUME NEW s \in Syncers, Adopt(s) PROVE DrainInv'
  <2>1. book'.sinceDrain = book.sinceDrain
    BY <1>21 DEF Adopt, TypeInv, TypeOK
  <2> QED BY <1>21, <2>1, <1>a DEF Adopt
<1>22. CASE Drain
  <2>1. book'.sinceDrain = 0
    BY <1>22 DEF Drain, Op, TypeInv, TypeOK
  <2> QED BY <1>22, <2>1, DrainInvKept DEF Drain
<1>23. CASE Undrain
  <2>1. book'.sinceDrain = 0
    BY <1>23 DEF Undrain, TypeInv, TypeOK
  <2> QED BY <1>23, <2>1, DrainInvKept DEF Undrain
<1>24. CASE Pause
  <2>1. book'.sinceDrain = book.sinceDrain /\ flag'.draining = flag.draining
    BY <1>24 DEF Pause, Op, TypeInv, TypeOK
  <2> QED BY <1>24, <2>1, DrainInvKept DEF Pause, DrainInv
<1>25. CASE Resume
  <2>1. book'.sinceDrain = book.sinceDrain /\ flag'.draining = flag.draining
    BY <1>25 DEF Resume, TypeInv, TypeOK
  <2> QED BY <1>25, <2>1, DrainInvKept DEF Resume, DrainInv
<1>26. CASE Stop
  <2>1. book'.sinceDrain = book.sinceDrain /\ flag'.draining = flag.draining
    BY <1>26 DEF Stop, Op, TypeInv, TypeOK
  <2>2. requote'.place \subseteq requote.place /\ (requote'.pc = "margin" => requote' = requote)
    BY <1>26 DEF Stop, Interrupted, IdleRequote
  <2> QED BY <2>1, <2>2, DrainInvKept DEF DrainInv
<1>27. CASE Kill
  <2>1. book'.sinceDrain = book.sinceDrain /\ flag'.draining = flag.draining
    BY <1>27 DEF Kill, Op, TypeInv, TypeOK
  <2> QED BY <1>27, <2>1, DrainInvKept DEF Kill, DrainInv
<1>28. CASE LoopEnds
  BY <1>28, <1>a DEF LoopEnds
<1>29. CASE Unlock
  <2>1. flag'.draining = flag.draining
    BY <1>29 DEF Unlock, TypeInv, TypeOK
  <2> QED BY <1>29, <2>1, DrainInvKept DEF Unlock, DrainInv
<1>30. CASE Start
  <2>1. flag'.draining = flag.draining
    BY <1>30 DEF Start, TypeInv, TypeOK
  <2> QED BY <1>30, <2>1, DrainInvKept DEF Start, DrainInv
<1>31. CASE UNCHANGED vars
  BY <1>31, <1>a DEF vars
<1> QED
  BY <1>1, <1>2, <1>3, <1>4, <1>5, <1>6, <1>7, <1>8, <1>9, <1>10, <1>11, <1>12, <1>13,
     <1>14, <1>15, <1>16, <1>17, <1>18, <1>19, <1>20, <1>21, <1>22, <1>23, <1>24, <1>25,
     <1>26, <1>27, <1>28, <1>29, <1>30, <1>31
  DEF Next, StreamStep, RequoteStep, SweepStep, SyncStep

\* A draining worker places at most the quotes of the requote that had already passed
\* the check, whatever fills, timers, syncs and breakers come later.
THEOREM DrainStops == Spec => []DrainStopsQuoting
<1>1. Init => DrainInv
  <2> SUFFICES ASSUME Init PROVE DrainInv
    OBVIOUS
  <2>1. requote.place = {} /\ requote.pc = "idle" /\ book.sinceDrain = 0
    BY DEF Init, IdleRequote
  <2>2. IsFiniteSet({}) /\ Cardinality({}) = 0 /\ Cardinality(Slots) \in Nat
    BY SlotAssumption, FS_EmptySet, FS_CardinalityType
  <2> QED BY <2>1, <2>2 DEF DrainInv
<1>2. TypeInv /\ QuoteInv /\ TypeInv' /\ QuoteInv' /\ DrainInv /\ [Next]_vars => DrainInv'
  BY DrainStep DEF QuoteInv
<1>3. TypeInv /\ QuoteInv /\ DrainInv => DrainStopsQuoting
  <2> SUFFICES ASSUME TypeInv, QuoteInv, DrainInv PROVE DrainStopsQuoting
    OBVIOUS
  <2>1. Cardinality(requote.place) \in Nat
    BY PlaceFits DEF TypeInv, QuoteInv
  <2>2. book.sinceDrain \in Nat /\ Cardinality(Slots) \in Nat
    BY SlotAssumption, FS_CardinalityType DEF TypeInv, TypeOK
  <2> QED BY <2>1, <2>2 DEF DrainInv, DrainStopsQuoting
<1> QED BY <1>1, <1>2, <1>3, TypeInvariant, QuoteInvariant, PTL DEF Spec
=============================================================================
