----------------------- MODULE PositionTrackerProofs -----------------------
(***************************************************************************)
(* Theorems about PositionTracker, for every set of sides, every window    *)
(* and every bound: its types, exactly-once processing of fills, the       *)
(* coherence of the level count, and the refinement of FillLedger.         *)
(***************************************************************************)
EXTENDS PositionTracker, SequenceTheorems, TLAPS

\* A fill that has been applied was delivered: its number is at most the cursor.
HistoryDelivered == \A k \in DOMAIN history : history[k] \in 1..cursor

\* The deque holds the most recent fills of the history, as many as fit, and the
\* set of identifiers holds what the deque holds.
WindowIsRecent ==
  LET n == Len(order)
      h == Len(history)
  IN /\ n <= Window
     /\ n <= h
     /\ n = Window \/ n = h
     /\ \A k \in 1..n : order[k] = history[h - n + k]
     /\ ids = Members(order)

\* The inductive invariant behind AppliedOnce.
IInv == TypeOK /\ HistoryDelivered /\ WindowIsRecent /\ AppliedOnce

-----------------------------------------------------------------------------
(* Sequences: dropping the head and appending slides the window by one. *)

LEMMA SlideType ==
  ASSUME NEW S, NEW seq \in Seq(S), NEW x \in S, Len(seq) \in Nat \ {0}
  PROVE  /\ Append(Tail(seq), x) \in Seq(S)
         /\ Len(Append(Tail(seq), x)) = Len(seq)
         /\ \A k \in 1..Len(seq) :
              Append(Tail(seq), x)[k] = IF k = Len(seq) THEN x ELSE seq[k + 1]
<1>1. Tail(seq) \in Seq(S) /\ Len(Tail(seq)) = Len(seq) - 1
  BY HeadTailProperties, EmptySeq
<1>2. \A k \in 1..Len(seq) - 1 : Tail(seq)[k] = seq[k + 1]
  BY HeadTailProperties, EmptySeq
<1>3. /\ Append(Tail(seq), x) \in Seq(S)
      /\ Len(Append(Tail(seq), x)) = Len(seq)
  BY <1>1, AppendProperties
<1>4. \A k \in 1..Len(seq) - 1 : Append(Tail(seq), x)[k] = Tail(seq)[k]
  BY <1>1, AppendProperties
<1>5. Append(Tail(seq), x)[Len(seq)] = x
  <2>1. Append(Tail(seq), x)[Len(Tail(seq)) + 1] = x
    BY <1>1, AppendProperties
  <2> QED BY <1>1, <2>1
<1>6. \A k \in 1..Len(seq) : k = Len(seq) \/ k \in 1..Len(seq) - 1
  OBVIOUS
<1> QED BY <1>2, <1>3, <1>4, <1>5, <1>6

-----------------------------------------------------------------------------
(* Types *)

\* The fields of a trade.
LEMMA TradeFields ==
  ASSUME NEW t \in Trade
  PROVE  t.side \in Sides /\ t.entry \in BOOLEAN /\ t.qty \in Lots /\ t.qty \in Nat \ {0}
BY LotsAssumption DEF Trade

\* The exchange's sizes after each number of trades.
LEMMA RealType ==
  ASSUME TypeOK
  PROVE  /\ real \in [Sides -> Nat]
         /\ \A n \in 0..Len(trades) : SizesAfter(n) \in [Sides -> Nat]
<1>1. trades \in Seq(Trade) /\ sizes \in Seq([Sides -> Nat])
  BY DEF TypeOK
<1>2. Len(trades) \in Nat /\ Len(sizes) = Len(trades) + 1
  BY <1>1, LenProperties DEF TypeOK
<1>3. \A n \in 0..Len(trades) : n + 1 \in 1..Len(sizes)
  BY <1>2
<1>4. \A n \in 0..Len(trades) : SizesAfter(n) \in [Sides -> Nat]
  BY <1>1, <1>3 DEF SizesAfter
<1> QED BY <1>2, <1>4 DEF real

\* What a fill does to the size and the level count of its side stays a natural
\* number.
LEMMA SizeAfterNat ==
  ASSUME NEW size \in Nat, NEW t \in Trade
  PROVE  SizeAfter(size, t) \in Nat
BY TradeFields DEF SizeAfter

LEMMA LevelsAfterNat ==
  ASSUME NEW count \in Nat, NEW t \in Trade, NEW size \in Nat
  PROVE  LevelsAfter(count, t, size) \in Nat
BY DEF LevelsAfter

\* Processing a delivered fill keeps the types of what on_fill writes.
LEMMA OnFillTypes ==
  ASSUME TypeOK, NEW i \in DOMAIN trades, OnFill(i)
  PROVE  /\ amount' \in [Sides -> Nat]
         /\ levels' \in [Sides -> Nat]
         /\ ids' \subseteq Nat
         /\ order' \in Seq(Nat)
         /\ history' \in Seq(Nat)
<1>1. CASE IgnoreDuplicate(i)
  BY <1>1 DEF IgnoreDuplicate, trackerVars, TypeOK
<1>2. CASE ApplyFill(i)
  <2> DEFINE t == trades[i]
             size == SizeAfter(amount[t.side], t)
  <2>1. t \in Trade /\ t.side \in Sides /\ i \in Nat
    BY TradeFields DEF TypeOK
  <2>2. size \in Nat
    BY <2>1, SizeAfterNat DEF TypeOK
  <2>3. LevelsAfter(levels[t.side], t, size) \in Nat
    BY <2>1, <2>2, LevelsAfterNat DEF TypeOK
  <2>4. amount' \in [Sides -> Nat] /\ levels' \in [Sides -> Nat]
    BY <1>2, <2>1, <2>2, <2>3 DEF ApplyFill, TypeOK
  <2>5. ids' \subseteq Nat /\ order' \in Seq(Nat)
    <3>1. ids' \subseteq ids \cup {i}
      BY <1>2 DEF ApplyFill, Remember
    <3>2. CASE Len(order) = Window
      <4>1. order' = Append(Tail(order), i)
        BY <1>2, <3>2 DEF ApplyFill, Remember
      <4>2. order' \in Seq(Nat)
        BY <2>1, <3>2, <4>1, WindowAssumption, SlideType DEF TypeOK
      <4> QED BY <2>1, <3>1, <4>2 DEF TypeOK
    <3>3. CASE Len(order) # Window
      <4>1. order' = Append(order, i)
        BY <1>2, <3>3 DEF ApplyFill, Remember
      <4>2. order' \in Seq(Nat)
        BY <2>1, <4>1, AppendProperties DEF TypeOK
      <4> QED BY <2>1, <3>1, <4>2 DEF TypeOK
    <3> QED BY <3>2, <3>3
  <2>6. history' \in Seq(Nat)
    BY <1>2, <2>1 DEF ApplyFill, TypeOK
  <2> QED BY <2>4, <2>5, <2>6
<1> QED BY <1>1, <1>2 DEF OnFill

\* Every state of every behaviour has the types of TypeOK, whatever the sides,
\* the window and the stream.
LEMMA TypeStep ==
  ASSUME TypeOK, HistoryDelivered, [Next]_vars
  PROVE  TypeOK'
<1>1. CASE UNCHANGED vars
  BY <1>1 DEF vars, TypeOK
<1>2. ASSUME NEW t \in Trade, Execute(t) PROVE TypeOK'
  <2> DEFINE size == IF t.entry THEN real[t.side] + t.qty ELSE real[t.side] - t.qty
  <2>1. size \in Nat /\ t.side \in Sides
    BY <1>2, BoundAssumption, TradeFields DEF Execute
  <2>2. trades' \in Seq(Trade) /\ Len(trades') = Len(trades) + 1
    BY <1>2 DEF Execute, TypeOK
  <2>3. sizes' \in Seq([Sides -> Nat]) /\ Len(sizes') = Len(trades') + 1
    <3>1. [real EXCEPT ![t.side] = size] \in [Sides -> Nat]
      BY <2>1, RealType
    <3>2. sizes' = Append(sizes, [real EXCEPT ![t.side] = size])
      BY <1>2 DEF Execute
    <3> HIDE DEF size
    <3> QED BY <2>2, <3>1, <3>2, AppendProperties DEF TypeOK
  <2>4. posEvents' \in Seq(PosEvent)
    <3>1. [side |-> t.side, size |-> size, covers |-> Len(trades) + 1]
            \in PosEvent
      BY <2>1 DEF PosEvent, TypeOK
    <3>2. CASE HasWatchPositions
      <4>1. posEvents' = Append(posEvents, [side |-> t.side, size |-> size,
                                            covers |-> Len(trades) + 1])
        BY <1>2, <3>2 DEF Execute
      <4> HIDE DEF size
      <4> QED BY <3>1, <4>1 DEF TypeOK
    <3>3. CASE ~HasWatchPositions
      BY <1>2, <3>3 DEF Execute, TypeOK
    <3> QED BY <3>2, <3>3
  <2> QED BY <1>2, <2>2, <2>3, <2>4 DEF Execute, trackerVars, TypeOK
<1>3. CASE LoseEvent
  BY <1>3 DEF LoseEvent, exchangeVars, trackerVars, TypeOK
<1>4. CASE Deliver
  <2>1. cursor + 1 \in DOMAIN trades
    BY <1>4 DEF Deliver, TypeOK
  <2>2. OnFill(cursor + 1)
    BY <1>4 DEF Deliver
  <2>3. cursor' \in 0..Len(trades)
    BY <1>4 DEF Deliver, TypeOK
  <2>4. UNCHANGED <<trades, sizes, posEvents, fetch, raced>>
    BY <1>4 DEF Deliver, exchangeVars
  <2>5. /\ amount' \in [Sides -> Nat] /\ levels' \in [Sides -> Nat]
        /\ ids' \subseteq Nat /\ order' \in Seq(Nat) /\ history' \in Seq(Nat)
    BY <2>1, <2>2, OnFillTypes
  <2> QED BY <2>3, <2>4, <2>5 DEF TypeOK
<1>5. ASSUME NEW k \in DOMAIN history, Redeliver(k) PROVE TypeOK'
  <2>1. history[k] \in DOMAIN trades
    BY <1>5 DEF HistoryDelivered, TypeOK
  <2>2. OnFill(history[k])
    BY <1>5 DEF Redeliver
  <2> QED BY <1>5, <2>1, <2>2, OnFillTypes DEF Redeliver, exchangeVars, TypeOK
<1>6. CASE ReconcileBegin
  BY <1>6 DEF ReconcileBegin, exchangeVars, trackerVars, TypeOK
<1>7. CASE ExchangeAnswers
  BY <1>7, RealType DEF ExchangeAnswers, Answer, exchangeVars, trackerVars, TypeOK
<1>8. CASE ReconcileFail
  BY <1>8 DEF ReconcileFail, exchangeVars, trackerVars, TypeOK
<1>9. CASE ReconcileSync
  <2>1. fetch.snapshot \in [Sides -> Nat]
    BY <1>9 DEF ReconcileSync, TypeOK, Idle, Asked
  <2>2. amount' \in [Sides -> Nat]
    BY <1>9, <2>1 DEF ReconcileSync
  <2>3. levels' \in [Sides -> Nat]
    BY <1>9, <2>1 DEF ReconcileSync, LevelsSynced, TypeOK
  <2> QED BY <1>9, <2>2, <2>3 DEF ReconcileSync, exchangeVars, TypeOK
<1>10. CASE OnPositionUpdate
  <2>1. Head(posEvents) \in PosEvent
    <3>1. Len(posEvents) > 0 /\ 1 \in DOMAIN posEvents
      BY <1>10 DEF OnPositionUpdate, TypeOK
    <3>2. posEvents \in Seq(PosEvent)
      BY DEF TypeOK
    <3>3. Head(posEvents) = posEvents[1]
      BY <3>2
    <3> QED BY <3>1, <3>2, <3>3
  <2>2. Tail(posEvents) \in Seq(PosEvent)
    BY <1>10 DEF OnPositionUpdate, TypeOK
  <2>3. amount' \in [Sides -> Nat] /\ raced' \in BOOLEAN
    BY <1>10, <2>1 DEF OnPositionUpdate, PosEvent, TypeOK
  <2> QED BY <1>10, <2>2, <2>3 DEF OnPositionUpdate, exchangeVars, TypeOK
<1> QED BY <1>1, <1>2, <1>3, <1>4, <1>5, <1>6, <1>7, <1>8, <1>9, <1>10 DEF Next

-----------------------------------------------------------------------------
(* Exactly-once processing *)

\* A fill that is redelivered within the lag is still in the window.
LEMMA RedeliveredIsKnown ==
  ASSUME TypeOK, WindowIsRecent,
         NEW k \in DOMAIN history, k > Len(history) - Lag
  PROVE  history[k] \in ids
<1> DEFINE n == Len(order)
           h == Len(history)
           j == k - (h - n)
<1>1. n \in Nat /\ h \in Nat /\ k \in 1..h
  BY DEF TypeOK
<1>2. j \in 1..n
  BY <1>1, LagAssumption, WindowAssumption DEF WindowIsRecent
<1>3. order[j] = history[k]
  <2>1. h - n + j = k
    BY <1>1
  <2> QED BY <1>2, <2>1 DEF WindowIsRecent
<1>4. j \in DOMAIN order
  BY <1>2 DEF TypeOK
<1> QED BY <1>3, <1>4 DEF WindowIsRecent, Members

\* Applying a fill that was never applied slides the window by one and keeps the
\* history free of duplicates.
LEMMA ApplySlidesWindow ==
  ASSUME TypeOK, WindowIsRecent, AppliedOnce,
         NEW i \in Nat, i \notin Members(history), ApplyFill(i)
  PROVE  WindowIsRecent' /\ AppliedOnce'
<1> DEFINE n == Len(order)
           h == Len(history)
<1>0. /\ n = Len(order) /\ h = Len(history)
      /\ n = Window \/ n = h
      /\ \A k \in 1..n : order[k] = history[h - n + k]
      /\ ids = Members(order)
  BY DEF WindowIsRecent
<1>1. /\ n \in Nat /\ h \in Nat /\ n <= h /\ n <= Window /\ Window \in Nat \ {0}
      /\ DOMAIN history = 1..h /\ DOMAIN order = 1..n
  BY WindowAssumption DEF TypeOK, WindowIsRecent
<1> HIDE DEF n, h
<1>2. /\ history' \in Seq(Nat)
      /\ Len(history') = h + 1
      /\ \A k \in 1..h : history'[k] = history[k]
      /\ history'[h + 1] = i
      /\ DOMAIN history' = 1..h + 1
  <2>1. history' = Append(history, i) /\ history \in Seq(Nat)
    BY DEF ApplyFill, TypeOK
  <2>2. history' \in Seq(Nat) /\ Len(history') = h + 1
    BY <1>0, <2>1, AppendProperties
  <2> QED BY <1>0, <2>1, <2>2, AppendProperties, LenProperties
<1>3. AppliedOnce'
  <2>1. \A k \in 1..h : history[k] # i
    BY <1>1 DEF Members
  <2> QED BY <1>1, <1>2, <2>1 DEF AppliedOnce
<1>4. CASE n = Window
  <2>1. /\ order' = Append(Tail(order), i)
        /\ ids' = (ids \ {Head(order)}) \cup {i}
    BY <1>0, <1>4 DEF ApplyFill, Remember
  <2>2. /\ order' \in Seq(Nat) /\ Len(order') = n /\ DOMAIN order' = 1..n
        /\ \A k \in 1..n : order'[k] = IF k = n THEN i ELSE order[k + 1]
    BY <1>0, <1>1, <1>4, <2>1, SlideType, LenProperties, SMTT(30) DEF TypeOK
  <2>3. \A k \in 1..n : order'[k] = history'[h + 1 - n + k]
    <3> SUFFICES ASSUME NEW k \in 1..n
                 PROVE  order'[k] = history'[h + 1 - n + k]
      OBVIOUS
    <3>1. CASE k = n
      BY <1>1, <1>2, <2>2, <3>1
    <3>2. CASE k # n
      <4>1. k + 1 \in 1..n /\ order'[k] = order[k + 1]
        BY <1>1, <2>2, <3>2
      <4>2. order[k + 1] = history[h - n + (k + 1)]
        BY <1>0, <4>1
      <4>3. h - n + (k + 1) = h + 1 - n + k /\ h + 1 - n + k \in 1..h
        BY <1>1, <4>1
      <4> QED BY <1>2, <4>1, <4>2, <4>3
    <3> QED BY <3>1, <3>2
  <2>4. ids' = Members(order')
    <3>1. Head(order) = order[1] /\ 1 \in 1..n
      BY <1>0, <1>1, <1>4 DEF TypeOK
    <3>2. \A k \in 2..n : order[k] # order[1]
      <4> SUFFICES ASSUME NEW k \in 2..n, order[k] = order[1] PROVE FALSE
        OBVIOUS
      <4>1. order[k] = history[h - n + k] /\ order[1] = history[h - n + 1]
        BY <1>0, <1>1, <3>1
      <4>2. h - n + k \in 1..h /\ h - n + 1 \in 1..h
        BY <1>1, <3>1
      <4>3. h - n + k = h - n + 1
        BY <1>1, <4>1, <4>2 DEF AppliedOnce
      <4> QED BY <1>1, <4>3
    <3>3. ids = {order[k] : k \in 1..n}
      BY <1>0, <1>1 DEF Members
    <3>4. ids' = {order[k] : k \in 2..n} \cup {i}
      BY <1>1, <2>1, <3>1, <3>2, <3>3
    <3>5. Members(order') = {order'[k] : k \in 1..n}
      BY <2>2 DEF Members
    <3>6. ASSUME NEW x \in {order[k] : k \in 2..n} \cup {i}
          PROVE  x \in {order'[k] : k \in 1..n}
      <4>1. CASE x = i
        <5>1. n \in 1..n /\ order'[n] = i
          BY <1>1, <2>2, <3>1
        <5> QED BY <4>1, <5>1
      <4>2. CASE \E k \in 2..n : x = order[k]
        <5>1. PICK k \in 2..n : x = order[k]
          BY <4>2
        <5>2. k - 1 \in 1..n /\ k - 1 # n /\ (k - 1) + 1 = k
          BY <1>1
        <5>3. order'[k - 1] = x
          BY <2>2, <5>1, <5>2
        <5> QED BY <5>2, <5>3
      <4> QED BY <4>1, <4>2
    <3>7. ASSUME NEW k \in 1..n
          PROVE  order'[k] \in {order[m] : m \in 2..n} \cup {i}
      <4>1. CASE k = n
        BY <2>2, <4>1
      <4>2. CASE k # n
        BY <1>1, <2>2, <4>2
      <4> QED BY <4>1, <4>2
    <3> QED BY <3>4, <3>5, <3>6, <3>7
  <2> QED BY <1>1, <1>2, <1>3, <1>4, <2>2, <2>3, <2>4 DEF WindowIsRecent
<1>5. CASE n # Window
  <2>1. order' = Append(order, i) /\ ids' = ids \cup {i} /\ order \in Seq(Nat)
    BY <1>0, <1>5 DEF ApplyFill, Remember, TypeOK
  <2>2. /\ order' \in Seq(Nat) /\ Len(order') = n + 1
        /\ \A k \in 1..n : order'[k] = order[k]
        /\ order'[n + 1] = i
        /\ DOMAIN order' = 1..n + 1
    <3>1. order' \in Seq(Nat) /\ Len(order') = n + 1
      BY <1>0, <2>1, AppendProperties
    <3> QED BY <1>0, <2>1, <3>1, AppendProperties, LenProperties
  <2>3. n = h
    BY <1>0, <1>5
  <2>4. \A k \in 1..n + 1 : order'[k] = history'[k]
    <3>1. \A k \in 1..n : order[k] = history[h - n + k] /\ h - n + k = k
      BY <1>0, <1>1, <2>3
    <3> QED BY <1>1, <1>2, <2>2, <2>3, <3>1
  <2>5. ids' = Members(order')
    <3>1. ids = {order[k] : k \in 1..n}
      BY <1>0, <1>1 DEF Members
    <3>2. Members(order') = {order'[k] : k \in 1..n + 1}
      BY <2>2 DEF Members
    <3> QED BY <1>1, <2>1, <2>2, <3>1, <3>2
  <2>6. n + 1 <= Window /\ Len(history') = Len(order')
    BY <1>1, <1>2, <1>5, <2>2, <2>3
  <2>7. \A k \in 1..n + 1 : order'[k] = history'[(h + 1) - (n + 1) + k]
    <3>1. \A k \in 1..n + 1 : (h + 1) - (n + 1) + k = k
      BY <1>1, <2>3
    <3> QED BY <2>4, <3>1
  <2> QED BY <1>2, <1>3, <2>2, <2>3, <2>5, <2>6, <2>7 DEF WindowIsRecent
<1> QED BY <1>4, <1>5

\* The inductive invariant holds initially.
LEMMA IInvInit == Init => IInv
<1> SUFFICES ASSUME Init PROVE IInv
  OBVIOUS
<1>1. TypeOK
  <2>1. trades \in Seq(Trade) /\ Len(trades) = 0
    BY DEF Init
  <2>2. posEvents \in Seq(PosEvent) /\ order \in Seq(Nat) /\ history \in Seq(Nat)
    BY DEF Init
  <2>3. /\ sizes \in Seq([Sides -> Nat]) /\ Len(sizes) = 1
        /\ amount \in [Sides -> Nat] /\ levels \in [Sides -> Nat]
    BY DEF Init
  <2>4. cursor \in 0..Len(trades) /\ ids \subseteq Nat /\ raced \in BOOLEAN
    <3>1. cursor = 0 /\ ids = {} /\ raced = FALSE
      BY DEF Init
    <3>2. cursor \in 0..Len(trades)
      BY <2>1, <3>1
    <3> QED BY <3>1, <3>2
  <2>5. fetch \in {Idle, Asked}
    BY DEF Init
  <2> QED BY <2>1, <2>2, <2>3, <2>4, <2>5 DEF TypeOK
<1>2. HistoryDelivered /\ AppliedOnce
  BY DEF Init, HistoryDelivered, AppliedOnce
<1>3. WindowIsRecent
  <2>1. Members(<<>>) = {} /\ Len(order) = 0 /\ Len(history) = 0
    BY DEF Init, Members
  <2> QED BY <2>1, WindowAssumption DEF Init, WindowIsRecent
<1> QED BY <1>1, <1>2, <1>3 DEF IInv

\* A step that neither applies a fill nor moves the cursor back keeps the
\* invariant.
LEMMA QuietStep ==
  ASSUME IInv, UNCHANGED <<history, order, ids>>, cursor' \in Nat, cursor' >= cursor
  PROVE  HistoryDelivered' /\ WindowIsRecent' /\ AppliedOnce'
<1>1. HistoryDelivered'
  BY DEF IInv, HistoryDelivered, TypeOK
<1>2. WindowIsRecent'
  BY DEF IInv, WindowIsRecent, Members
<1>3. AppliedOnce'
  BY DEF IInv, AppliedOnce
<1> QED BY <1>1, <1>2, <1>3

LEMMA IInvStep == IInv /\ [Next]_vars => IInv'
<1> SUFFICES ASSUME IInv, [Next]_vars PROVE IInv'
  OBVIOUS
<1>0. TypeOK'
  BY TypeStep DEF IInv
<1>1. CASE Deliver
  <2>1. cursor \in Nat /\ cursor' = cursor + 1 /\ cursor + 1 \in DOMAIN trades
    BY <1>1 DEF Deliver, IInv, TypeOK
  <2>2. CASE IgnoreDuplicate(cursor + 1)
    BY <1>0, <2>1, <2>2, QuietStep DEF IgnoreDuplicate, trackerVars, IInv
  <2>3. CASE ApplyFill(cursor + 1)
    <3>1. cursor + 1 \notin Members(history)
      BY <2>1 DEF IInv, HistoryDelivered, Members
    <3>2. WindowIsRecent' /\ AppliedOnce'
      BY <2>1, <2>3, <3>1, ApplySlidesWindow DEF IInv
    <3>3. HistoryDelivered'
      <4>1. history' = Append(history, cursor + 1) /\ history \in Seq(Nat)
        BY <2>3 DEF ApplyFill, IInv, TypeOK
      <4>2. \A k \in DOMAIN history' : history'[k] = cursor + 1
                                        \/ (k \in DOMAIN history /\ history'[k] = history[k])
        BY <2>1, <4>1, AppendProperties, LenProperties
      <4> QED BY <2>1, <4>2 DEF IInv, HistoryDelivered
    <3> QED BY <1>0, <3>2, <3>3 DEF IInv
  <2> QED BY <1>1, <2>2, <2>3 DEF Deliver, OnFill
<1>2. ASSUME NEW k \in DOMAIN history, Redeliver(k) PROVE IInv'
  <2>1. history[k] \in ids
    BY <1>2, RedeliveredIsKnown DEF Redeliver, IInv
  <2>2. IgnoreDuplicate(history[k])
    BY <1>2, <2>1 DEF Redeliver, OnFill, ApplyFill, Remember
  <2>3. cursor' = cursor /\ cursor \in Nat
    BY <1>2 DEF Redeliver, IInv, TypeOK
  <2> QED BY <1>0, <2>2, <2>3, QuietStep DEF IgnoreDuplicate, trackerVars, IInv
<1>3. CASE LoseEvent
  <2>1. UNCHANGED <<history, order, ids>> /\ cursor' \in Nat /\ cursor' >= cursor
    BY <1>3 DEF LoseEvent, trackerVars, IInv, TypeOK
  <2> QED BY <1>0, <2>1, QuietStep DEF IInv
<1>4. CASE \/ \E t \in Trade : Execute(t)
           \/ ReconcileBegin \/ ExchangeAnswers \/ ReconcileFail \/ ReconcileSync
           \/ OnPositionUpdate \/ UNCHANGED vars
  <2>1. UNCHANGED <<history, order, ids, cursor>>
    BY <1>4 DEF Execute, ReconcileBegin, ExchangeAnswers, ReconcileFail,
                ReconcileSync, OnPositionUpdate, trackerVars, vars
  <2>2. cursor \in Nat
    BY DEF IInv, TypeOK
  <2> QED BY <1>0, <2>1, <2>2, QuietStep DEF IInv
<1> QED BY <1>1, <1>2, <1>3, <1>4 DEF Next

\* Every reachable state of the tracker, for every window, stream and interleaving
\* of reconciles with events, is well typed.
THEOREM TypeCorrect == Spec => []TypeOK
<1>1. IInv => TypeOK
  BY DEF IInv
<1> QED BY IInvInit, IInvStep, <1>1, PTL DEF Spec

\* No fill is applied twice, although on_fill remembers only the last Window
\* identifiers: the redelivery lag is at most the window.
THEOREM ExactlyOnce == Spec => []AppliedOnce
<1>1. IInv => AppliedOnce
  BY DEF IInv
<1> QED BY IInvInit, IInvStep, <1>1, PTL DEF Spec

-----------------------------------------------------------------------------
(* Drift *)

\* Each trade changes the size of its side as on_fill computes it, without ever
\* reaching the clamp at zero.
SizesFollowTrades ==
  \A i \in DOMAIN trades :
    SizesAfter(i) = [SizesAfter(i - 1) EXCEPT ![trades[i].side] = SizeAfter(@, trades[i])]

\* An event or an answer on its way carries the sizes of the moment it covers.
EventsCarrySizes ==
  \A k \in DOMAIN posEvents :
    /\ posEvents[k].covers \in 0..Len(trades)
    /\ posEvents[k].size = SizesAfter(posEvents[k].covers)[posEvents[k].side]
AnswerCarriesSizes ==
  fetch.phase = "answered" => /\ fetch.covers \in 0..Len(trades)
                              /\ fetch.snapshot = SizesAfter(fetch.covers)

\* The inductive invariant behind DriftNeedsRace.
DInv == IInv /\ SizesFollowTrades /\ EventsCarrySizes /\ AnswerCarriesSizes
        /\ DriftNeedsRace

LEMMA DInvInit == Init => DInv
<1> SUFFICES ASSUME Init PROVE DInv
  OBVIOUS
<1>1. IInv
  BY IInvInit
<1>2. SizesFollowTrades /\ EventsCarrySizes /\ AnswerCarriesSizes
  BY DEF Init, SizesFollowTrades, EventsCarrySizes, AnswerCarriesSizes, Idle
<1>3. DriftNeedsRace
  BY DEF Init, DriftNeedsRace, SizesAfter
<1> QED BY <1>1, <1>2, <1>3 DEF DInv

\* The next trade to be delivered has never been processed.
LEMMA NextIsUnknown ==
  ASSUME IInv
  PROVE  cursor + 1 \notin ids
<1>1. /\ order \in Seq(Nat) /\ history \in Seq(Nat)
      /\ cursor \in Nat
      /\ Len(order) \in Nat /\ Len(history) \in Nat
  BY LenProperties DEF IInv, TypeOK
<1>2. \A k \in 1..Len(order) : Len(history) - Len(order) + k \in DOMAIN history
  BY <1>1 DEF IInv, WindowIsRecent
<1>3. \A k \in 1..Len(order) : order[k] \in 1..cursor
  BY <1>2 DEF IInv, WindowIsRecent, HistoryDelivered
<1>4. ids = Members(order) /\ DOMAIN order = 1..Len(order)
  BY <1>1 DEF IInv, WindowIsRecent
<1> QED BY <1>1, <1>3, <1>4 DEF Members

\* An execution adds a trade and its sizes, and changes no earlier ones.
LEMMA ExecuteAppends ==
  ASSUME TypeOK, NEW t \in Trade, Execute(t)
  PROVE  /\ Len(trades) \in Nat /\ Len(trades') = Len(trades) + 1
         /\ \A i \in 1..Len(trades) : trades'[i] = trades[i]
         /\ trades'[Len(trades) + 1] = t
         /\ \A n \in 0..Len(trades) : sizes'[n + 1] = sizes[n + 1]
         /\ sizes'[Len(trades) + 2] = [real EXCEPT ![t.side] = SizeAfter(@, t)]
<1> DEFINE size == IF t.entry THEN real[t.side] + t.qty ELSE real[t.side] - t.qty
<1>1. t.side \in Sides /\ t.qty \in Nat \ {0} /\ real \in [Sides -> Nat]
  BY TradeFields, RealType
<1>2. size \in Nat /\ size = SizeAfter(real[t.side], t)
  BY <1>1, BoundAssumption DEF Execute, SizeAfter
<1>3. trades' = Append(trades, t) /\ sizes' = Append(sizes, [real EXCEPT ![t.side] = size])
  BY DEF Execute
<1>4. [real EXCEPT ![t.side] = size] \in [Sides -> Nat]
  BY <1>1, <1>2
<1> HIDE DEF size
<1>5. /\ trades \in Seq(Trade) /\ sizes \in Seq([Sides -> Nat])
      /\ Len(trades) \in Nat /\ Len(sizes) = Len(trades) + 1
  BY LenProperties DEF TypeOK
<1>6. /\ Len(trades') = Len(trades) + 1
      /\ \A i \in 1..Len(trades) : trades'[i] = trades[i]
      /\ trades'[Len(trades) + 1] = t
  BY <1>3, <1>5, AppendProperties
<1>7. /\ \A i \in 1..Len(sizes) : sizes'[i] = sizes[i]
      /\ sizes'[Len(sizes) + 1] = [real EXCEPT ![t.side] = size]
  BY <1>3, <1>4, <1>5, AppendProperties
<1>8. \A n \in 0..Len(trades) : n + 1 \in 1..Len(sizes)
  BY <1>5
<1>9. \A n \in 0..Len(trades) : sizes'[n + 1] = sizes[n + 1]
  BY <1>7, <1>8
<1>10. sizes'[Len(trades) + 2] = [real EXCEPT ![t.side] = size]
  BY <1>5, <1>7
<1> QED BY <1>2, <1>5, <1>6, <1>9, <1>10

LEMMA ExecuteKeepsDrift ==
  ASSUME DInv, NEW t \in Trade, Execute(t)
  PROVE  (SizesFollowTrades /\ EventsCarrySizes /\ AnswerCarriesSizes /\ DriftNeedsRace)'
<1>1. /\ TypeOK /\ trades \in Seq(Trade) /\ DOMAIN trades = 1..Len(trades)
      /\ posEvents \in Seq(PosEvent) /\ cursor \in 0..Len(trades)
      /\ UNCHANGED <<cursor, amount, raced, fetch>>
  BY LenProperties DEF DInv, IInv, TypeOK, Execute, trackerVars
<1>2. /\ Len(trades) \in Nat /\ Len(trades') = Len(trades) + 1
      /\ \A i \in 1..Len(trades) : trades'[i] = trades[i]
      /\ trades'[Len(trades) + 1] = t
      /\ \A n \in 0..Len(trades) : sizes'[n + 1] = sizes[n + 1]
      /\ sizes'[Len(trades) + 2] = [real EXCEPT ![t.side] = SizeAfter(@, t)]
  BY <1>1, ExecuteAppends
<1>3. SizesFollowTrades'
  <2> SUFFICES ASSUME NEW i \in 1..Len(trades) + 1
               PROVE  sizes'[i + 1] = [sizes'[(i - 1) + 1] EXCEPT ![trades'[i].side]
                                         = SizeAfter(@, trades'[i])]
    <3>1. trades' \in Seq(Trade)
      BY <1>1 DEF Execute
    <3>2. DOMAIN trades' = 1..Len(trades) + 1
      BY <1>2, <3>1, LenProperties
    <3> QED BY <3>2 DEF SizesFollowTrades, SizesAfter
  <2>1. CASE i \in 1..Len(trades)
    <3>1. i - 1 \in 0..Len(trades) /\ i \in 0..Len(trades)
      BY <1>2, <2>1
    <3> QED BY <1>1, <1>2, <2>1, <3>1 DEF DInv, SizesFollowTrades, SizesAfter
  <2>2. CASE i = Len(trades) + 1
    <3>1. i - 1 = Len(trades) /\ Len(trades) \in 0..Len(trades)
      BY <1>2, <2>2
    <3> QED BY <1>2, <2>2, <3>1 DEF real, SizesAfter
  <2> QED BY <1>2, <2>1, <2>2
<1>4. EventsCarrySizes'
  <2>1. CASE HasWatchPositions
    <3> DEFINE size == IF t.entry THEN real[t.side] + t.qty ELSE real[t.side] - t.qty
               e == [side |-> t.side, size |-> size, covers |-> Len(trades) + 1]
    <3>1. t.side \in Sides /\ t.qty \in Nat \ {0} /\ real \in [Sides -> Nat]
      BY <1>1, TradeFields, RealType
    <3>2. size \in Nat /\ size = SizeAfter(real[t.side], t)
      BY <3>1, BoundAssumption DEF Execute, SizeAfter
    <3>3. posEvents' = Append(posEvents, e)
      BY <2>1 DEF Execute
    <3>4. e \in PosEvent
      BY <1>2, <3>1, <3>2 DEF PosEvent
    <3>5. sizes'[Len(trades) + 2][t.side] = size
      BY <1>2, <3>1, <3>2
    <3>6. /\ e.side = t.side /\ e.size = size /\ e.covers = Len(trades) + 1
      OBVIOUS
    <3> HIDE DEF e, size
    <3>7. posEvents' \in Seq(PosEvent) /\ Len(posEvents') = Len(posEvents) + 1
      BY <1>1, <3>3, <3>4, AppendProperties
    <3>8. /\ \A k \in 1..Len(posEvents) : posEvents'[k] = posEvents[k]
          /\ posEvents'[Len(posEvents) + 1] = e
      BY <1>1, <3>3, <3>4, AppendProperties
    <3>9. Len(posEvents) \in Nat /\ DOMAIN posEvents = 1..Len(posEvents)
          /\ DOMAIN posEvents' = 1..Len(posEvents) + 1
      BY <1>1, <3>7, LenProperties
    <3>10. ASSUME NEW k \in DOMAIN posEvents'
           PROVE  /\ posEvents'[k].covers \in 0..Len(trades')
                  /\ posEvents'[k].size
                       = sizes'[posEvents'[k].covers + 1][posEvents'[k].side]
      <4>1. CASE k \in 1..Len(posEvents)
        <5>1. posEvents[k].covers \in 0..Len(trades)
              /\ posEvents[k].size = sizes[posEvents[k].covers + 1][posEvents[k].side]
          BY <3>9, <4>1 DEF DInv, EventsCarrySizes, SizesAfter
        <5> QED BY <1>2, <3>8, <4>1, <5>1
      <4>2. CASE k = Len(posEvents) + 1
        <5>1. posEvents'[k] = e
          BY <3>8, <4>2
        <5>2. e.covers \in 0..Len(trades') /\ e.covers + 1 = Len(trades) + 2
          BY <1>2, <3>6
        <5>3. e.size = sizes'[e.covers + 1][e.side]
          BY <3>5, <3>6, <5>2
        <5> QED BY <5>1, <5>2, <5>3
      <4> QED BY <3>9, <4>1, <4>2
    <3> QED BY <3>10 DEF EventsCarrySizes, SizesAfter
  <2>2. CASE ~HasWatchPositions
    <3>1. UNCHANGED posEvents
      BY <2>2 DEF Execute
    <3> QED BY <1>2, <3>1 DEF DInv, EventsCarrySizes, SizesAfter
  <2> QED BY <2>1, <2>2
<1>5. AnswerCarriesSizes'
  BY <1>1, <1>2 DEF DInv, AnswerCarriesSizes, SizesAfter
<1>6. DriftNeedsRace'
  BY <1>1, <1>2 DEF DInv, DriftNeedsRace, SizesAfter
<1> QED BY <1>3, <1>4, <1>5, <1>6

\* A step of the private stream or of a reconcile keeps what is on its way true.
LEMMA CarriersStep ==
  ASSUME DInv, [Next]_vars, UNCHANGED <<trades, sizes>>
  PROVE  (SizesFollowTrades /\ EventsCarrySizes /\ AnswerCarriesSizes)'
<1>1. SizesFollowTrades'
  BY DEF DInv, SizesFollowTrades, SizesAfter
<1>2. TypeOK /\ posEvents \in Seq(PosEvent) /\ Len(trades) \in 0..Len(trades)
  BY LenProperties DEF DInv, IInv, TypeOK
<1>3. CASE UNCHANGED posEvents /\ fetch' \in {fetch, Idle, Asked}
  BY <1>1, <1>3 DEF DInv, EventsCarrySizes, AnswerCarriesSizes, SizesAfter, Idle, Asked
<1>4. CASE ExchangeAnswers
  <2>1. EventsCarrySizes'
    BY <1>4 DEF ExchangeAnswers, DInv, EventsCarrySizes, SizesAfter
  <2>2. fetch'.covers = Len(trades) /\ fetch'.snapshot = SizesAfter(Len(trades))
    BY <1>4 DEF ExchangeAnswers, Answer, real
  <2>3. fetch'.covers \in 0..Len(trades') /\ fetch'.snapshot = sizes'[fetch'.covers + 1]
    BY <1>2, <2>2 DEF SizesAfter
  <2>4. AnswerCarriesSizes'
    BY <2>3 DEF AnswerCarriesSizes, SizesAfter
  <2> QED BY <1>1, <2>1, <2>4
<1>5. CASE OnPositionUpdate
  <2>1. UNCHANGED fetch
    BY <1>5 DEF OnPositionUpdate
  <2>2. posEvents # <<>> /\ posEvents' = Tail(posEvents)
    BY <1>5 DEF OnPositionUpdate
  <2>3. \A k \in DOMAIN posEvents' : k + 1 \in DOMAIN posEvents
                                      /\ posEvents'[k] = posEvents[k + 1]
    <3>1. /\ posEvents' \in Seq(PosEvent) /\ Len(posEvents') = Len(posEvents) - 1
          /\ \A k \in 1..Len(posEvents') : posEvents'[k] = posEvents[k + 1]
      BY <1>2, <2>2, HeadTailProperties
    <3>2. DOMAIN posEvents' = 1..Len(posEvents') /\ DOMAIN posEvents = 1..Len(posEvents)
          /\ Len(posEvents) \in Nat
      BY <1>2, <3>1, LenProperties
    <3> QED BY <3>1, <3>2
  <2>4. EventsCarrySizes'
    BY <2>3 DEF DInv, EventsCarrySizes, SizesAfter
  <2>5. AnswerCarriesSizes'
    BY <2>1 DEF DInv, AnswerCarriesSizes, SizesAfter
  <2> QED BY <1>1, <2>4, <2>5
<1>6. ASSUME NEW t \in Trade, Execute(t) PROVE FALSE
  <2>1. Len(trades) \in Nat /\ Len(trades') = Len(trades) + 1
    BY <1>2, <1>6, ExecuteAppends
  <2>2. trades' = trades
    OBVIOUS
  <2> QED BY <2>1, <2>2
<1>7. CASE \/ LoseEvent \/ Deliver \/ \E k \in DOMAIN history : Redeliver(k)
           \/ ReconcileBegin \/ ReconcileFail \/ ReconcileSync \/ UNCHANGED vars
  BY <1>3, <1>7 DEF LoseEvent, Deliver, Redeliver, ReconcileBegin, ReconcileFail,
                    ReconcileSync, vars
<1> QED BY <1>4, <1>5, <1>6, <1>7 DEF Next

\* A position event that covers the trades delivered so far changes no size.
LEMMA PositionEventIsNoNews ==
  ASSUME DInv, OnPositionUpdate, ~raced'
  PROVE  UNCHANGED amount
<1> DEFINE e == Head(posEvents)
<1>1. e = posEvents[1] /\ 1 \in DOMAIN posEvents
  BY DEF OnPositionUpdate, DInv, IInv, TypeOK
<1>2. ~raced /\ e.covers = cursor /\ amount' = [amount EXCEPT ![e.side] = e.size]
  BY DEF OnPositionUpdate, DInv, IInv, TypeOK
<1>3. e.size = SizesAfter(cursor)[e.side]
  BY <1>1, <1>2 DEF DInv, EventsCarrySizes
<1>4. amount = SizesAfter(cursor)
  BY <1>2 DEF DInv, DriftNeedsRace
<1> QED BY <1>2, <1>3, <1>4 DEF DInv, IInv, TypeOK

LEMMA DriftStep ==
  ASSUME DInv, [Next]_vars
  PROVE  DriftNeedsRace'
<1> SUFFICES ASSUME ~raced' PROVE amount' = sizes'[cursor' + 1]
  BY DEF DriftNeedsRace, SizesAfter
<1>0. /\ TypeOK /\ HistoryDelivered /\ cursor \in 0..Len(trades)
      /\ trades \in Seq(Trade) /\ DOMAIN trades = 1..Len(trades) /\ Len(trades) \in Nat
  BY LenProperties DEF DInv, IInv, TypeOK
<1>1. ASSUME NEW t \in Trade, Execute(t) PROVE amount' = sizes'[cursor' + 1]
  BY <1>1, ExecuteKeepsDrift DEF DriftNeedsRace, SizesAfter
<1>2. CASE Deliver
  <2>1. cursor + 1 \in DOMAIN trades /\ UNCHANGED <<sizes, raced>> /\ cursor' = cursor + 1
    BY <1>0, <1>2 DEF Deliver, exchangeVars
  <2>2. ApplyFill(cursor + 1)
    BY <1>2, NextIsUnknown DEF Deliver, OnFill, IgnoreDuplicate, DInv
  <2>3. amount = SizesAfter(cursor) /\ (cursor + 1) - 1 = cursor
    BY <1>0, <2>1 DEF DInv, DriftNeedsRace
  <2>4. SizesAfter(cursor + 1) = [SizesAfter(cursor) EXCEPT ![trades[cursor + 1].side]
                                    = SizeAfter(@, trades[cursor + 1])]
    BY <2>1, <2>3 DEF DInv, SizesFollowTrades
  <2>5. amount' = SizesAfter(cursor + 1)
    BY <2>2, <2>3, <2>4 DEF ApplyFill
  <2> QED BY <2>1, <2>5 DEF SizesAfter
<1>3. ASSUME NEW k \in DOMAIN history, Redeliver(k) PROVE amount' = sizes'[cursor' + 1]
  <2>1. history[k] \in ids
    BY <1>3, RedeliveredIsKnown DEF Redeliver, DInv, IInv
  <2> QED BY <1>3, <2>1 DEF Redeliver, OnFill, ApplyFill, Remember, IgnoreDuplicate,
                            trackerVars, exchangeVars, DInv, DriftNeedsRace, SizesAfter
<1>4. CASE ReconcileSync
  <2>1. ~raced /\ fetch.covers = cursor /\ UNCHANGED <<sizes, cursor>>
    BY <1>4 DEF ReconcileSync, exchangeVars, DInv, IInv, TypeOK
  <2>2. fetch.snapshot = SizesAfter(cursor)
    BY <1>4, <2>1 DEF ReconcileSync, DInv, AnswerCarriesSizes
  <2>3. SizesAfter(cursor) \in [Sides -> Nat]
    BY <1>0, RealType
  <2> QED BY <1>4, <2>1, <2>2, <2>3 DEF ReconcileSync, SizesAfter
<1>5. CASE OnPositionUpdate
  <2>1. UNCHANGED amount
    BY <1>5, PositionEventIsNoNews
  <2>2. ~raced /\ UNCHANGED <<sizes, cursor>>
    BY <1>5 DEF OnPositionUpdate, exchangeVars, DInv, IInv, TypeOK
  <2> QED BY <2>1, <2>2 DEF DInv, DriftNeedsRace, SizesAfter
<1>6. CASE LoseEvent
  BY <1>6 DEF LoseEvent
<1>7. CASE ReconcileBegin \/ ExchangeAnswers \/ ReconcileFail \/ UNCHANGED vars
  BY <1>7 DEF ReconcileBegin, ExchangeAnswers, ReconcileFail, exchangeVars, trackerVars,
              vars, DInv, DriftNeedsRace, SizesAfter
<1> QED BY <1>1, <1>2, <1>3, <1>4, <1>5, <1>6, <1>7 DEF Next

LEMMA DInvStep == DInv /\ [Next]_vars => DInv'
<1> SUFFICES ASSUME DInv, [Next]_vars PROVE DInv'
  OBVIOUS
<1>1. IInv'
  BY IInvStep DEF DInv
<1>2. (SizesFollowTrades /\ EventsCarrySizes /\ AnswerCarriesSizes)'
  <2>1. ASSUME NEW t \in Trade, Execute(t)
        PROVE  (SizesFollowTrades /\ EventsCarrySizes /\ AnswerCarriesSizes)'
    BY <2>1, ExecuteKeepsDrift
  <2>2. CASE ~ \E t \in Trade : Execute(t)
    <3>1. UNCHANGED <<trades, sizes>>
      BY <2>2 DEF Next, LoseEvent, Deliver, Redeliver, ReconcileBegin, ExchangeAnswers,
                  ReconcileFail, ReconcileSync, OnPositionUpdate, exchangeVars, vars
    <3> QED BY <3>1, CarriersStep
  <2> QED BY <2>1, <2>2
<1>3. DriftNeedsRace'
  BY DriftStep
<1> QED BY <1>1, <1>2, <1>3 DEF DInv

\* As long as no event is lost and every size that is written covers exactly the
\* trades delivered before it, the tracker lags the exchange by the undelivered trades
\* and nothing else: redeliveries, failed reconciles and the clamp at zero add no drift.
THEOREM DriftExplained == Spec => []DriftNeedsRace
<1>1. DInv => DriftNeedsRace
  BY DEF DInv
<1> QED BY DInvInit, DInvStep, <1>1, PTL DEF Spec

-----------------------------------------------------------------------------
(* The level count *)

\* Without watchPositions no position event is ever queued.
NoPosEvents == ~HasWatchPositions => posEvents = <<>>

LEMMA NoPosEventsStep == NoPosEvents /\ [Next]_vars => NoPosEvents'
<1> SUFFICES ASSUME ~HasWatchPositions, posEvents = <<>>, [Next]_vars
             PROVE  posEvents' = <<>>
  BY DEF NoPosEvents
<1> QED
  BY DEF Next, Execute, LoseEvent, Deliver, Redeliver, ReconcileBegin,
         ExchangeAnswers, ReconcileFail, ReconcileSync, OnPositionUpdate, vars

\* What has raced once has raced for good.
LEMMA RacedStays ==
  ASSUME [Next]_vars, raced = TRUE
  PROVE  raced' = TRUE
BY DEF Next, Execute, LoseEvent, Deliver, Redeliver, ReconcileBegin, ExchangeAnswers,
       ReconcileFail, ReconcileSync, OnPositionUpdate, vars

LEMMA LevelsStep ==
  ASSUME DInv, NoPosEvents, LevelsMatchAmount, [Next]_vars
  PROVE  LevelsMatchAmount'
<1> SUFFICES ASSUME HasWatchPositions => ~raced'
             PROVE  \A s \in Sides : amount'[s] = 0 <=> levels'[s] = 0
  BY DEF LevelsMatchAmount
<1> DEFINE Matched == \A s \in Sides : amount[s] = 0 <=> levels[s] = 0
<1>0. Matched /\ IInv
  <2>1. raced \in BOOLEAN /\ IInv
    BY DEF DInv, IInv, TypeOK
  <2>2. HasWatchPositions => ~raced
    BY <2>1, RacedStays
  <2> QED BY <2>1, <2>2 DEF LevelsMatchAmount
<1>1. ASSUME NEW i \in DOMAIN trades, OnFill(i) PROVE Matched'
  <2>1. CASE IgnoreDuplicate(i)
    BY <1>0, <2>1 DEF IgnoreDuplicate, trackerVars
  <2>2. CASE ApplyFill(i)
    <3> DEFINE t == trades[i]
               size == SizeAfter(amount[t.side], t)
               count == LevelsAfter(levels[t.side], t, size)
    <3>1. t \in Trade
      BY <1>0 DEF IInv, TypeOK
    <3>2. t.side \in Sides /\ t.qty \in Nat \ {0}
      BY <3>1, TradeFields
    <3>3. amount[t.side] \in Nat /\ levels[t.side] \in Nat
      BY <1>0, <3>2 DEF IInv, TypeOK
    <3>4. size = 0 <=> count = 0
      BY <1>0, <3>2, <3>3 DEF SizeAfter, LevelsAfter
    <3>5. /\ amount' = [amount EXCEPT ![t.side] = size]
          /\ levels' = [levels EXCEPT ![t.side] = count]
      BY <2>2 DEF ApplyFill
    <3> HIDE DEF size, count
    <3> QED BY <1>0, <3>2, <3>4, <3>5 DEF IInv, TypeOK
  <2> QED BY <1>1, <2>1, <2>2 DEF OnFill
<1>2. CASE Deliver
  <2>1. cursor + 1 \in DOMAIN trades /\ OnFill(cursor + 1)
    BY <1>0, <1>2 DEF Deliver, IInv, TypeOK
  <2> QED BY <1>1, <2>1
<1>3. ASSUME NEW k \in DOMAIN history, Redeliver(k) PROVE Matched'
  <2>1. history[k] \in DOMAIN trades /\ OnFill(history[k])
    BY <1>0, <1>3 DEF Redeliver, IInv, HistoryDelivered, TypeOK
  <2> QED BY <1>1, <2>1
<1>4. CASE ReconcileSync
  <2>1. fetch.snapshot \in [Sides -> Nat]
    BY <1>0, <1>4 DEF ReconcileSync, IInv, TypeOK, Idle, Asked
  <2> QED BY <1>0, <1>4, <2>1 DEF ReconcileSync, LevelsSynced, IInv, TypeOK
<1>5. CASE OnPositionUpdate
  <2>1. HasWatchPositions
    BY <1>5 DEF OnPositionUpdate, NoPosEvents
  <2>2. UNCHANGED <<amount, levels>>
    BY <1>5, <2>1, PositionEventIsNoNews DEF OnPositionUpdate
  <2> QED BY <1>0, <2>2
<1>6. CASE \/ \E t \in Trade : Execute(t)
           \/ LoseEvent \/ ReconcileBegin \/ ExchangeAnswers \/ ReconcileFail
           \/ UNCHANGED vars
  BY <1>0, <1>6 DEF Execute, LoseEvent, ReconcileBegin, ExchangeAnswers,
                    ReconcileFail, trackerVars, vars
<1> QED BY <1>2, <1>3, <1>4, <1>5, <1>6 DEF Next

\* The filled-level count is zero exactly while the side is flat, through every race
\* of fills and reconciles, until a position event covers other trades than those
\* delivered; where the exchange sends no position events, always.
THEOREM LevelsCoherent == Spec => []LevelsMatchAmount
<1> DEFINE LInv == DInv /\ NoPosEvents /\ LevelsMatchAmount
<1>1. Init => LInv
  BY DInvInit DEF Init, NoPosEvents, LevelsMatchAmount
<1>2. LInv /\ [Next]_vars => LInv'
  BY DInvStep, NoPosEventsStep, LevelsStep
<1>3. LInv => LevelsMatchAmount
  OBVIOUS
<1> QED BY <1>1, <1>2, <1>3, PTL DEF Spec

-----------------------------------------------------------------------------
(* The refinement *)

\* Every step of the tracker is a step of the ledger, or leaves it unchanged.
LEMMA LedgerStep ==
  ASSUME DInv, DInv', [Next]_vars
  PROVE  [Ledger!LedgerNext]_(Ledger!ledgerVars)
<1> USE DEF Ledger!ledgerVars, Ledger!LedgerNext
<1>0. IInv /\ IInv'
  BY DEF DInv
<1>1. ASSUME NEW i \in DOMAIN trades, i \notin Members(history), ApplyFill(i),
             UNCHANGED exchangeVars
      PROVE  Ledger!Count(i)
  <2> DEFINE t == trades[i]
             size == SizeAfter(amount[t.side], t)
  <2>1. t \in Trade /\ i \in Nat
    BY <1>0 DEF IInv, TypeOK
  <2>2. t.side \in Sides /\ t.qty \in Nat \ {0}
    BY <2>1, TradeFields
  <2>3. amount[t.side] \in Nat /\ amount \in [Sides -> Nat]
    BY <1>0, <2>2 DEF IInv, TypeOK
  <2>4. amount' = [amount EXCEPT ![t.side] = size] /\ history' = Append(history, i)
    BY <1>1 DEF ApplyFill
  <2>5. size \in Nat /\ amount'[t.side] = size
    BY <2>1, <2>2, <2>3, <2>4, SizeAfterNat
  <2>6. Members(history') = Members(history) \cup {i}
    <3>1. history \in Seq(Nat)
      BY <1>0 DEF IInv, TypeOK
    <3>2. /\ Len(history') = Len(history) + 1 /\ Len(history) \in Nat
          /\ \A k \in 1..Len(history) : history'[k] = history[k]
          /\ history'[Len(history) + 1] = i
          /\ DOMAIN history' = 1..Len(history) + 1
          /\ DOMAIN history = 1..Len(history)
      <4>1. history' \in Seq(Nat) /\ Len(history') = Len(history) + 1
        BY <2>1, <2>4, <3>1, AppendProperties
      <4> QED BY <2>1, <2>4, <3>1, <4>1, AppendProperties, LenProperties
    <3> QED BY <3>2 DEF Members
  <2>7. IF t.entry THEN size = amount[t.side] + t.qty
        ELSE size = amount[t.side] - t.qty \/ (size = 0 /\ t.qty >= amount[t.side])
    BY <2>2, <2>3 DEF SizeAfter
  <2> HIDE DEF size
  <2> QED BY <1>1, <2>4, <2>5, <2>6, <2>7 DEF Ledger!Count, exchangeVars
<1>2. CASE Deliver
  <2>1. /\ cursor \in Nat /\ cursor + 1 \in DOMAIN trades
        /\ UNCHANGED exchangeVars /\ OnFill(cursor + 1)
    BY <1>0, <1>2 DEF Deliver, IInv, TypeOK
  <2>2. cursor + 1 \notin Members(history)
    BY <1>0, <2>1 DEF IInv, HistoryDelivered, Members
  <2>3. CASE ApplyFill(cursor + 1)
    BY <1>1, <2>1, <2>2, <2>3
  <2>4. CASE IgnoreDuplicate(cursor + 1)
    BY <2>1, <2>4 DEF IgnoreDuplicate, trackerVars, exchangeVars
  <2> QED BY <2>1, <2>3, <2>4 DEF OnFill
<1>3. ASSUME NEW k \in DOMAIN history, Redeliver(k)
      PROVE  UNCHANGED Ledger!ledgerVars
  <2>1. history[k] \in ids
    BY <1>0, <1>3, RedeliveredIsKnown DEF Redeliver, IInv
  <2> QED BY <1>3, <2>1 DEF Redeliver, OnFill, ApplyFill, Remember,
                            IgnoreDuplicate, exchangeVars, trackerVars
<1>4. ASSUME NEW t \in Trade, Execute(t) PROVE Ledger!Trade
  <2>1. /\ Len(trades') = Len(trades) + 1 /\ DOMAIN trades = 1..Len(trades)
        /\ \A i \in 1..Len(trades) : trades'[i] = trades[i]
        /\ \A n \in 0..Len(trades) : sizes'[n + 1] = sizes[n + 1]
    BY <1>0, <1>4, ExecuteAppends, LenProperties DEF IInv, TypeOK
  <2> QED BY <1>4, <2>1 DEF Execute, trackerVars, Ledger!Trade
<1>5. CASE ReconcileSync
  <2>1. /\ fetch.covers \in 0..Len(trades)
        /\ amount' = [s \in Sides |-> sizes[fetch.covers + 1][s]]
    BY <1>5 DEF ReconcileSync, DInv, AnswerCarriesSizes, SizesAfter
  <2>2. amount' = [s \in Sides |-> IF s \in Sides THEN sizes[fetch.covers + 1][s]
                                    ELSE amount[s]]
    BY <2>1
  <2>3. Ledger!Adopt(Sides, fetch.covers)
    BY <1>5, <2>2 DEF ReconcileSync, exchangeVars, Ledger!Adopt
  <2> QED BY <2>1, <2>3
<1>6. CASE OnPositionUpdate
  <2> DEFINE e == Head(posEvents)
  <2>1. /\ e = posEvents[1] /\ 1 \in DOMAIN posEvents
        /\ amount \in [Sides -> Nat] /\ e.side \in Sides
    <3>1. posEvents \in Seq(PosEvent) /\ posEvents # <<>> /\ amount \in [Sides -> Nat]
      BY <1>0, <1>6 DEF OnPositionUpdate, IInv, TypeOK
    <3>2. 1 \in DOMAIN posEvents /\ e = posEvents[1] /\ e \in PosEvent
      BY <3>1, HeadTailProperties, EmptySeq, LenProperties
    <3> QED BY <3>1, <3>2 DEF PosEvent
  <2>2. e.covers \in 0..Len(trades) /\ e.size = sizes[e.covers + 1][e.side]
    BY <2>1 DEF DInv, EventsCarrySizes, SizesAfter
  <2>3. amount' = [amount EXCEPT ![e.side] = e.size]
    BY <1>6 DEF OnPositionUpdate
  <2>4. UNCHANGED <<trades, sizes, history>>
    BY <1>6 DEF OnPositionUpdate, exchangeVars
  <2> HIDE DEF e
  <2>5. amount' = [s \in Sides |-> IF s \in {e.side} THEN sizes[e.covers + 1][s]
                                    ELSE amount[s]]
    BY <2>1, <2>2, <2>3
  <2>6. Ledger!Adopt({e.side}, e.covers)
    BY <2>4, <2>5 DEF Ledger!Adopt
  <2> QED BY <2>1, <2>2, <2>6
<1>7. CASE LoseEvent \/ ReconcileBegin \/ ExchangeAnswers \/ ReconcileFail
           \/ UNCHANGED vars
  BY <1>7 DEF LoseEvent, ReconcileBegin, ExchangeAnswers, ReconcileFail,
              exchangeVars, trackerVars, vars
<1> QED BY <1>2, <1>3, <1>4, <1>5, <1>6, <1>7 DEF Next

\* The tracker with its bounded deque implements the ledger with unbounded memory: the
\* local position moves by a trade, at most once for each, or to a size that the
\* exchange has had, and never otherwise.
THEOREM LedgerImplemented == Spec => ImplementsLedger
<1>1. Init => Ledger!LedgerInit
  <2>1. Members(<<>>) = {}
    BY DEF Members
  <2> QED BY <2>1 DEF Init, Ledger!LedgerInit
<1>2. DInv /\ DInv' /\ [Next]_vars => [Ledger!LedgerNext]_(Ledger!ledgerVars)
  BY LedgerStep
<1> QED BY DInvInit, DInvStep, <1>1, <1>2, PTL
        DEF Spec, ImplementsLedger, Ledger!LedgerSpec
=============================================================================
