------------------------- MODULE BarrierStateProofs -------------------------
(***************************************************************************)
(* Theorems about BarrierState, for every set of prices, every choice of   *)
(* the levels and every bound: its type invariant, and that a guaranteed   *)
(* stop loss guards its position until it closes, as long as the database  *)
(* and the position query answer.                                          *)
(*                                                                         *)
(* A handler changes the exchange, the stream and the tracker by way of    *)
(* snapshots (Present, Synced, WithLeg, MarketExit, Take), so the lemmas   *)
(* say what holds of a snapshot at each moment of a handler.               *)
(***************************************************************************)
EXTENDS BarrierState, SequenceTheorems, TLAPS

-----------------------------------------------------------------------------
(* The types *)

FillSet == [kind : {"quote", "pyramid", "sl", "tp"}, qty : Nat \ {0}, price : Prices,
            after : Nat, cycle : Nat]
BarrierSet == [active : BOOLEAN, exiting : BOOLEAN, remaining : Nat, entry : Nat,
               initial : Nat, sl : Int, locked : BOOLEAN, count : 0..1,
               pending : {"none", "fresh", "stale"}, trailing : BOOLEAN,
               peak : Nat, tight : BOOLEAN]
RowSet  == [saved : BOOLEAN, sl : Int, locked : BOOLEAN, count : 0..1, peak : Nat,
            trailing : BOOLEAN]
BookSet == [entries : Nat, crashes : Nat, cycle : Nat, promise : Nat, short : BOOLEAN,
            legs : Nat, hits : Nat]
PhaseSet == {"down", "starting", "running"}
Snapshot == [size : Nat, cost : Nat, fills : Seq(FillSet), book : BookSet,
             amount : Nat, entry : Nat]

LEMMA Types ==
  ASSUME TypeOK
  PROVE  /\ mark \in Prices /\ phase \in PhaseSet /\ slCount \in Nat
         /\ barrier \in BarrierSet /\ row \in RowSet /\ Present \in Snapshot
         /\ fills \in Seq(FillSet) /\ book \in BookSet /\ size \in Nat /\ cost \in Nat
         /\ amount \in Nat /\ entry \in Nat
BY DEF TypeOK, BarrierSet, RowSet, Present, Snapshot, FillSet, BookSet, PhaseSet

LEMMA TypesNext ==
  ASSUME mark' \in Prices, phase' \in PhaseSet, slCount' \in Nat,
         barrier' \in BarrierSet, row' \in RowSet, Present' \in Snapshot
  PROVE  TypeOK'
<1>1. /\ size' \in Nat /\ cost' \in Nat /\ fills' \in Seq(FillSet) /\ book' \in BookSet
      /\ amount' \in Nat /\ entry' \in Nat
  <2>1. /\ Present'.size = size' /\ Present'.cost = cost' /\ Present'.fills = fills'
        /\ Present'.book = book' /\ Present'.amount = amount' /\ Present'.entry = entry'
    BY DEF Present
  <2> QED BY <2>1 DEF Snapshot
<1> QED BY <1>1 DEF TypeOK, FillSet, BarrierSet, RowSet, BookSet, PhaseSet

LEMMA Constants ==
  /\ \A p \in Prices : p \in Nat /\ p > 0
  /\ \A q \in QuoteLots \cup LegLots : q \in Nat \ {0}
  /\ StopLoss \in Nat /\ Activation \in Nat /\ Floor \in Nat /\ Lock \in Nat
  /\ MaxHits \in Nat
BY PriceAssumption, LevelAssumption, LotAssumption, BoundAssumption

LEMMA Division == \A n \in Nat, d \in Nat \ {0} : n \div d \in Nat
OBVIOUS

LEMMA AverageType ==
  ASSUME NEW n \in Nat, NEW old \in Nat, NEW q \in Nat \ {0}, NEW p \in Nat
  PROVE  Average(n, old, q, p) \in Nat
<1>1. n * old \in Nat /\ q * p \in Nat
  OBVIOUS
<1>2. n * old + q * p \in Nat /\ n + q \in Nat \ {0}
  BY <1>1
<1> QED BY <1>2, Division DEF Average

LEMMA CountedType == \A n \in Nat : Counted(n) \in Nat
BY DEF Counted

LEMMA LessType ==
  ASSUME NEW a \in Nat, NEW b \in Nat
  PROVE  Less(a, b) \in Nat
BY DEF Less

LEMMA RowOfType == \A b \in BarrierSet : RowOf(b) \in RowSet
BY DEF BarrierSet, RowSet, RowOf

LEMMA RowSteps ==
  ASSUME TypeOK, NEW b \in BarrierSet
  PROVE  (Save(b) => row' \in RowSet) /\ (Delete => row' \in RowSet)
<1>1. row \in RowSet /\ RowOf(b) \in RowSet
  BY Types, RowOfType
<1>2. NoRow \in RowSet
  BY DEF NoRow, RowSet
<1> QED BY <1>1, <1>2 DEF Save, Delete

\* The four fields of a barrier that a handler sets last.
LEMMA BarrierSteps ==
  ASSUME NEW b \in BarrierSet, NEW n \in Nat, NEW c \in BOOLEAN, NEW x \in BOOLEAN
  PROVE  /\ LET r == [b EXCEPT !.remaining = n]
            IN r \in BarrierSet /\ r.locked = b.locked /\ r.sl = b.sl
         /\ LET r == [b EXCEPT !.remaining = n, !.active = c]
            IN r \in BarrierSet /\ r.locked = b.locked /\ r.sl = b.sl
         /\ LET r == [b EXCEPT !.active = c, !.exiting = x]
            IN r \in BarrierSet /\ r.locked = b.locked /\ r.sl = b.sl
BY DEF BarrierSet

-----------------------------------------------------------------------------
(* The queue of fills and the snapshots *)

\* The stream delivers fills in the order of the positions they belong to, and an
\* exit of the present position has left something of it.
Queue(q, now) ==
  /\ \A i, j \in 1..Len(q) : i <= j => q[i].cycle <= q[j].cycle
  /\ \A i \in 1..Len(q) :
       /\ q[i].cycle <= now
       /\ q[i].kind \in {"sl", "tp"} /\ q[i].cycle = now => q[i].after > 0

\* A position with a guaranteed stop loss is open, and all that waits to be handled
\* is its own.
Sound(m) ==
  /\ Queue(m.fills, m.book.cycle)
  /\ m.book.promise > 0 =>
       m.size > 0 /\ \A i \in 1..Len(m.fills) : m.fills[i].cycle = m.book.cycle

LEMMA QueueAppend ==
  ASSUME NEW q \in Seq(FillSet), NEW f \in FillSet, NEW now \in Nat, Queue(q, now),
         f.cycle = now
  PROVE  /\ Append(q, f) \in Seq(FillSet)
         /\ Queue(Append(q, f), now + 1)
         /\ f.kind \in {"quote", "pyramid"} \/ f.after > 0 => Queue(Append(q, f), now)
         /\ (\A i \in 1..Len(q) : q[i].cycle = now)
              => \A i \in 1..Len(Append(q, f)) : Append(q, f)[i].cycle = now
<1> DEFINE a == Append(q, f)
<1>1. /\ Len(q) \in Nat /\ a \in Seq(FillSet) /\ Len(a) = Len(q) + 1
      /\ a[Len(a)] = f /\ \A i \in 1..Len(q) : a[i] = q[i]
  BY AppendProperties, LenProperties
<1>2. \A i \in 1..Len(q) : q[i].cycle \in Nat
  <2>1. \A i \in 1..Len(q) : q[i] \in FillSet
    BY ElementOfSeq
  <2> QED BY <2>1 DEF FillSet
<1> HIDE DEF a
<1>3. \A i \in 1..Len(a) : i = Len(a) \/ i \in 1..Len(q)
  BY <1>1
<1>4. \A i \in 1..Len(a) : a[i].cycle \in Nat /\ a[i].cycle <= now
  BY <1>1, <1>2, <1>3 DEF Queue
<1>5. \A i, j \in 1..Len(a) : i <= j => a[i].cycle <= a[j].cycle
  <2> TAKE i, j \in 1..Len(a)
  <2>1. CASE j = Len(a)
    BY <1>1, <1>4, <2>1
  <2>2. CASE j \in 1..Len(q)
    <3>1. i <= j => i \in 1..Len(q)
      BY <1>1, <2>2
    <3> QED BY <1>1, <2>2, <3>1 DEF Queue
  <2> QED BY <1>3, <2>1, <2>2
<1>6. \A i \in 1..Len(q) : a[i].kind \in {"sl", "tp"} /\ a[i].cycle = now => a[i].after > 0
  BY <1>1 DEF Queue
<1>7. Queue(a, now + 1)
  <2>1. \A i \in 1..Len(a) : a[i].cycle <= now + 1 /\ a[i].cycle # now + 1
    BY <1>4
  <2> QED BY <1>5, <2>1 DEF Queue
<1>8. f.kind \in {"quote", "pyramid"} \/ f.after > 0 => Queue(a, now)
  <2> SUFFICES ASSUME f.kind \in {"quote", "pyramid"} \/ f.after > 0
               PROVE  Queue(a, now)
    OBVIOUS
  <2>1. f.kind \in {"sl", "tp"} => f.after > 0
    OBVIOUS
  <2>2. \A i \in 1..Len(a) : a[i].kind \in {"sl", "tp"} /\ a[i].cycle = now => a[i].after > 0
    BY <1>1, <1>3, <1>6, <2>1
  <2> QED BY <1>4, <1>5, <2>2 DEF Queue
<1>9. (\A i \in 1..Len(q) : q[i].cycle = now) => \A i \in 1..Len(a) : a[i].cycle = now
  BY <1>1, <1>3
<1> QED BY <1>1, <1>7, <1>8, <1>9 DEF a

LEMMA QueueTail ==
  ASSUME NEW q \in Seq(FillSet), NEW now \in Nat, Queue(q, now), q # <<>>
  PROVE  /\ Head(q) \in FillSet /\ Head(q).cycle <= now
         /\ Head(q).kind \in {"sl", "tp"} /\ Head(q).cycle = now => Head(q).after > 0
         /\ Tail(q) \in Seq(FillSet) /\ Queue(Tail(q), now)
         /\ Head(q) = q[1] /\ 1 \in 1..Len(q)
         /\ Head(q).cycle = now => \A i \in 1..Len(Tail(q)) : Tail(q)[i].cycle = now
         /\ (\A i \in 1..Len(q) : q[i].cycle = now)
              => \A i \in 1..Len(Tail(q)) : Tail(q)[i].cycle = now
<1> DEFINE t == Tail(q)
<1>1. /\ Len(q) \in Nat /\ Len(q) > 0 /\ t \in Seq(FillSet) /\ Len(t) = Len(q) - 1
      /\ \A i \in 1..Len(t) : t[i] = q[i + 1]
      /\ Head(q) \in FillSet /\ Head(q) = q[1]
  BY HeadTailProperties, EmptySeq, LenProperties
<1> HIDE DEF t
<1>2. \A i \in 1..Len(q) : q[i].cycle \in Nat
  <2>1. \A i \in 1..Len(q) : q[i] \in FillSet
    BY ElementOfSeq
  <2> QED BY <2>1 DEF FillSet
<1>3. \A i \in 1..Len(t) : i + 1 \in 1..Len(q)
  BY <1>1
<1>4. 1 \in 1..Len(q)
  BY <1>1
<1>5. Queue(t, now)
  <2>1. ASSUME NEW i \in 1..Len(t), NEW j \in 1..Len(t), i <= j
        PROVE  t[i].cycle <= t[j].cycle
    <3>1. i + 1 \in 1..Len(q) /\ j + 1 \in 1..Len(q) /\ i + 1 <= j + 1
      BY <1>3, <2>1
    <3> QED BY <1>1, <3>1 DEF Queue
  <2>2. ASSUME NEW i \in 1..Len(t)
        PROVE  /\ t[i].cycle <= now
               /\ t[i].kind \in {"sl", "tp"} /\ t[i].cycle = now => t[i].after > 0
    BY <1>1, <1>3 DEF Queue
  <2> QED BY <2>1, <2>2 DEF Queue
<1>6. Head(q).cycle = now => \A i \in 1..Len(t) : t[i].cycle = now
  <2> SUFFICES ASSUME Head(q).cycle = now, NEW i \in 1..Len(t)
               PROVE  t[i].cycle = now
    OBVIOUS
  <2>1. q[1].cycle <= q[i + 1].cycle /\ q[i + 1].cycle <= now
    BY <1>1, <1>3, <1>4 DEF Queue
  <2> QED BY <1>1, <1>2, <1>3, <2>1
<1>7. (\A i \in 1..Len(q) : q[i].cycle = now) => \A i \in 1..Len(t) : t[i].cycle = now
  BY <1>1, <1>3
<1> QED BY <1>1, <1>4, <1>5, <1>6, <1>7 DEF t, Queue

LEMMA TakeIs ==
  ASSUME NEW m \in Snapshot, NEW b, Take(m, b)
  PROVE  Present' = m /\ book' = m.book /\ amount' = m.amount /\ barrier' = b
<1>1. m = [size |-> m.size, cost |-> m.cost, fills |-> m.fills, book |-> m.book,
           amount |-> m.amount, entry |-> m.entry]
  BY DEF Snapshot
<1> QED BY <1>1 DEF Take, Present

\* What the tracker takes over from the exchange.
LEMMA SyncedStep ==
  ASSUME NEW m \in Snapshot, NEW n \in Synced(m)
  PROVE  /\ n \in Snapshot /\ n.size = m.size /\ n.fills = m.fills /\ n.book = m.book
         /\ ~FetchFaults => n.amount = m.size
         /\ Sound(m) => Sound(n)
<1> DEFINE e == IF m.amount = m.size THEN m.entry ELSE m.cost
<1>1. n = [m EXCEPT !.amount = m.size, !.entry = e] \/ (FetchFaults /\ n = m)
  BY DEF Synced
<1>2. e \in Nat /\ m.size \in Nat
  BY DEF Snapshot
<1> HIDE DEF e
<1>3. CASE n = [m EXCEPT !.amount = m.size, !.entry = e]
  BY <1>2, <1>3 DEF Snapshot, Sound
<1> QED BY <1>1, <1>3

LEMMA FillType ==
  ASSUME TypeOK, NEW kind \in {"quote", "pyramid", "sl", "tp"}, NEW q \in Nat \ {0},
         NEW p \in Prices, NEW a \in Nat
  PROVE  /\ Fill(kind, q, p, a) \in FillSet /\ Fill(kind, q, p, a).cycle = book.cycle
         /\ Fill(kind, q, p, a).kind = kind /\ Fill(kind, q, p, a).after = a
BY Types DEF Fill, FillSet, BookSet

LEMMA BookSteps ==
  ASSUME NEW k \in BookSet
  PROVE  /\ LET b == [k EXCEPT !.entries = @ + 1, !.legs = @ + 1]
            IN /\ b \in BookSet /\ b.cycle = k.cycle /\ b.promise = k.promise
               /\ b.short = k.short
         /\ \A kind : LET b == Closed(k, kind)
                      IN b \in BookSet /\ b.cycle = k.cycle + 1 /\ b.promise = 0
<1>1. k.entries + 1 \in Nat /\ k.legs + 1 \in Nat /\ k.cycle + 1 \in Nat /\ k.hits \in Nat
  BY DEF BookSet
<1>2. \A e, l \in Nat : LET b == [k EXCEPT !.entries = e, !.legs = l]
                       IN /\ b \in BookSet /\ b.cycle = k.cycle /\ b.promise = k.promise
                          /\ b.short = k.short
  BY DEF BookSet
<1>3. LET b == [k EXCEPT !.entries = @ + 1, !.legs = @ + 1]
      IN b \in BookSet /\ b.cycle = k.cycle /\ b.promise = k.promise /\ b.short = k.short
  BY <1>1, <1>2
<1>4. ASSUME NEW c \in Nat, NEW h \in Nat
      PROVE  LET r == [k EXCEPT !.cycle = c, !.promise = 0, !.short = FALSE, !.legs = 0,
                                !.hits = h]
             IN r \in BookSet /\ r.cycle = c /\ r.promise = 0
  <2> DEFINE r1 == [k EXCEPT !.cycle = c, !.promise = 0]
             r2 == [r1 EXCEPT !.short = FALSE, !.legs = 0, !.hits = h]
  <2>1. r1 \in BookSet /\ r1.cycle = c /\ r1.promise = 0
    BY DEF BookSet
  <2>2. r2 = [k EXCEPT !.cycle = c, !.promise = 0, !.short = FALSE, !.legs = 0, !.hits = h]
    OBVIOUS
  <2> HIDE DEF r1
  <2>3. r2 \in BookSet /\ r2.cycle = c /\ r2.promise = 0
    BY <2>1 DEF BookSet
  <2> HIDE DEF r2
  <2> QED BY <2>2, <2>3
<1>5. ASSUME NEW kind
      PROVE  LET b == Closed(k, kind)
             IN b \in BookSet /\ b.cycle = k.cycle + 1 /\ b.promise = 0
  <2> DEFINE h == IF kind = "sl" THEN Counted(k.hits) ELSE 0
             c == k.cycle + 1
  <2>1. h \in Nat /\ c \in Nat
    BY <1>1, CountedType
  <2>2. Closed(k, kind) = [k EXCEPT !.cycle = c, !.promise = 0, !.short = FALSE,
                                    !.legs = 0, !.hits = h]
    BY DEF Closed
  <2> HIDE DEF h, c
  <2> DEFINE r == [k EXCEPT !.cycle = c, !.promise = 0, !.short = FALSE, !.legs = 0,
                            !.hits = h]
  <2>3. r \in BookSet /\ r.cycle = c /\ r.promise = 0
    BY <1>4, <2>1
  <2>4. Closed(k, kind) = r
    BY <2>2
  <2> HIDE DEF r
  <2> QED BY <2>3, <2>4 DEF c
<1> QED BY <1>3, <1>5

LEMMA WithLegStep ==
  ASSUME TypeOK, NEW m \in Snapshot, Sound(m), m.book.cycle = book.cycle,
         NEW q \in LegLots, NEW p \in Prices
  PROVE  LET n == WithLeg(m, q, p)
         IN /\ n \in Snapshot /\ Sound(n) /\ n.amount = m.amount
            /\ n.book.cycle = book.cycle /\ n.book.promise = m.book.promise
            /\ n.book.short = m.book.short
<1> DEFINE f == Fill("pyramid", q, p, m.size + q)
           b == [m.book EXCEPT !.entries = @ + 1, !.legs = @ + 1]
           c == Average(m.size, m.cost, q, p)
           z == m.size + q
           n == [m EXCEPT !.size = z, !.cost = c, !.fills = Append(@, f), !.book = b]
<1>1. /\ m.book \in BookSet /\ m.fills \in Seq(FillSet) /\ m.cost \in Nat /\ m.size \in Nat
      /\ q \in Nat \ {0} /\ p \in Nat
  BY Constants DEF Snapshot
<1>2. z \in Nat /\ z > 0
  BY <1>1
<1>3. f \in FillSet /\ f.cycle = m.book.cycle /\ f.kind = "pyramid"
  BY <1>1, <1>2, FillType
<1>4. b \in BookSet /\ b.cycle = m.book.cycle /\ b.promise = m.book.promise
      /\ b.short = m.book.short
  BY <1>1, BookSteps
<1>5. c \in Nat
  BY <1>1, AverageType
<1>6. WithLeg(m, q, p) = n
  BY DEF WithLeg
<1>7. m.book.cycle \in Nat /\ m.book.promise \in Nat
  BY <1>1 DEF BookSet
<1> HIDE DEF f, b, c, z
<1>8. /\ Append(m.fills, f) \in Seq(FillSet)
      /\ Queue(Append(m.fills, f), m.book.cycle)
      /\ (\A i \in 1..Len(m.fills) : m.fills[i].cycle = m.book.cycle)
           => \A i \in 1..Len(Append(m.fills, f)) : Append(m.fills, f)[i].cycle = m.book.cycle
  BY <1>1, <1>3, <1>7, QueueAppend DEF Sound
<1>9. /\ n \in Snapshot /\ n.size = z /\ n.fills = Append(m.fills, f) /\ n.book = b
      /\ n.amount = m.amount
  BY <1>1, <1>2, <1>4, <1>5, <1>8 DEF Snapshot
<1> HIDE DEF n
<1>10. Sound(n)
  BY <1>2, <1>4, <1>8, <1>9 DEF Sound
<1> QED BY <1>4, <1>6, <1>9, <1>10

\* An exit either leaves something of the position, and its guarantee, or closes it.
LEMMA WithExitStep ==
  ASSUME TypeOK, NEW m \in Snapshot, Sound(m), m.book.cycle = book.cycle,
         NEW q \in 1..m.size, NEW kind \in {"sl", "tp"}
  PROVE  LET n == WithExit(m, q, kind)
         IN /\ n \in Snapshot /\ Sound(n) /\ n.amount = m.amount
            /\ n.book.promise = 0 \/ n.book = m.book
<1> DEFINE z == m.size - q
           f == Fill(kind, q, mark, z)
           b == IF q = m.size THEN Closed(m.book, kind) ELSE m.book
           c == IF q = m.size THEN 0 ELSE m.cost
           n == [m EXCEPT !.size = z, !.cost = c, !.fills = Append(@, f), !.book = b]
<1>1. /\ m.book \in BookSet /\ m.fills \in Seq(FillSet) /\ m.cost \in Nat /\ m.size \in Nat
      /\ mark \in Prices /\ m.book.cycle \in Nat /\ m.book.promise \in Nat
  BY Types DEF Snapshot, BookSet
<1>2. z \in Nat /\ q \in Nat \ {0} /\ c \in Nat /\ (q # m.size => z > 0)
  BY <1>1
<1>3. f \in FillSet /\ f.cycle = m.book.cycle /\ f.after = z
  BY <1>1, <1>2, FillType
<1>4. /\ b \in BookSet
      /\ q = m.size => b.cycle = m.book.cycle + 1 /\ b.promise = 0
      /\ q # m.size => b = m.book
  BY <1>1, BookSteps
<1>5. WithExit(m, q, kind) = n
  BY DEF WithExit
<1> HIDE DEF f, b, c, z
<1>6. /\ Append(m.fills, f) \in Seq(FillSet)
      /\ Queue(Append(m.fills, f), m.book.cycle + 1)
      /\ f.after > 0 => Queue(Append(m.fills, f), m.book.cycle)
      /\ (\A i \in 1..Len(m.fills) : m.fills[i].cycle = m.book.cycle)
           => \A i \in 1..Len(Append(m.fills, f)) : Append(m.fills, f)[i].cycle = m.book.cycle
  BY <1>1, <1>3, QueueAppend DEF Sound
<1>7. /\ n \in Snapshot /\ n.size = z /\ n.fills = Append(m.fills, f) /\ n.book = b
      /\ n.amount = m.amount
  BY <1>1, <1>2, <1>4, <1>6 DEF Snapshot
<1> HIDE DEF n
<1>8. Sound(n)
  <2>1. CASE q = m.size
    BY <1>4, <1>6, <1>7, <2>1 DEF Sound
  <2>2. CASE q # m.size
    BY <1>2, <1>3, <1>4, <1>6, <1>7, <2>2 DEF Sound
  <2> QED BY <2>1, <2>2
<1> QED BY <1>4, <1>5, <1>7, <1>8

-----------------------------------------------------------------------------
(* The market exit and the take profit orders *)

\* What remains of the guaranteed stop loss n in the barrier or in its row.
Guards(x, n) == n > 0 => x.locked /\ x.sl >= n

Calm == ~DbFaults /\ ~FetchFaults

\* A handler that began with snapshot m and barrier b is through: it left the stop
\* loss alone, and the guarantee, with a tracker that has the position, is gone only
\* with the position.
Handled(m, b) ==
  /\ Present' \in Snapshot /\ Sound(Present') /\ slCount' \in Nat
  /\ barrier' \in BarrierSet /\ barrier'.locked = b.locked /\ barrier'.sl = b.sl
  /\ book'.promise = 0 \/ book' = m.book
  /\ Calm /\ book'.promise > 0 /\ m.amount > 0 => amount' > 0

\* A handler that asks the exchange on its way.
LEMMA HandledSynced ==
  ASSUME NEW m \in Snapshot, Sound(m), NEW n \in Synced(m), NEW b \in BarrierSet,
         NEW r \in BarrierSet, r.locked = b.locked, r.sl = b.sl, Handled(n, r)
  PROVE  Handled(m, b)
<1>1. /\ n.book = m.book /\ n.size = m.size
      /\ Calm => n.amount = m.size
  BY SyncedStep DEF Calm
<1>2. m.book.promise \in Nat /\ m.size \in Nat
  BY DEF Snapshot, BookSet
<1>3. Calm /\ book'.promise > 0 => n.amount > 0
  <2>1. book'.promise > 0 => book' = n.book
    BY DEF Handled
  <2> QED BY <1>1, <1>2, <2>1 DEF Sound
<1> QED BY <1>1, <1>3 DEF Handled

LEMMA TakeHandled ==
  ASSUME NEW m \in Snapshot, Sound(m), NEW b \in BarrierSet, Take(m, b), slCount' \in Nat
  PROVE  Handled(m, b)
<1>1. Present' = m /\ book' = m.book /\ amount' = m.amount /\ barrier' = b
  BY TakeIs
<1> QED BY <1>1 DEF Handled

LEMMA PlaceStep ==
  ASSUME NEW m \in Snapshot, Sound(m), NEW b \in BarrierSet, PlaceTakeProfits(m, b),
         slCount' \in Nat
  PROVE  Handled(m, b)
<1>1. CASE Take(m, b)
  BY <1>1, TakeHandled
<1>2. CASE \E n \in Synced(m) :
             Take(n, [b EXCEPT !.remaining = n.amount, !.active = @ /\ n.amount > 0])
  <2>1. PICK n \in Synced(m) :
               Take(n, [b EXCEPT !.remaining = n.amount, !.active = @ /\ n.amount > 0])
    BY <1>2
  <2> DEFINE c == b.active /\ n.amount > 0
             r == [b EXCEPT !.remaining = n.amount, !.active = c]
  <2>2. Take(n, r)
    BY <2>1
  <2>3. n \in Snapshot /\ Sound(n)
    BY SyncedStep
  <2>4. n.amount \in Nat /\ c \in BOOLEAN
    BY <2>3 DEF Snapshot
  <2> HIDE DEF c
  <2>5. r \in BarrierSet /\ r.locked = b.locked /\ r.sl = b.sl
    BY <2>4 DEF BarrierSet
  <2> HIDE DEF r
  <2>6. Handled(n, r)
    BY <2>2, <2>3, <2>5, TakeHandled
  <2> QED BY <2>5, <2>6, HandledSynced
<1> QED BY <1>1, <1>2 DEF PlaceTakeProfits

LEMMA OrderedStep ==
  ASSUME TypeOK, NEW m \in Snapshot, Sound(m), m.book.cycle = book.cycle,
         NEW b \in BarrierSet, NEW q \in Nat, NEW kind \in {"sl", "tp"},
         Ordered(m, b, q, kind)
  PROVE  Handled(m, b)
<1>1. slCount \in Nat /\ m.size \in Nat /\ 0 < q /\ q <= m.size
  BY Types DEF Snapshot, Ordered
<1>2. CASE /\ \E k \in IF CallFaults THEN 1..q ELSE {q} :
                Take(WithExit(m, k, kind), [b EXCEPT !.active = FALSE, !.exiting = TRUE])
           /\ slCount' = IF kind = "sl" THEN Counted(slCount) ELSE slCount
  <2>1. PICK k \in IF CallFaults THEN 1..q ELSE {q} :
               Take(WithExit(m, k, kind), [b EXCEPT !.active = FALSE, !.exiting = TRUE])
    BY <1>2
  <2> DEFINE n == WithExit(m, k, kind)
             r == [b EXCEPT !.active = FALSE, !.exiting = TRUE]
  <2>2. k \in 1..m.size
    <3>1. CASE CallFaults
      BY <1>1, <2>1, <3>1
    <3>2. CASE ~CallFaults
      BY <1>1, <2>1, <3>2
    <3> QED BY <3>1, <3>2
  <2>3. n \in Snapshot /\ Sound(n) /\ n.amount = m.amount
        /\ (n.book.promise = 0 \/ n.book = m.book)
    BY <2>2, WithExitStep
  <2>4. r \in BarrierSet /\ r.locked = b.locked /\ r.sl = b.sl
    BY BarrierSteps
  <2>5. Take(n, r)
    BY <2>1
  <2> HIDE DEF n, r
  <2>6. slCount' \in Nat
    BY <1>1, <1>2, CountedType
  <2>7. Present' = n /\ book' = n.book /\ amount' = n.amount /\ barrier' = r
    BY <2>3, <2>5, TakeIs
  <2> QED BY <2>3, <2>4, <2>6, <2>7 DEF Handled
<1>3. CASE CallFaults /\ Take(m, b) /\ UNCHANGED slCount
  BY <1>1, <1>3, TakeHandled
<1> QED BY <1>2, <1>3 DEF Ordered

LEMMA MarketExitStep ==
  ASSUME TypeOK, NEW m \in Snapshot, Sound(m), m.book.cycle = book.cycle,
         NEW b \in BarrierSet, NEW kind \in {"sl", "tp"}, MarketExit(m, b, kind)
  PROVE  Handled(m, b)
<1>1. slCount \in Nat /\ b.remaining \in Nat
  BY Types DEF BarrierSet
<1>2. CASE Ordered(m, b, b.remaining, kind)
  BY <1>1, <1>2, OrderedStep
<1>3. ASSUME NEW n \in Synced(m),
             LET r == [b EXCEPT !.remaining = n.amount]
                 q == Lower(b.remaining, n.amount)
             IN \/ Ordered(n, r, q, kind)
                \/ (q = 0 \/ q > n.size) /\ Take(n, r) /\ UNCHANGED slCount
      PROVE  Handled(m, b)
  <2> DEFINE r == [b EXCEPT !.remaining = n.amount]
             q == Lower(b.remaining, n.amount)
  <2>1. n \in Snapshot /\ Sound(n) /\ n.book = m.book
    BY SyncedStep
  <2>2. n.amount \in Nat
    BY <2>1 DEF Snapshot
  <2>3. r \in BarrierSet /\ r.locked = b.locked /\ r.sl = b.sl
    BY <2>2, BarrierSteps
  <2>4. q \in Nat
    BY <1>1, <2>2 DEF Lower
  <2>5. Ordered(n, r, q, kind) \/ (Take(n, r) /\ UNCHANGED slCount)
    BY <1>3
  <2> HIDE DEF r, q
  <2>6. Handled(n, r)
    <3>1. CASE Ordered(n, r, q, kind)
      BY <2>1, <2>3, <2>4, <3>1, OrderedStep
    <3>2. CASE Take(n, r) /\ UNCHANGED slCount
      BY <1>1, <2>1, <2>3, <3>2, TakeHandled
    <3> QED BY <2>5, <3>1, <3>2
  <2> QED BY <2>3, <2>6, HandledSynced
<1> QED BY <1>2, <1>3 DEF MarketExit

-----------------------------------------------------------------------------
(* The invariant *)

BarrierInv == TypeOK /\ Sound(Present)

\* Unless an exit was counted short, the guarantee is in the row whatever happens to
\* the program, in the barrier while the program runs, and the tracker, which drops
\* the row of a flat side, has the position.
Guarantee ==
  book.promise > 0 /\ ~book.short =>
    /\ row.saved /\ Guards(row, book.promise)
    /\ phase = "running" => Guards(barrier, book.promise)
    /\ Up => amount > 0

Kept == Calm /\ Guarantee => Guarantee'

\* A handler whose barrier and whose row hold the guarantee of its snapshot keeps it.
LEMMA HandledKeeps ==
  ASSUME NEW m \in Snapshot, NEW b \in BarrierSet, Handled(m, b),
         mark' \in Prices, phase' \in PhaseSet, row' \in RowSet,
         Calm /\ Guarantee /\ m.book.promise > 0 /\ ~m.book.short =>
           /\ row'.saved /\ Guards(row', m.book.promise)
           /\ phase' = "running" => Guards(b, m.book.promise)
           /\ m.amount > 0
  PROVE  BarrierInv' /\ Kept
<1>1. BarrierInv'
  BY TypesNext DEF BarrierInv, Handled
<1>2. ASSUME Calm, Guarantee, book'.promise > 0, ~book'.short
      PROVE  /\ row'.saved /\ Guards(row', book'.promise)
             /\ phase' = "running" => Guards(barrier', book'.promise)
             /\ amount' > 0
  <2>1. book' = m.book
    <3>1. book'.promise # 0
      BY <1>2
    <3> QED BY <3>1 DEF Handled
  <2>2. /\ row'.saved /\ Guards(row', m.book.promise)
        /\ phase' = "running" => Guards(b, m.book.promise)
        /\ m.amount > 0
    BY <1>2, <2>1
  <2> QED BY <1>2, <2>1, <2>2 DEF Handled, Guards
<1> QED BY <1>1, <1>2 DEF Kept, Guarantee

LEMMA PresentSound ==
  ASSUME BarrierInv
  PROVE  /\ TypeOK /\ Present \in Snapshot /\ Sound(Present)
         /\ Present.book = book /\ Present.fills = fills /\ Present.size = size
         /\ Present.amount = amount
         /\ book.promise \in Nat /\ book.cycle \in Nat
         /\ Queue(fills, book.cycle)
         /\ book.promise > 0 =>
              size > 0 /\ \A i \in 1..Len(fills) : fills[i].cycle = book.cycle
<1>1. TypeOK /\ Sound(Present) /\ Present \in Snapshot /\ book \in BookSet
  BY Types DEF BarrierInv
<1>2. /\ Present.book = book /\ Present.fills = fills /\ Present.size = size
      /\ Present.amount = amount
  BY DEF Present
<1> QED BY <1>1, <1>2 DEF Sound, BookSet

LEMMA PresentNext ==
  ASSUME size' \in Nat, cost' \in Nat, fills' \in Seq(FillSet), book' \in BookSet,
         amount' \in Nat, entry' \in Nat, Queue(fills', book'.cycle),
         book'.promise > 0 =>
           size' > 0 /\ \A i \in 1..Len(fills') : fills'[i].cycle = book'.cycle
  PROVE  Present' \in Snapshot /\ Sound(Present')
<1>1. /\ Present'.book = book' /\ Present'.fills = fills' /\ Present'.size = size'
  BY DEF Present
<1>2. Present' \in Snapshot
  BY DEF Present, Snapshot
<1> QED BY <1>1, <1>2 DEF Sound
-----------------------------------------------------------------------------
(* The exchange, the crash *)

\* The fill of an order joins the stream if the program runs.
LEMMA StreamStep ==
  ASSUME BarrierInv, NEW f \in FillSet, f.cycle = book.cycle,
         fills' \in {fills, Append(fills, f)}
  PROVE  /\ fills' \in Seq(FillSet) /\ Queue(fills', book.cycle + 1)
         /\ f.kind \in {"quote", "pyramid"} \/ f.after > 0 =>
              /\ Queue(fills', book.cycle)
              /\ book.promise > 0 => \A i \in 1..Len(fills') : fills'[i].cycle = book.cycle
<1> USE PresentSound, Types DEF BarrierInv
<1>1. CASE fills' = Append(fills, f)
  BY <1>1, QueueAppend
<1>2. CASE fills' = fills
  <2>1. \A i \in 1..Len(fills) : fills[i] \in FillSet
    BY ElementOfSeq
  <2>2. \A i \in 1..Len(fills) : fills[i].cycle \in Nat
    BY <2>1 DEF FillSet
  <2>3. \A i \in 1..Len(fills) : fills[i].cycle <= book.cycle
    BY DEF Queue
  <2>4. \A i \in 1..Len(fills) :
          fills[i].cycle <= book.cycle + 1 /\ fills[i].cycle # book.cycle + 1
    BY <2>2, <2>3
  <2>5. Queue(fills, book.cycle + 1)
    BY <2>4 DEF Queue
  <2> QED BY <1>2, <2>5
<1> QED BY <1>1, <1>2

LEMMA ExchangeStep ==
  ASSUME BarrierInv, QuoteFills \/ TakeProfitFills \/ LoseFill \/ Crash \/ TenSeconds
  PROVE  BarrierInv' /\ Kept
<1> USE PresentSound, Types DEF BarrierInv
<1>1. CASE QuoteFills
  <2>1. PICK q \in QuoteLots :
          /\ size' = size + q
          /\ cost' = Average(size, cost, q, mark)
          /\ fills' = IF Up THEN Append(fills, Fill("quote", q, mark, size'))
                      ELSE fills
    BY <1>1 DEF QuoteFills
  <2>2. q \in Nat \ {0} /\ mark \in Nat
    BY Constants
  <2>3. size' \in Nat /\ size' > 0 /\ cost' \in Nat
    <3>1. Average(size, cost, q, mark) \in Nat
      BY <2>2, AverageType
    <3> QED BY <2>1, <2>2, <3>1
  <2> DEFINE f == Fill("quote", q, mark, size')
  <2>4. f \in FillSet /\ f.cycle = book.cycle /\ f.kind = "quote"
    BY <2>2, <2>3, FillType
  <2>5. fills' \in {fills, Append(fills, f)}
    BY <2>1
  <2> HIDE DEF f
  <2>6. /\ fills' \in Seq(FillSet) /\ Queue(fills', book.cycle)
        /\ book.promise > 0 => \A i \in 1..Len(fills') : fills'[i].cycle = book.cycle
    BY <2>4, <2>5, StreamStep
  <2>7. /\ book' \in BookSet /\ book'.cycle = book.cycle /\ book'.promise = book.promise
        /\ book'.short = book.short
    <3>1. book.entries + 1 \in Nat
      BY DEF BookSet
    <3>2. book' = [book EXCEPT !.entries = book.entries + 1]
      BY <1>1 DEF QuoteFills
    <3> QED BY <3>1, <3>2 DEF BookSet
  <2>8. UNCHANGED <<mark, phase, amount, entry, slCount, barrier, row>>
    BY <1>1 DEF QuoteFills, trackerVars
  <2>9. Present' \in Snapshot /\ Sound(Present')
    BY <2>3, <2>6, <2>7, <2>8, PresentNext
  <2> QED BY <2>7, <2>8, <2>9, TypesNext DEF Kept, Guarantee, Up
<1>2. CASE TakeProfitFills
  <2>1. PICK q \in 1..size :
          /\ size' = size - q
          /\ cost' = IF q = size THEN 0 ELSE cost
          /\ fills' = IF Up THEN Append(fills, Fill("tp", q, mark, size')) ELSE fills
          /\ book' = IF q = size THEN Closed(book, "tp") ELSE book
    BY <1>2 DEF TakeProfitFills
  <2>2. q \in Nat \ {0} /\ size' \in Nat /\ cost' \in Nat /\ (q # size => size' > 0)
    BY <2>1
  <2> DEFINE f == Fill("tp", q, mark, size')
  <2>3. f \in FillSet /\ f.cycle = book.cycle /\ f.after = size'
    BY <2>2, FillType
  <2>4. fills' \in {fills, Append(fills, f)}
    BY <2>1
  <2> HIDE DEF f
  <2>5. UNCHANGED <<mark, phase, amount, entry, slCount, barrier, row>>
    BY <1>2 DEF TakeProfitFills, trackerVars
  <2>6. CASE q = size
    <3>1. book' \in BookSet /\ book'.cycle = book.cycle + 1 /\ book'.promise = 0
      BY <2>1, <2>6, BookSteps
    <3>2. fills' \in Seq(FillSet) /\ Queue(fills', book'.cycle)
      BY <2>3, <2>4, <3>1, StreamStep
    <3>3. ~(book'.promise > 0)
      BY <3>1
    <3>4. Present' \in Snapshot /\ Sound(Present')
      BY <2>2, <2>5, <3>1, <3>2, <3>3, PresentNext
    <3> QED BY <2>5, <3>1, <3>3, <3>4, TypesNext DEF Kept, Guarantee
  <2>7. CASE q # size
    <3>1. book' = book
      BY <2>1, <2>7
    <3>2. /\ fills' \in Seq(FillSet) /\ Queue(fills', book.cycle)
          /\ book.promise > 0 => \A i \in 1..Len(fills') : fills'[i].cycle = book.cycle
      BY <2>2, <2>3, <2>4, <2>7, StreamStep
    <3>3. Present' \in Snapshot /\ Sound(Present')
      BY <2>2, <2>5, <2>7, <3>1, <3>2, PresentNext
    <3> QED BY <2>5, <3>1, <3>3, TypesNext DEF Kept, Guarantee, Up
  <2> QED BY <2>6, <2>7
<1>3. CASE LoseFill
  <2>1. fills # <<>> /\ fills' = Tail(fills)
        /\ UNCHANGED <<mark, size, cost, phase, amount, entry, slCount, barrier, row, book>>
    BY <1>3 DEF LoseFill, exchangeVars, trackerVars
  <2>2. /\ fills' \in Seq(FillSet) /\ Queue(fills', book.cycle)
        /\ book.promise > 0 => \A i \in 1..Len(fills') : fills'[i].cycle = book.cycle
    BY <2>1, QueueTail
  <2>3. Present' \in Snapshot /\ Sound(Present')
    BY <2>1, <2>2, PresentNext
  <2> QED BY <2>1, <2>3, TypesNext DEF Kept, Guarantee, Up
<1>4. CASE Crash
  <2>1. /\ phase' = "down" /\ fills' = <<>> /\ amount' = 0 /\ entry' = 0 /\ slCount' = 0
        /\ barrier' = Fresh /\ UNCHANGED <<mark, size, cost, row>>
        /\ book' = [book EXCEPT !.crashes = @ + 1, !.hits = 0]
    BY <1>4 DEF Crash, exchangeVars
  <2>2. /\ book' \in BookSet /\ book'.cycle = book.cycle /\ book'.promise = book.promise
        /\ book'.short = book.short
    <3>1. book.crashes + 1 \in Nat
      BY DEF BookSet
    <3>2. book' = [book EXCEPT !.crashes = book.crashes + 1, !.hits = 0]
      BY <2>1
    <3> QED BY <3>1, <3>2 DEF BookSet
  <2>3. fills' \in Seq(FillSet) /\ Len(fills') = 0
    BY <2>1, EmptySeq
  <2>4. Present' \in Snapshot /\ Sound(Present')
    <3>1. 1..Len(fills') = {}
      BY <2>3
    <3>2. Queue(fills', book'.cycle)
      BY <3>1 DEF Queue
    <3>3. book'.promise > 0 =>
            size' > 0 /\ \A i \in 1..Len(fills') : fills'[i].cycle = book'.cycle
      BY <2>1, <2>2, <3>1
    <3> QED BY <2>1, <2>2, <2>3, <3>2, <3>3, PresentNext
  <2>5. barrier' \in BarrierSet /\ phase' \in PhaseSet
    BY <2>1 DEF Fresh, BarrierSet, PhaseSet
  <2> QED BY <2>1, <2>2, <2>4, <2>5, TypesNext DEF Kept, Guarantee, Up
<1>5. CASE TenSeconds
  <2>1. /\ barrier' = [barrier EXCEPT !.pending = "stale"]
        /\ UNCHANGED <<mark, size, cost, fills, phase, amount, entry, slCount, row, book>>
    BY <1>5 DEF TenSeconds, exchangeVars, trackerVars
  <2>2. barrier' \in BarrierSet /\ barrier'.locked = barrier.locked /\ barrier'.sl = barrier.sl
    BY <2>1 DEF BarrierSet
  <2>3. Present' = Present
    BY <2>1 DEF Present
  <2> QED BY <2>1, <2>2, <2>3, TypesNext DEF Kept, Guarantee, Guards, Up
<1> QED BY <1>1, <1>2, <1>3, <1>4, <1>5

\* The tracker takes the exchange's position: when the worker starts, in its loop, or
\* because of a position event.
LEMMA SyncStep ==
  ASSUME BarrierInv, SyncTracker \/ PositionEvent \/ Start
  PROVE  BarrierInv' /\ Kept
<1> USE PresentSound, Types DEF BarrierInv
<1> DEFINE o == [Present EXCEPT !.amount = size, !.entry = cost]
<1>1. PICK m \in Synced(Present) \cup {o} : Take(m, barrier)
  BY DEF SyncTracker, PositionEvent, Start
<1>2. /\ m \in Snapshot /\ Sound(m) /\ m.book = book
      /\ Calm => m.amount = size
  <2>1. CASE m \in Synced(Present)
    BY <2>1, SyncedStep DEF Calm
  <2>2. CASE m = o
    <3>1. m \in Snapshot /\ m.fills = fills /\ m.book = book /\ m.size = size
          /\ m.amount = size
      BY <2>2 DEF Snapshot
    <3> QED BY <3>1 DEF Sound
  <2> QED BY <1>1, <2>1, <2>2
<1>3. mark' = mark /\ phase' \in PhaseSet /\ slCount' = slCount /\ row' = row
      /\ (phase' = "running" => phase = "running")
  BY DEF SyncTracker, PositionEvent, Start, PhaseSet
<1> HIDE DEF o
<1>4. Handled(m, barrier)
  BY <1>1, <1>2, <1>3, TakeHandled
<1>5. Calm /\ Guarantee /\ m.book.promise > 0 /\ ~m.book.short =>
        /\ row'.saved /\ Guards(row', m.book.promise)
        /\ phase' = "running" => Guards(barrier, m.book.promise)
        /\ m.amount > 0
  BY <1>2, <1>3 DEF Guarantee
<1> QED BY <1>2, <1>3, <1>4, <1>5, HandledKeeps

-----------------------------------------------------------------------------
(* The fill handlers *)

LEMMA OnQuoteType ==
  ASSUME NEW b \in BarrierSet, NEW n \in Nat, NEW e \in Nat
  PROVE  /\ OnQuote(b, n, e) \in BarrierSet /\ OnQuote(b, n, e).locked = b.locked
         /\ b.locked => OnQuote(b, n, e).sl = b.sl
<1> DEFINE i == IF b.count = 0 \/ b.initial = 0 THEN e ELSE b.initial
           s == IF b.locked THEN b.sl ELSE BaseStop(e)
<1>1. i \in Nat /\ s \in Int
  BY Constants DEF BarrierSet, BaseStop
<1>2. OnQuote(b, n, e) = [b EXCEPT !.active = TRUE, !.exiting = FALSE, !.remaining = n,
                                   !.entry = e, !.initial = i, !.trailing = FALSE,
                                   !.peak = 0, !.sl = s]
  BY DEF OnQuote
<1>3. b.locked => s = b.sl
  OBVIOUS
<1> HIDE DEF i, s
<1> DEFINE r == [b EXCEPT !.active = TRUE, !.exiting = FALSE, !.remaining = n, !.entry = e]
<1>4. r \in BarrierSet /\ r.locked = b.locked
  BY DEF BarrierSet
<1>5. OnQuote(b, n, e) = [r EXCEPT !.initial = i, !.trailing = FALSE, !.peak = 0, !.sl = s]
  BY <1>2
<1> HIDE DEF r
<1> DEFINE v == [r EXCEPT !.initial = i, !.trailing = FALSE, !.peak = 0, !.sl = s]
<1>6. v \in BarrierSet
  BY <1>1, <1>4 DEF BarrierSet
<1>7. v.locked = b.locked /\ v.sl = s
  BY <1>4 DEF BarrierSet
<1>8. OnQuote(b, n, e) = v
  BY <1>5
<1> HIDE DEF v
<1> QED BY <1>3, <1>6, <1>7, <1>8

LEMMA CountSet ==
  ASSUME NEW b \in BarrierSet, NEW n \in 0..1
  PROVE  [b EXCEPT !.count = n] \in BarrierSet
BY DEF BarrierSet

LEMMA OnPyramidType ==
  ASSUME NEW b \in BarrierSet, NEW n \in Nat, NEW e \in Nat
  PROVE  /\ OnPyramid(b, n, e) \in BarrierSet /\ OnPyramid(b, n, e).locked
         /\ OnPyramid(b, n, e).sl \in Nat
<1> DEFINE first == IF b.initial > 0 THEN b.initial ELSE e
           s == Higher(e + Floor, first + Lock)
<1>1. s \in Nat
  <2>1. first \in Nat
    BY DEF BarrierSet
  <2> QED BY <2>1, Constants DEF Higher
<1>2. OnPyramid(b, n, e) = [b EXCEPT !.active = TRUE, !.exiting = FALSE, !.remaining = n,
               !.entry = e, !.count = 1, !.pending = "none",
               !.sl = s, !.locked = TRUE, !.tight = TRUE]
  BY DEF OnPyramid
<1> HIDE DEF first, s
<1> DEFINE r == [b EXCEPT !.active = TRUE, !.exiting = FALSE, !.remaining = n, !.entry = e]
<1>3. r \in BarrierSet
  BY DEF BarrierSet
<1>4. OnPyramid(b, n, e) = [r EXCEPT !.count = 1, !.pending = "none", !.sl = s,
                                     !.locked = TRUE, !.tight = TRUE]
  BY <1>2
<1> HIDE DEF r
<1> DEFINE v == [r EXCEPT !.count = 1, !.pending = "none", !.sl = s,
                          !.locked = TRUE, !.tight = TRUE]
<1>5. v \in BarrierSet
  <2> DEFINE u == [r EXCEPT !.count = 1]
             t == [u EXCEPT !.pending = "none"]
             w == [t EXCEPT !.sl = s]
  <2>1. w \in BarrierSet
    <3>1. 1 \in 0..1
      OBVIOUS
    <3>2. u \in BarrierSet
      BY <1>3, <3>1, CountSet
    <3> HIDE DEF u
    <3>3. t \in BarrierSet
      BY <3>2 DEF BarrierSet
    <3> HIDE DEF t
    <3>4. s \in Int
      BY <1>1
    <3> QED BY <3>3, <3>4 DEF BarrierSet
  <2>2. v = [w EXCEPT !.locked = TRUE, !.tight = TRUE]
    OBVIOUS
  <2> HIDE DEF w
  <2> QED BY <2>1, <2>2 DEF BarrierSet
<1>6. v.locked /\ v.sl = s
  BY <1>3 DEF BarrierSet
<1>7. OnPyramid(b, n, e) = v
  BY <1>4
<1> HIDE DEF v
<1> QED BY <1>1, <1>5, <1>6, <1>7
\* What a handler of the oldest fill finds in it, and what is left of the stream.
LEMMA FillStep ==
  ASSUME BarrierInv, fills # <<>>
  PROVE  LET f == Head(fills)
         IN /\ f \in FillSet /\ Tail(fills) \in Seq(FillSet)
            /\ Queue(Tail(fills), book.cycle)
            /\ f.cycle = book.cycle =>
                 \A i \in 1..Len(Tail(fills)) : Tail(fills)[i].cycle = book.cycle
            /\ book.promise > 0 => f.cycle = book.cycle
            /\ f.kind \in {"sl", "tp"} /\ f.cycle = book.cycle => f.after > 0
<1> USE PresentSound, Types DEF BarrierInv
<1> DEFINE f == Head(fills)
<1>1. /\ f \in FillSet /\ Tail(fills) \in Seq(FillSet) /\ Queue(Tail(fills), book.cycle)
      /\ f.kind \in {"sl", "tp"} /\ f.cycle = book.cycle => f.after > 0
      /\ f = fills[1] /\ 1 \in 1..Len(fills)
      /\ f.cycle = book.cycle =>
           \A i \in 1..Len(Tail(fills)) : Tail(fills)[i].cycle = book.cycle
  BY QueueTail
<1>2. book.promise > 0 => f.cycle = book.cycle
  BY <1>1
<1> QED BY <1>1, <1>2

\* A quote's fill leaves a locked stop loss where it is; a pyramid leg's fill makes
\* the guarantee and saves it.
LEMMA HandleEntryStep ==
  ASSUME BarrierInv, fills # <<>>, HandleEntry(Head(fills)), UNCHANGED <<mark, phase>>
  PROVE  BarrierInv' /\ Kept
<1> USE PresentSound, Types DEF BarrierInv
<1> DEFINE f == Head(fills)
           n == amount + f.qty
           e == Average(amount, entry, f.qty, f.price)
           t == Tail(fills)
           m == [Present EXCEPT !.fills = t, !.amount = n, !.entry = e]
<1>1. /\ f \in FillSet /\ t \in Seq(FillSet) /\ Queue(t, book.cycle)
      /\ f.cycle = book.cycle => \A i \in 1..Len(t) : t[i].cycle = book.cycle
      /\ book.promise > 0 => f.cycle = book.cycle
  BY FillStep
<1>2. n \in Nat /\ n > 0 /\ e \in Nat
  <2>1. f.qty \in Nat \ {0} /\ f.price \in Nat
    BY <1>1, Constants DEF FillSet
  <2>2. e \in Nat
    BY <2>1, AverageType
  <2> QED BY <2>1, <2>2
<1>3. /\ UNCHANGED slCount
      /\ \/ /\ f.kind = "quote"
            /\ PlaceTakeProfits(m, OnQuote(barrier, n, e)) /\ UNCHANGED row
         \/ /\ f.kind = "pyramid"
            /\ LET b == OnPyramid(barrier, n, e)
                   own == size > 0 /\ f.cycle = book.cycle
               IN /\ Save(b)
                  /\ PlaceTakeProfits([m EXCEPT !.book.promise = IF own THEN b.sl ELSE @], b)
  <2>1. m = [Present EXCEPT !.fills = Tail(@), !.amount = n, !.entry = e]
    OBVIOUS
  <2> QED BY <2>1 DEF HandleEntry
<1> HIDE DEF f, n, e, t
<1>4. /\ m \in Snapshot /\ m.fills = t /\ m.book = book /\ m.size = size /\ m.amount = n
  BY <1>1, <1>2 DEF Snapshot
<1> HIDE DEF m
<1>5. CASE /\ f.kind = "quote"
           /\ PlaceTakeProfits(m, OnQuote(barrier, n, e)) /\ UNCHANGED row
  <2> DEFINE b == OnQuote(barrier, n, e)
  <2>1. /\ b \in BarrierSet /\ b.locked = barrier.locked
        /\ barrier.locked => b.sl = barrier.sl
    <3>1. barrier \in BarrierSet
      OBVIOUS
    <3> QED BY ONLY <1>2, <3>1, OnQuoteType
  <2>2. PlaceTakeProfits(m, b) /\ slCount' \in Nat /\ row' = row
    BY <1>3, <1>5
  <2> HIDE DEF b
  <2>3. Sound(m)
    BY <1>1, <1>4 DEF Sound
  <2>4. Handled(m, b)
    BY <1>4, <2>1, <2>2, <2>3, PlaceStep
  <2>5. Calm /\ Guarantee /\ m.book.promise > 0 /\ ~m.book.short =>
          /\ row'.saved /\ Guards(row', m.book.promise)
          /\ phase' = "running" => Guards(b, m.book.promise)
          /\ m.amount > 0
    BY <1>2, <1>4, <2>1, <2>2 DEF Guarantee, Guards
  <2> QED BY <1>4, <2>1, <2>2, <2>4, <2>5, HandledKeeps
<1>6. CASE /\ f.kind = "pyramid"
           /\ LET b == OnPyramid(barrier, n, e)
                  own == size > 0 /\ f.cycle = book.cycle
              IN /\ Save(b)
                 /\ PlaceTakeProfits([m EXCEPT !.book.promise = IF own THEN b.sl ELSE @], b)
  <2> DEFINE b == OnPyramid(barrier, n, e)
             p == IF size > 0 /\ f.cycle = book.cycle THEN b.sl ELSE book.promise
             k == [book EXCEPT !.promise = p]
             o == [m EXCEPT !.book = k]
  <2>1. b \in BarrierSet /\ b.locked /\ b.sl \in Nat
    BY <1>2, OnPyramidType
  <2>2. /\ Save(b)
        /\ PlaceTakeProfits([m EXCEPT !.book.promise =
                               IF size > 0 /\ f.cycle = book.cycle THEN b.sl ELSE @], b)
    BY <1>6
  <2> HIDE DEF b
  <2>3. row' \in RowSet /\ (Calm => row' = RowOf(b))
    BY <2>1, <2>2, RowSteps DEF Save, Calm
  <2>4. PlaceTakeProfits(o, b)
    <3>1. o = [m EXCEPT !.book.promise =
                 IF size > 0 /\ f.cycle = book.cycle THEN b.sl ELSE @]
      BY <1>4
    <3> QED BY <2>2, <3>1
  <2>5. p \in Nat /\ (p > 0 => size > 0 /\ p = b.sl /\ f.cycle = book.cycle)
    <3>1. CASE size > 0 /\ f.cycle = book.cycle
      BY <2>1, <3>1
    <3>2. CASE ~(size > 0 /\ f.cycle = book.cycle)
      BY <1>1, <3>2
    <3> QED BY <3>1, <3>2
  <2> HIDE DEF p
  <2>6. k \in BookSet /\ k.cycle = book.cycle /\ k.promise = p
    BY <2>5 DEF BookSet
  <2> HIDE DEF k
  <2>7. /\ o \in Snapshot /\ o.fills = t /\ o.book = k /\ o.size = size /\ o.amount = n
    BY <1>4, <2>6 DEF Snapshot
  <2> HIDE DEF o
  <2>8. Sound(o)
    BY <1>1, <2>5, <2>6, <2>7 DEF Sound
  <2>9. Handled(o, b)
    BY <1>3, <2>1, <2>4, <2>7, <2>8, PlaceStep
  <2>10. Calm /\ Guarantee /\ o.book.promise > 0 /\ ~o.book.short =>
          /\ row'.saved /\ Guards(row', o.book.promise)
          /\ phase' = "running" => Guards(b, o.book.promise)
          /\ o.amount > 0
    <3> SUFFICES ASSUME Calm, o.book.promise > 0
                 PROVE  /\ row'.saved /\ Guards(row', o.book.promise)
                        /\ Guards(b, o.book.promise) /\ o.amount > 0
      OBVIOUS
    <3>1. o.book.promise = b.sl
      BY <2>5, <2>6, <2>7
    <3>2. row'.saved /\ row'.locked = b.locked /\ row'.sl = b.sl
      BY <2>3 DEF RowOf
    <3> QED BY <1>2, <2>1, <2>7, <3>1, <3>2 DEF Guards
  <2> QED BY <2>1, <2>3, <2>7, <2>9, <2>10, HandledKeeps
<1> QED BY <1>3, <1>5, <1>6

\* An exit that leaves the program no less than the exchange held after it finds
\* something remaining, and the row stays.
LEMMA HandleExitStep ==
  ASSUME BarrierInv, fills # <<>>, HandleExit(Head(fills)), UNCHANGED <<mark, phase>>
  PROVE  BarrierInv' /\ Kept
<1> USE PresentSound, Types DEF BarrierInv
<1> DEFINE f == Head(fills)
           n == Less(amount, f.qty)
           e == IF amount > f.qty THEN entry ELSE 0
           t == Tail(fills)
           h == book.short \/ Short(f)
           k == [book EXCEPT !.short = h]
           m == [Present EXCEPT !.fills = t, !.amount = n, !.entry = e, !.book = k]
           left == Less(barrier.remaining, f.qty)
           b == [barrier EXCEPT !.remaining = left]
<1>1. /\ f \in FillSet /\ t \in Seq(FillSet) /\ Queue(t, book.cycle)
      /\ f.cycle = book.cycle => \A i \in 1..Len(t) : t[i].cycle = book.cycle
      /\ book.promise > 0 => f.cycle = book.cycle
      /\ f.kind \in {"sl", "tp"} /\ f.cycle = book.cycle => f.after > 0
  BY FillStep
<1>2. /\ f.kind \in {"sl", "tp"}
      /\ slCount' = IF f.kind = "sl" THEN Counted(slCount) ELSE 0
      /\ \/ left = 0 /\ Take(m, OnClosed(barrier)) /\ Delete
         \/ left > 0 /\ PlaceTakeProfits(m, b) /\ UNCHANGED row
         \/ left > 0 /\ Take(m, b) /\ UNCHANGED row
  <2>1. m = [Present EXCEPT !.fills = Tail(@), !.amount = Less(@, f.qty),
                           !.entry = IF amount > f.qty THEN @ ELSE 0,
                           !.book.short = @ \/ Short(f)]
    BY DEF Present
  <2>2. b = [barrier EXCEPT !.remaining = Less(@, f.qty)]
    OBVIOUS
  <2>3. b.remaining = left
    BY DEF BarrierSet
  <2> HIDE DEF m, b
  <2> QED BY <2>1, <2>2, <2>3 DEF HandleExit
<1>3. f.qty \in Nat /\ n \in Nat /\ left \in Nat /\ e \in Nat /\ barrier.remaining \in Nat
  <2>1. f.qty \in Nat /\ barrier.remaining \in Nat
    BY <1>1 DEF FillSet, BarrierSet
  <2> QED BY <2>1, LessType
<1>4. book.promise > 0 /\ ~h => n >= f.after /\ left >= f.after /\ f.after > 0
  <2>1. f.after \in Nat
    BY <1>1 DEF FillSet
  <2>2. (f.after > 0 /\ f.cycle = book.cycle) \/ ~(book.promise > 0)
    BY <1>1, <1>2
  <2>3. book.promise > 0 /\ ~h => ~(n < f.after) /\ ~(left < f.after)
    BY <2>2 DEF Short
  <2> HIDE DEF n, left, h
  <2> QED BY <1>3, <2>1, <2>2, <2>3
<1>5. h \in BOOLEAN
  BY DEF BookSet, Short
<1> HIDE DEF f, n, e, t, h, left
<1>6. /\ k \in BookSet /\ k.cycle = book.cycle /\ k.promise = book.promise /\ k.short = h
  BY <1>5 DEF BookSet
<1> HIDE DEF k
<1>7. /\ m \in Snapshot /\ m.fills = t /\ m.book = k /\ m.size = size /\ m.amount = n
  BY <1>1, <1>3, <1>6 DEF Snapshot
<1>8. b \in BarrierSet /\ b.locked = barrier.locked /\ b.sl = barrier.sl
  BY <1>3, BarrierSteps
<1> HIDE DEF m, b
<1>9. Sound(m)
  BY <1>1, <1>6, <1>7 DEF Sound
<1>10. slCount' \in Nat
  BY <1>2, CountedType
<1>11. CASE left = 0 /\ Take(m, OnClosed(barrier)) /\ Delete
  <2> DEFINE c == OnClosed(barrier)
  <2>1. c \in BarrierSet
    <3>1. barrier.entry \in Nat /\ barrier.sl \in Int
      BY DEF BarrierSet
    <3>2. Fresh \in BarrierSet
      BY DEF Fresh, BarrierSet
    <3> QED BY <3>1, <3>2 DEF BarrierSet, OnClosed
  <2>2. row' \in RowSet
    BY <1>11, RowSteps
  <2>3. Take(m, c)
    BY <1>11
  <2> HIDE DEF c
  <2>4. Handled(m, c)
    BY <1>7, <1>9, <1>10, <2>1, <2>3, TakeHandled
  <2>5. ~(m.book.promise > 0 /\ ~m.book.short)
    <3>1. f.after \in Nat
      BY <1>1 DEF FillSet
    <3> QED BY <1>4, <1>6, <1>7, <1>11, <3>1
  <2> QED BY <1>7, <2>1, <2>2, <2>4, <2>5, HandledKeeps
<1>12. CASE left > 0 /\ (PlaceTakeProfits(m, b) \/ Take(m, b)) /\ UNCHANGED row
  <2>1. Handled(m, b)
    <3>1. CASE PlaceTakeProfits(m, b)
      BY <1>7, <1>8, <1>9, <1>10, <3>1, PlaceStep
    <3>2. CASE Take(m, b)
      BY <1>7, <1>8, <1>9, <1>10, <3>2, TakeHandled
    <3> QED BY <1>12, <3>1, <3>2
  <2>2. Calm /\ Guarantee /\ m.book.promise > 0 /\ ~m.book.short =>
          /\ row'.saved /\ Guards(row', m.book.promise)
          /\ phase' = "running" => Guards(b, m.book.promise)
          /\ m.amount > 0
    <3> SUFFICES ASSUME Calm, Guarantee, m.book.promise > 0, ~m.book.short
                 PROVE  /\ row'.saved /\ Guards(row', m.book.promise)
                        /\ phase' = "running" => Guards(b, m.book.promise)
                        /\ m.amount > 0
      OBVIOUS
    <3>1. book.promise > 0 /\ ~h /\ m.book.promise = book.promise
      BY <1>6, <1>7
    <3>2. ~book.short
      BY <3>1 DEF h
    <3>3. f.after \in Nat
      BY <1>1 DEF FillSet
    <3>4. m.amount > 0
      BY <1>3, <1>4, <1>7, <3>1, <3>3
    <3> QED BY <1>8, <1>12, <3>1, <3>2, <3>4 DEF Guarantee, Guards
  <2> QED BY <1>7, <1>8, <1>12, <2>1, <2>2, HandledKeeps
<1> QED BY <1>2, <1>11, <1>12

LEMMA HandleFillStep ==
  ASSUME BarrierInv, HandleFill
  PROVE  BarrierInv' /\ Kept
BY HandleEntryStep, HandleExitStep DEF HandleFill
-----------------------------------------------------------------------------
(* The tick *)

LEMMA TrailStep ==
  ASSUME TypeOK, NEW m \in Snapshot, Sound(m), m.book.cycle = book.cycle,
         NEW b \in BarrierSet, NEW p \in Prices, Trail(m, b, p)
  PROVE  /\ Handled(m, b) /\ row' \in RowSet
         /\ row' = row \/ (Calm => row'.saved /\ row'.locked = b.locked /\ row'.sl = b.sl)
<1> DEFINE starts == ~b.trailing /\ p >= b.entry + Activation
           b1 == IF starts THEN [b EXCEPT !.trailing = TRUE, !.peak = p]
                 ELSE IF b.trailing THEN [b EXCEPT !.peak = Higher(@, p)] ELSE b
           back == IF b.tight THEN Tightened ELSE Callback
<1>1. /\ IF starts THEN Save(b1) ELSE UNCHANGED row
      /\ IF b1.trailing /\ p <= b1.peak - back THEN MarketExit(m, b1, "tp")
         ELSE Take(m, b1) /\ UNCHANGED slCount
  BY DEF Trail
<1>2. b1 \in BarrierSet /\ b1.locked = b.locked /\ b1.sl = b.sl
  <2>1. p \in Nat /\ b.peak \in Nat
    BY Constants DEF BarrierSet
  <2>2. Higher(b.peak, p) \in Nat
    BY <2>1 DEF Higher
  <2>3. CASE starts
    BY <2>1, <2>3 DEF BarrierSet
  <2>4. CASE ~starts /\ b.trailing
    <3>1. b1 = [b EXCEPT !.peak = Higher(b.peak, p)]
      BY <2>4
    <3> QED BY <2>2, <3>1 DEF BarrierSet
  <2> QED BY <2>3, <2>4
<1> HIDE DEF starts, b1, back
<1>3. row' \in RowSet
  BY <1>1, <1>2, RowSteps, Types
<1>4. row' = row \/ (Calm => row'.saved /\ row'.locked = b.locked /\ row'.sl = b.sl)
  BY <1>1, <1>2 DEF Save, RowOf, Calm
<1>5. Handled(m, b1)
  <2>1. CASE MarketExit(m, b1, "tp")
    BY <1>2, <2>1, MarketExitStep
  <2>2. CASE Take(m, b1) /\ UNCHANGED slCount
    <3>1. slCount' \in Nat
      BY <2>2, Types
    <3> QED BY <1>2, <2>2, <3>1, TakeHandled
  <2> QED BY <1>1, <2>1, <2>2
<1> QED BY <1>2, <1>3, <1>4, <1>5 DEF Handled

LEMMA CheckStep ==
  ASSUME BarrierInv, NEW p \in Prices, Check(p), mark' = p, phase' = phase,
         Up
  PROVE  BarrierInv' /\ Kept
<1> DEFINE stale == barrier.pending = "stale"
           b == IF stale THEN [barrier EXCEPT !.pending = "none"] ELSE barrier
           w == [b EXCEPT !.pending = "fresh"]
<1>1. PICK m \in IF stale THEN Synced(Present) ELSE {Present} :
       \/ /\ p <= StopAt(b)
          /\ MarketExit(m, b, "sl") /\ UNCHANGED row
       \/ /\ p > StopAt(b)
          /\ Take(m, b) /\ UNCHANGED <<slCount, row>>
       \/ /\ phase = "running" /\ p > StopAt(b)
          /\ Trail(m, b, p)
       \/ /\ phase = "running" /\ p > StopAt(b) /\ MayPyramid(b, p)
          /\ \E q \in LegLots :
               \/ Trail(WithLeg(m, q, p), w, p)
               \/ CallFaults /\ Trail(WithLeg(m, q, p), b, p)
  BY DEF Check
<1>2. /\ TypeOK /\ Present \in Snapshot /\ Sound(Present) /\ Present.book = book
      /\ Present.amount = amount /\ Present.size = size
      /\ barrier \in BarrierSet /\ row \in RowSet /\ slCount \in Nat
      /\ phase \in PhaseSet /\ size \in Nat /\ amount \in Nat
      /\ book.promise > 0 => size > 0
  BY PresentSound, Types
<1>3. /\ m \in Snapshot /\ Sound(m) /\ m.book = book
      /\ Calm /\ Guarantee /\ book.promise > 0 /\ ~book.short => m.amount > 0
  <2>1. CASE m \in Synced(Present)
    BY <1>2, <2>1, SyncedStep DEF Calm
  <2>2. CASE m = Present
    BY <1>2, <2>2 DEF Guarantee, Up, PhaseSet
  <2> QED BY <1>1, <2>1, <2>2
<1>4. /\ b \in BarrierSet /\ b.locked = barrier.locked /\ b.sl = barrier.sl
      /\ w \in BarrierSet /\ w.locked = barrier.locked /\ w.sl = barrier.sl
  BY <1>2 DEF BarrierSet
<1> HIDE DEF b, w
<1>5. ASSUME NEW n \in Snapshot, n.book.promise = book.promise, n.book.short = book.short,
             n.amount = m.amount,
             NEW c \in BarrierSet, c.locked = barrier.locked, c.sl = barrier.sl,
             Handled(n, c), row' \in RowSet,
             \/ row' = row
             \/ /\ phase = "running"
                /\ Calm => row'.saved /\ row'.locked = c.locked /\ row'.sl = c.sl
      PROVE  BarrierInv' /\ Kept
  <2>1. Calm /\ Guarantee /\ n.book.promise > 0 /\ ~n.book.short =>
          /\ row'.saved /\ Guards(row', n.book.promise)
          /\ phase' = "running" => Guards(c, n.book.promise)
          /\ n.amount > 0
    BY <1>3, <1>5 DEF Guarantee, Guards
  <2> QED BY <1>2, <1>5, <2>1, HandledKeeps
<1>6. CASE MarketExit(m, b, "sl") /\ UNCHANGED row
  <2>1. Handled(m, b)
    BY <1>2, <1>3, <1>4, <1>6, MarketExitStep
  <2> QED BY <1>2, <1>3, <1>4, <1>5, <1>6, <2>1
<1>7. CASE Take(m, b) /\ UNCHANGED <<slCount, row>>
  <2>1. Handled(m, b)
    BY <1>2, <1>3, <1>4, <1>7, TakeHandled
  <2> QED BY <1>2, <1>3, <1>4, <1>5, <1>7, <2>1
<1>8. CASE phase = "running" /\ Trail(m, b, p)
  BY <1>2, <1>3, <1>4, <1>5, <1>8, TrailStep
<1>9. ASSUME phase = "running", NEW q \in LegLots, NEW c \in {b, w},
             Trail(WithLeg(m, q, p), c, p)
      PROVE  BarrierInv' /\ Kept
  <2> DEFINE n == WithLeg(m, q, p)
  <2>1. /\ n \in Snapshot /\ Sound(n) /\ n.amount = m.amount
        /\ n.book.cycle = book.cycle /\ n.book.promise = book.promise
        /\ n.book.short = book.short
    BY <1>2, <1>3, WithLegStep
  <2>2. c \in BarrierSet /\ c.locked = barrier.locked /\ c.sl = barrier.sl
    BY <1>4
  <2> HIDE DEF n
  <2>3. Trail(n, c, p)
    BY <1>9 DEF n
  <2> QED BY <1>2, <1>5, <1>9, <2>1, <2>2, <2>3, TrailStep
<1> QED BY <1>1, <1>6, <1>7, <1>8, <1>9

LEMMA TickStep ==
  ASSUME BarrierInv, NEW p \in Prices, Tick(p)
  PROVE  BarrierInv' /\ Kept
<1>1. mark' = p /\ phase' = phase
  BY DEF Tick
<1>2. CASE Up /\ Watching
  <2>1. Check(p)
    BY <1>2 DEF Tick
  <2> QED BY <1>1, <1>2, <2>1, CheckStep
<1>3. CASE ~(Up /\ Watching)
  <2>1. UNCHANGED <<exchangeVars, fills, trackerVars, barrier, row, book>>
    BY <1>3 DEF Tick
  <2>2. UNCHANGED <<size, cost, fills, amount, entry, slCount, barrier, row, book>>
    BY <2>1 DEF exchangeVars, trackerVars
  <2>3. Present' = Present
    BY <2>2 DEF Present
  <2>4. /\ TypeOK /\ Present \in Snapshot /\ Sound(Present) /\ phase \in PhaseSet
        /\ barrier \in BarrierSet /\ row \in RowSet /\ slCount \in Nat
    BY PresentSound, Types
  <2>5. TypeOK'
    BY <1>1, <2>2, <2>3, <2>4, TypesNext
  <2> QED BY <1>1, <2>2, <2>3, <2>4, <2>5 DEF BarrierInv, Kept, Guarantee, Up
<1> QED BY <1>2, <1>3

-----------------------------------------------------------------------------
(* The reconcile *)

\* A restored row brings its lock and its stop loss.
LEMMA ArmedType ==
  ASSUME TypeOK, NEW b \in BarrierSet, NEW r \in RowSet, NEW n \in Nat, NEW e \in Nat
  PROVE  /\ Armed(b, r, n, e) \in BarrierSet
         /\ r.saved /\ r.locked =>
              Armed(b, r, n, e).locked /\ Armed(b, r, n, e).sl = r.sl
<1> DEFINE b1 == [b EXCEPT !.active = TRUE, !.exiting = FALSE, !.remaining = n, !.entry = e]
           low == [b1 EXCEPT !.sl = r.sl, !.locked = TRUE]
           full == [b1 EXCEPT !.sl = r.sl, !.locked = TRUE, !.count = r.count,
                          !.peak = r.peak, !.trailing = r.trailing, !.tight = TRUE]
<1>1. b1 \in BarrierSet
  BY DEF BarrierSet
<1>2. /\ r.sl \in Int /\ r.count \in 0..1 /\ r.peak \in Nat /\ r.trailing \in BOOLEAN
      /\ BaseStop(e) \in Int
  BY Constants DEF RowSet, BaseStop
<1>3. Armed(b, r, n, e) =
        IF r.saved /\ r.locked THEN IF r.sl < mark THEN full ELSE low
        ELSE [b1 EXCEPT !.sl = BaseStop(e)]
  BY DEF Armed
<1> HIDE DEF b1
<1>4. [b1 EXCEPT !.sl = BaseStop(e)] \in BarrierSet
  BY <1>1, <1>2 DEF BarrierSet
<1>5. low \in BarrierSet /\ low.locked /\ low.sl = r.sl
  BY <1>1, <1>2 DEF BarrierSet
<1>6. full \in BarrierSet /\ full.locked /\ full.sl = r.sl
  <2> DEFINE u == [low EXCEPT !.count = r.count, !.peak = r.peak]
  <2>1. u \in BarrierSet /\ u.locked /\ u.sl = r.sl
    <3> HIDE DEF low
    <3> QED BY <1>2, <1>5 DEF BarrierSet
  <2>2. full = [u EXCEPT !.trailing = r.trailing, !.tight = TRUE]
    OBVIOUS
  <2> HIDE DEF u, full
  <2> DEFINE v == [u EXCEPT !.trailing = r.trailing, !.tight = TRUE]
  <2>3. v \in BarrierSet /\ v.locked /\ v.sl = r.sl
    BY <1>2, <2>1 DEF BarrierSet
  <2> HIDE DEF v
  <2>4. full = v
    BY <2>2 DEF v
  <2> QED BY <2>3, <2>4
<1> HIDE DEF low, full
<1>7. CASE r.saved /\ r.locked
  BY <1>3, <1>5, <1>6, <1>7
<1>8. CASE ~(r.saved /\ r.locked)
  BY <1>3, <1>4, <1>8
<1> QED BY <1>7, <1>8

\* Reconciling drops a barrier, and deletes its row, only without a position, and
\* arms it for an open one from its row.
LEMMA ReconcileStep ==
  ASSUME BarrierInv, Reconcile
  PROVE  BarrierInv' /\ Kept
<1>1. mark' = mark /\ phase' = "running" /\ Up /\ (ReconcileFlat \/ ReconcileOpen)
  BY DEF Reconcile
<1>2. /\ TypeOK /\ Present \in Snapshot /\ Sound(Present)
      /\ Present.book = book /\ Present.size = size /\ Present.amount = amount
      /\ barrier \in BarrierSet /\ row \in RowSet /\ slCount \in Nat /\ mark \in Prices
      /\ book.promise \in Nat /\ amount \in Nat /\ entry \in Nat /\ phase' \in PhaseSet
  BY <1>1, PresentSound, Types DEF PhaseSet
<1>3. CASE ReconcileFlat
  <2> DEFINE b == [barrier EXCEPT !.active = FALSE, !.exiting = FALSE, !.count = 0,
                                  !.locked = FALSE, !.tight = FALSE]
  <2>1. /\ amount = 0 /\ (barrier' = b \/ barrier' = barrier) /\ Delete
        /\ UNCHANGED <<size, cost, fills, amount, entry, slCount, book>>
    BY <1>3 DEF ReconcileFlat, exchangeVars, trackerVars
  <2>2. barrier' \in BarrierSet
    <3> DEFINE w == [barrier EXCEPT !.active = FALSE, !.exiting = FALSE]
               v == [w EXCEPT !.count = 0]
    <3>1. v \in BarrierSet
      <4>1. w \in BarrierSet
        BY <1>2 DEF BarrierSet
      <4>2. 0 \in 0..1
        OBVIOUS
      <4> HIDE DEF w
      <4> QED BY <4>1, <4>2, CountSet
    <3>2. b = [v EXCEPT !.locked = FALSE, !.tight = FALSE]
      OBVIOUS
    <3> HIDE DEF v
    <3>3. [v EXCEPT !.locked = FALSE, !.tight = FALSE] \in BarrierSet
      BY <3>1 DEF BarrierSet
    <3>4. b \in BarrierSet
      BY <3>2, <3>3
    <3> HIDE DEF b
    <3> QED BY <1>2, <2>1, <3>4
  <2> HIDE DEF b
  <2>3. Present' = Present
    BY <2>1 DEF Present
  <2>4. row' \in RowSet
    BY <1>2, <2>1, RowSteps
  <2>5. TypeOK'
    BY <1>1, <1>2, <2>1, <2>2, <2>3, <2>4, TypesNext
  <2>6. Guarantee => ~(book.promise > 0 /\ ~book.short)
    BY <1>1, <2>1 DEF Guarantee
  <2> QED BY <1>2, <2>1, <2>3, <2>5, <2>6 DEF BarrierInv, Kept, Guarantee
<1>4. CASE ReconcileOpen
  <2>1. PICK r \in {row} \cup (IF DbFaults THEN {NoRow} ELSE {}) :
       LET b == Armed(barrier, r, amount, entry)
       IN \/ /\ mark <= b.sl
             /\ MarketExit(Present, b, "sl")
          \/ /\ mark > b.sl /\ mark >= entry + Activation
             /\ MarketExit(Present, b, "tp")
          \/ /\ mark > b.sl
             /\ PlaceTakeProfits(Present, b) /\ UNCHANGED slCount
    BY <1>4 DEF ReconcileOpen
  <2> DEFINE b == Armed(barrier, r, amount, entry)
  <2>2. r \in RowSet /\ (Calm => r = row)
    <3>1. NoRow \in RowSet
      BY DEF NoRow, RowSet
    <3> QED BY <1>2, <2>1, <3>1 DEF Calm
  <2>3. b \in BarrierSet /\ (r.saved /\ r.locked => b.locked /\ b.sl = r.sl)
    <3>1. TypeOK /\ barrier \in BarrierSet /\ r \in RowSet /\ amount \in Nat /\ entry \in Nat
      BY <1>2, <2>2
    <3> HIDE <1>2, <2>1, <2>2
    <3>2. /\ Armed(barrier, r, amount, entry) \in BarrierSet
          /\ r.saved /\ r.locked =>
               Armed(barrier, r, amount, entry).locked /\ Armed(barrier, r, amount, entry).sl = r.sl
      BY <3>1, ArmedType
    <3> QED BY <3>2
  <2>4. MarketExit(Present, b, "sl") \/ MarketExit(Present, b, "tp")
          \/ (PlaceTakeProfits(Present, b) /\ UNCHANGED slCount)
    BY <2>1
  <2> HIDE DEF b
  <2>5. Handled(Present, b)
    <3>1. CASE PlaceTakeProfits(Present, b) /\ UNCHANGED slCount
      BY <1>2, <2>3, <3>1, PlaceStep
    <3> QED BY <1>2, <2>3, <2>4, <3>1, MarketExitStep
  <2>6. row' = row
    BY <1>4 DEF ReconcileOpen
  <2>7. Calm /\ Guarantee /\ book.promise > 0 /\ ~book.short =>
          /\ row'.saved /\ Guards(row', book.promise)
          /\ Guards(b, book.promise)
          /\ amount > 0
    BY <1>1, <2>2, <2>3, <2>6 DEF Guarantee, Guards
  <2> QED BY <1>1, <1>2, <2>3, <2>5, <2>6, <2>7, HandledKeeps
<1> QED BY <1>1, <1>3, <1>4

-----------------------------------------------------------------------------
(* The theorems *)

LEMMA BarrierInit == Init => BarrierInv /\ Guarantee
<1> SUFFICES ASSUME Init PROVE BarrierInv /\ Guarantee
  OBVIOUS
<1>1. /\ mark \in Prices /\ size = 0 /\ cost = 0 /\ fills = <<>>
      /\ phase = "running" /\ amount = 0 /\ entry = 0 /\ slCount = 0
      /\ barrier = Fresh /\ row = NoRow /\ book = NoBook
  BY DEF Init
<1>2. barrier \in BarrierSet /\ row \in RowSet /\ book \in BookSet
  BY <1>1 DEF Fresh, NoRow, NoBook, BarrierSet, RowSet, BookSet
<1>3. fills \in Seq(FillSet) /\ 1..Len(fills) = {}
  BY <1>1, EmptySeq
<1>4. TypeOK
  BY <1>1, <1>2, <1>3 DEF TypeOK, BarrierSet, RowSet, BookSet, FillSet
<1>5. book.promise = 0
  BY <1>1 DEF NoBook
<1>6. Sound(Present)
  BY <1>3, <1>5 DEF Sound, Queue, Present
<1> QED BY <1>4, <1>5, <1>6 DEF BarrierInv, Guarantee

LEMMA BarrierNext == BarrierInv /\ [Next]_vars => BarrierInv' /\ Kept
<1> SUFFICES ASSUME BarrierInv, [Next]_vars PROVE BarrierInv' /\ Kept
  OBVIOUS
<1>1. CASE QuoteFills \/ TakeProfitFills \/ LoseFill \/ Crash \/ TenSeconds
  BY <1>1, ExchangeStep
<1>2. CASE HandleFill
  BY <1>2, HandleFillStep
<1>3. ASSUME NEW p \in Prices, Tick(p) PROVE BarrierInv' /\ Kept
  BY <1>3, TickStep
<1>4. CASE Reconcile
  BY <1>4, ReconcileStep
<1>5. CASE SyncTracker \/ PositionEvent \/ Start
  BY <1>5, SyncStep
<1>6. CASE UNCHANGED vars
  <2>1. UNCHANGED <<mark, size, cost, fills, phase, amount, entry, slCount, barrier, row, book>>
    BY <1>6 DEF vars, exchangeVars, trackerVars
  <2>2. Present' = Present /\ (TypeOK => TypeOK')
    BY <2>1 DEF Present, TypeOK
  <2> QED BY <2>1, <2>2 DEF BarrierInv, Kept, Guarantee, Up
<1> QED BY <1>1, <1>2, <1>3, <1>4, <1>5, <1>6 DEF Next

\* Every variable keeps its type.
THEOREM TypeCorrect == Spec => []TypeOK
<1>1. BarrierInv => TypeOK
  BY DEF BarrierInv
<1> QED BY <1>1, BarrierInit, BarrierNext, PTL DEF Spec

\* A guaranteed stop loss, once locked in for a position by on_entry_fill, guards
\* that position until it closes, through ticks, partial exits, re-entries, reconciles,
\* lost fills, refused and partly filled orders, crashes and restarts, if the database
\* writes what it is given and the position query answers, and as long as no exit is
\* counted that leaves the program less than the exchange held after it.
THEOREM GuaranteeHolds ==
  ASSUME ~DbFaults, ~FetchFaults
  PROVE  Spec => []GuaranteeKept
<1>1. Calm
  BY DEF Calm
<1>2. BarrierInv /\ Guarantee /\ [Next]_vars => (BarrierInv /\ Guarantee)'
  BY <1>1, BarrierNext DEF Kept
<1>3. BarrierInv /\ Guarantee => GuaranteeKept
  BY DEF Guarantee, Guards, GuaranteeKept, GuaranteeAlways, Guarding
<1> QED BY <1>2, <1>3, BarrierInit, PTL DEF Spec
=============================================================================
