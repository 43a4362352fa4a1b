-------------------------- MODULE ExitOrdersProofs --------------------------
(***************************************************************************)
(* Theorems about ExitOrders, for every size of fills, any number of       *)
(* take-profit levels and any bound: its type invariant; and, as long as   *)
(* orders fill whole and calls succeed, that the executor knows every exit *)
(* order at rest and that a ladder of one level fits what it guards.       *)
(***************************************************************************)
EXTENDS ExitOrders, SequenceTheorems, FiniteSetTheorems, TLAPS

-----------------------------------------------------------------------------
(* The agenda *)

Operations == {"ladder", "cleaned", "cleared", "reset", "disarm", "replenish", "refreshed"}

\* What the head of an agenda is made of.
LEMMA CallFields ==
  ASSUME NEW c \in Call
  PROVE  /\ c.op \in {"cancel", "create", "sync", "retry"} \cup Operations
         /\ c.op = "cancel" => c \in [op : {"cancel"}, ids : SUBSET OrderIds]
         /\ c.op \in {"create", "sync", "retry"} =>
              c \in [op : {"create", "sync", "retry"}, kind : {"tp", "pe", "mkt"}, qty : Nat]
BY DEF Call, Operations

LEMMA CallTypes ==
  /\ \A ids \in SUBSET OrderIds : [op |-> "cancel", ids |-> ids] \in Call
  /\ \A op \in Operations : [op |-> op] \in Call
  /\ \A op \in {"create", "sync", "retry"}, kind \in {"tp", "pe", "mkt"}, qty \in Nat :
       Creating(op, kind, qty) \in Call
BY DEF Call, Operations, Creating

\* The parts of an agenda.
LEMMA Parts1 ==
  /\ \A ids \in SUBSET OrderIds : Cancelling(ids) \in Seq(Call)
  /\ \A op \in Operations : Then(op) \in Seq(Call)
  /\ \A op \in {"create", "sync", "retry"}, kind \in {"tp", "pe", "mkt"}, qty \in Nat :
       <<Creating(op, kind, qty)>> \in Seq(Call)
<1>1. \A c \in Call : <<c>> \in Seq(Call)
  OBVIOUS
<1>2. ASSUME NEW ids \in SUBSET OrderIds PROVE Cancelling(ids) \in Seq(Call)
  <2>1. <<[op |-> "cancel", ids |-> ids]>> \in Seq(Call)
    BY <1>1, CallTypes
  <2>2. <<>> \in Seq(Call)
    OBVIOUS
  <2> QED BY <2>1, <2>2 DEF Cancelling
<1>3. ASSUME NEW op \in Operations PROVE Then(op) \in Seq(Call)
  <2>1. [op |-> op] \in Call
    BY CallTypes
  <2> QED BY <1>1, <2>1 DEF Then
<1>4. ASSUME NEW op \in {"create", "sync", "retry"}, NEW kind \in {"tp", "pe", "mkt"},
             NEW qty \in Nat
      PROVE  <<Creating(op, kind, qty)>> \in Seq(Call)
  BY <1>1, CallTypes
<1> QED BY <1>2, <1>3, <1>4

LEMMA AgendaTypes ==
  ASSUME NEW ids \in SUBSET OrderIds, NEW s \in Seq(Call)
  PROVE  /\ Cancelling(ids) \o s \in Seq(Call)
         /\ ids = {} => Cancelling(ids) \o s = s
         /\ ids # {} => /\ Cancelling(ids) \o s # <<>>
                        /\ Head(Cancelling(ids) \o s) = [op |-> "cancel", ids |-> ids]
                        /\ Tail(Cancelling(ids) \o s) = s
                        /\ Len(Cancelling(ids) \o s) = Len(s) + 1
                        /\ \A k \in 1..Len(s) : (Cancelling(ids) \o s)[k + 1] = s[k]
                        /\ (Cancelling(ids) \o s)[1] = [op |-> "cancel", ids |-> ids]
<1>1. Cancelling(ids) \in Seq(Call) /\ Cancelling(ids) \o s \in Seq(Call)
  BY Parts1, ConcatProperties
<1>2. CASE ids = {}
  <2>1. Cancelling(ids) = <<>>
    BY <1>2 DEF Cancelling
  <2>2. <<>> \o s = s
    BY ConcatEmptySeq
  <2> QED BY <1>1, <1>2, <2>1, <2>2
<1>3. CASE ids # {}
  <2> DEFINE c == [op |-> "cancel", ids |-> ids]
             a == Cancelling(ids) \o s
  <2>1. Cancelling(ids) = <<c>> /\ c \in Call
    BY <1>3, CallTypes DEF Cancelling
  <2> HIDE DEF c
  <2>2. Len(<<c>>) = 1 /\ <<c>>[1] = c /\ <<c>> \in Seq(Call)
    BY <2>1
  <2>3. /\ Len(a) = 1 + Len(s) /\ Len(s) \in Nat /\ a \in Seq(Call)
        /\ \A k \in 1..Len(a) : a[k] = IF k <= 1 THEN c ELSE s[k - 1]
    BY <2>1, <2>2, ConcatProperties, LenProperties
  <2> HIDE DEF a
  <2>4. Len(a) = Len(s) + 1 /\ a # <<>> /\ a[1] = c /\ Head(a) = c
    BY <2>3
  <2>5. \A k \in 1..Len(s) : a[k + 1] = s[k]
    BY <2>3
  <2>6. Tail(a) = s
    <3>1. Tail(a) \in Seq(Call) /\ Len(Tail(a)) = Len(s)
          /\ \A k \in 1..Len(Tail(a)) : Tail(a)[k] = a[k + 1]
      BY <2>3, <2>4, HeadTailProperties
    <3> QED BY <2>5, <3>1, SeqEqual
  <2> QED BY <1>1, <1>3, <2>4, <2>5, <2>6 DEF a, c
<1> QED BY <1>2, <1>3

LEMMA ThenForm ==
  ASSUME NEW op \in Operations
  PROVE  /\ Then(op) \in Seq(Call) /\ Len(Then(op)) = 1 /\ Then(op) # <<>>
         /\ Then(op)[1] = [op |-> op] /\ Head(Then(op)) = [op |-> op]
BY Parts1 DEF Then

-----------------------------------------------------------------------------
(* Types *)

\* The passive exit is refreshed for the second time only by a handler that has not
\* got any further than cancelling it.
RefreshInv ==
  refreshes = 2 => \E ids \in SUBSET OrderIds : agenda = Cancelling(ids) \o Then("refreshed")

TypeInv == TypeOK /\ RefreshInv

LEMMA Types ==
  ASSUME TypeOK
  PROVE  /\ pos \in Nat /\ live \subseteq Order /\ entries \in Nat
         /\ fills \in Seq(Fill) /\ inbox \in Seq(Fill) /\ amount \in Nat
         /\ active \in BOOLEAN /\ exiting \in BOOLEAN /\ remaining \in Nat
         /\ tps \subseteq OrderIds /\ passive \subseteq OrderIds
         /\ Cardinality(passive) <= 1 /\ refreshes \in 0..2
         /\ agenda \in Seq(Call)
         /\ kill \in [step : {"off", "cancel", "close", "done"}, ids : SUBSET OrderIds]
         /\ restarts \in 0..MaxRestarts
BY DEF TypeOK

\* While the last refresh is under way, the agenda begins with its cancel or its end.
LEMMA Refreshing ==
  ASSUME TypeInv, refreshes = 2
  PROVE  /\ agenda # <<>> /\ Head(agenda).op \in {"cancel", "refreshed"}
         /\ Now("cancel") => Rest = Then("refreshed")
<1>1. PICK ids \in SUBSET OrderIds : agenda = Cancelling(ids) \o Then("refreshed")
  BY DEF TypeInv, RefreshInv
<1>2. "refreshed" \in Operations
  BY DEF Operations
<1>3. CASE ids = {}
  <2>1. agenda = Then("refreshed")
    BY <1>1, <1>2, <1>3, ThenForm, AgendaTypes
  <2>2. Then("refreshed") # <<>> /\ Head(Then("refreshed")) = [op |-> "refreshed"]
    BY <1>2, ThenForm
  <2>3. agenda # <<>> /\ Head(agenda).op = "refreshed"
    BY <2>1, <2>2
  <2> QED BY <2>3 DEF Now
<1>4. CASE ids # {}
  <2>1. /\ agenda # <<>> /\ Head(agenda) = [op |-> "cancel", ids |-> ids]
        /\ Tail(agenda) = Then("refreshed")
    BY <1>1, <1>2, <1>4, ThenForm, AgendaTypes
  <2> QED BY <2>1 DEF Rest
<1> QED BY <1>3, <1>4

LEMMA NowFacts ==
  ASSUME TypeOK, NEW op, Now(op)
  PROVE  /\ agenda # <<>> /\ Head(agenda) \in Call /\ Head(agenda).op = op
         /\ Rest \in Seq(Call)
<1>1. agenda \in Seq(Call) /\ agenda # <<>>
  BY Types DEF Now
<1> QED BY <1>1, HeadTailProperties DEF Now, Rest

LEMMA NotRefreshing ==
  ASSUME TypeInv,
         LockFree \/ \E op : Now(op) /\ op \notin {"cancel", "refreshed"}
  PROVE  refreshes \in 0..1
<1>1. refreshes # 2
  BY Refreshing DEF LockFree, Now
<1> QED BY <1>1, Types DEF TypeInv

LEMMA FewRefreshes ==
  ASSUME refreshes' \in 0..1
  PROVE  refreshes' \in 0..2 /\ RefreshInv'
BY DEF RefreshInv

LEMMA PassiveSmall ==
  /\ Cardinality({}) <= 1 /\ \A id : Cardinality({id}) <= 1
<1>1. Cardinality({}) = 0
  BY FS_EmptySet
<1>2. ASSUME NEW id PROVE Cardinality({id}) <= 1
  <2>1. Cardinality({id}) = 1
    BY FS_Singleton
  <2> QED BY <2>1
<1>3. Cardinality({}) <= 1
  BY <1>1
<1> QED BY <1>2, <1>3

\* What the exchange, the stream and the tracker do.
LEMMA EventTypes ==
  ASSUME TypeInv,
         \/ \E kind \in {"quote", "pyramid"}, qty \in EntryLots : Enter(kind, qty)
         \/ \E o \in live : \E qty \in 1..MaxPos : FillResting(o, qty)
         \/ OnFill \/ LoseFill \/ SyncTracker
  PROVE  TypeInv'
<1> USE Types DEF TypeInv
<1>1. ASSUME NEW kind \in {"quote", "pyramid"}, NEW qty \in EntryLots, Enter(kind, qty)
      PROVE  TypeInv'
  <2> DEFINE f == [kind |-> kind, id |-> 0, qty |-> qty]
  <2>1. qty \in Nat
    BY LotAssumption
  <2>2. f \in Fill
    BY <2>1 DEF Fill
  <2>3. /\ pos' = pos + qty /\ entries' = entries + 1 /\ fills' = Append(fills, f)
        /\ UNCHANGED <<live, inbox, amount, active, exiting, remaining, tps, passive,
                       refreshes, agenda, kill, restarts>>
    BY <1>1 DEF Enter, barrierVars, control
  <2> HIDE DEF f
  <2>4. fills' \in Seq(Fill) /\ pos' \in Nat /\ entries' \in Nat
    BY <2>1, <2>2, <2>3, AppendProperties
  <2> QED BY <2>3, <2>4 DEF TypeOK, RefreshInv
<1>2. ASSUME NEW o \in live, NEW qty \in 1..MaxPos, FillResting(o, qty)
      PROVE  TypeInv'
  <2> DEFINE f == [kind |-> "exit", id |-> o.id, qty |-> qty]
             left == [o EXCEPT !.qty = o.qty - qty]
  <2>1. o \in Order /\ o.id \in OrderIds /\ o.qty \in Nat
    BY DEF Order
  <2>2. qty \in Nat /\ qty <= o.qty /\ qty <= pos
    BY <1>2, <2>1 DEF FillResting, Min2
  <2>3. f \in Fill
    BY <2>1, <2>2 DEF Fill
  <2>4. left \in Order
    <3>1. o.qty - qty \in Nat
      BY <2>1, <2>2
    <3> QED BY <2>1, <3>1 DEF Order
  <2>5. /\ pos' = pos - qty /\ fills' = Append(fills, f)
        /\ live' = (live \ {o}) \cup (IF qty = o.qty THEN {} ELSE {left})
        /\ UNCHANGED <<entries, inbox, amount, active, exiting, remaining, tps, passive,
                       refreshes, agenda, kill, restarts>>
    BY <1>2 DEF FillResting, barrierVars, control
  <2> HIDE DEF f, left
  <2>6. fills' \in Seq(Fill) /\ pos' \in Nat /\ live' \subseteq Order
    BY <2>2, <2>3, <2>4, <2>5, AppendProperties
  <2> QED BY <2>5, <2>6 DEF TypeOK, RefreshInv
<1>3. CASE OnFill
  <2>1. /\ fills # <<>> /\ fills' = Tail(fills) /\ inbox' = Append(inbox, Head(fills))
        /\ amount' = IF Head(fills).kind = "exit" THEN Less(amount, Head(fills).qty)
                     ELSE amount + Head(fills).qty
        /\ UNCHANGED <<pos, live, entries, active, exiting, remaining, tps, passive,
                       refreshes, agenda, kill, restarts>>
    BY <1>3 DEF OnFill, exchangeVars, barrierVars, control
  <2>2. Head(fills) \in Fill /\ Tail(fills) \in Seq(Fill)
    BY <2>1, HeadTailProperties
  <2>3. fills' \in Seq(Fill) /\ inbox' \in Seq(Fill)
    BY <2>1, <2>2, AppendProperties
  <2>4. amount' \in Nat
    <3>1. Head(fills).qty \in Nat
      BY <2>2 DEF Fill
    <3> QED BY <2>1, <3>1 DEF Less
  <2> QED BY <2>1, <2>3, <2>4 DEF TypeOK, RefreshInv
<1>4. CASE LoseFill
  <2>1. /\ fills # <<>> /\ fills' = Tail(fills)
        /\ UNCHANGED <<pos, live, entries, inbox, amount, active, exiting, remaining, tps,
                       passive, refreshes, agenda, kill, restarts>>
    BY <1>4 DEF LoseFill, exchangeVars, barrierVars, control
  <2>2. fills' \in Seq(Fill)
    BY <2>1, HeadTailProperties
  <2> QED BY <2>1, <2>2 DEF TypeOK, RefreshInv
<1>5. CASE SyncTracker
  BY <1>5 DEF SyncTracker, exchangeVars, barrierVars, control, TypeOK, RefreshInv
<1> QED BY <1>1, <1>2, <1>3, <1>4, <1>5
\* The agendas that handlers begin with.
LEMMA BeginTypes ==
  ASSUME TypeOK, NEW ids \in SUBSET OrderIds, NEW qty \in Nat
  PROVE  /\ PlaceTPs(ids) \in Seq(Call)
         /\ Cleanup(ids) \o <<Creating("create", "mkt", qty)>> \in Seq(Call)
         /\ Cleanup(ids) \o Then("reset") \in Seq(Call)
         /\ Cleanup(ids) \o Then("disarm") \in Seq(Call)
         /\ Cancelling(ids) \o Then("cleaned") \o <<Creating("create", "mkt", qty)>>
              \in Seq(Call)
         /\ Cancelling(ids) \o Then("replenish") \in Seq(Call)
         /\ Cancelling(ids) \o Then("refreshed") \in Seq(Call)
         /\ PassiveExit(qty) \in Seq(Call)
<1>1. ids \cup passive \in SUBSET OrderIds /\ tps \in SUBSET OrderIds
  BY Types
<1>2. \A i \in SUBSET OrderIds, op \in Operations : Cancelling(i) \o Then(op) \in Seq(Call)
  BY Parts1, ConcatProperties
<1>3. /\ <<Creating("create", "mkt", qty)>> \in Seq(Call)
      /\ <<Creating("create", "pe", qty)>> \in Seq(Call)
  BY Parts1
<1>4. Cleanup(ids) \in Seq(Call)
  BY <1>1, <1>2 DEF Cleanup, Operations
<1>5. Then("reset") \in Seq(Call) /\ Then("disarm") \in Seq(Call)
  BY Parts1 DEF Operations
<1>6. PlaceTPs(ids) \in Seq(Call)
  BY <1>2 DEF PlaceTPs, Operations
<1>7. /\ Cancelling(ids) \o Then("cleaned") \in Seq(Call)
      /\ Cancelling(ids) \o Then("replenish") \in Seq(Call)
      /\ Cancelling(ids) \o Then("refreshed") \in Seq(Call)
      /\ Cancelling(tps) \o Then("cleared") \in Seq(Call)
  BY <1>1, <1>2 DEF Operations
<1>8. PassiveExit(qty) \in Seq(Call)
  BY <1>3, <1>7, ConcatProperties DEF PassiveExit
<1>9. /\ Cleanup(ids) \o <<Creating("create", "mkt", qty)>> \in Seq(Call)
      /\ Cleanup(ids) \o Then("reset") \in Seq(Call)
      /\ Cleanup(ids) \o Then("disarm") \in Seq(Call)
      /\ Cancelling(ids) \o Then("cleaned") \o <<Creating("create", "mkt", qty)>> \in Seq(Call)
  BY <1>3, <1>4, <1>5, <1>7, ConcatProperties
<1> QED BY <1>6, <1>7, <1>8, <1>9

\* The handlers of the executor as they begin.
LEMMA HandlerTypes ==
  ASSUME TypeInv,
         HandleFill \/ BreachTick \/ TimeLimitTick \/ PassiveTimeoutTick \/ ReconcileBarrier
  PROVE  TypeInv'
<1> USE Types DEF TypeInv
<1>1. LockFree
  BY DEF HandleFill, BreachTick, TimeLimitTick, PassiveTimeoutTick, ReconcileBarrier, Watching
<1>2. refreshes \in 0..1
  BY <1>1, NotRefreshing
<1>3. tps \in SUBSET OrderIds /\ passive \in SUBSET OrderIds
  OBVIOUS
<1>4. ASSUME HandleFill PROVE TypeInv'
  <2> DEFINE f == Head(inbox)
  <2>1. inbox # <<>> /\ inbox' = Tail(inbox) /\ (OnEntryFill(f) \/ OnExitFill(f))
        /\ UNCHANGED <<pos, live, entries, fills, amount, kill, restarts>>
    BY <1>4 DEF HandleFill, exchangeVars, control
  <2>2. f \in Fill /\ inbox' \in Seq(Fill)
    BY <2>1, HeadTailProperties
  <2>3. f.qty \in Nat
    BY <2>2 DEF Fill
  <2> HIDE DEF f
  <2>4. CASE OnEntryFill(f) /\ amount = 0
    BY <1>1, <1>2, <2>1, <2>2, <2>4 DEF OnEntryFill, barrierVars, TypeOK, RefreshInv
  <2>5. CASE OnEntryFill(f) /\ amount # 0
    <3>1. /\ active' = TRUE /\ exiting' = FALSE /\ remaining' = amount
          /\ passive' \in {{}, passive} /\ agenda' = PlaceTPs(tps) /\ UNCHANGED <<tps, refreshes>>
      BY <2>5 DEF OnEntryFill
    <3>2. agenda' \in Seq(Call)
      BY <1>3, <3>1, BeginTypes
    <3>3. passive' \subseteq OrderIds /\ Cardinality(passive') <= 1
      BY <3>1, PassiveSmall
    <3>4. active' \in BOOLEAN /\ exiting' \in BOOLEAN /\ refreshes' \in 0..2 /\ RefreshInv'
      BY <1>2, <3>1, FewRefreshes
    <3> QED BY <2>1, <2>2, <3>1, <3>2, <3>3, <3>4 DEF TypeOK
  <2>6. CASE OnExitFill(f)
    <3> DEFINE left == Less(remaining, f.qty)
               open == tps \ {f.id}
    <3>1. /\ remaining' = left /\ tps' = open
          /\ agenda' = IF left = 0 THEN Cleanup(open) \o Then("reset")
                       ELSE IF passive # {} THEN Cancelling(passive) \o Then("replenish")
                       ELSE IF active /\ ~exiting THEN PlaceTPs(open)
                       ELSE <<>>
          /\ UNCHANGED <<active, exiting, passive, refreshes>>
      BY <2>6 DEF OnExitFill
    <3>2. left \in Nat /\ open \in SUBSET OrderIds
      BY <2>3 DEF Less
    <3> HIDE DEF left, open
    <3>3. agenda' \in Seq(Call)
      <4>1. /\ Cleanup(open) \o Then("reset") \in Seq(Call) /\ PlaceTPs(open) \in Seq(Call)
            /\ Cancelling(passive) \o Then("replenish") \in Seq(Call)
        BY <1>3, <3>2, BeginTypes
      <4>2. <<>> \in Seq(Call)
        OBVIOUS
      <4> QED BY <3>1, <4>1, <4>2
    <3> QED BY <1>2, <2>1, <2>2, <3>1, <3>2, <3>3 DEF TypeOK, RefreshInv
  <2> QED BY <2>1, <2>4, <2>5, <2>6
<1>5. ASSUME BreachTick PROVE TypeInv'
  <2>1. /\ exiting' = TRUE /\ active' = FALSE
        /\ agenda' = Cleanup(tps) \o <<Creating("create", "mkt", remaining)>>
        /\ UNCHANGED <<remaining, tps, passive, pos, live, entries, fills, inbox, amount,
                       refreshes, kill, restarts>>
    BY <1>5 DEF BreachTick, MarketExit, exchangeVars, control
  <2>2. agenda' \in Seq(Call)
    BY <1>3, <2>1, BeginTypes
  <2>3. active' \in BOOLEAN /\ exiting' \in BOOLEAN /\ refreshes' \in 0..2 /\ RefreshInv'
    BY <1>2, <2>1, FewRefreshes
  <2> QED BY <2>1, <2>2, <2>3 DEF TypeOK
<1>6. ASSUME TimeLimitTick PROVE TypeInv'
  <2>1. /\ agenda' = PassiveExit(remaining)
        /\ UNCHANGED <<pos, live, entries, fills, inbox, amount, active, exiting, remaining,
                       tps, passive, refreshes, kill, restarts>>
    BY <1>6 DEF TimeLimitTick, exchangeVars, barrierVars, control
  <2>2. agenda' \in Seq(Call)
    BY <1>3, <2>1, BeginTypes
  <2> QED BY <1>2, <2>1, <2>2 DEF TypeOK, RefreshInv
<1>7. ASSUME PassiveTimeoutTick PROVE TypeInv'
  <2>1. /\ refreshes' = refreshes + 1
        /\ agenda' = Cancelling(passive) \o Then("refreshed")
        /\ UNCHANGED <<pos, live, entries, fills, inbox, amount, active, exiting, remaining,
                       tps, passive, kill, restarts>>
    BY <1>7 DEF PassiveTimeoutTick, exchangeVars, control
  <2>2. agenda' \in Seq(Call)
    BY <1>3, <2>1, BeginTypes
  <2>3. refreshes' \in 0..2
    BY <1>2, <2>1
  <2>4. RefreshInv'
    BY <1>3, <2>1 DEF RefreshInv, Cancelling, Then
  <2> QED BY <2>1, <2>2, <2>3, <2>4 DEF TypeOK
<1>8. ASSUME ReconcileBarrier PROVE TypeInv'
  <2>1. UNCHANGED <<pos, live, entries, fills, inbox, amount, kill, restarts>>
    BY <1>8 DEF ReconcileBarrier, exchangeVars, control
  <2>2. CASE ReconcileFlat
    <3>1. /\ UNCHANGED <<active, exiting, remaining, tps, passive, refreshes>>
          /\ agenda' \in {Cleanup(tps) \o Then("disarm"), <<>>}
      BY <2>2 DEF ReconcileFlat, barrierVars
    <3>2. agenda' \in Seq(Call)
      <4>1. Cleanup(tps) \o Then("disarm") \in Seq(Call)
        BY <1>3, BeginTypes
      <4>2. <<>> \in Seq(Call)
        OBVIOUS
      <4> QED BY <3>1, <4>1, <4>2
    <3> QED BY <1>2, <2>1, <3>1, <3>2 DEF TypeOK, RefreshInv
  <2>3. ASSUME NEW b \in {"none", "sl", "tp"}, ReconcileOpen(b) PROVE TypeInv'
    <3>1. /\ remaining' = amount /\ active' \in BOOLEAN /\ exiting' \in BOOLEAN
          /\ agenda' \in {PlaceTPs(tps), Cleanup(tps) \o <<Creating("create", "mkt", amount)>>}
          /\ UNCHANGED <<tps, passive, refreshes>>
      BY <2>3 DEF ReconcileOpen
    <3>2. agenda' \in Seq(Call)
      <4>1. /\ PlaceTPs(tps) \in Seq(Call)
            /\ Cleanup(tps) \o <<Creating("create", "mkt", amount)>> \in Seq(Call)
        BY <1>3, BeginTypes
      <4> QED BY <3>1, <4>1
    <3> QED BY <1>2, <2>1, <3>1, <3>2 DEF TypeOK, RefreshInv
  <2> QED BY <1>8, <2>2, <2>3 DEF ReconcileBarrier
<1> QED BY <1>4, <1>5, <1>6, <1>7, <1>8
LEMMA Division == \A n \in Nat, d \in Nat \ {0} : n \div d \in Nat /\ n \div 1 = n
OBVIOUS

\* The calls of a ladder.
LadderCalls(qty) == IF qty = 0 THEN <<>> ELSE [k \in 1..Parts |-> Creating("create", "tp", qty)]

LEMMA LadderTypes ==
  ASSUME NEW qty \in Nat
  PROVE  /\ LadderCalls(qty) \in Seq(Call)
         /\ Len(LadderCalls(qty)) <= Parts
         /\ \A k \in 1..Len(LadderCalls(qty)) :
              LadderCalls(qty)[k] = Creating("create", "tp", qty)
<1>1. Parts \in Nat
  BY LotAssumption
<1>2. CASE qty = 0
  <2>1. LadderCalls(qty) = <<>>
    BY <1>2 DEF LadderCalls
  <2>2. <<>> \in Seq(Call) /\ Len(<<>>) = 0
    BY EmptySeq
  <2> QED BY <1>1, <2>1, <2>2
<1>3. CASE qty # 0
  <2> DEFINE c == Creating("create", "tp", qty)
             a == [k \in 1..Parts |-> c]
  <2>1. c \in Call
    BY CallTypes
  <2>2. LadderCalls(qty) = a
    BY <1>3 DEF LadderCalls
  <2> HIDE DEF c
  <2>3. a \in [1..Parts -> Call]
    BY <2>1
  <2>4. a \in Seq(Call) /\ DOMAIN a = 1..Parts /\ \A k \in 1..Parts : a[k] = c
    BY <1>1, <2>3, SeqDef
  <2>5. Len(a) = Parts
    BY <1>1, <2>4, LenProperties
  <2> HIDE DEF a
  <2> QED BY <1>1, <2>2, <2>4, <2>5 DEF c
<1> QED BY <1>2, <1>3

\* The steps that follow an await without creating an order.
LEMMA AwaitTypes ==
  ASSUME TypeInv, CancelNext \/ Ladder \/ Forget \/ Disarm \/ Replenish \/ Refreshed
  PROVE  TypeInv'
<1> USE Types DEF TypeInv
<1>1. tps \in SUBSET OrderIds /\ passive \in SUBSET OrderIds
  OBVIOUS
<1>2. ASSUME CancelNext PROVE TypeInv'
  <2>1. Now("cancel")
    BY <1>2 DEF CancelNext
  <2>2. PICK id \in Head(agenda).ids :
          /\ live' = {o \in live : o.id # id} \/ (Faults /\ live' = live)
          /\ agenda' = Cancelling(Head(agenda).ids \ {id}) \o Rest
    BY <1>2 DEF CancelNext
  <2>3. UNCHANGED <<pos, entries, fills, inbox, amount, active, exiting, remaining, tps,
                    passive, refreshes, kill, restarts>>
    BY <1>2 DEF CancelNext, barrierVars, control
  <2>4. Rest \in Seq(Call) /\ Head(agenda) \in Call /\ Head(agenda).op = "cancel"
    BY <2>1, NowFacts
  <2> DEFINE left == Head(agenda).ids \ {id}
  <2>5. left \in SUBSET OrderIds
    <3>1. Head(agenda) \in [op : {"cancel"}, ids : SUBSET OrderIds]
      BY <2>4, CallFields
    <3> QED BY <3>1
  <2>6. agenda' = Cancelling(left) \o Rest
    BY <2>2
  <2> HIDE DEF left
  <2>7. agenda' \in Seq(Call)
    BY <2>4, <2>5, <2>6, AgendaTypes
  <2>8. live' \subseteq Order
    BY <2>2
  <2>9. RefreshInv'
    <3>1. refreshes = 2 => Rest = Then("refreshed")
      BY <2>1, Refreshing
    <3> QED BY <2>3, <2>5, <2>6, <3>1 DEF RefreshInv, Cancelling, Then
  <2> QED BY <2>3, <2>7, <2>8, <2>9 DEF TypeOK
<1>3. ASSUME Ladder PROVE TypeInv'
  <2> DEFINE qty == remaining \div Parts
  <2>1. Now("ladder")
    BY <1>3 DEF Ladder
  <2>2. refreshes \in 0..1 /\ Rest \in Seq(Call)
    BY <2>1, NotRefreshing, NowFacts
  <2>3. /\ tps' = {} /\ agenda' = LadderCalls(qty) \o Rest
        /\ UNCHANGED <<pos, live, entries, fills, inbox, amount, active, exiting, remaining,
                       passive, refreshes, kill, restarts>>
    BY <1>3 DEF Ladder, LadderCalls, exchangeVars, control
  <2>4. qty \in Nat
    BY Division, LotAssumption
  <2> HIDE DEF qty
  <2>5. agenda' \in Seq(Call)
    BY <2>2, <2>3, <2>4, LadderTypes, ConcatProperties
  <2> QED BY <2>2, <2>3, <2>5 DEF TypeOK, RefreshInv
<1>4. ASSUME Forget PROVE TypeInv'
  <2>1. \E op \in {"cleaned", "cleared"} : Now(op)
    BY <1>4 DEF Forget
  <2>2. refreshes \in 0..1 /\ Rest \in Seq(Call)
    <3>1. PICK op \in {"cleaned", "cleared"} : Now(op)
      BY <2>1
    <3>2. op \notin {"cancel", "refreshed"}
      OBVIOUS
    <3> QED BY <3>1, <3>2, NotRefreshing, NowFacts
  <2>3. /\ tps' = {} /\ passive' \in {{}, passive} /\ agenda' = Rest
        /\ UNCHANGED <<pos, live, entries, fills, inbox, amount, active, exiting, remaining,
                       refreshes, kill, restarts>>
    BY <1>4 DEF Forget, exchangeVars, control
  <2>4. passive' \subseteq OrderIds /\ Cardinality(passive') <= 1
    BY <2>3, PassiveSmall
  <2> QED BY <2>2, <2>3, <2>4 DEF TypeOK, RefreshInv
<1>5. ASSUME Disarm PROVE TypeInv'
  <2>1. \E op \in {"reset", "disarm"} : Now(op)
    BY <1>5 DEF Disarm
  <2>2. refreshes \in 0..1 /\ Rest \in Seq(Call)
    <3>1. PICK op \in {"reset", "disarm"} : Now(op)
      BY <2>1
    <3>2. op \notin {"cancel", "refreshed"}
      OBVIOUS
    <3> QED BY <3>1, <3>2, NotRefreshing, NowFacts
  <2>3. /\ active' = FALSE /\ exiting' = FALSE /\ passive' \in {{}, passive}
        /\ refreshes' \in {0, refreshes} /\ agenda' = Rest
        /\ UNCHANGED <<pos, live, entries, fills, inbox, amount, remaining, tps, kill, restarts>>
    BY <1>5 DEF Disarm, exchangeVars, control
  <2>4. passive' \subseteq OrderIds /\ Cardinality(passive') <= 1
    BY <2>3, PassiveSmall
  <2>5. refreshes' \in 0..1
    BY <2>2, <2>3
  <2>6. active' \in BOOLEAN /\ exiting' \in BOOLEAN /\ refreshes' \in 0..2 /\ RefreshInv'
    BY <2>3, <2>5, FewRefreshes
  <2> QED BY <2>2, <2>3, <2>4, <2>6 DEF TypeOK
<1>6. ASSUME Replenish PROVE TypeInv'
  <2>1. Now("replenish")
    BY <1>6 DEF Replenish
  <2>2. refreshes \in 0..1
    BY <2>1, NotRefreshing
  <2>3. /\ passive' = {} /\ agenda' \in {PlaceTPs(tps), <<>>}
        /\ UNCHANGED <<pos, live, entries, fills, inbox, amount, active, exiting, remaining,
                       tps, refreshes, kill, restarts>>
    BY <1>6 DEF Replenish, exchangeVars, control
  <2>4. agenda' \in Seq(Call)
    <3>1. PlaceTPs(tps) \in Seq(Call)
      BY <1>1, BeginTypes
    <3>2. <<>> \in Seq(Call)
      OBVIOUS
    <3> QED BY <2>3, <3>1, <3>2
  <2>5. passive' \subseteq OrderIds /\ Cardinality(passive') <= 1
    BY <2>3, PassiveSmall
  <2> QED BY <2>2, <2>3, <2>4, <2>5 DEF TypeOK, RefreshInv
<1>7. ASSUME Refreshed PROVE TypeInv'
  <2>1. passive' = {} /\ UNCHANGED <<pos, live, entries, fills, inbox, amount, remaining, tps,
                                     kill, restarts>>
    BY <1>7 DEF Refreshed, exchangeVars, control
  <2>2. passive' \subseteq OrderIds /\ Cardinality(passive') <= 1
    BY <2>1, PassiveSmall
  <2>3. CASE refreshes >= 2
    <3>1. /\ refreshes' = 0 /\ exiting' = TRUE /\ active' = FALSE
          /\ agenda' = Cancelling(tps) \o Then("cleaned") \o <<Creating("create", "mkt", remaining)>>
      BY <1>7, <2>3 DEF Refreshed
    <3>2. agenda' \in Seq(Call)
      BY <1>1, <3>1, BeginTypes
    <3>3. refreshes' \in 0..1
      BY <3>1
    <3>4. active' \in BOOLEAN /\ exiting' \in BOOLEAN /\ refreshes' \in 0..2 /\ RefreshInv'
      BY <3>1, <3>3, FewRefreshes
    <3> QED BY <2>1, <2>2, <3>2, <3>4 DEF TypeOK
  <2>4. CASE ~(refreshes >= 2)
    <3>1. agenda' = PassiveExit(remaining) /\ UNCHANGED <<refreshes, exiting, active>>
      BY <1>7, <2>4 DEF Refreshed
    <3>2. agenda' \in Seq(Call)
      BY <1>1, <3>1, BeginTypes
    <3>3. refreshes \in 0..1
      BY <2>4
    <3> QED BY <2>1, <2>2, <3>1, <3>2, <3>3 DEF TypeOK, RefreshInv
  <2> QED BY <2>3, <2>4
<1> QED BY <1>2, <1>3, <1>4, <1>5, <1>6, <1>7
LEMMA AttemptFacts ==
  ASSUME TypeInv, Attempt \/ Now("sync")
  PROVE  /\ agenda # <<>> /\ Rest \in Seq(Call) /\ refreshes \in 0..1
         /\ Head(agenda).op \in {"create", "sync", "retry"}
         /\ Head(agenda).kind \in {"tp", "pe", "mkt"} /\ Head(agenda).qty \in Nat
         /\ Head(agenda) = Creating(Head(agenda).op, Head(agenda).kind, Head(agenda).qty)
<1>1. PICK op \in {"create", "sync", "retry"} : Now(op)
  BY DEF Attempt
<1>2. op \notin {"cancel", "refreshed"}
  OBVIOUS
<1>3. /\ agenda # <<>> /\ Rest \in Seq(Call) /\ refreshes \in 0..1
      /\ Head(agenda) \in Call /\ Head(agenda).op = op
  BY <1>1, <1>2, NotRefreshing, NowFacts DEF TypeInv
<1>4. Head(agenda) \in [op : {"create", "sync", "retry"}, kind : {"tp", "pe", "mkt"}, qty : Nat]
  BY <1>3, CallFields
<1> QED BY <1>3, <1>4 DEF Creating

LEMMA EffectTypes ==
  ASSUME TypeInv, NEW c, c.kind \in {"tp", "pe", "mkt"}, c.qty \in Nat,
         NEW id \in OrderIds \cup {0}, Effect(c, id)
  PROVE  /\ pos' \in Nat /\ live' \subseteq Order /\ fills' \in Seq(Fill)
         /\ c.kind # "mkt" => id \in OrderIds
<1> USE Types DEF TypeInv
<1>1. CASE c.kind = "mkt"
  <2> DEFINE f == [kind |-> "exit", id |-> 0, qty |-> c.qty]
  <2>1. c.qty <= pos /\ pos' = pos - c.qty /\ fills' = Append(fills, f) /\ UNCHANGED live
    BY <1>1 DEF Effect
  <2>2. f \in Fill
    BY DEF Fill
  <2> HIDE DEF f
  <2>3. fills' \in Seq(Fill)
    BY <2>1, <2>2, AppendProperties
  <2> QED BY <1>1, <2>1, <2>3
<1>2. CASE c.kind # "mkt"
  <2> DEFINE o == [id |-> id, kind |-> c.kind, qty |-> c.qty]
  <2>1. id # 0 /\ live' = live \cup {o} /\ UNCHANGED <<pos, fills>>
    BY <1>2 DEF Effect
  <2>2. id \in OrderIds
    BY <2>1
  <2>3. o \in Order
    BY <1>2, <2>2 DEF Order
  <2> HIDE DEF o
  <2> QED BY <2>1, <2>2, <2>3
<1> QED BY <1>1, <1>2

\* The steps of an attempt to create an order.
LEMMA CreateTypes ==
  ASSUME TypeInv,
         \/ Oversized \/ SyncThenRetry \/ Refused
         \/ \E id \in OrderIds \cup {0} : Accepted(id) \/ AnswerLost(id)
  PROVE  TypeInv'
<1> USE Types DEF TypeInv
<1> DEFINE c == Head(agenda)
<1>1. Attempt \/ Now("sync")
  BY DEF Oversized, SyncThenRetry, Refused, Accepted, AnswerLost, Attempt
<1>2. /\ Rest \in Seq(Call) /\ refreshes \in 0..1
      /\ c.kind \in {"tp", "pe", "mkt"} /\ c.qty \in Nat
      /\ c = Creating(c.op, c.kind, c.qty)
  BY <1>1, AttemptFacts
<1>3. ASSUME Failed(c) PROVE active' \in BOOLEAN /\ exiting' \in BOOLEAN
  BY <1>3 DEF Failed
<1> HIDE DEF c
<1>4. ASSUME NEW op \in {"create", "sync", "retry"}, NEW qty \in Nat
      PROVE  <<Creating(op, c.kind, qty)>> \o Rest \in Seq(Call)
  BY <1>2, Parts1, ConcatProperties
<1>5. CASE Oversized
  <2>1. [c EXCEPT !.op = "sync"] = Creating("sync", c.kind, c.qty)
    BY <1>2, SMTT(30) DEF Creating
  <2>2. /\ agenda' = <<[c EXCEPT !.op = "sync"]>> \o Rest
        /\ UNCHANGED <<pos, live, entries, fills, inbox, amount, active, exiting, remaining,
                       tps, passive, refreshes, kill, restarts>>
    BY <1>5 DEF Oversized, exchangeVars, barrierVars, control, c
  <2>3. agenda' \in Seq(Call)
    BY <1>2, <1>4, <2>1, <2>2
  <2> QED BY <1>2, <2>2, <2>3 DEF TypeOK, RefreshInv
<1>6. CASE SyncThenRetry
  <2>1. /\ amount' \in {pos} \cup (IF Faults THEN {amount} ELSE {})
        /\ remaining' = amount'
        /\ IF amount' = 0
           THEN /\ IF c.kind = "mkt" THEN Failed(c)
                   ELSE active' = FALSE /\ UNCHANGED exiting
                /\ agenda' = Rest
           ELSE /\ agenda' = <<Creating("retry", c.kind, Min2(c.qty, amount'))>> \o Rest
                /\ UNCHANGED <<active, exiting>>
        /\ UNCHANGED <<pos, live, entries, fills, inbox, tps, passive, refreshes, kill, restarts>>
    BY <1>6 DEF SyncThenRetry, exchangeVars, control, c
  <2>2. amount' \in Nat
    BY <2>1
  <2>3. Min2(c.qty, amount') \in Nat
    BY <1>2, <2>2 DEF Min2
  <2>4. agenda' \in Seq(Call) /\ active' \in BOOLEAN /\ exiting' \in BOOLEAN
    <3>1. CASE amount' = 0
      BY <1>2, <1>3, <2>1, <3>1 DEF c
    <3>2. CASE amount' # 0
      BY <1>4, <2>1, <2>3, <3>2
    <3> QED BY <3>1, <3>2
  <2> QED BY <1>2, <2>1, <2>2, <2>4 DEF TypeOK, RefreshInv
<1>7. CASE Refused
  <2>1. /\ Failed(c) /\ agenda' = Rest
        /\ UNCHANGED <<pos, live, entries, fills, inbox, amount, remaining, tps, passive,
                       refreshes, kill, restarts>>
    BY <1>7 DEF Refused, exchangeVars, control, c
  <2> QED BY <1>2, <1>3, <2>1 DEF TypeOK, RefreshInv, c
<1>8. ASSUME NEW id \in OrderIds \cup {0}, Accepted(id) PROVE TypeInv'
  <2>1. /\ Effect(c, id)
        /\ tps' = IF c.kind = "tp" THEN tps \cup {id} ELSE tps
        /\ passive' = IF c.kind = "pe" THEN {id} ELSE passive
        /\ agenda' = Rest
        /\ UNCHANGED <<entries, inbox, amount, active, exiting, remaining, refreshes, kill,
                       restarts>>
    BY <1>8 DEF Accepted, control, c
  <2>2. /\ pos' \in Nat /\ live' \subseteq Order /\ fills' \in Seq(Fill)
        /\ c.kind # "mkt" => id \in OrderIds
    BY <1>2, <2>1, EffectTypes
  <2>3. tps' \subseteq OrderIds /\ passive' \subseteq OrderIds
    BY <2>1, <2>2
  <2>4. Cardinality(passive') <= 1
    BY <2>1, PassiveSmall
  <2> QED BY <1>2, <2>1, <2>2, <2>3, <2>4 DEF TypeOK, RefreshInv
<1>9. ASSUME NEW id \in OrderIds \cup {0}, AnswerLost(id) PROVE TypeInv'
  <2>1. /\ Effect(c, id) /\ Failed(c) /\ agenda' = Rest
        /\ UNCHANGED <<entries, inbox, amount, remaining, tps, passive, refreshes, kill,
                       restarts>>
    BY <1>9 DEF AnswerLost, control, c
  <2>2. pos' \in Nat /\ live' \subseteq Order /\ fills' \in Seq(Fill)
    BY <1>2, <2>1, EffectTypes
  <2>3. active' \in BOOLEAN /\ exiting' \in BOOLEAN
    BY <1>3, <2>1 DEF c
  <2> QED BY <1>2, <2>1, <2>2, <2>3 DEF TypeOK, RefreshInv
<1> QED BY <1>5, <1>6, <1>7, <1>8, <1>9
\* The isolated kill and the restart.
LEMMA KillTypes ==
  ASSUME TypeInv, KillBegin \/ KillStep \/ Restart
  PROVE  TypeInv'
<1> USE Types DEF TypeInv
<1>1. CASE KillBegin
  <2>1. /\ kill' = [step |-> "cancel", ids |-> tps \cup passive]
        /\ UNCHANGED <<pos, live, entries, fills, inbox, amount, active, exiting, remaining,
                       tps, passive, refreshes, agenda, restarts>>
    BY <1>1 DEF KillBegin, exchangeVars, barrierVars
  <2>2. kill' \in [step : {"off", "cancel", "close", "done"}, ids : SUBSET OrderIds]
    BY <2>1
  <2> QED BY <2>1, <2>2 DEF TypeOK, RefreshInv
<1>2. ASSUME NEW id \in OrderIds, KillCancel(id) PROVE TypeInv'
  <2>1. /\ live' = {o \in live : o.id # id} \/ live' = live
        /\ kill' = [kill EXCEPT !.ids = @ \ {id}]
        /\ UNCHANGED <<pos, entries, fills, inbox, amount, active, exiting, remaining,
                       tps, passive, refreshes, agenda, restarts>>
    BY <1>2 DEF KillCancel, barrierVars
  <2>2. kill' \in [step : {"off", "cancel", "close", "done"}, ids : SUBSET OrderIds]
    BY <2>1
  <2>3. live' \subseteq Order
    BY <2>1
  <2> QED BY <2>1, <2>2, <2>3 DEF TypeOK, RefreshInv
<1>3. CASE KillDisarm
  <2>1. /\ tps' = {} /\ passive' = {} /\ active' = FALSE
        /\ kill' = [kill EXCEPT !.step = "close"]
        /\ UNCHANGED <<pos, live, entries, fills, inbox, amount, exiting, remaining,
                       refreshes, agenda, restarts>>
    BY <1>3 DEF KillDisarm, exchangeVars
  <2>2. kill' \in [step : {"off", "cancel", "close", "done"}, ids : SUBSET OrderIds]
    BY <2>1
  <2>3. /\ tps' \subseteq OrderIds /\ passive' \subseteq OrderIds /\ active' \in BOOLEAN
        /\ Cardinality(passive') <= 1
    BY <2>1, PassiveSmall
  <2> QED BY <2>1, <2>2, <2>3 DEF TypeOK, RefreshInv
<1>4. CASE KillClose
  <2> DEFINE f == [kind |-> "exit", id |-> 0, qty |-> amount]
  <2>1. /\ kill' = Killed
        /\ \/ amount \in 1..pos /\ pos' = pos - amount /\ fills' = Append(fills, f)
           \/ UNCHANGED <<pos, fills>>
        /\ UNCHANGED <<live, entries, inbox, amount, active, exiting, remaining,
                       tps, passive, refreshes, agenda, restarts>>
    BY <1>4 DEF KillClose, barrierVars
  <2>2. f \in Fill
    BY DEF Fill
  <2> HIDE DEF f
  <2>3. fills' \in Seq(Fill) /\ pos' \in Nat
    <3>1. amount \in 1..pos => pos - amount \in Nat
      OBVIOUS
    <3>2. Append(fills, f) \in Seq(Fill)
      BY <2>2, AppendProperties
    <3> QED BY <2>1, <3>1, <3>2
  <2>4. kill' \in [step : {"off", "cancel", "close", "done"}, ids : SUBSET OrderIds]
    BY <2>1 DEF Killed
  <2> QED BY <2>1, <2>3, <2>4 DEF TypeOK, RefreshInv
<1>5. CASE Restart
  <2>1. /\ restarts < MaxRestarts /\ restarts' = restarts + 1
        /\ fills' = <<>> /\ inbox' = <<>> /\ amount' = 0
        /\ active' = FALSE /\ exiting' = FALSE /\ remaining' = 0
        /\ tps' = {} /\ passive' = {} /\ refreshes' = 0
        /\ agenda' = <<>>
        /\ kill' \in {KillOff, Killed}
        /\ UNCHANGED <<pos, live, entries>>
    BY <1>5 DEF Restart, exchangeVars
  <2>2. kill' \in [step : {"off", "cancel", "close", "done"}, ids : SUBSET OrderIds]
    BY <2>1 DEF KillOff, Killed
  <2>3. restarts' \in 0..MaxRestarts
    BY <2>1, BoundAssumption
  <2>4. refreshes' \in 0..1
    BY <2>1
  <2>5. /\ tps' \subseteq OrderIds /\ passive' \subseteq OrderIds
        /\ active' \in BOOLEAN /\ exiting' \in BOOLEAN
        /\ Cardinality(passive') <= 1 /\ refreshes' \in 0..2 /\ RefreshInv'
    BY <2>1, <2>4, PassiveSmall, FewRefreshes
  <2>6. /\ fills' \in Seq(Fill) /\ inbox' \in Seq(Fill) /\ agenda' \in Seq(Call)
        /\ amount' \in Nat /\ remaining' \in Nat
    BY <2>1
  <2> QED BY <2>1, <2>2, <2>3, <2>5, <2>6 DEF TypeOK
<1> QED BY <1>1, <1>2, <1>3, <1>4, <1>5 DEF KillStep

LEMMA TypeInit == Init => TypeInv
<1> SUFFICES ASSUME Init PROVE TypeInv
  OBVIOUS
<1>1. /\ pos = 0 /\ live = {} /\ entries = 0
      /\ fills = <<>> /\ inbox = <<>> /\ amount = 0
      /\ active = FALSE /\ exiting = FALSE /\ remaining = 0
      /\ tps = {} /\ passive = {} /\ refreshes = 0
      /\ agenda = <<>> /\ kill = KillOff /\ restarts = 0
  BY DEF Init
<1>2. /\ fills \in Seq(Fill) /\ inbox \in Seq(Fill) /\ agenda \in Seq(Call)
  BY <1>1
<1>3. kill \in [step : {"off", "cancel", "close", "done"}, ids : SUBSET OrderIds]
  BY <1>1 DEF KillOff
<1>4. restarts \in 0..MaxRestarts /\ refreshes \in 0..2 /\ RefreshInv
  BY <1>1, BoundAssumption DEF RefreshInv
<1>5. Cardinality(passive) <= 1
  BY <1>1, PassiveSmall
<1> QED BY <1>1, <1>2, <1>3, <1>4, <1>5 DEF TypeInv, TypeOK

LEMMA TypeNext == TypeInv /\ [Next]_vars => TypeInv'
<1> SUFFICES ASSUME TypeInv, [Next]_vars PROVE TypeInv'
  OBVIOUS
<1>1. ASSUME \/ \E kind \in {"quote", "pyramid"}, qty \in EntryLots : Enter(kind, qty)
             \/ \E o \in live : \E qty \in 1..MaxPos : FillResting(o, qty)
             \/ OnFill \/ LoseFill \/ SyncTracker
      PROVE  TypeInv'
  BY <1>1, EventTypes
<1>2. ASSUME HandleFill \/ BreachTick \/ TimeLimitTick \/ PassiveTimeoutTick \/ ReconcileBarrier
      PROVE  TypeInv'
  BY <1>2, HandlerTypes
<1>3. ASSUME Continue PROVE TypeInv'
  BY <1>3, AwaitTypes, CreateTypes DEF Continue
<1>4. ASSUME KillBegin \/ KillStep \/ Restart PROVE TypeInv'
  BY <1>4, KillTypes
<1>5. ASSUME UNCHANGED vars PROVE TypeInv'
  <2>1. UNCHANGED <<pos, live, entries, fills, inbox, amount, active, exiting, remaining,
                    tps, passive, refreshes, agenda, kill, restarts>>
    BY <1>5 DEF vars, exchangeVars, barrierVars, control
  <2> QED BY <2>1 DEF TypeInv, TypeOK, RefreshInv
<1> QED BY <1>1, <1>2, <1>3, <1>4, <1>5 DEF Next

\* Every variable keeps its type; in particular the passive exit is refreshed at
\* most twice before the executor escalates to a market exit.
THEOREM TypeCorrect == Spec => []TypeOK
<1>1. TypeInv => TypeOK
  BY DEF TypeInv
<1> QED BY <1>1, TypeInit, TypeNext, PTL DEF Spec
-----------------------------------------------------------------------------
(* Where the exit orders are known *)

LiveIds == {o.id : o \in live}

\* No fill that waits to be handled belongs to an order that still rests.
Gone(q, ids) == \A k \in 1..Len(q) : q[k].id \notin ids

TpCalls  == {c \in Call : c.op \in {"create", "sync", "retry"} /\ c.kind = "tp"}
EndCalls == {c \in Call : \/ c.op \in {"reset", "disarm"}
                          \/ c.op \in {"create", "sync", "retry"} /\ c.kind = "mkt"}

\* Whoever forgets take profits cancels, first of all, each that rests: an agenda
\* places take profits, ends a handler that has cancelled all orders, or begins with
\* the cancels of a ladder or of a clean-up.
Shape ==
  \/ agenda = <<>>
  \/ agenda \in Seq(TpCalls) /\ agenda # <<>>
  \/ agenda \in Seq(EndCalls) /\ agenda # <<>> /\ live = {}
  \/ \E ids \in SUBSET OrderIds :
       agenda = Cancelling(ids) \o Then("ladder") /\ LiveIds \subseteq ids /\ active /\ ~exiting
  \/ \E ids \in SUBSET OrderIds, t \in Seq(EndCalls) :
       agenda = Cancelling(ids) \o (Then("cleaned") \o t) /\ LiveIds \subseteq ids

KnownInv ==
  /\ NoOrphans
  /\ \A o, p \in live : o.id = p.id => o = p
  /\ Gone(fills, LiveIds) /\ Gone(inbox, LiveIds)
  /\ passive = {} /\ kill = KillOff
  /\ Shape

\* With one take profit, what rests while nobody holds the lock is within the
\* remaining size, and a ladder in the making finds nothing at rest.
FitInv ==
  Parts = 1 =>
    /\ \A o, p \in live : o = p
    /\ agenda = <<>> => \A o \in live : active /\ ~exiting /\ o.qty <= remaining
    /\ agenda \in Seq(TpCalls) /\ agenda # <<>> =>
         /\ Len(agenda) = 1 /\ live = {} /\ active /\ ~exiting
         /\ Head(agenda).op # "sync" => Head(agenda).qty <= remaining

OrdersInv == TypeInv /\ KnownInv /\ FitInv

\* Orders fill whole, calls succeed, there is no time limit, no kill and no restart.
Undisturbed == ~PartialFills /\ ~Faults /\ ~PassiveExits /\ ~Kills /\ MaxRestarts = 0

LEMMA GoneFewer ==
  ASSUME NEW q, NEW a, NEW b, Gone(q, a), b \subseteq a
  PROVE  Gone(q, b)
BY DEF Gone

LEMMA GoneAppend ==
  ASSUME NEW q \in Seq(Fill), NEW f \in Fill, NEW ids, Gone(q, ids), f.id \notin ids
  PROVE  Gone(Append(q, f), ids)
<1>1. /\ Len(q) \in Nat /\ Len(Append(q, f)) = Len(q) + 1
      /\ Append(q, f)[Len(q) + 1] = f /\ \A i \in 1..Len(q) : Append(q, f)[i] = q[i]
  BY AppendProperties, LenProperties
<1> QED BY <1>1 DEF Gone

LEMMA GoneTail ==
  ASSUME NEW q \in Seq(Fill), NEW ids, Gone(q, ids), q # <<>>
  PROVE  Gone(Tail(q), ids) /\ Head(q) \in Fill /\ Head(q).id \notin ids /\ Tail(q) \in Seq(Fill)
<1>1. /\ Len(q) \in Nat /\ Len(q) > 0 /\ Len(Tail(q)) = Len(q) - 1
      /\ \A i \in 1..Len(Tail(q)) : Tail(q)[i] = q[i + 1]
      /\ Head(q) \in Fill /\ Head(q) = q[1] /\ Tail(q) \in Seq(Fill)
  BY HeadTailProperties, EmptySeq, LenProperties
<1>2. \A i \in 1..Len(Tail(q)) : i + 1 \in 1..Len(q)
  BY <1>1
<1>3. 1 \in 1..Len(q)
  BY <1>1
<1> QED BY <1>1, <1>2, <1>3 DEF Gone

\* Each form of an agenda is told by its head.
LEMMA HeadTells ==
  /\ \A a : a \in Seq(TpCalls) /\ a # <<>> =>
       /\ Head(a) \in TpCalls /\ Head(a).op \in {"create", "sync", "retry"} /\ Head(a).kind = "tp"
       /\ Tail(a) \in Seq(TpCalls)
  /\ \A a : a \in Seq(EndCalls) /\ a # <<>> =>
       /\ Head(a) \in EndCalls
       /\ \/ Head(a).op \in {"reset", "disarm"}
          \/ Head(a).op \in {"create", "sync", "retry"} /\ Head(a).kind = "mkt"
       /\ Tail(a) \in Seq(EndCalls)
  /\ \A a : a \in Seq(EndCalls) /\ a # <<>> => a \notin Seq(TpCalls)
<1>1. ASSUME NEW a \in Seq(TpCalls), a # <<>>
      PROVE  /\ Head(a) \in TpCalls /\ Tail(a) \in Seq(TpCalls)
             /\ Head(a).op \in {"create", "sync", "retry"} /\ Head(a).kind = "tp"
  <2>1. Head(a) \in TpCalls /\ Tail(a) \in Seq(TpCalls)
    BY <1>1, HeadTailProperties
  <2>2. Head(a).op \in {"create", "sync", "retry"} /\ Head(a).kind = "tp"
    BY <2>1 DEF TpCalls
  <2> QED BY <2>1, <2>2
<1>2. ASSUME NEW a \in Seq(EndCalls), a # <<>>
      PROVE  /\ Head(a) \in EndCalls /\ Tail(a) \in Seq(EndCalls)
             /\ \/ Head(a).op \in {"reset", "disarm"}
                \/ Head(a).op \in {"create", "sync", "retry"} /\ Head(a).kind = "mkt"
  <2>1. Head(a) \in EndCalls /\ Tail(a) \in Seq(EndCalls)
    BY <1>2, HeadTailProperties
  <2>2. \/ Head(a).op \in {"reset", "disarm"}
        \/ Head(a).op \in {"create", "sync", "retry"} /\ Head(a).kind = "mkt"
    BY <2>1 DEF EndCalls
  <2> QED BY <2>1, <2>2
<1>3. ASSUME NEW a \in Seq(EndCalls), a # <<>>, a \in Seq(TpCalls) PROVE FALSE
  BY <1>1, <1>2, <1>3
<1> QED BY <1>1, <1>2, <1>3
LEMMA SeqSubset ==
  ASSUME NEW S, NEW T, S \subseteq T, NEW s \in Seq(S)
  PROVE  s \in Seq(T)
<1>1. s \in [1..Len(s) -> S] /\ Len(s) \in Nat
  BY LenProperties
<1>2. s \in [1..Len(s) -> T]
  BY <1>1
<1> QED BY <1>1, <1>2, SeqDef

LEMMA EndTypes ==
  /\ \A t \in Seq(EndCalls) : t \in Seq(Call)
  /\ \A t \in Seq(TpCalls) : t \in Seq(Call)
  /\ \A qty \in Nat : <<Creating("create", "mkt", qty)>> \in Seq(EndCalls)
  /\ Then("reset") \in Seq(EndCalls) /\ Then("disarm") \in Seq(EndCalls)
  /\ <<>> \in Seq(EndCalls)
<1>1. EndCalls \subseteq Call /\ TpCalls \subseteq Call
  BY DEF EndCalls, TpCalls
<1>2. /\ \A t \in Seq(EndCalls) : t \in Seq(Call)
      /\ \A t \in Seq(TpCalls) : t \in Seq(Call)
  BY <1>1, SeqSubset
<1>3. ASSUME NEW qty \in Nat
      PROVE  <<Creating("create", "mkt", qty)>> \in Seq(EndCalls)
  <2>1. Creating("create", "mkt", qty) \in EndCalls
    <3>1. Creating("create", "mkt", qty) \in Call
      BY CallTypes
    <3> QED BY <3>1 DEF EndCalls, Creating
  <2> QED BY <2>1
<1>4. Then("reset") \in Seq(EndCalls) /\ Then("disarm") \in Seq(EndCalls)
  <2>1. [op |-> "reset"] \in EndCalls /\ [op |-> "disarm"] \in EndCalls
    <3>1. [op |-> "reset"] \in Call /\ [op |-> "disarm"] \in Call
      BY CallTypes DEF Operations
    <3> QED BY <3>1 DEF EndCalls
  <2> QED BY <2>1 DEF Then
<1>5. <<>> \in Seq(EndCalls)
  OBVIOUS
<1> QED BY <1>2, <1>3, <1>4, <1>5

\* The two ways on after the cancels.
LEMMA AfterCancels ==
  /\ Then("ladder") \in Seq(Call) /\ Then("ladder") # <<>>
  /\ Head(Then("ladder")).op = "ladder" /\ Tail(Then("ladder")) = <<>>
  /\ \A t \in Seq(EndCalls) : /\ Then("cleaned") \o t \in Seq(Call) /\ Then("cleaned") \o t # <<>>
                              /\ Head(Then("cleaned") \o t).op = "cleaned"
                              /\ Tail(Then("cleaned") \o t) = t
<1>1. /\ Then("ladder") \in Seq(Call) /\ Then("ladder") # <<>>
      /\ Head(Then("ladder")) = [op |-> "ladder"] /\ Tail(Then("ladder")) = <<>>
  <2>1. Then("ladder") = <<[op |-> "ladder"]>>
    BY DEF Then
  <2>2. Tail(<<[op |-> "ladder"]>>) = <<>>
    OBVIOUS
  <2>3. "ladder" \in Operations
    BY DEF Operations
  <2> QED BY <2>1, <2>2, <2>3, ThenForm
<1>2. ASSUME NEW t \in Seq(EndCalls)
      PROVE  /\ Then("cleaned") \o t \in Seq(Call) /\ Then("cleaned") \o t # <<>>
             /\ Head(Then("cleaned") \o t) = [op |-> "cleaned"]
             /\ Tail(Then("cleaned") \o t) = t
  <2> DEFINE h == Then("cleaned")
             a == h \o t
  <2>1. /\ h \in Seq(Call) /\ Len(h) = 1 /\ h[1] = [op |-> "cleaned"]
    BY ThenForm DEF Operations
  <2>2. t \in Seq(Call) /\ Len(t) \in Nat
    BY EndTypes, LenProperties
  <2> HIDE DEF h
  <2>3. /\ a \in Seq(Call) /\ Len(a) = 1 + Len(t)
        /\ \A k \in 1..Len(a) : a[k] = IF k <= 1 THEN h[1] ELSE t[k - 1]
    <3>1. /\ a \in Seq(Call) /\ Len(a) = Len(h) + Len(t)
          /\ \A k \in 1..Len(h) + Len(t) : a[k] = IF k <= Len(h) THEN h[k] ELSE t[k - Len(h)]
      BY <2>1, <2>2, ConcatProperties
    <3> HIDE DEF a
    <3>2. ASSUME NEW k \in 1..Len(a)
          PROVE  a[k] = IF k <= 1 THEN h[1] ELSE t[k - 1]
      <4>1. CASE k = 1
        BY <2>1, <2>2, <3>1, <4>1
      <4>2. CASE k # 1
        BY <2>1, <2>2, <3>1, <4>2
      <4> QED BY <4>1, <4>2
    <3> QED BY <2>1, <3>1, <3>2
  <2> HIDE DEF a
  <2>4. a # <<>> /\ Head(a) = h[1]
    BY <2>2, <2>3
  <2>5. Tail(a) = t
    <3>1. Tail(a) \in Seq(Call) /\ Len(Tail(a)) = Len(t)
          /\ \A k \in 1..Len(Tail(a)) : Tail(a)[k] = a[k + 1]
      BY <2>2, <2>3, <2>4, HeadTailProperties
    <3>2. \A k \in 1..Len(t) : a[k + 1] = t[k]
      BY <2>2, <2>3
    <3> QED BY <2>2, <3>1, <3>2, SeqEqual
  <2> QED BY <2>1, <2>3, <2>4, <2>5 DEF a, h
<1> QED BY <1>1, <1>2

LEMMA CancelsForm ==
  ASSUME NEW ids \in SUBSET OrderIds, NEW s \in Seq(Call), s # <<>>,
         Head(s).op \in {"ladder", "cleaned"}
  PROVE  LET a == Cancelling(ids) \o s
         IN /\ a # <<>> /\ Head(a).op \in {"cancel", Head(s).op}
            /\ a \notin Seq(TpCalls) /\ a \notin Seq(EndCalls)
            /\ Head(a).op = "cancel" => Head(a).ids = ids /\ Tail(a) = s
            /\ Head(a).op # "cancel" => ids = {} /\ a = s
<1> DEFINE a == Cancelling(ids) \o s
<1>1. ids = {} => a = s
  BY AgendaTypes
<1>2. ids # {} => a # <<>> /\ Head(a) = [op |-> "cancel", ids |-> ids] /\ Tail(a) = s
  BY AgendaTypes
<1> HIDE DEF a
<1>3. a # <<>> /\ Head(a).op \in {"cancel", Head(s).op}
  BY <1>1, <1>2
<1>4. /\ Head(a).op = "cancel" => Head(a).ids = ids /\ Tail(a) = s
      /\ Head(a).op # "cancel" => ids = {} /\ a = s
  BY <1>1, <1>2
<1>5. Head(a).op \in {"cancel", "ladder", "cleaned"}
  BY <1>3
<1>6. a \notin Seq(TpCalls) /\ a \notin Seq(EndCalls)
  BY <1>3, <1>5, HeadTells
<1> QED BY <1>3, <1>4, <1>6 DEF a

LEMMA CleanupForm ==
  ASSUME TypeOK, passive = {}, NEW ids \in SUBSET OrderIds, NEW t \in Seq(EndCalls)
  PROVE  Cleanup(ids) \o t = Cancelling(ids) \o (Then("cleaned") \o t)
<1>1. Cleanup(ids) = Cancelling(ids) \o Then("cleaned")
  <2>1. ids \cup passive = ids
    OBVIOUS
  <2> QED BY <2>1 DEF Cleanup
<1>2. Cancelling(ids) \in Seq(Call) /\ Then("cleaned") \in Seq(Call) /\ t \in Seq(Call)
  BY Parts1, EndTypes DEF Operations
<1> QED BY <1>1, <1>2, ConcatAssociative

-----------------------------------------------------------------------------
(* Outside the handlers *)

\* Nothing the executor knows or does changes; only fills travel.
LEMMA Quiet ==
  ASSUME KnownInv, FitInv,
         UNCHANGED <<live, active, exiting, remaining, tps, passive, agenda, kill>>,
         Gone(fills', LiveIds), Gone(inbox', LiveIds)
  PROVE  KnownInv' /\ FitInv'
<1>1. LiveIds' = LiveIds
  BY DEF LiveIds
<1>2. NoOrphans' /\ Shape'
  BY <1>1 DEF KnownInv, NoOrphans, Shape
<1>3. Gone(fills, LiveIds)' /\ Gone(inbox, LiveIds)'
  BY <1>1 DEF Gone
<1>4. FitInv'
  BY DEF FitInv
<1> QED BY <1>2, <1>3, <1>4 DEF KnownInv

LEMMA Known ==
  ASSUME TypeOK, KnownInv
  PROVE  /\ LiveIds \subseteq tps /\ LiveIds \subseteq OrderIds /\ 0 \notin LiveIds
         /\ passive = {} /\ kill = KillOff
         /\ Gone(fills, LiveIds) /\ Gone(inbox, LiveIds)
         /\ \A o, p \in live : o.id = p.id => o = p
<1>1. /\ \A o \in live : o.id \in tps \cup passive
      /\ \A o, p \in live : o.id = p.id => o = p
      /\ Gone(fills, LiveIds) /\ Gone(inbox, LiveIds)
      /\ passive = {} /\ kill = KillOff
  BY DEF KnownInv, NoOrphans
<1>2. LiveIds \subseteq tps
  BY <1>1 DEF LiveIds
<1>3. tps \subseteq OrderIds /\ 0 \notin OrderIds
  BY Types, IdAssumption
<1> QED BY <1>1, <1>2, <1>3

LEMMA EventKnown ==
  ASSUME OrdersInv, Undisturbed,
         \/ \E kind \in {"quote", "pyramid"}, qty \in EntryLots : Enter(kind, qty)
         \/ OnFill \/ LoseFill \/ SyncTracker
  PROVE  KnownInv' /\ FitInv'
<1>1. TypeOK /\ KnownInv /\ FitInv
  BY DEF OrdersInv, TypeInv
<1>2. /\ fills \in Seq(Fill) /\ inbox \in Seq(Fill)
      /\ Gone(fills, LiveIds) /\ Gone(inbox, LiveIds) /\ 0 \notin LiveIds
  BY <1>1, Types, Known
<1>3. ASSUME NEW kind \in {"quote", "pyramid"}, NEW qty \in EntryLots, Enter(kind, qty)
      PROVE  KnownInv' /\ FitInv'
  <2> DEFINE f == [kind |-> kind, id |-> 0, qty |-> qty]
  <2>1. /\ fills' = Append(fills, f)
        /\ UNCHANGED <<live, inbox, active, exiting, remaining, tps, passive, agenda, kill>>
    BY <1>3 DEF Enter, barrierVars, control
  <2>2. f \in Fill /\ f.id = 0
    BY LotAssumption DEF Fill
  <2> HIDE DEF f
  <2>3. Gone(fills', LiveIds) /\ Gone(inbox', LiveIds)
    BY <1>2, <2>1, <2>2, GoneAppend
  <2> QED BY <1>1, <2>1, <2>3, Quiet
<1>4. CASE OnFill
  <2> DEFINE f == Head(fills)
  <2>1. /\ fills # <<>> /\ inbox' = Append(inbox, f) /\ fills' = Tail(fills)
        /\ UNCHANGED <<live, active, exiting, remaining, tps, passive, agenda, kill>>
    BY <1>4 DEF OnFill, exchangeVars, barrierVars, control
  <2>2. Gone(Tail(fills), LiveIds) /\ f \in Fill /\ f.id \notin LiveIds
    BY <1>2, <2>1, GoneTail
  <2> HIDE DEF f
  <2>3. Gone(fills', LiveIds) /\ Gone(inbox', LiveIds)
    BY <1>2, <2>1, <2>2, GoneAppend
  <2> QED BY <1>1, <2>1, <2>3, Quiet
<1>5. CASE LoseFill
  BY <1>5 DEF LoseFill, Undisturbed
<1>6. CASE SyncTracker
  <2>1. UNCHANGED <<live, fills, inbox, active, exiting, remaining, tps, passive, agenda, kill>>
    BY <1>6 DEF SyncTracker, exchangeVars, barrierVars, control
  <2>2. Gone(fills', LiveIds) /\ Gone(inbox', LiveIds)
    BY <1>2, <2>1
  <2> QED BY <1>1, <2>1, <2>2, Quiet
<1> QED BY <1>3, <1>4, <1>5, <1>6

\* Fewer orders rest, and the executor does as before.
LEMMA FewerLive ==
  ASSUME TypeOK, KnownInv, FitInv, NEW ids, LiveIds' = LiveIds \ ids, live' \subseteq live,
         UNCHANGED <<active, exiting, remaining, tps, passive, kill, inbox, agenda>>,
         Gone(fills', LiveIds')
  PROVE  KnownInv' /\ FitInv'
<1>1. NoOrphans'
  BY DEF KnownInv, NoOrphans
<1>2. Gone(inbox', LiveIds')
  BY Known, GoneFewer
<1>3. Gone(fills, LiveIds)' /\ Gone(inbox, LiveIds)'
  BY <1>2 DEF Gone
<1>4. Shape'
  <2>1. live = {} => live' = {}
    OBVIOUS
  <2> QED BY <2>1 DEF KnownInv, Shape
<1>5. FitInv'
  BY DEF FitInv
<1> QED BY <1>1, <1>3, <1>4, <1>5 DEF KnownInv

LEMMA FillKnown ==
  ASSUME OrdersInv, Undisturbed, NEW o \in live, NEW qty \in 1..MaxPos, FillResting(o, qty)
  PROVE  KnownInv' /\ FitInv'
<1>1. TypeOK /\ KnownInv /\ FitInv
  BY DEF OrdersInv, TypeInv
<1> DEFINE f == [kind |-> "exit", id |-> o.id, qty |-> qty]
<1>2. /\ live' = live \ {o} /\ fills' = Append(fills, f)
      /\ UNCHANGED <<inbox, active, exiting, remaining, tps, passive, agenda, kill>>
  BY DEF FillResting, Undisturbed, barrierVars, control
<1>3. f \in Fill /\ f.id = o.id
  <2>1. o.id \in OrderIds /\ qty \in Nat
    BY <1>1, Types, BoundAssumption DEF Order
  <2> QED BY <2>1 DEF Fill
<1> HIDE DEF f
<1>4. LiveIds' = LiveIds \ {o.id}
  <2>1. \A p \in live : p.id = o.id => p = o
    BY <1>1, Known
  <2> QED BY <1>2, <2>1 DEF LiveIds
<1>5. Gone(fills, LiveIds') /\ o.id \notin LiveIds' /\ fills \in Seq(Fill)
  BY <1>1, <1>4, Known, GoneFewer, Types
<1>6. Gone(fills', LiveIds')
  BY <1>2, <1>3, <1>5, GoneAppend
<1>7. live' \subseteq live
  BY <1>2
<1> QED BY <1>1, <1>2, <1>4, <1>6, <1>7, FewerLive

-----------------------------------------------------------------------------
(* The handlers as they begin *)

\* A handler begins with the cancels of a ladder or of a clean-up, which name every
\* order at rest.
LEMMA Begun ==
  ASSUME TypeOK, KnownInv, FitInv, UNCHANGED <<live, fills, kill>>,
         LiveIds \subseteq tps', passive' = {}, Gone(inbox', LiveIds),
         NEW ids \in SUBSET OrderIds, LiveIds \subseteq ids,
         NEW s \in Seq(Call), agenda' = Cancelling(ids) \o s,
         \/ s = Then("ladder") /\ active' /\ ~exiting'
         \/ \E t \in Seq(EndCalls) : s = Then("cleaned") \o t
  PROVE  KnownInv' /\ FitInv'
<1>1. LiveIds' = LiveIds
  BY DEF LiveIds
<1>2. s # <<>> /\ Head(s).op \in {"ladder", "cleaned"}
  BY AfterCancels
<1>3. agenda' # <<>> /\ agenda' \notin Seq(TpCalls)
  BY <1>2, CancelsForm
<1>4. Shape'
  <2>1. ASSUME s = Then("ladder"), active', ~exiting' PROVE Shape'
    BY <1>1, <2>1 DEF Shape
  <2>2. ASSUME NEW t \in Seq(EndCalls), s = Then("cleaned") \o t PROVE Shape'
    BY <1>1, <2>2 DEF Shape
  <2> QED BY <2>1, <2>2
<1>5. NoOrphans'
  BY DEF NoOrphans, LiveIds
<1>6. Gone(fills, LiveIds)' /\ Gone(inbox, LiveIds)'
  BY <1>1, Known DEF Gone
<1>7. \A o, p \in live' : o.id = p.id => o = p
  BY Known
<1>8. passive' = {} /\ kill' = KillOff
  BY Known
<1>9. KnownInv'
  BY <1>4, <1>5, <1>6, <1>7, <1>8 DEF KnownInv
<1>10. FitInv'
  BY <1>3 DEF FitInv
<1> QED BY <1>9, <1>10

LEMMA HandleKnown ==
  ASSUME OrdersInv, HandleFill
  PROVE  KnownInv' /\ FitInv'
<1> DEFINE f == Head(inbox)
<1>1. TypeOK /\ KnownInv /\ FitInv
  BY DEF OrdersInv, TypeInv
<1>2. /\ agenda = <<>> /\ inbox # <<>> /\ inbox' = Tail(inbox)
      /\ OnEntryFill(f) \/ OnExitFill(f)
      /\ UNCHANGED <<pos, live, entries, fills, amount, kill, restarts>>
  BY DEF HandleFill, LockFree, exchangeVars, control
<1>3. /\ inbox \in Seq(Fill) /\ fills \in Seq(Fill) /\ amount \in Nat /\ remaining \in Nat
      /\ tps \in SUBSET OrderIds
  BY <1>1, Types
<1>4. /\ passive = {} /\ kill = KillOff /\ LiveIds \subseteq tps
      /\ Gone(fills, LiveIds) /\ Gone(inbox, LiveIds)
  BY <1>1, Known
<1>5. Gone(inbox', LiveIds) /\ f \in Fill /\ f.id \notin LiveIds
  BY <1>2, <1>3, <1>4, GoneTail
<1> HIDE DEF f
<1>6. Then("ladder") \in Seq(Call)
  BY AfterCancels
<1>7. CASE OnEntryFill(f)
  <2>1. CASE amount = 0
    <3>1. UNCHANGED <<active, exiting, remaining, tps, passive, agenda>>
      BY <1>7, <2>1 DEF OnEntryFill, barrierVars
    <3>2. Gone(fills', LiveIds)
      BY <1>2, <1>4
    <3> QED BY <1>1, <1>2, <1>5, <3>1, <3>2, Quiet
  <2>2. CASE amount # 0
    <3>1. /\ active' = TRUE /\ exiting' = FALSE /\ passive' = {} /\ tps' = tps
          /\ agenda' = Cancelling(tps) \o Then("ladder")
      BY <1>4, <1>7, <2>2 DEF OnEntryFill, PlaceTPs
    <3> QED BY <1>1, <1>2, <1>3, <1>4, <1>5, <1>6, <3>1, Begun
  <2> QED BY <2>1, <2>2
<1>8. CASE OnExitFill(f)
  <2> DEFINE open == tps \ {f.id}
             left == Less(remaining, f.qty)
  <2>1. /\ remaining' = left /\ tps' = open
        /\ agenda' = IF left = 0 THEN Cleanup(open) \o Then("reset")
                     ELSE IF active /\ ~exiting THEN PlaceTPs(open) ELSE <<>>
        /\ UNCHANGED <<active, exiting, passive>>
    BY <1>4, <1>8 DEF OnExitFill
  <2>2. open \in SUBSET OrderIds /\ LiveIds \subseteq open
    BY <1>3, <1>4, <1>5
  <2> HIDE DEF open, left
  <2>3. CASE left = 0
    <3>1. Then("reset") \in Seq(EndCalls)
      BY EndTypes
    <3>2. agenda' = Cancelling(open) \o (Then("cleaned") \o Then("reset"))
      BY <1>1, <1>4, <2>1, <2>2, <2>3, <3>1, CleanupForm
    <3>3. Then("cleaned") \o Then("reset") \in Seq(Call)
      BY <3>1, AfterCancels
    <3> QED BY <1>1, <1>2, <1>4, <1>5, <2>1, <2>2, <3>1, <3>2, <3>3, Begun
  <2>4. CASE left # 0 /\ active /\ ~exiting
    <3>1. agenda' = Cancelling(open) \o Then("ladder") /\ active' /\ ~exiting'
      BY <2>1, <2>4 DEF PlaceTPs
    <3> QED BY <1>1, <1>2, <1>4, <1>5, <1>6, <2>1, <2>2, <3>1, Begun
  <2>5. CASE left # 0 /\ ~(active /\ ~exiting)
    <3>1. agenda' = <<>>
      BY <2>1, <2>5
    <3>2. LiveIds' = LiveIds
      BY <1>2 DEF LiveIds
    <3>3. Gone(fills, LiveIds)' /\ Gone(inbox, LiveIds)'
      BY <1>2, <1>4, <1>5, <3>2 DEF Gone
    <3>4. NoOrphans' /\ Shape'
      BY <1>2, <2>1, <2>2, <3>1 DEF NoOrphans, LiveIds, Shape
    <3>5. KnownInv'
      BY <1>1, <1>2, <1>4, <2>1, <3>3, <3>4 DEF KnownInv
    <3>6. FitInv'
      <4>1. ASSUME Parts = 1 PROVE live = {}
        BY <1>1, <1>2, <2>5, <4>1 DEF FitInv
      <4> QED BY <1>2, <3>1, <4>1 DEF FitInv
    <3> QED BY <3>5, <3>6
  <2> QED BY <2>3, <2>4, <2>5
<1> QED BY <1>2, <1>7, <1>8

LEMMA WatchKnown ==
  ASSUME OrdersInv, Undisturbed,
         BreachTick \/ TimeLimitTick \/ PassiveTimeoutTick \/ ReconcileBarrier
  PROVE  KnownInv' /\ FitInv'
<1>1. TypeOK /\ KnownInv /\ FitInv
  BY DEF OrdersInv, TypeInv
<1>2. /\ amount \in Nat /\ remaining \in Nat /\ tps \in SUBSET OrderIds
      /\ passive = {} /\ kill = KillOff /\ LiveIds \subseteq tps
      /\ Gone(fills, LiveIds) /\ Gone(inbox, LiveIds)
  BY <1>1, Types, Known
<1>3. ASSUME NEW t \in Seq(EndCalls), agenda' = Cleanup(tps) \o t,
             UNCHANGED <<live, fills, inbox, kill, tps, passive>>
      PROVE  KnownInv' /\ FitInv'
  <2>1. agenda' = Cancelling(tps) \o (Then("cleaned") \o t)
    BY <1>1, <1>2, <1>3, CleanupForm
  <2>2. Then("cleaned") \o t \in Seq(Call)
    BY AfterCancels
  <2>3. Gone(inbox', LiveIds) /\ LiveIds \subseteq tps' /\ passive' = {}
    BY <1>2, <1>3
  <2> QED BY <1>1, <1>2, <1>3, <2>1, <2>2, <2>3, Begun
<1>4. CASE BreachTick
  <2>1. /\ agenda' = Cleanup(tps) \o <<Creating("create", "mkt", remaining)>>
        /\ UNCHANGED <<live, fills, inbox, kill, tps, passive>>
    BY <1>4 DEF BreachTick, MarketExit, exchangeVars, control
  <2> QED BY <1>2, <1>3, <2>1, EndTypes
<1>5. CASE TimeLimitTick \/ PassiveTimeoutTick
  BY <1>5 DEF TimeLimitTick, PassiveTimeoutTick, Undisturbed
<1>6. CASE ReconcileBarrier
  <2>1. /\ agenda = <<>> /\ UNCHANGED <<live, fills, inbox, kill>>
        /\ ReconcileFlat \/ \E b \in {"none", "sl", "tp"} : ReconcileOpen(b)
    BY <1>6 DEF ReconcileBarrier, LockFree, exchangeVars, control
  <2>2. CASE ReconcileFlat
    <3>1. /\ agenda' = IF active \/ tps # {} \/ passive # {}
                       THEN Cleanup(tps) \o Then("disarm") ELSE <<>>
          /\ UNCHANGED <<active, exiting, remaining, tps, passive>>
      BY <2>2 DEF ReconcileFlat, barrierVars
    <3>2. CASE active \/ tps # {} \/ passive # {}
      BY <1>3, <2>1, <3>1, <3>2, EndTypes
    <3>3. CASE ~(active \/ tps # {} \/ passive # {})
      <4>1. agenda' = agenda
        BY <2>1, <3>1, <3>3
      <4>2. Gone(fills', LiveIds) /\ Gone(inbox', LiveIds)
        BY <1>2, <2>1
      <4> QED BY <1>1, <2>1, <3>1, <4>1, <4>2, Quiet
    <3> QED BY <3>2, <3>3
  <2>3. ASSUME NEW b \in {"none", "sl", "tp"}, ReconcileOpen(b)
        PROVE  KnownInv' /\ FitInv'
    <3>1. CASE b = "none"
      <4>1. /\ active' = TRUE /\ exiting' = FALSE /\ UNCHANGED <<tps, passive>>
            /\ agenda' = Cancelling(tps) \o Then("ladder")
        BY <2>3, <3>1 DEF ReconcileOpen, PlaceTPs
      <4>2. Then("ladder") \in Seq(Call)
        BY AfterCancels
      <4>3. Gone(inbox', LiveIds) /\ LiveIds \subseteq tps' /\ passive' = {}
        BY <1>2, <2>1, <4>1
      <4> QED BY <1>1, <1>2, <2>1, <4>1, <4>2, <4>3, Begun
    <3>2. CASE b # "none"
      <4>1. /\ UNCHANGED <<tps, passive>>
            /\ agenda' = Cleanup(tps) \o <<Creating("create", "mkt", amount)>>
        BY <2>3, <3>2 DEF ReconcileOpen
      <4> QED BY <1>2, <1>3, <2>1, <4>1, EndTypes
    <3> QED BY <3>1, <3>2
  <2> QED BY <2>1, <2>2, <2>3
<1> QED BY <1>4, <1>5, <1>6

-----------------------------------------------------------------------------
(* After an await *)

Making == {"create", "sync", "retry"}

\* What is known of the agenda from the call at its head.
LEMMA Ahead ==
  ASSUME TypeOK, KnownInv, agenda # <<>>
  PROVE  LET c == Head(agenda)
         IN /\ c.op \in {"cancel", "ladder", "cleaned", "reset", "disarm"} \cup Making
            /\ c.op = "cancel" =>
                 /\ c.ids \in SUBSET OrderIds /\ LiveIds \subseteq c.ids /\ Rest \in Seq(Call)
                 /\ \/ Rest = Then("ladder") /\ active /\ ~exiting
                    \/ \E t \in Seq(EndCalls) : Rest = Then("cleaned") \o t
            /\ c.op = "ladder" => live = {} /\ Rest = <<>> /\ active /\ ~exiting
            /\ c.op \in {"cleaned", "reset", "disarm"} => live = {} /\ Rest \in Seq(EndCalls)
            /\ c.op \in Making =>
                 \/ c.kind = "tp" /\ agenda \in Seq(TpCalls) /\ Rest \in Seq(TpCalls)
                 \/ c.kind = "mkt" /\ live = {} /\ Rest \in Seq(EndCalls)
<1> DEFINE c == Head(agenda)
           P == /\ c.op \in {"cancel", "ladder", "cleaned", "reset", "disarm"} \cup Making
                /\ c.op = "cancel" =>
                     /\ c.ids \in SUBSET OrderIds /\ LiveIds \subseteq c.ids /\ Rest \in Seq(Call)
                     /\ \/ Rest = Then("ladder") /\ active /\ ~exiting
                        \/ \E t \in Seq(EndCalls) : Rest = Then("cleaned") \o t
                /\ c.op = "ladder" => live = {} /\ Rest = <<>> /\ active /\ ~exiting
                /\ c.op \in {"cleaned", "reset", "disarm"} => live = {} /\ Rest \in Seq(EndCalls)
                /\ c.op \in Making =>
                     \/ c.kind = "tp" /\ agenda \in Seq(TpCalls) /\ Rest \in Seq(TpCalls)
                     \/ c.kind = "mkt" /\ live = {} /\ Rest \in Seq(EndCalls)
<1> SUFFICES P
  OBVIOUS
<1>1. LiveIds = {} => live = {}
  BY DEF LiveIds
<1>2. CASE agenda \in Seq(TpCalls)
  <2>1. c.op \in Making /\ c.kind = "tp" /\ Rest \in Seq(TpCalls)
    BY <1>2, HeadTells DEF Making, Rest
  <2> HIDE DEF c
  <2> QED BY <1>2, <2>1 DEF Making
<1>3. CASE agenda \in Seq(EndCalls) /\ live = {}
  <2>1. /\ c.op \in {"reset", "disarm"} \/ (c.op \in Making /\ c.kind = "mkt")
        /\ Rest \in Seq(EndCalls)
    BY <1>3, HeadTells DEF Making, Rest
  <2> HIDE DEF c
  <2> QED BY <1>3, <2>1 DEF Making
<1>4. ASSUME NEW ids \in SUBSET OrderIds, agenda = Cancelling(ids) \o Then("ladder"),
             LiveIds \subseteq ids, active, ~exiting
      PROVE  P
  <2>1. /\ c.op \in {"cancel", "ladder"}
        /\ c.op = "cancel" => c.ids = ids /\ Rest = Then("ladder")
        /\ c.op # "cancel" => ids = {} /\ agenda = Then("ladder")
    BY <1>4, AfterCancels, CancelsForm DEF Rest
  <2>2. c.op # "cancel" => Rest = <<>>
    BY <2>1, AfterCancels DEF Rest
  <2>3. c.op = "cancel" => Rest \in Seq(Call)
    BY <2>1, AfterCancels
  <2> HIDE DEF c
  <2> QED BY <1>1, <1>4, <2>1, <2>2, <2>3 DEF Making
<1>5. ASSUME NEW ids \in SUBSET OrderIds, NEW t \in Seq(EndCalls),
             agenda = Cancelling(ids) \o (Then("cleaned") \o t), LiveIds \subseteq ids
      PROVE  P
  <2> DEFINE s == Then("cleaned") \o t
  <2>1. s \in Seq(Call) /\ s # <<>> /\ Head(s).op = "cleaned" /\ Tail(s) = t
    BY AfterCancels
  <2> HIDE DEF s
  <2>2. agenda = Cancelling(ids) \o s
    BY <1>5 DEF s
  <2>3. /\ c.op \in {"cancel", "cleaned"}
        /\ c.op = "cancel" => c.ids = ids /\ Rest = s
        /\ c.op # "cancel" => ids = {} /\ agenda = s
    BY <2>1, <2>2, CancelsForm, SMTT(30) DEF Rest
  <2>4. c.op # "cancel" => Rest = t
    BY <2>1, <2>3 DEF Rest
  <2>5. c.op = "cancel" => Rest \in Seq(Call) /\ \E u \in Seq(EndCalls) : Rest = Then("cleaned") \o u
    BY <2>1, <2>3 DEF s
  <2> HIDE DEF c
  <2> QED BY <1>1, <1>5, <2>3, <2>4, <2>5 DEF Making
<1> QED BY <1>2, <1>3, <1>4, <1>5 DEF KnownInv, Shape

\* The rest of a handler that has cancelled every order.
LEMMA Ending ==
  ASSUME TypeOK, KnownInv, live = {}, UNCHANGED <<live, inbox, kill>>,
         agenda' \in Seq(EndCalls), passive' = {}, Gone(fills', {})
  PROVE  KnownInv' /\ FitInv'
<1>1. LiveIds' = {} /\ live' = {}
  BY DEF LiveIds
<1>2. Gone(inbox, {})
  BY DEF Gone
<1>3. Gone(fills, LiveIds)' /\ Gone(inbox, LiveIds)'
  BY <1>1 DEF Gone
<1>4. NoOrphans' /\ kill' = KillOff
  BY <1>1, Known DEF NoOrphans
<1>5. Shape'
  BY <1>1 DEF Shape
<1>6. KnownInv'
  BY <1>1, <1>3, <1>4, <1>5 DEF KnownInv
<1>7. FitInv'
  <2>1. agenda' \in Seq(TpCalls) => agenda' = <<>>
    BY HeadTells
  <2> QED BY <1>1, <2>1 DEF FitInv
<1> QED BY <1>6, <1>7

LEMMA CancelKnown ==
  ASSUME OrdersInv, Undisturbed, CancelNext
  PROVE  KnownInv' /\ FitInv'
<1>1. TypeOK /\ KnownInv /\ FitInv
  BY DEF OrdersInv, TypeInv
<1> DEFINE c == Head(agenda)
<1>2. agenda # <<>> /\ c.op = "cancel"
  BY DEF CancelNext, Now
<1>3. /\ c.ids \in SUBSET OrderIds /\ LiveIds \subseteq c.ids /\ Rest \in Seq(Call)
      /\ \/ Rest = Then("ladder") /\ active /\ ~exiting
         \/ \E t \in Seq(EndCalls) : Rest = Then("cleaned") \o t
  BY <1>1, <1>2, Ahead
<1>4. PICK id \in c.ids :
        /\ live' = {o \in live : o.id # id}
        /\ agenda' = Cancelling(c.ids \ {id}) \o Rest
  BY DEF CancelNext, Undisturbed
<1>5. UNCHANGED <<fills, inbox, active, exiting, remaining, tps, passive, kill>>
  BY DEF CancelNext, barrierVars, control
<1> HIDE DEF c
<1> DEFINE ids == c.ids \ {id}
<1>6. ids \in SUBSET OrderIds /\ LiveIds' \subseteq ids /\ LiveIds' \subseteq LiveIds
  BY <1>3, <1>4 DEF LiveIds
<1>7. agenda' = Cancelling(ids) \o Rest
  BY <1>4
<1> HIDE DEF ids
<1>8. agenda' # <<>> /\ agenda' \notin Seq(TpCalls)
  <2>1. Rest # <<>> /\ Head(Rest).op \in {"ladder", "cleaned"}
    BY <1>3, AfterCancels
  <2> QED BY <1>3, <1>6, <1>7, <2>1, CancelsForm
<1>9. Shape'
  <2>1. CASE Rest = Then("ladder") /\ active /\ ~exiting
    <3>1. active' /\ ~exiting'
      BY <1>5, <2>1
    <3> QED BY <1>6, <1>7, <2>1, <3>1 DEF Shape
  <2>2. ASSUME NEW t \in Seq(EndCalls), Rest = Then("cleaned") \o t PROVE Shape'
    BY <1>6, <1>7, <2>2 DEF Shape
  <2> QED BY <1>3, <2>1, <2>2
<1>10. NoOrphans'
  BY <1>1, <1>4, <1>5 DEF KnownInv, NoOrphans
<1>11. Gone(fills, LiveIds') /\ Gone(inbox, LiveIds')
  BY <1>1, <1>6, Known, GoneFewer
<1>12. Gone(fills, LiveIds)' /\ Gone(inbox, LiveIds)'
  BY <1>5, <1>11 DEF Gone
<1>13. /\ \A o, p \in live' : o.id = p.id => o = p
       /\ passive' = {} /\ kill' = KillOff
  BY <1>1, <1>4, <1>5, Known
<1>14. KnownInv'
  BY <1>9, <1>10, <1>12, <1>13 DEF KnownInv
<1>15. FitInv'
  <2>1. ASSUME Parts = 1 PROVE \A o, p \in live' : o = p
    BY <1>1, <1>4, <2>1 DEF FitInv
  <2> QED BY <1>8, <2>1 DEF FitInv
<1> QED BY <1>14, <1>15

\* A ladder of one level has at most one order.
LEMMA LadderOrders ==
  ASSUME NEW qty \in Nat
  PROVE  /\ LadderCalls(qty) \in Seq(TpCalls)
         /\ Parts = 1 /\ LadderCalls(qty) # <<>> =>
              /\ Len(LadderCalls(qty)) = 1
              /\ Head(LadderCalls(qty)) = Creating("create", "tp", qty)
<1> DEFINE a == LadderCalls(qty)
           d == Creating("create", "tp", qty)
<1>1. a \in Seq(Call) /\ Len(a) <= Parts /\ \A k \in 1..Len(a) : a[k] = d
  BY LadderTypes
<1>2. Len(a) \in Nat /\ (a # <<>> => Len(a) > 0 /\ Head(a) = a[1])
  BY <1>1, LenProperties, EmptySeq, HeadTailProperties
<1>3. d \in TpCalls
  <2>1. d \in Call
    BY CallTypes
  <2> QED BY <2>1 DEF TpCalls, Creating
<1> HIDE DEF a, d
<1>4. a \in [1..Len(a) -> TpCalls]
  BY <1>1, <1>3, LenProperties
<1>5. a \in Seq(TpCalls)
  BY <1>2, <1>4, SeqDef
<1>6. ASSUME Parts = 1, a # <<>> PROVE Len(a) = 1 /\ Head(a) = d
  <2>1. Len(a) <= 1 /\ \A k \in 1..Len(a) : a[k] = d
    BY <1>1, <1>6
  <2>2. Len(a) \in Nat /\ Len(a) > 0 /\ Head(a) = a[1]
    BY <1>2, <1>6
  <2>3. Len(a) = 1
    BY <2>1, <2>2
  <2> QED BY <2>1, <2>2, <2>3
<1> QED BY <1>5, <1>6 DEF a, d

LEMMA LadderKnown ==
  ASSUME OrdersInv, Ladder
  PROVE  KnownInv' /\ FitInv'
<1>1. TypeOK /\ KnownInv /\ FitInv
  BY DEF OrdersInv, TypeInv
<1>2. agenda # <<>> /\ Head(agenda).op = "ladder"
  BY DEF Ladder, Now
<1>3. live = {} /\ Rest = <<>> /\ active /\ ~exiting
  BY <1>1, <1>2, Ahead
<1> DEFINE qty == remaining \div Parts
<1>4. qty \in Nat /\ (Parts = 1 => qty = remaining)
  BY <1>1, Types, Division, LotAssumption
<1>5. /\ agenda' = LadderCalls(qty) \o <<>>
      /\ UNCHANGED <<live, fills, inbox, active, exiting, remaining, passive, kill>>
  BY <1>3 DEF Ladder, LadderCalls, exchangeVars, control
<1> HIDE DEF qty
<1>6. agenda' = LadderCalls(qty) /\ agenda' \in Seq(TpCalls)
  BY <1>4, <1>5, LadderOrders, ConcatEmptySeq
<1>7. LiveIds' = {}
  BY <1>3, <1>5 DEF LiveIds
<1>8. Gone(fills, LiveIds)' /\ Gone(inbox, LiveIds)'
  BY <1>7 DEF Gone
<1>9. /\ NoOrphans' /\ live' = {} /\ passive' = {} /\ kill' = KillOff
      /\ active' /\ ~exiting'
  BY <1>1, <1>3, <1>5, Known DEF NoOrphans
<1>10. KnownInv'
  BY <1>6, <1>8, <1>9 DEF KnownInv, Shape
<1>11. FitInv'
  <2>1. ASSUME Parts = 1, agenda' # <<>>
        PROVE  Len(agenda') = 1 /\ Head(agenda').qty <= remaining'
    <3>1. Len(agenda') = 1 /\ Head(agenda') = Creating("create", "tp", qty)
      BY <1>4, <1>6, <2>1, LadderOrders
    <3>2. Head(agenda').qty = remaining' /\ remaining' \in Nat
      BY <1>1, <1>4, <1>5, <2>1, <3>1, Types DEF Creating
    <3> QED BY <3>1, <3>2
  <2> QED BY <1>9, <2>1 DEF FitInv
<1> QED BY <1>10, <1>11

\* The ends of handlers; the executor has no passive exit to replenish or refresh.
LEMMA EndKnown ==
  ASSUME OrdersInv, Forget \/ Disarm \/ Replenish \/ Refreshed
  PROVE  KnownInv' /\ FitInv'
<1>1. TypeOK /\ KnownInv /\ FitInv
  BY DEF OrdersInv, TypeInv
<1> DEFINE c == Head(agenda)
<1>2. agenda # <<>> /\ c.op \in {"cleaned", "cleared", "reset", "disarm", "replenish", "refreshed"}
  BY DEF Forget, Disarm, Replenish, Refreshed, Now
<1>3. c.op \in {"cancel", "ladder", "cleaned", "reset", "disarm"} \cup Making
  BY <1>1, <1>2, Ahead
<1>4. c.op \in {"cleaned", "reset", "disarm"}
  <2> HIDE DEF c
  <2> QED BY <1>2, <1>3 DEF Making
<1>5. live = {} /\ Rest \in Seq(EndCalls)
  BY <1>1, <1>2, <1>4, Ahead
<1>6. /\ agenda' = Rest /\ UNCHANGED <<live, fills, inbox, kill>>
      /\ passive' \in {passive, {}}
  <2>1. ~Now("replenish") /\ ~Now("refreshed")
    BY <1>4 DEF Now
  <2> QED BY <2>1 DEF Forget, Disarm, Replenish, Refreshed, exchangeVars, control
<1>7. passive' = {}
  BY <1>1, <1>6, Known
<1>8. Gone(fills', {})
  BY DEF Gone
<1> QED BY <1>1, <1>5, <1>6, <1>7, <1>8, Ending

\* The attempts to place an order.
LEMMA AttemptKnown ==
  ASSUME OrdersInv, Undisturbed,
         \/ Oversized \/ SyncThenRetry \/ Refused
         \/ \E id \in OrderIds \cup {0} : Accepted(id) \/ AnswerLost(id)
  PROVE  KnownInv' /\ FitInv'
<1>1. TypeInv /\ TypeOK /\ KnownInv /\ FitInv
  BY DEF OrdersInv, TypeInv
<1> DEFINE c == Head(agenda)
<1>2. agenda # <<>> /\ c.op \in Making
  BY DEF Oversized, SyncThenRetry, Refused, Accepted, AnswerLost, Attempt, Now, Making
<1>3. \/ c.kind = "tp" /\ agenda \in Seq(TpCalls) /\ Rest \in Seq(TpCalls)
      \/ c.kind = "mkt" /\ live = {} /\ Rest \in Seq(EndCalls)
  BY <1>1, <1>2, Ahead
<1>4. c.qty \in Nat /\ c = Creating(c.op, c.kind, c.qty) /\ pos \in Nat /\ Rest \in Seq(Call)
  BY <1>1, <1>2, AttemptFacts, Types DEF Attempt, Now, Making
<1>5. passive = {} /\ kill = KillOff /\ ~Faults
  BY <1>1, Known DEF Undisturbed
<1> HIDE DEF c
<1>6. ASSUME c.kind = "mkt" PROVE KnownInv' /\ FitInv'
  <2>1. live = {} /\ Rest \in Seq(EndCalls)
    BY <1>3, <1>6
  <2>2. ASSUME NEW op \in Making, NEW qty \in Nat
        PROVE  <<Creating(op, c.kind, qty)>> \o Rest \in Seq(EndCalls)
    <3>1. Creating(op, "mkt", qty) \in EndCalls
      <4>1. Creating(op, "mkt", qty) \in Call
        BY CallTypes DEF Making
      <4> QED BY <4>1 DEF EndCalls, Creating, Making
    <3>2. <<Creating(op, c.kind, qty)>> \in Seq(EndCalls)
      BY <1>6, <3>1
    <3> QED BY <2>1, <3>2, ConcatProperties
  <2>3. /\ UNCHANGED <<live, inbox, kill>> /\ passive' = {}
        /\ agenda' \in Seq(EndCalls)
    <3>1. CASE Oversized
      <4>1. /\ agenda' = <<[c EXCEPT !.op = "sync"]>> \o Rest
            /\ UNCHANGED <<live, inbox, kill, passive>>
        BY <3>1 DEF Oversized, exchangeVars, barrierVars, control, c
      <4>2. [c EXCEPT !.op = "sync"] = Creating("sync", c.kind, c.qty)
        BY <1>4 DEF Creating
      <4> QED BY <1>4, <1>5, <2>2, <4>1, <4>2 DEF Making
    <3>2. CASE SyncThenRetry
      <4>1. /\ UNCHANGED <<live, inbox, kill, passive>>
            /\ amount' = pos
            /\ agenda' = IF amount' = 0 THEN Rest
                         ELSE <<Creating("retry", c.kind, Min2(c.qty, amount'))>> \o Rest
        BY <1>5, <3>2 DEF SyncThenRetry, exchangeVars, control, c
      <4>2. Min2(c.qty, amount') \in Nat
        BY <1>4, <4>1 DEF Min2
      <4> QED BY <1>5, <2>1, <2>2, <4>1, <4>2 DEF Making
    <3>3. CASE Refused
      <4>1. agenda' = Rest /\ UNCHANGED <<live, inbox, kill, passive>>
        BY <3>3 DEF Refused, exchangeVars, control
      <4> QED BY <1>5, <2>1, <4>1
    <3>4. ASSUME NEW id \in OrderIds \cup {0}, Accepted(id)
          PROVE  UNCHANGED <<live, inbox, kill>> /\ passive' = {} /\ agenda' \in Seq(EndCalls)
      <4>1. Effect(c, id) /\ agenda' = Rest /\ passive' = passive /\ UNCHANGED <<inbox, kill>>
        BY <1>6, <3>4 DEF Accepted, control, c
      <4>2. UNCHANGED live
        BY <1>6, <4>1 DEF Effect
      <4> QED BY <1>5, <2>1, <4>1, <4>2
    <3>5. ASSUME NEW id \in OrderIds \cup {0}, AnswerLost(id) PROVE FALSE
      BY <1>5, <3>5 DEF AnswerLost
    <3> QED BY <3>1, <3>2, <3>3, <3>4, <3>5
  <2>4. Gone(fills', {})
    BY DEF Gone
  <2> QED BY <1>1, <2>1, <2>3, <2>4, Ending
<1>7. ASSUME c.kind = "tp" PROVE KnownInv' /\ FitInv'
  <2>1. agenda \in Seq(TpCalls) /\ Rest \in Seq(TpCalls)
    BY <1>3, <1>7
  <2>2. ASSUME Parts = 1
        PROVE  /\ Rest = <<>> /\ live = {} /\ active /\ ~exiting
               /\ c.op # "sync" => c.qty <= remaining
    <3>1. /\ Len(agenda) = 1 /\ live = {} /\ active /\ ~exiting
          /\ c.op # "sync" => c.qty <= remaining
      BY <1>1, <1>2, <2>1, <2>2 DEF FitInv, c
    <3>2. Len(Rest) = 0
      BY <1>2, <2>1, <3>1, HeadTailProperties DEF Rest
    <3> QED BY <2>1, <3>1, <3>2, EmptySeq
  <2>3. ASSUME NEW op \in Making, NEW qty \in Nat,
               agenda' = <<Creating(op, c.kind, qty)>> \o Rest
        PROVE  /\ agenda' \in Seq(TpCalls)
               /\ Parts = 1 => Len(agenda') = 1 /\ Head(agenda') = Creating(op, c.kind, qty)
    <3> DEFINE d == Creating(op, c.kind, qty)
    <3>1. d \in TpCalls
      <4>1. Creating(op, "tp", qty) \in Call
        BY CallTypes DEF Making
      <4> QED BY <1>7, <4>1 DEF TpCalls, Creating, Making
    <3> HIDE DEF d
    <3>2. <<d>> \in Seq(TpCalls)
      BY <3>1
    <3>3. <<d>> \o Rest \in Seq(TpCalls)
      BY <2>1, <3>2, ConcatProperties
    <3>4. Parts = 1 => <<d>> \o Rest = <<d>>
      BY <2>2, <3>2, ConcatEmptySeq
    <3>5. Len(<<d>>) = 1 /\ Head(<<d>>) = d
      OBVIOUS
    <3> QED BY <2>3, <3>3, <3>4, <3>5 DEF d
  <2>4. ASSUME UNCHANGED <<live, fills, inbox, tps, passive, kill>>, agenda' \in Seq(TpCalls),
               Parts = 1 /\ agenda' # <<>> =>
                 /\ Len(agenda') = 1 /\ active' /\ ~exiting'
                 /\ Head(agenda').op # "sync" => Head(agenda').qty <= remaining'
        PROVE  KnownInv' /\ FitInv'
    <3>1. LiveIds' = LiveIds
      BY <2>4 DEF LiveIds
    <3>2. Gone(fills, LiveIds)' /\ Gone(inbox, LiveIds)'
      BY <1>1, <2>4, <3>1, Known DEF Gone
    <3>3. NoOrphans'
      BY <1>1, <2>4 DEF KnownInv, NoOrphans
    <3>4. KnownInv'
      BY <1>1, <2>4, <3>2, <3>3, Known DEF KnownInv, Shape
    <3>5. FitInv'
      <4>1. Parts = 1 => live' = {}
        BY <2>2, <2>4
      <4> QED BY <2>4, <4>1 DEF FitInv
    <3> QED BY <3>4, <3>5
  <2>5. CASE Oversized
    <3>1. /\ agenda' = <<[c EXCEPT !.op = "sync"]>> \o Rest
          /\ UNCHANGED <<live, fills, inbox, tps, passive, kill, active, exiting, remaining>>
      BY <2>5 DEF Oversized, exchangeVars, barrierVars, control, c
    <3>2. [c EXCEPT !.op = "sync"] = Creating("sync", c.kind, c.qty)
      BY <1>4 DEF Creating
    <3>3. agenda' = <<Creating("sync", c.kind, c.qty)>> \o Rest
      BY <3>1, <3>2
    <3>4. Creating("sync", c.kind, c.qty).op = "sync"
      BY DEF Creating
    <3>5. /\ agenda' \in Seq(TpCalls)
          /\ Parts = 1 => Len(agenda') = 1 /\ Head(agenda').op = "sync"
      BY <1>4, <2>3, <3>3, <3>4 DEF Making
    <3> QED BY <2>2, <2>4, <3>1, <3>5
  <2>6. CASE SyncThenRetry
    <3>1. /\ UNCHANGED <<live, fills, inbox, tps, passive, kill>>
          /\ amount' = pos /\ remaining' = amount'
          /\ IF amount' = 0 THEN agenda' = Rest
             ELSE /\ agenda' = <<Creating("retry", c.kind, Min2(c.qty, amount'))>> \o Rest
                  /\ UNCHANGED <<active, exiting>>
      BY <1>5, <2>6 DEF SyncThenRetry, exchangeVars, control, c
    <3>2. CASE amount' = 0
      BY <2>1, <2>2, <2>4, <3>1, <3>2
    <3>3. CASE amount' # 0
      <4> DEFINE qty == Min2(c.qty, amount')
      <4>1. qty \in Nat /\ qty <= remaining'
        BY <1>4, <3>1 DEF Min2
      <4> HIDE DEF qty
      <4>2. agenda' = <<Creating("retry", c.kind, qty)>> \o Rest
        BY <3>1, <3>3 DEF qty
      <4>3. Creating("retry", c.kind, qty).qty = qty
        BY DEF Creating
      <4>4. /\ agenda' \in Seq(TpCalls)
            /\ Parts = 1 => Len(agenda') = 1 /\ Head(agenda').qty = qty
        BY <2>3, <4>1, <4>2, <4>3 DEF Making
      <4> QED BY <2>2, <2>4, <3>1, <3>3, <4>1, <4>4
    <3> QED BY <3>2, <3>3
  <2>7. CASE Refused
    <3>1. /\ agenda' = Rest
          /\ UNCHANGED <<live, fills, inbox, tps, passive, kill>>
      BY <2>7 DEF Refused, exchangeVars, control
    <3> QED BY <2>1, <2>2, <2>4, <3>1
  <2>8. ASSUME NEW id \in OrderIds \cup {0}, Accepted(id) PROVE KnownInv' /\ FitInv'
    <3> DEFINE o == [id |-> id, kind |-> c.kind, qty |-> c.qty]
    <3>1. /\ Effect(c, id) /\ tps' = tps \cup {id} /\ passive' = passive /\ agenda' = Rest
          /\ c.op # "sync"
          /\ UNCHANGED <<inbox, active, exiting, remaining, kill>>
      BY <1>7, <2>8 DEF Accepted, Attempt, Now, control, c
    <3>2. Forgotten(id) /\ live' = live \cup {o} /\ UNCHANGED fills
      BY <1>7, <3>1 DEF Effect
    <3>3. o.id = id /\ o.qty = c.qty
      OBVIOUS
    <3> HIDE DEF o
    <3>4. id \notin LiveIds
      BY <3>2 DEF Forgotten, LiveIds
    <3>5. LiveIds' = LiveIds \cup {id}
      BY <3>2, <3>3 DEF LiveIds
    <3>6. ASSUME NEW q \in Seq(Fill), Gone(q, LiveIds), \A k \in DOMAIN q : q[k].id # id
          PROVE  Gone(q, LiveIds')
      BY <3>5, <3>6, LenProperties DEF Gone
    <3>7. Gone(fills, LiveIds') /\ Gone(inbox, LiveIds')
      BY <1>1, <3>2, <3>6, Known, Types DEF Forgotten
    <3>8. Gone(fills, LiveIds)' /\ Gone(inbox, LiveIds)'
      BY <3>1, <3>2, <3>7 DEF Gone
    <3>9. NoOrphans'
      BY <1>1, <3>1, <3>2, <3>3 DEF KnownInv, NoOrphans
    <3>10. \A p, r \in live' : p.id = r.id => p = r
      BY <1>1, <3>2, <3>3, <3>4, Known DEF LiveIds
    <3>11. Shape'
      BY <2>1, <3>1 DEF Shape
    <3>12. KnownInv'
      BY <1>5, <3>1, <3>8, <3>9, <3>10, <3>11 DEF KnownInv
    <3>13. FitInv'
      BY <2>2, <3>1, <3>2, <3>3 DEF FitInv
    <3> QED BY <3>12, <3>13
  <2>9. ASSUME NEW id \in OrderIds \cup {0}, AnswerLost(id) PROVE FALSE
    BY <1>5, <2>9 DEF AnswerLost
  <2> QED BY <2>5, <2>6, <2>7, <2>8, <2>9
<1> QED BY <1>3, <1>6, <1>7

-----------------------------------------------------------------------------
(* What the runs check *)

LEMMA OrdersInit == Init => OrdersInv
<1> SUFFICES ASSUME Init PROVE OrdersInv
  OBVIOUS
<1>1. /\ live = {} /\ fills = <<>> /\ inbox = <<>> /\ agenda = <<>>
      /\ passive = {} /\ kill = KillOff
  BY DEF Init
<1>2. /\ NoOrphans /\ Shape /\ LiveIds = {}
  BY <1>1 DEF NoOrphans, Shape, LiveIds
<1>3. KnownInv
  BY <1>1, <1>2 DEF KnownInv, Gone
<1>4. FitInv
  BY <1>1 DEF FitInv
<1> QED BY <1>3, <1>4, TypeInit DEF OrdersInv

LEMMA OrdersNext ==
  ASSUME Undisturbed
  PROVE  OrdersInv /\ [Next]_vars => OrdersInv'
<1> SUFFICES ASSUME OrdersInv, [Next]_vars PROVE KnownInv' /\ FitInv'
  BY TypeNext DEF OrdersInv
<1>1. TypeOK /\ KnownInv /\ FitInv
  BY DEF OrdersInv, TypeInv
<1>2. ASSUME \/ \E kind \in {"quote", "pyramid"}, qty \in EntryLots : Enter(kind, qty)
             \/ OnFill \/ LoseFill \/ SyncTracker
      PROVE  KnownInv' /\ FitInv'
  BY <1>2, EventKnown
<1>3. ASSUME NEW o \in live, NEW qty \in 1..MaxPos, FillResting(o, qty)
      PROVE  KnownInv' /\ FitInv'
  BY <1>3, FillKnown
<1>4. ASSUME HandleFill PROVE KnownInv' /\ FitInv'
  BY <1>4, HandleKnown
<1>5. ASSUME BreachTick \/ TimeLimitTick \/ PassiveTimeoutTick \/ ReconcileBarrier
      PROVE  KnownInv' /\ FitInv'
  BY <1>5, WatchKnown
<1>6. ASSUME Continue PROVE KnownInv' /\ FitInv'
  <2>1. CancelNext => KnownInv' /\ FitInv'
    BY CancelKnown
  <2>2. Ladder => KnownInv' /\ FitInv'
    BY LadderKnown
  <2>3. Forget \/ Disarm \/ Replenish \/ Refreshed => KnownInv' /\ FitInv'
    BY EndKnown
  <2>4. \/ Oversized \/ SyncThenRetry \/ Refused
        \/ \E id \in OrderIds \cup {0} : Accepted(id) \/ AnswerLost(id)
        => KnownInv' /\ FitInv'
    BY AttemptKnown
  <2> QED BY <1>6, <2>1, <2>2, <2>3, <2>4 DEF Continue
<1>7. ASSUME KillBegin \/ KillStep PROVE FALSE
  <2>1. kill = KillOff
    BY <1>1, Known
  <2> QED BY <1>7, <2>1 DEF KillBegin, KillStep, KillDisarm, KillClose, KillCancel, KillOff,
                            Undisturbed
<1>8. ASSUME Restart PROVE FALSE
  BY <1>1, <1>8, Types DEF Restart, Undisturbed
<1>9. ASSUME UNCHANGED vars PROVE KnownInv' /\ FitInv'
  <2>1. /\ UNCHANGED <<live, active, exiting, remaining, tps, passive, agenda, kill>>
        /\ UNCHANGED <<fills, inbox>>
    BY <1>9 DEF vars, exchangeVars, barrierVars, control
  <2>2. Gone(fills', LiveIds) /\ Gone(inbox', LiveIds)
    BY <1>1, <2>1, Known
  <2> QED BY <1>1, <2>1, <2>2, Quiet
<1> QED BY <1>2, <1>3, <1>4, <1>5, <1>6, <1>7, <1>8, <1>9 DEF Next

\* While orders fill whole, calls succeed, no time limit is configured and the
\* program is neither killed nor restarted, every exit order that rests at the
\* exchange is known to the executor in every state between two of its gateway
\* calls, for any number of take-profit levels: a handler that forgets its take
\* profits has cancelled each of them first.
THEOREM OrdersKnown ==
  ASSUME Undisturbed
  PROVE  Spec => []NoOrphans
<1>1. OrdersInv => NoOrphans
  BY DEF OrdersInv, KnownInv
<1> QED BY <1>1, OrdersInit, OrdersNext, PTL DEF Spec
\* The sum of WithinRemaining over no order and over one.  MapThenSumSet folds with a
\* recursive function that CHOOSE picks; the function it must be is exhibited.
LEMMA SumEmpty == MapThenSumSet(LAMBDA o : o.qty, {}) = 0
<1> DEFINE F(g) == [s \in SUBSET {} |-> IF s = {} THEN 0
                      ELSE LET x == CHOOSE y \in s : TRUE IN x.qty + g[s \ {x}]]
           iter == CHOOSE g : g = F(g)
<1>1. MapThenSumSet(LAMBDA o : o.qty, {}) = iter[{}]
  BY DEF MapThenSumSet, MapThenFoldSet
<1>2. \E g : g = F(g)
  <2>1. F([s \in SUBSET {} |-> 0]) = [s \in SUBSET {} |-> 0]
    OBVIOUS
  <2> QED BY <2>1
<1>3. iter = F(iter)
  <2> HIDE DEF F
  <2> QED BY <1>2
<1> HIDE DEF iter
<1>4. F(iter)[{}] = 0
  OBVIOUS
<1> HIDE DEF F
<1> QED BY <1>1, <1>3, <1>4

LEMMA SumOne ==
  ASSUME NEW o, o.qty \in Nat
  PROVE  MapThenSumSet(LAMBDA p : p.qty, {o}) = o.qty
<1> DEFINE F(g) == [s \in SUBSET {o} |-> IF s = {} THEN 0
                      ELSE LET x == CHOOSE y \in s : TRUE IN x.qty + g[s \ {x}]]
           iter == CHOOSE g : g = F(g)
           g0 == [s \in SUBSET {o} |-> IF s = {} THEN 0 ELSE o.qty]
<1>1. MapThenSumSet(LAMBDA p : p.qty, {o}) = iter[{o}]
  BY DEF MapThenSumSet, MapThenFoldSet
<1>2. \A s \in SUBSET {o} : s = {} \/ s = {o}
  OBVIOUS
<1>3. (CHOOSE y \in {o} : TRUE) = o /\ {o} \ {o} = {} /\ {o} # {}
  OBVIOUS
<1>4. \A g : F(g) = [s \in SUBSET {o} |-> IF s = {} THEN 0 ELSE o.qty + g[{}]]
  BY <1>2, <1>3
<1> HIDE DEF F
<1>5. g0[{}] = 0
  OBVIOUS
<1>6. F(g0) = g0
  BY <1>4, <1>5
<1> HIDE DEF g0
<1>7. \E g : g = F(g)
  BY <1>6
<1>8. iter = F(iter)
  BY <1>7
<1> HIDE DEF iter
<1>9. iter[{}] = 0 /\ iter[{o}] = o.qty + iter[{}]
  BY <1>4, <1>8
<1> QED BY <1>1, <1>9

\* Under the same conditions, and with one take-profit level, what rests while no
\* handler runs never closes more than the size the barrier guards, although fills
\* and reconciles change that size at any moment.
THEOREM LadderFits ==
  ASSUME Undisturbed, Parts = 1
  PROVE  Spec => []WithinRemaining
<1>1. OrdersInv => WithinRemaining
  <2> SUFFICES ASSUME OrdersInv, LockFree
               PROVE  MapThenSumSet(LAMBDA o : o.qty, live) <= remaining
    BY DEF WithinRemaining
  <2>1. /\ \A o, p \in live : o = p
        /\ \A o \in live : o.qty <= remaining
    BY DEF OrdersInv, FitInv, LockFree
  <2>2. live \subseteq Order /\ remaining \in Nat
    BY Types DEF OrdersInv, TypeInv
  <2>3. CASE live = {}
    BY <2>2, <2>3, SumEmpty
  <2>4. ASSUME NEW o \in live
        PROVE  MapThenSumSet(LAMBDA p : p.qty, live) <= remaining
    <3>1. live = {o} /\ o.qty \in Nat /\ o.qty <= remaining
      BY <2>1, <2>2 DEF Order
    <3> QED BY <3>1, SumOne
  <2> QED BY <2>3, <2>4
<1> QED BY <1>1, OrdersInit, OrdersNext, PTL DEF Spec
=============================================================================
