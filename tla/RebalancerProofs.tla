-------------------------- MODULE RebalancerProofs --------------------------
(***************************************************************************)
(* Theorems about Screener and Rebalancer, for every list of markets, every *)
(* profile and every number of slots: the ranking lists each qualified      *)
(* market once and the better first; promotions keep to the slots; a cycle  *)
(* does not promote what it drained for its rank.                           *)
(***************************************************************************)
EXTENDS Rebalancer, FiniteSetTheorems, SequenceTheorems, TLAPS

-----------------------------------------------------------------------------
(* The ranking *)

LEMMA SymbolsFinite ==
  /\ IsFiniteSet(Symbols) /\ Markets[1] \in Symbols
  /\ \A s \in Symbols : Place(s) \in Nat /\ Markets[Place(s)] = s
<1>1. /\ Len(Markets) \in Nat /\ DOMAIN Markets = 1..Len(Markets) /\ Len(Markets) > 0
      /\ Markets \in [1..Len(Markets) -> Symbols]
  BY MarketsAssumption, LenProperties DEF Symbols
<1>2. IsFiniteSet(1..Len(Markets))
  BY <1>1, FS_Interval
<1>3. Markets \in Surjection(1..Len(Markets), Symbols)
  BY <1>1 DEF Surjection, Symbols
<1>4. IsFiniteSet(Symbols)
  BY <1>2, <1>3, FS_Surjection
<1>5. Markets[1] \in Symbols
  BY <1>1 DEF Symbols
<1>6. \A s \in Symbols : Place(s) \in Nat /\ Markets[Place(s)] = s
  BY <1>1 DEF Symbols, Place
<1> QED BY <1>4, <1>5, <1>6

LEMMA ClampType ==
  ASSUME NEW lo \in Int, NEW n \in Int, NEW hi \in Int
  PROVE  Clamp(lo, n, hi) \in Int /\ (lo <= hi => Clamp(lo, n, hi) \in lo..hi)
BY DEF Clamp

LEMMA Division == \A n \in Int, d \in Nat \ {0} : n \div d \in Int
OBVIOUS

\* Scores are numbers, so that markets can be compared.
LEMMA ScoreType ==
  ASSUME NEW m \in MarketMetric
  PROVE  compute_pmm_composite_score(m) \in Int
<1>1. /\ m.volume \in Int /\ m.natr \in Int /\ m.hurst \in Int /\ m.depth \in Int
      /\ m.funding \in Int
  BY DEF MarketMetric
<1>2. score_mean_reversion(m.hurst) \in Int
  <2>1. (10000 * (46 - m.hurst)) \div 11 \in Int
    BY <1>1, Division
  <2> QED BY <2>1, ClampType DEF score_mean_reversion
<1>3. score_natr_volatility(m.natr) \in Int
  <2>1. (10000 * (180 - m.natr)) \div 30 \in Int
    BY <1>1, Division
  <2> QED BY <1>1, <2>1 DEF score_natr_volatility
<1>4. Depth(m) \in Int
  <2>1. Clamp(50, m.volume, 500) \in Int
    BY <1>1 DEF Clamp
  <2> QED BY <1>1, <2>1 DEF Depth
<1>5. score_liquidity(m.volume, Depth(m)) \in Int
  <2> DEFINE volume == (5000 * (m.volume - 20)) \div 180
             depth  == (3000 * (Depth(m) - 50)) \div 150
  <2>1. volume \in Int /\ depth \in Int
    BY <1>1, <1>4, Division
  <2> HIDE DEF volume, depth
  <2>2. Clamp(0, 5000 + volume, 10000) \in Int /\ Clamp(0, 7000 + depth, 10000) \in Int
    BY <2>1, ClampType
  <2> DEFINE byVolume == IF m.volume < 20 THEN 250 * m.volume ELSE Clamp(0, 5000 + volume, 10000)
             byDepth  == IF Depth(m) < 50 THEN 140 * Depth(m) ELSE Clamp(0, 7000 + depth, 10000)
  <2>3. byVolume \in Int /\ byDepth \in Int
    BY <1>1, <1>4, <2>2
  <2>4. score_liquidity(m.volume, Depth(m)) = (byVolume + byDepth) \div 2
    BY DEF score_liquidity, volume, depth
  <2> HIDE DEF byVolume, byDepth
  <2> QED BY <2>3, <2>4, Division
<1>6. score_funding_rate(m.funding) \in Int
  <2> DEFINE size == IF m.funding < 0 THEN -m.funding ELSE m.funding
             part == (10000 * (100 - size)) \div 90
  <2>1. size \in Int
    BY <1>1
  <2>2. score_funding_rate(m.funding) = Clamp(0, part, 10000)
    BY DEF score_funding_rate
  <2> HIDE DEF size
  <2>3. part \in Int
    BY <2>1, Division
  <2> HIDE DEF part
  <2> QED BY <2>2, <2>3, ClampType
<1> QED BY <1>2, <1>3, <1>5, <1>6, Division DEF compute_pmm_composite_score

\* Before orders the markets strictly and totally.
LEMMA BeforeOrder ==
  ASSUME NEW f \in [Symbols -> MarketMetric],
         NEW s \in Symbols, NEW t \in Symbols, NEW u \in Symbols
  PROVE  /\ ~Before(f, s, s)
         /\ Before(f, s, t) /\ Before(f, t, u) => Before(f, s, u)
         /\ s # t => Before(f, s, t) \/ Before(f, t, s)
         /\ Before(f, s, t) => Score(f, s) >= Score(f, t)
<1>1. /\ Score(f, s) \in Int /\ Score(f, t) \in Int /\ Score(f, u) \in Int
  BY ScoreType DEF Score
<1>2. /\ Place(s) \in Nat /\ Place(t) \in Nat /\ Place(u) \in Nat
      /\ s # t => Place(s) # Place(t)
  BY SymbolsFinite
<1> QED BY <1>1, <1>2 DEF Before

\* How many of S are ahead of s.
Better(f, S, s) == {t \in S : Before(f, t, s)}

\* Every rank of a set of markets is taken by one of them.
LEMMA RankTaken ==
  ASSUME NEW f \in [Symbols -> MarketMetric], NEW S \in SUBSET Symbols
  PROVE  /\ IsFiniteSet(S) /\ Cardinality(S) \in Nat
         /\ \A s, t \in S : Before(f, s, t) =>
              Cardinality(Better(f, S, s)) < Cardinality(Better(f, S, t))
         /\ \A r \in 1..Cardinality(S) : \E s \in S : Cardinality(Better(f, S, s)) = r - 1
<1> DEFINE n == Cardinality(S)
           rank == [s \in S |-> Cardinality(Better(f, S, s))]
<1>1. IsFiniteSet(S) /\ n \in Nat
  BY SymbolsFinite, FS_Subset, FS_CardinalityType
<1>2. ASSUME NEW s \in S
      PROVE  /\ IsFiniteSet(Better(f, S, s))
             /\ Cardinality(Better(f, S, s)) \in 0..(n - 1)
  <2>1. Better(f, S, s) \subseteq S \ {s}
    BY BeforeOrder DEF Better
  <2>2. IsFiniteSet(S \ {s}) /\ Cardinality(S \ {s}) = n - 1
    BY <1>1, FS_RemoveElement
  <2>3. /\ IsFiniteSet(Better(f, S, s))
        /\ Cardinality(Better(f, S, s)) <= n - 1
    BY <2>1, <2>2, FS_Subset
  <2> QED BY <1>1, <2>3, FS_CardinalityType
<1>3. ASSUME NEW s \in S, NEW t \in S, Before(f, s, t)
      PROVE  Cardinality(Better(f, S, s)) < Cardinality(Better(f, S, t))
  <2>1. Better(f, S, s) \cup {s} \subseteq Better(f, S, t) /\ s \notin Better(f, S, s)
    BY <1>3, BeforeOrder DEF Better
  <2>2. Cardinality(Better(f, S, s) \cup {s}) = Cardinality(Better(f, S, s)) + 1
    BY <1>2, <2>1, FS_AddElement
  <2>3. Cardinality(Better(f, S, s) \cup {s}) <= Cardinality(Better(f, S, t))
    BY <1>2, <2>1, FS_Subset
  <2> QED BY <1>2, <2>2, <2>3
<1>4. rank \in Injection(S, 0..(n - 1))
  <2>1. rank \in [S -> 0..(n - 1)]
    BY <1>2
  <2>2. \A s, t \in S : s # t => rank[s] # rank[t]
    <3> SUFFICES ASSUME NEW s \in S, NEW t \in S, s # t PROVE rank[s] # rank[t]
      OBVIOUS
    <3>1. Before(f, s, t) \/ Before(f, t, s)
      BY BeforeOrder
    <3> QED BY <1>2, <1>3, <3>1
  <2> QED BY <2>1, <2>2 DEF Injection, IsInjective
<1>5. IsFiniteSet(0..(n - 1)) /\ Cardinality(0..(n - 1)) = n
  BY <1>1, FS_Interval
<1>6. rank \in Surjection(S, 0..(n - 1))
  BY <1>4, <1>5, FS_Injection
<1>7. \A r \in 1..n : \E s \in S : rank[s] = r - 1
  <2>1. \A k \in 0..(n - 1) : \E s \in S : rank[s] = k
    BY <1>6 DEF Surjection
  <2>2. \A r \in 1..n : r - 1 \in 0..(n - 1)
    BY <1>1
  <2> HIDE DEF rank
  <2> QED BY <2>1, <2>2
<1> QED BY <1>1, <1>3, <1>7

\* The candidates of a scan: each qualified market once, each ahead of the next.
LEMMA Ranked ==
  ASSUME NEW f \in [Symbols -> MarketMetric]
  PROVE  LET ranked == scan_and_rank_all_pairs(f) IN
         /\ ranked \in Seq(Symbols)
         /\ {ranked[i] : i \in DOMAIN ranked} = {s \in Symbols : Qualified(f[s])}
         /\ \A i, j \in DOMAIN ranked : i < j => Before(f, ranked[i], ranked[j])
<1> DEFINE found  == {s \in Symbols : Qualified(f[s])}
           n      == Cardinality(found)
           ahead(s) == Cardinality(Better(f, found, s))
           ranked == scan_and_rank_all_pairs(f)
<1>1. found \in SUBSET Symbols
  OBVIOUS
<1> HIDE DEF found
<1>2. /\ n \in Nat
      /\ \A s, t \in found : Before(f, s, t) => ahead(s) < ahead(t)
      /\ \A r \in 1..n : \E s \in found : ahead(s) = r - 1
      /\ IsFiniteSet(found)
  BY <1>1, RankTaken
<1>3. ranked = [r \in 1..n |-> CHOOSE s \in found : ahead(s) = r - 1]
  BY DEF scan_and_rank_all_pairs, Better, found
<1>4. \A r \in 1..n : ranked[r] \in found /\ ahead(ranked[r]) = r - 1
  BY <1>2, <1>3
<1>5. DOMAIN ranked = 1..n
  BY <1>3
<1>6. ranked \in [1..n -> Symbols]
  BY <1>1, <1>3, <1>4
<1>7. ranked \in Seq(Symbols)
  BY <1>2, <1>6, SeqDef
<1> HIDE DEF ranked
<1>8. \A i, j \in 1..n : i < j => Before(f, ranked[i], ranked[j])
  <2> SUFFICES ASSUME NEW i \in 1..n, NEW j \in 1..n, i < j
               PROVE  Before(f, ranked[i], ranked[j])
    OBVIOUS
  <2>1. /\ ranked[i] \in found /\ ranked[j] \in found
        /\ ahead(ranked[i]) = i - 1 /\ ahead(ranked[j]) = j - 1
    BY <1>4
  <2>2. ranked[i] # ranked[j]
    BY <1>2, <2>1
  <2>3. Before(f, ranked[i], ranked[j]) \/ Before(f, ranked[j], ranked[i])
    BY <1>1, <2>1, <2>2, BeforeOrder
  <2> QED BY <1>2, <1>4, <2>1, <2>3
<1>9. \A s \in found : \E r \in 1..n : ranked[r] = s
  <2> SUFFICES ASSUME NEW s \in found PROVE \E r \in 1..n : ranked[r] = s
    OBVIOUS
  <2>1. ahead(s) \in 0..(n - 1)
    <3>1. Better(f, found, s) \subseteq found \ {s}
      BY <1>1, BeforeOrder DEF Better
    <3>2. IsFiniteSet(found \ {s}) /\ Cardinality(found \ {s}) = n - 1
      BY <1>2, FS_RemoveElement
    <3> QED BY <1>2, <3>1, <3>2, FS_Subset, FS_CardinalityType
  <2>2. ahead(s) + 1 \in 1..n /\ ahead(ranked[ahead(s) + 1]) = ahead(s)
    BY <1>2, <1>4, <2>1
  <2>3. ranked[ahead(s) + 1] \in found
    BY <1>4, <2>2
  <2>4. ranked[ahead(s) + 1] = s
    <3> SUFFICES ASSUME ranked[ahead(s) + 1] # s PROVE FALSE
      OBVIOUS
    <3> DEFINE t == ranked[ahead(s) + 1]
    <3>1. Before(f, s, t) \/ Before(f, t, s)
      BY <1>1, <2>3, BeforeOrder
    <3> QED BY <1>2, <2>1, <2>2, <2>3, <3>1
  <2> QED BY <2>2, <2>4
<1> QED BY <1>4, <1>5, <1>7, <1>8, <1>9 DEF ranked, found

-----------------------------------------------------------------------------
(* Types and slots *)

Worker == [known : BOOLEAN, enabled : BOOLEAN, draining : BOOLEAN, running : BOOLEAN,
           locked : BOOLEAN, pos : BOOLEAN, quotes : BOOLEAN]

\* A locked pair is registered, as is the one the cycle starts, for which a slot is left.
TypeInv ==
  /\ TypeOK
  /\ \A s \in Symbols : worker[s].locked => worker[s].known
  /\ pc = "starting" => worker[at].known /\ free > 0

\* A pair in state w takes a slot.
Takes(w) == w.enabled /\ (w.draining => w.pos)

LEMMA OccupiedType ==
  ASSUME NEW w
  PROVE  /\ Occupied(w) = Cardinality({s \in Symbols : Takes(w[s])})
         /\ IsFiniteSet({s \in Symbols : Takes(w[s])}) /\ Occupied(w) \in Nat
<1>1. {s \in Symbols : Takes(w[s])} \subseteq Symbols
  OBVIOUS
<1>2. /\ IsFiniteSet({s \in Symbols : Takes(w[s])})
      /\ Cardinality({s \in Symbols : Takes(w[s])}) \in Nat
  BY <1>1, SymbolsFinite, FS_Subset, FS_CardinalityType
<1> QED BY <1>2 DEF Occupied, Takes

\* Pairs that take no new slot.
LEMMA OccupiedLess ==
  ASSUME NEW w, NEW v, \A s \in Symbols : Takes(v[s]) => Takes(w[s])
  PROVE  Occupied(v) <= Occupied(w)
<1> DEFINE W == {s \in Symbols : Takes(w[s])}
           V == {s \in Symbols : Takes(v[s])}
<1>1. V \subseteq W
  OBVIOUS
<1>2. IsFiniteSet(W) /\ Occupied(w) = Cardinality(W) /\ Occupied(v) = Cardinality(V)
  BY OccupiedType
<1> HIDE DEF V, W
<1> QED BY <1>1, <1>2, FS_Subset

\* One pair changes: it may take one slot.
LEMMA OccupiedOne ==
  ASSUME NEW w, NEW v, NEW s \in Symbols, \A t \in Symbols \ {s} : v[t] = w[t]
  PROVE  /\ Occupied(v) <= Occupied(w) + 1
         /\ Takes(v[s]) /\ ~Takes(w[s]) => Occupied(v) = Occupied(w) + 1
<1> DEFINE W == {t \in Symbols : Takes(w[t])}
           V == {t \in Symbols : Takes(v[t])}
<1>1. /\ IsFiniteSet(W) /\ IsFiniteSet(V) /\ Occupied(w) = Cardinality(W)
      /\ Occupied(v) = Cardinality(V) /\ Cardinality(W) \in Nat /\ Cardinality(V) \in Nat
  BY OccupiedType
<1>2. V \subseteq W \cup {s} /\ (Takes(v[s]) /\ ~Takes(w[s]) => V = W \cup {s} /\ s \notin W)
  OBVIOUS
<1> HIDE DEF V, W
<1>3. /\ IsFiniteSet(W \cup {s})
      /\ Cardinality(W \cup {s}) = IF s \in W THEN Cardinality(W) ELSE Cardinality(W) + 1
  BY <1>1, FS_AddElement
<1>4. Cardinality(V) <= Cardinality(W \cup {s})
  BY <1>2, <1>3, FS_Subset
<1> QED BY <1>1, <1>2, <1>3, <1>4

\* What others may do of the cycle's business while it awaits.
BesideKeeps ==
  /\ Awaiting /\ UNCHANGED cycle
  /\ worker' \in [Symbols -> Worker]
  /\ \A s \in Symbols : /\ worker'[s].running \/ worker'[s].locked => worker'[s].known
                        /\ worker[s].known => worker'[s].known
                        /\ worker[s].draining => worker'[s].draining
  /\ connected' \in BOOLEAN /\ tripped' \in BOOLEAN /\ ops' \in 0..MaxOps
  /\ beside' \in Nat /\ beside <= beside'
  /\ pc = "starting" =>
       /\ Occupied(worker') + beside <= Occupied(worker) + beside'
       /\ beside' = 0 => \A s \in Symbols : Active(s)' => Active(s)

\* One pair is changed by others.
LEMMA OnePair ==
  ASSUME TypeInv, NEW s \in Symbols, NEW v \in Worker, NEW cost \in {0, 1},
         Beside([worker EXCEPT ![s] = v], cost),
         v.running \/ v.locked => v.known, v.known = worker[s].known,
         worker[s].draining => v.draining
  PROVE  BesideKeeps
<1> DEFINE w == [worker EXCEPT ![s] = v]
<1>1. worker \in [Symbols -> Worker] /\ beside \in Nat /\ ops \in 0..MaxOps /\ MaxOps \in Nat
      /\ connected \in BOOLEAN /\ tripped \in BOOLEAN
  BY SlotsAssumption DEF TypeInv, TypeOK, Worker
<1>2. w \in [Symbols -> Worker] /\ w[s] = v /\ \A t \in Symbols \ {s} : w[t] = worker[t]
  BY <1>1
<1>3. /\ Awaiting /\ UNCHANGED <<connected, tripped, cycle>> /\ worker' = w
      /\ ops >= cost /\ ops' = ops - cost
      /\ beside' = IF pc = "starting" /\ Occupied(w) > Occupied(worker)
                   THEN beside + Occupied(w) - Occupied(worker) ELSE beside
  BY DEF Beside
<1> HIDE DEF w
<1>4. Occupied(w) \in Nat /\ Occupied(worker) \in Nat
  BY OccupiedType
<1>5. /\ beside' \in Nat /\ beside <= beside'
      /\ pc = "starting" => Occupied(w) + beside <= Occupied(worker) + beside'
      /\ pc = "starting" /\ beside' = 0 => Occupied(w) <= Occupied(worker)
  BY <1>1, <1>3, <1>4
<1>6. ASSUME pc = "starting", beside' = 0, NEW t \in Symbols, Active(t)'
      PROVE  Active(t)
  <2>1. w[t].enabled /\ ~w[t].draining
    BY <1>3, <1>6 DEF Active
  <2>2. CASE t # s
    BY <1>2, <2>1, <2>2 DEF Active
  <2>3. CASE t = s /\ ~Active(t)
    <3>1. Takes(w[s]) /\ ~Takes(worker[s])
      BY <1>1, <1>2, <2>1, <2>3 DEF Active, Takes, Worker
    <3>2. Occupied(w) = Occupied(worker) + 1
      BY <1>2, <3>1, OccupiedOne
    <3> QED BY <1>4, <1>5, <1>6, <3>2
  <2> QED BY <2>2, <2>3
<1>7. \A t \in Symbols : /\ w[t].running \/ w[t].locked => w[t].known
                         /\ worker[t].known => w[t].known
                         /\ worker[t].draining => w[t].draining
  BY <1>1, <1>2 DEF TypeInv, TypeOK
<1>8. ops' \in 0..MaxOps
  BY <1>1, <1>3
<1> QED BY <1>1, <1>2, <1>3, <1>5, <1>6, <1>7, <1>8 DEF BesideKeeps

\* Trades, the operator, the kill switch of a pair.
LEMMA PairSteps ==
  ASSUME TypeInv, NEW s \in Symbols,
         \/ Quoted(s) \/ Filled(s) \/ Cancelled(s) \/ Closed(s)
         \/ StartPair(s) \/ StopPair(s) \/ DrainPair(s) \/ Lock(s) \/ Unlock(s)
  PROVE  BesideKeeps
<1>1. /\ worker \in [Symbols -> Worker] /\ worker[s] \in Worker
      /\ worker[s].running \/ worker[s].locked => worker[s].known
  BY DEF TypeInv, TypeOK, Worker
<1> DEFINE Changes(v, cost) ==
             /\ Beside([worker EXCEPT ![s] = v], cost)
             /\ v \in Worker /\ v.known = worker[s].known
             /\ v.running \/ v.locked => v.known
             /\ worker[s].draining => v.draining
<1>2. ASSUME NEW v, NEW cost \in {0, 1}, Changes(v, cost)
      PROVE  BesideKeeps
  BY <1>2, OnePair
<1> DEFINE x == worker[s]
<1>3. CASE Quoted(s)
  <2>1. Changes([x EXCEPT !.quotes = TRUE], 0)
    BY <1>1, <1>3 DEF Quoted, Worker
  <2> QED BY <1>2, <2>1
<1>4. CASE Filled(s)
  <2>1. Changes([x EXCEPT !.pos = TRUE, !.quotes = FALSE], 0)
    BY <1>1, <1>4 DEF Filled, Worker
  <2> QED BY <1>2, <2>1
<1>5. CASE Cancelled(s)
  <2>1. Changes([x EXCEPT !.quotes = FALSE], 0)
    BY <1>1, <1>5 DEF Cancelled, Worker
  <2> QED BY <1>2, <2>1
<1>6. CASE Closed(s)
  <2>1. Changes([x EXCEPT !.pos = FALSE], 0)
    BY <1>1, <1>6 DEF Closed, Worker
  <2> QED BY <1>2, <2>1
<1>7. CASE StartPair(s)
  <2>1. Changes([x EXCEPT !.enabled = TRUE, !.running = @ \/ ~x.locked], 1)
    BY <1>1, <1>7 DEF StartPair, Worker
  <2> QED BY <1>2, <2>1
<1>8. CASE StopPair(s)
  <2>1. Changes([x EXCEPT !.enabled = FALSE, !.running = FALSE, !.quotes = FALSE], 1)
    BY <1>1, <1>8 DEF StopPair, Worker
  <2> QED BY <1>2, <2>1
<1>9. CASE DrainPair(s)
  <2>1. CASE x.pos
    <3>1. Changes([x EXCEPT !.draining = TRUE], 1)
      BY <1>1, <1>9, <2>1 DEF DrainPair, Worker
    <3> QED BY <1>2, <3>1
  <2>2. CASE ~x.pos
    <3>1. Changes([x EXCEPT !.draining = TRUE, !.enabled = FALSE, !.running = FALSE,
                            !.quotes = FALSE], 1)
      BY <1>1, <1>9, <2>2 DEF DrainPair, Worker
    <3> QED BY <1>2, <3>1
  <2> QED BY <2>1, <2>2
<1>10. CASE Lock(s)
  <2>1. PICK held \in {x.pos, FALSE} :
          Beside([worker EXCEPT ![s].locked = TRUE, ![s].enabled = FALSE, ![s].running = FALSE,
                                ![s].pos = held, ![s].quotes = FALSE], 1)
    BY <1>10 DEF Lock
  <2>2. x.known
    BY <1>1, <1>10 DEF Lock, TypeInv
  <2>3. Changes([x EXCEPT !.locked = TRUE, !.enabled = FALSE, !.running = FALSE, !.pos = held,
                          !.quotes = FALSE], 1)
    BY <1>1, <2>1, <2>2 DEF Worker
  <2> QED BY <1>2, <2>3
<1>11. CASE Unlock(s)
  <2>1. Changes([x EXCEPT !.locked = FALSE, !.enabled = TRUE, !.running = TRUE], 0)
    BY <1>1, <1>11 DEF Unlock, Worker
  <2> QED BY <1>2, <2>1
<1> QED BY <1>3, <1>4, <1>5, <1>6, <1>7, <1>8, <1>9, <1>10, <1>11

\* The breaker and the connection.
LEMMA AccountSteps ==
  ASSUME TypeInv, Trip \/ Reset \/ Disconnect \/ Connect
  PROVE  BesideKeeps
<1>1. /\ worker \in [Symbols -> Worker] /\ beside \in Nat /\ ops \in 0..MaxOps
      /\ connected \in BOOLEAN /\ tripped \in BOOLEAN /\ MaxOps \in Nat
      /\ \A s \in Symbols : worker[s].running \/ worker[s].locked => worker[s].known
  BY SlotsAssumption DEF TypeInv, TypeOK, Worker
<1>2. Occupied(worker) \in Nat /\ Occupied(worker') \in Nat
  BY OccupiedType
<1>3. CASE Trip
  <2>1. /\ worker' \in [Symbols -> Worker]
        /\ \A s \in Symbols : /\ worker'[s].running = FALSE /\ worker'[s].pos = FALSE
                              /\ worker'[s].enabled = worker[s].enabled
                              /\ worker'[s].draining = worker[s].draining
                              /\ worker'[s].known = worker[s].known
                              /\ worker'[s].locked = worker[s].locked
    BY <1>1, <1>3 DEF Trip, Worker
  <2>2. Occupied(worker') <= Occupied(worker)
    BY <2>1, OccupiedLess DEF Takes
  <2>3. /\ Awaiting /\ UNCHANGED <<connected, cycle, beside>> /\ tripped' = TRUE /\ ops' = 0
    BY <1>3 DEF Trip, SpendAll
  <2> QED BY <1>1, <1>2, <2>1, <2>2, <2>3 DEF BesideKeeps, Active
<1>4. CASE Reset \/ Connect
  <2>1. /\ Awaiting /\ UNCHANGED <<worker, cycle, ops, beside>>
        /\ connected' \in BOOLEAN /\ tripped' \in BOOLEAN
    BY <1>1, <1>4 DEF Reset, Connect
  <2>2. Occupied(worker') = Occupied(worker) /\ \A s \in Symbols : Active(s)' <=> Active(s)
    BY <2>1 DEF Active
  <2> QED BY <1>1, <1>2, <2>1, <2>2 DEF BesideKeeps
<1>5. CASE Disconnect
  <2>1. /\ Awaiting /\ UNCHANGED <<worker, tripped, cycle, beside>>
        /\ connected' = FALSE /\ ops' = 0
    BY <1>5 DEF Disconnect, SpendAll
  <2>2. Occupied(worker') = Occupied(worker) /\ \A s \in Symbols : Active(s)' <=> Active(s)
    BY <2>1 DEF Active
  <2>3. connected' \in BOOLEAN /\ tripped' \in BOOLEAN /\ ops' \in 0..MaxOps
    <3>1. ops' \in 0..MaxOps
      BY <1>1, <2>1
    <3>2. connected' \in BOOLEAN /\ tripped' \in BOOLEAN
      BY <1>1, <2>1, Zenon
    <3> QED BY <3>1, <3>2
  <2> QED BY <1>1, <1>2, <2>1, <2>2, <2>3 DEF BesideKeeps
<1> QED BY <1>3, <1>4, <1>5

LEMMA OthersStep ==
  ASSUME TypeInv, Others
  PROVE  BesideKeeps \/ StartFailed
BY PairSteps, AccountSteps DEF Others

\* While promotions go on, the slots in use and the free ones are no more than there are,
\* but for what others took since they were counted; the pair that is started has its own.
SlotInv ==
  /\ pc = "promote" /\ free > 0 => Occupied(worker) + free <= MaxActive + beside
  /\ pc = "starting" => Occupied(worker) + free <= MaxActive + beside + 1

RebalancerInv == TypeInv /\ SlotInv

\* What a scan answers.
LEMMA ScanType ==
  ASSUME NEW scan \in Scans
  PROVE  \E f \in [Symbols -> MarketMetric] :
           /\ scan.ranked = scan_and_rank_all_pairs(f)
           /\ scan.evict = {s \in Symbols : Evict(f, scan.ranked, s)}
<1>1. PICK f \in [Symbols -> Profiles] :
        LET ranked == scan_and_rank_all_pairs(f)
        IN scan = [ranked |-> ranked, evict |-> {s \in Symbols : Evict(f, ranked, s)}]
  BY DEF Scans
<1>2. f \in [Symbols -> MarketMetric]
  BY ProfilesAssumption
<1> QED BY <1>1, <1>2

\* The steps of the cycle before its first promotion, and those that end it.
LEMMA EarlySteps ==
  ASSUME RebalancerInv,
         \/ Begin \/ Stopped \/ Visited \/ Finished \/ StartFailed
         \/ \E s \in Symbols : Visit(s)
  PROVE  RebalancerInv'
<1> USE DEF RebalancerInv
<1>1. /\ worker \in [Symbols -> Worker] /\ beside \in Nat /\ ops \in 0..MaxOps
      /\ connected \in BOOLEAN /\ tripped \in BOOLEAN /\ MaxOps \in Nat /\ MaxActive \in Nat
      /\ \A s \in Symbols : worker[s].running \/ worker[s].locked => worker[s].known
      /\ todo \subseteq Symbols /\ drained \subseteq Symbols /\ at \in Symbols
      /\ cands \in Seq(Symbols) /\ free \in 0..MaxActive
  BY SlotsAssumption DEF TypeInv, TypeOK, Worker
<1>2. /\ <<>> \in Seq(Symbols) /\ Markets[1] \in Symbols /\ 0 \in 0..MaxActive
  BY <1>1, EmptySeq, SymbolsFinite
<1> DEFINE Early ==
             /\ worker' \in [Symbols -> Worker]
             /\ \A s \in Symbols : worker'[s].running \/ worker'[s].locked => worker'[s].known
             /\ connected' \in BOOLEAN /\ tripped' \in BOOLEAN
             /\ pc' \in {"idle", "retire", "stopping", "scan"}
             /\ todo' \subseteq Symbols /\ drained' \subseteq Symbols /\ at' \in Symbols
             /\ cands' \in Seq(Symbols) /\ free' \in 0..MaxActive
             /\ ops' \in 0..MaxOps /\ beside' \in Nat
<1>3. Early
  <2>1. CASE Begin
    BY <1>1, <2>1 DEF Begin
  <2>2. CASE Stopped
    <3>1. /\ worker' \in [Symbols -> Worker]
          /\ \A s \in Symbols : worker'[s].running \/ worker'[s].locked => worker'[s].known
      <4> DEFINE w == [worker[at] EXCEPT !.quotes = FALSE]
      <4>1. worker' = [worker EXCEPT ![at] = w]
        BY <2>2 DEF Stopped
      <4>2. /\ w \in Worker /\ w.running = worker[at].running
            /\ w.locked = worker[at].locked /\ w.known = worker[at].known
        BY <1>1 DEF Worker
      <4> HIDE DEF w
      <4> QED BY <1>1, <4>1, <4>2
    <3> QED BY <1>1, <1>2, <2>2, <3>1 DEF Stopped
  <2>3. CASE Visited
    BY <1>1, <2>3 DEF Visited
  <2>4. CASE Finished
    BY <1>1, <1>2, <2>4 DEF Finished, End
  <2>5. CASE StartFailed
    BY <1>1, <1>2, <2>5 DEF StartFailed, End
  <2>6. ASSUME NEW s \in Symbols, Visit(s)
        PROVE  Early
    <3>1. /\ worker' = [worker EXCEPT ![s].enabled = FALSE, ![s].running = FALSE]
          /\ pc' = "stopping" /\ at' = s
          /\ UNCHANGED <<connected, tripped, cands, free, drained, ops, beside>>
      BY <2>6 DEF Visit
    <3>2. todo' \subseteq Symbols
      BY <1>1, <2>6 DEF Visit
    <3>3. /\ worker' \in [Symbols -> Worker]
          /\ \A t \in Symbols : worker'[t].running \/ worker'[t].locked => worker'[t].known
      <4> DEFINE v == [worker[s] EXCEPT !.enabled = FALSE, !.running = FALSE]
      <4>1. worker' = [worker EXCEPT ![s] = v]
        BY <1>1, <3>1
      <4>2. v \in Worker /\ (v.running \/ v.locked => v.known)
        BY <1>1 DEF Worker
      <4> HIDE DEF v
      <4> QED BY <1>1, <4>1, <4>2
    <3> QED BY <1>1, <3>1, <3>2, <3>3
  <2> HIDE DEF Early
  <2> QED BY <2>1, <2>2, <2>3, <2>4, <2>5, <2>6
<1> QED BY <1>3 DEF TypeInv, TypeOK, SlotInv, Worker

\* The scan is over: pairs that fell behind drain, and the free slots are counted.
LEMMA ScannedStep ==
  ASSUME RebalancerInv, Scanned
  PROVE  RebalancerInv'
<1> USE DEF RebalancerInv
<1>1. /\ worker \in [Symbols -> Worker] /\ beside \in Nat /\ ops \in 0..MaxOps
      /\ connected \in BOOLEAN /\ tripped \in BOOLEAN /\ MaxActive \in Nat
      /\ \A s \in Symbols : worker[s].running \/ worker[s].locked => worker[s].known
      /\ todo \subseteq Symbols /\ at \in Symbols /\ pc = "scan"
      /\ UNCHANGED <<connected, tripped, todo, ops>>
  BY SlotsAssumption DEF TypeInv, TypeOK, Worker, Scanned
<1>2. <<>> \in Seq(Symbols) /\ Markets[1] \in Symbols /\ 0 \in 0..MaxActive
  BY <1>1, EmptySeq, SymbolsFinite
<1> DEFINE w(out) == [s \in Symbols |-> IF s \in out THEN [worker[s] EXCEPT !.draining = TRUE]
                                        ELSE worker[s]]
<1>3. PICK scan \in Scans :
        LET out == {s \in scan.evict : Active(s)}
        IN IF scan.ranked = <<>>
             THEN End /\ UNCHANGED worker
             ELSE /\ pc' = "promote" /\ cands' = scan.ranked
                  /\ drained' = out /\ worker' = w(out) /\ free' = Available(w(out))
                  /\ UNCHANGED <<at, beside>>
  BY DEF Scanned
<1>4. scan.ranked \in Seq(Symbols) /\ scan.evict \subseteq Symbols
  <2>1. PICK f \in [Symbols -> MarketMetric] :
           /\ scan.ranked = scan_and_rank_all_pairs(f)
           /\ scan.evict = {s \in Symbols : Evict(f, scan.ranked, s)}
    BY ScanType
  <2> QED BY <2>1, Ranked
<1>5. CASE scan.ranked = <<>>
  BY <1>1, <1>2, <1>3, <1>5 DEF End, TypeInv, TypeOK, SlotInv, Worker
<1>6. CASE scan.ranked # <<>>
  <2> DEFINE out == {s \in scan.evict : Active(s)}
  <2>1. /\ pc' = "promote" /\ cands' = scan.ranked /\ drained' = out
        /\ worker' = w(out) /\ free' = Available(worker') /\ UNCHANGED <<at, beside>>
    BY <1>3, <1>6
  <2>2. out \subseteq Symbols
    BY <1>4
  <2> HIDE DEF out
  <2>3. /\ worker' \in [Symbols -> Worker]
        /\ \A s \in Symbols : worker'[s].running \/ worker'[s].locked => worker'[s].known
    BY <1>1, <2>1 DEF Worker
  <2>4. Occupied(worker') \in Nat
    BY OccupiedType
  <2>5. free' \in 0..MaxActive /\ (free' > 0 => Occupied(worker') + free' <= MaxActive)
    BY <1>1, <2>1, <2>4 DEF Available, Clamp
  <2>6. TypeInv'
    BY <1>1, <1>4, <2>1, <2>2, <2>3, <2>5 DEF TypeInv, TypeOK, Worker
  <2>7. SlotInv'
    BY <1>1, <2>1, <2>4, <2>5 DEF SlotInv
  <2> QED BY <2>6, <2>7
<1> QED BY <1>5, <1>6

\* A candidate is passed over, or takes a slot.
LEMMA PromoteEffect ==
  ASSUME RebalancerInv, Promote
  PROVE  /\ pc = "promote" /\ free \in 1..MaxActive /\ cands \in Seq(Symbols)
         /\ Head(cands) \in Symbols /\ Len(cands) \in Nat \ {0}
         /\ cands' = Tail(cands) /\ cands' \in Seq(Symbols) /\ Len(cands') = Len(cands) - 1
         /\ \A i \in 1..Len(cands') : cands'[i] = cands[i + 1]
         /\ UNCHANGED <<connected, tripped, todo, drained, ops, beside>>
         /\ worker' \in [Symbols -> Worker]
         /\ \A s \in Symbols : worker'[s].running \/ worker'[s].locked => worker'[s].known
         /\ \A s \in Symbols \ {Head(cands)} : worker'[s] = worker[s]
         /\ \/ /\ Active(Head(cands)) \/ ~connected
               /\ UNCHANGED <<worker, free, at, pc>>
            \/ /\ ~Active(Head(cands)) /\ connected /\ worker'[Head(cands)].known
               /\ UNCHANGED <<at, pc>> /\ free' = free - 1
            \/ /\ ~Active(Head(cands)) /\ connected /\ worker'[Head(cands)].known
               /\ pc' = "starting" /\ at' = Head(cands) /\ UNCHANGED free
<1> USE DEF RebalancerInv
<1> DEFINE s == Head(cands)
<1>1. /\ pc = "promote" /\ free \in 1..MaxActive /\ cands \in Seq(Symbols) /\ cands # <<>>
      /\ worker \in [Symbols -> Worker]
      /\ \A t \in Symbols : worker[t].running \/ worker[t].locked => worker[t].known
  BY SlotsAssumption DEF TypeInv, TypeOK, Promote, Worker
<1>2. /\ s \in Symbols /\ Tail(cands) \in Seq(Symbols) /\ Len(Tail(cands)) = Len(cands) - 1
      /\ \A i \in 1..Len(Tail(cands)) : Tail(cands)[i] = cands[i + 1]
      /\ Len(cands) \in Nat \ {0}
  BY <1>1, HeadTailProperties, EmptySeq
<1>3. cands' = Tail(cands) /\ UNCHANGED <<connected, tripped, todo, drained, ops, beside>>
  BY DEF Promote
<1>4. CASE Active(s) \/ ~connected
  <2>1. UNCHANGED <<worker, free, at, pc>>
    BY <1>4 DEF Promote
  <2> QED BY <1>1, <1>2, <1>3, <1>4, <2>1
<1>5. CASE ~(Active(s) \/ ~connected)
  <2>1. /\ worker' = [worker EXCEPT ![s].known = TRUE, ![s].enabled = TRUE,
                                    ![s].draining = FALSE]
        /\ \/ free' = free - 1 /\ UNCHANGED <<at, pc>>
           \/ pc' = "starting" /\ at' = s /\ UNCHANGED free
    BY <1>5 DEF Promote
  <2> HIDE DEF s
  <2>2. /\ worker' \in [Symbols -> Worker] /\ worker'[s].known
        /\ \A t \in Symbols : worker'[t].running \/ worker'[t].locked => worker'[t].known
        /\ \A t \in Symbols \ {s} : worker'[t] = worker[t]
    <3> DEFINE v == [worker[s] EXCEPT !.known = TRUE, !.enabled = TRUE, !.draining = FALSE]
    <3>1. worker' = [worker EXCEPT ![s] = v]
      BY <1>1, <1>2, <2>1 DEF s
    <3>2. v \in Worker /\ v.known = TRUE
      BY <1>1, <1>2 DEF Worker, s
    <3>3. s \in Symbols
      BY <1>2 DEF s
    <3> HIDE DEF v
    <3> QED BY <1>1, <3>1, <3>2, <3>3
  <2> QED BY <1>1, <1>2, <1>3, <1>5, <2>1, <2>2 DEF s
<1> QED BY <1>4, <1>5

LEMMA PromoteStep ==
  ASSUME RebalancerInv, Promote
  PROVE  RebalancerInv' /\ (worker' # worker => Occupied(worker') <= MaxActive + beside)
<1> USE DEF RebalancerInv
<1>1. /\ beside \in Nat /\ ops \in 0..MaxOps /\ at \in Symbols /\ MaxActive \in Nat
      /\ connected \in BOOLEAN /\ tripped \in BOOLEAN
      /\ todo \subseteq Symbols /\ drained \subseteq Symbols
  BY SlotsAssumption DEF TypeInv, TypeOK
<1>2. /\ pc = "promote" /\ free \in 1..MaxActive /\ Head(cands) \in Symbols
      /\ cands' \in Seq(Symbols)
      /\ UNCHANGED <<connected, tripped, todo, drained, ops, beside>>
      /\ worker' \in [Symbols -> Worker]
      /\ \A s \in Symbols : worker'[s].running \/ worker'[s].locked => worker'[s].known
      /\ \A s \in Symbols \ {Head(cands)} : worker'[s] = worker[s]
      /\ \/ UNCHANGED <<worker, free, at, pc>>
         \/ UNCHANGED <<at, pc>> /\ free' = free - 1
         \/ /\ worker'[Head(cands)].known
            /\ pc' = "starting" /\ at' = Head(cands) /\ UNCHANGED free
  BY PromoteEffect
<1>3. TypeInv'
  BY <1>1, <1>2 DEF TypeInv, TypeOK, Worker
<1>4. /\ Occupied(worker') \in Nat /\ Occupied(worker) \in Nat
      /\ Occupied(worker') <= Occupied(worker) + 1
  BY <1>2, OccupiedType, OccupiedOne
<1>5. Occupied(worker) + free <= MaxActive + beside
  BY <1>2 DEF SlotInv
<1>6. SlotInv'
  <2>1. worker' = worker => Occupied(worker') = Occupied(worker)
    OBVIOUS
  <2> QED BY <1>1, <1>2, <1>4, <1>5, <2>1 DEF SlotInv
<1> QED BY <1>1, <1>2, <1>3, <1>4, <1>5, <1>6

\* The worker runs: its slot is used up.
LEMMA StartedStep ==
  ASSUME RebalancerInv, Started
  PROVE  RebalancerInv'
<1> USE DEF RebalancerInv
<1>1. /\ worker \in [Symbols -> Worker] /\ beside \in Nat /\ ops \in 0..MaxOps
      /\ connected \in BOOLEAN /\ tripped \in BOOLEAN /\ MaxActive \in Nat
      /\ \A s \in Symbols : worker[s].running \/ worker[s].locked => worker[s].known
      /\ todo \subseteq Symbols /\ at \in Symbols /\ pc = "starting"
      /\ drained \subseteq Symbols /\ cands \in Seq(Symbols)
      /\ worker[at].known /\ free \in 1..MaxActive
  BY SlotsAssumption DEF TypeInv, TypeOK, Worker, Started
<1>2. /\ worker' = [worker EXCEPT ![at].running = TRUE]
      /\ pc' = "promote" /\ free' = free - 1 /\ at' = Markets[1]
      /\ UNCHANGED <<connected, tripped, todo, cands, drained, ops, beside>>
  BY DEF Started
<1>3. /\ worker' \in [Symbols -> Worker]
      /\ \A s \in Symbols : worker'[s].running \/ worker'[s].locked => worker'[s].known
      /\ \A s \in Symbols : Takes(worker'[s]) => Takes(worker[s])
  BY <1>1, <1>2 DEF Worker, Takes
<1>4. TypeInv'
  BY <1>1, <1>2, <1>3, SymbolsFinite DEF TypeInv, TypeOK, Worker
<1>5. Occupied(worker') \in Nat /\ Occupied(worker) \in Nat /\ Occupied(worker') <= Occupied(worker)
  BY <1>3, OccupiedType, OccupiedLess
<1>6. SlotInv'
  BY <1>1, <1>2, <1>5 DEF SlotInv
<1> QED BY <1>4, <1>6

\* Others.
LEMMA BesideStep ==
  ASSUME RebalancerInv, BesideKeeps
  PROVE  RebalancerInv'
<1> USE DEF RebalancerInv
<1>1. /\ worker' \in [Symbols -> Worker] /\ beside' \in Nat /\ UNCHANGED cycle
      /\ pc \notin {"promote", "retire"}
      /\ connected' \in BOOLEAN /\ tripped' \in BOOLEAN /\ ops' \in 0..MaxOps
      /\ \A s \in Symbols : /\ worker'[s].running \/ worker'[s].locked => worker'[s].known
                            /\ worker[s].known => worker'[s].known
  BY DEF BesideKeeps, Awaiting
<1>2. TypeInv'
  BY <1>1 DEF TypeInv, TypeOK, Worker, cycle
<1>3. /\ Occupied(worker') \in Nat /\ Occupied(worker) \in Nat /\ beside \in Nat
      /\ MaxActive \in Nat /\ free \in Nat
  <2>1. beside \in Nat /\ MaxActive \in Nat /\ free \in 0..MaxActive
    BY SlotsAssumption DEF TypeInv, TypeOK
  <2>2. Occupied(worker') \in Nat /\ Occupied(worker) \in Nat
    BY OccupiedType
  <2> QED BY <2>1, <2>2
<1>4. SlotInv'
  BY <1>1, <1>3 DEF SlotInv, BesideKeeps, cycle
<1> QED BY <1>2, <1>4

LEMMA RebalancerInit == Init => RebalancerInv
<1> SUFFICES ASSUME Init PROVE RebalancerInv
  OBVIOUS
<1>1. NoWorker \in Worker /\ Running \in Worker
  BY DEF NoWorker, Running, Worker
<1>2. Running.known /\ ~NoWorker.running /\ ~Running.locked /\ ~NoWorker.locked
  BY DEF NoWorker, Running
<1>3. /\ worker \in [Symbols -> Worker]
      /\ \A s \in Symbols : worker[s].running \/ worker[s].locked => worker[s].known
  BY <1>1, <1>2 DEF Init
<1>4. /\ connected = TRUE /\ tripped = FALSE /\ pc = "idle" /\ todo = {} /\ cands = <<>>
      /\ free = 0 /\ at = Markets[1] /\ ops = MaxOps /\ drained = {} /\ beside = 0
  BY DEF Init
<1>5. /\ free \in 0..MaxActive /\ ops \in 0..MaxOps /\ at \in Symbols /\ cands \in Seq(Symbols)
      /\ todo \subseteq Symbols /\ drained \subseteq Symbols
  BY <1>4, SlotsAssumption, SymbolsFinite, EmptySeq
<1> QED BY <1>3, <1>4, <1>5 DEF RebalancerInv, TypeInv, TypeOK, SlotInv, Worker

\* Every step keeps the invariant, and promotes within the slots.
LEMMA RebalancerNext ==
  ASSUME RebalancerInv, [Next]_vars
  PROVE  /\ RebalancerInv'
         /\ pc = "promote" /\ worker' # worker => Occupied(worker') <= MaxActive + beside
<1>1. CASE \/ Begin \/ Stopped \/ Visited \/ Finished \/ StartFailed
           \/ \E s \in Symbols : Visit(s)
  <2>1. pc = "promote" => worker' = worker
    BY <1>1 DEF Begin, Stopped, Visited, Finished, StartFailed, Visit
  <2> QED BY <1>1, <2>1, EarlySteps
<1>2. CASE Scanned
  BY <1>2, ScannedStep DEF Scanned
<1>3. CASE Promote
  BY <1>3, PromoteStep
<1>4. CASE Started
  BY <1>4, StartedStep DEF Started
<1>5. CASE BesideKeeps
  BY <1>5, BesideStep DEF BesideKeeps, Awaiting
<1>6. CASE UNCHANGED vars
  BY <1>6 DEF vars, cycle, RebalancerInv, TypeInv, TypeOK, SlotInv
<1>7. CASE Others
  <2>1. TypeInv
    BY DEF RebalancerInv
  <2> QED BY <1>1, <1>5, <1>7, <2>1, OthersStep
<1> QED BY <1>1, <1>2, <1>3, <1>4, <1>6, <1>7 DEF Next, CycleStep

LEMMA RebalancerInvariant == Spec => []RebalancerInv
BY RebalancerInit, RebalancerNext, PTL DEF Spec

\* Every variable of the rebalancer keeps its type, and no worker runs that is not
\* registered.
THEOREM TypeCorrect == Spec => []TypeOK
<1>1. RebalancerInv => TypeOK
  BY DEF RebalancerInv, TypeInv
<1> QED BY <1>1, RebalancerInvariant, PTL

\* A promotion never takes the pairs beyond the slots of the portfolio, but for what the
\* operator or a fill took since the slots were counted.
THEOREM PromotionsBounded == Spec => SlotsBounded
<1>1. ASSUME RebalancerInv, [Next]_vars, pc = "promote", worker' # worker
      PROVE  Cardinality({s \in Symbols : LET w == worker'[s]
                                          IN w.enabled /\ (~w.draining \/ w.pos)})
               <= MaxActive + beside
  <2>1. {s \in Symbols : LET w == worker'[s] IN w.enabled /\ (~w.draining \/ w.pos)}
          = {s \in Symbols : Takes(worker'[s])}
    BY DEF Takes
  <2> QED BY <1>1, <2>1, RebalancerNext, OccupiedType
<1>2. RebalancerInv /\ [Next]_vars
        => [pc = "promote" /\ worker' # worker =>
              Cardinality({s \in Symbols : LET w == worker'[s]
                                           IN w.enabled /\ (~w.draining \/ w.pos)})
                <= MaxActive + beside]_vars
  BY <1>1
<1> QED BY <1>2, RebalancerInvariant, PTL DEF Spec, SlotsBounded

-----------------------------------------------------------------------------
(* No pair is drained and promoted by the same cycle *)

Distinct(q) == \A i, j \in 1..Len(q) : i # j => q[i] # q[j]

\* The candidates ahead of the i-th that would take a slot.
Waiting(i) == {t \in {cands[j] : j \in 1..(i - 1)} : ~Active(t)}

\* Before a drained candidate at least n others are waiting for a slot.
DrainedLast(n) ==
  \A i \in 1..Len(cands) : cands[i] \in drained => n <= Cardinality(Waiting(i))

\* As long as nobody else takes slots, those who wait ahead of a drained candidate use up
\* what is free; the candidate that is being started is already gone from the list.
ChurnInv ==
  /\ Distinct(cands)
  /\ beside = 0 /\ pc = "promote" /\ connected => DrainedLast(free)
  /\ beside = 0 /\ pc = "starting" => DrainedLast(free - 1)

\* The first candidates of a list without duplicates.
LEMMA PrefixSize ==
  ASSUME NEW q \in Seq(Symbols), Distinct(q), NEW k \in 0..Len(q)
  PROVE  /\ IsFiniteSet({q[j] : j \in 1..k}) /\ Cardinality({q[j] : j \in 1..k}) = k
<1> DEFINE P == {q[j] : j \in 1..k}
           g == [j \in 1..k |-> q[j]]
<1>1. Len(q) \in Nat /\ k \in Nat
  BY LenProperties
<1>2. g \in Surjection(1..k, P)
  BY DEF Surjection
<1>3. g \in Injection(1..k, P)
  BY <1>1 DEF Injection, IsInjective, Distinct
<1>4. IsFiniteSet(1..k) /\ Cardinality(1..k) = k
  BY <1>1, FS_Interval
<1> HIDE DEF P, g
<1>5. IsFiniteSet(P) /\ Cardinality(P) = k
  BY <1>2, <1>3, <1>4, FS_Surjection
<1> QED BY <1>5 DEF P

LEMMA WaitingFinite ==
  ASSUME TypeOK, NEW i \in 1..Len(cands)
  PROVE  /\ IsFiniteSet(Waiting(i)) /\ Cardinality(Waiting(i)) \in Nat
         /\ Waiting(i) \subseteq Symbols
<1>1. cands \in [1..Len(cands) -> Symbols] /\ Len(cands) \in Nat
  BY LenProperties DEF TypeOK
<1>2. Waiting(i) \subseteq Symbols
  BY <1>1 DEF Waiting
<1> QED BY <1>2, SymbolsFinite, FS_Subset, FS_CardinalityType

\* The first promotion is preceded by the count of the free slots: whoever is drained for
\* its rank comes after as many candidates as there are slots.
LEMMA ChurnScanned ==
  ASSUME MaxActive <= RankThreshold, TypeInv, TypeInv', Scanned
  PROVE  ChurnInv'
<1> DEFINE w(out) == [s \in Symbols |-> IF s \in out THEN [worker[s] EXCEPT !.draining = TRUE]
                                        ELSE worker[s]]
<1>1. PICK scan \in Scans :
        LET out == {s \in scan.evict : Active(s)}
        IN IF scan.ranked = <<>>
             THEN End /\ UNCHANGED worker
             ELSE /\ pc' = "promote" /\ cands' = scan.ranked
                  /\ drained' = out /\ worker' = w(out) /\ free' = Available(w(out))
                  /\ UNCHANGED <<at, beside>>
  BY DEF Scanned
<1>2. PICK f \in [Symbols -> MarketMetric] :
        /\ scan.ranked = scan_and_rank_all_pairs(f)
        /\ scan.evict = {s \in Symbols : Evict(f, scan.ranked, s)}
  BY ScanType
<1>3. /\ scan.ranked \in Seq(Symbols)
      /\ \A i, j \in DOMAIN scan.ranked : i < j => Before(f, scan.ranked[i], scan.ranked[j])
  BY <1>2, Ranked
<1>4. /\ Len(scan.ranked) \in Nat /\ DOMAIN scan.ranked = 1..Len(scan.ranked)
      /\ scan.ranked \in [1..Len(scan.ranked) -> Symbols]
  BY <1>3, LenProperties
<1>5. Distinct(scan.ranked)
  <2> SUFFICES ASSUME NEW i \in 1..Len(scan.ranked), NEW j \in 1..Len(scan.ranked), i < j
               PROVE  scan.ranked[i] # scan.ranked[j]
    BY <1>4 DEF Distinct
  <2> QED BY <1>3, <1>4, BeforeOrder
<1>6. CASE scan.ranked = <<>>
  <2>1. cands' = <<>> /\ pc' = "idle"
    BY <1>1, <1>6 DEF End
  <2> QED BY <2>1 DEF ChurnInv, Distinct
<1>7. CASE scan.ranked # <<>>
  <2>1. /\ pc' = "promote" /\ cands' = scan.ranked /\ drained' \subseteq scan.evict
        /\ free' = Available(worker')
    BY <1>1, <1>7
  <2>2. ASSUME NEW i \in 1..Len(cands'), cands'[i] \in drained'
        PROVE  free' <= Cardinality(Waiting(i)')
    <3> DEFINE q == scan.ranked
               P == {q[j] : j \in 1..(i - 1)}
               W == Waiting(i)'
               O == {s \in Symbols : Takes(worker'[s])}
    <3>1. /\ i \in 1..Len(q) /\ Evict(f, q, q[i]) /\ cands' = q /\ q \in Seq(Symbols)
      BY <1>2, <1>3, <2>1, <2>2
    <3>2. Rank(q, q[i]) = i
      BY <1>4, <1>5, <3>1 DEF Rank, Distinct
    <3>3. i > MaxActive /\ MaxActive \in Nat /\ i \in Nat
      BY <1>4, <3>1, <3>2, SlotsAssumption DEF Evict
    <3>4. IsFiniteSet(P) /\ Cardinality(P) = i - 1
      <4>1. i - 1 \in 0..Len(q)
        BY <1>4, <3>1
      <4> QED BY <1>5, <3>1, <4>1, PrefixSize
    <3>5. /\ IsFiniteSet(O) /\ Cardinality(O) = Occupied(worker') /\ Cardinality(O) \in Nat
      BY OccupiedType
    <3>6. IsFiniteSet(W) /\ Cardinality(W) \in Nat
      <4>1. W \subseteq P
        BY <3>1 DEF Waiting
      <4> QED BY <3>4, <4>1, FS_Subset, FS_CardinalityType
    <3>7. P \subseteq W \cup O
      <4> SUFFICES ASSUME NEW t \in P, t \notin W PROVE t \in O
        OBVIOUS
      <4>1. t \in Symbols /\ Active(t)'
        BY <1>4, <3>1 DEF Waiting
      <4> QED BY <4>1 DEF Active, Takes
    <3> HIDE DEF P, W, O
    <3>8. /\ IsFiniteSet(W \cup O) /\ Cardinality(W \cup O) <= Cardinality(W) + Cardinality(O)
      <4>1. Cardinality(W \cap O) \in Nat
        BY <3>6, FS_Intersection, FS_CardinalityType
      <4>2. /\ IsFiniteSet(W \cup O)
            /\ Cardinality(W \cup O) = Cardinality(W) + Cardinality(O) - Cardinality(W \cap O)
        BY <3>5, <3>6, FS_Union
      <4> QED BY <3>5, <3>6, <4>1, <4>2
    <3>9. Cardinality(P) <= Cardinality(W \cup O)
      BY <3>7, <3>8, FS_Subset
    <3>10. MaxActive - Occupied(worker') <= Cardinality(W)
      <4>1. Cardinality(W \cup O) \in Nat
        BY <3>8, FS_CardinalityType
      <4> QED BY <3>3, <3>4, <3>5, <3>6, <3>8, <3>9, <4>1
    <3>11. free' <= Cardinality(W)
      BY <2>1, <3>3, <3>5, <3>6, <3>10 DEF Available, Clamp
    <3> QED BY <3>11 DEF W
  <2> QED BY <1>5, <2>1, <2>2 DEF ChurnInv, DrainedLast
<1> QED BY <1>6, <1>7

\* A promotion takes no more slots than the others that wait ahead of a drained pair need.
LEMMA ChurnPromote ==
  ASSUME RebalancerInv, ChurnInv, Promote
  PROVE  /\ ChurnInv'
         /\ \A s \in drained : beside = 0 /\ worker[s].draining => worker'[s].draining
<1> DEFINE h == Head(cands)
<1>1. TypeInv /\ TypeOK /\ cands \in [1..Len(cands) -> Symbols] /\ Distinct(cands)
  BY LenProperties DEF RebalancerInv, TypeInv, TypeOK, ChurnInv
<1>2. /\ pc = "promote" /\ free \in 1..MaxActive /\ cands \in Seq(Symbols)
      /\ h \in Symbols /\ Len(cands) \in Nat \ {0} /\ h = cands[1]
      /\ cands' \in Seq(Symbols) /\ Len(cands') = Len(cands) - 1
      /\ \A i \in 1..Len(cands') : cands'[i] = cands[i + 1]
      /\ UNCHANGED <<connected, drained, beside>>
      /\ \A s \in Symbols \ {h} : worker'[s] = worker[s]
      /\ \/ Active(h) /\ UNCHANGED <<worker, free, pc>>
         \/ ~connected /\ UNCHANGED <<worker, free, pc>>
         \/ ~Active(h) /\ connected /\ UNCHANGED pc /\ free' = free - 1
         \/ ~Active(h) /\ connected /\ pc' = "starting" /\ UNCHANGED free
  BY PromoteEffect
<1> HIDE DEF h
<1>0. free \in Nat /\ free >= 1
  BY <1>2, SlotsAssumption
<1>3. Distinct(cands')
  BY <1>1, <1>2 DEF Distinct
<1>4. ASSUME NEW i \in 1..Len(cands')
      PROVE  /\ i + 1 \in 1..Len(cands) /\ cands'[i] = cands[i + 1]
             /\ Waiting(i)' = Waiting(i + 1) \ {h}
  <2>1. i + 1 \in 1..Len(cands) /\ cands'[i] = cands[i + 1] /\ i \in Nat
    BY <1>2
  <2>2. {cands'[j] : j \in 1..(i - 1)} = {cands[j] : j \in 2..i}
    <3>1. ASSUME NEW j \in 1..(i - 1)
          PROVE  cands'[j] \in {cands[k] : k \in 2..i}
      <4>1. cands'[j] = cands[j + 1] /\ j + 1 \in 2..i
        BY <1>2, <2>1
      <4> QED BY <4>1
    <3>2. ASSUME NEW k \in 2..i
          PROVE  cands[k] \in {cands'[j] : j \in 1..(i - 1)}
      <4>1. k - 1 \in 1..(i - 1) /\ cands'[k - 1] = cands[(k - 1) + 1] /\ (k - 1) + 1 = k
        BY <1>2, <2>1
      <4> QED BY <4>1
    <3> QED BY <3>1, <3>2
  <2>3. {cands[j] : j \in 1..i} = {cands[j] : j \in 2..i} \cup {h}
    <3>1. \A j \in 1..i : j = 1 \/ j \in 2..i
      BY <2>1
    <3>2. 1 \in 1..i /\ 2..i \subseteq 1..i
      BY <2>1
    <3> QED BY <1>2, <3>1, <3>2
  <2>4. \A j \in 2..i : cands[j] # h /\ cands[j] \in Symbols
    <3>1. \A j \in 2..i : j \in 1..Len(cands) /\ 1 \in 1..Len(cands) /\ j # 1
      BY <1>2, <2>1
    <3> QED BY <1>1, <1>2, <3>1 DEF Distinct
  <2>5. \A t \in Symbols \ {h} : Active(t)' <=> Active(t)
    BY <1>2 DEF Active
  <2>6. (i + 1) - 1 = i
    BY <2>1
  <2> DEFINE X == {cands[j] : j \in 2..i}
  <2>7. X \subseteq Symbols \ {h}
    BY <2>4
  <2>8. Waiting(i)' = {t \in X : ~Active(t)'}
    BY <2>2 DEF Waiting
  <2>9. Waiting(i + 1) = {t \in X \cup {h} : ~Active(t)}
    BY <2>3, <2>6 DEF Waiting
  <2> HIDE DEF X
  <2> QED BY <2>1, <2>5, <2>7, <2>8, <2>9
<1>5. ASSUME beside = 0, connected
      PROVE  /\ Active(h) => \A i \in 1..Len(cands') : cands'[i] \in drained' =>
                                free <= Cardinality(Waiting(i)')
             /\ \A i \in 1..Len(cands') : cands'[i] \in drained' =>
                                free - 1 <= Cardinality(Waiting(i)')
  <2> SUFFICES ASSUME NEW i \in 1..Len(cands'), cands'[i] \in drained'
               PROVE  /\ Active(h) => free <= Cardinality(Waiting(i)')
                      /\ free - 1 <= Cardinality(Waiting(i)')
    OBVIOUS
  <2>1. free <= Cardinality(Waiting(i + 1))
    BY <1>2, <1>4, <1>5 DEF ChurnInv, DrainedLast
  <2>2. /\ IsFiniteSet(Waiting(i + 1)) /\ Cardinality(Waiting(i + 1)) \in Nat
    BY <1>1, <1>4, WaitingFinite
  <2>3. Cardinality(Waiting(i + 1) \ {h})
          = IF h \in Waiting(i + 1) THEN Cardinality(Waiting(i + 1)) - 1
            ELSE Cardinality(Waiting(i + 1))
    BY <2>2, FS_RemoveElement
  <2>4. Active(h) => h \notin Waiting(i + 1)
    BY DEF Waiting
  <2> DEFINE n == Cardinality(Waiting(i + 1))
  <2>5. Cardinality(Waiting(i)') = IF h \in Waiting(i + 1) THEN n - 1 ELSE n
    BY <1>4, <2>3
  <2>6. n \in Nat /\ free <= n
    BY <2>1, <2>2
  <2> HIDE DEF n
  <2> QED BY <1>0, <2>4, <2>5, <2>6
<1>6. ChurnInv'
  BY <1>2, <1>3, <1>5 DEF ChurnInv, DrainedLast
<1>7. ASSUME NEW s \in drained, beside = 0, worker[s].draining
      PROVE  worker'[s].draining
  <2>1. s \in Symbols
    BY <1>1 DEF TypeOK
  <2>2. CASE s # h \/ UNCHANGED worker
    BY <1>2, <1>7, <2>1, <2>2
  <2>3. CASE s = h /\ ~Active(h) /\ connected
    <3>1. free <= Cardinality(Waiting(1))
      BY <1>2, <1>7, <2>3 DEF ChurnInv, DrainedLast
    <3>2. Waiting(1) = {}
      BY DEF Waiting
    <3>3. Cardinality(Waiting(1)) = 0
      BY <3>2, FS_EmptySet
    <3> QED BY <1>0, <3>1, <3>3
  <2> QED BY <1>2, <2>2, <2>3
<1> QED BY <1>6, <1>7

\* The other steps.
LEMMA ChurnStarted ==
  ASSUME RebalancerInv, ChurnInv, Started
  PROVE  ChurnInv'
<1>1. /\ worker \in [Symbols -> Worker] /\ pc = "starting" /\ pc' = "promote"
      /\ worker' = [worker EXCEPT ![at].running = TRUE] /\ free' = free - 1
      /\ UNCHANGED <<connected, cands, drained, beside>>
  BY DEF Started, RebalancerInv, TypeInv, TypeOK, Worker
<1>2. \A s \in Symbols : Active(s)' <=> Active(s)
  BY <1>1 DEF Active, Worker
<1>3. \A i \in 1..Len(cands) : Waiting(i)' = Waiting(i)
  <2> SUFFICES ASSUME NEW i \in 1..Len(cands) PROVE Waiting(i)' = Waiting(i)
    OBVIOUS
  <2>1. cands \in [1..Len(cands) -> Symbols] /\ Len(cands) \in Nat
    BY LenProperties DEF RebalancerInv, TypeInv, TypeOK
  <2>2. {cands[j] : j \in 1..(i - 1)} \subseteq Symbols
    BY <2>1
  <2> QED BY <1>1, <1>2, <2>2 DEF Waiting
<1> QED BY <1>1, <1>3 DEF ChurnInv, DrainedLast

LEMMA ChurnBeside ==
  ASSUME RebalancerInv, RebalancerInv', ChurnInv, BesideKeeps
  PROVE  ChurnInv'
<1>1. /\ UNCHANGED <<pc, cands, free, drained>> /\ pc # "promote"
      /\ beside \in Nat /\ beside' \in Nat /\ beside <= beside'
  BY DEF BesideKeeps, Awaiting, cycle, RebalancerInv, TypeInv, TypeOK
<1>2. CASE pc # "starting" \/ beside' # 0
  BY <1>1, <1>2 DEF ChurnInv
<1>3. CASE pc = "starting" /\ beside' = 0
  <2>1. beside = 0
    BY <1>1, <1>3
  <2>2. \A s \in Symbols : Active(s)' => Active(s)
    BY <1>3 DEF BesideKeeps
  <2>3. ASSUME NEW i \in 1..Len(cands'), cands'[i] \in drained'
        PROVE  free' - 1 <= Cardinality(Waiting(i)')
    <3>1. i \in 1..Len(cands) /\ free - 1 <= Cardinality(Waiting(i))
      BY <1>1, <1>3, <2>1, <2>3 DEF ChurnInv, DrainedLast
    <3>2. /\ Waiting(i) \subseteq Symbols /\ IsFiniteSet(Waiting(i))
          /\ Cardinality(Waiting(i)) \in Nat
      BY <3>1, WaitingFinite DEF RebalancerInv, TypeInv
    <3>3. Waiting(i) \subseteq Waiting(i)'
      BY <1>1, <2>2, <3>2 DEF Waiting
    <3>4. IsFiniteSet(Waiting(i)') /\ Cardinality(Waiting(i)') \in Nat
      <4>1. Waiting(i)' \subseteq Symbols
        <5>1. cands \in [1..Len(cands) -> Symbols] /\ Len(cands) \in Nat
          BY LenProperties DEF RebalancerInv, TypeInv, TypeOK
        <5> QED BY <1>1, <3>1, <5>1 DEF Waiting
      <4> QED BY <4>1, SymbolsFinite, FS_Subset, FS_CardinalityType
    <3>5. Cardinality(Waiting(i)) <= Cardinality(Waiting(i)')
      BY <3>3, <3>4, FS_Subset
    <3>6. free \in Nat
      BY SlotsAssumption DEF RebalancerInv, TypeInv, TypeOK
    <3> QED BY <1>1, <3>1, <3>2, <3>4, <3>5, <3>6
  <2> QED BY <1>1, <1>3, <2>2, <2>3 DEF ChurnInv, DrainedLast
<1> QED BY <1>2, <1>3

LEMMA ChurnNext ==
  ASSUME MaxActive <= RankThreshold, RebalancerInv, ChurnInv, [Next]_vars
  PROVE  /\ ChurnInv'
         /\ \A s \in drained : beside = 0 /\ worker[s].draining => worker'[s].draining
<1>1. RebalancerInv'
  BY RebalancerNext
<1>2. /\ worker \in [Symbols -> Worker] /\ drained \subseteq Symbols
  BY DEF RebalancerInv, TypeInv, TypeOK, Worker
<1>3. CASE \/ Begin \/ Stopped \/ Visited \/ Finished \/ StartFailed
           \/ \E s \in Symbols : Visit(s)
  <2>1. /\ pc' \notin {"promote", "starting"} /\ cands' \in {cands, <<>>}
    BY <1>3 DEF Begin, Stopped, Visited, Finished, StartFailed, Visit, End
  <2>2. Distinct(<<>>)
    BY DEF Distinct
  <2>3. ChurnInv'
    BY <2>1, <2>2 DEF ChurnInv
  <2>4. \A s \in Symbols : worker'[s].draining = worker[s].draining
    <3>1. CASE UNCHANGED worker
      BY <3>1
    <3>2. CASE Stopped
      BY <1>2, <3>2 DEF Stopped, Worker
    <3>3. ASSUME NEW s \in Symbols, Visit(s)
          PROVE  \A t \in Symbols : worker'[t].draining = worker[t].draining
      BY <1>2, <3>3 DEF Visit, Worker
    <3> QED BY <1>3, <3>1, <3>2, <3>3 DEF Begin, Visited, Finished, StartFailed
  <2> QED BY <1>2, <2>3, <2>4
<1>4. CASE Scanned
  <2>1. ChurnInv'
    BY <1>1, <1>4, ChurnScanned DEF RebalancerInv
  <2>2. \A s \in Symbols : worker[s].draining => worker'[s].draining
    BY <1>2, <1>4 DEF Scanned, Worker
  <2> QED BY <1>2, <2>1, <2>2
<1>5. CASE Promote
  BY <1>5, ChurnPromote
<1>6. CASE Started
  <2>1. \A s \in Symbols : worker'[s].draining = worker[s].draining
    BY <1>2, <1>6 DEF Started, Worker
  <2> QED BY <1>2, <1>6, <2>1, ChurnStarted
<1>7. CASE BesideKeeps
  <2>1. \A s \in Symbols : worker[s].draining => worker'[s].draining
    BY <1>7 DEF BesideKeeps
  <2> QED BY <1>1, <1>2, <1>7, <2>1, ChurnBeside
<1>8. CASE UNCHANGED vars
  <2>1. UNCHANGED <<worker, connected, pc, cands, free, drained, beside>>
    BY <1>8 DEF vars, cycle
  <2> QED BY <2>1 DEF ChurnInv, DrainedLast, Waiting, Active
<1>9. CASE Others
  <2>1. BesideKeeps \/ StartFailed
    BY <1>9, OthersStep DEF RebalancerInv
  <2> QED BY <1>3, <1>7, <2>1
<1> QED BY <1>3, <1>4, <1>5, <1>6, <1>8, <1>9 DEF Next, CycleStep

LEMMA ChurnInit == Init => ChurnInv
<1>1. Distinct(<<>>)
  BY DEF Distinct
<1> QED BY <1>1 DEF Init, ChurnInv

\* With a rank buffer that is at least as large as the portfolio, as it is by default, a
\* pair drained for its rank is not promoted again by the same cycle, unless others take
\* slots meanwhile; with a smaller one TLC finds the cycle that does both.
THEOREM DrainedNotPromoted ==
  ASSUME MaxActive <= RankThreshold
  PROVE  Spec => NoChurn
<1>1. Init => RebalancerInv /\ ChurnInv
  BY RebalancerInit, ChurnInit
<1>2. RebalancerInv /\ ChurnInv /\ [Next]_vars => (RebalancerInv /\ ChurnInv)'
  BY RebalancerNext, ChurnNext
<1>3. RebalancerInv /\ ChurnInv /\ [Next]_vars
        => [\A s \in drained : beside = 0 /\ worker[s].draining => worker'[s].draining]_vars
  BY ChurnNext
<1> QED BY <1>1, <1>2, <1>3, PTL DEF Spec, NoChurn

\* The ranking of a scan: every market that passes the filters and no other, each once,
\* and none behind one that scores less.
THEOREM RankedByScore ==
  ASSUME NEW f \in [Symbols -> MarketMetric]
  PROVE  LET ranked == scan_and_rank_all_pairs(f) IN
         /\ ranked \in Seq(Symbols)
         /\ {ranked[i] : i \in DOMAIN ranked} = {s \in Symbols : Qualified(f[s])}
         /\ \A i, j \in DOMAIN ranked : i < j =>
              ranked[i] # ranked[j] /\ Score(f, ranked[i]) >= Score(f, ranked[j])
<1> DEFINE ranked == scan_and_rank_all_pairs(f)
<1>1. /\ ranked \in Seq(Symbols)
      /\ {ranked[i] : i \in DOMAIN ranked} = {s \in Symbols : Qualified(f[s])}
      /\ \A i, j \in DOMAIN ranked : i < j => Before(f, ranked[i], ranked[j])
  BY Ranked
<1> HIDE DEF ranked
<1>2. \A i \in DOMAIN ranked : ranked[i] \in Symbols
  BY <1>1
<1>3. \A i, j \in DOMAIN ranked : i < j =>
        ranked[i] # ranked[j] /\ Score(f, ranked[i]) >= Score(f, ranked[j])
  BY <1>1, <1>2, BeforeOrder
<1> QED BY <1>1, <1>3 DEF ranked
=============================================================================
