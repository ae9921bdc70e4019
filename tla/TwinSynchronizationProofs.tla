---------------------- MODULE TwinSynchronizationProofs ----------------------
(* The rate cap of the limiter, for every rate, burst and clock bound, and  *)
(* the accounts of the daemon, for any number of producers, any queue       *)
(* bound, both policies, with and without coalescing, and whatever fails.   *)
EXTENDS TwinSynchronization, FiniteSetTheorems, SequenceTheorems, WellFoundedInduction, TLAPS

-----------------------------------------------------------------------------
(* The limiter.                                                             *)

\* The bucket's typing: tokens stay between none and the burst, and neither
\* the last refill nor the observation window lies in the future.
THEOREM BucketTyping == BucketSpec => []BucketTypeOK
<1> USE BucketAssumption DEF BucketTypeOK, Capacity, Refilled, Lesser
<1>1. BucketInit => BucketTypeOK
  BY DEF BucketInit
<1>2. BucketTypeOK /\ [BucketNext]_bucketVars => BucketTypeOK'
  <2> SUFFICES ASSUME BucketTypeOK, [BucketNext]_bucketVars
               PROVE  BucketTypeOK'
    OBVIOUS
  <2>1. CASE Call
    BY <2>1 DEF Call
  <2>2. CASE Grant
    <3>1. Refilled(now) \in 0 .. Capacity
      BY <2>2 DEF Grant
    <3>2. QED
      BY <2>2, <3>1 DEF Grant
  <2>3. CASE Wait
    <3>1. Refilled(now) \in 0 .. Capacity
      BY <2>3 DEF Wait
    <3>2. SleepTicks(Refilled(now)) \in Nat
      BY <2>3, <3>1 DEF Wait, SleepTicks
    <3>3. QED
      BY <2>3, <3>1, <3>2 DEF Wait
  <2>4. CASE Wake
    BY <2>4 DEF Wake
  <2>5. CASE Tick
    BY <2>5 DEF Tick
  <2>6. CASE Observe
    BY <2>6 DEF Observe
  <2>7. CASE UNCHANGED bucketVars
    BY <2>7 DEF bucketVars
  <2>8. QED
    BY <2>1, <2>2, <2>3, <2>4, <2>5, <2>6, <2>7 DEF BucketNext
<1>3. QED
  BY <1>1, <1>2, PTL DEF BucketSpec

\* The grants of a window and what is left in the bucket stay within the
\* allowance of that window.
THEOREM BucketAllowance == BucketSpec => []Allowance
<1> USE BucketAssumption
<1>1. BucketInit => Allowance
  BY DEF BucketInit, Allowance, Refilled, Lesser, Capacity
<1>2. BucketTypeOK /\ BucketTypeOK' /\ Allowance /\ [BucketNext]_bucketVars => Allowance'
  <2> SUFFICES ASSUME BucketTypeOK, BucketTypeOK', Allowance, [BucketNext]_bucketVars
               PROVE  Allowance'
    OBVIOUS
  <2> USE DEF BucketTypeOK, Allowance
  <2>0. Capacity \in Nat
    BY DEF Capacity
  <2>1. CASE Call
    BY <2>1 DEF Call, Refilled, Lesser, Capacity
  <2>2. CASE Grant
    <3>1. /\ tokens' = Refilled(now) - Scale
          /\ last' = now
          /\ now' = now
          /\ opened' = opened
          /\ grants' = grants + 1
      BY <2>2 DEF Grant
    <3>2. Refilled(now)' = tokens'
      BY <3>1 DEF Refilled, Lesser, Capacity
    <3>3. (grants + 1) * Scale = grants * Scale + Scale
      OBVIOUS
    <3>4. Refilled(now) \in Nat /\ grants * Scale \in Nat /\ (now - opened) * Rate \in Int
      BY <2>0 DEF Refilled, Lesser
    <3>5. Capacity' = Capacity
      BY DEF Capacity
    <3>6. grants' * Scale + Refilled(now)' = grants * Scale + Refilled(now)
      BY <3>1, <3>2, <3>3, <3>4
    <3>7. QED
      BY <3>1, <3>5, <3>6
  <2>3. CASE Wait
    <3>1. /\ tokens' = Refilled(now)
          /\ last' = now
          /\ UNCHANGED <<now, opened, grants>>
      BY <2>3 DEF Wait
    <3>2. Refilled(now)' = Refilled(now)
      BY <3>1 DEF Refilled, Lesser, Capacity
    <3>3. QED
      BY <3>1, <3>2 DEF Capacity
  <2>4. CASE Wake
    BY <2>4 DEF Wake, Refilled, Lesser, Capacity
  <2>5. CASE Tick
    <3>1. now' = now + 1 /\ UNCHANGED <<tokens, last, opened, grants>>
      BY <2>5 DEF Tick
    <3>2. /\ (now + 1 - last) * Rate = (now - last) * Rate + Rate
          /\ (now + 1 - opened) * Rate = (now - opened) * Rate + Rate
      OBVIOUS
    <3>3. (now - last) * Rate \in Nat /\ (now - opened) * Rate \in Nat /\ grants * Scale \in Nat
      OBVIOUS
    <3>4. Refilled(now)' <= Refilled(now) + Rate
      BY <2>0, <3>1, <3>2, <3>3 DEF Refilled, Lesser, Capacity
    <3>5. Refilled(now) \in Nat /\ Refilled(now)' \in Nat
      BY <2>0, <3>1, <3>2, <3>3 DEF Refilled, Lesser, Capacity
    <3>6. Capacity' = Capacity /\ (grants * Scale)' = grants * Scale
      BY <3>1 DEF Capacity
    <3>7. QED
      BY <2>0, <3>1, <3>2, <3>3, <3>4, <3>5, <3>6
  <2>6. CASE Observe
    <3>1. opened' = now /\ grants' = 0 /\ UNCHANGED <<now, tokens, last>>
      BY <2>6 DEF Observe
    <3>2. Refilled(now)' <= Capacity'
      BY <2>0, <3>1 DEF Refilled, Lesser, Capacity
    <3>3. (now - now) * Rate = 0 /\ 0 * Scale = 0
      OBVIOUS
    <3>4. Refilled(now)' \in Nat /\ Capacity' \in Nat
      BY <2>0, <3>1 DEF Refilled, Lesser, Capacity
    <3>5. QED
      BY <3>1, <3>2, <3>3, <3>4
  <2>7. CASE UNCHANGED bucketVars
    BY <2>7 DEF bucketVars, Refilled, Lesser, Capacity
  <2>8. QED
    BY <2>1, <2>2, <2>3, <2>4, <2>5, <2>6, <2>7 DEF BucketNext
<1>3. QED
  BY <1>1, <1>2, BucketTyping, PTL DEF BucketSpec

\* The limiter's promise: no window of time sees more syncs than the burst
\* plus what the rate yields in that window.
THEOREM BucketRateCapped == BucketSpec => []RateCapped
<1>1. BucketTypeOK /\ Allowance => RateCapped
  <2> SUFFICES ASSUME BucketTypeOK, Allowance PROVE RateCapped
    OBVIOUS
  <2> USE BucketAssumption DEF BucketTypeOK
  <2>1. Capacity \in Nat /\ (now - opened) * Rate \in Nat /\ grants * Scale \in Nat
    BY DEF Capacity
  <2>2. Refilled(now) \in Nat
    BY <2>1 DEF Refilled, Lesser
  <2>3. QED
    BY <2>1, <2>2 DEF Allowance, RateCapped
<1>2. QED
  BY <1>1, BucketTyping, BucketAllowance, PTL

\* Multiplying by the rate keeps the order of two numbers of ticks.
LEMMA RateMonotone ==
  ASSUME NEW a \in Nat, NEW b \in Nat, NEW r \in Nat, a <= b
  PROVE  a * r <= b * r
<1>1. PICK d \in Nat : b = a + d
  <2>1. b - a \in Nat /\ b = a + (b - a)
    OBVIOUS
  <2>2. QED
    BY <2>1
<1>2. (a + d) * r = a * r + d * r
  OBVIOUS
<1>3. a * r \in Nat /\ d * r \in Nat
  OBVIOUS
<1>4. QED
  BY <1>1, <1>2, <1>3

\* What the division of SleepTicks returns: the least number of ticks in which
\* the missing units flow in.
LEMMA LeastTicks ==
  ASSUME BucketAssumption, NEW have \in Nat, have < Scale, NEW k \in Nat
  PROVE  /\ SleepTicks(have) \in Nat
         /\ k < SleepTicks(have) => k * Rate < Scale - have
         /\ k >= SleepTicks(have) => k * Rate >= Scale - have
<1> USE DEF BucketAssumption
<1> DEFINE m == Scale - have
           q == (m + (Rate - 1)) \div Rate
<1>1. m \in Nat \ {0}
  OBVIOUS
<1>2. q \in Nat /\ q * Rate <= m + (Rate - 1) /\ m + (Rate - 1) < q * Rate + Rate
  <2>1. \A n \in Nat, r \in Nat \ {0} :
          n \div r \in Nat /\ (n \div r) * r <= n /\ n < (n \div r) * r + r
    BY Z3
  <2>2. m + (Rate - 1) \in Nat
    BY <1>1
  <2> HIDE DEF m
  <2>3. QED
    BY <2>1, <2>2
<1>3. SleepTicks(have) = q
  BY DEF SleepTicks
<1> HIDE DEF m, q
<1>4. ASSUME k < q PROVE k * Rate < m
  <2>1. (k + 1) * Rate <= q * Rate
    BY <1>2, <1>4, RateMonotone
  <2>2. (k + 1) * Rate = k * Rate + Rate /\ k * Rate \in Nat /\ q * Rate \in Nat
    BY <1>2
  <2>3. QED
    BY <1>1, <1>2, <2>1, <2>2
<1>5. ASSUME k >= q PROVE k * Rate >= m
  <2>1. q * Rate <= k * Rate
    BY <1>2, <1>5, RateMonotone
  <2>2. k * Rate \in Nat /\ q * Rate \in Nat
    BY <1>2
  <2>3. QED
    BY <1>1, <1>2, <2>1, <2>2
<1>6. QED
  BY <1>2, <1>3, <1>4, <1>5 DEF m

\* While the worker sleeps, the deadline is the one the bucket's content at
\* the last refill asks for: nothing refills or spends behind its back.
SleepFollowsRefill ==
    pc = "sleep" => tokens < Scale /\ wake = last + SleepTicks(tokens)

\* The sleep of acquire (daemon.py:62) is neither too long nor too short, for
\* every rate, token size and burst.
THEOREM BucketSleepIsExact == BucketSpec => []SleepIsExact
<1> USE BucketAssumption
<1>1. BucketInit => SleepFollowsRefill
  BY DEF BucketInit, SleepFollowsRefill
<1>2. BucketTypeOK /\ SleepFollowsRefill /\ [BucketNext]_bucketVars => SleepFollowsRefill'
  <2> SUFFICES ASSUME BucketTypeOK, SleepFollowsRefill, [BucketNext]_bucketVars
               PROVE  SleepFollowsRefill'
    OBVIOUS
  <2> USE DEF SleepFollowsRefill
  <2>1. CASE Call
    BY <2>1 DEF Call
  <2>2. CASE Grant
    BY <2>2 DEF Grant
  <2>3. CASE Wait
    BY <2>3 DEF Wait, SleepTicks
  <2>4. CASE Wake
    BY <2>4 DEF Wake
  <2>5. CASE Tick
    BY <2>5 DEF Tick, SleepTicks
  <2>6. CASE Observe
    BY <2>6 DEF Observe, SleepTicks
  <2>7. CASE UNCHANGED bucketVars
    BY <2>7 DEF bucketVars, SleepTicks
  <2>8. QED
    BY <2>1, <2>2, <2>3, <2>4, <2>5, <2>6, <2>7 DEF BucketNext
<1>3. BucketTypeOK /\ SleepFollowsRefill => SleepIsExact
  <2> SUFFICES ASSUME BucketTypeOK, SleepFollowsRefill, pc = "sleep"
               PROVE  (now < wake => Refilled(now) < Scale) /\ (now >= wake => Refilled(now) >= Scale)
    BY DEF SleepIsExact, SleepIsNeeded, OneSleepIsEnough
  <2> DEFINE k == now - last
  <2>1. k \in Nat /\ tokens \in Nat /\ tokens < Scale /\ wake = last + SleepTicks(tokens)
    BY DEF BucketTypeOK, SleepFollowsRefill
  <2>2. /\ SleepTicks(tokens) \in Nat
        /\ k < SleepTicks(tokens) => k * Rate < Scale - tokens
        /\ k >= SleepTicks(tokens) => k * Rate >= Scale - tokens
    <3> HIDE DEF k
    <3> QED
      BY <2>1, LeastTicks
  <2>3. Scale <= Capacity /\ Capacity \in Nat
    <3>1. 1 * Scale <= Burst * Scale
      BY RateMonotone DEF BucketAssumption
    <3>2. QED
      BY <3>1 DEF Capacity, BucketAssumption
  <2>4. k * Rate \in Nat /\ Rate \in Nat /\ Scale \in Nat
    BY <2>1 DEF BucketAssumption
  <2>5. Refilled(now) < Scale <=> k * Rate < Scale - tokens
    BY <2>1, <2>3, <2>4 DEF Refilled, Lesser
  <2>6. Refilled(now) \in Nat
    BY <2>1, <2>3, <2>4 DEF Refilled, Lesser
  <2>7. now \in Nat /\ last \in Nat
    BY DEF BucketTypeOK, BucketAssumption
  <2>8. QED
    BY <2>1, <2>2, <2>4, <2>5, <2>6, <2>7
<1>4. QED
  BY <1>1, <1>2, <1>3, BucketTyping, PTL DEF BucketSpec

-----------------------------------------------------------------------------
(* The daemon.                                                              *)

\* Typing and the queue's count of unfinished tasks are inductive together:
\* the worker's and stop's task_done never go below zero because of the count.
Counted == TypeOK /\ UnfinishedExact

----------------------------------------------------------------------------
\* A nonempty set of positions of a sequence has a last one.
LEMMA LastExists ==
    ASSUME NEW n \in Nat, NEW S \in SUBSET (1 .. n), S # {}
    PROVE  \E i \in S : \A j \in S : i >= j
<1> DEFINE T == {n - i : i \in S}
<1>1. T \subseteq Nat /\ T # {}
  <2>1. \A i \in S : n - i \in Nat
    OBVIOUS
  <2>2. T # {}
    OBVIOUS
  <2>3. QED
    BY <2>1, <2>2
<1>2. PICK x \in T : \A y \in T : ~ (<<y, x>> \in OpToRel(<, Nat))
  BY <1>1, NatLessThanWellFounded, WFMin
<1>3. PICK i \in S : x = n - i
  BY <1>2
<1>4. ASSUME NEW j \in S PROVE i >= j
  <2>1. n - j \in T /\ n - j \in Nat /\ x \in Nat
    BY <1>1, <1>4
  <2>2. ~ (n - j < x)
    BY <1>2, <2>1 DEF OpToRel
  <2>3. i \in 1 .. n /\ j \in 1 .. n
    BY <1>3, <1>4
  <2>4. i \in Nat /\ j \in Nat
    BY <2>3
  <2>5. QED
    BY <1>3, <2>2, <2>4
<1>5. QED
  BY <1>4

\* Raising one counter keeps the others.
LEMMA CounterUpdate ==
    ASSUME NEW s \in [Counters -> Nat], NEW c \in Counters, NEW n \in Nat
    PROVE  /\ [s EXCEPT ![c] = n] \in [Counters -> Nat]
           /\ [s EXCEPT ![c] = n][c] = n
           /\ \A d \in Counters \ {c} : [s EXCEPT ![c] = n][d] = s[d]
  OBVIOUS

LEMMA CounterNames ==
    {"submitted", "rejected_full", "rejected_out_of_order", "synced", "coalesced",
     "errors", "discarded_on_stop", "max_queue_depth"} \subseteq Counters
  BY DEF Counters

\* What SyncSucceeds does to the counters.
LEMMA SyncCounters ==
    ASSUME StatsOK, WorkerOK, SyncSucceeds
    PROVE  /\ StatsOK'
           /\ stats'["synced"] = stats["synced"] + 1
           /\ stats'["coalesced"] = stats["coalesced"] + Len(batch) - 1
           /\ \A c \in Counters \ {"synced", "coalesced"} : stats'[c] = stats[c]
<1> DEFINE once == [stats EXCEPT !["synced"] = stats["synced"] + 1]
<1>1. stats \in [Counters -> Nat] /\ stats["synced"] \in Nat /\ stats["coalesced"] \in Nat
  BY CounterNames DEF StatsOK
<1>2. Len(batch) \in Nat \ {0}
  BY DEF WorkerOK, SyncSucceeds
<1>3. /\ once \in [Counters -> Nat]
      /\ once["synced"] = stats["synced"] + 1
      /\ \A c \in Counters \ {"synced"} : once[c] = stats[c]
  BY <1>1, CounterUpdate, CounterNames
<1>4. stats' = [once EXCEPT !["coalesced"] = stats["coalesced"] + Len(batch) - 1]
  BY <1>1, <1>3, CounterNames DEF SyncSucceeds
<1>5. stats["coalesced"] + Len(batch) - 1 \in Nat
  BY <1>1, <1>2
<1> HIDE DEF once
<1>6. /\ stats' \in [Counters -> Nat]
      /\ stats'["coalesced"] = stats["coalesced"] + Len(batch) - 1
      /\ \A c \in Counters \ {"coalesced"} : stats'[c] = once[c]
  BY <1>3, <1>4, <1>5, CounterUpdate, CounterNames
<1>7. QED
  BY <1>3, <1>6, CounterNames DEF StatsOK

\* What ReturnAccepted does to the counters.
LEMMA AcceptCounters ==
    ASSUME QueueOK, StatsOK, NEW p \in Producers, ReturnAccepted(p)
    PROVE  /\ StatsOK'
           /\ stats'["submitted"] = stats["submitted"] + 1
           /\ \A c \in Counters \ {"submitted", "max_queue_depth"} : stats'[c] = stats[c]
<1> DEFINE once == [stats EXCEPT !["submitted"] = stats["submitted"] + 1]
           depth == Greater(stats["max_queue_depth"], Len(queue))
<1>1. stats \in [Counters -> Nat] /\ stats["submitted"] \in Nat /\ stats["max_queue_depth"] \in Nat
  BY CounterNames DEF StatsOK
<1>2. depth \in Nat /\ depth <= MaxQueue
  BY <1>1, DaemonAssumption DEF QueueOK, StatsOK, Greater
<1>3. /\ once \in [Counters -> Nat]
      /\ once["submitted"] = stats["submitted"] + 1
      /\ \A c \in Counters \ {"submitted"} : once[c] = stats[c]
  BY <1>1, CounterUpdate, CounterNames
<1>4. stats' = [once EXCEPT !["max_queue_depth"] = depth]
  BY <1>1, <1>3, CounterNames DEF ReturnAccepted
<1> HIDE DEF once, depth
<1>5. /\ stats' \in [Counters -> Nat]
      /\ stats'["max_queue_depth"] = depth
      /\ \A c \in Counters \ {"max_queue_depth"} : stats'[c] = once[c]
  BY <1>2, <1>3, <1>4, CounterUpdate, CounterNames
<1>6. QED
  BY <1>2, <1>3, <1>5, CounterNames DEF StatsOK

\* What a single count does to the counters.
LEMMA OneCounter ==
    ASSUME StatsOK, NEW c \in Counters \ {"max_queue_depth"}, Count(c, 1)
    PROVE  /\ StatsOK'
           /\ stats'[c] = stats[c] + 1
           /\ \A d \in Counters \ {c} : stats'[d] = stats[d]
<1>1. stats \in [Counters -> Nat] /\ stats[c] + 1 \in Nat /\ stats' = [stats EXCEPT ![c] = stats[c] + 1]
  BY DEF StatsOK, Count
<1>2. QED
  BY <1>1, CounterUpdate, CounterNames DEF StatsOK
----------------------------------------------------------------------------
LEMMA CountedInitially == Init => Counted
<1> SUFFICES ASSUME Init PROVE Counted
  OBVIOUS
<1> USE DaemonAssumption DEF Init
<1>1. QueueOK /\ UnfinishedExact
  BY DEF QueueOK, UnfinishedExact, InStopsHand
<1>2. StatsOK
  BY DEF StatsOK, Counters
<1>3. SubmitOK
  BY DEF SubmitOK, Places
<1>4. WorkerOK
  BY DEF WorkerOK, WorkerPlaces
<1>5. StopOK
  BY Zenon DEF StopOK, StopPlaces
<1>6. QED
  BY <1>1, <1>2, <1>3, <1>4, <1>5 DEF Counted, TypeOK

\* A call of submit keeps typing and the queue's count.
LEMMA CountedBySubmit ==
    ASSUME Counted, NEW p \in Producers, Submit(p)
    PROVE  Counted'
<1> USE DaemonAssumption
<1>0. QueueOK /\ StatsOK /\ SubmitOK /\ WorkerOK /\ StopOK /\ UnfinishedExact
  BY DEF Counted, TypeOK
<1>1. /\ UNCHANGED <<workerVars, stopVars>> /\ WorkerOK' /\ StopOK' /\ batch' = batch
      /\ InStopsHand' = InStopsHand /\ InStopsHand \in Nat
  <2>1. UNCHANGED <<workerVars, stopVars>>
    BY DEF Submit, RejectStale, Admit, Put, Full, ReturnRefused, ReturnAccepted
  <2>2. WorkerOK'
    BY <1>0, <2>1 DEF WorkerOK, workerVars
  <2>3. StopOK'
    BY <1>0, <2>1 DEF StopOK, stopVars
  <2>4. QED
    BY <2>1, <2>2, <2>3 DEF workerVars, stopVars, InStopsHand
<1>2. ASSUME NEW at \in Stamps, RejectStale(p, at)
      PROVE  QueueOK' /\ StatsOK' /\ SubmitOK' /\ UnfinishedExact'
  <2>1. StatsOK'
    BY <1>0, <1>2, OneCounter, CounterNames DEF RejectStale, Counters
  <2>2. QED
    BY <1>0, <1>1, <1>2, <2>1 DEF RejectStale, MayCall, QueueOK, SubmitOK, UnfinishedExact
<1>3. ASSUME NEW at \in Stamps, NEW keys \in SUBSET Keys, Admit(p, at, keys)
      PROVE  QueueOK' /\ StatsOK' /\ SubmitOK' /\ UnfinishedExact'
  <2> DEFINE new == [no |-> offered + 1, at |-> at, keys |-> keys]
  <2>1. offered + 1 \in 1 .. MaxSubmissions
    BY <1>0, <1>3 DEF Admit, MayCall, SubmitOK
  <2>2. new \in Items
    BY <2>1 DEF Items
  <2>3. item' = [item EXCEPT ![p] = new]
    BY <1>3 DEF Admit
  <2> HIDE DEF new
  <2>4. item' \in [Producers -> Items \cup {NoItem}] /\ item'[p] \in Items
    BY <1>0, <2>2, <2>3 DEF SubmitOK
  <2>5. \A q \in Producers \ {p} : item'[q] = item[q]
    BY <1>0, <2>3 DEF SubmitOK
  <2>6. SubmitOK'
    BY <1>0, <1>3, <2>1, <2>4, <2>5 DEF Admit, SubmitOK, Places
  <2>7. QED
    BY <1>0, <1>1, <1>3, <2>6 DEF Admit, QueueOK, StatsOK, UnfinishedExact
<1>4. ASSUME Put(p)
      PROVE  QueueOK' /\ StatsOK' /\ SubmitOK' /\ UnfinishedExact'
  <2>1. item[p] \in Items /\ item[p].at \in Nat
    BY <1>0, <1>4 DEF Put, SubmitOK, Items
  <2>2. queue' \in Seq(Items) /\ Len(queue') = Len(queue) + 1
    BY <1>0, <1>4, <2>1 DEF Put, QueueOK
  <2>3. QueueOK' /\ UnfinishedExact'
    BY <1>0, <1>1, <1>4, <2>2 DEF Put, QueueOK, UnfinishedExact, WorkerOK
  <2>4. SubmitOK'
    BY <1>0, <1>4, <2>1 DEF Put, SubmitOK, Places
  <2>5. QED
    BY <1>0, <1>4, <2>3, <2>4 DEF Put, StatsOK
<1>5. ASSUME Full(p)
      PROVE  QueueOK' /\ StatsOK' /\ SubmitOK' /\ UnfinishedExact'
  BY <1>0, <1>1, <1>5 DEF Full, QueueOK, StatsOK, SubmitOK, UnfinishedExact, Places
<1>6. ASSUME ReturnRefused(p)
      PROVE  QueueOK' /\ StatsOK' /\ SubmitOK' /\ UnfinishedExact'
  <2>1. StatsOK'
    BY <1>0, <1>6, OneCounter, CounterNames DEF ReturnRefused, Counters
  <2>2. QED
    BY <1>0, <1>1, <1>6, <2>1 DEF ReturnRefused, QueueOK, SubmitOK, UnfinishedExact, Places
<1>7. ASSUME ReturnAccepted(p)
      PROVE  QueueOK' /\ StatsOK' /\ SubmitOK' /\ UnfinishedExact'
  <2>1. StatsOK'
    BY <1>0, <1>7, AcceptCounters
  <2>2. QED
    BY <1>0, <1>1, <1>7, <2>1 DEF ReturnAccepted, QueueOK, SubmitOK, UnfinishedExact, Places
<1>8. QED
  BY <1>1, <1>2, <1>3, <1>4, <1>5, <1>6, <1>7 DEF Submit, Counted, TypeOK

\* Every key of a synced twin names a submission.
LEMMA MergedType ==
    ASSUME WorkerOK, NEW k \in Keys
    PROVE  Merged(k) \in Nat
<1> DEFINE S == {i \in 1 .. Len(batch) : k \in batch[i].keys}
           final == CHOOSE i \in S : \A j \in S : i >= j
<1>1. CASE S = {}
  BY <1>1 DEF Merged, WorkerOK
<1>2. CASE S # {}
  <2>0. Len(batch) \in Nat /\ S \in SUBSET (1 .. Len(batch))
    BY DEF WorkerOK
  <2>1. \E i \in S : \A j \in S : i >= j
    BY <1>2, <2>0, LastExists
  <2>2. final \in S
    BY <2>1
  <2>3. batch[final] \in Items
    BY <2>0, <2>2 DEF WorkerOK
  <2>4. Merged(k) = batch[final].no
    BY <1>2 DEF Merged
  <2>5. QED
    BY <2>3, <2>4 DEF Items
<1>3. QED
  BY <1>1, <1>2

\* A step of the worker keeps typing and the queue's count.
LEMMA CountedByWorker ==
    ASSUME Counted, Start \/ Worker
    PROVE  Counted'
<1> USE DaemonAssumption
<1>0. QueueOK /\ StatsOK /\ SubmitOK /\ WorkerOK /\ StopOK /\ UnfinishedExact
  BY DEF Counted, TypeOK
<1>1. /\ UNCHANGED <<producerVars, stopVars>> /\ SubmitOK' /\ StopOK'
      /\ InStopsHand' = InStopsHand /\ InStopsHand \in Nat
  <2>1. UNCHANGED <<producerVars, stopVars>>
    BY DEF Worker, Start, CheckStop, Get, GetTimeout, TakeMore, BatchComplete, SyncSucceeds,
           SyncFails, OnSyncReturns, OnSyncRaises, TaskDone, BatchDone
  <2>2. QED
    BY <1>0, <2>1 DEF SubmitOK, StopOK, producerVars, stopVars, InStopsHand
<1> DEFINE Kept == QueueOK' /\ StatsOK' /\ WorkerOK' /\ UnfinishedExact'
<1> SUFFICES Kept
  BY <1>1 DEF Counted, TypeOK
<1>2. ASSUME UNCHANGED <<queue, unfinished, stats, batch, twin, lost>>,
             wpc' \in WorkerPlaces,
             wpc' \in {"coalesce", "sync", "on_sync"} => batch # <<>>,
             wpc' \in {"unstarted", "check", "get", "exited", "dead"} => batch = <<>>
      PROVE  Kept
  BY <1>0, <1>1, <1>2 DEF QueueOK, StatsOK, WorkerOK, UnfinishedExact
<1>3. CASE Start
  BY <1>0, <1>2, <1>3 DEF Start, WorkerPlaces, WorkerOK
<1>4. CASE CheckStop
  BY <1>0, <1>2, <1>4 DEF CheckStop, WorkerPlaces, WorkerOK
<1>5. CASE Get
  <2>1. /\ batch' \in Seq(Items) /\ Len(batch') = 1
        /\ queue' \in Seq(Items) /\ Len(queue') = Len(queue) - 1
    BY <1>0, <1>5 DEF Get, QueueOK
  <2>2. batch = <<>> /\ batch' # <<>>
    BY <1>0, <1>5, <2>1 DEF Get, WorkerOK
  <2>3. QueueOK' /\ UnfinishedExact'
    BY <1>0, <1>1, <1>5, <2>1, <2>2 DEF Get, QueueOK, UnfinishedExact
  <2>4. WorkerOK'
    BY <1>0, <1>5, <2>1, <2>2 DEF Get, WorkerOK, WorkerPlaces
  <2>5. QED
    BY <1>0, <1>5, <2>3, <2>4 DEF Get, StatsOK
<1>6. CASE GetTimeout
  BY <1>0, <1>2, <1>6 DEF GetTimeout, WorkerPlaces, WorkerOK
<1>7. CASE TakeMore
  <2>1. /\ batch' \in Seq(Items) /\ Len(batch') = Len(batch) + 1
        /\ queue' \in Seq(Items) /\ Len(queue') = Len(queue) - 1
    BY <1>0, <1>7 DEF TakeMore, QueueOK, WorkerOK
  <2>2. batch' # <<>> /\ wpc' = "coalesce"
    BY <1>0, <1>7, <2>1 DEF TakeMore, WorkerOK
  <2>3. QueueOK' /\ UnfinishedExact'
    BY <1>0, <1>1, <1>7, <2>1 DEF TakeMore, QueueOK, WorkerOK, UnfinishedExact
  <2>4. WorkerOK'
    BY <1>0, <1>7, <2>1, <2>2 DEF TakeMore, WorkerOK, WorkerPlaces
  <2>5. QED
    BY <1>0, <1>7, <2>3, <2>4 DEF TakeMore, StatsOK
<1>8. CASE BatchComplete
  BY <1>0, <1>2, <1>8 DEF BatchComplete, WorkerPlaces, WorkerOK
<1>9. CASE SyncSucceeds
  <2>1. batch # <<>> /\ batch[Len(batch)] \in Items
    BY <1>0, <1>9 DEF SyncSucceeds, WorkerOK
  <2>2. \A k \in Keys : Merged(k) \in Nat
    BY <1>0, MergedType
  <2>3. twin' \in [at : Nat, fps : [Keys -> Nat]]
    BY <1>9, <2>1, <2>2 DEF SyncSucceeds, Items
  <2>4. WorkerOK'
    BY <1>0, <1>9, <2>1, <2>3 DEF SyncSucceeds, WorkerOK, WorkerPlaces
  <2>5. StatsOK'
    BY <1>0, <1>9, SyncCounters
  <2>6. QED
    BY <1>0, <1>1, <1>9, <2>4, <2>5 DEF SyncSucceeds, QueueOK, UnfinishedExact
<1>10. CASE SyncFails
  <2>1. StatsOK'
    BY <1>0, <1>10, OneCounter DEF SyncFails, Counters
  <2>2. WorkerOK'
    BY <1>0, <1>10 DEF SyncFails, WorkerOK, WorkerPlaces
  <2>3. QED
    BY <1>0, <1>1, <1>10, <2>1, <2>2 DEF SyncFails, QueueOK, UnfinishedExact
<1>11. CASE OnSyncReturns
  BY <1>0, <1>2, <1>11 DEF OnSyncReturns, WorkerPlaces, WorkerOK
<1>12. CASE OnSyncRaises
  BY <1>0, <1>2, <1>12 DEF OnSyncRaises, WorkerPlaces, WorkerOK
<1>13. CASE TaskDone
  <2>1. batch' \in Seq(Items) /\ Len(batch') = Len(batch) - 1 /\ Len(batch) \in Nat \ {0}
    BY <1>0, <1>13 DEF TaskDone, WorkerOK
  <2>2. WorkerOK'
    BY <1>0, <1>13, <2>1 DEF TaskDone, WorkerOK, WorkerPlaces
  <2>3. QED
    BY <1>0, <1>1, <1>13, <2>1, <2>2 DEF TaskDone, QueueOK, StatsOK, UnfinishedExact
<1>14. CASE BatchDone
  BY <1>0, <1>2, <1>14 DEF BatchDone, WorkerPlaces, WorkerOK
<1>15. QED
  BY <1>3, <1>4, <1>5, <1>6, <1>7, <1>8, <1>9, <1>10, <1>11, <1>12, <1>13, <1>14 DEF Worker

\* A step of the controlling thread keeps typing and the queue's count.
LEMMA CountedByStop ==
    ASSUME Counted, (\E drain \in BOOLEAN : StopCalled(drain)) \/ Stopping
    PROVE  Counted'
<1> USE DaemonAssumption
<1>0. QueueOK /\ StatsOK /\ SubmitOK /\ WorkerOK /\ StopOK /\ UnfinishedExact
  BY DEF Counted, TypeOK
<1>1. SubmitOK' /\ WorkerOK' /\ batch' = batch
  <2>1. UNCHANGED <<producerVars, workerVars>>
    BY DEF Stopping, StopCalled, JoinQueue, SetStop, JoinThread, DiscardTakes, DiscardCounts,
           DiscardDone, StopReturns
  <2>2. QED
    BY <1>0, <2>1 DEF SubmitOK, WorkerOK, producerVars, workerVars
<1>2. StopOK'
  <2>1. spc' \in StopPlaces
    BY <1>0 DEF Stopping, StopCalled, JoinQueue, SetStop, JoinThread, DiscardTakes, DiscardCounts,
                DiscardDone, StopReturns, stopVars, StopOK, StopPlaces, Discarding
  <2>2. stopSet' = stopSet \/ stopSet' = TRUE
    BY DEF Stopping, StopCalled, JoinQueue, SetStop, JoinThread, DiscardTakes, DiscardCounts,
           DiscardDone, StopReturns, stopVars
  <2>3. stopSet' \in BOOLEAN
    BY Zenon, <1>0, <2>2 DEF StopOK
  <2>4. QED
    BY <2>1, <2>3 DEF StopOK
<1>3. QueueOK' /\ StatsOK' /\ UnfinishedExact'
  <2>1. CASE DiscardTakes
    <3>1. queue' \in Seq(Items) /\ Len(queue') = Len(queue) - 1 /\ Len(queue) \in Nat \ {0}
      BY <1>0, <2>1 DEF DiscardTakes, QueueOK
    <3>2. InStopsHand = 0 /\ InStopsHand' = 1
      BY <2>1 DEF DiscardTakes, InStopsHand
    <3>3. QED
      BY <1>0, <1>1, <2>1, <3>1, <3>2 DEF DiscardTakes, QueueOK, StatsOK, UnfinishedExact, WorkerOK
  <2>2. CASE DiscardCounts
    <3>1. StatsOK'
      BY <1>0, <2>2, OneCounter DEF DiscardCounts, Counters
    <3>2. InStopsHand' = InStopsHand
      BY <2>2 DEF DiscardCounts, InStopsHand
    <3>3. QED
      BY <1>0, <1>1, <2>2, <3>1, <3>2 DEF DiscardCounts, QueueOK, UnfinishedExact
  <2>3. CASE DiscardDone
    <3>1. InStopsHand = 1 /\ InStopsHand' = 0
      BY <2>3 DEF DiscardDone, InStopsHand
    <3>2. Len(queue) \in Nat /\ Len(batch) \in Nat
      BY <1>0 DEF QueueOK, WorkerOK
    <3>3. QED
      BY <1>0, <1>1, <2>3, <3>1, <3>2 DEF DiscardDone, QueueOK, StatsOK, UnfinishedExact
  <2>4. CASE ~ (DiscardTakes \/ DiscardCounts \/ DiscardDone)
    <3>1. UNCHANGED <<queue, unfinished, stats>> /\ InStopsHand' = InStopsHand
      BY <2>4 DEF Stopping, StopCalled, JoinQueue, SetStop, JoinThread, StopReturns, InStopsHand
    <3>2. QED
      BY <1>0, <1>1, <3>1 DEF QueueOK, StatsOK, UnfinishedExact
  <2>5. QED
    BY <2>1, <2>2, <2>3, <2>4
<1>4. QED
  BY <1>1, <1>2, <1>3 DEF Counted, TypeOK

LEMMA CountedByStep == Counted /\ [Next]_vars => Counted'
<1> SUFFICES ASSUME Counted, [Next]_vars PROVE Counted'
  OBVIOUS
<1>1. ASSUME NEW p \in Producers, Submit(p) PROVE Counted'
  BY <1>1, CountedBySubmit
<1>2. CASE Start \/ Worker
  BY <1>2, CountedByWorker
<1>3. CASE (\E drain \in BOOLEAN : StopCalled(drain)) \/ Stopping
  BY <1>3, CountedByStop
<1>4. CASE UNCHANGED vars
  BY <1>4 DEF vars, producerVars, workerVars, stopVars, Counted, TypeOK, QueueOK, StatsOK,
              SubmitOK, WorkerOK, StopOK, UnfinishedExact, InStopsHand
<1>5. QED
  BY <1>1, <1>2, <1>3, <1>4 DEF Next

\* Typing: in particular the queue and the recorded depth never exceed
\* max_queue, and every twin comes from a submission.
THEOREM DaemonTyping == Safety => []TypeOK
<1>1. Counted => TypeOK
  BY DEF Counted
<1>2. QED
  BY <1>1, CountedInitially, CountedByStep, PTL DEF Safety

\* The count wait_idle and stop(drain=True) wait on is exact at every point
\* where another thread can look: what is queued, what the worker holds and the
\* item stop took and has not yet marked done.
THEOREM DaemonUnfinishedExact == Safety => []UnfinishedExact
<1>1. Counted => UnfinishedExact
  BY DEF Counted
<1>2. QED
  BY <1>1, CountedInitially, CountedByStep, PTL DEF Safety

----------------------------------------------------------------------------
\* How the number of producers at a place of submit changes when one of them
\* moves.
LEMMA AtFinite ==
    ASSUME NEW place
    PROVE  IsFiniteSet(At(place)) /\ Cardinality(At(place)) \in Nat
  BY DaemonAssumption, FS_Subset, FS_CardinalityType DEF At

LEMMA Arrives ==
    ASSUME SubmitOK, NEW p \in Producers, NEW place, ppc[p] # place,
           ppc' = [ppc EXCEPT ![p] = place]
    PROVE  Cardinality(At(place)') = Cardinality(At(place)) + 1
<1>1. At(place)' = At(place) \cup {p} /\ p \notin At(place)
  BY DEF At, SubmitOK
<1>2. QED
  BY <1>1, AtFinite, FS_AddElement

LEMMA Leaves ==
    ASSUME SubmitOK, NEW p \in Producers, NEW place, NEW next, ppc[p] = place, next # place,
           ppc' = [ppc EXCEPT ![p] = next]
    PROVE  Cardinality(At(place)') = Cardinality(At(place)) - 1
<1>1. At(place)' = At(place) \ {p} /\ p \in At(place)
  BY DEF At, SubmitOK
<1>2. QED
  BY <1>1, AtFinite, FS_RemoveElement

LEMMA StaysAway ==
    ASSUME SubmitOK, NEW p \in Producers, NEW place, NEW next, ppc[p] # place, next # place,
           ppc' = [ppc EXCEPT ![p] = next]
    PROVE  At(place)' = At(place)
  BY DEF At, SubmitOK

\* The producers inside submit are those not outside it.
LEMMA InsideCount ==
    ASSUME NEW S \in SUBSET Producers
    PROVE  Cardinality(Producers \ S) = Cardinality(Producers) - Cardinality(S)
<1>1. Producers \cap S = S
  OBVIOUS
<1>2. QED
  BY <1>1, DaemonAssumption, FS_Difference

Accounts == AcceptedAccounted /\ CallsAccounted

LEMMA StatsNumbers ==
    ASSUME StatsOK
    PROVE  /\ stats["submitted"] \in Nat /\ stats["synced"] \in Nat
           /\ stats["coalesced"] \in Nat /\ stats["discarded_on_stop"] \in Nat
           /\ stats["rejected_full"] \in Nat /\ stats["rejected_out_of_order"] \in Nat
  BY CounterNames DEF StatsOK

LEMMA AccountsInitially == Init => Accounts
<1> SUFFICES ASSUME Init PROVE Accounts
  OBVIOUS
<1>1. At("accepted") = {} /\ Producers \ At("out") = {}
  BY DEF Init, At
<1>2. \A c \in Counters : stats[c] = 0
  BY DEF Init
<1>3. Len(queue) = 0 /\ Len(Unsettled) = 0 /\ Uncounted = 0 /\ lost = 0 /\ offered = 0
  BY DEF Init, Unsettled, Uncounted
<1>4. Cardinality(At("accepted")) = 0 /\ Cardinality(Producers \ At("out")) = 0
  BY <1>1, FS_EmptySet
<1>5. AcceptedAccounted
  <2>1. /\ stats["submitted"] = 0 /\ stats["synced"] = 0 /\ stats["coalesced"] = 0
        /\ stats["discarded_on_stop"] = 0
    BY <1>2, CounterNames
  <2>2. Settled = 0
    BY <1>3, <2>1 DEF Settled
  <2>3. QED
    BY <1>3, <1>4, <2>1, <2>2 DEF AcceptedAccounted
<1>6. CallsAccounted
  <2>1. /\ stats["submitted"] = 0 /\ stats["rejected_full"] = 0
        /\ stats["rejected_out_of_order"] = 0
    BY <1>2, CounterNames
  <2>2. QED
    BY <1>3, <1>4, <2>1 DEF CallsAccounted
<1>7. QED
  BY <1>5, <1>6 DEF Accounts

LEMMA SettledType ==
    ASSUME StatsOK, WorkerOK
    PROVE  Settled \in Nat
<1>1. stats["synced"] \in Nat /\ stats["coalesced"] \in Nat /\ stats["discarded_on_stop"] \in Nat
  BY StatsNumbers
<1>2. lost \in Nat
  BY DEF WorkerOK
<1> HIDE DEF StatsOK, WorkerOK
<1>3. \A a, b, c, d \in Nat : a + b + c + d \in Nat
  OBVIOUS
<1>4. stats["synced"] + stats["coalesced"] + lost + stats["discarded_on_stop"] \in Nat
  BY <1>1, <1>2, <1>3
<1>5. QED
  BY <1>4 DEF Settled

LEMMA AccountsBySubmit ==
    ASSUME Counted, Counted', Accounts, NEW p \in Producers, Submit(p)
    PROVE  Accounts'
<1>0. QueueOK /\ StatsOK /\ SubmitOK /\ WorkerOK /\ QueueOK' /\ StatsOK' /\ SubmitOK' /\ WorkerOK'
  BY DEF Counted, TypeOK
<1>1. /\ Unsettled' = Unsettled /\ lost' = lost /\ Len(Unsettled) \in Nat /\ Settled \in Nat
      /\ Uncounted' = Uncounted /\ Uncounted \in Nat
  <2>1. UNCHANGED <<workerVars, stopVars>>
    BY DEF Submit, RejectStale, Admit, Put, Full, ReturnRefused, ReturnAccepted
  <2>2. QED
    BY <1>0, <2>1, SettledType DEF Unsettled, Uncounted, workerVars, stopVars, WorkerOK
<1>2. Cardinality(At("accepted")) \in Nat /\ Cardinality(At("out")) \in Nat
      /\ Cardinality(Producers) \in Nat
  BY AtFinite, DaemonAssumption, FS_CardinalityType
<1>3. Len(queue) \in Nat /\ offered \in Nat
  BY <1>0, DaemonAssumption DEF QueueOK, SubmitOK
<1>4. /\ Cardinality(Producers \ At("out")) = Cardinality(Producers) - Cardinality(At("out"))
      /\ Cardinality(Producers \ At("out"))' = Cardinality(Producers) - Cardinality(At("out")')
  <2>1. At("out") \in SUBSET Producers /\ At("out")' \in SUBSET Producers
    BY DEF At
  <2>2. QED
    BY <2>1, InsideCount
<1>12. stats["submitted"] \in Nat /\ stats["rejected_full"] \in Nat /\ stats["rejected_out_of_order"] \in Nat
  BY <1>0, StatsNumbers
<1>14. Cardinality(Producers \ At("out")) \in Int
  BY <1>2, <1>4
<1>15. CallsAccounted
  BY DEF Accounts
<1>13. /\ stats["submitted"] \in Nat /\ Cardinality(At("accepted")) \in Nat
       /\ Len(queue) \in Nat /\ Len(Unsettled) \in Nat /\ Settled \in Nat
       /\ Unsettled' = Unsettled /\ Uncounted' = Uncounted /\ Uncounted \in Nat
  BY <1>1, <1>2, <1>3, <1>12
<1>5. ASSUME NEW at \in Stamps, RejectStale(p, at)
      PROVE  Accounts'
  <2>1. At("accepted")' = At("accepted") /\ At("out")' = At("out") /\ UNCHANGED queue
    BY <1>5 DEF RejectStale, At
  <2>2. /\ stats'["rejected_out_of_order"] = stats["rejected_out_of_order"] + 1
        /\ \A d \in Counters \ {"rejected_out_of_order"} : stats'[d] = stats[d]
    BY <1>0, <1>5, OneCounter, CounterNames DEF RejectStale
  <2>3. offered' = offered + 1
    BY <1>5 DEF RejectStale
  <2>4. AcceptedAccounted'
    <3>1. /\ stats'["submitted"] = stats["submitted"]
          /\ stats'["synced"] = stats["synced"]
          /\ stats'["coalesced"] = stats["coalesced"]
          /\ stats'["discarded_on_stop"] = stats["discarded_on_stop"]
      BY <2>2, CounterNames
    <3>2. QED
      BY <1>1, <2>1, <3>1 DEF Accounts, AcceptedAccounted, Settled
  <2>5. CallsAccounted'
    <3>1. stats'["submitted"] = stats["submitted"] /\ stats'["rejected_full"] = stats["rejected_full"]
      BY <2>2, CounterNames
    <3>2. Cardinality(Producers \ At("out"))' = Cardinality(Producers \ At("out"))
      BY <2>1
    <3>3. stats'["rejected_out_of_order"] = stats["rejected_out_of_order"] + 1
      BY <2>2
    <3> DEFINE a == stats["submitted"]
               b == stats["rejected_full"]
               c == stats["rejected_out_of_order"]
               i == Cardinality(Producers \ At("out"))
    <3>4. offered = a + b + c + i
      BY <1>15 DEF CallsAccounted
    <3>5. CallsAccounted' <=> offered + 1 = a + b + (c + 1) + i
      BY <2>3, <3>1, <3>2, <3>3 DEF CallsAccounted
    <3>6. offered \in Nat /\ a \in Nat /\ b \in Nat /\ c \in Nat /\ i \in Int
      BY <1>3, <1>12, <1>14
    <3> HIDE DEF a, b, c, i
    <3>7. QED
      BY <3>4, <3>5, <3>6
  <2>6. QED
    BY <2>4, <2>5 DEF Accounts
<1>6. ASSUME NEW at \in Stamps, NEW keys \in SUBSET Keys, Admit(p, at, keys)
      PROVE  Accounts'
  <2>1. At("accepted")' = At("accepted")
    BY <1>0, <1>6, StaysAway DEF Admit, MayCall
  <2>2. Cardinality(At("out")') = Cardinality(At("out")) - 1
    BY <1>0, <1>6, Leaves DEF Admit, MayCall
  <2>3. offered' = offered + 1 /\ UNCHANGED <<queue, stats>>
    BY <1>6 DEF Admit
  <2>4. AcceptedAccounted'
    BY <1>1, <2>1, <2>3 DEF Accounts, AcceptedAccounted, Settled
  <2>5. CallsAccounted'
    <3>1. Cardinality(Producers \ At("out"))' = Cardinality(Producers \ At("out")) + 1
      BY <1>2, <1>4, <2>2
    <3> DEFINE a == stats["submitted"]
               b == stats["rejected_full"]
               c == stats["rejected_out_of_order"]
               i == Cardinality(Producers \ At("out"))
    <3>4. offered = a + b + c + i
      BY <1>15 DEF CallsAccounted
    <3>5. CallsAccounted' <=> offered + 1 = a + b + c + (i + 1)
      BY <2>3, <3>1 DEF CallsAccounted
    <3>6. offered \in Nat /\ a \in Nat /\ b \in Nat /\ c \in Nat /\ i \in Int
      BY <1>3, <1>12, <1>14
    <3> HIDE DEF a, b, c, i
    <3>7. QED
      BY <3>4, <3>5, <3>6
  <2>6. QED
    BY <2>4, <2>5 DEF Accounts
<1>7. ASSUME Put(p)
      PROVE  Accounts'
  <2>1. Cardinality(At("accepted")') = Cardinality(At("accepted")) + 1
    BY <1>0, <1>7, Arrives DEF Put
  <2>2. At("out")' = At("out")
    BY <1>0, <1>7, StaysAway DEF Put
  <2>3. Len(queue') = Len(queue) + 1 /\ UNCHANGED <<stats, offered>>
    BY <1>0, <1>7 DEF Put, QueueOK, SubmitOK
  <2>4. AcceptedAccounted'
    <3>1. Settled' = Settled
      BY <1>1, <2>3 DEF Settled
    <3>2. QED
      BY <1>13, <2>1, <2>3, <3>1 DEF Accounts, AcceptedAccounted
  <2>5. CallsAccounted'
    BY <2>2, <2>3 DEF Accounts, CallsAccounted
  <2>6. QED
    BY <2>4, <2>5 DEF Accounts
<1>8. ASSUME Full(p)
      PROVE  Accounts'
  <2>1. At("accepted")' = At("accepted") /\ At("out")' = At("out")
    BY <1>0, <1>8, StaysAway DEF Full
  <2>2. UNCHANGED <<queue, stats, offered>>
    BY <1>8 DEF Full
  <2>3. QED
    BY <1>1, <2>1, <2>2 DEF Accounts, AcceptedAccounted, CallsAccounted, Settled
<1>9. ASSUME ReturnRefused(p)
      PROVE  Accounts'
  <2>1. At("accepted")' = At("accepted")
    BY <1>0, <1>9, StaysAway DEF ReturnRefused
  <2>2. Cardinality(At("out")') = Cardinality(At("out")) + 1
    BY <1>0, <1>9, Arrives DEF ReturnRefused
  <2>3. /\ stats'["rejected_full"] = stats["rejected_full"] + 1
        /\ \A d \in Counters \ {"rejected_full"} : stats'[d] = stats[d]
    BY <1>0, <1>9, OneCounter, CounterNames DEF ReturnRefused
  <2>4. UNCHANGED <<queue, offered>>
    BY <1>9 DEF ReturnRefused
  <2>5. AcceptedAccounted'
    <3>1. /\ stats'["submitted"] = stats["submitted"]
          /\ stats'["synced"] = stats["synced"]
          /\ stats'["coalesced"] = stats["coalesced"]
          /\ stats'["discarded_on_stop"] = stats["discarded_on_stop"]
      BY <2>3, CounterNames
    <3>2. QED
      BY <1>1, <2>1, <2>4, <3>1 DEF Accounts, AcceptedAccounted, Settled
  <2>6. CallsAccounted'
    <3>1. /\ stats'["submitted"] = stats["submitted"]
          /\ stats'["rejected_out_of_order"] = stats["rejected_out_of_order"]
      BY <2>3, CounterNames
    <3>2. Cardinality(Producers \ At("out"))' = Cardinality(Producers \ At("out")) - 1
      BY <1>2, <1>4, <2>2
    <3>3. stats'["rejected_full"] = stats["rejected_full"] + 1 /\ offered' = offered
      BY <2>3, <2>4
    <3> DEFINE a == stats["submitted"]
               b == stats["rejected_full"]
               c == stats["rejected_out_of_order"]
               i == Cardinality(Producers \ At("out"))
    <3>4. offered = a + b + c + i
      BY <1>15 DEF CallsAccounted
    <3>5. CallsAccounted' <=> offered = a + (b + 1) + c + (i - 1)
      BY <3>1, <3>2, <3>3 DEF CallsAccounted
    <3>6. offered \in Nat /\ a \in Nat /\ b \in Nat /\ c \in Nat /\ i \in Int
      BY <1>3, <1>12, <1>14
    <3> HIDE DEF a, b, c, i
    <3>7. QED
      BY <3>4, <3>5, <3>6
  <2>7. QED
    BY <2>5, <2>6 DEF Accounts
<1>10. ASSUME ReturnAccepted(p)
      PROVE  Accounts'
  <2>1. Cardinality(At("accepted")') = Cardinality(At("accepted")) - 1
    BY <1>0, <1>10, Leaves DEF ReturnAccepted
  <2>2. Cardinality(At("out")') = Cardinality(At("out")) + 1
    BY <1>0, <1>10, Arrives DEF ReturnAccepted
  <2>3. /\ stats'["submitted"] = stats["submitted"] + 1
        /\ \A d \in Counters \ {"submitted", "max_queue_depth"} : stats'[d] = stats[d]
    BY <1>0, <1>10, AcceptCounters
  <2>4. UNCHANGED <<queue, offered>>
    BY <1>10 DEF ReturnAccepted
  <2>5. AcceptedAccounted'
    <3>1. /\ stats'["synced"] = stats["synced"]
          /\ stats'["coalesced"] = stats["coalesced"]
          /\ stats'["discarded_on_stop"] = stats["discarded_on_stop"]
      BY <2>3, CounterNames
    <3>2. Settled' = Settled
      BY <1>1, <3>1 DEF Settled
    <3>3. stats'["submitted"] = stats["submitted"] + 1 /\ UNCHANGED queue
      BY <2>3, <2>4
    <3>4. QED
      BY <1>13, <2>1, <3>2, <3>3 DEF Accounts, AcceptedAccounted
  <2>6. CallsAccounted'
    <3>1. /\ stats'["rejected_full"] = stats["rejected_full"]
          /\ stats'["rejected_out_of_order"] = stats["rejected_out_of_order"]
      BY <2>3, CounterNames
    <3>2. Cardinality(Producers \ At("out"))' = Cardinality(Producers \ At("out")) - 1
      BY <1>2, <1>4, <2>2
    <3>3. stats'["submitted"] = stats["submitted"] + 1 /\ offered' = offered
      BY <2>3, <2>4
    <3> DEFINE a == stats["submitted"]
               b == stats["rejected_full"]
               c == stats["rejected_out_of_order"]
               i == Cardinality(Producers \ At("out"))
    <3>4. offered = a + b + c + i
      BY <1>15 DEF CallsAccounted
    <3>5. CallsAccounted' <=> offered = (a + 1) + b + c + (i - 1)
      BY <3>1, <3>2, <3>3 DEF CallsAccounted
    <3>6. offered \in Nat /\ a \in Nat /\ b \in Nat /\ c \in Nat /\ i \in Int
      BY <1>3, <1>12, <1>14
    <3> HIDE DEF a, b, c, i
    <3>7. QED
      BY <3>4, <3>5, <3>6
  <2>7. QED
    BY <2>5, <2>6 DEF Accounts
<1>11. QED
  BY <1>5, <1>6, <1>7, <1>8, <1>9, <1>10 DEF Submit

LEMMA AccountsByWorker ==
    ASSUME Counted, Counted', Accounts, Start \/ Worker
    PROVE  Accounts'
<1>0. QueueOK /\ StatsOK /\ SubmitOK /\ WorkerOK /\ QueueOK' /\ StatsOK' /\ WorkerOK'
  BY DEF Counted, TypeOK
<1>1. /\ UNCHANGED producerVars /\ At("accepted")' = At("accepted") /\ At("out")' = At("out")
      /\ Uncounted' = Uncounted /\ Uncounted \in Nat
  <2>1. UNCHANGED <<producerVars, stopVars>>
    BY DEF Worker, Start, CheckStop, Get, GetTimeout, TakeMore, BatchComplete, SyncSucceeds,
           SyncFails, OnSyncReturns, OnSyncRaises, TaskDone, BatchDone
  <2>2. QED
    BY <2>1 DEF producerVars, stopVars, At, Uncounted
<1>2. /\ Len(queue) \in Nat /\ Len(batch) \in Nat /\ lost \in Nat
      /\ Cardinality(At("accepted")) \in Nat /\ Settled \in Nat
  BY <1>0, AtFinite, SettledType DEF QueueOK, WorkerOK
<1>11. stats["submitted"] \in Nat /\ Len(queue) \in Nat /\ Cardinality(At("accepted")) \in Nat /\ Settled \in Nat
  BY <1>0, <1>2, StatsNumbers
<1>12. (\A c \in {"submitted", "rejected_full", "rejected_out_of_order"} : stats'[c] = stats[c])
        => CallsAccounted'
  BY <1>1 DEF Accounts, CallsAccounted, producerVars
<1>3. CASE Start \/ CheckStop \/ GetTimeout \/ OnSyncReturns \/ OnSyncRaises \/ BatchDone
  <2>1. Unsettled' = <<>> /\ Unsettled = <<>> /\ UNCHANGED <<queue, stats, lost>>
    BY <1>0, <1>3 DEF Unsettled, Start, CheckStop, GetTimeout, OnSyncReturns, OnSyncRaises, BatchDone,
              WorkerOK
  <2>2. QED
    BY <1>1, <2>1 DEF Accounts, AcceptedAccounted, CallsAccounted, producerVars, Settled
<1>4. CASE Get
  <2>1. Len(queue') = Len(queue) - 1 /\ Len(Unsettled') = 1 /\ Unsettled = <<>>
    BY <1>0, <1>4 DEF Get, Unsettled, QueueOK
  <2>2. UNCHANGED <<stats, lost>>
    BY <1>4 DEF Get
  <2>3. Settled' = Settled
    BY <2>2 DEF Settled
  <2>4. AcceptedAccounted'
    BY <1>1, <1>11, <2>1, <2>2, <2>3 DEF Accounts, AcceptedAccounted
  <2>5. QED
    BY <1>12, <2>2, <2>4 DEF Accounts
<1>5. CASE TakeMore
  <2>1. Len(queue') = Len(queue) - 1 /\ Len(Unsettled') = Len(Unsettled) + 1 /\ Len(Unsettled) \in Nat
    BY <1>0, <1>5 DEF TakeMore, Unsettled, QueueOK, WorkerOK
  <2>2. UNCHANGED <<stats, lost>>
    BY <1>5 DEF TakeMore
  <2>3. Settled' = Settled
    BY <2>2 DEF Settled
  <2>4. AcceptedAccounted'
    BY <1>1, <1>11, <2>1, <2>2, <2>3 DEF Accounts, AcceptedAccounted
  <2>5. QED
    BY <1>12, <2>2, <2>4 DEF Accounts
<1>6. CASE BatchComplete
  <2>1. Unsettled' = Unsettled /\ UNCHANGED <<queue, stats, lost>>
    BY <1>6 DEF BatchComplete, Unsettled
  <2>2. QED
    BY <1>1, <2>1 DEF Accounts, AcceptedAccounted, CallsAccounted, producerVars, Settled
<1>7. CASE SyncSucceeds
  <2>1. Unsettled = batch /\ Unsettled' = <<>> /\ UNCHANGED <<queue, lost>>
    BY <1>7 DEF SyncSucceeds, Unsettled
  <2>2. /\ stats'["synced"] = stats["synced"] + 1
        /\ stats'["coalesced"] = stats["coalesced"] + Len(batch) - 1
        /\ \A c \in Counters \ {"synced", "coalesced"} : stats'[c] = stats[c]
    BY <1>0, <1>7, SyncCounters
  <2>3. /\ stats'["submitted"] = stats["submitted"]
        /\ stats'["discarded_on_stop"] = stats["discarded_on_stop"]
        /\ stats'["rejected_full"] = stats["rejected_full"]
        /\ stats'["rejected_out_of_order"] = stats["rejected_out_of_order"]
    BY <2>2, CounterNames
  <2>4. Settled' = Settled + Len(batch)
    <3>1. stats["synced"] \in Nat /\ stats["coalesced"] \in Nat /\ stats["discarded_on_stop"] \in Nat
      BY <1>0, StatsNumbers
    <3>2. /\ Len(batch) \in Nat /\ lost \in Nat /\ lost' = lost
          /\ stats'["synced"] = stats["synced"] + 1
          /\ stats'["coalesced"] = stats["coalesced"] + Len(batch) - 1
          /\ stats'["discarded_on_stop"] = stats["discarded_on_stop"]
      BY <1>2, <2>1, <2>2, <2>3
    <3> DEFINE a == stats["synced"]
               b == stats["coalesced"]
               c == stats["discarded_on_stop"]
               n == Len(batch)
    <3>3. a \in Nat /\ b \in Nat /\ c \in Nat /\ n \in Nat /\ lost \in Nat
      BY <3>1, <3>2
    <3>4. Settled = a + b + lost + c /\ Settled' = (a + 1) + (b + n - 1) + lost + c
      BY <3>2 DEF Settled
    <3> HIDE DEF a, b, c, n
    <3>5. (a + 1) + (b + n - 1) + lost + c = (a + b + lost + c) + n
      BY <3>3
    <3>6. Settled' = Settled + n
      BY <3>4, <3>5
    <3>7. QED
      BY <3>6 DEF n
  <2>5. Len(Unsettled) = Len(batch) /\ Len(Unsettled') = 0 /\ Len(batch) \in Nat
    BY <1>2, <2>1
  <2>6. AcceptedAccounted'
    <3>1. stats'["submitted"] = stats["submitted"] /\ UNCHANGED queue
      BY <2>1, <2>3
    <3>2. QED
      BY <1>1, <1>11, <2>4, <2>5, <3>1 DEF Accounts, AcceptedAccounted
  <2>7. QED
    BY <1>12, <2>3, <2>6 DEF Accounts
<1>8. CASE SyncFails
  <2>1. Unsettled = batch /\ Unsettled' = <<>> /\ lost' = lost + Len(batch) /\ UNCHANGED queue
    BY <1>8 DEF SyncFails, Unsettled
  <2>2. \A c \in Counters \ {"errors"} : stats'[c] = stats[c]
    BY <1>0, <1>8, OneCounter, CounterNames DEF SyncFails
  <2>3. /\ stats'["submitted"] = stats["submitted"]
        /\ stats'["synced"] = stats["synced"]
        /\ stats'["coalesced"] = stats["coalesced"]
        /\ stats'["discarded_on_stop"] = stats["discarded_on_stop"]
        /\ stats'["rejected_full"] = stats["rejected_full"]
        /\ stats'["rejected_out_of_order"] = stats["rejected_out_of_order"]
    BY <2>2, CounterNames
  <2>4. Settled' = Settled + Len(batch)
    <3>1. stats["synced"] \in Nat /\ stats["coalesced"] \in Nat /\ stats["discarded_on_stop"] \in Nat
      BY <1>0, StatsNumbers
    <3> DEFINE a == stats["synced"]
               b == stats["coalesced"]
               c == stats["discarded_on_stop"]
               n == Len(batch)
    <3>2. a \in Nat /\ b \in Nat /\ c \in Nat /\ n \in Nat /\ lost \in Nat
      BY <1>2, <3>1
    <3>3. Settled = a + b + lost + c /\ Settled' = a + b + (lost + n) + c
      BY <2>1, <2>3 DEF Settled
    <3> HIDE DEF a, b, c, n
    <3>4. a + b + (lost + n) + c = (a + b + lost + c) + n
      BY <3>2
    <3>5. Settled' = Settled + n
      BY <3>3, <3>4
    <3>6. QED
      BY <3>5 DEF n
  <2>5. Len(Unsettled) = Len(batch) /\ Len(Unsettled') = 0 /\ Len(batch) \in Nat
    BY <1>2, <2>1
  <2>6. AcceptedAccounted'
    <3>1. stats'["submitted"] = stats["submitted"] /\ UNCHANGED queue
      BY <2>1, <2>3
    <3>2. QED
      BY <1>1, <1>11, <2>4, <2>5, <3>1 DEF Accounts, AcceptedAccounted
  <2>7. QED
    BY <1>12, <2>3, <2>6 DEF Accounts
<1>9. CASE TaskDone
  <2>1. Unsettled' = <<>> /\ Unsettled = <<>> /\ UNCHANGED <<queue, stats, lost>>
    BY <1>9 DEF Unsettled, TaskDone
  <2>2. QED
    BY <1>1, <2>1 DEF Accounts, AcceptedAccounted, CallsAccounted, producerVars, Settled
<1>10. QED
  BY <1>3, <1>4, <1>5, <1>6, <1>7, <1>8, <1>9 DEF Worker

LEMMA AccountsByStop ==
    ASSUME Counted, Counted', Accounts, (\E drain \in BOOLEAN : StopCalled(drain)) \/ Stopping
    PROVE  Accounts'
<1>0. QueueOK /\ StatsOK /\ WorkerOK /\ StatsOK'
  BY DEF Counted, TypeOK
<1>1. /\ UNCHANGED <<producerVars, workerVars>>
      /\ At("accepted")' = At("accepted") /\ At("out")' = At("out") /\ Unsettled' = Unsettled
  <2>1. UNCHANGED <<producerVars, workerVars>>
    BY DEF Stopping, StopCalled, JoinQueue, SetStop, JoinThread, DiscardTakes, DiscardCounts,
           DiscardDone, StopReturns
  <2>2. QED
    BY <2>1 DEF producerVars, workerVars, At, Unsettled
<1>5. stats["submitted"] \in Nat /\ stats["synced"] \in Nat /\ stats["coalesced"] \in Nat
      /\ stats["discarded_on_stop"] \in Nat
  BY <1>0, StatsNumbers
<1>6. Len(queue) \in Nat /\ Len(Unsettled) \in Nat /\ lost \in Nat /\ Settled \in Nat
      /\ Cardinality(At("accepted")) \in Nat
  BY <1>0, AtFinite, SettledType DEF QueueOK, WorkerOK, Unsettled
<1>2. CASE DiscardTakes
  <2>1. Len(queue') = Len(queue) - 1 /\ UNCHANGED <<stats, lost>>
    BY <1>0, <1>1, <1>2 DEF DiscardTakes, QueueOK, workerVars
  <2>2. Uncounted = 0 /\ Uncounted' = 1
    BY <1>2 DEF DiscardTakes, Uncounted
  <2>3. Settled' = Settled
    BY <2>1 DEF Settled
  <2>4. AcceptedAccounted'
    BY <1>1, <1>5, <1>6, <2>1, <2>2, <2>3 DEF Accounts, AcceptedAccounted
  <2>5. CallsAccounted'
    BY <1>1, <2>1 DEF Accounts, CallsAccounted, producerVars
  <2>6. QED
    BY <2>4, <2>5 DEF Accounts
<1>3. CASE DiscardCounts
  <2>1. UNCHANGED <<queue, lost>>
    BY <1>1, <1>3 DEF DiscardCounts, workerVars
  <2>2. /\ stats'["discarded_on_stop"] = stats["discarded_on_stop"] + 1
        /\ \A c \in Counters \ {"discarded_on_stop"} : stats'[c] = stats[c]
    BY <1>0, <1>3, OneCounter, CounterNames DEF DiscardCounts
  <2>3. Uncounted = 1 /\ Uncounted' = 0
    BY <1>3 DEF DiscardCounts, Uncounted
  <2>4. /\ stats'["submitted"] = stats["submitted"]
        /\ stats'["synced"] = stats["synced"]
        /\ stats'["coalesced"] = stats["coalesced"]
        /\ stats'["rejected_full"] = stats["rejected_full"]
        /\ stats'["rejected_out_of_order"] = stats["rejected_out_of_order"]
    BY <2>2, CounterNames
  <2>5. Settled' = Settled + 1
    <3>1. /\ stats["synced"] \in Nat /\ stats["coalesced"] \in Nat
          /\ stats["discarded_on_stop"] \in Nat /\ lost \in Nat /\ lost' = lost
          /\ stats'["synced"] = stats["synced"] /\ stats'["coalesced"] = stats["coalesced"]
          /\ stats'["discarded_on_stop"] = stats["discarded_on_stop"] + 1
      BY <1>5, <1>6, <2>1, <2>2, <2>4
    <3>2. QED
      BY <1>6, <3>1 DEF Settled
  <2>6. AcceptedAccounted'
    BY <1>1, <1>5, <1>6, <2>1, <2>3, <2>4, <2>5 DEF Accounts, AcceptedAccounted
  <2>7. CallsAccounted'
    BY <1>1, <2>4 DEF Accounts, CallsAccounted, producerVars
  <2>8. QED
    BY <2>6, <2>7 DEF Accounts
<1>4. CASE ~ (DiscardTakes \/ DiscardCounts)
  <2>1. UNCHANGED <<queue, stats>> /\ Uncounted' = Uncounted
    BY <1>4 DEF Stopping, StopCalled, JoinQueue, SetStop, JoinThread, DiscardDone, StopReturns,
           Uncounted
  <2>2. QED
    BY <1>1, <2>1 DEF Accounts, AcceptedAccounted, CallsAccounted, Settled, producerVars, workerVars
<1>7. QED
  BY <1>2, <1>3, <1>4

LEMMA AccountsByStep == Counted /\ Counted' /\ Accounts /\ [Next]_vars => Accounts'
<1> SUFFICES ASSUME Counted, Counted', Accounts, [Next]_vars PROVE Accounts'
  OBVIOUS
<1>1. ASSUME NEW p \in Producers, Submit(p) PROVE Accounts'
  BY <1>1, AccountsBySubmit
<1>2. CASE Start \/ Worker
  BY <1>2, AccountsByWorker
<1>3. CASE (\E drain \in BOOLEAN : StopCalled(drain)) \/ Stopping
  BY <1>3, AccountsByStop
<1>4. CASE UNCHANGED vars
  BY <1>4 DEF vars, producerVars, workerVars, stopVars, Accounts, AcceptedAccounted,
              CallsAccounted, At, Unsettled, Settled, Uncounted
<1>5. QED
  BY <1>1, <1>2, <1>3, <1>4 DEF Next

LEMMA CountedAlways == Safety => []Counted
  BY CountedInitially, CountedByStep, PTL DEF Safety

LEMMA AccountsAlways == Safety => []Accounts
  BY AccountsInitially, AccountsByStep, CountedAlways, PTL DEF Safety

\* No accepted snapshot is lost or counted twice.
THEOREM DaemonAcceptedAccounted == Safety => []AcceptedAccounted
<1>1. Accounts => AcceptedAccounted
  BY DEF Accounts
<1>2. QED
  BY <1>1, AccountsAlways, PTL

\* Every call of submit is counted exactly once.
THEOREM DaemonCallsAccounted == Safety => []CallsAccounted
<1>1. Accounts => CallsAccounted
  BY DEF Accounts
<1>2. QED
  BY <1>1, AccountsAlways, PTL

\* What wait_idle reports is true: no unfinished task means nothing accepted
\* is still waiting.
THEOREM DaemonWaitIdle == Safety => []WaitIdleIsSound
<1>1. Counted /\ Accounts => WaitIdleIsSound
  <2> SUFFICES ASSUME Counted, Accounts, unfinished = 0
               PROVE  Len(queue) = 0 /\ Len(Unsettled) = 0 /\ Uncounted = 0
    BY StatsNumbers, SettledType DEF Counted, TypeOK, Accounts, AcceptedAccounted, WaitIdleIsSound
  <2>1. Len(queue) \in Nat /\ Len(batch) \in Nat
    BY DEF Counted, TypeOK, QueueOK, WorkerOK
  <2>2. InStopsHand \in {0, 1} /\ (InStopsHand = 0 => Uncounted = 0)
    BY DEF InStopsHand, Uncounted
  <2>3. Len(queue) = 0 /\ Len(batch) = 0 /\ InStopsHand = 0
    BY <2>1, <2>2 DEF Counted, UnfinishedExact
  <2>4. QED
    BY <2>2, <2>3 DEF Unsettled
<1>2. QED
  BY <1>1, CountedAlways, AccountsAlways, PTL

----------------------------------------------------------------------------
(* One producer: captured_at order from the gate to the twin.               *)

OneProducer == \A p, q \in Producers : p = q

LEMMA StampsAreNumbers ==
    ASSUME Counted
    PROVE  /\ twin.at \in Nat /\ lastAccepted \in Nat
           /\ Len(queue) \in Nat /\ Len(Unsettled) \in Nat
           /\ \A i \in 1 .. Len(queue) : queue[i].at \in Nat
           /\ \A i \in 1 .. Len(Unsettled) : Unsettled[i].at \in Nat
<1>1. QueueOK /\ SubmitOK /\ WorkerOK
  BY DEF Counted, TypeOK
<1>2. queue \in Seq(Items) /\ Unsettled \in Seq(Items)
  BY <1>1 DEF QueueOK, WorkerOK, Unsettled
<1>3. \A x \in Items : x.at \in Nat
  BY DaemonAssumption DEF Items
<1>4. QED
  BY <1>1, <1>2, <1>3 DEF SubmitOK, WorkerOK

LEMMA OrderInitially == Init => OneProducerOrder
  BY DEF Init, OneProducerOrder, At, Unsettled

\* A step that moves none of what the order speaks of.
LEMMA OrderUndisturbed ==
    ASSUME OneProducerOrder, UNCHANGED <<queue, Unsettled, twin, lastAccepted, item>>,
           At("put")' \subseteq At("put")
    PROVE  OneProducerOrder'
  BY DEF OneProducerOrder

LEMMA OrderBySubmit ==
    ASSUME OneProducer, Counted, Counted', OneProducerOrder, NEW p \in Producers, Submit(p)
    PROVE  OneProducerOrder'
<1>0. QueueOK /\ SubmitOK /\ SubmitOK'
  BY DEF Counted, TypeOK
<1>1. UNCHANGED <<twin, Unsettled>>
  BY DEF Submit, RejectStale, Admit, Put, Full, ReturnRefused, ReturnAccepted, workerVars, Unsettled
<1>2. CASE \E at \in Stamps : RejectStale(p, at)
  BY <1>1, <1>2, OrderUndisturbed DEF RejectStale, At
<1>3. ASSUME NEW at \in Stamps, NEW keys \in SUBSET Keys, Admit(p, at, keys)
      PROVE  OneProducerOrder'
  <2>1. /\ lastAccepted' = at /\ at >= lastAccepted /\ at \in Nat /\ UNCHANGED queue
        /\ item'[p].at = at
    BY <1>0, <1>3, DaemonAssumption DEF Admit, SubmitOK
  <2>2. \A q \in At("put")' : item'[q].at = lastAccepted'
    BY <2>1 DEF OneProducer, At
  <2>3. twin.at <= at
    BY <2>1, StampsAreNumbers DEF OneProducerOrder
  <2>4. \A i \in 1 .. Len(queue) : queue[i].at <= at
    BY <2>1, StampsAreNumbers DEF OneProducerOrder
  <2>5. \A i \in 1 .. Len(Unsettled) : Unsettled[i].at <= at
    BY <2>1, StampsAreNumbers DEF OneProducerOrder
  <2>6. QED
    BY <1>1, <2>1, <2>2, <2>3, <2>4, <2>5 DEF OneProducerOrder
<1>4. CASE Put(p)
  <2>1. /\ queue' = Append(queue, item[p]) /\ UNCHANGED <<item, lastAccepted>>
        /\ item[p].at = lastAccepted
    BY <1>4 DEF Put, OneProducerOrder, At
  <2>2. /\ Len(queue') = Len(queue) + 1
        /\ queue'[Len(queue) + 1] = item[p]
        /\ \A i \in 1 .. Len(queue) : queue'[i] = queue[i]
    BY <1>0, <2>1 DEF QueueOK
  <2>3. At("put")' = {}
    BY <1>0, <1>4 DEF Put, At, OneProducer, SubmitOK
  <2>4. \A i \in 1 .. Len(queue') : queue'[i].at <= lastAccepted /\ twin.at <= queue'[i].at
    BY <2>1, <2>2, StampsAreNumbers DEF OneProducerOrder
  <2>5. \A i, j \in 1 .. Len(queue') : i <= j => queue'[i].at <= queue'[j].at
    BY <2>1, <2>2, StampsAreNumbers DEF OneProducerOrder
  <2>6. \A i \in 1 .. Len(Unsettled), j \in 1 .. Len(queue') : Unsettled[i].at <= queue'[j].at
    BY <2>1, <2>2, StampsAreNumbers DEF OneProducerOrder
  <2>7. QED
    BY <1>1, <2>1, <2>3, <2>4, <2>5, <2>6 DEF OneProducerOrder
<1>5. CASE Full(p)
  <2>1. At("put")' \subseteq At("put")
    BY <1>0, <1>5 DEF Full, At, SubmitOK
  <2>2. QED
    BY <1>1, <1>5, <2>1, OrderUndisturbed DEF Full
<1>6. CASE ReturnRefused(p)
  <2>1. At("put")' \subseteq At("put")
    BY <1>0, <1>6 DEF ReturnRefused, At, SubmitOK
  <2>2. QED
    BY <1>1, <1>6, <2>1, OrderUndisturbed DEF ReturnRefused
<1>7. CASE ReturnAccepted(p)
  <2>1. At("put")' \subseteq At("put")
    BY <1>0, <1>7 DEF ReturnAccepted, At, SubmitOK
  <2>2. QED
    BY <1>1, <1>7, <2>1, OrderUndisturbed DEF ReturnAccepted
<1>8. QED
  BY <1>2, <1>3, <1>4, <1>5, <1>6, <1>7 DEF Submit

\* What is left of the queue when its head is taken.
LEMMA TailIsLater ==
    ASSUME QueueOK, queue # <<>>, queue' = Tail(queue)
    PROVE  /\ Len(queue') = Len(queue) - 1 /\ Len(queue) \in Nat /\ Head(queue) = queue[1]
           /\ \A i \in 1 .. Len(queue') : i + 1 \in 1 .. Len(queue) /\ queue'[i] = queue[i + 1]
  BY DEF QueueOK

LEMMA OrderByWorker ==
    ASSUME Counted, Counted', OneProducerOrder, Start \/ Worker
    PROVE  OneProducerOrder'
<1>0. QueueOK /\ WorkerOK
  BY DEF Counted, TypeOK
<1>1. UNCHANGED <<lastAccepted, item, ppc>> /\ At("put")' = At("put")
  BY DEF Worker, Start, CheckStop, Get, GetTimeout, TakeMore, BatchComplete, SyncSucceeds,
         SyncFails, OnSyncReturns, OnSyncRaises, TaskDone, BatchDone, producerVars, At
<1>2. CASE Start \/ CheckStop \/ GetTimeout \/ OnSyncReturns \/ OnSyncRaises \/ TaskDone \/ BatchDone
            \/ BatchComplete
  <2>1. UNCHANGED <<queue, Unsettled, twin>>
    BY <1>0, <1>2 DEF Unsettled, Start, CheckStop, GetTimeout, OnSyncReturns, OnSyncRaises, TaskDone,
              BatchDone, BatchComplete, WorkerOK
  <2>2. QED
    BY <1>1, <2>1, OrderUndisturbed
<1>3. CASE Get
  <2>1. /\ queue # <<>> /\ queue' = Tail(queue) /\ Unsettled' = <<Head(queue)>> /\ twin' = twin
    BY <1>3 DEF Get, Unsettled
  <2>2. /\ Len(queue') = Len(queue) - 1 /\ Len(queue) \in Nat /\ 1 \in 1 .. Len(queue)
        /\ \A i \in 1 .. Len(queue') : i + 1 \in 1 .. Len(queue) /\ queue'[i] = queue[i + 1]
        /\ Len(Unsettled') = 1 /\ Unsettled'[1] = queue[1]
    BY <1>0, <2>1, TailIsLater DEF QueueOK
  <2>3. \A i \in 1 .. Len(queue') : twin.at <= queue'[i].at /\ queue'[i].at <= lastAccepted
    BY <2>2 DEF OneProducerOrder
  <2>4. \A i, j \in 1 .. Len(queue') : i <= j => queue'[i].at <= queue'[j].at
    BY <2>2 DEF OneProducerOrder
  <2>5. \A i \in 1 .. Len(Unsettled') : i = 1
    BY <2>2
  <2>6. \A j \in 1 .. Len(queue') : queue[1].at <= queue'[j].at
    BY <2>2 DEF OneProducerOrder
  <2>7. twin.at <= queue[1].at /\ queue[1].at <= lastAccepted /\ queue[1].at <= queue[1].at
    BY <2>2, StampsAreNumbers DEF OneProducerOrder
  <2>8. QED
    BY <1>1, <2>1, <2>2, <2>3, <2>4, <2>5, <2>6, <2>7 DEF OneProducerOrder
<1>4. CASE TakeMore
  <2>1. /\ queue # <<>> /\ queue' = Tail(queue) /\ Unsettled = batch
        /\ Unsettled' = Append(batch, Head(queue)) /\ twin' = twin
    BY <1>4 DEF TakeMore, Unsettled
  <2>2. /\ Len(queue') = Len(queue) - 1 /\ Len(queue) \in Nat /\ 1 \in 1 .. Len(queue)
        /\ \A i \in 1 .. Len(queue') : i + 1 \in 1 .. Len(queue) /\ queue'[i] = queue[i + 1]
    BY <1>0, <2>1, TailIsLater DEF QueueOK
  <2>3. /\ Len(Unsettled') = Len(Unsettled) + 1 /\ Len(Unsettled) \in Nat
        /\ Unsettled'[Len(Unsettled) + 1] = queue[1]
        /\ \A i \in 1 .. Len(Unsettled) : Unsettled'[i] = Unsettled[i]
    BY <1>0, <2>1 DEF QueueOK, WorkerOK
  <2>4. \A i \in 1 .. Len(queue') : twin.at <= queue'[i].at /\ queue'[i].at <= lastAccepted
    BY <2>2 DEF OneProducerOrder
  <2>5. \A i, j \in 1 .. Len(queue') : i <= j => queue'[i].at <= queue'[j].at
    BY <2>2 DEF OneProducerOrder
  <2>6. \A i \in 1 .. Len(Unsettled') : i \in 1 .. Len(Unsettled) \/ i = Len(Unsettled) + 1
    BY <2>3
  <2>7. \A i \in 1 .. Len(Unsettled') :
            twin.at <= Unsettled'[i].at /\ Unsettled'[i].at <= lastAccepted
    BY <2>2, <2>3, <2>6 DEF OneProducerOrder
  <2>8. \A i, j \in 1 .. Len(Unsettled') : i <= j => Unsettled'[i].at <= Unsettled'[j].at
    <3>1. TAKE i, j \in 1 .. Len(Unsettled')
    <3>2. HAVE i <= j
    <3>3. CASE j \in 1 .. Len(Unsettled)
      <4>1. i \in 1 .. Len(Unsettled)
        BY <2>3, <3>2, <3>3
      <4>2. QED
        BY <2>3, <3>2, <3>3, <4>1 DEF OneProducerOrder
    <3>4. CASE j = Len(Unsettled) + 1 /\ i \in 1 .. Len(Unsettled)
      BY <2>2, <2>3, <3>4 DEF OneProducerOrder
    <3>5. CASE j = Len(Unsettled) + 1 /\ i = Len(Unsettled) + 1
      BY <2>2, <2>3, <3>5, StampsAreNumbers
    <3>6. QED
      BY <2>6, <3>3, <3>4, <3>5
  <2>9. \A i \in 1 .. Len(Unsettled'), j \in 1 .. Len(queue') : Unsettled'[i].at <= queue'[j].at
    BY <2>2, <2>3, <2>6, SMTT(20) DEF OneProducerOrder
  <2>10. QED
    BY <1>1, <2>1, <2>4, <2>5, <2>7, <2>8, <2>9 DEF OneProducerOrder
<1>5. CASE SyncSucceeds
  <2>1. /\ Unsettled = batch /\ Unsettled' = <<>> /\ UNCHANGED queue
        /\ twin'.at = batch[Len(batch)].at /\ Len(batch) \in 1 .. Len(batch)
    BY <1>0, <1>5 DEF SyncSucceeds, Unsettled, WorkerOK
  <2>2. twin'.at <= lastAccepted
    BY <2>1 DEF OneProducerOrder
  <2>3. \A i \in 1 .. Len(queue) : twin'.at <= queue[i].at
    BY <2>1 DEF OneProducerOrder
  <2>4. QED
    BY <1>1, <2>1, <2>2, <2>3 DEF OneProducerOrder
<1>6. CASE SyncFails
  <2>1. Unsettled' = <<>> /\ UNCHANGED <<queue, twin>>
    BY <1>6 DEF SyncFails, Unsettled
  <2>2. QED
    BY <1>1, <2>1 DEF OneProducerOrder
<1>7. QED
  BY <1>2, <1>3, <1>4, <1>5, <1>6 DEF Worker

LEMMA OrderByStop ==
    ASSUME Counted, OneProducerOrder, (\E drain \in BOOLEAN : StopCalled(drain)) \/ Stopping
    PROVE  OneProducerOrder'
<1>0. QueueOK
  BY DEF Counted, TypeOK
<1>1. UNCHANGED <<Unsettled, twin, lastAccepted, item>> /\ At("put")' = At("put")
  BY DEF Stopping, StopCalled, JoinQueue, SetStop, JoinThread, DiscardTakes, DiscardCounts,
         DiscardDone, StopReturns, producerVars, workerVars, Unsettled, At
<1>2. CASE DiscardTakes
  <2>1. queue # <<>> /\ queue' = Tail(queue)
    BY <1>2 DEF DiscardTakes
  <2>2. \A i \in 1 .. Len(queue') : i + 1 \in 1 .. Len(queue) /\ queue'[i] = queue[i + 1]
    BY <1>0, <2>1, TailIsLater
  <2>3. \A i, j \in 1 .. Len(queue') : i <= j => queue'[i].at <= queue'[j].at
    <3>1. SUFFICES ASSUME NEW i \in 1 .. Len(queue'), NEW j \in 1 .. Len(queue'), i <= j
                   PROVE  queue'[i].at <= queue'[j].at
      OBVIOUS
    <3>2. i + 1 <= j + 1 /\ queue'[i] = queue[i + 1] /\ queue'[j] = queue[j + 1]
          /\ i + 1 \in 1 .. Len(queue) /\ j + 1 \in 1 .. Len(queue)
      BY <2>2, <3>1
    <3>3. QED
      BY <3>2 DEF OneProducerOrder
  <2>4. QED
    BY <1>1, <2>2, <2>3 DEF OneProducerOrder
<1>3. CASE ~ DiscardTakes
  <2>1. UNCHANGED queue
    BY <1>3 DEF Stopping, StopCalled, JoinQueue, SetStop, JoinThread, DiscardCounts, DiscardDone,
           StopReturns
  <2>2. QED
    BY <1>1, <2>1, OrderUndisturbed
<1>4. QED
  BY <1>2, <1>3

LEMMA OrderByStep ==
    ASSUME OneProducer
    PROVE  Counted /\ Counted' /\ OneProducerOrder /\ [Next]_vars => OneProducerOrder'
<1> SUFFICES ASSUME Counted, Counted', OneProducerOrder, [Next]_vars PROVE OneProducerOrder'
  OBVIOUS
<1>1. ASSUME NEW p \in Producers, Submit(p) PROVE OneProducerOrder'
  BY <1>1, OrderBySubmit
<1>2. CASE Start \/ Worker
  BY <1>2, OrderByWorker
<1>3. CASE (\E drain \in BOOLEAN : StopCalled(drain)) \/ Stopping
  BY <1>3, OrderByStop
<1>4. CASE UNCHANGED vars
  BY <1>4, OrderUndisturbed DEF vars, producerVars, workerVars, At, Unsettled
<1>5. QED
  BY <1>1, <1>2, <1>3, <1>4 DEF Next

\* One producer: the snapshots keep their order from the gate to the twin.
THEOREM DaemonOneProducerOrder ==
    ASSUME OneProducer
    PROVE  Safety => []OneProducerOrder
<1>1. Counted /\ Counted' /\ OneProducerOrder /\ [Next]_vars => OneProducerOrder'
  BY OrderByStep
<1>2. QED
  BY <1>1, OrderInitially, CountedAlways, PTL DEF Safety

\* One producer: the twin never goes back in time.
THEOREM DaemonTwinNeverGoesBack ==
    ASSUME OneProducer
    PROVE  Safety => TwinNeverGoesBack
<1>1. Counted /\ OneProducerOrder /\ [Next]_vars => [twin'.at >= twin.at]_vars
  <2> SUFFICES ASSUME Counted, OneProducerOrder, [Next]_vars, ~ UNCHANGED vars
               PROVE  twin'.at >= twin.at
    OBVIOUS
  <2>1. CASE SyncSucceeds
    <3>1. Unsettled = batch /\ twin'.at = batch[Len(batch)].at /\ Len(batch) \in 1 .. Len(batch)
      BY <2>1 DEF SyncSucceeds, Unsettled, Counted, TypeOK, WorkerOK
    <3>2. batch[Len(batch)].at \in Nat /\ twin.at \in Nat /\ twin.at <= batch[Len(batch)].at
      BY <3>1, StampsAreNumbers DEF OneProducerOrder
    <3>3. QED
      BY <3>1, <3>2
  <2>2. CASE ~ SyncSucceeds
    <3>1. twin' = twin
      BY <2>2 DEF Next, Submit, RejectStale, Admit, Put, Full, ReturnRefused, ReturnAccepted, Start,
             Worker, CheckStop, Get, GetTimeout, TakeMore, BatchComplete, SyncFails, OnSyncReturns,
             OnSyncRaises, TaskDone, BatchDone, StopCalled, Stopping, JoinQueue, SetStop, JoinThread,
             DiscardTakes, DiscardCounts, DiscardDone, StopReturns, workerVars
    <3>2. QED
      BY <3>1, StampsAreNumbers
  <2>3. QED
    BY <2>1, <2>2
<1>2. QED
  BY <1>1, CountedAlways, DaemonOneProducerOrder, PTL DEF Safety, TwinNeverGoesBack

----------------------------------------------------------------------------
(* A stop that waits for the thread.  A worker that is not gone by then was *)
(* never started, and finds the flag set should it be started later.        *)

Quiesced ==
    spc \in Discarding \cup {"stopped"} =>
        WorkerGone \/ (stopSet /\ wpc \in {"unstarted", "check"})

\* After a stop without a timeout returned no sync changes the twin, whoever
\* submits or starts the worker then.
THEOREM DaemonNoSyncAfterStop ==
    ASSUME "stop_timeout" \notin Allowed
    PROVE  Safety => NoSyncAfterStop
<1>1. Init => Quiesced
  BY DEF Init, Quiesced, Discarding
<1>2. Quiesced /\ [Next]_vars => Quiesced'
  <2> SUFFICES ASSUME Quiesced, [Next]_vars PROVE Quiesced'
    OBVIOUS
  <2> USE DEF Quiesced, WorkerGone, Discarding
  <2>1. ASSUME NEW p \in Producers, Submit(p) PROVE Quiesced'
    <3>1. UNCHANGED <<wpc, spc, stopSet>>
      BY <2>1 DEF Submit, RejectStale, Admit, Put, Full, ReturnRefused, ReturnAccepted,
             workerVars, stopVars
    <3> QED BY <3>1
  <2>2. CASE Start
    BY <2>2 DEF Start, stopVars
  <2>3. CASE Worker
    <3>1. UNCHANGED <<spc, stopSet>>
      BY <2>3 DEF Worker, CheckStop, Get, GetTimeout, TakeMore, BatchComplete, SyncSucceeds,
             SyncFails, OnSyncReturns, OnSyncRaises, TaskDone, BatchDone, stopVars
    <3>2. wpc \notin {"unstarted", "exited", "dead"} /\ (wpc = "check" => CheckStop)
      BY <2>3 DEF Worker, CheckStop, Get, GetTimeout, TakeMore, BatchComplete, SyncSucceeds,
             SyncFails, OnSyncReturns, OnSyncRaises, TaskDone, BatchDone
    <3>3. CheckStop /\ stopSet => wpc' = "exited"
      BY DEF CheckStop
    <3> QED BY <3>1, <3>2, <3>3
  <2>4. ASSUME NEW drain \in BOOLEAN, StopCalled(drain) PROVE Quiesced'
    BY <2>4 DEF StopCalled
  <2>5. CASE Stopping
    BY <2>5 DEF Stopping, JoinQueue, SetStop, JoinThread, DiscardTakes, DiscardCounts, DiscardDone,
           StopReturns, workerVars, stopVars
  <2>6. CASE UNCHANGED vars
    BY <2>6 DEF vars, workerVars, stopVars
  <2> QED
    BY <2>1, <2>2, <2>3, <2>4, <2>5, <2>6 DEF Next
<1>3. Quiesced /\ [Next]_vars => [spc = "stopped" => UNCHANGED twin]_vars
  <2> SUFFICES ASSUME Quiesced, Next, spc = "stopped" PROVE UNCHANGED twin
    OBVIOUS
  <2>1. CASE SyncSucceeds
    BY <2>1 DEF SyncSucceeds, Quiesced, WorkerGone
  <2>2. CASE ~ SyncSucceeds
    BY <2>2 DEF Next, Submit, RejectStale, Admit, Put, Full, ReturnRefused, ReturnAccepted, Start,
           Worker, CheckStop, Get, GetTimeout, TakeMore, BatchComplete, SyncFails, OnSyncReturns,
           OnSyncRaises, TaskDone, BatchDone, StopCalled, Stopping, JoinQueue, SetStop, JoinThread,
           DiscardTakes, DiscardCounts, DiscardDone, StopReturns, workerVars
  <2> QED
    BY <2>1, <2>2
<1> QED
  BY <1>1, <1>2, <1>3, PTL DEF Safety, NoSyncAfterStop

----------------------------------------------------------------------------
(* The refinement: the daemon implements SnapshotFeed.  Only three of its   *)
(* steps are not stutters there: a put accepts, a sync that succeeds        *)
(* advances by the whole batch, and a failed one or a discard drops.  That  *)
(* the merged fingerprints of a batch are those of syncing its snapshots    *)
(* one by one is shown with the twin after each of them, which satisfies    *)
(* the recursion of the abstract walk and is therefore what it computes.    *)

\* The positions among the first i of p that supply key k, and the twin t with
\* the first i snapshots of p merged over it.
Supply(p, i, k) == {j \in 1 .. i : k \in p[j].keys}

Supplied(p, t, i, k) ==
    IF Supply(p, i, k) = {} THEN t.fps[k]
    ELSE LET final == CHOOSE x \in Supply(p, i, k) : \A j \in Supply(p, i, k) : x >= j
         IN  p[final].no

TwinAfter(p, t, i) ==
    [at |-> IF i = 0 THEN t.at ELSE p[i].at, fps |-> [k \in Keys |-> Supplied(p, t, i, k)]]

\* One snapshot more.
LEMMA OneSnapshotMore ==
    ASSUME NEW p, NEW t, NEW i \in Nat \ {0}
    PROVE  TwinAfter(p, t, i) = Feed!Step(TwinAfter(p, t, i - 1), p[i])
<1>1. ASSUME NEW k \in Keys
      PROVE  Supplied(p, t, i, k) = IF k \in p[i].keys THEN p[i].no ELSE Supplied(p, t, i - 1, k)
  <2>1. CASE k \in p[i].keys
    <3>1. i \in Supply(p, i, k) /\ \A j \in Supply(p, i, k) : i >= j /\ j \in Nat
      BY <2>1 DEF Supply
    <3>2. \A x \in Supply(p, i, k) : (\A j \in Supply(p, i, k) : x >= j) => x = i
      BY <3>1
    <3>3. (CHOOSE x \in Supply(p, i, k) : \A j \in Supply(p, i, k) : x >= j) = i
      BY <3>1, <3>2
    <3> QED BY <2>1, <3>1, <3>3 DEF Supplied
  <2>2. CASE k \notin p[i].keys
    <3>1. Supply(p, i, k) = Supply(p, i - 1, k)
      <4>1. \A j \in 1 .. i : j = i \/ j \in 1 .. (i - 1)
        OBVIOUS
      <4>2. \A j \in 1 .. (i - 1) : j \in 1 .. i
        OBVIOUS
      <4> QED BY <2>2, <4>1, <4>2 DEF Supply
    <3> QED BY <2>2, <3>1 DEF Supplied
  <2> QED BY <2>1, <2>2
<1>2. /\ TwinAfter(p, t, i).fps = [k \in Keys |-> Supplied(p, t, i, k)]
      /\ TwinAfter(p, t, i - 1).fps = [k \in Keys |-> Supplied(p, t, i - 1, k)]
  BY DEF TwinAfter
<1>3. [k \in Keys |-> Supplied(p, t, i, k)]
      = [k \in Keys |-> IF k \in p[i].keys THEN p[i].no ELSE Supplied(p, t, i - 1, k)]
  BY <1>1
<1> QED
  BY <1>2, <1>3 DEF TwinAfter, Feed!Step

\* Two functions on 0..n with the same start and the same step are the same.
LEMMA SameWalk ==
    ASSUME NEW n \in Nat, NEW f, NEW g, f[0] = g[0],
           \A i \in 1 .. n : f[i - 1] = g[i - 1] => f[i] = g[i]
    PROVE  f[n] = g[n]
<1> DEFINE S == {i \in 0 .. n : f[i] # g[i]}
<1> SUFFICES ASSUME S # {} PROVE FALSE
  OBVIOUS
<1>1. S \subseteq Nat
  OBVIOUS
<1>2. PICK x \in S : \A y \in S : ~ (<<y, x>> \in OpToRel(<, Nat))
  BY <1>1, NatLessThanWellFounded, WFMin
<1>3. x \in 1 .. n /\ x - 1 \in 0 .. n /\ x - 1 \in Nat /\ x - 1 < x
  <2>1. x \in 0 .. n /\ f[x] # g[x]
    OBVIOUS
  <2>2. x # 0
    BY <2>1
  <2> QED BY <2>1, <2>2
<1>4. x - 1 \notin S
  BY <1>1, <1>2, <1>3 DEF OpToRel
<1> QED
  BY <1>2, <1>3, <1>4

\* What the abstract specification computes for the first n snapshots.
LEMMA WalkComputes ==
    ASSUME NEW n \in Nat, NEW p, p = Unsettled \o queue,
           twin = [at |-> twin.at, fps |-> [k \in Keys |-> twin.fps[k]]]
    PROVE  Feed!After(n) = TwinAfter(p, twin, n)
<1> DEFINE h == [i \in 0 .. n |-> TwinAfter(p, twin, i)]
           walk[i \in 0 .. n] == IF i = 0 THEN twin ELSE Feed!Step(walk[i - 1], p[i])
<1>1. TwinAfter(p, twin, 0) = twin
  <2>1. \A k : Supply(p, 0, k) = {}
    BY DEF Supply
  <2>2. [k \in Keys |-> Supplied(p, twin, 0, k)] = [k \in Keys |-> twin.fps[k]]
    BY <2>1 DEF Supplied
  <2> QED BY <2>2 DEF TwinAfter
<1>2. \A i \in 0 .. n : h[i] = IF i = 0 THEN twin ELSE Feed!Step(h[i - 1], p[i])
  <2> SUFFICES ASSUME NEW i \in 0 .. n PROVE h[i] = IF i = 0 THEN twin ELSE Feed!Step(h[i - 1], p[i])
    OBVIOUS
  <2>1. CASE i = 0
    BY <1>1, <2>1
  <2>2. CASE i # 0
    <3>1. i \in Nat \ {0} /\ i - 1 \in 0 .. n
      BY <2>2
    <3>2. TwinAfter(p, twin, i) = Feed!Step(TwinAfter(p, twin, i - 1), p[i])
      BY <3>1, OneSnapshotMore
    <3> QED BY <2>2, <3>1, <3>2
  <2> QED BY <2>1, <2>2
<1>3. h = [i \in 0 .. n |-> IF i = 0 THEN twin ELSE Feed!Step(h[i - 1], p[i])]
  <2>1. h = [i \in 0 .. n |-> h[i]]
    OBVIOUS
  <2> HIDE DEF h
  <2> QED BY <1>2, <2>1
<1> HIDE DEF h
<1>4. walk = [i \in 0 .. n |-> IF i = 0 THEN twin ELSE Feed!Step(walk[i - 1], p[i])]
  BY <1>3
<1>5. Feed!After(n) = walk[n]
  BY DEF Feed!After
<1> HIDE DEF walk
<1>6. walk[0] = h[0] /\ \A i \in 1 .. n : walk[i - 1] = h[i - 1] => walk[i] = h[i]
  <2>1. \A i \in 0 .. n : walk[i] = IF i = 0 THEN twin ELSE Feed!Step(walk[i - 1], p[i])
    BY <1>4
  <2>2. walk[0] = h[0]
    <3>1. 0 \in 0 .. n
      OBVIOUS
    <3>2. walk[0] = twin /\ h[0] = twin
      BY <1>2, <2>1, <3>1
    <3> QED BY <3>2
  <2>3. ASSUME NEW i \in 1 .. n, walk[i - 1] = h[i - 1] PROVE walk[i] = h[i]
    <3>1. i \in 0 .. n /\ i # 0
      OBVIOUS
    <3>2. walk[i] = Feed!Step(walk[i - 1], p[i]) /\ h[i] = Feed!Step(h[i - 1], p[i])
      BY <1>2, <2>1, <3>1
    <3> QED BY <2>3, <3>2
  <2> QED BY <2>2, <2>3
<1>7. walk[n] = h[n]
  BY <1>6, SameWalk
<1> QED
  BY <1>5, <1>7 DEF h

----------------------------------------------------------------------------
(* What the steps do to the two sequences put together.                     *)

LEMMA HeadMoves ==
    ASSUME NEW S, NEW b \in Seq(S), NEW q \in Seq(S), q # <<>>
    PROVE  /\ <<Head(q)>> \o Tail(q) = q
           /\ Append(b, Head(q)) \o Tail(q) = b \o q
<1>1. PICK x \in S, r \in Seq(S) : x = Head(q) /\ r = Tail(q)
  BY HeadTailProperties
<1>2. /\ Len(r) \in Nat /\ Len(q) = Len(r) + 1 /\ q[1] = x
      /\ \A i \in 1 .. Len(r) : r[i] = q[i + 1]
  BY <1>1, HeadTailProperties
<1>3. <<x>> \in Seq(S) /\ Len(<<x>>) = 1 /\ <<x>>[1] = x
  OBVIOUS
<1>4. <<x>> \o r = q
  <2>1. /\ <<x>> \o r \in Seq(S) /\ Len(<<x>> \o r) = 1 + Len(r)
        /\ \A i \in 1 .. 1 + Len(r) : (<<x>> \o r)[i] = IF i <= 1 THEN <<x>>[i] ELSE r[i - 1]
    BY <1>3, ConcatProperties
  <2>2. ASSUME NEW i \in 1 .. 1 + Len(r) PROVE (<<x>> \o r)[i] = q[i]
    <3>1. CASE i = 1
      BY <1>2, <1>3, <2>1, <3>1
    <3>2. CASE i # 1
      <4>1. i - 1 \in 1 .. Len(r) /\ (i - 1) + 1 = i /\ ~(i <= 1)
        BY <1>2, <3>2
      <4> QED BY <1>2, <2>1, <4>1
    <3> QED BY <3>1, <3>2
  <2> QED BY <1>2, <2>1, <2>2, SeqEqual
<1>5. Append(b, x) \o r = b \o (<<x>> \o r)
  <2>1. Append(b, x) = b \o <<x>>
    BY AppendIsConcat
  <2> QED BY <1>3, <2>1, ConcatAssociative
<1> QED
  BY <1>1, <1>4, <1>5

LEMMA AppendedBehind ==
    ASSUME NEW S, NEW b \in Seq(S), NEW q \in Seq(S), NEW x \in S
    PROVE  b \o Append(q, x) = Append(b \o q, x)
<1>1. <<x>> \in Seq(S) /\ b \o q \in Seq(S)
  BY ConcatProperties
<1>2. Append(q, x) = q \o <<x>> /\ Append(b \o q, x) = (b \o q) \o <<x>>
  BY <1>1, AppendIsConcat
<1> QED
  BY <1>1, <1>2, ConcatAssociative

\* What is left when the first sequence, or the head of the second, goes.
LEMMA PrefixGone ==
    ASSUME NEW S, NEW b \in Seq(S), NEW q \in Seq(S)
    PROVE  /\ SubSeq(b \o q, Len(b) + 1, Len(b \o q)) = q
           /\ SubSeq(b \o q, 1, 0) \o SubSeq(b \o q, Len(b) + 1, Len(b \o q)) = q
           /\ q # <<>> => SubSeq(b \o q, 1, Len(b)) \o SubSeq(b \o q, Len(b) + 2, Len(b \o q))
                          = b \o Tail(q)
<1>1. PICK p \in Seq(S), m \in Nat, n \in Nat :
        /\ p = b \o q /\ m = Len(b) /\ n = Len(q) /\ Len(p) = m + n
        /\ \A i \in 1 .. m + n : p[i] = IF i <= m THEN b[i] ELSE q[i - m]
        /\ \A i \in 1 .. m + n : p[i] \in S
  <2>1. b \o q \in Seq(S) /\ Len(b \o q) = Len(b) + Len(q)
        /\ \A i \in 1 .. Len(b) + Len(q) : (b \o q)[i] = IF i <= Len(b) THEN b[i] ELSE q[i - Len(b)]
    BY ConcatProperties
  <2>2. Len(b) \in Nat /\ Len(q) \in Nat
    OBVIOUS
  <2>3. \A i \in 1 .. Len(b) + Len(q) : (b \o q)[i] \in S
    BY <2>1, ElementOfSeq
  <2> QED BY <2>1, <2>2, <2>3
<1>2. ASSUME NEW from \in Int, NEW to \in Int, 1 <= from, to <= m + n, from <= to + 1
      PROVE  /\ SubSeq(p, from, to) \in Seq(S) /\ Len(SubSeq(p, from, to)) = to - from + 1
             /\ \A i \in 1 .. to - from + 1 : SubSeq(p, from, to)[i] = p[from + i - 1]
  <2>1. \A i \in from .. to : p[i] \in S
    BY <1>1, <1>2
  <2>2. /\ SubSeq(p, from, to) \in Seq(S)
        /\ Len(SubSeq(p, from, to)) = IF from <= to THEN to - from + 1 ELSE 0
        /\ \A i \in 1 .. to - from + 1 : SubSeq(p, from, to)[i] = p[from + i - 1]
    BY <2>1, SubSeqProperties
  <2>3. CASE from <= to
    BY <2>2, <2>3
  <2>4. CASE ~(from <= to)
    <3>1. to - from + 1 = 0
      BY <1>2, <2>4
    <3> QED BY <2>2, <2>4, <3>1
  <2> QED BY <2>3, <2>4
<1>3. SubSeq(p, m + 1, m + n) = q
  <2>1. /\ SubSeq(p, m + 1, m + n) \in Seq(S) /\ Len(SubSeq(p, m + 1, m + n)) = n
        /\ \A i \in 1 .. n : SubSeq(p, m + 1, m + n)[i] = p[m + i]
    <3>1. /\ SubSeq(p, m + 1, m + n) \in Seq(S)
          /\ Len(SubSeq(p, m + 1, m + n)) = (m + n) - (m + 1) + 1
          /\ \A i \in 1 .. (m + n) - (m + 1) + 1 : SubSeq(p, m + 1, m + n)[i] = p[(m + 1) + i - 1]
      BY <1>2
    <3>2. (m + n) - (m + 1) + 1 = n /\ \A i \in 1 .. n : (m + 1) + i - 1 = m + i
      OBVIOUS
    <3> QED BY <3>1, <3>2
  <2>2. \A i \in 1 .. n : p[m + i] = q[i]
    <3>1. \A i \in 1 .. n : m + i \in 1 .. m + n /\ ~(m + i <= m) /\ (m + i) - m = i
      OBVIOUS
    <3> QED BY <1>1, <3>1
  <2>3. PICK r \in Seq(S) : r = SubSeq(p, m + 1, m + n) /\ Len(r) = n /\ \A i \in 1 .. n : r[i] = q[i]
    BY <2>1, <2>2
  <2>4. r = q
    BY <1>1, <2>3, SeqEqual
  <2> QED BY <2>3, <2>4
<1>4. SubSeq(p, 1, 0) = <<>>
  BY SubSeqEmpty
<1>5. ASSUME q # <<>>
      PROVE  SubSeq(p, 1, m) \o SubSeq(p, m + 2, m + n) = b \o Tail(q)
  <2>1. n >= 1 /\ Tail(q) \in Seq(S) /\ Len(Tail(q)) = n - 1 /\ n - 1 \in Nat
        /\ \A i \in 1 .. n - 1 : Tail(q)[i] = q[i + 1]
    BY <1>1, <1>5, HeadTailProperties, EmptySeq
  <2>2. SubSeq(p, 1, m) = b
    <3>1. /\ SubSeq(p, 1, m) \in Seq(S) /\ Len(SubSeq(p, 1, m)) = m
          /\ \A i \in 1 .. m : SubSeq(p, 1, m)[i] = p[i]
      <4>1. /\ SubSeq(p, 1, m) \in Seq(S) /\ Len(SubSeq(p, 1, m)) = m - 1 + 1
            /\ \A i \in 1 .. m - 1 + 1 : SubSeq(p, 1, m)[i] = p[1 + i - 1]
        BY <1>2
      <4>2. m - 1 + 1 = m /\ \A i \in 1 .. m : 1 + i - 1 = i
        OBVIOUS
      <4> QED BY <4>1, <4>2
    <3>2. \A i \in 1 .. m : p[i] = b[i]
      <4>1. \A i \in 1 .. m : i \in 1 .. m + n /\ i <= m
        OBVIOUS
      <4> QED BY <1>1, <4>1
    <3> QED BY <1>1, <3>1, <3>2, SeqEqual
  <2>3. SubSeq(p, m + 2, m + n) = Tail(q)
    <3>1. /\ SubSeq(p, m + 2, m + n) \in Seq(S) /\ Len(SubSeq(p, m + 2, m + n)) = n - 1
          /\ \A i \in 1 .. n - 1 : SubSeq(p, m + 2, m + n)[i] = p[m + 1 + i]
      <4>1. /\ SubSeq(p, m + 2, m + n) \in Seq(S)
            /\ Len(SubSeq(p, m + 2, m + n)) = (m + n) - (m + 2) + 1
            /\ \A i \in 1 .. (m + n) - (m + 2) + 1 : SubSeq(p, m + 2, m + n)[i] = p[(m + 2) + i - 1]
        BY <1>2, <2>1, SMTT(30)
      <4>2. (m + n) - (m + 2) + 1 = n - 1 /\ \A i \in 1 .. n - 1 : (m + 2) + i - 1 = m + 1 + i
        OBVIOUS
      <4> QED BY <4>1, <4>2
    <3>2. \A i \in 1 .. n - 1 : p[m + 1 + i] = q[i + 1]
      <4>1. \A i \in 1 .. n - 1 :
              m + 1 + i \in 1 .. m + n /\ ~(m + 1 + i <= m) /\ (m + 1 + i) - m = i + 1
        OBVIOUS
      <4> QED BY <1>1, <4>1
    <3> QED BY <2>1, <3>1, <3>2, SeqEqual
  <2> QED BY <2>2, <2>3
<1>6. <<>> \o q = q
  BY ConcatEmptySeq
<1> QED
  BY <1>1, <1>3, <1>4, <1>5, <1>6

----------------------------------------------------------------------------
LEMMA FeedStutters ==
    ASSUME UNCHANGED <<Unsettled, queue, twin>>
    PROVE  UNCHANGED <<Unsettled \o queue, twin>>
  OBVIOUS

LEMMA FeedBySubmit ==
    ASSUME Counted, NEW p \in Producers, Submit(p)
    PROVE  [Feed!Next]_<<Unsettled \o queue, twin>>
<1>0. QueueOK /\ SubmitOK /\ WorkerOK
  BY DEF Counted, TypeOK
<1>1. UNCHANGED <<twin, Unsettled>>
  BY DEF Submit, RejectStale, Admit, Put, Full, ReturnRefused, ReturnAccepted, workerVars, Unsettled
<1>2. CASE Put(p)
  <2>1. queue' = Append(queue, item[p]) /\ item[p] \in Items
    BY <1>0, <1>2 DEF Put, SubmitOK
  <2>2. queue \in Seq(Items) /\ Unsettled \in Seq(Items)
    BY <1>0 DEF QueueOK, WorkerOK, Unsettled
  <2>3. (Unsettled \o queue)' = Append(Unsettled \o queue, item[p])
    BY <1>1, <2>1, <2>2, AppendedBehind
  <2> QED BY <1>1, <2>1, <2>3 DEF Feed!Next, Feed!Accept
<1>3. CASE ~ Put(p)
  <2>1. UNCHANGED queue
    BY <1>3 DEF Submit, RejectStale, Admit, Full, ReturnRefused, ReturnAccepted
  <2> QED BY <1>1, <2>1, FeedStutters
<1> QED
  BY <1>2, <1>3

\* A sync that succeeds is the abstract walk over the whole batch.
LEMMA FeedBySync ==
    ASSUME Counted, SyncSucceeds
    PROVE  Feed!Advance
<1>1. /\ queue \in Seq(Items) /\ batch \in Seq(Items) /\ batch # <<>>
      /\ twin \in [at : Nat, fps : [Keys -> Nat]]
      /\ Unsettled = batch /\ Unsettled' = <<>> /\ UNCHANGED queue
      /\ twin' = [at |-> batch[Len(batch)].at, fps |-> [k \in Keys |-> Merged(k)]]
  BY DEF Counted, TypeOK, QueueOK, WorkerOK, SyncSucceeds, Unsettled
<1>2. PICK p \in Seq(Items), n \in Nat \ {0} :
        /\ p = Unsettled \o queue /\ n = Len(batch)
        /\ Len(p) = n + Len(queue) /\ \A i \in 1 .. n : p[i] = batch[i]
  <2>1. /\ Len(batch) \in Nat \ {0} /\ Len(queue) \in Nat
    BY <1>1
  <2>2. /\ batch \o queue \in Seq(Items) /\ Len(batch \o queue) = Len(batch) + Len(queue)
        /\ \A i \in 1 .. Len(batch) + Len(queue) :
              (batch \o queue)[i] = IF i <= Len(batch) THEN batch[i] ELSE queue[i - Len(batch)]
    BY <1>1, ConcatProperties
  <2>3. \A i \in 1 .. Len(batch) : i \in 1 .. Len(batch) + Len(queue) /\ i <= Len(batch)
    BY <2>1
  <2> QED BY <1>1, <2>1, <2>2, <2>3
<1>3. twin = [at |-> twin.at, fps |-> [k \in Keys |-> twin.fps[k]]]
  BY <1>1
<1>4. Feed!After(n) = TwinAfter(p, twin, n)
  BY <1>2, <1>3, WalkComputes
<1>5. twin' = TwinAfter(p, twin, n)
  <2>1. ASSUME NEW k \in Keys PROVE Merged(k) = Supplied(p, twin, n, k)
    <3>1. Supply(p, n, k) = {i \in 1 .. Len(batch) : k \in batch[i].keys}
      BY <1>2 DEF Supply
    <3>2. CASE Supply(p, n, k) = {}
      BY <3>1, <3>2 DEF Merged, Supplied
    <3>3. CASE Supply(p, n, k) # {}
      <4>1. PICK final : final = CHOOSE x \in Supply(p, n, k) : \A j \in Supply(p, n, k) : x >= j
        OBVIOUS
      <4>2. final \in Supply(p, n, k)
        <5>1. \E x \in Supply(p, n, k) : \A j \in Supply(p, n, k) : x >= j
          <6>1. Supply(p, n, k) \in SUBSET (1 .. n)
            BY DEF Supply
          <6> QED BY <3>3, <6>1, LastExists
        <5> QED BY <4>1, <5>1
      <4>3. p[final] = batch[final]
        BY <1>2, <4>2 DEF Supply
      <4>4. Supplied(p, twin, n, k) = p[final].no
        BY <3>3, <4>1 DEF Supplied
      <4>5. Merged(k) = batch[final].no
        BY <3>1, <3>3, <4>1 DEF Merged
      <4> QED BY <4>3, <4>4, <4>5
    <3> QED BY <3>2, <3>3
  <2>2. p[n].at = batch[n].at
    <3>1. n \in 1 .. n
      OBVIOUS
    <3> QED BY <1>2, <3>1
  <2>3. [k \in Keys |-> Merged(k)] = [k \in Keys |-> Supplied(p, twin, n, k)]
    BY <2>1
  <2> QED BY <1>1, <1>2, <2>2, <2>3 DEF TwinAfter
<1>6. (Unsettled \o queue)' = SubSeq(Unsettled \o queue, n + 1, Len(Unsettled \o queue))
  <2>1. SubSeq(batch \o queue, Len(batch) + 1, Len(batch \o queue)) = queue
    BY <1>1, PrefixGone
  <2>2. <<>> \o queue = queue
    BY <1>1, ConcatEmptySeq
  <2> QED BY <1>1, <1>2, <2>1, <2>2
<1>7. n \in 1 .. Len(Unsettled \o queue)
  <2>1. Len(queue) \in Nat
    BY <1>1
  <2> QED BY <1>2, <2>1
<1> QED
  BY <1>4, <1>5, <1>6, <1>7 DEF Feed!Advance

\* A failed sync gives up the whole batch.
LEMMA FeedByFailure ==
    ASSUME Counted, SyncFails
    PROVE  Feed!Drop
<1>1. /\ queue \in Seq(Items) /\ batch \in Seq(Items) /\ batch # <<>>
      /\ Unsettled = batch /\ Unsettled' = <<>> /\ UNCHANGED <<queue, twin>>
  BY DEF Counted, TypeOK, QueueOK, WorkerOK, SyncFails, Unsettled
<1>2. SubSeq(batch \o queue, 1, 0) \o SubSeq(batch \o queue, Len(batch) + 1, Len(batch \o queue)) = queue
  BY <1>1, PrefixGone
<1>3. <<>> \o queue = queue
  BY <1>1, ConcatEmptySeq
<1>4. PICK n \in Nat \ {0} : n = Len(batch) /\ n <= Len(batch \o queue) /\ Len(batch \o queue) \in Nat
  <2>1. Len(batch \o queue) = Len(batch) + Len(queue) /\ Len(batch) \in Nat \ {0} /\ Len(queue) \in Nat
    BY <1>1, ConcatProperties
  <2> QED BY <2>1
<1>5. 1 \in 1 .. Len(Unsettled \o queue) /\ n \in 1 .. Len(Unsettled \o queue) /\ 1 - 1 = 0
  BY <1>1, <1>4
<1>6. (Unsettled \o queue)' = SubSeq(Unsettled \o queue, 1, 1 - 1)
                             \o SubSeq(Unsettled \o queue, n + 1, Len(Unsettled \o queue))
  BY <1>1, <1>2, <1>3, <1>4, <1>5
<1> QED
  BY <1>1, <1>5, <1>6 DEF Feed!Drop

\* A stop gives up the head of the queue, behind what the worker holds.
LEMMA FeedByDiscard ==
    ASSUME Counted, DiscardTakes
    PROVE  Feed!Drop
<1>1. /\ queue \in Seq(Items) /\ Unsettled \in Seq(Items) /\ queue # <<>> /\ queue' = Tail(queue)
      /\ Unsettled' = Unsettled /\ UNCHANGED twin
  BY DEF Counted, TypeOK, QueueOK, WorkerOK, DiscardTakes, Unsettled, workerVars
<1>2. SubSeq(Unsettled \o queue, 1, Len(Unsettled))
        \o SubSeq(Unsettled \o queue, Len(Unsettled) + 2, Len(Unsettled \o queue))
      = Unsettled \o Tail(queue)
  BY <1>1, PrefixGone
<1>3. PICK m \in Nat : m = Len(Unsettled) /\ m + 1 <= Len(Unsettled \o queue)
                      /\ Len(Unsettled \o queue) \in Nat
  <2>1. /\ Len(Unsettled \o queue) = Len(Unsettled) + Len(queue)
        /\ Len(Unsettled) \in Nat /\ Len(queue) \in Nat \ {0}
    BY <1>1, ConcatProperties
  <2> QED BY <2>1
<1>4. PICK i : i = m + 1
  OBVIOUS
<1>5. i \in 1 .. Len(Unsettled \o queue) /\ i \in i .. Len(Unsettled \o queue)
      /\ i - 1 = m /\ i + 1 = m + 2
  BY <1>3, <1>4
<1>6. (Unsettled \o queue)' = SubSeq(Unsettled \o queue, 1, i - 1)
                             \o SubSeq(Unsettled \o queue, i + 1, Len(Unsettled \o queue))
  BY <1>1, <1>2, <1>3, <1>5
<1> QED
  BY <1>1, <1>5, <1>6 DEF Feed!Drop

LEMMA FeedByWorker ==
    ASSUME Counted, Start \/ Worker
    PROVE  [Feed!Next]_<<Unsettled \o queue, twin>>
<1>0. QueueOK /\ WorkerOK
  BY DEF Counted, TypeOK
<1>1. CASE Start \/ CheckStop \/ GetTimeout \/ OnSyncReturns \/ OnSyncRaises \/ TaskDone \/ BatchDone
            \/ BatchComplete
  <2>1. UNCHANGED <<queue, Unsettled, twin>>
    BY <1>0, <1>1 DEF Unsettled, Start, CheckStop, GetTimeout, OnSyncReturns, OnSyncRaises, TaskDone,
              BatchDone, BatchComplete, WorkerOK
  <2> QED BY <2>1, FeedStutters
<1>2. CASE Get
  <2>1. /\ queue \in Seq(Items) /\ queue # <<>> /\ queue' = Tail(queue)
        /\ Unsettled = <<>> /\ Unsettled' = <<Head(queue)>> /\ twin' = twin
    BY <1>0, <1>2 DEF Get, Unsettled, QueueOK
  <2>2. <<Head(queue)>> \o Tail(queue) = queue /\ <<>> \o queue = queue
    BY <2>1, HeadMoves, ConcatEmptySeq, EmptySeq
  <2> QED BY <2>1, <2>2
<1>3. CASE TakeMore
  <2>1. /\ queue \in Seq(Items) /\ batch \in Seq(Items) /\ queue # <<>> /\ queue' = Tail(queue)
        /\ Unsettled = batch /\ Unsettled' = Append(batch, Head(queue)) /\ twin' = twin
    BY <1>0, <1>3 DEF TakeMore, Unsettled, QueueOK, WorkerOK
  <2>2. Append(batch, Head(queue)) \o Tail(queue) = batch \o queue
    BY <2>1, HeadMoves
  <2> QED BY <2>1, <2>2
<1>4. CASE SyncSucceeds
  BY <1>4, FeedBySync DEF Feed!Next
<1>5. CASE SyncFails
  BY <1>5, FeedByFailure DEF Feed!Next
<1> QED
  BY <1>1, <1>2, <1>3, <1>4, <1>5 DEF Worker

LEMMA FeedByStop ==
    ASSUME Counted, (\E drain \in BOOLEAN : StopCalled(drain)) \/ Stopping
    PROVE  [Feed!Next]_<<Unsettled \o queue, twin>>
<1>1. CASE DiscardTakes
  BY <1>1, FeedByDiscard DEF Feed!Next
<1>2. CASE ~ DiscardTakes
  <2>1. UNCHANGED <<queue, Unsettled, twin>>
    BY <1>2 DEF Stopping, StopCalled, JoinQueue, SetStop, JoinThread, DiscardCounts, DiscardDone,
           StopReturns, workerVars, Unsettled
  <2> QED BY <2>1, FeedStutters
<1> QED
  BY <1>1, <1>2

\* The daemon implements the feed: whatever is queued, coalesced, failed or
\* discarded, its twin is the one of syncing accepted snapshots one at a time in
\* the order in which they were queued, less those that were dropped.
THEOREM DaemonImplementsFeed == Safety => ImplementsFeed
<1>1. Init => Feed!Init
  <2> SUFFICES ASSUME Init PROVE Unsettled \o queue = <<>>
    BY DEF Feed!Init
  <2>1. Unsettled = <<>> /\ queue = <<>>
    BY DEF Init, Unsettled
  <2> QED BY <2>1, ConcatEmptySeq, EmptySeq
<1>2. Counted /\ [Next]_vars => [Feed!Next]_<<Unsettled \o queue, twin>>
  <2> SUFFICES ASSUME Counted, [Next]_vars PROVE [Feed!Next]_<<Unsettled \o queue, twin>>
    OBVIOUS
  <2>1. ASSUME NEW p \in Producers, Submit(p) PROVE [Feed!Next]_<<Unsettled \o queue, twin>>
    BY <2>1, FeedBySubmit
  <2>2. CASE Start \/ Worker
    BY <2>2, FeedByWorker
  <2>3. CASE (\E drain \in BOOLEAN : StopCalled(drain)) \/ Stopping
    BY <2>3, FeedByStop
  <2>4. CASE UNCHANGED vars
    BY <2>4, FeedStutters DEF vars, workerVars, Unsettled
  <2> QED
    BY <2>1, <2>2, <2>3, <2>4 DEF Next
<1> QED
  BY <1>1, <1>2, CountedAlways, PTL DEF Safety, ImplementsFeed, Feed!Spec

-----------------------------------------------------------------------------
(* Both together.                                                           *)

\* Whatever a behaviour of the two follows, the daemon's part of it is a
\* behaviour of the daemon and the limiter's one of the limiter: what is proved
\* of each holds of both together.
THEOREM SynchronizationIsBoth ==
    Synchronization => Safety /\ BucketInit /\ [][BucketNext]_bucketVars
<1>1. Both => Init /\ BucketInit
  BY DEF Both
<1>2. [DaemonStep \/ LimiterStep]_allVars => [Next]_vars
  BY DEF DaemonStep, LimiterStep, allVars
<1>3. [DaemonStep \/ LimiterStep]_allVars => [BucketNext]_bucketVars
  BY DEF DaemonStep, LimiterStep, allVars
<1> QED BY <1>1, <1>2, <1>3, PTL DEF Synchronization, Safety
=============================================================================
