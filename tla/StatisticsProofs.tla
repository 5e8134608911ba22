-------------------------- MODULE StatisticsProofs --------------------------
(***************************************************************************)
(* Proofs about Statistics for any number of workers, size of the buffers, *)
(* latencies and batches.                                                  *)
(*                                                                         *)
(* What a worker records is an invariant of its own steps (RecordsInv);    *)
(* the row is a function of the records, and what is proved of it needs    *)
(* what summarize_stats computes: the sums of its loop, the merged         *)
(* samples, their order and the ranks in it. Those are recursive           *)
(* functions, and what they compute is proved by induction.                *)
(***************************************************************************)
EXTENDS Statistics, WellFoundedInduction, FiniteSetTheorems, SequenceTheorems, TLAPS

(* Induction. It rests on the well-foundedness of < on Nat: a set of       *)
(* natural numbers that is not empty has a least element.                  *)
LEMMA Least ==
  ASSUME NEW T \in SUBSET Nat, T # {}
  PROVE  \E m \in T : \A k \in T : m <= k
<1> DEFINE R == OpToRel(<, Nat)
<1>1. IsWellFoundedOn(R, Nat)
  BY NatLessThanWellFounded
<1>2. \A x, y \in Nat : y < x => <<y, x>> \in R
  BY DEF OpToRel
<1> HIDE DEF R
<1>3. PICK m \in T : \A k \in T : <<k, m>> \notin R
  BY <1>1, WFMin
<1>4. m \in Nat /\ \A k \in T : k \in Nat /\ ~(k < m)
  BY <1>2, <1>3
<1>5. \A k \in T : m <= k
  BY <1>4
<1> QED
  BY <1>5

(* A set that has 0, and n + 1 whenever it has n, has every natural        *)
(* number: a least one it has not would follow one it has.                 *)
LEMMA Induction ==
  ASSUME NEW S, 0 \in S, \A n \in Nat : n \in S => n + 1 \in S
  PROVE  \A n \in Nat : n \in S
<1> SUFFICES ASSUME Nat \ S # {} PROVE FALSE
  OBVIOUS
<1>1. PICK m \in Nat \ S : \A k \in Nat \ S : m <= k
  BY Least
<1>2. m # 0 /\ m \in Nat
  BY <1>1
<1>3. m - 1 \in Nat /\ m - 1 < m /\ (m - 1) + 1 = m
  BY <1>2
<1>4. m - 1 \in S
  BY <1>1, <1>3
<1> QED
  BY <1>1, <1>3, <1>4

(* The same up to a bound.                                                 *)
LEMMA BoundedInduction ==
  ASSUME NEW N \in Nat, NEW S, 0 \in S, \A n \in 0..N - 1 : n \in S => n + 1 \in S
  PROVE  \A n \in 0..N : n \in S
<1> DEFINE T == {n \in Nat : n <= N => n \in S}
<1>1. 0 \in T
  OBVIOUS
<1>2. ASSUME NEW n \in Nat, n \in T PROVE n + 1 \in T
  BY <1>2
<1>3. \A n \in Nat : n \in T
  <2> HIDE DEF T
  <2> QED
    BY <1>1, <1>2, Induction
<1> QED
  BY <1>3

(* The recursive function of Total: SumTo(f)[i] is what the loop of        *)
(* summarize_stats has added up after i workers.                           *)
SumTo(f) == LET sum[i \in 0..Threads] == IF i = 0 THEN 0 ELSE sum[i - 1] + f[i] IN sum

(* It exists: for every n there is a function that satisfies its recursion *)
(* on 0..n, by induction on n.                                             *)
LEMMA SumToDef ==
  ASSUME NEW f
  PROVE  SumTo(f) = [i \in 0..Threads |-> IF i = 0 THEN 0 ELSE SumTo(f)[i - 1] + f[i]]
<1> DEFINE Sums(g, n) == g = [i \in 0..n |-> IF i = 0 THEN 0 ELSE g[i - 1] + f[i]]
           S == {n \in Nat : \E g : Sums(g, n)}
<1>1. 0 \in S
  <2> DEFINE g == [i \in 0..0 |-> 0]
  <2>1. Sums(g, 0)
    OBVIOUS
  <2> QED
    BY <2>1
<1>2. ASSUME NEW n \in Nat, n \in S PROVE n + 1 \in S
  <2>1. PICK g : Sums(g, n)
    BY <1>2
  <2> DEFINE h == [i \in 0..n + 1 |-> IF i <= n THEN g[i] ELSE g[n] + f[n + 1]]
  <2>2. \A i \in 0..n : g[i] = IF i = 0 THEN 0 ELSE g[i - 1] + f[i]
    BY <2>1
  <2>3. \A i \in 0..n + 1 : h[i] = IF i = 0 THEN 0 ELSE h[i - 1] + f[i]
    BY <2>2
  <2>4. Sums(h, n + 1)
    BY <2>3
  <2> HIDE DEF h
  <2> QED
    BY <2>4
<1>3. Threads \in S
  <2> HIDE DEF S
  <2> QED
    BY <1>1, <1>2, Induction, StatisticsAssumption
<1> QED
  BY <1>3 DEF SumTo

(* Its value before the first worker and one step of the loop.             *)
LEMMA SumSteps ==
  ASSUME NEW f
  PROVE  /\ Total(f) = SumTo(f)[Threads] /\ SumTo(f)[0] = 0
         /\ \A n \in 0..Threads - 1 : SumTo(f)[n + 1] = SumTo(f)[n] + f[n + 1]
<1>1. Total(f) = SumTo(f)[Threads]
  BY DEF Total, SumTo
<1>2. \A i \in 0..Threads : SumTo(f)[i] = IF i = 0 THEN 0 ELSE SumTo(f)[i - 1] + f[i]
  BY SumToDef
<1>3. Threads \in Nat
  BY StatisticsAssumption
<1>4. ASSUME NEW n \in 0..Threads - 1
      PROVE  SumTo(f)[n + 1] = SumTo(f)[n] + f[n + 1]
  <2>1. n + 1 \in 0..Threads /\ n + 1 # 0 /\ (n + 1) - 1 = n
    BY <1>3
  <2> QED
    BY <1>2, <2>1
<1> QED
  BY <1>1, <1>2, <1>3, <1>4

(* Induction over the workers, in the order the loop takes them.           *)
LEMMA WorkerInduction ==
  ASSUME NEW S, 0 \in S, \A n \in 0..Threads - 1 : n \in S => n + 1 \in S
  PROVE  Threads \in S
<1>1. Threads \in Nat /\ Threads \in 0..Threads
  BY StatisticsAssumption
<1>2. \A n \in 0..Threads : n \in S
  BY <1>1, BoundedInduction, Zenon
<1> QED
  BY <1>1, <1>2

(* A sum of integers is an integer.                                        *)
LEMMA TotalType ==
  ASSUME NEW f \in [Workers -> Int]
  PROVE  Total(f) \in Int
<1> DEFINE S == {n \in 0..Threads : SumTo(f)[n] \in Int}
<1>1. Threads \in Nat /\ (\A n \in 0..Threads - 1 : f[n + 1] \in Int)
  BY StatisticsAssumption DEF Workers
<1>2. 0 \in S /\ \A n \in 0..Threads - 1 : n \in S => n + 1 \in S
  BY <1>1, SumSteps
<1>3. Threads \in S
  <2> HIDE DEF S
  <2> QED
    BY <1>2, WorkerInduction
<1> QED
  BY <1>3, SumSteps

(* The sum of the sums is the sum of the parts: attempts of successes and  *)
(* retries.                                                                *)
LEMMA TotalAdds ==
  ASSUME NEW f \in [Workers -> Int], NEW g \in [Workers -> Int], NEW h \in [Workers -> Int],
         \A w \in Workers : f[w] = g[w] + h[w]
  PROVE  Total(f) = Total(g) + Total(h)
<1> DEFINE S == {n \in 0..Threads : /\ SumTo(g)[n] \in Int /\ SumTo(h)[n] \in Int
                                    /\ SumTo(f)[n] = SumTo(g)[n] + SumTo(h)[n]}
<1>1. /\ Threads \in Nat
      /\ \A n \in 0..Threads - 1 :
           f[n + 1] = g[n + 1] + h[n + 1] /\ g[n + 1] \in Int /\ h[n + 1] \in Int
  BY StatisticsAssumption DEF Workers
<1>2. 0 \in S /\ \A n \in 0..Threads - 1 : n \in S => n + 1 \in S
  BY <1>1, SumSteps
<1>3. Threads \in S
  <2> HIDE DEF S
  <2> QED
    BY <1>2, WorkerInduction
<1> QED
  BY <1>3, SumSteps

(* A factor can be taken out of a sum.                                     *)
LEMMA TotalScales ==
  ASSUME NEW c \in Int, NEW f \in [Workers -> Int], NEW g \in [Workers -> Int],
         \A w \in Workers : f[w] = c * g[w]
  PROVE  Total(f) = c * Total(g)
<1> DEFINE S == {n \in 0..Threads : SumTo(g)[n] \in Int /\ SumTo(f)[n] = c * SumTo(g)[n]}
<1>1. /\ Threads \in Nat
      /\ \A n \in 0..Threads - 1 : f[n + 1] = c * g[n + 1] /\ g[n + 1] \in Int
  BY StatisticsAssumption DEF Workers
<1>2. \A a, b \in Int : c * (a + b) = c * a + c * b /\ c * 0 = 0
  OBVIOUS
<1>3. 0 \in S
  BY <1>1, <1>2, SumSteps
<1>4. ASSUME NEW n \in 0..Threads - 1, n \in S PROVE n + 1 \in S
  <2>1. SumTo(f)[n + 1] = SumTo(f)[n] + f[n + 1] /\ SumTo(g)[n + 1] = SumTo(g)[n] + g[n + 1]
    BY SumSteps
  <2>2. SumTo(g)[n + 1] \in Int /\ SumTo(f)[n + 1] = c * SumTo(g)[n] + c * g[n + 1]
    BY <1>1, <1>4, <2>1
  <2>3. SumTo(f)[n + 1] = c * SumTo(g)[n + 1]
    BY <1>1, <1>2, <1>4, <2>1, <2>2
  <2> QED
    BY <1>1, <2>2, <2>3
<1>5. Threads \in S
  <2> HIDE DEF S
  <2> QED
    BY <1>3, <1>4, WorkerInduction
<1> QED
  BY <1>5, SumSteps

(* A sum of what is nowhere greater is not greater.                        *)
LEMMA TotalAtMost ==
  ASSUME NEW f \in [Workers -> Int], NEW g \in [Workers -> Int],
         \A w \in Workers : f[w] <= g[w]
  PROVE  Total(f) <= Total(g)
<1> DEFINE S == {n \in 0..Threads : /\ SumTo(f)[n] \in Int /\ SumTo(g)[n] \in Int
                                    /\ SumTo(f)[n] <= SumTo(g)[n]}
<1>1. /\ Threads \in Nat
      /\ \A n \in 0..Threads - 1 :
           f[n + 1] <= g[n + 1] /\ f[n + 1] \in Int /\ g[n + 1] \in Int
  BY StatisticsAssumption DEF Workers
<1>2. 0 \in S /\ \A n \in 0..Threads - 1 : n \in S => n + 1 \in S
  BY <1>1, SumSteps
<1>3. Threads \in S
  <2> HIDE DEF S
  <2> QED
    BY <1>2, WorkerInduction
<1> QED
  BY <1>3, SumSteps

(* The largest of the workers' values exists.                              *)
LEMMA LargestValue ==
  ASSUME NEW f \in [Workers -> Int]
  PROVE  /\ Max({f[v] : v \in Workers}) \in Int
         /\ \A w \in Workers : f[w] <= Max({f[v] : v \in Workers})
<1> DEFINE S == {n \in 0..Threads : n > 0 => \E w \in 1..n : \A v \in 1..n : f[v] <= f[w]}
<1>1. Threads \in Nat /\ Threads > 0 /\ Workers = 1..Threads
  BY StatisticsAssumption DEF Workers
<1>2. 0 \in S
  BY <1>1
<1>3. ASSUME NEW n \in 0..Threads - 1, n \in S PROVE n + 1 \in S
  <2>1. n + 1 \in 0..Threads /\ 1..n + 1 = (1..n) \cup {n + 1} /\ n + 1 \in Workers
    BY <1>1
  <2>2. \A v \in 1..n + 1 : f[v] \in Int
    BY <1>1, <2>1
  <2>3. CASE n = 0
    BY <2>1, <2>2, <2>3
  <2>4. CASE n > 0
    <3>1. PICK w \in 1..n : \A v \in 1..n : f[v] <= f[w]
      BY <1>3, <2>4
    <3>2. CASE f[n + 1] <= f[w]
      BY <2>1, <2>2, <3>1, <3>2
    <3>3. CASE f[w] <= f[n + 1]
      <4>1. \A v \in 1..n + 1 : f[v] <= f[n + 1]
        BY <2>1, <2>2, <3>1, <3>3
      <4> QED
        BY <2>1, <4>1
    <3> QED
      BY <2>1, <2>2, <3>2, <3>3
  <2> QED
    BY <2>3, <2>4
<1>4. Threads \in S
  <2> HIDE DEF S
  <2> QED
    BY <1>2, <1>3, WorkerInduction
<1>5. PICK w \in Workers : \A v \in Workers : f[v] <= f[w]
  BY <1>1, <1>4
<1> DEFINE V == {f[v] : v \in Workers}
<1>6. f[w] \in V /\ \A y \in V : f[w] >= y
  BY <1>5
<1>7. Max(V) \in V /\ \A y \in V : Max(V) >= y
  BY <1>6 DEF Max
<1> QED
  BY <1>7

-----------------------------------------------------------------------------
(* The records.                                                            *)

(* What a worker has recorded: the counters of thread_stats, and how they  *)
(* hang together. Every request is a success or a retry, the first         *)
(* Capacity completions have left a sample, and the windows and the        *)
(* requests in flight are observed once per request.                       *)
ThreadStats ==
  [attempts : Nat, success : Nat, retry : Nat, cwnd_sum : Nat, cwnd_samples : Nat,
   inflight_sum : Nat, inflight_samples : Nat, max_inflight : Nat, latencies : Seq(Latencies)]

(* A window is at least 1, and the greatest number in flight bounds the    *)
(* sum of them.                                                            *)
Consistent(s) ==
  /\ s.attempts = s.success + s.retry
  /\ Len(s.latencies) = Min({s.success, Capacity})
  /\ s.cwnd_samples = s.attempts /\ s.inflight_samples = s.attempts
  /\ s.cwnd_samples <= s.cwnd_sum
  /\ s.inflight_sum <= s.max_inflight * s.inflight_samples

(* Inductive: a batch keeps the records of its worker consistent.          *)
RecordsInv ==
  /\ stats \in [Workers -> ThreadStats]
  /\ \A w \in Workers : Consistent(stats[w])

(* What is printed is the summary of the records as they stand.            *)
StatisticsInv ==
  /\ RecordsInv
  /\ phase \in {"running", "printed", "failed"}
  /\ phase = "printed" => out = Summary

(* Min and Max of two integers.                                            *)
LEMMA MinMaxOfTwo ==
  ASSUME NEW a \in Int, NEW b \in Int
  PROVE  /\ Min({a, b}) = IF a <= b THEN a ELSE b
         /\ Max({a, b}) = IF a <= b THEN b ELSE a
<1>1. CASE a <= b
  <2>1. \A x \in {a, b} : (\A y \in {a, b} : x <= y) <=> x = a
    BY <1>1
  <2>2. \A x \in {a, b} : (\A y \in {a, b} : x >= y) <=> x = b
    BY <1>1
  <2> QED
    BY <1>1, <2>1, <2>2 DEF Min, Max
<1>2. CASE b <= a /\ a # b
  <2>1. \A x \in {a, b} : (\A y \in {a, b} : x <= y) <=> x = b
    BY <1>2
  <2>2. \A x \in {a, b} : (\A y \in {a, b} : x >= y) <=> x = a
    BY <1>2
  <2>3. ~(a <= b)
    BY <1>2
  <2> QED
    BY <2>1, <2>2, <2>3 DEF Min, Max
<1> QED
  BY <1>1, <1>2

(* k observations of i under the maximum m raised to n.                    *)
LEMMA SumUnderMaximum ==
  ASSUME NEW sum \in Nat, NEW m \in Nat, NEW n \in Nat, NEW samples \in Nat,
         NEW i \in Nat, NEW k \in Nat, sum <= m * samples, m <= n, i <= n
  PROVE  sum + k * i <= n * (samples + k)
<1>1. m * samples <= n * samples /\ k * i <= k * n
  OBVIOUS
<1>2. n * (samples + k) = n * samples + k * n
  OBVIOUS
<1>3. m * samples \in Nat /\ n * samples \in Nat /\ k * i \in Nat /\ k * n \in Nat
  OBVIOUS
<1> QED
  BY <1>1, <1>2, <1>3

(* The fields of thread_stats.                                             *)
LEMMA ThreadStatsFields ==
  ASSUME NEW s \in ThreadStats
  PROVE  /\ s.attempts \in Nat /\ s.success \in Nat /\ s.retry \in Nat
         /\ s.cwnd_sum \in Nat /\ s.cwnd_samples \in Nat
         /\ s.inflight_sum \in Nat /\ s.inflight_samples \in Nat
         /\ s.max_inflight \in Nat /\ s.latencies \in Seq(Latencies)
  BY DEF ThreadStats

(* For leaves with records, which SMT cannot do with their arithmetic.     *)
LEMMA SumOfNats == \A a, b \in Nat : a + b \in Nat
  OBVIOUS

(* What RecordWindow makes of s in t.                                      *)
Recorded(s, t, c, i, k) ==
  /\ t \in ThreadStats
  /\ t.attempts = s.attempts /\ t.success = s.success /\ t.retry = s.retry
  /\ t.latencies = s.latencies
  /\ t.cwnd_sum = s.cwnd_sum + k * c /\ t.cwnd_samples = s.cwnd_samples + k
  /\ t.inflight_sum = s.inflight_sum + k * i
  /\ t.inflight_samples = s.inflight_samples + k
  /\ t.max_inflight = IF s.max_inflight <= i THEN i ELSE s.max_inflight

(* RecordWindow makes it.                                                  *)
LEMMA WindowRecorded ==
  ASSUME NEW s \in ThreadStats, NEW c \in Nat, NEW i \in Nat, NEW k \in Nat,
         NEW t, t = RecordWindow(s, c, i, k)
  PROVE  Recorded(s, t, c, i, k)
<1> DEFINE x == k * c
           y == k * i
           m == Max({s.max_inflight, i})
<1>1. m = IF s.max_inflight <= i THEN i ELSE s.max_inflight
  <2>1. s.max_inflight \in Int /\ i \in Int
    BY ThreadStatsFields
  <2> QED
    BY <2>1, MinMaxOfTwo
<1>2. x \in Nat /\ y \in Nat /\ m \in Nat
  BY <1>1, ThreadStatsFields
<1>3. t = [s EXCEPT !.cwnd_sum = @ + x, !.cwnd_samples = @ + k, !.inflight_sum = @ + y,
                    !.inflight_samples = @ + k, !.max_inflight = m]
  BY DEF RecordWindow
<1> HIDE DEF x, y, m
<1>4. t = [attempts |-> s.attempts, success |-> s.success, retry |-> s.retry,
           cwnd_sum |-> s.cwnd_sum + x, cwnd_samples |-> s.cwnd_samples + k,
           inflight_sum |-> s.inflight_sum + y, inflight_samples |-> s.inflight_samples + k,
           max_inflight |-> m, latencies |-> s.latencies]
  BY <1>3 DEF ThreadStats
<1>5. /\ s.attempts \in Nat /\ s.success \in Nat /\ s.retry \in Nat
      /\ s.cwnd_sum + x \in Nat /\ s.cwnd_samples + k \in Nat
      /\ s.inflight_sum + y \in Nat /\ s.inflight_samples + k \in Nat
      /\ s.latencies \in Seq(Latencies)
  BY <1>2, ThreadStatsFields, SumOfNats, Zenon
<1>6. t \in ThreadStats
  BY <1>2, <1>4, <1>5 DEF ThreadStats
<1>7. /\ t.attempts = s.attempts /\ t.success = s.success /\ t.retry = s.retry
      /\ t.latencies = s.latencies
      /\ t.cwnd_sum = s.cwnd_sum + x /\ t.cwnd_samples = s.cwnd_samples + k
      /\ t.inflight_sum = s.inflight_sum + y
      /\ t.inflight_samples = s.inflight_samples + k
      /\ t.max_inflight = m
  BY <1>4
<1> QED
  BY <1>1, <1>6, <1>7, Zenon DEF x, y, Recorded

(* RecordLatency keeps the first Capacity latencies: the buffer fills with *)
(* the successes, then drops what comes.                                   *)
LEMMA LatencyRecorded ==
  ASSUME NEW s \in ThreadStats, Consistent(s), NEW ns \in Latencies, NEW k \in Nat \ {0}
  PROVE  /\ RecordLatency(s, ns, k) \in Seq(Latencies)
         /\ Len(RecordLatency(s, ns, k)) = Min({s.success + k, Capacity})
<1>1. /\ s.success \in Nat /\ Capacity \in Nat /\ s.latencies \in Seq(Latencies)
      /\ Len(s.latencies) = IF s.success <= Capacity THEN s.success ELSE Capacity
  BY MinMaxOfTwo, StatisticsAssumption DEF Consistent, ThreadStats
<1> DEFINE m == Min({k, Room(s)})
<1>2. Room(s) \in Nat /\ Room(s) = Capacity - Len(s.latencies)
  BY <1>1 DEF Room
<1>3. m = IF k <= Room(s) THEN k ELSE Room(s)
  BY <1>2, MinMaxOfTwo
<1> HIDE DEF m
<1>4. m \in Nat
  BY <1>2, <1>3
<1>5. [i \in 1..m |-> ns] \in Seq(Latencies) /\ Len([i \in 1..m |-> ns]) = m
  BY <1>4
<1>6. RecordLatency(s, ns, k) = s.latencies \o [i \in 1..m |-> ns]
  BY DEF RecordLatency, m
<1>7. ASSUME NEW p \in Seq(Latencies), NEW q \in Seq(Latencies)
      PROVE  p \o q \in Seq(Latencies) /\ Len(p \o q) = Len(p) + Len(q)
  OBVIOUS
<1>8. /\ Len(RecordLatency(s, ns, k)) = Len(s.latencies) + m
      /\ RecordLatency(s, ns, k) \in Seq(Latencies)
  BY <1>1, <1>5, <1>6, <1>7, Zenon
<1>9. Min({s.success + k, Capacity}) = IF s.success + k <= Capacity THEN s.success + k ELSE Capacity
  BY <1>1, MinMaxOfTwo
<1> QED
  BY <1>1, <1>2, <1>3, <1>4, <1>8, <1>9

(* A batch of a worker keeps RecordsInv.                                   *)
LEMMA RecordStep ==
  ASSUME RecordsInv, NEW w \in Workers, Record(w)
  PROVE  RecordsInv'
<1> DEFINE s == stats[w]
           t == stats'[w]
<1>1. s \in ThreadStats /\ Consistent(s)
  BY DEF RecordsInv
<1>2. SUFFICES /\ t \in ThreadStats /\ Consistent(t)
               /\ stats' = [stats EXCEPT ![w] = t]
  BY DEF RecordsInv
<1>3. ASSUME NEW c \in Nat, NEW i \in Nat, NEW k \in Nat \ {0}, c >= 1,
             t \in ThreadStats,
             t.cwnd_sum = s.cwnd_sum + k * c, t.cwnd_samples = s.cwnd_samples + k,
             t.inflight_sum = s.inflight_sum + k * i,
             t.inflight_samples = s.inflight_samples + k,
             t.max_inflight = (IF s.max_inflight <= i THEN i ELSE s.max_inflight),
             t.attempts = s.attempts + k, t.attempts = t.success + t.retry,
             Len(t.latencies) = Min({t.success, Capacity})
      PROVE  Consistent(t)
  <2> HIDE DEF s, t
  <2>1. s.cwnd_sum \in Nat /\ s.cwnd_samples \in Nat /\ k * c \in Nat /\ k <= k * c
    BY <1>1, <1>3 DEF ThreadStats
  <2>2. s.cwnd_samples + k <= s.cwnd_sum + k * c
    BY <1>1, <2>1 DEF Consistent
  <2>3. s.inflight_sum + k * i <= t.max_inflight * (s.inflight_samples + k)
    <3>1. /\ s.inflight_sum \in Nat /\ s.max_inflight \in Nat /\ s.inflight_samples \in Nat
          /\ s.inflight_sum <= s.max_inflight * s.inflight_samples
      BY <1>1 DEF Consistent, ThreadStats
    <3>2. t.max_inflight \in Nat /\ s.max_inflight <= t.max_inflight /\ i <= t.max_inflight
      BY <1>3, <3>1
    <3>3. k \in Nat
      OBVIOUS
    <3> QED
      BY <3>1, <3>2, <3>3, SumUnderMaximum
  <2> QED
    BY <1>1, <1>3, <2>2, <2>3 DEF Consistent
<1>4. CASE Reject(w)
  <2>1. PICK window \in {<<1, 0>>, <<1, 2>>} :
          stats' = [stats EXCEPT ![w] =
            [RecordWindow(s, window[1], window[2], 1) EXCEPT !.attempts = @ + 1, !.retry = @ + 1]]
    BY <1>4 DEF Reject
  <2> DEFINE c == window[1]
             i == window[2]
             k == 1
             r == RecordWindow(s, c, i, k)
  <2>2. c \in Nat /\ c >= 1 /\ i \in Nat /\ k \in Nat \ {0} /\ k \in Nat
    OBVIOUS
  <2>3. r = RecordWindow(s, c, i, k)
    OBVIOUS
  <2>4. t = [r EXCEPT !.attempts = @ + 1, !.retry = @ + 1]
    BY <2>1 DEF RecordsInv
  <2> HIDE DEF s, t, r, c, i, k
  <2>5. Recorded(s, r, c, i, k)
    BY <1>1, <2>2, <2>3, WindowRecorded, Zenon
  <2>6. t = [attempts |-> r.attempts + 1, success |-> r.success, retry |-> r.retry + 1,
             cwnd_sum |-> r.cwnd_sum, cwnd_samples |-> r.cwnd_samples,
             inflight_sum |-> r.inflight_sum, inflight_samples |-> r.inflight_samples,
             max_inflight |-> r.max_inflight, latencies |-> r.latencies]
    BY <2>4, <2>5 DEF Recorded, ThreadStats
  <2>7. t \in ThreadStats
    BY <2>5, <2>6 DEF Recorded, ThreadStats
  <2>8. /\ t.cwnd_sum = r.cwnd_sum /\ t.cwnd_samples = r.cwnd_samples
        /\ t.inflight_sum = r.inflight_sum /\ t.inflight_samples = r.inflight_samples
        /\ t.max_inflight = r.max_inflight
    BY <2>6
  <2>9. /\ t.attempts = s.attempts + k /\ t.attempts = t.success + t.retry
        /\ Len(t.latencies) = Min({t.success, Capacity})
    <3>1. /\ t.attempts = s.attempts + k /\ t.success = s.success /\ t.retry = s.retry + 1
          /\ t.latencies = s.latencies
      BY <2>5, <2>6 DEF k, Recorded
    <3> QED
      BY <1>1, <3>1, ThreadStatsFields DEF Consistent, k
  <2>10. Consistent(t)
    BY <1>3, <2>2, <2>5, <2>7, <2>8, <2>9 DEF Recorded
  <2> QED
    BY <2>1, <2>4, <2>7, <2>10 DEF s, r, c, i, k
<1>5. ASSUME NEW k \in Batches, Complete(w, k)
      PROVE  t \in ThreadStats /\ Consistent(t) /\ stats' = [stats EXCEPT ![w] = t]
  <2>1. PICK ns \in Latencies, window \in {<<1, 1>>, <<2, 2>>} :
          stats' = [stats EXCEPT ![w] =
            [RecordWindow(s, window[1], window[2], k) EXCEPT
               !.attempts = @ + k, !.success = @ + k, !.latencies = RecordLatency(s, ns, k)]]
    BY <1>5 DEF Complete
  <2> DEFINE c == window[1]
             i == window[2]
             r == RecordWindow(s, c, i, k)
  <2>2. c \in Nat /\ c >= 1 /\ i \in Nat /\ k \in Nat \ {0} /\ k \in Nat
    BY StatisticsAssumption
  <2>3. r = RecordWindow(s, c, i, k)
    OBVIOUS
  <2>4. t = [r EXCEPT !.attempts = @ + k, !.success = @ + k, !.latencies = RecordLatency(s, ns, k)]
    BY <2>1 DEF RecordsInv
  <2> HIDE DEF s, t, r, c, i
  <2>5. Recorded(s, r, c, i, k)
    BY <1>1, <2>2, <2>3, WindowRecorded, Zenon
  <2>6. t = [attempts |-> r.attempts + k, success |-> r.success + k, retry |-> r.retry,
             cwnd_sum |-> r.cwnd_sum, cwnd_samples |-> r.cwnd_samples,
             inflight_sum |-> r.inflight_sum, inflight_samples |-> r.inflight_samples,
             max_inflight |-> r.max_inflight, latencies |-> RecordLatency(s, ns, k)]
    BY <2>4, <2>5 DEF Recorded, ThreadStats
  <2>7. t \in ThreadStats
    <3>1. RecordLatency(s, ns, k) \in Seq(Latencies)
      BY <1>1, <2>2, LatencyRecorded
    <3>2. r.attempts + k \in Nat /\ r.success + k \in Nat
      BY <2>2, <2>5, ThreadStatsFields, SumOfNats, Zenon DEF Recorded
    <3> QED
      BY <2>5, <2>6, <3>1, <3>2 DEF Recorded, ThreadStats
  <2>8. /\ t.cwnd_sum = r.cwnd_sum /\ t.cwnd_samples = r.cwnd_samples
        /\ t.inflight_sum = r.inflight_sum /\ t.inflight_samples = r.inflight_samples
        /\ t.max_inflight = r.max_inflight
    BY <2>6
  <2>9. /\ t.attempts = s.attempts + k /\ t.attempts = t.success + t.retry
        /\ Len(t.latencies) = Min({t.success, Capacity})
    <3>1. /\ t.attempts = s.attempts + k /\ t.success = s.success + k /\ t.retry = s.retry
          /\ t.latencies = RecordLatency(s, ns, k)
      BY <2>5, <2>6 DEF Recorded
    <3>2. Len(t.latencies) = Min({t.success, Capacity})
      BY <1>1, <2>2, <3>1, LatencyRecorded
    <3>3. s.attempts + k = (s.success + k) + s.retry
      BY <1>1, <2>2, ThreadStatsFields DEF Consistent
    <3> QED
      BY <3>1, <3>2, <3>3
  <2>10. Consistent(t)
    BY <1>3, <2>2, <2>5, <2>7, <2>8, <2>9 DEF Recorded
  <2> QED
    BY <2>1, <2>4, <2>7, <2>10 DEF s, r, c, i
<1> QED
  BY <1>4, <1>5 DEF Record

(* Every step keeps StatisticsInv.                                         *)
LEMMA StatisticsStep ==
  ASSUME StatisticsInv, [Next]_vars
  PROVE  StatisticsInv'
<1>1. ASSUME NEW w \in Workers, Record(w) PROVE StatisticsInv'
  <2>1. phase' = "running"
    BY <1>1 DEF Record
  <2> QED
    BY <1>1, <2>1, RecordStep DEF StatisticsInv
<1>2. CASE Summarize
  <2>1. UNCHANGED stats /\ RecordsInv'
    BY <1>2 DEF Summarize, StatisticsInv, RecordsInv
  <2>2. Summary' = Summary
    BY <2>1 DEF Summary, Total, LatencyCount, Sorted, Merged, MaxInflight
  <2> QED
    BY <1>2, <2>1, <2>2 DEF Summarize, StatisticsInv
<1>3. CASE UNCHANGED vars
  <2>1. UNCHANGED <<stats, phase, out>> /\ RecordsInv'
    BY <1>3 DEF vars, StatisticsInv, RecordsInv
  <2>2. Summary' = Summary
    BY <2>1 DEF Summary, Total, LatencyCount, Sorted, Merged, MaxInflight
  <2> QED
    BY <2>1, <2>2 DEF StatisticsInv
<1> QED
  BY <1>1, <1>2, <1>3 DEF Next

(* At any time the records of every worker are consistent, and a row that  *)
(* is printed is the summary of them.                                      *)
THEOREM StatisticsInvariant == Spec => []StatisticsInv
<1>1. Init => StatisticsInv
  <2> SUFFICES ASSUME Init PROVE StatisticsInv
    OBVIOUS
  <2>1. Min({0, Capacity}) = 0
    BY MinMaxOfTwo, StatisticsAssumption
  <2>2. <<>> \in Seq(Latencies) /\ Len(<<>>) = 0
    OBVIOUS
  <2> DEFINE s == [attempts |-> 0, success |-> 0, retry |-> 0, cwnd_sum |-> 0, cwnd_samples |-> 0,
                   inflight_sum |-> 0, inflight_samples |-> 0, max_inflight |-> 0,
                   latencies |-> <<>>]
  <2>3. s \in ThreadStats
    BY <2>2 DEF ThreadStats
  <2>4. Consistent(s)
    BY <2>1, <2>2 DEF Consistent
  <2>5. stats = [w \in Workers |-> s]
    BY DEF Init
  <2> HIDE DEF s
  <2>6. RecordsInv
    BY <2>3, <2>4, <2>5 DEF RecordsInv
  <2> QED
    BY <2>6 DEF Init, StatisticsInv
<1>2. StatisticsInv /\ [Next]_vars => StatisticsInv'
  BY StatisticsStep
<1> QED
  BY <1>1, <1>2, PTL DEF Spec

(* The summary of consistent records accounts for every request.           *)
LEMMA RowFromRecords ==
  ASSUME RecordsInv, out = Summary
  PROVE  RowAccountsForAll
<1> DEFINE attempts  == [w \in Workers |-> stats[w].attempts]
           success   == [w \in Workers |-> stats[w].success]
           retry     == [w \in Workers |-> stats[w].retry]
           lengths   == [w \in Workers |-> Len(stats[w].latencies)]
           firsts    == [w \in Workers |-> Min({stats[w].success, Capacity})]
           windows   == [w \in Workers |-> stats[w].cwnd_sum]
           wsamples  == [w \in Workers |-> stats[w].cwnd_samples]
           inflights == [w \in Workers |-> stats[w].inflight_sum]
           isamples  == [w \in Workers |-> stats[w].inflight_samples]
           maxima    == [w \in Workers |-> stats[w].max_inflight]
           greatest  == MaxInflight
<1>1. \A w \in Workers : stats[w] \in ThreadStats /\ Consistent(stats[w])
  BY DEF RecordsInv
<1>2. /\ attempts \in [Workers -> Int] /\ success \in [Workers -> Int]
      /\ retry \in [Workers -> Int] /\ windows \in [Workers -> Int]
      /\ wsamples \in [Workers -> Int] /\ inflights \in [Workers -> Int]
      /\ isamples \in [Workers -> Int] /\ maxima \in [Workers -> Int]
  BY <1>1, ThreadStatsFields
<1>3. lengths = firsts /\ wsamples = attempts /\ isamples = attempts
  BY <1>1 DEF Consistent
<1>4. \A w \in Workers : attempts[w] = success[w] + retry[w] /\ attempts[w] <= windows[w]
  BY <1>1, ThreadStatsFields DEF Consistent
<1>5. greatest \in Int /\ \A w \in Workers : maxima[w] <= greatest
  <2>1. greatest = Max({maxima[w] : w \in Workers})
    <3>1. {maxima[w] : w \in Workers} = {stats[w].max_inflight : w \in Workers}
      OBVIOUS
    <3> QED
      BY <3>1, Zenon DEF MaxInflight
  <2> HIDE DEF maxima, greatest
  <2> QED
    BY <1>2, <2>1, LargestValue
<1>6. greatest \in Nat
  <2>1. 1 \in Workers
    BY StatisticsAssumption DEF Workers
  <2>2. maxima[1] \in Nat
    BY <1>1, <2>1, ThreadStatsFields
  <2> QED
    BY <1>5, <2>1, <2>2
<1>7. \A w \in Workers : inflights[w] <= greatest * isamples[w]
  <2> TAKE w \in Workers
  <2>1. /\ inflights[w] <= maxima[w] * isamples[w]
        /\ inflights[w] \in Nat /\ maxima[w] \in Nat /\ isamples[w] \in Nat
    BY <1>1, ThreadStatsFields DEF Consistent
  <2>2. maxima[w] <= greatest
    BY <1>5
  <2> HIDE DEF maxima, inflights, isamples, greatest
  <2>3. maxima[w] * isamples[w] \in Nat /\ greatest * isamples[w] \in Nat
    BY <1>6, <2>1
  <2>4. maxima[w] * isamples[w] <= greatest * isamples[w]
    BY <1>6, <2>1, <2>2, SumUnderMaximum
  <2> QED
    BY <2>1, <2>3, <2>4
<1>8. /\ out.attempts = Total(attempts) /\ out.success = Total(success)
      /\ out.retry = Total(retry) /\ out.latency_count = Total(lengths)
      /\ out.max_inflight = greatest
      /\ out.avg_cwnd = Average(Total(windows), Total(wsamples))
      /\ out.avg_inflight = Average(Total(inflights), Total(isamples))
  BY DEF Summary, LatencyCount
<1>9. RowAccountsForAll <=>
        (phase = "printed" =>
          /\ out.attempts = out.success + out.retry
          /\ out.latency_count = Total(firsts)
          /\ out.avg_inflight[1] <= out.max_inflight * out.avg_inflight[2]
          /\ out.attempts > 0 => out.avg_cwnd[1] >= out.avg_cwnd[2])
  BY DEF RowAccountsForAll
<1> HIDE DEF attempts, success, retry, lengths, firsts, windows, wsamples, inflights, isamples,
             maxima, greatest
<1>10. Total(attempts) = Total(success) + Total(retry)
  BY <1>2, <1>4, TotalAdds
<1>11. Total(attempts) <= Total(windows)
  BY <1>2, <1>4, TotalAtMost
<1>12. Total(inflights) <= greatest * Total(isamples)
  <2> DEFINE bounds == [w \in Workers |-> greatest * isamples[w]]
  <2>1. bounds \in [Workers -> Int]
    BY <1>2, <1>6
  <2>2. \A w \in Workers : bounds[w] = greatest * isamples[w] /\ inflights[w] <= bounds[w]
    BY <1>7
  <2> HIDE DEF bounds
  <2>3. Total(inflights) <= Total(bounds)
    BY <1>2, <2>1, <2>2, TotalAtMost
  <2>4. Total(bounds) = greatest * Total(isamples)
    BY <1>2, <1>6, <2>1, <2>2, TotalScales
  <2> QED
    BY <2>3, <2>4
<1>13. out.avg_inflight[1] <= out.max_inflight * out.avg_inflight[2]
  BY <1>6, <1>8, <1>12 DEF Average
<1>14. out.attempts > 0 => out.avg_cwnd[1] >= out.avg_cwnd[2]
  BY <1>3, <1>8, <1>11 DEF Average
<1> QED
  BY <1>3, <1>8, <1>9, <1>10, <1>13, <1>14

(* A row accounts for every request of every worker, has a sample of each  *)
(* worker's first Capacity completions, and its averages lie within what   *)
(* was observed: summarize_stats (stats.c) neither loses nor counts twice, *)
(* however many workers there are and whenever their buffers filled.       *)
THEOREM StatisticsRow == Spec => []RowAccountsForAll
<1>1. StatisticsInv => RowAccountsForAll
  BY RowFromRecords DEF StatisticsInv, RowAccountsForAll
<1> QED
  BY <1>1, StatisticsInvariant, PTL

-----------------------------------------------------------------------------
(* Merging and sorting.                                                    *)

(* How many elements of s are in V.                                        *)
Occurs(s, V) == Cardinality({i \in DOMAIN s : s[i] \in V})

(* The order qsort leaves with cmp_u64.                                    *)
Ascending(s) == \A i, j \in DOMAIN s : i <= j => s[i] <= s[j]

(* 1..n has n elements.                                                    *)
LEMMA IntervalSize ==
  ASSUME NEW n \in Nat
  PROVE  IsFiniteSet(1..n) /\ Cardinality(1..n) = n
<1>1. IsFiniteSet(1..n) /\ Cardinality(1..n) = IF 1 > n THEN 0 ELSE n - 1 + 1
  BY FS_Interval
<1> QED
  BY <1>1

(* A count of elements is at most the length.                              *)
LEMMA OccursType ==
  ASSUME NEW s \in Seq(Nat), NEW V
  PROVE  /\ IsFiniteSet({i \in DOMAIN s : s[i] \in V})
         /\ Occurs(s, V) \in Nat /\ Occurs(s, V) <= Len(s)
<1> DEFINE A == {i \in DOMAIN s : s[i] \in V}
<1>1. A \in SUBSET (1..Len(s)) /\ Len(s) \in Nat
  OBVIOUS
<1>2. IsFiniteSet(1..Len(s)) /\ Cardinality(1..Len(s)) = Len(s)
  BY <1>1, IntervalSize
<1> HIDE DEF A
<1>3. IsFiniteSet(A) /\ Cardinality(A) \in Nat /\ Cardinality(A) <= Len(s)
  BY <1>1, <1>2, FS_Subset, FS_CardinalityType
<1> QED
  BY <1>3 DEF A, Occurs

(* What occurs in two sequences one after the other is the sum.            *)
LEMMA OccursJoined ==
  ASSUME NEW s \in Seq(Nat), NEW t \in Seq(Nat), NEW V
  PROVE  Occurs(s \o t, V) = Occurs(s, V) + Occurs(t, V)
<1> DEFINE n == Len(s)
           A == {i \in DOMAIN s : s[i] \in V}
           B == {i \in DOMAIN t : t[i] \in V}
           C == {i \in DOMAIN (s \o t) : (s \o t)[i] \in V}
           D == {n + j : j \in B}
           f == [j \in B |-> n + j]
<1>1. n \in Nat /\ B \in SUBSET Nat
  OBVIOUS
<1>2. f \in Bijection(B, D)
  <2>1. f \in [B -> D]
    OBVIOUS
  <2>2. \A i, j \in B : f[i] = f[j] => i = j
    BY <1>1
  <2>3. \A d \in D : \E j \in B : f[j] = d
    OBVIOUS
  <2> HIDE DEF f, B, D
  <2> QED
    BY <2>1, <2>2, <2>3 DEF Bijection, Injection, Surjection, IsInjective
<1>3. IsFiniteSet(D) /\ Cardinality(D) = Cardinality(B)
  <2>1. IsFiniteSet(B)
    BY OccursType
  <2>2. ExistsBijection(B, D)
    BY <1>2 DEF ExistsBijection
  <2> HIDE DEF B, D
  <2> QED
    BY <2>1, <2>2, FS_Bijection
<1>4. C = A \cup D
  <2>1. /\ DOMAIN (s \o t) = 1..n + Len(t) /\ Len(t) \in Nat
        /\ DOMAIN s = 1..n /\ DOMAIN t = 1..Len(t)
        /\ \A i \in 1..n + Len(t) : (s \o t)[i] = IF i <= n THEN s[i] ELSE t[i - n]
    OBVIOUS
  <2>2. \A i \in C : i \in A \cup D
    <3> TAKE i \in C
    <3>1. CASE i <= n
      BY <1>1, <2>1, <3>1
    <3>2. CASE i > n
      <4>1. i - n \in B /\ i = n + (i - n)
        BY <1>1, <2>1, <3>2
      <4> QED
        BY <4>1
    <3> QED
      BY <1>1, <2>1, <3>1, <3>2
  <2>3. \A i \in A : i \in C
    BY <1>1, <2>1
  <2>4. \A j \in B : n + j \in C
    BY <1>1, <2>1
  <2> QED
    BY <2>2, <2>3, <2>4
<1>5. A \cap D = {}
  BY <1>1
<1>6. IsFiniteSet(A) /\ Cardinality(A) \in Nat /\ Cardinality(B) \in Nat
  BY OccursType DEF Occurs
<1> HIDE DEF A, B, C, D
<1>7. Cardinality(C) = Cardinality(A) + Cardinality(D) - Cardinality({})
  BY <1>3, <1>4, <1>5, <1>6, FS_Union
<1>8. Cardinality(C) = Cardinality(A) + Cardinality(B)
  BY <1>3, <1>6, <1>7, FS_EmptySet
<1> QED
  BY <1>8 DEF Occurs, A, B, C

(* A set of indices that has every index below one of its own is 1..k: it  *)
(* ends before the least index it lacks.                                   *)
LEMMA InitialSegment ==
  ASSUME NEW n \in Nat, NEW D \in SUBSET (1..n), \A i \in D : \A j \in 1..i : j \in D
  PROVE  Cardinality(D) \in 0..n /\ D = 1..Cardinality(D)
<1> SUFFICES ASSUME TRUE
             PROVE  \E k \in 0..n : D = 1..k
  BY IntervalSize
<1>1. CASE D = 1..n
  BY <1>1
<1>2. CASE D # 1..n
  <2> DEFINE R == (1..n) \ D
  <2>1. R \in SUBSET Nat
    OBVIOUS
  <2>2. R # {}
    BY <1>2, Zenon
  <2>3. PICK m \in R : \A j \in R : m <= j
    <3> HIDE DEF R
    <3> QED
      BY <2>1, <2>2, Least
  <2>4. m \in 1..n /\ m \notin D /\ m - 1 \in 0..n
    OBVIOUS
  <2>5. \A i \in 1..m - 1 : i \in D
    BY <2>3
  <2>6. \A i \in D : i \in 1..m - 1
    <3> TAKE i \in D
    <3>1. ~(m \in 1..i)
      BY <2>4
    <3> QED
      BY <2>4, <3>1
  <2>7. D = 1..m - 1
    BY <2>5, <2>6, Zenon
  <2> QED
    BY <2>4, <2>7
<1> QED
  BY <1>1, <1>2

(* t is p and then q.                                                      *)
IsJoin(t, p, q) ==
  /\ t \in Seq(Nat) /\ Len(t) = Len(p) + Len(q)
  /\ \A i \in 1..Len(p) : t[i] = p[i]
  /\ \A i \in 1..Len(q) : t[Len(p) + i] = q[i]

(* The concatenation is that.                                              *)
LEMMA Joined ==
  ASSUME NEW p \in Seq(Nat), NEW q \in Seq(Nat), NEW t, t = p \o q
  PROVE  IsJoin(t, p, q)
<1>1. Len(p) \in Nat /\ Len(q) \in Nat
  OBVIOUS
<1>2. t \in Seq(Nat) /\ Len(t) = Len(p) + Len(q)
  OBVIOUS
<1>3. \A i \in 1..Len(p) + Len(q) : t[i] = IF i <= Len(p) THEN p[i] ELSE q[i - Len(p)]
  OBVIOUS
<1>4. \A i \in 1..Len(p) : i \in 1..Len(p) + Len(q) /\ i <= Len(p)
  BY <1>1
<1>5. \A i \in 1..Len(q) : /\ Len(p) + i \in 1..Len(p) + Len(q)
                          /\ ~(Len(p) + i <= Len(p)) /\ (Len(p) + i) - Len(p) = i
  BY <1>1
<1> QED
  BY <1>2, <1>3, <1>4, <1>5 DEF IsJoin

(* x put between p and q.                                                  *)
IsBetween(t, p, x, q) ==
  /\ t \in Seq(Nat) /\ Len(t) = Len(p) + Len(q) + 1
  /\ \A i \in 1..Len(p) : t[i] = p[i]
  /\ t[Len(p) + 1] = x
  /\ \A i \in 1..Len(q) : t[Len(p) + 1 + i] = q[i]
  /\ \A V : Occurs(t, V) = Occurs(p \o q, V) + Occurs(<<x>>, V)

(* Concatenation puts it there, and what occurs is one x more.             *)
LEMMA Between ==
  ASSUME NEW p \in Seq(Nat), NEW q \in Seq(Nat), NEW x \in Nat,
         NEW t, t = p \o <<x>> \o q
  PROVE  IsBetween(t, p, x, q)
<1>1. PICK o : o = <<x>>
  OBVIOUS
<1>2. o \in Seq(Nat) /\ Len(o) = 1 /\ o[1] = x
  BY <1>1
<1>3. PICK h : h = p \o o
  OBVIOUS
<1>4. /\ h \in Seq(Nat) /\ Len(h) = Len(p) + 1
      /\ \A i \in 1..Len(p) : h[i] = p[i]
      /\ \A i \in 1..1 : h[Len(p) + i] = o[i]
  <2>1. IsJoin(h, p, o)
    BY <1>2, <1>3, Joined, Zenon
  <2> QED
    BY <1>2, <2>1 DEF IsJoin
<1>5. /\ t \in Seq(Nat) /\ Len(t) = Len(p) + 1 + Len(q)
      /\ \A i \in 1..Len(p) + 1 : t[i] = h[i]
      /\ \A i \in 1..Len(q) : t[Len(p) + 1 + i] = q[i]
  <2>1. t = h \o q
    BY <1>1, <1>3, Zenon
  <2> QED
    <3>1. IsJoin(t, h, q)
      BY <1>4, <2>1, Joined, Zenon
    <3> QED
      BY <1>4, <3>1 DEF IsJoin
<1>6. \A V : Occurs(t, V) = Occurs(p \o q, V) + Occurs(<<x>>, V)
  <2> TAKE V
  <2>1. Occurs(t, V) = Occurs(h, V) + Occurs(q, V)
    <3>1. t = h \o q
      BY <1>1, <1>3, Zenon
    <3>2. Occurs(h \o q, V) = Occurs(h, V) + Occurs(q, V)
      BY <1>4, OccursJoined, Zenon
    <3> QED
      BY <3>1, <3>2, Zenon
  <2>2. Occurs(h, V) = Occurs(p, V) + Occurs(<<x>>, V)
    BY <1>1, <1>2, <1>3, OccursJoined, Zenon
  <2>3. Occurs(p \o q, V) = Occurs(p, V) + Occurs(q, V)
    BY OccursJoined, Zenon
  <2>4. Occurs(p, V) \in Nat /\ Occurs(q, V) \in Nat /\ Occurs(<<x>>, V) \in Nat
    BY <1>1, <1>2, OccursType, Zenon
  <2> QED
    BY <2>1, <2>2, <2>3, <2>4
<1>7. Len(p) \in Nat /\ Len(q) \in Nat
  OBVIOUS
<1>8. Len(p) + 1 + Len(q) = Len(p) + Len(q) + 1
  BY <1>7
<1>9. \A i \in 1..Len(p) : i \in 1..Len(p) + 1
  BY <1>7
<1>10. 1 \in 1..1 /\ Len(p) + 1 \in 1..Len(p) + 1
  BY <1>7
<1> QED
  BY <1>2, <1>4, <1>5, <1>6, <1>8, <1>9, <1>10, Zenon DEF IsBetween

(* A sequence cut after its first k elements.                              *)
LEMMA Cut ==
  ASSUME NEW s \in Seq(Nat), NEW k \in 0..Len(s)
  PROVE  /\ SubSeq(s, 1, k) \in Seq(Nat) /\ Len(SubSeq(s, 1, k)) = k
         /\ SubSeq(s, k + 1, Len(s)) \in Seq(Nat)
         /\ Len(SubSeq(s, k + 1, Len(s))) = Len(s) - k
         /\ SubSeq(s, 1, k) \o SubSeq(s, k + 1, Len(s)) = s
<1>1. Len(s) \in Nat /\ k \in Nat /\ k <= Len(s) /\ \A i \in 1..Len(s) : s[i] \in Nat
  OBVIOUS
<1>2. SubSeq(s, 1, k) \in Seq(Nat) /\ Len(SubSeq(s, 1, k)) = k
  OBVIOUS
<1>3. SubSeq(s, k + 1, Len(s)) \in Seq(Nat)
  <2>1. k + 1 \in Int /\ Len(s) \in Int /\ \A i \in k + 1..Len(s) : s[i] \in Nat
    BY <1>1
  <2> QED
    BY <2>1, SubSeqProperties, Zenon
<1>4. Len(SubSeq(s, k + 1, Len(s))) = Len(s) - k
  BY <1>1
<1>5. SubSeq(s, 1, k) \o SubSeq(s, k + 1, Len(s)) = s
  <2>1. 1 \in 1..Len(s) + 1 /\ k \in 1 - 1..Len(s) /\ Len(s) \in k..Len(s)
    BY <1>1
  <2>2. SubSeq(s, 1, k) \o SubSeq(s, k + 1, Len(s)) = SubSeq(s, 1, Len(s))
    BY <2>1, ConcatAdjacentSubSeq, Zenon
  <2> QED
    BY <2>2, SubSeqFull, Zenon
<1> QED
  BY <1>2, <1>3, <1>4, <1>5, Zenon

(* x put between the first k elements of s and the rest.                   *)
IsPut(t, s, k, x) ==
  /\ t \in Seq(Nat) /\ Len(t) = Len(s) + 1
  /\ \A i \in 1..k : t[i] = s[i]
  /\ t[k + 1] = x
  /\ \A i \in k + 2..Len(s) + 1 : t[i] = s[i - 1]
  /\ \A V : Occurs(t, V) = Occurs(s, V) + Occurs(<<x>>, V)

(* InsertAt puts it there.                                                 *)
LEMMA PutBetween ==
  ASSUME NEW s \in Seq(Nat), NEW k \in 0..Len(s), NEW x \in Nat,
         NEW t, t = SubSeq(s, 1, (k + 1) - 1) \o <<x>> \o SubSeq(s, k + 1, Len(s))
  PROVE  IsPut(t, s, k, x)
<1>1. PICK p, q : p = SubSeq(s, 1, k) /\ q = SubSeq(s, k + 1, Len(s))
  OBVIOUS
<1>2. /\ p \in Seq(Nat) /\ Len(p) = k /\ q \in Seq(Nat) /\ Len(q) = Len(s) - k
      /\ s = p \o q
  BY <1>1, Cut, Zenon
<1>3. t = p \o <<x>> \o q
  <2>1. (k + 1) - 1 = k
    OBVIOUS
  <2> QED
    BY <1>1, <2>1, Zenon
<1>4. /\ t \in Seq(Nat) /\ Len(t) = k + (Len(s) - k) + 1
      /\ \A i \in 1..k : t[i] = p[i]
      /\ t[k + 1] = x
      /\ \A i \in 1..Len(s) - k : t[k + 1 + i] = q[i]
      /\ \A V : Occurs(t, V) = Occurs(s, V) + Occurs(<<x>>, V)
  <2>1. IsBetween(t, p, x, q)
    BY <1>2, <1>3, Between, Zenon
  <2> QED
    BY <1>2, <2>1 DEF IsBetween
<1>5. /\ \A i \in 1..k : s[i] = p[i]
      /\ \A i \in 1..Len(s) - k : s[k + i] = q[i]
  <2>1. IsJoin(s, p, q)
    BY <1>2, Joined, Zenon
  <2> QED
    BY <1>2, <2>1 DEF IsJoin
<1>6. Len(s) \in Nat /\ k \in Nat
  OBVIOUS
<1>7. \A i \in k + 2..Len(s) + 1 : /\ i - (k + 1) \in 1..Len(s) - k
                                  /\ k + 1 + (i - (k + 1)) = i /\ k + (i - (k + 1)) = i - 1
  BY <1>6
<1>8. \A i \in k + 2..Len(s) + 1 : t[i] = s[i - 1]
  <2> TAKE i \in k + 2..Len(s) + 1
  <2>1. PICK j : j = i - (k + 1)
    OBVIOUS
  <2>2. j \in 1..Len(s) - k /\ k + 1 + j = i /\ k + j = i - 1
    BY <1>7, <2>1, Zenon
  <2>3. t[k + 1 + j] = q[j] /\ s[k + j] = q[j]
    BY <1>4, <1>5, <2>2, Zenon
  <2> QED
    BY <2>2, <2>3, Zenon
<1>9. k + (Len(s) - k) + 1 = Len(s) + 1
  BY <1>6
<1>10. \A i \in 1..k : t[i] = s[i]
  BY <1>4, <1>5, Zenon
<1> QED
  BY <1>4, <1>8, <1>9, <1>10, Zenon DEF IsPut

(* t is ascending and has one x more than s.                               *)
KeepsOrder(t, s, x) ==
  /\ t \in Seq(Nat) /\ Len(t) = Len(s) + 1 /\ Ascending(t)
  /\ \A V : Occurs(t, V) = Occurs(s, V) + Occurs(<<x>>, V)

(* Inserting x after all that are not greater keeps the order.             *)
LEMMA InsertedKeeps ==
  ASSUME NEW s \in Seq(Nat), Ascending(s), NEW x \in Nat,
         NEW t, t = Inserted(s, x)
  PROVE  KeepsOrder(t, s, x)
<1> DEFINE D == {i \in DOMAIN s : s[i] <= x}
           k == Cardinality(D)
<1>1. Len(s) \in Nat /\ DOMAIN s = 1..Len(s) /\ \A i \in 1..Len(s) : s[i] \in Nat
  OBVIOUS
<1>2. D \in SUBSET (1..Len(s)) /\ \A i \in D : \A j \in 1..i : j \in D
  BY <1>1 DEF Ascending
<1>3. k \in 0..Len(s) /\ D = 1..k
  <2> HIDE DEF D
  <2> QED
    BY <1>1, <1>2, InitialSegment
<1>4. t = SubSeq(s, 1, (k + 1) - 1) \o <<x>> \o SubSeq(s, k + 1, Len(s))
  BY DEF Inserted, InsertAt
<1>5. \A i \in 1..Len(s) : s[i] <= x <=> i <= k
  BY <1>1, <1>3
<1>6. \A i, j \in 1..Len(s) : i <= j => s[i] <= s[j]
  BY <1>1 DEF Ascending
<1> HIDE DEF D, k
<1>7. /\ t \in Seq(Nat) /\ Len(t) = Len(s) + 1
      /\ \A i \in 1..k : t[i] = s[i]
      /\ t[k + 1] = x
      /\ \A i \in k + 2..Len(s) + 1 : t[i] = s[i - 1]
      /\ \A V : Occurs(t, V) = Occurs(s, V) + Occurs(<<x>>, V)
  <2>1. IsPut(t, s, k, x)
    BY <1>3, <1>4, PutBetween, Zenon
  <2> QED
    BY <2>1, Zenon DEF IsPut
<1>8. \A i \in k + 2..Len(s) + 1 : i - 1 \in 1..Len(s) /\ x <= s[i - 1]
  BY <1>1, <1>3, <1>5
<1>9. ASSUME NEW i \in 1..Len(s) + 1, NEW j \in 1..Len(s) + 1, i <= j
      PROVE  t[i] <= t[j]
  <2>1. CASE j <= k
    BY <1>1, <1>3, <1>6, <1>7, <1>9, <2>1
  <2>2. CASE j = k + 1
    BY <1>1, <1>3, <1>5, <1>7, <1>9, <2>2
  <2>3. CASE j > k + 1
    <3>1. j \in k + 2..Len(s) + 1 /\ t[j] = s[j - 1] /\ j - 1 \in 1..Len(s) /\ x <= s[j - 1]
      BY <1>1, <1>3, <1>7, <1>8, <2>3
    <3>2. CASE i <= k
      <4>1. i \in 1..k /\ i \in 1..Len(s) /\ i <= j - 1
        BY <1>1, <1>3, <2>3, <3>2
      <4> QED
        BY <1>6, <1>7, <3>1, <4>1
    <3>3. CASE i = k + 1
      BY <1>7, <3>1, <3>3
    <3>4. CASE i > k + 1
      <4>1. i \in k + 2..Len(s) + 1 /\ i - 1 <= j - 1
        BY <1>1, <1>3, <1>9, <3>4
      <4> QED
        BY <1>6, <1>7, <1>8, <3>1, <4>1
    <3> QED
      BY <1>3, <3>2, <3>3, <3>4
  <2> QED
    BY <1>3, <2>1, <2>2, <2>3
<1>10. Ascending(t)
  BY <1>7, <1>9 DEF Ascending
<1> QED
  BY <1>7, <1>10, Zenon DEF KeepsOrder

(* The recursive function of Sorted: SortTo(m)[i] is the first i elements  *)
(* of m in order.                                                          *)
SortTo(m) ==
  LET sort[i \in 0..Len(m)] == IF i = 0 THEN <<>> ELSE Inserted(sort[i - 1], m[i]) IN sort

(* It exists, by induction on its domain.                                  *)
LEMMA SortToDef ==
  ASSUME NEW m, Len(m) \in Nat
  PROVE  SortTo(m) =
           [i \in 0..Len(m) |-> IF i = 0 THEN <<>> ELSE Inserted(SortTo(m)[i - 1], m[i])]
<1> DEFINE Sorts(g, n) ==
             g = [i \in 0..n |-> IF i = 0 THEN <<>> ELSE Inserted(g[i - 1], m[i])]
           S == {n \in Nat : \E g : Sorts(g, n)}
<1>1. 0 \in S
  <2> DEFINE g == [i \in 0..0 |-> <<>>]
  <2>1. Sorts(g, 0)
    OBVIOUS
  <2> QED
    BY <2>1
<1>2. ASSUME NEW n \in Nat, n \in S PROVE n + 1 \in S
  <2>1. PICK g : Sorts(g, n)
    BY <1>2
  <2> DEFINE h == [i \in 0..n + 1 |-> IF i <= n THEN g[i] ELSE Inserted(g[n], m[n + 1])]
  <2>2. \A i \in 0..n : g[i] = IF i = 0 THEN <<>> ELSE Inserted(g[i - 1], m[i])
    BY <2>1
  <2>3. \A i \in 0..n + 1 : h[i] = IF i = 0 THEN <<>> ELSE Inserted(h[i - 1], m[i])
    BY <2>2
  <2>4. Sorts(h, n + 1)
    BY <2>3
  <2> HIDE DEF h
  <2> QED
    BY <2>4
<1>3. Len(m) \in S
  <2> HIDE DEF S
  <2> QED
    BY <1>1, <1>2, Induction
<1> QED
  BY <1>3 DEF SortTo

(* s is ascending, and has what occurs in the first n elements of m.       *)
IsSortOf(s, m, n) ==
  /\ s \in Seq(Nat) /\ Len(s) = n /\ Ascending(s)
  /\ \A V : Occurs(s, V) = Occurs(SubSeq(m, 1, n), V)

(* One element more.                                                       *)
LEMMA OneMore ==
  ASSUME NEW m \in Seq(Nat), NEW n \in 0..Len(m) - 1, NEW s, IsSortOf(s, m, n)
  PROVE  IsSortOf(Inserted(s, m[n + 1]), m, n + 1)
<1> PICK t : t = Inserted(s, m[n + 1])
  OBVIOUS
<1>1. Len(m) \in Nat /\ n + 1 \in 1..Len(m) /\ n \in Nat /\ (n + 1) - 1 = n
  OBVIOUS
<1>2. m[n + 1] \in Nat
  BY <1>1
<1>3. /\ t \in Seq(Nat) /\ Len(t) = Len(s) + 1 /\ Ascending(t)
      /\ \A V : Occurs(t, V) = Occurs(s, V) + Occurs(<<m[n + 1]>>, V)
  <2>1. s \in Seq(Nat) /\ Ascending(s)
    BY DEF IsSortOf
  <2>2. KeepsOrder(t, s, m[n + 1])
    BY <1>2, <2>1, InsertedKeeps, Zenon
  <2> QED
    BY <2>2, Zenon DEF KeepsOrder
<1>4. \A V : Occurs(t, V) = Occurs(SubSeq(m, 1, n + 1), V)
  <2> TAKE V
  <2>1. SubSeq(m, 1, n + 1) = SubSeq(m, 1, (n + 1) - 1) \o <<m[n + 1]>>
    <3>1. 1 \in 1..Len(m) /\ n + 1 \in 1..Len(m)
      BY <1>1
    <3> QED
      BY <3>1, SubSeqRecursiveSecond, Zenon
  <2>2. SubSeq(m, 1, n + 1) = SubSeq(m, 1, n) \o <<m[n + 1]>>
    BY <1>1, <2>1, Zenon
  <2>3. SubSeq(m, 1, n) \in Seq(Nat)
    <3>1. n \in 0..Len(m)
      BY <1>1
    <3> QED
      BY <3>1, Cut, Zenon
  <2>4. <<m[n + 1]>> \in Seq(Nat)
    BY <1>2
  <2>5. Occurs(SubSeq(m, 1, n) \o <<m[n + 1]>>, V)
          = Occurs(SubSeq(m, 1, n), V) + Occurs(<<m[n + 1]>>, V)
    BY <2>3, <2>4, OccursJoined, Zenon
  <2> QED
    BY <1>3, <2>2, <2>5, Zenon DEF IsSortOf
<1> QED
  BY <1>3, <1>4, Zenon DEF IsSortOf

(* Sorting neither loses, adds nor changes a sample, and leaves them in    *)
(* order; of any length, by induction.                                     *)
LEMMA InsertionSorts ==
  ASSUME NEW m \in Seq(Nat)
  PROVE  IsSortOf(SortTo(m)[Len(m)], m, Len(m))
<1> DEFINE S == {n \in 0..Len(m) : IsSortOf(SortTo(m)[n], m, n)}
<1>1. Len(m) \in Nat
  OBVIOUS
<1>2. \A i \in 0..Len(m) :
        SortTo(m)[i] = IF i = 0 THEN <<>> ELSE Inserted(SortTo(m)[i - 1], m[i])
  <2> DEFINE value(i) == IF i = 0 THEN <<>> ELSE Inserted(SortTo(m)[i - 1], m[i])
  <2>1. SortTo(m) = [i \in 0..Len(m) |-> value(i)]
    BY <1>1, SortToDef, Zenon
  <2> HIDE DEF value
  <2>2. \A i \in 0..Len(m) : SortTo(m)[i] = value(i)
    BY <2>1
  <2> QED
    BY <2>2 DEF value
<1>3. 0 \in S
  <2>1. SortTo(m)[0] = <<>>
    BY <1>1, <1>2
  <2>2. SubSeq(m, 1, 0) = <<>>
    OBVIOUS
  <2>3. <<>> \in Seq(Nat) /\ Len(<<>>) = 0 /\ Ascending(<<>>)
    BY DEF Ascending
  <2>4. IsSortOf(<<>>, m, 0)
    BY <2>2, <2>3, Zenon DEF IsSortOf
  <2>5. 0 \in 0..Len(m)
    BY <1>1
  <2> QED
    BY <2>1, <2>4, <2>5, Zenon
<1>4. ASSUME NEW n \in 0..Len(m) - 1, n \in S PROVE n + 1 \in S
  <2>1. n + 1 \in 0..Len(m) /\ n + 1 # 0 /\ (n + 1) - 1 = n
    BY <1>1
  <2>2. SortTo(m)[n + 1] = Inserted(SortTo(m)[n], m[n + 1])
    BY <1>2, <2>1
  <2>3. IsSortOf(SortTo(m)[n + 1], m, n + 1)
    BY <1>4, <2>2, OneMore, Zenon
  <2> QED
    BY <2>1, <2>3, Zenon
<1>5. Len(m) \in S
  <2> HIDE DEF S
  <2>1. \A n \in 0..Len(m) : n \in S
    BY <1>1, <1>3, <1>4, BoundedInduction, Zenon
  <2> QED
    BY <1>1, <2>1
<1> QED
  BY <1>5

-----------------------------------------------------------------------------
(* The ranks.                                                              *)

(* An element of an ascending sequence has its index in what is smaller    *)
(* and in what is not greater.                                             *)
LEMMA Rank ==
  ASSUME NEW arr \in Seq(Nat), Ascending(arr), NEW k \in 0..Len(arr) - 1
  PROVE  /\ Occurs(arr, 0..arr[k + 1] - 1) <= k
         /\ k + 1 <= Occurs(arr, 0..arr[k + 1])
<1> DEFINE v == arr[k + 1]
           A == {i \in DOMAIN arr : arr[i] \in 0..v - 1}
           B == {i \in DOMAIN arr : arr[i] \in 0..v}
<1>1. /\ Len(arr) \in Nat /\ DOMAIN arr = 1..Len(arr) /\ k \in Nat /\ k + 1 \in 1..Len(arr)
      /\ \A i \in 1..Len(arr) : arr[i] \in Nat
  OBVIOUS
<1>2. \A i, j \in 1..Len(arr) : i <= j => arr[i] <= arr[j]
  BY <1>1 DEF Ascending
<1>3. A \in SUBSET (1..k)
  <2> SUFFICES ASSUME NEW i \in 1..Len(arr), arr[i] \in 0..v - 1
               PROVE  i <= k
    BY <1>1
  <2>1. ~(v <= arr[i])
    BY <1>1
  <2>2. ~(k + 1 <= i)
    BY <1>1, <1>2, <2>1
  <2> QED
    BY <1>1, <2>2
<1>4. 1..k + 1 \in SUBSET B
  <2> SUFFICES ASSUME NEW i \in 1..k + 1
               PROVE  i \in 1..Len(arr) /\ arr[i] \in 0..v
    BY <1>1
  <2>1. i \in 1..Len(arr) /\ i <= k + 1
    BY <1>1
  <2>2. arr[i] <= v
    BY <1>1, <1>2, <2>1
  <2> QED
    BY <1>1, <2>1, <2>2
<1>5. IsFiniteSet(B) /\ Cardinality(B) \in Nat
  BY OccursType DEF Occurs
<1> HIDE DEF A, B
<1>6. Cardinality(A) <= k
  <2>1. IsFiniteSet(1..k) /\ Cardinality(1..k) = k
    BY <1>1, IntervalSize
  <2> QED
    BY <1>3, <2>1, FS_Subset
<1>7. k + 1 <= Cardinality(B)
  <2>1. Cardinality(1..k + 1) = k + 1
    BY <1>1, IntervalSize
  <2>2. Cardinality(1..k + 1) <= Cardinality(B)
    BY <1>4, <1>5, FS_Subset
  <2> QED
    BY <2>1, <2>2
<1> QED
  BY <1>6, <1>7 DEF Occurs, A, B

(* k is the index of the P-th percentile of n samples, counted from 0.     *)
IsIndex(k, n, P) ==
  /\ k \in 0..n - 1
  /\ 100 * k <= P * (n - 1) /\ P * (n - 1) < 100 * (k + 1)
  /\ Min({k, n - 1}) = k

(* The index of percentile is that one, and is inside the array.           *)
LEMMA PercentileIndex ==
  ASSUME NEW n \in Nat \ {0}, NEW P \in {50, 95, 99}
  PROVE  IsIndex((P * (n - 1)) \div 100, n, P)
<1>1. /\ (P * (n - 1)) \div 100 \in 0..n - 1
      /\ 100 * ((P * (n - 1)) \div 100) <= P * (n - 1)
      /\ P * (n - 1) < 100 * ((P * (n - 1)) \div 100 + 1)
  <2>1. CASE P = 50
    BY <2>1
  <2>2. CASE P = 95
    BY <2>2
  <2>3. CASE P = 99
    BY <2>3
  <2> QED
    BY <2>1, <2>2, <2>3
<1> DEFINE k == (P * (n - 1)) \div 100
<1>2. k \in Int /\ n - 1 \in Int /\ k <= n - 1
  BY <1>1
<1> HIDE DEF k
<1>3. Min({k, n - 1}) = k
  BY <1>2, MinMaxOfTwo
<1> QED
  BY <1>1, <1>3 DEF k, IsIndex

(* A higher percentile has no smaller index.                               *)
LEMMA IndexGrows ==
  ASSUME NEW n \in Nat \ {0}
  PROVE  /\ (50 * (n - 1)) \div 100 <= (95 * (n - 1)) \div 100
         /\ (95 * (n - 1)) \div 100 <= (99 * (n - 1)) \div 100
  OBVIOUS

(* The recursive function of FlattenSeq in Merged: what memcpy has copied  *)
(* after i workers.                                                        *)
FlatTo(seqs) ==
  LET flatten[i \in 1..Len(seqs)] == IF i = 1 THEN seqs[i] ELSE flatten[i - 1] \o seqs[i]
  IN  flatten

(* It exists, by induction on its domain.                                  *)
LEMMA FlatToDef ==
  ASSUME NEW seqs, Len(seqs) \in Nat
  PROVE  FlatTo(seqs) =
           [i \in 1..Len(seqs) |-> IF i = 1 THEN seqs[i] ELSE FlatTo(seqs)[i - 1] \o seqs[i]]
<1> DEFINE Flattens(g, n) ==
             g = [i \in 1..n |-> IF i = 1 THEN seqs[i] ELSE g[i - 1] \o seqs[i]]
           S == {n \in Nat : \E g : Flattens(g, n)}
<1>1. 0 \in S
  <2> DEFINE g == [i \in 1..0 |-> <<>>]
  <2>1. Flattens(g, 0)
    OBVIOUS
  <2> QED
    BY <2>1
<1>2. ASSUME NEW n \in Nat, n \in S PROVE n + 1 \in S
  <2>1. PICK g : Flattens(g, n)
    BY <1>2
  <2> DEFINE h == [i \in 1..n + 1 |->
                     IF i <= n THEN g[i] ELSE IF i = 1 THEN seqs[i] ELSE g[n] \o seqs[n + 1]]
  <2>2. \A i \in 1..n : g[i] = IF i = 1 THEN seqs[i] ELSE g[i - 1] \o seqs[i]
    BY <2>1
  <2>3. \A i \in 1..n + 1 : h[i] = IF i = 1 THEN seqs[i] ELSE h[i - 1] \o seqs[i]
    BY <2>2
  <2>4. Flattens(h, n + 1)
    BY <2>3
  <2> HIDE DEF h, Flattens
  <2> QED
    BY <2>4
<1>3. Len(seqs) \in S
  <2> HIDE DEF S
  <2> QED
    BY <1>1, <1>2, Induction
<1> QED
  BY <1>3 DEF FlatTo

(* m is as long as the samples of the first n workers together, and has    *)
(* what occurs in them.                                                    *)
HasFirst(m, n, V) ==
  /\ m \in Seq(Nat)
  /\ Len(m) = SumTo([w \in Workers |-> Len(stats[w].latencies)])[n]
  /\ Occurs(m, V) = SumTo([w \in Workers |-> Occurs(stats[w].latencies, V)])[n]

(* Merging takes over the samples of every worker.                         *)
LEMMA MergedHasFirst ==
  ASSUME \A w \in Workers : stats[w].latencies \in Seq(Nat), NEW V
  PROVE  HasFirst(Merged, Threads, V)
<1> DEFINE seqs == [w \in Workers |-> stats[w].latencies]
           lengths == [w \in Workers |-> Len(stats[w].latencies)]
           counts == [w \in Workers |-> Occurs(stats[w].latencies, V)]
           S == {n \in 0..Threads - 1 : HasFirst(FlatTo(seqs)[n + 1], n + 1, V)}
<1>1. Threads \in Nat \ {0} /\ Workers = 1..Threads
  BY StatisticsAssumption DEF Workers
<1>2. /\ \A n \in 1..Threads : seqs[n] \in Seq(Nat)
      /\ \A n \in 1..Threads : lengths[n] = Len(seqs[n])
      /\ \A n \in 1..Threads : counts[n] = Occurs(seqs[n], V)
  BY <1>1
<1>3. Len(seqs) = Threads
  <2>1. seqs \in Seq(Seq(Nat))
    BY <1>1
  <2> QED
    BY <1>1, <2>1
<1>4. Merged = FlatTo(seqs)[Threads]
  BY <1>1, <1>3 DEF Merged, FlattenSeq, FlatTo
<1>5. \A m, n : HasFirst(m, n, V) <=>
        m \in Seq(Nat) /\ Len(m) = SumTo(lengths)[n] /\ Occurs(m, V) = SumTo(counts)[n]
  BY DEF HasFirst
<1> HIDE DEF seqs, lengths, counts
<1>6. \A i \in 1..Threads :
        FlatTo(seqs)[i] = IF i = 1 THEN seqs[i] ELSE FlatTo(seqs)[i - 1] \o seqs[i]
  <2> DEFINE value(i) == IF i = 1 THEN seqs[i] ELSE FlatTo(seqs)[i - 1] \o seqs[i]
  <2>1. FlatTo(seqs) = [i \in 1..Threads |-> value(i)]
    BY <1>1, <1>3, FlatToDef
  <2> HIDE DEF value
  <2>2. \A i \in 1..Threads : FlatTo(seqs)[i] = value(i)
    BY <2>1
  <2> QED
    BY <2>2 DEF value
<1>7. 0 \in S
  <2>1. 1 \in 1..Threads /\ 0 \in 0..Threads - 1 /\ 0 + 1 = 1
    BY <1>1
  <2>2. FlatTo(seqs)[1] = seqs[1]
    BY <1>6, <2>1
  <2>3. /\ SumTo(lengths)[1] = 0 + lengths[1] /\ SumTo(counts)[1] = 0 + counts[1]
    BY <2>1, SumSteps
  <2>4. seqs[1] \in Seq(Nat) /\ Len(seqs[1]) \in Nat /\ Occurs(seqs[1], V) \in Nat
    <3>1. PICK q : q = seqs[1]
      OBVIOUS
    <3>2. q \in Seq(Nat)
      BY <1>2, <2>1, <3>1, Zenon
    <3>3. Len(q) \in Nat
      BY <3>2
    <3>4. Occurs(q, V) \in Nat
      BY <3>2, OccursType, Zenon
    <3> QED
      BY <3>1, <3>2, <3>3, <3>4, Zenon
  <2>5. SumTo(lengths)[1] = Len(seqs[1]) /\ SumTo(counts)[1] = Occurs(seqs[1], V)
    BY <1>2, <2>1, <2>3, <2>4
  <2>6. HasFirst(seqs[1], 1, V)
    BY <1>5, <2>4, <2>5, Zenon
  <2> QED
    BY <2>1, <2>2, <2>6
<1>8. ASSUME NEW n \in 0..Threads - 1 - 1, n \in S PROVE n + 1 \in S
  <2>1. n + 1 \in 0..Threads - 1 /\ n + 2 \in 1..Threads /\ n + 2 # 1 /\ (n + 2) - 1 = n + 1
    BY <1>1
  <2> PICK p, q, t : p = FlatTo(seqs)[n + 1] /\ q = seqs[n + 2] /\ t = FlatTo(seqs)[n + 2]
    OBVIOUS
  <2>2. t = p \o q
    BY <1>6, <2>1, Zenon
  <2>3. /\ p \in Seq(Nat) /\ Len(p) = SumTo(lengths)[n + 1]
        /\ Occurs(p, V) = SumTo(counts)[n + 1]
    BY <1>5, <1>8, Zenon
  <2>4. q \in Seq(Nat) /\ lengths[n + 2] = Len(q) /\ counts[n + 2] = Occurs(q, V)
    BY <1>2, <2>1, Zenon
  <2>5. t \in Seq(Nat) /\ Len(t) = Len(p) + Len(q)
    <3>1. IsJoin(t, p, q)
      BY <2>2, <2>3, <2>4, Joined, Zenon
    <3> QED
      BY <3>1, Zenon DEF IsJoin
  <2>6. Occurs(t, V) = Occurs(p, V) + Occurs(q, V)
    <3>1. Occurs(p \o q, V) = Occurs(p, V) + Occurs(q, V)
      BY <2>3, <2>4, OccursJoined, Zenon
    <3> QED
      BY <2>2, <3>1, Zenon
  <2>7. /\ SumTo(lengths)[(n + 1) + 1] = SumTo(lengths)[n + 1] + lengths[(n + 1) + 1]
        /\ SumTo(counts)[(n + 1) + 1] = SumTo(counts)[n + 1] + counts[(n + 1) + 1]
    BY <2>1, SumSteps, Zenon
  <2>8. (n + 1) + 1 = n + 2
    OBVIOUS
  <2>9. Len(t) = SumTo(lengths)[n + 2] /\ Occurs(t, V) = SumTo(counts)[n + 2]
    BY <2>3, <2>4, <2>5, <2>6, <2>7, <2>8, Zenon
  <2>10. HasFirst(t, n + 2, V)
    BY <1>5, <2>5, <2>9, Zenon
  <2> QED
    BY <2>1, <2>8, <2>10, Zenon
<1>9. Threads - 1 \in S
  <2> HIDE DEF S
  <2>1. Threads - 1 \in Nat /\ Threads - 1 \in 0..Threads - 1
    BY <1>1
  <2>2. \A n \in 0..Threads - 1 : n \in S
    BY <1>7, <1>8, <2>1, BoundedInduction, Zenon
  <2> QED
    BY <2>1, <2>2
<1>10. (Threads - 1) + 1 = Threads
  BY <1>1
<1> QED
  BY <1>4, <1>9, <1>10, Zenon

(* The merged samples are all samples.                                     *)
LEMMA MergedAll ==
  ASSUME \A w \in Workers : stats[w].latencies \in Seq(Nat)
  PROVE  /\ Merged \in Seq(Nat) /\ Len(Merged) = LatencyCount
         /\ \A V : Occurs(Merged, V) = Count(V)
<1>1. LatencyCount = SumTo([w \in Workers |-> Len(stats[w].latencies)])[Threads]
  BY SumSteps, Zenon DEF LatencyCount
<1>2. Merged \in Seq(Nat) /\ Len(Merged) = LatencyCount
  BY <1>1, MergedHasFirst, Zenon DEF HasFirst
<1>3. ASSUME NEW V
      PROVE  Occurs(Merged, V) = Count(V)
  <2>1. Count(V) = Total([w \in Workers |-> Occurs(stats[w].latencies, V)])
    BY Zenon DEF Count, Occurs
  <2>2. Count(V) = SumTo([w \in Workers |-> Occurs(stats[w].latencies, V)])[Threads]
    BY <2>1, SumSteps, Zenon
  <2> QED
    BY <2>2, MergedHasFirst, Zenon DEF HasFirst
<1> QED
  BY <1>2, <1>3

(* Sorted are the same samples, in order.                                  *)
LEMMA SortedAll ==
  ASSUME \A w \in Workers : stats[w].latencies \in Seq(Nat)
  PROVE  /\ Sorted \in Seq(Nat) /\ Len(Sorted) = LatencyCount /\ Ascending(Sorted)
         /\ \A V : Occurs(Sorted, V) = Count(V)
<1>1. /\ Merged \in Seq(Nat) /\ Len(Merged) = LatencyCount
      /\ \A V : Occurs(Merged, V) = Count(V)
  BY MergedAll, Zenon
<1>2. Sorted = SortTo(Merged)[Len(Merged)]
  BY Zenon DEF Sorted, SortTo
<1>3. IsSortOf(Sorted, Merged, Len(Merged))
  BY <1>1, <1>2, InsertionSorts, Zenon
<1>4. SubSeq(Merged, 1, Len(Merged)) = Merged
  BY <1>1, SubSeqFull, Zenon
<1> QED
  BY <1>1, <1>3, <1>4, Zenon DEF IsSortOf

(* The element at the index is the percentile of all samples.              *)
LEMMA PercentileOfAll ==
  ASSUME \A w \in Workers : stats[w].latencies \in Seq(Nat),
         LatencyCount \in Nat \ {0}, NEW P \in {50, 95, 99}
  PROVE  IsPercentile(Percentile(Sorted, LatencyCount, P), P)
<1> DEFINE n == LatencyCount
           arr == Sorted
           k == (P * (n - 1)) \div 100
           v == arr[k + 1]
<1>1. /\ arr \in Seq(Nat) /\ Len(arr) = n /\ Ascending(arr)
      /\ \A V : Occurs(arr, V) = Count(V)
  BY SortedAll, Zenon
<1>2. /\ k \in 0..n - 1 /\ 100 * k <= P * (n - 1) /\ P * (n - 1) < 100 * (k + 1)
      /\ Min({k, n - 1}) = k
  <2>1. IsIndex(k, n, P)
    BY PercentileIndex, Zenon
  <2> QED
    BY <2>1, Zenon DEF IsIndex
<1>3. Percentile(arr, n, P) = v
  BY <1>2, Zenon DEF Percentile
<1>4. IsPercentile(v, P) <=>
        100 * Count(0..v - 1) <= P * (n - 1) /\ P * (n - 1) < 100 * Count(0..v)
  BY Zenon DEF IsPercentile
<1> HIDE DEF n, arr, k
<1>5. Occurs(arr, 0..v - 1) <= k /\ k + 1 <= Occurs(arr, 0..v)
  BY <1>1, <1>2, Rank
<1>6. Occurs(arr, 0..v - 1) \in Nat /\ Occurs(arr, 0..v) \in Nat
  BY <1>1, OccursType, Zenon
<1> HIDE DEF v
<1>7. Count(0..v - 1) \in Nat /\ Count(0..v) \in Nat
  BY <1>1, <1>6, Zenon
<1>8. Count(0..v - 1) <= k /\ k + 1 <= Count(0..v)
  BY <1>1, <1>5, Zenon
<1>9. P * (n - 1) \in Int /\ k \in Int
  BY <1>2 DEF n
<1>10. 100 * Count(0..v - 1) <= P * (n - 1) /\ P * (n - 1) < 100 * Count(0..v)
  BY <1>2, <1>7, <1>8, <1>9
<1> QED
  BY <1>3, <1>4, <1>10, Zenon DEF n, arr

(* The three elements printed are in order.                                *)
LEMMA PercentilesGrow ==
  ASSUME NEW arr \in Seq(Nat), Ascending(arr), NEW n \in Nat \ {0}, Len(arr) = n
  PROVE  /\ Percentile(arr, n, 50) <= Percentile(arr, n, 95)
         /\ Percentile(arr, n, 95) <= Percentile(arr, n, 99)
<1> DEFINE k(P) == (P * (n - 1)) \div 100
<1>1. \A P \in {50, 95, 99} : k(P) \in 0..n - 1 /\ Percentile(arr, n, P) = arr[k(P) + 1]
  <2> TAKE P \in {50, 95, 99}
  <2>1. IsIndex(k(P), n, P)
    BY PercentileIndex, Zenon
  <2> QED
    BY <2>1, Zenon DEF IsIndex, Percentile
<1>2. k(50) <= k(95) /\ k(95) <= k(99)
  BY IndexGrows
<1>3. DOMAIN arr = 1..n
  OBVIOUS
<1> HIDE DEF k
<1>4. \A P \in {50, 95, 99} : k(P) + 1 \in DOMAIN arr
  <2> TAKE P \in {50, 95, 99}
  <2>1. PICK j : j = k(P)
    OBVIOUS
  <2>2. j \in 0..n - 1
    BY <1>1, <2>1, Zenon
  <2>3. j + 1 \in DOMAIN arr
    BY <1>3, <2>2
  <2> QED
    BY <2>1, <2>3, Zenon
<1>5. k(50) + 1 <= k(95) + 1 /\ k(95) + 1 <= k(99) + 1
  BY <1>1, <1>2
<1>6. arr[k(50) + 1] <= arr[k(95) + 1] /\ arr[k(95) + 1] <= arr[k(99) + 1]
  BY <1>4, <1>5, Zenon DEF Ascending
<1> QED
  BY <1>1, <1>6, Zenon

(* The summary has the percentiles of all samples.                         *)
LEMMA PercentilesFromRecords ==
  ASSUME RecordsInv, phase = "printed", out = Summary
  PROVE  PercentilesOfAllSamples
<1>1. \A w \in Workers : stats[w].latencies \in Seq(Nat)
  <2> TAKE w \in Workers
  <2>1. stats[w].latencies \in Seq(Latencies)
    BY ThreadStatsFields DEF RecordsInv
  <2> QED
    BY <2>1, StatisticsAssumption, SeqMonotonic, Zenon
<1>2. Sorted \in Seq(Nat) /\ Len(Sorted) = LatencyCount /\ Ascending(Sorted)
  BY <1>1, SortedAll, Zenon
<1>3. LatencyCount \in Nat
  BY <1>2
<1> DEFINE rank(P) == IF LatencyCount = 0 THEN 0 ELSE Percentile(Sorted, LatencyCount, P)
<1>4. /\ out.p50 = rank(50) /\ out.p95 = rank(95) /\ out.p99 = rank(99)
      /\ out.latency_count = LatencyCount
  BY DEF Summary
<1>5. CASE LatencyCount = 0
  BY <1>4, <1>5 DEF PercentilesOfAllSamples
<1>6. CASE LatencyCount # 0
  <2>1. LatencyCount \in Nat \ {0}
    BY <1>3, <1>6, Zenon
  <2>2. /\ out.p50 = Percentile(Sorted, LatencyCount, 50)
        /\ out.p95 = Percentile(Sorted, LatencyCount, 95)
        /\ out.p99 = Percentile(Sorted, LatencyCount, 99)
    BY <1>4, <1>6, Zenon
  <2>3. out.p50 <= out.p95 /\ out.p95 <= out.p99
    <3>1. /\ Percentile(Sorted, LatencyCount, 50) <= Percentile(Sorted, LatencyCount, 95)
          /\ Percentile(Sorted, LatencyCount, 95) <= Percentile(Sorted, LatencyCount, 99)
      BY <1>2, <2>1, PercentilesGrow, Zenon
    <3> QED
      BY <2>2, <3>1, Zenon
  <2>4. \A P \in {50, 95, 99} : IsPercentile(Percentile(Sorted, LatencyCount, P), P)
    BY <1>1, <2>1, PercentileOfAll, Zenon
  <2>5. IsPercentile(out.p50, 50) /\ IsPercentile(out.p95, 95) /\ IsPercentile(out.p99, 99)
    BY <2>2, <2>4, Zenon
  <2> QED
    BY <2>3, <2>5, Zenon DEF PercentilesOfAllSamples
<1> QED
  BY <1>5, <1>6

(* The percentiles a row prints are those of all the samples the workers   *)
(* recorded together, and p50 <= p95 <= p99: merging, sorting and indexing *)
(* (stats.c, percentile of utils.c) are right for any number of workers    *)
(* and samples.                                                            *)
THEOREM StatisticsPercentiles == Spec => []PercentilesOfAllSamples
<1>1. StatisticsInv => PercentilesOfAllSamples
  BY PercentilesFromRecords DEF StatisticsInv, PercentilesOfAllSamples
<1> QED
  BY <1>1, StatisticsInvariant, PTL
=============================================================================
