----------------------------- MODULE Statistics -----------------------------
(***************************************************************************)
(* src/stats.c and percentile of src/utils.c: each worker counts and keeps *)
(* its first Capacity latencies; after the join summarize_stats merges     *)
(* what the workers have into the row that is printed.                     *)
(*                                                                         *)
(* A worker's steps touch its own thread_stats only, so one step stands    *)
(* for a batch of equal iterations of its loop: k requests completed with  *)
(* one latency and one observed window, or one rejected. p95 and p99 only  *)
(* part at 22 samples, and batches are how a small instance gets there.    *)
(*                                                                         *)
(* An average is the pair of its numerator and denominator. percentile's   *)
(* (p / 100.0) * (n - 1) in doubles, truncated, is P * (n - 1) \div 100.   *)
(***************************************************************************)
EXTENDS Integers, Sequences, SequencesExt, FiniteSetsExt

CONSTANTS Threads,     \* the number of workers
          Capacity,    \* MAX_LAT_PER_THREAD
          Latencies,   \* latencies that occur
          Batches,     \* sizes of a batch
          MaxBatches   \* bound on the batches of a worker

ASSUME StatisticsAssumption ==
  /\ Threads \in Nat \ {0} /\ Capacity \in Nat \ {0} /\ MaxBatches \in Nat
  /\ Latencies \subseteq Nat /\ Batches \subseteq Nat \ {0}

VARIABLES stats,   \* thread_stats, per worker; latency_count is the length of
                   \* latencies, and backoff is counted with retry
          batches, \* how many batches each worker has had
          phase,   \* "running", then "printed" or "failed"
          out      \* summary_stats_t

vars == <<stats, batches, phase, out>>

Workers == 1..Threads

Init ==
  /\ stats = [w \in Workers |->
       [attempts |-> 0, success |-> 0, retry |-> 0, cwnd_sum |-> 0, cwnd_samples |-> 0,
        inflight_sum |-> 0, inflight_samples |-> 0, max_inflight |-> 0, latencies |-> <<>>]]
  /\ batches = [w \in Workers |-> 0]
  /\ phase = "running"
  /\ out = <<>>

-----------------------------------------------------------------------------
(* Recording.                                                              *)

Room(s) == Capacity - Len(s.latencies)

(* thread_stats_record_latency, k times: what does not fit is dropped.     *)
RecordLatency(s, ns, k) ==
  s.latencies \o [i \in 1..Min({k, Room(s)}) |-> ns]

(* thread_stats_record_window, k times.                                    *)
RecordWindow(s, cwnd, inflight, k) ==
  [s EXCEPT !.cwnd_sum = @ + k * cwnd,
            !.cwnd_samples = @ + k,
            !.inflight_sum = @ + k * inflight,
            !.inflight_samples = @ + k,
            !.max_inflight = Max({@, inflight})]

(* k requests are submitted, the window and the requests in flight being   *)
(* what they may be after an admission, and complete after ns.             *)
Complete(w, k) ==
  \E ns \in Latencies, window \in {<<1, 1>>, <<2, 2>>} :
    stats' = [stats EXCEPT ![w] =
      [RecordWindow(stats[w], window[1], window[2], k) EXCEPT
         !.attempts = @ + k,
         !.success = @ + k,
         !.latencies = RecordLatency(stats[w], ns, k)]]

(* A submission is rejected: CSMA records <<1, 0>>, AIMD may have cut the  *)
(* window below what is in flight.                                         *)
Reject(w) ==
  \E window \in {<<1, 0>>, <<1, 2>>} :
    stats' = [stats EXCEPT ![w] =
      [RecordWindow(stats[w], window[1], window[2], 1) EXCEPT !.attempts = @ + 1, !.retry = @ + 1]]

Record(w) ==
  /\ phase = "running" /\ batches[w] < MaxBatches
  /\ batches' = [batches EXCEPT ![w] = @ + 1]
  /\ Reject(w) \/ \E k \in Batches : Complete(w, k)
  /\ UNCHANGED <<phase, out>>

-----------------------------------------------------------------------------
(* summarize_stats.                                                        *)

(* The loop over the workers that adds up count.                           *)
Total(count) ==
  LET sum[i \in 0..Threads] == IF i = 0 THEN 0 ELSE sum[i - 1] + count[i]
  IN  sum[Threads]

(* Fault: latency_count is assigned where it should be added to.           *)
LastLatencyCount == Len(stats[Threads].latencies)

LatencyCount == Total([w \in Workers |-> Len(stats[w].latencies)])

MaxInflight == Max({stats[w].max_inflight : w \in Workers})

(* memcpy of the workers' latencies one after the other.                   *)
Merged == FlattenSeq([w \in Workers |-> stats[w].latencies])

(* x put into the ascending s, after all that are not greater.             *)
Inserted(s, x) == InsertAt(s, Cardinality({i \in DOMAIN s : s[i] <= x}) + 1, x)

(* qsort. Whichever way it sorts, there is one ascending order.            *)
Sorted ==
  LET sort[i \in 0..Len(Merged)] ==
        IF i = 0 THEN <<>> ELSE Inserted(sort[i - 1], Merged[i])
  IN  sort[Len(Merged)]

(* Fault: the percentile of n + 1 samples.                                 *)
RankPastEnd(arr, n, P) == arr[Min({(P * n) \div 100, n - 1}) + 1]

(* percentile; a C index is one less.                                      *)
Percentile(arr, n, P) == arr[Min({(P * (n - 1)) \div 100, n - 1}) + 1]

Average(sum, samples) == IF samples > 0 THEN <<sum, samples>> ELSE <<0, 1>>

Summary ==
  LET n == LatencyCount
      all == Sorted
      rank(P) == IF n = 0 THEN 0 ELSE Percentile(all, n, P)
  IN  [attempts      |-> Total([w \in Workers |-> stats[w].attempts]),
       success       |-> Total([w \in Workers |-> stats[w].success]),
       retry         |-> Total([w \in Workers |-> stats[w].retry]),
       latency_count |-> n,
       p50 |-> rank(50), p95 |-> rank(95), p99 |-> rank(99),
       max_inflight  |-> MaxInflight,
       avg_cwnd      |-> Average(Total([w \in Workers |-> stats[w].cwnd_sum]),
                                 Total([w \in Workers |-> stats[w].cwnd_samples])),
       avg_inflight  |-> Average(Total([w \in Workers |-> stats[w].inflight_sum]),
                                 Total([w \in Workers |-> stats[w].inflight_samples]))]

(* The workers are joined; malloc may fail if there is something to sort.  *)
Summarize ==
  /\ phase = "running"
  /\ \/ phase' = "printed" /\ out' = Summary
     \/ LatencyCount > 0 /\ phase' = "failed" /\ UNCHANGED out
  /\ UNCHANGED <<stats, batches>>

Next ==
  \/ \E w \in Workers : Record(w)
  \/ Summarize
  \/ phase # "running" /\ UNCHANGED vars

Spec == Init /\ [][Next]_vars

-----------------------------------------------------------------------------
(* Properties.                                                             *)

(* How many of the samples are in V.                                       *)
Count(V) ==
  Total([w \in Workers |->
           Cardinality({i \in DOMAIN stats[w].latencies : stats[w].latencies[i] \in V})])

(* v is the P-th percentile: of the n - 1 other samples at most P percent  *)
(* are smaller than v, and more than that are not greater. Neither sorting *)
(* nor an index occurs in it.                                              *)
IsPercentile(v, P) ==
  LET share == P * (LatencyCount - 1)
  IN  100 * Count(0..v - 1) <= share /\ share < 100 * Count(0..v)

(* The percentiles printed are those of all the latencies the workers      *)
(* recorded together, and in order, as the sweep script demands.           *)
PercentilesOfAllSamples ==
  phase = "printed" =>
    /\ out.p50 <= out.p95 /\ out.p95 <= out.p99
    /\ out.latency_count > 0 =>
         IsPercentile(out.p50, 50) /\ IsPercentile(out.p95, 95) /\ IsPercentile(out.p99, 99)

(* A full buffer costs samples but no counts: the row accounts for every   *)
(* request, and has a sample of each worker's first Capacity completions.  *)
(* Its averages lie within what was observed: no average in flight exceeds *)
(* the printed maximum, and a window is at least 1.                        *)
RowAccountsForAll ==
  phase = "printed" =>
    /\ out.attempts = out.success + out.retry
    /\ out.latency_count = Total([w \in Workers |-> Min({stats[w].success, Capacity})])
    /\ out.avg_inflight[1] <= out.max_inflight * out.avg_inflight[2]
    /\ out.attempts > 0 => out.avg_cwnd[1] >= out.avg_cwnd[2]
=============================================================================
