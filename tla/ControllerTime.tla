--------------------------- MODULE ControllerTime ---------------------------
(***************************************************************************)
(* AimdWorkers with a clock: the time integrals of cwnd and inflight that  *)
(* controller_update_time_locked keeps, and the averages that              *)
(* aimd_controller_get_metrics makes of them after the join.               *)
(*                                                                         *)
(* Time passes between any two steps, also while a thread holds the        *)
(* controller's lock. The code brings the integrals up to date when the    *)
(* lock is taken and changes the values later in the same section, so the  *)
(* time in between is booked at the new value. The history variables true_ *)
(* hold the exact integrals, in_section the time the lock was held.        *)
(***************************************************************************)
EXTENDS AimdWorkers

CONSTANTS
  Load,     \* cfg->load, 1..100: how long workers idle between requests
  MaxTime   \* bound on the clock

ASSUME LoadAssumption == Load \in 1..100
ASSUME TimeAssumption == MaxTime \in Nat

VARIABLES
  now,             \* CLOCK_MONOTONIC, 0 in aimd_controller_init
  last_update, cwnd_time, inflight_time, observation,
  slept,           \* main came to the stop by sleep(cfg.seconds)
  measured,        \* aimd_controller_get_metrics has been called
  metrics,         \* what it has returned, an average as <<integral, time>>
  true_cwnd, true_inflight, in_section

integrals == <<last_update, cwnd_time, inflight_time, observation>>
history   == <<true_cwnd, true_inflight, in_section>>
outcome   == <<slept, measured, metrics>>
timeVars  == <<now, integrals, outcome, history>>

(* An average of an integral over the time: 0 when no time was observed.   *)
Average(integral, time) == IF time > 0 THEN <<integral, time>> ELSE <<0, 1>>

TimedInit ==
  /\ Init
  /\ now = 0
  /\ last_update = 0 /\ cwnd_time = 0 /\ inflight_time = 0 /\ observation = 0
  /\ slept = FALSE /\ measured = FALSE
  /\ metrics = [avg_cwnd |-> Average(0, 0), avg_inflight |-> Average(0, 0), max_inflight |-> 0]
  /\ true_cwnd = 0 /\ true_inflight = 0 /\ in_section = 0

Tick ==
  /\ now < MaxTime /\ ~measured
  /\ now' = now + 1
  /\ true_cwnd' = true_cwnd + cwnd
  /\ true_inflight' = true_inflight + inflight
  /\ in_section' = in_section + (IF lock \in Workers THEN 1 ELSE 0)
  /\ UNCHANGED <<vars, integrals, outcome>>

(* controller_update_time_locked.                                          *)
UpdateTime ==
  LET delta == IF now < last_update THEN 0 ELSE now - last_update
  IN /\ cwnd_time' = cwnd_time + cwnd * delta
     /\ inflight_time' = inflight_time + inflight * delta
     /\ observation' = observation + delta
     /\ last_update' = now

(* Fault: completions do not bring the integrals up to date.               *)
SubmitsOnly == \E w \in Workers : EnterSubmit(w)

(* The steps that call it: aimd_try_submit when it takes the lock, be it   *)
(* on entry or on return from pthread_cond_wait, and the callback.         *)
CallsUpdate ==
  \/ \E w \in Workers : EnterSubmit(w)
  \/ \E d \in Devices : CompletionCallback(d)

(* sleep(cfg.seconds): parse_config demands at least one second, so time   *)
(* has passed when it is over.                                             *)
Sleeping ==
  /\ TimeUp => now > 0
  /\ slept' = (slept \/ TimeUp)

Step ==
  /\ Next
  /\ Sleeping
  /\ IF CallsUpdate THEN UpdateTime ELSE UNCHANGED integrals
  /\ UNCHANGED <<now, measured, metrics, history>>

(* aimd_controller_get_metrics after the join. main does not come to it    *)
(* when start_workers or summarize_stats has failed.                       *)
GetMetrics ==
  /\ mpc = "joined" /\ slept /\ ~measured /\ LockFree
  /\ UpdateTime
  /\ measured' = TRUE
  /\ metrics' = [avg_cwnd     |-> Average(cwnd_time', observation'),
                 avg_inflight |-> Average(inflight_time', observation'),
                 max_inflight |-> max_inflight]
  /\ UNCHANGED <<vars, now, slept, history>>

TimedNext == Step \/ Tick \/ GetMetrics

TimedSpec == TimedInit /\ [][TimedNext]_<<vars, timeVars>>

-----------------------------------------------------------------------------
(* Properties.                                                             *)

Distance(m, n) == IF m < n THEN n - m ELSE m - n

(* What cwnd loses at most in a cut.                                       *)
LargestCut == (MaxCwnd + 1) \div 2

(* "Global time-weighted controller measurements": observed time covers    *)
(* all time, and at any moment the integrals differ from the true ones by  *)
(* no more than what happened inside the sections of aimd_try_submit.      *)
IntegralsTrue ==
  LET pending == now - last_update
  IN /\ observation + pending = now
     /\ Distance(inflight_time + inflight * pending, true_inflight) <= in_section
     /\ Distance(cwnd_time + cwnd * pending, true_cwnd) <= in_section * LargestCut

(* Quotients are compared without dividing.                                *)
AtLeast(average, n) == n * average[2] <= average[1]
AtMost(average, n)  == average[1] <= n * average[2]

(* The check run_thread_queue_sweep.sh makes of the row's controller       *)
(* metrics, but for its comparisons with load (AverageWithinLoad): the     *)
(* average window between 1 and queue_depth + 1, the average and the       *)
(* maximum of the requests in flight no more than queue_depth; and the     *)
(* average no more than the maximum printed beside it.                     *)
MetricsInRange ==
  measured =>
    /\ AtLeast(metrics.avg_cwnd, 1) /\ AtMost(metrics.avg_cwnd, QueueDepth + 1)
    /\ AtLeast(metrics.avg_inflight, 0) /\ AtMost(metrics.avg_inflight, metrics.max_inflight)
    /\ metrics.max_inflight <= QueueDepth

(* The rest of that check ($27 > $2): the average of the requests in       *)
(* flight no more than load, which is column 2 of the row. A row whose     *)
(* average is above load has its maximum above it as well ($28 > $2).      *)
AverageWithinLoad == measured => AtMost(metrics.avg_inflight, Load)
=============================================================================
