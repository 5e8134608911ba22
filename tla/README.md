# A formal model of cxl_numa_csma

`cxl_numa_csma` injects memory requests from worker threads through a simulated
CXL switch and Type-3 device into memory of another NUMA node. Everything that
is hard in it is concurrency: a counting semaphore for the fabric credits, a
queue between two groups of threads, a completion hand-shake on every request, a
congestion controller shared by all workers, and a stop that has to reach every
one of them wherever it sleeps.

The TLA+ modules here model that concurrency; TLC checks them on small
instances, and TLAPS proves their safety properties (of the fabric, the three
policies, the controller and its clock, pacing, set-up, start-up and the statistics)
for any number of workers, device threads and credits.

## Inventory

| Part | State | Operations | Interacts with |
|---|---|---|---|
| Fabric (`src/cxl_fabric.c`) | credit semaphore, request queue, `stop`; per request `done`, its lock and `done_cond` | create, submit (blocking or try), is_done, wait, destroy; device loop; init and destroy | workers by calls, device threads by queue and `queue_not_empty`, the AIMD controller by lock and callback |
| Random policy (`run_random`) | its request, its counters, its random generator | blocking submit, wait | fabric, `stop_flag` |
| CSMA policy (`run_csma`) | its retained request, counters, backoff window | try submit, retry after backoff, wait | fabric, `stop_flag` |
| AIMD (`run_aimd`, `aimd_*`) | shared: `cwnd`, `inflight`, `reservations`, `waiting_workers`, acks, hold-off, time integrals; per worker: pending and submitted request | try submit under the controller's lock, completion callback, wake_all, metrics | fabric with locks held in both directions, `stop_flag` |
| Driver (`src/main.c`) | `stop_flag`, thread handles, what has been initialised | set-up, start, sleep, stop, join, summary, cleanup | all of the above |
| Statistics (`src/stats.c`, `src/utils.c`) | counters and a capped latency buffer per worker | record, merge, percentiles | workers, driver |
| Random numbers and time (`src/utils.c`) | a generator per worker and per request; the monotonic clock | draw, read | all policies, device threads, controller |
| Configuration (`src/config.c`) | the parameters | parse and range checks | driver |
| NUMA backend (`src/numa_backend.c`) | the memory region | allocate, touch, release | device threads, driver |
| Sweep script, plots (`experiments/`) | CSV rows | run, check rows, plot | the program's output |

What is hard, by behaviour (PROJECT.json lists each hazard at its line):

* *Credits*: submissions and completions race on the semaphore, and AIMD keeps a
  second account of the same credits that must agree with it.
* *Lifetime*: the device thread touches a request after it has become visible as
  done, while its owner is about to free it.
* *Wake-ups*: four condition variables; for each the question is whether a signal
  can fall between a test and a sleep, and whether enough signals are sent.
* *Lock order*: request lock, then controller lock, in a completion; controller
  lock, then queue lock, in a submission.
* *Stop*: an idle worker, one in backoff, one blocked on a credit, on the window
  or on a completion, one between an attempt and its outcome, one whose thread
  could not be created; then the device threads.
* *Congestion episodes*: several workers see the same full queue; the window may
  be cut once, and has to come back.
* *Pointers*: the queue is threaded through requests that their owners free and
  allocate again.
* *Accumulated time*: the controller's averages are integrals brought up to date
  at a few places, while the values change at others.

## Modules

| Module | Models |
|---|---|
| `CreditPool` | what the fabric promises: at most `queue_depth` requests hold a credit, each admitted one completes and gives it back once |
| `CxlFabric` | `cxl_fabric.c`; shown to implement `CreditPool` |
| `RequestList` | the same with the queue as it is stored: `head`, `tail` and `next`; extends `CxlFabric` |
| `CxlFabricProofs` | the proofs about `CxlFabric` and `RequestList`, and what those about the policies share: main against the workers |
| `RandomWorkersProofs`, `CsmaWorkersProofs`, `AimdWorkersProofs` | the proofs about the policies, the last also about `ControllerTime` |
| `FabricStartupProofs`, `SetupProofs`, `PacingProofs`, `StatisticsProofs` | the proofs about `FabricStartup`, `Setup`, `Pacing` and `Statistics` |
| `FabricStartup` | `cxl_fabric_init` and `cxl_fabric_destroy` against the device threads, with `queue_lock` as a held lock |
| `Experiment` | `main` from `start_workers` on, and the steps the policies share; extends `CxlFabric` |
| `RandomWorkers`, `CsmaWorkers`, `AimdWorkers` | the three modes of `worker_main`; each extends `Experiment` and composes workers, device threads and main |
| `ControllerTime` | `AimdWorkers` with a clock: the controller's time integrals and its final metrics |
| `Pacing` | one worker's idle times, backoff window and random generator, in any mode |
| `MCAimdWorkers`, `MCControllerTime` | symmetry for TLC |
| `Setup` | `main` from `parse_config` to the last `free`: every acquisition, its failures, the cleanup |
| `Statistics` | `stats.c` and `percentile`: what the workers record and the row made of it |

### Correspondence

*Fabric.* `stage[r]` says what the owner has done with a request: `held` after
`cxl_request_create`, `admitted` with a credit, `submitted` in the queue or in
service, `asleep` in `pthread_cond_wait(&done_cond)`, `finished` after
`cxl_request_wait`, `free` after `cxl_request_destroy`. `dpc[d]` says where a
device thread is: `idle` (about to take `queue_lock`), `asleep`, `serving`,
`locked` (request lock held, `done` set), `posted` (credit given back),
`exited`. One action is one critical section or one step between two. This is
exact where a lock protects straight-line code only, as `queue_lock` does;
where it is held over several steps (a request's lock in `complete_request`, the
controller's lock in AIMD, `queue_lock` in `FabricStartup`) its holder is part of
the state. A condition variable is the set of threads asleep on it: a signal
wakes one if there is one, a broadcast all, and a thread may wake spuriously at
any time. So a state in which everyone sleeps still has a step, and it is the
liveness properties that exclude it.

*List.* `RequestList` decides by the pointers what the code decides by them: a
device thread sleeps or exits when `head` is NULL and serves what `head` points
at. `queue` stays as a history of what was enqueued and not dequeued, so every
property of `CxlFabric` is stated of the list unchanged. `next` is kept for freed
requests too; a wrong `tail` writes to one.

*Workers.* A worker owns at most one request, so request slots and workers are
the same set; this is how the code is ("one worker owns at most one submitted
request"), and `FabricSpec` as a property of each policy shows that the policies
use the fabric's operations in their order and free every request before
`cxl_fabric_destroy`. Of a worker's counters the model keeps `due` = attempts -
success - retry. An allocation may fail at any time. Sleeping (`usleep`, `sleep`)
changes no shared state and is left out of these modules; any thread may run
between any two steps. `Pacing` has how a worker chooses its sleeps.

*AIMD.* `lock` is the holder of `controller->lock`. The worker that holds it
through `cxl_fabric_submit_try` and the device thread that holds it from before
`sem_post` until after the callback are modelled step by step. The completion
counter only matters relative to `next_decrease_completion`; `holdoff` is their
difference, which keeps the model finite without a bound. `since` and `climb` are
history variables, completions counted up to what one property each needs.

*Time.* `ControllerTime` adds a clock that may advance between any two steps of
`AimdWorkers`, and the integrals, updated where the code updates them: when
`aimd_try_submit` has taken the lock, when it returns from a wait, in the
callback and in `aimd_controller_get_metrics`. As in the code, a worker that
holds the lock changes `cwnd` and `inflight` after the update, so the time in
between is booked at the new value; `in_section` bounds that error. `metrics` is
what `aimd_controller_get_metrics` returns, an average as numerator and
denominator, or 0 when no time was observed. That never happens: `main` asks for
the metrics only when it has come past `sleep(cfg.seconds)` (`slept`), not when
`start_workers` has failed, and `parse_config` demands at least one second, so
`sleep` ends only after the clock has moved. `Load` appears in one property only.

*Pacing.* A word of 32 bits is the set of the positions of its ones, so shifts
and exclusive or are set operations and no width is lost. A sleep is a draw
modulo a window; the model keeps the window and the draw. New requests start
their own generator from the word the worker has just drawn, which is also the
worker's own state: the lines a request touches are those the worker's next
draws name. This is how the code is, and no property depends on it.

*Main.* `mpc` follows `main` through start (with a possible failure after any
number of workers), sleep, stop, wake_all, join and cleanup.

*Set-up.* A command line is its length and its numbers; `Parsed` puts a default
where an optional one is missing. `Setup` abstracts what is acquired to a set of names (`held`) and the
ready flags of `main` to a set. An initialiser takes its parts in order and may
fail at each, undoing those before; a destructor on a part that is not there is
recorded in `misused`. `free`, `memory_region_destroy` and
`thread_stats_destroy` accept what was never allocated, so they record nothing.
`int` wraps at `IntMax`. What threads do meanwhile is the subject of
`FabricStartup` and `Experiment`.

*Statistics.* A worker's record is its `thread_stats_t`, with `latency_count` as
the length of the buffer. A step is a batch of equal iterations: no other thread
reads the record before the join. `Total` is the loop of `summarize_stats` for one
of the sums, `Merged` the buffer it fills with memcpy. `Sorted` inserts one sample
after the other; which way `qsort` goes makes no difference, since a sequence of
numbers has one ascending order. Averages are numerator and denominator. The index
of a percentile, a double in the code, is the truncated quotient: for p = 50, 95
and 99 the two are equal for every n up to 60 million, and 256 workers keep
at most 51.2 million samples.

The definitions commented "Fault" are variants with one plausible mistake each.
No specification uses them: they are there to substitute for the definition
after them, to see which property notices.

## Model checking

| Run | Instance | Shows |
|---|---|---|
| `fabric` (`RequestList`) | 3 requests, 2 device threads, 2 credits | the pointers are the queue; types, credit conservation, no use after free, no lost completion, work conservation; every submitted request finishes, destroy returns; `CreditPool` is implemented, fairness included |
| `startup` | 4 device threads | destroy's broadcast leaves no device thread asleep or about to sleep, and destroy returns |
| `startup_fails` | 2 device threads | violation, see findings |
| `random`, `csma` | 3 workers, 2 device threads, 1 credit | counters balance at the join, the policy keeps to the fabric's protocol and stops; CSMA makes progress and discards no request before the stop |
| `aimd_safety` | 3 workers, 2 device threads, 2 credits, symmetry | both accounts of the credits agree, waiters are counted exactly, no slot is idle beside blocked workers, nobody is blocked after wake_all, the controller is idle at the join, the window is back at the probe 1 + 2 completions after a cut |
| `aimd_live` | 2 workers, 1 device thread, 1 credit | one cut per window of completions, progress, shutdown |
| `controller_time` | as `aimd_live`, 3 ticks of the clock, symmetry | at any moment the integrals are the true ones up to what happened while a worker held the lock; the final metrics are in the ranges the sweep script demands, its comparisons with load apart |
| `pacing` | loads 50 and 100, seeds 0, 1, 2^31, 10007, 24 draws | the window follows the rejections and completions in a row and stays in 200..8000; no draw is 0 and none repeats |
| `setup` | 2 threads for 256, 7 for `INT_MAX`, command lines of every length with numbers on both sides of every bound, any set of two NUMA nodes | whichever step fails, everything is released once; workers run only with all they use and with the parameters the other modules assume; `max_cwnd` is `queue_depth + 1` or the program does not start |
| `statistics` | 2 workers, buffers of 21, batches of 1 and 20, 3 latencies | the row's percentiles are those of all recorded samples, by a definition without sorting or index; it accounts for every request, its averages in range |
| `aimd_load` (`ControllerTime`) | 2 workers, 1 device thread, 2 credits, load 1, 1 tick, symmetry | violation, see findings |

*Bounds.* No counter of the concurrent modules is cut off, the clock of
`ControllerTime` apart: their state is finite for finite constants. `MaxTime` 3
lets a value change before, between and after two stretches of time, one of them
inside a section; the integrals are sums over such stretches. `MaxDraws` 24 in
`Pacing` is twice what takes the window from one end to the other and back, with
room for other orders; `MaxStreak` 7 is past the five halvings and six doublings between
200 and 8000. That the generator has no short cycle is only shown for these
seeds and draws. `Statistics` bounds the batches of a worker (`MaxBatches`);
two batches of 20 overfill a buffer of 21, and 42 samples are past the 22 where
the 95th and 99th percentile first differ. More requests than credits gives rejection and blocking; more credits
than one lets the queue hold two requests while device threads sleep; two device
threads give competition for the queue, for the controller's lock and out-of-order
completion. Three AIMD workers on two credits allow a blocked, a signalled and a
submitting worker together. One credit is where the hold-off matters: with more,
growing back to the full window takes a window's worth of completions anyway.
Two credits are where the growth matters: the window halves from 3 to 1 and takes
one completion, then two, to come back; on one credit any completion would do.

*Fairness.* Weak fairness for each thread: a thread that can run is scheduled.
Strong fairness is assumed for two steps. `Alloc`: an allocation that may fail
does not fail for ever. `LockCompletion` (AIMD): rejected workers release and
retake the controller's lock in a loop, and a device thread waiting for it has to
get it in between; the code gives it `random_backoff` to do so, but no
guarantee, as pthread mutexes need not be fair. That hazard is assumed away, and
no property is about it. Nothing is assumed about how long
`main` sleeps, about spurious wake-ups, or about which blocked worker a signal
picks. `KeepsCompleting` is therefore about the system, not about each worker:
the code does not promise a particular worker its credit.

### Findings

* `startup_fails`: when `pthread_create` fails after another succeeded,
  `cxl_fabric_init` broadcasts without `queue_lock` (`src/cxl_fabric.c:144`). A
  thread that has tested `stop` and is about to sleep misses it, and the join
  waits for ever. `cxl_fabric_destroy` takes the lock for the same broadcast, and
  `startup` shows that this suffices.
* `aimd_load`: `run_thread_queue_sweep.sh:149` compares `global_avg_inflight`
  (`$27 > $2`) and `global_max_inflight` (`$28 > $2`) with column 2, which is
  `load`; a correct run at load 1 with two workers and two credits can have both
  requests in flight all the time, and its row is reported as invalid. The run
  refutes the comparison of the average; the maximum is never below it. Column 12
  is `threads`.

## Proofs

The theorems assume of the constants what the ASSUMEs of the modules say, and
nothing else: a positive number of credits (`DepthAssumption`), a finite set of
workers and a finite non-empty set of device threads (`ThreadsAssumption`), which
are different threads (`DisjointAssumption`), at least one device thread to create
(`WorkersAssumption`), an `INT_MAX` that holds the bound on threads
(`IntAssumption`), seeds that are 32-bit words (`PacingAssumption`), and for the
statistics at least one worker, a buffer that is not empty and batches of at least
one (`StatisticsAssumption`).

### Fabric

`CxlFabricProofs` proves for all `Requests`, `Devices` (finite) and `QueueDepth`
(positive), the ASSUMEs of `CxlFabric`:

* `FabricSpec => []FabricTypeOK`, `[]CreditConservation`, `[]NoUseAfterFree`,
  `[]NoLostCompletion`, `[]WorkConserving`;
* `FabricSpec => Pool!PoolSafety`: the safety part of the refinement.

The properties are not inductive. `NoUseAfterFree`, say, needs that a thread
serving a request is the only one, that the request has left the queue, and that
`done` is set exactly while that thread holds the request's lock, so that the
owner's test of `done` cannot come between. `FabricInv` collects this:

* `QueueInv`: queued requests are waiting, not done, and queued once;
* `ServingInv`: a served request is waiting, out of the queue, served by one
  thread, and done exactly when that thread has locked it;
* `DoneInv`: a request is done only between completion and destruction, and the
  fabric holds every submitted request that is not done;
* the types, `NoLostCompletion` and `CreditConservation`.

Each part has a lemma with a step per kind of action. Credit conservation rests
on `HoldersStep`: a step adds a holder and takes a credit, removes one and gives
it back, or does neither. The bound on the semaphore follows from conservation,
work conservation from the types alone, the refinement from `PhaseStep` with
conservation for the guard of `Admit`.

Its second part proves of the linked list, for the same constants:

* `ListSpec => []ListIsQueue`;
* `ListSpec => FabricSpec`, so everything above holds of the list, too.

The two need each other. That a step by the pointers is one of `CxlFabric`
(`ListStepIsFabricStep`) follows from `ListIsQueue` before it; that `ListIsQueue`
holds after it follows from `FabricInv` before it: `LinkLast` writes `next` of two
requests, and only because a request is queued once, and an admitted one not at
all (`QueueInv`), is the rest of the list left alone. `ListInv` is `FabricInv`,
the types of the pointers and `ListIsQueue`.

### Policies

The third part of `CxlFabricProofs` is what the policies share. `MainInv` relates where
`main` is to the stop flag, the threads and the life of the fabric; `OwnerInv`
is a table: for each place of a worker the stages its request may be in, and
whether it owes the outcome of an attempt. Only with such a table can a step of
the policy be seen to be a step of the fabric: `Destroy` needs a request that is
finished, `StopStore` needs that all are free. For modes random and csma
`OwnersInv`, that is `FabricInv`, `MainInv` and `OwnerInv`, is inductive and gives

* `Spec => FabricSpec`: the policy calls the fabric in the order it demands, and
  no request is left when `main` destroys it. Every theorem about `CxlFabric`
  therefore holds of the whole program (`RandomFabricSafe`, `CsmaFabricSafe`);
* `Spec => []AccountingBalanced`;
* for csma `Spec => NoSilentDiscard`, an action property: only `GiveUp` frees a
  request that was never admitted, and its guard is the stop.

`AimdWorkersProofs` proves the same of mode aimd (`AimdFabricSafe`,
`AccountingBalanced`), and of the controller

* `[]AimdTypeOK`, `[]CreditsMatchInflight`, `[]WaitersCounted`, `[]NoIdleSlot`,
  `[]NobodyBlockedAfterWakeAll`, `[]ControllerIdleAtJoin`, `CutsOncePerWindow`,
  `[]RecoversInTime`.

`AimdWakeUpToCome` follows from them: until the stop, a worker blocked on the window
has a signalled worker on its way or requests in flight, the last of which makes
room in any window. It is the part of the liveness of `aimd_try_submit` that can be
proved.

`NoCircularWait` is about the order of the locks: a completion takes the
controller's lock while it holds a request's, a submission goes into the fabric
while it holds the controller's. `WaitsFor` is the graph of who waits for whose
lock; no path in it has three edges, since whoever holds the controller's lock
waits for none (`HolderWaitsForNobody`, from `LockInv`). Paths of two occur.

The listed properties are not inductive, because the lock is held across several
steps by either kind of thread. `AimdInv` says what its holder is in the middle
of:

* `WorkerInv`: the ownership table. A device thread may complete a request
  before its owner has counted the attempt, but not before the controller has;
* `LockInv`: a worker holds the lock exactly while it is inside
  `aimd_try_submit`, a device thread only while it is completing, and there is a
  reservation exactly between the test of the window and the accounting;
* `AccountsInv`: the two accounts of the credits differ by the one credit that
  the holder has taken and not counted, or given back and not discounted;
* `TestedInv`: the holder still finds the window as it tested it;
* `WindowInv`: the hold-off and the completions since the last cut make at least
  a full window, from which `CutsOncePerWindow` follows;
* `ClimbInv`: below the full window, the completions since the last cut are no
  more than a climb from 1 to `cwnd` takes, `1 + ... + (cwnd - 1)`, and `acks`. A
  window that is not full is then short of `1 + ... + QueueDepth` (`ShortOfSum`),
  which is `RecoversInTime`. With `KeepsCompleting` it gives the liveness: until
  the stop, the window comes back from every cut;
* `AwakeInv`: after wake_all nobody is blocked or can still be on the way to it;
* `WaitersCounted`, `NoIdleSlot` (with a lemma for each way the sets of blocked
  and woken workers, the window and the credits move), `FabricInv`, `MainInv`.

### Time

The second part of `AimdWorkersProofs` is about `ControllerTime`, for any bound on
the clock. `TimedSpec => Spec`: the clock only watches (and keeps `main` asleep
until some time has passed), so what is proved of `AimdWorkers` holds under it. Then `[]IntegralsTrue` and `[]MetricsInRange`. The
error allowed by `IntegralsTrue` is not inductive: a worker in its section may
still change a value and so rebook all the time since its update. `TimeInv` keeps
that time in reserve (`Spent` is `in_section` without it while a worker holds the
lock), and `NoUpdateInv` spends it when the worker leaves with a new window or one
more request in flight. `AveragesInv` has the ranges at any moment, not only at
the end, and `MetricsInv` that there was time to take the averages over. The arithmetic is not linear; it is in lemmas of its own (`TimePasses`,
`ValueChanges`, `Products`).

### Start-up and set-up

`FabricStartupProofs`: what the liveness of `cxl_fabric_destroy` rests on,
`Spec => []NobodySleepsAfterDestroy`: after its broadcast no device thread is asleep
or between its test and its sleep. `StartupInv` adds to it which threads exist, and
that `queue_lock` has one holder at most. The run
`startup_fails` shows that the same is false of the broadcast without the lock.

`SetupProofs`: `Spec => []ReleasedExactlyOnce`, `[]WorkersHaveAll`,
`[]OneProbeBeyondCredits`, for any `INT_MAX` and bound on threads. `SetupInv` says of
each object that while it is initialised the first so many of its parts are held,
and that otherwise its ready flag tells whether all or none are; `TakesNext` is the
lemma about one more part. That the window has not wrapped is known
when the first part of the controller is taken, and has to be remembered until
the second (`WindowComputed`).

### Pacing

`PacingProofs`: `Spec => []BackoffFollowsStreak` and `Spec => []DrawsNonzero`, for
any seeds, loads and bound on the draws. `PacingInv` is these two and the types. The
window needs a case for each range of the streak: up to six in a row, where the
window and its bound double or halve together, and from there on, where the bound
is past the limit and the window must have reached it (`GrownFollows`,
`RelaxedFollows`; `Powers` is the table of the powers of two). xorshift32 yields 0
only if one of its three steps turns a word into 0, that is if the word equals
itself shifted; then each of its ones has another one k places on, without end
(`CancelledLeft`, `CancelledRight`).

`Spec => []RepeatsOnlyRound` says of repetition what holds for any number of draws:
a word is drawn again only after all words of its cycle, the first one included.
The steps of xorshift32 are injective, because where two words differ makes a word
that its shift would have to cancel; so the words drawn form a chain that can only
close at its beginning (`ChainInv`; TLC finds it, and `StatisticsInv`, true on the
instances of `Pacing.cfg` and `Statistics.cfg`).

### Statistics

`StatisticsProofs`: `Spec => []RowAccountsForAll` and
`Spec => []PercentilesOfAllSamples`, for any number of workers and samples. The
inductive part is small: a batch keeps a worker's record consistent (`RecordsInv`:
attempts against successes and retries, the buffer against the successes, the
sums against the maximum), and a printed row is the summary of the records. The
rest is what the summary computes:

* the sums of the loop, by induction over the workers (`TotalAdds`, `TotalAtMost`,
  `TotalScales`): a relation between the fields of every record is one between
  their totals;
* the merged buffer has the samples of every worker (`MergedAll`), sorting keeps
  them and puts them in order (`InsertedKeeps`, `InsertionSorts`); what is kept is
  `Occurs(s, V)`, how many elements lie in V, for every V;
* in an ascending sequence at most k elements are smaller than the one at index k,
  and more than k are not greater (`Rank`); with the bounds of the index
  (`PercentileIndex`) that is `IsPercentile`.

Induction is done with sets: `Least`, from the well-foundedness of < on the
natural numbers, says that a set of them has a least element, so a set that has 0
and is closed under successor has them all (`Induction`). The recursive functions
are shown to exist in the same way (`SumToDef`, `SortToDef`, `FlatToDef`).

### Only model-checked

* Liveness, and the fairness part of the refinement of `CreditPool`: outside what
  TLAPS proves.
* That the generator repeats no word (the second part of `RngNeverStuck`): it is
  the length of the cycles of xorshift32, known only for the draws TLC makes. For
  more draws than there are words it is false. What does not depend on the length
  is proved (`PacingDrawsNonzero`, `PacingRepeatsOnlyRound`).
* The two violations: they are behaviours of given instances.

## Not modelled

* `memory_region_request`: atomic increments of bytes that nothing reads. Its
  index is a draw modulo a number of lines that is positive, as `mem_mb` is.
* `bind_current_thread_to_node`: `worker_main` ignores its result.
* Wording and layout of the output, `atoi`, the goodput and the elapsed time.
* `sem_wait` failing with an error other than `EINTR`: it needs an invalid
  semaphore.
* The sweep script and the plots: sequential use of the program and its rows. Of
  the script's checks of a row, attempts = success + retry is `AccountingBalanced`
  and part of `RowAccountsForAll`; the order of the percentiles is part of
  `PercentilesOfAllSamples`; the ranges of the controller's metrics are
  `MetricsInRange` and, as to load, `AverageWithinLoad`. The check that retry =
  backoff is no property: the program increments both counters in the same places
  (`worker.c:294`, `worker.c:389`), and the model keeps one.

## Plan

Done, in this order, the most important behaviour first: `CreditPool`,
`CxlFabric`, `Experiment` with the three policies, `FabricStartup`,
`CxlFabricProofs`, `Setup`, `Statistics`, `RequestList` and its proofs,
`ControllerTime`, `Pacing`, then the proofs of the policies, the clock, start-up
and set-up, then `PacingProofs`, the order of the locks and `StatisticsProofs`.

Of the safety properties that the runs check, all are proved but the
one listed above. What is left is liveness, and the length of the cycles of the
generator.
