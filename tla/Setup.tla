-------------------------------- MODULE Setup --------------------------------
(***************************************************************************)
(* src/main.c as a sequence of acquisitions that may each fail, and the    *)
(* cleanup that has to undo those that did not: parse_config, the region,  *)
(* cxl_fabric_init, aimd_controller_init, the arrays, the latency buffers, *)
(* the workers, the summary.                                               *)
(*                                                                         *)
(* What is acquired is a set of names. misused records a destructor that   *)
(* was called on something not initialised or already destroyed; free,     *)
(* memory_region_destroy and thread_stats_destroy tolerate that.           *)
(*                                                                         *)
(* int is IntMax wide: queue_depth + 1 wraps to the least int. (In C it is *)
(* undefined; wrapping is what the build does.)                            *)
(***************************************************************************)
EXTENDS Integers, Sequences, FiniteSets

CONSTANTS IntMax,     \* INT_MAX
          MaxThreads  \* the bound of parse_config on threads (256)

ASSUME IntAssumption == IntMax \in Nat \ {0} /\ MaxThreads \in 1..IntMax

VARIABLES
  argc, nodes, \* the length of the command line, the NUMA nodes there are
  pc,          \* where main stands
  cfg,         \* the numbers on the command line, then the parsed parameters
  held,        \* what is allocated or initialised
  latencies,   \* how many threads have a latency buffer
  max_cwnd,    \* the controller's
  ready,       \* the flags fabric_ready, aimd_ready, stats_ready that are set
  created_threads,
  status,      \* main's return value
  misused

inputs == <<argc, nodes>>
vars == <<inputs, pc, cfg, held, latencies, max_cwnd, ready, created_threads, status, misused>>

FabricParts     == <<"credits", "queue_lock", "queue_not_empty", "workers", "device threads">>
ControllerParts == <<"lock", "slot_available">>
Arrays          == {"tids", "args", "thread_stats"}

PartsOf(s) == {s[i] : i \in DOMAIN s}
Resources  == {"region"} \cup PartsOf(FabricParts) \cup PartsOf(ControllerParts) \cup Arrays

(* Numbers on both sides of every bound of parse_config.                   *)
CommandLines ==
  [mode : {-1, 0, 2, 3}, load : {0, 1, 101}, threads : {0, 1, MaxThreads, MaxThreads + 1},
   seconds : {0, 1}, mem_node : {-1, 0}, mem_mb : {0, 1}, touches_per_req : {0, 1},
   queue_depth : {-IntMax - 1, 0, 2, IntMax}, device_workers : {0, MaxThreads, MaxThreads + 1}]

Init ==
  /\ argc \in 4..12 /\ nodes \in SUBSET {0, 1}
  /\ pc = "config"
  /\ cfg \in CommandLines
  /\ held = {} /\ latencies = 0 /\ max_cwnd = 0 /\ ready = {}
  /\ created_threads = 0
  /\ status = 1
  /\ misused = {}

Plus1(n) == IF n = IntMax THEN -IntMax - 1 ELSE n + 1

Cleanup == pc' = "stats_destroy"

(* The parts of an object that are initialised so far, in their order.     *)
Progress(parts) == Cardinality(held \cap PartsOf(parts))

(* An initialiser takes the next part ...                                  *)
TakePart(parts) == held' = held \cup {parts[Progress(parts) + 1]}

(* Fault: an initialiser that fails keeps what it has.                     *)
KeepParts(parts) == UNCHANGED held

(* ... or fails and undoes the parts before it.                            *)
UndoParts(parts) == held' = held \ PartsOf(parts)

(* A destructor releases parts that all have to be there.                  *)
Destroy(parts) ==
  /\ misused' = misused \cup (PartsOf(parts) \ held)
  /\ held' = held \ PartsOf(parts)

-----------------------------------------------------------------------------
(* The place of each optional parameter on the command line, and its value *)
(* where it is not given (1 also stands for 512 and 4096).                 *)
Position == [mem_node |-> 5, mem_mb |-> 8, touches_per_req |-> 9,
             queue_depth |-> 10, device_workers |-> 11]
Default  == 1

Parsed ==
  [f \in DOMAIN cfg |-> IF f \in DOMAIN Position /\ argc <= Position[f] THEN Default ELSE cfg[f]]

Accepted(c) ==
  /\ c.mode \in 0..2
  /\ c.load \in 1..100
  /\ c.threads \in 1..MaxThreads
  /\ c.seconds >= 1 /\ c.mem_mb >= 1 /\ c.touches_per_req >= 1 /\ c.queue_depth >= 1
  /\ c.device_workers \in 1..MaxThreads

ParseConfig ==
  /\ pc = "config"
  /\ IF argc < 5 THEN UNCHANGED cfg ELSE cfg' = Parsed
  /\ pc' = IF argc >= 5 /\ Accepted(Parsed) THEN "backend" ELSE "exit"
  /\ UNCHANGED <<inputs, held, latencies, max_cwnd, ready, created_threads, status, misused>>

(* numa_available fails where there are no nodes.                          *)
NumaNodeExists(node) == node >= 0 /\ node \in nodes

(* No NUMA, or mem_node does not exist: main returns at once.              *)
CheckBackend ==
  /\ pc = "backend"
  /\ pc' = IF nodes # {} /\ NumaNodeExists(cfg.mem_node) THEN "region" ELSE "exit"
  /\ UNCHANGED <<inputs, cfg, held, latencies, max_cwnd, ready, created_threads, status, misused>>

(* alloc_memory_on_node repeats the tests, and may find no memory.         *)
AllocMemoryOnNode ==
  \/ NumaNodeExists(cfg.mem_node) /\ held' = held \cup {"region"}
  \/ UNCHANGED held

(* memory_region_init leaves base NULL where nothing was allocated.        *)
InitRegion ==
  /\ pc = "region"
  /\ AllocMemoryOnNode
  /\ IF "region" \in held' THEN pc' = "fabric" ELSE Cleanup
  /\ UNCHANGED <<inputs, cfg, latencies, max_cwnd, ready, created_threads, status, misused>>

(* cxl_fabric_init, part by part.                                          *)
InitFabric ==
  /\ pc = "fabric"
  /\ \/ /\ Progress(FabricParts) + 1 < Len(FabricParts)
        /\ TakePart(FabricParts)
        /\ UNCHANGED <<pc, ready>>
     \/ /\ Progress(FabricParts) + 1 = Len(FabricParts)
        /\ TakePart(FabricParts)
        /\ ready' = ready \cup {"fabric"}
        /\ pc' = IF cfg.mode = 2 THEN "controller" ELSE "arrays"
     \/ UndoParts(FabricParts) /\ Cleanup /\ UNCHANGED ready
  /\ UNCHANGED <<inputs, cfg, latencies, max_cwnd, created_threads, status, misused>>

(* Fault: aimd_controller_init does not look at max_cwnd.                  *)
AnyWindow(max) == TRUE

(* initial_cwnd is 1; max_cwnd < initial_cwnd is refused.                  *)
WindowAccepted(max) == max >= 1

(* aimd_controller_init(&controller, 1, queue_depth + 1).                  *)
InitController ==
  /\ pc = "controller"
  /\ \/ /\ WindowAccepted(Plus1(cfg.queue_depth)) /\ Progress(ControllerParts) = 0
        /\ TakePart(ControllerParts)
        /\ UNCHANGED <<pc, ready, max_cwnd>>
     \/ /\ Progress(ControllerParts) = 1
        /\ TakePart(ControllerParts)
        /\ max_cwnd' = Plus1(cfg.queue_depth)
        /\ ready' = ready \cup {"aimd"}
        /\ pc' = "arrays"
     \/ UndoParts(ControllerParts) /\ Cleanup /\ UNCHANGED <<ready, max_cwnd>>
  /\ UNCHANGED <<inputs, cfg, latencies, created_threads, status, misused>>

(* Fault: only one of the three callocs is checked.                        *)
TidsChecked(S) == "tids" \in S

AllChecked(S) == S = Arrays

(* Three callocs, any of which may fail, are tested together.              *)
AllocArrays ==
  /\ pc = "arrays"
  /\ \E S \in SUBSET Arrays :
       /\ held' = held \cup S
       /\ IF AllChecked(S) THEN pc' = "latencies" ELSE Cleanup
  /\ UNCHANGED <<inputs, cfg, latencies, max_cwnd, ready, created_threads, status, misused>>

AllInited == latencies = cfg.threads

(* init_worker_args: a buffer for each thread; on a failure those before   *)
(* it are freed and stats_ready stays 0.                                   *)
InitWorkerArgs ==
  /\ pc = "latencies"
  /\ \/ /\ ~AllInited
        /\ latencies' = latencies + 1
        /\ UNCHANGED <<pc, ready>>
     \/ /\ ~AllInited
        /\ latencies' = 0
        /\ Cleanup /\ UNCHANGED ready
     \/ /\ AllInited
        /\ ready' = ready \cup {"stats"}
        /\ pc' = "start"
        /\ UNCHANGED latencies
  /\ UNCHANGED <<inputs, cfg, held, max_cwnd, created_threads, status, misused>>

(* start_workers creates a thread, or has created all, or fails and joins  *)
(* those it created.                                                       *)
StartWorkers ==
  /\ pc = "start"
  /\ \/ /\ created_threads < cfg.threads
        /\ created_threads' = created_threads + 1
        /\ UNCHANGED pc
     \/ created_threads < cfg.threads /\ created_threads' = 0 /\ Cleanup
     \/ created_threads = cfg.threads /\ pc' = "running" /\ UNCHANGED created_threads
  /\ UNCHANGED <<inputs, cfg, held, latencies, max_cwnd, ready, status, misused>>

(* Stop, wake_all and the joins (see Experiment).                          *)
JoinWorkers ==
  /\ pc = "running"
  /\ created_threads' = 0
  /\ pc' = "summary"
  /\ UNCHANGED <<inputs, cfg, held, latencies, max_cwnd, ready, status, misused>>

(* summarize_stats fails for want of memory, or the row is printed.        *)
Summarize ==
  /\ pc = "summary"
  /\ status' \in {0, 1}
  /\ Cleanup
  /\ UNCHANGED <<inputs, cfg, held, latencies, max_cwnd, ready, created_threads, misused>>

-----------------------------------------------------------------------------
(* cleanup, in its order.                                                  *)

(* Threads that are still counted are stopped and joined first.            *)
DestroyStats ==
  /\ pc = "stats_destroy"
  /\ created_threads' = 0
  /\ latencies' = IF "stats" \in ready THEN latencies - cfg.threads ELSE latencies
  /\ pc' = "fabric_destroy"
  /\ UNCHANGED <<inputs, cfg, held, max_cwnd, ready, status, misused>>

DestroyFabric ==
  /\ pc = "fabric_destroy"
  /\ IF "fabric" \in ready THEN Destroy(FabricParts) ELSE UNCHANGED <<held, misused>>
  /\ pc' = "controller_destroy"
  /\ UNCHANGED <<inputs, cfg, latencies, max_cwnd, ready, created_threads, status>>

DestroyController ==
  /\ pc = "controller_destroy"
  /\ IF "aimd" \in ready THEN Destroy(ControllerParts) ELSE UNCHANGED <<held, misused>>
  /\ pc' = "free"
  /\ UNCHANGED <<inputs, cfg, latencies, max_cwnd, ready, created_threads, status>>

(* memory_region_destroy frees what base points to and resets it.          *)
WithoutRegion == held \ {"region"}

(* ... and the three frees; the buffers of thread_stats have to be gone    *)
(* before them.                                                            *)
FreeRest ==
  /\ pc = "free"
  /\ held' = WithoutRegion \ Arrays
  /\ pc' = "exit"
  /\ UNCHANGED <<inputs, cfg, latencies, max_cwnd, ready, created_threads, status, misused>>

Next ==
  \/ ParseConfig \/ CheckBackend \/ InitRegion \/ InitFabric \/ InitController
  \/ AllocArrays \/ InitWorkerArgs \/ StartWorkers \/ JoinWorkers \/ Summarize
  \/ DestroyStats \/ DestroyFabric \/ DestroyController \/ FreeRest
  \/ pc = "exit" /\ UNCHANGED vars

Spec == Init /\ [][Next]_vars

-----------------------------------------------------------------------------
(* Properties.                                                             *)

(* Whichever step fails, main returns with everything released, and it has *)
(* destroyed nothing that was not initialised or was destroyed before.     *)
ReleasedExactlyOnce ==
  /\ misused = {}
  /\ pc = "exit" => held = {} /\ latencies = 0

(* A worker thread runs only while everything it uses is there: the        *)
(* region, the fabric, the arrays, every buffer, in mode 2 the controller; *)
(* and only with parameters that the other modules assume, whichever of    *)
(* them were left to their defaults.                                       *)
WorkersHaveAll ==
  created_threads > 0 =>
    /\ cfg.queue_depth > 0 /\ cfg.device_workers > 0 /\ cfg.load \in 1..100
    /\ cfg.mem_node \in nodes /\ cfg.mem_mb > 0 /\ created_threads <= cfg.threads
    /\ {"region"} \cup PartsOf(FabricParts) \cup Arrays \subseteq held
    /\ cfg.mode = 2 => PartsOf(ControllerParts) \subseteq held
    /\ latencies = cfg.threads

(* "queue_depth + 1 permits one congestion probe beyond the known          *)
(* fabric-credit capacity": a controller that is used has exactly that     *)
(* window, whatever queue_depth parse_config let through; where it does    *)
(* not fit an int the program refuses to start.                            *)
OneProbeBeyondCredits == "aimd" \in ready => max_cwnd = cfg.queue_depth + 1
=============================================================================
