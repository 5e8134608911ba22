---------------------------- MODULE SetupProofs ----------------------------
(***************************************************************************)
(* Proofs about main's acquisitions and their cleanup, for every INT_MAX   *)
(* and every bound on threads. SetupInv says, for each place main can be   *)
(* at, what is held, what the ready flags promise about it, and what is    *)
(* known of the parameters.                                                *)
(***************************************************************************)
EXTENDS Setup, FiniteSetTheorems, TLAPS

(* The first n parts of an object.                                         *)
FirstParts(parts, n) == {parts[i] : i \in 1..n}

Distinct(parts) ==
  /\ Len(parts) \in Nat /\ DOMAIN parts = 1..Len(parts)
  /\ \A i, j \in 1..Len(parts) : parts[i] = parts[j] => i = j

Partly(parts) == \E n \in 0..(Len(parts) - 1) : held \cap PartsOf(parts) = FirstParts(parts, n)
Without(parts) == held \cap PartsOf(parts) = {}

Early    == {"config", "backend", "region"}
Complete == {"arrays", "latencies", "start", "running", "summary"}
Cleaning == {"stats_destroy", "fabric_destroy", "controller_destroy", "free"}
Pcs      == Early \cup {"fabric", "controller"} \cup Complete \cup Cleaning \cup {"exit"}

(* The flag fabric_ready is set exactly when there is a whole fabric, and  *)
(* without it there is no part of one.                                     *)
FabricHeld ==
  /\ pc = "fabric" => Partly(FabricParts) /\ "fabric" \notin ready
  /\ pc # "fabric" /\ "fabric" \notin ready => Without(FabricParts)
  /\ pc \in Early => "fabric" \notin ready
  /\ pc \in {"controller"} \cup Complete => "fabric" \in ready
  /\ pc \notin {"controller_destroy", "free", "exit"} /\ "fabric" \in ready =>
       PartsOf(FabricParts) \subseteq held
  /\ pc \in {"controller_destroy", "free", "exit"} => Without(FabricParts)

(* The same for aimd_ready; mode 2 has a controller and the others none.   *)
ControllerHeld ==
  /\ pc = "controller" => Partly(ControllerParts) /\ "aimd" \notin ready /\ cfg.mode = 2
  /\ pc # "controller" /\ "aimd" \notin ready => Without(ControllerParts)
  /\ pc \in Early \cup {"fabric"} => "aimd" \notin ready
  /\ pc \in Complete => ("aimd" \in ready <=> cfg.mode = 2)
  /\ pc \notin {"free", "exit"} /\ "aimd" \in ready => PartsOf(ControllerParts) \subseteq held
  /\ pc \in {"free", "exit"} => Without(ControllerParts)

(* Its window has been computed without overflow.                          *)
WindowComputed ==
  /\ pc = "controller" => Without(ControllerParts) \/ WindowAccepted(Plus1(cfg.queue_depth))
  /\ "aimd" \in ready => max_cwnd = cfg.queue_depth + 1

RestHeld ==
  /\ held \subseteq Resources
  /\ pc \in Early => held = {}
  /\ pc \in {"fabric", "controller"} \cup Complete => "region" \in held
  /\ pc \in Complete \ {"arrays"} => Arrays \subseteq held
  /\ pc = "exit" => held = {}

(* A buffer for every thread from the moment stats_ready is set.           *)
LatenciesHeld ==
  /\ latencies \in Nat
  /\ pc \in Early \cup {"fabric", "controller", "arrays", "latencies"} => "stats" \notin ready
  /\ pc \in {"start", "running", "summary"} => "stats" \in ready
  /\ pc \in {"start", "running", "summary", "stats_destroy"} /\ "stats" \in ready =>
       latencies = cfg.threads
  /\ pc = "latencies" => latencies <= cfg.threads
  /\ pc # "latencies" /\ "stats" \notin ready => latencies = 0
  /\ pc \in {"fabric_destroy", "controller_destroy", "free", "exit"} => latencies = 0

ThreadsCounted ==
  /\ created_threads \in Nat
  /\ pc \in {"start", "running"} => created_threads <= cfg.threads
  /\ pc \notin {"start", "running"} => created_threads = 0

Numbers(c) ==
  /\ c.mode \in Int /\ c.load \in Int /\ c.threads \in Int /\ c.seconds \in Int
  /\ c.mem_node \in Int /\ c.mem_mb \in Int /\ c.touches_per_req \in Int
  /\ c.queue_depth \in Int /\ c.device_workers \in Int

ParametersChecked ==
  /\ argc \in Nat
  /\ pc = "config" => cfg \in CommandLines
  /\ pc \notin {"config", "exit"} => Numbers(cfg) /\ Accepted(cfg)
  /\ pc \notin {"config", "backend", "exit"} => cfg.mem_node \in nodes

SetupInv ==
  /\ pc \in Pcs /\ misused = {}
  /\ FabricHeld /\ ControllerHeld /\ WindowComputed /\ RestHeld
  /\ LatenciesHeld /\ ThreadsCounted /\ ParametersChecked

-----------------------------------------------------------------------------
(* Taking and releasing parts.                                             *)

LEMMA FirstPartsSize ==
  ASSUME NEW parts, Distinct(parts), NEW n \in 0..Len(parts)
  PROVE  Cardinality(FirstParts(parts, n)) = n
<1> DEFINE f == [i \in 1..n |-> parts[i]]
           S == 1..n
           T == FirstParts(parts, n)
<1>1. n \in Nat /\ \A i, j \in 1..n : parts[i] = parts[j] => i = j
  BY DEF Distinct
<1>2. f \in [S -> T] /\ DOMAIN f = S /\ (\A i \in S : f[i] = parts[i])
  BY DEF FirstParts
<1>3. \A t \in T : \E i \in S : parts[i] = t
  BY DEF FirstParts
<1> HIDE DEF f, T
<1>4. f \in Injection(S, T)
  BY <1>1, <1>2 DEF Injection, IsInjective
<1>5. f \in Surjection(S, T)
  BY <1>2, <1>3 DEF Surjection
<1>6. IsFiniteSet(S) /\ Cardinality(S) = n
  BY <1>1, FS_Interval
<1> QED
  BY <1>4, <1>5, <1>6, FS_Surjection DEF T

(* With n parts held an initialiser takes the one after them.              *)
LEMMA TakesNext ==
  ASSUME NEW parts, Distinct(parts), NEW n \in 0..(Len(parts) - 1),
         held \cap PartsOf(parts) = FirstParts(parts, n), TakePart(parts)
  PROVE  /\ held' \cap PartsOf(parts) = FirstParts(parts, n + 1)
         /\ held' = held \cup {parts[n + 1]} /\ parts[n + 1] \in PartsOf(parts)
<1>1. n \in 0..Len(parts) /\ n + 1 \in 1..Len(parts) /\ n \in Nat
  BY DEF Distinct
<1>2. Progress(parts) = n
  BY <1>1, FirstPartsSize DEF Progress
<1>3. held' = held \cup {parts[n + 1]} /\ parts[n + 1] \in PartsOf(parts)
  BY <1>1, <1>2 DEF TakePart, PartsOf, Distinct
<1>4. FirstParts(parts, n + 1) = FirstParts(parts, n) \cup {parts[n + 1]}
  <2>1. 1..(n + 1) = (1..n) \cup {n + 1}
    BY <1>1
  <2> QED
    BY <2>1 DEF FirstParts
<1> QED
  BY <1>3, <1>4

LEMMA AllParts ==
  ASSUME NEW parts, Distinct(parts)
  PROVE  FirstParts(parts, Len(parts)) = PartsOf(parts) /\ FirstParts(parts, 0) = {}
<1>1. FirstParts(parts, Len(parts)) = PartsOf(parts)
  BY DEF Distinct, FirstParts, PartsOf
<1>2. 1..0 = {}
  OBVIOUS
<1> QED
  BY <1>1, <1>2 DEF FirstParts

LEMMA PartsAreDistinct ==
  /\ Distinct(FabricParts) /\ Len(FabricParts) = 5
  /\ Distinct(ControllerParts) /\ Len(ControllerParts) = 2
<1>1. Distinct(FabricParts) /\ Len(FabricParts) = 5
  <2>1. Len(FabricParts) = 5
    BY DEF FabricParts
  <2>2. DOMAIN FabricParts = 1..5
    BY DEF FabricParts
  <2>3. /\ FabricParts[1] = "credits" /\ FabricParts[2] = "queue_lock"
        /\ FabricParts[3] = "queue_not_empty" /\ FabricParts[4] = "workers"
        /\ FabricParts[5] = "device threads"
    BY DEF FabricParts
  <2>4. \A i \in 1..5 : i = 1 \/ i = 2 \/ i = 3 \/ i = 4 \/ i = 5
    OBVIOUS
  <2>5. \A i, j \in 1..5 : FabricParts[i] = FabricParts[j] => i = j
    BY <2>3, <2>4
  <2> QED
    BY <2>1, <2>2, <2>5 DEF Distinct
<1>2. Distinct(ControllerParts) /\ Len(ControllerParts) = 2
  BY DEF ControllerParts, Distinct
<1> QED
  BY <1>1, <1>2

LEMMA ObjectsAreDisjoint ==
  /\ PartsOf(FabricParts) \cap PartsOf(ControllerParts) = {}
  /\ PartsOf(FabricParts) \cap Arrays = {} /\ PartsOf(ControllerParts) \cap Arrays = {}
  /\ "region" \notin PartsOf(FabricParts) \cup PartsOf(ControllerParts) \cup Arrays
<1>1. PartsOf(FabricParts) = {"credits", "queue_lock", "queue_not_empty", "workers", "device threads"}
  <2>1. DOMAIN FabricParts = {1, 2, 3, 4, 5}
    BY PartsAreDistinct DEF Distinct
  <2>2. /\ FabricParts[1] = "credits" /\ FabricParts[2] = "queue_lock"
        /\ FabricParts[3] = "queue_not_empty" /\ FabricParts[4] = "workers"
        /\ FabricParts[5] = "device threads"
    BY DEF FabricParts
  <2> QED
    BY <2>1, <2>2 DEF PartsOf
<1>2. PartsOf(ControllerParts) = {"lock", "slot_available"}
  <2>1. DOMAIN ControllerParts = {1, 2}
    BY DEF ControllerParts
  <2> QED
    BY <2>1 DEF PartsOf, ControllerParts
<1> QED
  BY <1>1, <1>2 DEF Arrays

-----------------------------------------------------------------------------
(* What parse_config lets through.                                         *)

LEMMA ParsedNumbers ==
  ASSUME cfg \in CommandLines
  PROVE  Numbers(cfg) /\ Numbers(Parsed)
<1>1. Numbers(cfg)
  BY IntAssumption DEF CommandLines, Numbers
<1>2. ASSUME NEW f \in DOMAIN cfg, cfg[f] \in Int
      PROVE  Parsed[f] \in Int
  BY <1>2 DEF Parsed, Default
<1>3. DOMAIN cfg = {"mode", "load", "threads", "seconds", "mem_node", "mem_mb",
                    "touches_per_req", "queue_depth", "device_workers"}
  BY DEF CommandLines
<1> QED
  BY <1>1, <1>2, <1>3 DEF Numbers

LEMMA SetupInitInv ==
  ASSUME Init
  PROVE  SetupInv
  BY DEF Init, SetupInv, FabricHeld, ControllerHeld, WindowComputed, RestHeld, LatenciesHeld,
     ThreadsCounted, ParametersChecked, Without, Pcs, Early, Complete, Cleaning

-----------------------------------------------------------------------------
(* The steps that acquire and release nothing but buffers and threads.     *)

LEMMA ParseInv ==
  ASSUME SetupInv, ParseConfig \/ CheckBackend
  PROVE  SetupInv'
<1> USE DEF SetupInv, FabricHeld, ControllerHeld, WindowComputed, RestHeld, LatenciesHeld,
        ThreadsCounted, ParametersChecked, Without, Partly, Pcs, Early, Complete, Cleaning,
        inputs
<1>1. CASE ParseConfig
  <2>1. Numbers(Parsed)
    BY <1>1, ParsedNumbers DEF ParseConfig
  <2>2. /\ pc = "config" /\ pc' \in {"backend", "exit"}
        /\ pc' = "backend" => Accepted(Parsed) /\ cfg' = Parsed
        /\ UNCHANGED <<held, latencies, ready, created_threads, misused, argc>>
    BY <1>1 DEF ParseConfig
  <2>3. ParametersChecked'
    BY <2>1, <2>2
  <2> HIDE DEF ParametersChecked
  <2> QED
    BY <2>2, <2>3
<1>2. CASE CheckBackend
  BY <1>2 DEF CheckBackend, NumaNodeExists
<1> QED
  BY <1>1, <1>2

LEMMA ThreadStepsInv ==
  ASSUME SetupInv, InitWorkerArgs \/ StartWorkers \/ JoinWorkers \/ Summarize \/ DestroyStats
  PROVE  SetupInv'
<1> USE DEF SetupInv, FabricHeld, ControllerHeld, WindowComputed, RestHeld, LatenciesHeld,
        ThreadsCounted, ParametersChecked, Without, Partly, Pcs, Early, Complete, Cleaning,
        inputs, Cleanup
<1>1. pc \notin {"config", "exit"} => cfg.threads \in Nat
  BY IntAssumption DEF Numbers, Accepted
<1>2. CASE InitWorkerArgs
  BY <1>1, <1>2 DEF InitWorkerArgs, AllInited
<1>3. CASE StartWorkers
  BY <1>1, <1>3 DEF StartWorkers
<1>4. CASE JoinWorkers
  BY <1>4 DEF JoinWorkers
<1>5. CASE Summarize
  BY <1>5 DEF Summarize
<1>6. CASE DestroyStats
  BY <1>1, <1>6 DEF DestroyStats
<1> QED
  BY <1>2, <1>3, <1>4, <1>5, <1>6

-----------------------------------------------------------------------------
(* The steps that acquire.                                                 *)

LEMMA RegionInv ==
  ASSUME SetupInv, InitRegion
  PROVE  SetupInv'
<1> USE DEF SetupInv, FabricHeld, ControllerHeld, WindowComputed, RestHeld, LatenciesHeld,
        ThreadsCounted, ParametersChecked, Without, Pcs, Early, Complete, Cleaning,
        inputs, Cleanup
<1>1. /\ pc = "region" /\ held = {}
      /\ \/ pc' = "fabric" /\ held' = {"region"}
         \/ pc' = "stats_destroy" /\ held' = {}
      /\ UNCHANGED <<inputs, cfg, latencies, max_cwnd, ready, created_threads, misused>>
  BY DEF InitRegion, AllocMemoryOnNode
<1>2. Partly(FabricParts)' <=> \E n \in 0..4 : held' \cap PartsOf(FabricParts) = FirstParts(FabricParts, n)
  BY PartsAreDistinct DEF Partly
<1>3. pc' = "fabric" => Partly(FabricParts)'
  BY <1>1, <1>2, ObjectsAreDisjoint, AllParts, PartsAreDistinct
<1> QED
  BY <1>1, <1>3, ObjectsAreDisjoint DEF Resources

LEMMA FabricInitInv ==
  ASSUME SetupInv, InitFabric
  PROVE  SetupInv'
<1> USE DEF SetupInv, FabricHeld, ControllerHeld, WindowComputed, RestHeld, LatenciesHeld,
        ThreadsCounted, ParametersChecked, Without, Pcs, Early, Complete, Cleaning,
        inputs, Cleanup
<1>1. /\ pc = "fabric"
      /\ UNCHANGED <<inputs, cfg, latencies, max_cwnd, created_threads, misused>>
  BY DEF InitFabric
<1>2. PICK n \in 0..4 : held \cap PartsOf(FabricParts) = FirstParts(FabricParts, n)
  BY <1>1, PartsAreDistinct DEF Partly
<1>len. /\ n \in 0..Len(FabricParts) /\ n \in 0..(Len(FabricParts) - 1) /\ n + 1 \in Nat
        /\ Distinct(FabricParts)
  BY PartsAreDistinct
<1>3. Progress(FabricParts) = n
  BY <1>2, <1>len, FirstPartsSize, Zenon DEF Progress
<1>4. ASSUME TakePart(FabricParts)
      PROVE  /\ held' \cap PartsOf(FabricParts) = FirstParts(FabricParts, n + 1)
             /\ held \subseteq held' /\ held' \subseteq Resources
             /\ held' \cap PartsOf(ControllerParts) = {}
  <2>1. /\ held' \cap PartsOf(FabricParts) = FirstParts(FabricParts, n + 1)
        /\ held' = held \cup {FabricParts[n + 1]} /\ FabricParts[n + 1] \in PartsOf(FabricParts)
    BY <1>2, <1>4, <1>len, TakesNext, Zenon
  <2> QED
    BY <1>1, <2>1, ObjectsAreDisjoint DEF Resources
<1>5. CASE n + 1 < 5 /\ TakePart(FabricParts) /\ UNCHANGED <<pc, ready>>
  <2>1. Partly(FabricParts)'
    BY <1>4, <1>5, PartsAreDistinct DEF Partly
  <2> QED
    BY <1>1, <1>4, <1>5, <2>1
<1>6. CASE /\ n + 1 = 5 /\ TakePart(FabricParts) /\ ready' = ready \cup {"fabric"}
           /\ pc' = IF cfg.mode = 2 THEN "controller" ELSE "arrays"
  <2>1. PartsOf(FabricParts) \subseteq held'
    <3>1. FirstParts(FabricParts, 5) = PartsOf(FabricParts)
      BY AllParts, PartsAreDistinct
    <3> QED
      BY <1>4, <1>6, <3>1
  <2>2. Partly(ControllerParts)'
    <3>1. FirstParts(ControllerParts, 0) = {} /\ 0 \in 0..1
      BY AllParts, PartsAreDistinct
    <3> QED
      BY <1>4, <1>6, <3>1, PartsAreDistinct DEF Partly
  <2> QED
    BY <1>1, <1>4, <1>6, <2>1, <2>2
<1>7. CASE UndoParts(FabricParts) /\ Cleanup /\ UNCHANGED ready
  BY <1>1, <1>7 DEF UndoParts
<1> QED
  BY <1>3, <1>5, <1>6, <1>7, PartsAreDistinct DEF InitFabric

LEMMA ControllerInitInv ==
  ASSUME SetupInv, InitController
  PROVE  SetupInv'
<1> USE DEF SetupInv, FabricHeld, ControllerHeld, WindowComputed, RestHeld, LatenciesHeld,
        ThreadsCounted, ParametersChecked, Without, Pcs, Early, Complete, Cleaning,
        inputs, Cleanup
<1>1. /\ pc = "controller"
      /\ UNCHANGED <<inputs, cfg, latencies, created_threads, misused>>
  BY DEF InitController
<1>2. PICK n \in 0..1 : held \cap PartsOf(ControllerParts) = FirstParts(ControllerParts, n)
  BY <1>1, PartsAreDistinct DEF Partly
<1>len. /\ n \in 0..Len(ControllerParts) /\ n \in 0..(Len(ControllerParts) - 1) /\ n + 1 \in Nat
        /\ Distinct(ControllerParts)
  BY PartsAreDistinct
<1>3. Progress(ControllerParts) = n
  BY <1>2, <1>len, FirstPartsSize, Zenon DEF Progress
<1>4. ASSUME TakePart(ControllerParts)
      PROVE  /\ held' \cap PartsOf(ControllerParts) = FirstParts(ControllerParts, n + 1)
             /\ held \subseteq held' /\ held' \subseteq Resources
  <2>1. /\ held' \cap PartsOf(ControllerParts) = FirstParts(ControllerParts, n + 1)
        /\ held' = held \cup {ControllerParts[n + 1]} /\ ControllerParts[n + 1] \in PartsOf(ControllerParts)
    BY <1>2, <1>4, <1>len, TakesNext, Zenon
  <2> QED
    BY <1>1, <2>1 DEF Resources
<1>5. CASE /\ WindowAccepted(Plus1(cfg.queue_depth)) /\ n = 0 /\ TakePart(ControllerParts)
           /\ UNCHANGED <<pc, ready, max_cwnd>>
  <2>1. Partly(ControllerParts)'
    BY <1>4, <1>5, PartsAreDistinct DEF Partly
  <2> QED
    BY <1>1, <1>4, <1>5, <2>1
<1>6. CASE /\ n = 1 /\ TakePart(ControllerParts) /\ max_cwnd' = Plus1(cfg.queue_depth)
           /\ ready' = ready \cup {"aimd"} /\ pc' = "arrays"
  <2>1. PartsOf(ControllerParts) \subseteq held'
    <3>1. FirstParts(ControllerParts, 2) = PartsOf(ControllerParts)
      BY AllParts, PartsAreDistinct
    <3> QED
      BY <1>4, <1>6, <3>1
  <2>2. WindowAccepted(Plus1(cfg.queue_depth))
    <3>1. Cardinality({}) # 1
      BY FS_EmptySet
    <3> QED
      BY <1>1, <1>3, <1>6, <3>1 DEF Progress
  <2>3. Plus1(cfg.queue_depth) = cfg.queue_depth + 1
    BY <1>1, <2>2, IntAssumption DEF Plus1, WindowAccepted, Numbers
  <2> QED
    BY <1>1, <1>4, <1>6, <2>1, <2>3
<1>7. CASE UndoParts(ControllerParts) /\ Cleanup /\ UNCHANGED <<ready, max_cwnd>>
  BY <1>1, <1>7, ObjectsAreDisjoint DEF UndoParts
<1> QED
  BY <1>1, <1>3, <1>5, <1>6, <1>7 DEF InitController

LEMMA ArraysInv ==
  ASSUME SetupInv, AllocArrays
  PROVE  SetupInv'
<1> USE DEF SetupInv, FabricHeld, ControllerHeld, WindowComputed, RestHeld, LatenciesHeld,
        ThreadsCounted, ParametersChecked, Without, Pcs, Early, Complete, Cleaning,
        inputs, Cleanup
<1>1. /\ pc = "arrays"
      /\ UNCHANGED <<inputs, cfg, latencies, max_cwnd, ready, created_threads, misused>>
  BY DEF AllocArrays
<1>2. PICK S \in SUBSET Arrays : /\ held' = held \cup S
                                 /\ IF AllChecked(S) THEN pc' = "latencies" ELSE Cleanup
  BY DEF AllocArrays
<1>3. /\ held' \cap PartsOf(FabricParts) = held \cap PartsOf(FabricParts)
      /\ held' \cap PartsOf(ControllerParts) = held \cap PartsOf(ControllerParts)
  BY <1>2, ObjectsAreDisjoint
<1>4. held' \subseteq Resources /\ (pc' = "latencies" => Arrays \subseteq held')
  BY <1>2 DEF AllChecked, Resources
<1>5. cfg.threads \in Nat
  BY <1>1, IntAssumption DEF Accepted
<1> QED
  BY <1>1, <1>2, <1>3, <1>4, <1>5

-----------------------------------------------------------------------------
(* The steps that release: whatever is destroyed was whole.                *)

LEMMA FabricDestroyInv ==
  ASSUME SetupInv, DestroyFabric
  PROVE  SetupInv'
<1> USE DEF SetupInv, FabricHeld, ControllerHeld, WindowComputed, RestHeld, LatenciesHeld,
        ThreadsCounted, ParametersChecked, Without, Pcs, Early, Complete, Cleaning, inputs
<1>1. /\ held' \cap PartsOf(FabricParts) = {} /\ held' \subseteq held /\ misused' = {}
      /\ held' \cap PartsOf(ControllerParts) = held \cap PartsOf(ControllerParts)
  BY ObjectsAreDisjoint DEF DestroyFabric, Destroy
<1> QED
  BY <1>1 DEF DestroyFabric

LEMMA ControllerDestroyInv ==
  ASSUME SetupInv, DestroyController
  PROVE  SetupInv'
<1> USE DEF SetupInv, FabricHeld, ControllerHeld, WindowComputed, RestHeld, LatenciesHeld,
        ThreadsCounted, ParametersChecked, Without, Pcs, Early, Complete, Cleaning, inputs
<1>1. held' \cap PartsOf(ControllerParts) = {} /\ held' \subseteq held /\ misused' = {}
  BY DEF DestroyController, Destroy
<1> QED
  BY <1>1 DEF DestroyController

LEMMA FreeInv ==
  ASSUME SetupInv, FreeRest
  PROVE  SetupInv'
<1> USE DEF SetupInv, FabricHeld, ControllerHeld, WindowComputed, RestHeld, LatenciesHeld,
        ThreadsCounted, ParametersChecked, Without, Pcs, Early, Complete, Cleaning, inputs
<1>1. held' = {}
  BY DEF FreeRest, WithoutRegion, Resources
<1> QED
  BY <1>1 DEF FreeRest

(* Wherever main is, what it holds is what the flags say it has to undo.   *)
THEOREM SetupInvariant == Spec => []SetupInv
<1>1. Init => SetupInv
  BY SetupInitInv
<1>2. SetupInv /\ [Next]_vars => SetupInv'
  <2> SUFFICES ASSUME SetupInv, [Next]_vars
               PROVE  SetupInv'
    OBVIOUS
  <2>1. CASE UNCHANGED vars
    BY <2>1 DEF vars, inputs, SetupInv, FabricHeld, ControllerHeld, WindowComputed, RestHeld,
       LatenciesHeld, ThreadsCounted, ParametersChecked, Without, Partly
  <2>2. CASE Next
    BY <2>1, <2>2, ParseInv, RegionInv, FabricInitInv, ControllerInitInv, ArraysInv,
       ThreadStepsInv, FabricDestroyInv, ControllerDestroyInv, FreeInv DEF Next
  <2> QED
    BY <2>1, <2>2
<1> QED
  BY <1>1, <1>2, PTL DEF Spec

(* Whichever of main's steps fails, it returns with everything released,   *)
(* and never destroys what is not there.                                   *)
THEOREM SetupReleasesAll == Spec => []ReleasedExactlyOnce
<1>1. SetupInv => ReleasedExactlyOnce
  BY DEF SetupInv, RestHeld, LatenciesHeld, ReleasedExactlyOnce
<1> QED
  BY <1>1, SetupInvariant, PTL

(* A worker thread exists only in a program that is completely set up and  *)
(* whose parameters have been checked.                                     *)
THEOREM SetupWorkersHaveAll == Spec => []WorkersHaveAll
<1>1. SetupInv => WorkersHaveAll
  <2> SUFFICES ASSUME SetupInv, created_threads > 0
               PROVE  WorkersHaveAll
    BY DEF SetupInv, ThreadsCounted, WorkersHaveAll
  <2>1. pc \in {"start", "running"}
    BY DEF SetupInv, ThreadsCounted
  <2>2. /\ {"region"} \cup PartsOf(FabricParts) \cup Arrays \subseteq held
        /\ cfg.mode = 2 => PartsOf(ControllerParts) \subseteq held
        /\ latencies = cfg.threads
    BY <2>1 DEF SetupInv, FabricHeld, ControllerHeld, RestHeld, LatenciesHeld, Complete
  <2>3. /\ cfg.queue_depth > 0 /\ cfg.device_workers > 0 /\ cfg.load \in 1..100
        /\ cfg.mem_node \in nodes /\ cfg.mem_mb > 0 /\ created_threads <= cfg.threads
    BY <2>1, IntAssumption DEF SetupInv, ThreadsCounted, ParametersChecked, Numbers, Accepted
  <2> QED
    BY <2>2, <2>3 DEF WorkersHaveAll
<1> QED
  BY <1>1, SetupInvariant, PTL

(* The controller's largest window is one more than the fabric's credits,  *)
(* for every queue_depth that the command line can give.                   *)
THEOREM SetupWindowFits == Spec => []OneProbeBeyondCredits
<1>1. SetupInv => OneProbeBeyondCredits
  BY DEF SetupInv, WindowComputed, OneProbeBeyondCredits
<1> QED
  BY <1>1, SetupInvariant, PTL
=============================================================================
