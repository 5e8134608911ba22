------------------------- MODULE FabricStartupProofs -------------------------
(***************************************************************************)
(* Proofs about the creation and the destruction of the device threads,    *)
(* for any number of them. That cxl_fabric_destroy returns is a liveness   *)
(* property and stays with TLC; the fact it rests on, that its broadcast   *)
(* leaves nobody asleep, is an invariant. In cxl_fabric_init, which does   *)
(* not take queue_lock, the same is false (see FabricStartupFails.cfg).    *)
(***************************************************************************)
EXTENDS FabricStartup, TLAPS

StartupTypeOK ==
  /\ created \in 0..DeviceWorkers
  /\ stop \in BOOLEAN
  /\ ipc \in {"creating", "ready", "init_stored", "init_joining", "failed",
              "destroy_stored", "destroy_joining", "destroyed"}
  /\ dpc \in [Devs -> {"unborn", "running", "tested", "asleep", "exited"}]

(* The threads that exist are the first ones, all of them after an init    *)
(* that has succeeded.                                                     *)
CreatedInv ==
  /\ \A i \in Devs : dpc[i] # "unborn" <=> i \in Created
  /\ ipc \in {"ready", "destroy_stored", "destroy_joining", "destroyed"} => created = DeviceWorkers

(* queue_lock has one holder, and a thread leaves its loop only when told. *)
LoopInv ==
  /\ \A i, j \in Devs : dpc[i] = "tested" /\ dpc[j] = "tested" => i = j
  /\ stop <=> ipc \notin {"creating", "ready"}
  /\ ~stop => \A i \in Devs : dpc[i] # "exited"

StartupInv ==
  /\ StartupTypeOK
  /\ CreatedInv
  /\ LoopInv
  /\ NobodySleepsAfterDestroy

LEMMA StartupInitInv ==
  ASSUME Init
  PROVE  StartupInv
<1>1. StartupTypeOK
  <2>1. created \in 0..DeviceWorkers
    BY WorkersAssumption DEF Init
  <2>2. dpc \in [Devs -> {"unborn", "running", "tested", "asleep", "exited"}]
    BY DEF Init
  <2> QED
    BY <2>1, <2>2 DEF Init, StartupTypeOK
<1>2. \A i \in Devs : dpc[i] = "unborn" /\ i \notin Created
  BY DEF Init, Created
<1> QED
  BY <1>1, <1>2 DEF Init, StartupInv, CreatedInv, LoopInv, NobodySleepsAfterDestroy

LEMMA CreationInv ==
  ASSUME StartupInv, InitStep
  PROVE  StartupInv'
<1> USE WorkersAssumption DEF StartupInv, StartupTypeOK, CreatedInv, LoopInv,
        NobodySleepsAfterDestroy, Devs, Created
<1>1. CASE CreateThread
  BY <1>1 DEF CreateThread
<1>2. CASE InitReturns
  BY <1>2 DEF InitReturns
<1>3. CASE CreateFails
  BY <1>3 DEF CreateFails
<1>4. CASE InitBroadcast
  BY <1>4 DEF InitBroadcast, Broadcast
<1>5. CASE InitFails
  BY <1>5 DEF InitFails, Joinable
<1> QED
  BY <1>1, <1>2, <1>3, <1>4, <1>5 DEF InitStep

LEMMA DestructionInv ==
  ASSUME StartupInv, DestroyStep
  PROVE  StartupInv'
<1> USE DEF StartupInv, StartupTypeOK, CreatedInv, LoopInv,
        NobodySleepsAfterDestroy, Devs, Created
<1>1. CASE DestroyStore
  BY <1>1 DEF DestroyStore
<1>2. CASE DestroyBroadcast
  BY <1>2 DEF DestroyBroadcast, Broadcast, QueueLockFree
<1>3. CASE DestroyEnds
  BY <1>3 DEF DestroyEnds, Joinable
<1> QED
  BY <1>1, <1>2, <1>3 DEF DestroyStep

(* What remains of a device thread can test and leave, whatever the rest   *)
(* of the program does.                                                    *)
LEMMA DeviceInv ==
  ASSUME StartupInv, NEW i \in Devs, DeviceStep(i) \/ DevSpurious(i)
  PROVE  StartupInv'
<1> USE DEF StartupInv, StartupTypeOK, CreatedInv, LoopInv,
        NobodySleepsAfterDestroy, Devs, Created
<1>1. CASE DevTest(i)
  BY <1>1 DEF DevTest, QueueLockFree
<1>2. CASE DevSleep(i)
  BY <1>2 DEF DevSleep
<1>3. CASE DevSpurious(i)
  BY <1>3 DEF DevSpurious
<1> QED
  BY <1>1, <1>2, <1>3 DEF DeviceStep

(* Where the device threads can be, from the first pthread_create to the   *)
(* last join.                                                              *)
THEOREM StartupInvariant == Spec => []StartupInv
<1>1. Init => StartupInv
  BY StartupInitInv
<1>2. StartupInv /\ [Next]_vars => StartupInv'
  <2> SUFFICES ASSUME StartupInv, [Next]_vars
               PROVE  StartupInv'
    OBVIOUS
  <2>1. CASE UNCHANGED vars
    BY <2>1 DEF vars, StartupInv, StartupTypeOK, CreatedInv, LoopInv,
       NobodySleepsAfterDestroy, Devs, Created
  <2>2. CASE Next
    BY <2>1, <2>2, CreationInv, DestructionInv, DeviceInv DEF Next, Terminated
  <2> QED
    BY <2>1, <2>2
<1> QED
  BY <1>1, <1>2, PTL DEF Spec

(* The broadcast of cxl_fabric_destroy is not lost on any of the device    *)
(* threads: it has woken those that slept, it was made when none stood     *)
(* between its test and its sleep, and those that test later find stop     *)
(* set.                                                                    *)
THEOREM StartupBroadcastReachesAll == Spec => []NobodySleepsAfterDestroy
<1>1. StartupInv => NobodySleepsAfterDestroy
  BY DEF StartupInv
<1> QED
  BY <1>1, StartupInvariant, PTL
=============================================================================
