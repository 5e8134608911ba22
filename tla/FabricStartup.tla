---------------------------- MODULE FabricStartup ----------------------------
(***************************************************************************)
(* cxl_fabric_init and cxl_fabric_destroy of src/cxl_fabric.c against the  *)
(* device threads, from the first pthread_create to the last join, with no *)
(* request in the queue: none is submitted before cxl_fabric_init returns, *)
(* and main frees them all before it calls cxl_fabric_destroy.             *)
(*                                                                         *)
(* Unlike CxlFabric, queue_lock has a holder here. A device thread holds   *)
(* it between the test of its loop condition and its sleep, which matters  *)
(* when the broadcast does not take it.                                    *)
(***************************************************************************)
EXTENDS Naturals

CONSTANT DeviceWorkers   \* cfg->device_workers

ASSUME WorkersAssumption == DeviceWorkers \in Nat \ {0}

VARIABLES
  created,   \* how many device threads pthread_create has started
  stop,      \* fabric->stop
  ipc,       \* where the thread in cxl_fabric_init / _destroy stands
  dpc        \* dpc[i]: where device thread i stands in its loop

vars == <<created, stop, ipc, dpc>>

Devs    == 1..DeviceWorkers
Created == 1..created

Init ==
  /\ created = 0
  /\ stop = FALSE
  /\ ipc = "creating"
  /\ dpc = [i \in Devs |-> "unborn"]

QueueLockFree == \A i \in Devs : dpc[i] # "tested"

(* pthread_cond_broadcast(&queue_not_empty) reaches the threads that are   *)
(* in pthread_cond_wait at that moment.                                    *)
Broadcast == dpc' = [i \in Devs |-> IF dpc[i] = "asleep" THEN "running" ELSE dpc[i]]

Joinable == \A i \in Created : dpc[i] = "exited"

-----------------------------------------------------------------------------
(* cxl_fabric_init                                                         *)

CreateThread ==
  /\ ipc = "creating" /\ created < DeviceWorkers
  /\ created' = created + 1
  /\ dpc' = [dpc EXCEPT ![created + 1] = "running"]
  /\ UNCHANGED <<stop, ipc>>

InitReturns ==
  /\ ipc = "creating" /\ created = DeviceWorkers
  /\ ipc' = "ready"
  /\ UNCHANGED <<created, stop, dpc>>

(* pthread_create fails: stop is set ...                                   *)
CreateFails ==
  /\ ipc = "creating" /\ created < DeviceWorkers
  /\ stop' = TRUE
  /\ ipc' = "init_stored"
  /\ UNCHANGED <<created, dpc>>

(* ... the broadcast is made without queue_lock ...                        *)
InitBroadcast ==
  /\ ipc = "init_stored"
  /\ Broadcast
  /\ ipc' = "init_joining"
  /\ UNCHANGED <<created, stop>>

(* ... and the threads created so far are joined.                          *)
InitFails ==
  /\ ipc = "init_joining" /\ Joinable
  /\ ipc' = "failed"
  /\ UNCHANGED <<created, stop, dpc>>

-----------------------------------------------------------------------------
(* cxl_fabric_destroy                                                      *)

DestroyStore ==
  /\ ipc = "ready"
  /\ stop' = TRUE
  /\ ipc' = "destroy_stored"
  /\ UNCHANGED <<created, dpc>>

(* Fault: the broadcast without queue_lock, as in cxl_fabric_init.         *)
DestroyBroadcastUnlocked ==
  /\ ipc = "destroy_stored"
  /\ Broadcast
  /\ ipc' = "destroy_joining"
  /\ UNCHANGED <<created, stop>>

DestroyBroadcast ==
  /\ ipc = "destroy_stored" /\ QueueLockFree
  /\ Broadcast
  /\ ipc' = "destroy_joining"
  /\ UNCHANGED <<created, stop>>

DestroyEnds ==
  /\ ipc = "destroy_joining" /\ Joinable
  /\ ipc' = "destroyed"
  /\ UNCHANGED <<created, stop, dpc>>

-----------------------------------------------------------------------------
(* device_worker_main with an empty queue                                  *)

(* queue_lock is taken and the loop condition tested: with stop set the    *)
(* thread finds no request and leaves, otherwise it is about to sleep.     *)
DevTest(i) ==
  /\ dpc[i] = "running" /\ QueueLockFree
  /\ dpc' = [dpc EXCEPT ![i] = IF stop THEN "exited" ELSE "tested"]
  /\ UNCHANGED <<created, stop, ipc>>

(* pthread_cond_wait: the thread joins the waiters and releases the lock.  *)
DevSleep(i) ==
  /\ dpc[i] = "tested"
  /\ dpc' = [dpc EXCEPT ![i] = "asleep"]
  /\ UNCHANGED <<created, stop, ipc>>

DevSpurious(i) ==
  /\ dpc[i] = "asleep"
  /\ dpc' = [dpc EXCEPT ![i] = "running"]
  /\ UNCHANGED <<created, stop, ipc>>

DeviceStep(i) == DevTest(i) \/ DevSleep(i)

InitStep    == CreateThread \/ InitReturns \/ CreateFails \/ InitBroadcast \/ InitFails
DestroyStep == DestroyStore \/ DestroyBroadcast \/ DestroyEnds

Terminated == ipc \in {"failed", "destroyed"} /\ UNCHANGED vars

Next ==
  \/ InitStep
  \/ DestroyStep
  \/ \E i \in Devs : DeviceStep(i) \/ DevSpurious(i)
  \/ Terminated

Spec == Init /\ [][Next]_vars

(* Every thread that can run is run. That is enough to get queue_lock too: *)
(* once stop is set no thread takes the lock to sleep again. A spurious    *)
(* wake-up is never owed to anyone.                                        *)
FairSpec ==
  /\ Spec
  /\ WF_vars(InitStep) /\ WF_vars(DestroyStep)
  /\ \A i \in Devs : WF_vars(DeviceStep(i))

-----------------------------------------------------------------------------
(* Properties.                                                             *)

(* cxl_fabric_destroy returns: the broadcast under queue_lock cannot fall  *)
(* between a thread's test of stop and its sleep.                          *)
DestroyReturns == ipc = "destroy_stored" ~> ipc = "destroyed"

(* The broadcast reaches every thread: a thread that found stop unset     *)
(* either sleeps already when the broadcast is made or is awake and tests  *)
(* stop again, so nobody is about to sleep, or asleep, when destroy joins. *)
NobodySleepsAfterDestroy ==
  ipc \in {"destroy_joining", "destroyed"} => \A i \in Devs : dpc[i] \notin {"tested", "asleep"}

(* main.c reports a fabric that cannot be initialised and cleans up, so    *)
(* cxl_fabric_init has to return when a pthread_create fails.              *)
InitFailureReturns == ipc = "init_stored" ~> ipc = "failed"
=============================================================================
