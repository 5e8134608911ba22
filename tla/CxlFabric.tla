------------------------------ MODULE CxlFabric ------------------------------
(***************************************************************************)
(* src/cxl_fabric.c: the CXL switch and Type-3 request queue, its credits, *)
(* its device service threads and the completion hand-shake with the owner *)
(* of a request.                                                           *)
(*                                                                         *)
(* An action is one critical section, or one step between two of them.     *)
(* queue_lock is only ever taken for straight-line code, so a step that    *)
(* takes it is atomic. A request's own lock is held across several steps   *)
(* of complete_request and is therefore modelled (ReqLocked). A thread     *)
(* blocked in pthread_cond_wait is "asleep" until a signal, a broadcast or *)
(* a spurious wake-up makes it compete for the lock and test its condition *)
(* again.                                                                  *)
(*                                                                         *)
(* The operations on a request are used by the policies (RandomWorkers,    *)
(* CsmaWorkers, AimdWorkers). Here they are driven by any client that      *)
(* keeps to the order of the API (ClientStep).                             *)
(***************************************************************************)
EXTENDS Naturals, Sequences, FiniteSets

CONSTANTS Requests,    \* slots for cxl_request_t objects
          Devices,     \* the device service threads
          QueueDepth,  \* cfg->queue_depth
          NoReq        \* the NULL request

ASSUME DepthAssumption == QueueDepth \in Nat \ {0}
ASSUME ThreadsAssumption == /\ IsFiniteSet(Requests) /\ NoReq \notin Requests
                            /\ IsFiniteSet(Devices) /\ Devices # {}

VARIABLES
  credits,   \* the value of the semaphore fabric->credits
  queue,     \* the list from fabric->head to fabric->tail
  stage,     \* stage[r]: what the owner of r has done with it
  done,      \* the requests whose done field is 1
  dpc,       \* dpc[d]: where device thread d stands in device_worker_main
  serving,   \* serving[d]: the local variable req of device thread d
  life       \* how far cxl_fabric_destroy has come; stop is set unless "up"

fabricVars == <<credits, queue, stage, done, dpc, serving, life>>

Stages == {"free", "held", "admitted", "submitted", "asleep", "finished"}
DevPcs == {"idle", "asleep", "serving", "locked", "posted", "exited"}
Lives  == {"up", "stopped", "joining", "destroyed"}

FabricTypeOK ==
  /\ credits \in 0..QueueDepth
  /\ queue \in Seq(Requests)
  /\ stage \in [Requests -> Stages]
  /\ done \subseteq Requests
  /\ dpc \in [Devices -> DevPcs]
  /\ serving \in [Devices -> Requests \cup {NoReq}]
  /\ life \in Lives

FabricInit ==
  /\ credits = QueueDepth
  /\ queue = <<>>
  /\ stage = [r \in Requests |-> "free"]
  /\ done = {}
  /\ dpc = [d \in Devices |-> "idle"]
  /\ serving = [d \in Devices |-> NoReq]
  /\ life = "up"

Sleepers == {d \in Devices : dpc[d] = "asleep"}
Awake    == {d \in Devices : dpc[d] = "idle"}

(* Fault: complete_request without req->lock.                              *)
ReqNeverLocked(r) == FALSE

(* complete_request holds req->lock from setting done to signalling it.    *)
ReqLocked(r) == \E d \in Devices : serving[d] = r /\ dpc[d] \in {"locked", "posted"}

-----------------------------------------------------------------------------
(* The operations an owner performs on its request.                        *)

(* cxl_request_create succeeds: calloc leaves done = 0.                    *)
Create(r) ==
  /\ stage[r] = "free"
  /\ stage' = [stage EXCEPT ![r] = "held"]
  /\ done' = done \ {r}
  /\ UNCHANGED <<credits, queue, dpc, serving, life>>

(* Fault: a request is admitted whatever the semaphore says.               *)
TakeCreditUnchecked(r) ==
  /\ stage[r] = "held"
  /\ credits' = IF credits > 0 THEN credits - 1 ELSE 0
  /\ stage' = [stage EXCEPT ![r] = "admitted"]
  /\ UNCHANGED <<queue, done, dpc, serving, life>>

(* sem_wait, or sem_trywait with a credit available, takes one credit.     *)
TakeCredit(r) ==
  /\ stage[r] = "held"
  /\ credits > 0
  /\ credits' = credits - 1
  /\ stage' = [stage EXCEPT ![r] = "admitted"]
  /\ UNCHANGED <<queue, done, dpc, serving, life>>

(* Fault: the signal is sent only when the queue was empty before.         *)
SignalIfWasEmpty ==
  IF Sleepers = {} \/ queue # <<>> THEN UNCHANGED dpc
  ELSE \E d \in Sleepers : dpc' = [dpc EXCEPT ![d] = "idle"]

(* pthread_cond_signal(&queue_not_empty) unblocks a sleeping device thread *)
(* if there is one.                                                        *)
SignalNotEmpty ==
  IF Sleepers = {} THEN UNCHANGED dpc
  ELSE \E d \in Sleepers : dpc' = [dpc EXCEPT ![d] = "idle"]

(* enqueue_request: append at the tail and signal, under queue_lock.       *)
Enqueue(r) ==
  /\ stage[r] = "admitted"
  /\ queue' = Append(queue, r)
  /\ stage' = [stage EXCEPT ![r] = "submitted"]
  /\ SignalNotEmpty
  /\ UNCHANGED <<credits, done, serving, life>>

(* Fault: cxl_request_wait sleeps without testing done.                    *)
WaitSleepUntested(r) ==
  /\ stage[r] = "submitted" /\ ~ReqLocked(r)
  /\ stage' = [stage EXCEPT ![r] = "asleep"]
  /\ UNCHANGED <<credits, queue, done, dpc, serving, life>>

(* cxl_request_wait finds done = 0 and sleeps on done_cond.                *)
WaitSleep(r) ==
  /\ stage[r] = "submitted" /\ ~ReqLocked(r)
  /\ r \notin done
  /\ stage' = [stage EXCEPT ![r] = "asleep"]
  /\ UNCHANGED <<credits, queue, done, dpc, serving, life>>

(* cxl_request_wait finds done = 1 and returns the latency.                *)
WaitReturn(r) ==
  /\ stage[r] = "submitted" /\ ~ReqLocked(r)
  /\ r \in done
  /\ stage' = [stage EXCEPT ![r] = "finished"]
  /\ UNCHANGED <<credits, queue, done, dpc, serving, life>>

(* A spurious return from pthread_cond_wait: the loop tests done again.    *)
WaitSpurious(r) ==
  /\ stage[r] = "asleep"
  /\ stage' = [stage EXCEPT ![r] = "submitted"]
  /\ UNCHANGED <<credits, queue, done, dpc, serving, life>>

(* cxl_request_destroy, by the owner of a finished or never admitted       *)
(* request. The memory is gone, and its done field with it.                *)
Destroy(r) ==
  /\ stage[r] \in {"held", "finished"}
  /\ stage' = [stage EXCEPT ![r] = "free"]
  /\ done' = done \ {r}
  /\ UNCHANGED <<credits, queue, dpc, serving, life>>

-----------------------------------------------------------------------------
(* device_worker_main.                                                     *)

(* No request and no stop: pthread_cond_wait(&queue_not_empty).            *)
DevSleep(d) ==
  /\ dpc[d] = "idle"
  /\ queue = <<>> /\ life = "up"
  /\ dpc' = [dpc EXCEPT ![d] = "asleep"]
  /\ UNCHANGED <<credits, queue, stage, done, serving, life>>

DevSpurious(d) ==
  /\ dpc[d] = "asleep"
  /\ dpc' = [dpc EXCEPT ![d] = "idle"]
  /\ UNCHANGED <<credits, queue, stage, done, serving, life>>

(* dequeue_request returns the head; a stop request does not prevent it.   *)
DevDequeue(d) ==
  /\ dpc[d] = "idle"
  /\ queue # <<>>
  /\ serving' = [serving EXCEPT ![d] = Head(queue)]
  /\ queue' = Tail(queue)
  /\ dpc' = [dpc EXCEPT ![d] = "serving"]
  /\ UNCHANGED <<credits, stage, done, life>>

(* Stop was requested and the queue is empty.                              *)
DevExit(d) ==
  /\ dpc[d] = "idle"
  /\ queue = <<>> /\ life # "up"
  /\ dpc' = [dpc EXCEPT ![d] = "exited"]
  /\ UNCHANGED <<credits, queue, stage, done, serving, life>>

(* The backend accesses are over: complete_request locks the request and   *)
(* sets done.                                                              *)
DevComplete(d) ==
  /\ dpc[d] = "serving" /\ ~ReqLocked(serving[d])
  /\ done' = done \cup {serving[d]}
  /\ dpc' = [dpc EXCEPT ![d] = "locked"]
  /\ UNCHANGED <<credits, queue, stage, serving, life>>

(* Faults: the credit is not given back; it is given back twice.           *)
DevPostForgotten(d) ==
  /\ dpc[d] = "locked"
  /\ dpc' = [dpc EXCEPT ![d] = "posted"]
  /\ UNCHANGED <<credits, queue, stage, done, serving, life>>

DevPostTwice(d) ==
  /\ dpc[d] = "locked"
  /\ credits' = credits + 2
  /\ dpc' = [dpc EXCEPT ![d] = "posted"]
  /\ UNCHANGED <<queue, stage, done, serving, life>>

(* sem_post(&fabric->credits).                                             *)
DevPost(d) ==
  /\ dpc[d] = "locked"
  /\ credits' = credits + 1
  /\ dpc' = [dpc EXCEPT ![d] = "posted"]
  /\ UNCHANGED <<queue, stage, done, serving, life>>

(* pthread_cond_signal(&req->done_cond) and pthread_mutex_unlock: the last *)
(* access of the thread to the request.                                    *)
DevSignal(d) ==
  /\ dpc[d] = "posted"
  /\ stage' = [r \in Requests |-> IF r = serving[d] /\ stage[r] = "asleep"
                                  THEN "submitted" ELSE stage[r]]
  /\ serving' = [serving EXCEPT ![d] = NoReq]
  /\ dpc' = [dpc EXCEPT ![d] = "idle"]
  /\ UNCHANGED <<credits, queue, done, life>>

-----------------------------------------------------------------------------
(* cxl_fabric_destroy: the store of stop, the broadcast under queue_lock,  *)
(* the joins. main calls it once the policies have freed every request.    *)

StopStore ==
  /\ life = "up"
  /\ life' = "stopped"
  /\ UNCHANGED <<credits, queue, stage, done, dpc, serving>>

(* Fault: pthread_cond_signal in place of the broadcast.                   *)
StopSignal ==
  /\ life = "stopped"
  /\ life' = "joining"
  /\ SignalNotEmpty
  /\ UNCHANGED <<credits, queue, stage, done, serving>>

StopBroadcast ==
  /\ life = "stopped"
  /\ life' = "joining"
  /\ dpc' = [d \in Devices |-> IF dpc[d] = "asleep" THEN "idle" ELSE dpc[d]]
  /\ UNCHANGED <<credits, queue, stage, done, serving>>

StopJoin ==
  /\ life = "joining"
  /\ \A d \in Devices : dpc[d] = "exited"
  /\ life' = "destroyed"
  /\ UNCHANGED <<credits, queue, stage, done, dpc, serving>>

-----------------------------------------------------------------------------
AllFree == \A r \in Requests : stage[r] = "free"

ClientStep(r) ==
  \/ life = "up" /\ Create(r)
  \/ TakeCredit(r)
  \/ Enqueue(r)
  \/ WaitSleep(r)
  \/ WaitReturn(r)
  \/ Destroy(r)

DeviceStep(d) ==
  \/ DevSleep(d)
  \/ DevDequeue(d)
  \/ DevExit(d)
  \/ DevComplete(d)
  \/ DevPost(d)
  \/ DevSignal(d)

StopStep ==
  \/ AllFree /\ StopStore
  \/ StopBroadcast
  \/ StopJoin

Spurious == (\E r \in Requests : WaitSpurious(r)) \/ (\E d \in Devices : DevSpurious(d))

Terminated == life = "destroyed" /\ UNCHANGED fabricVars

FabricNext ==
  \/ \E r \in Requests : ClientStep(r)
  \/ \E d \in Devices : DeviceStep(d)
  \/ StopStep
  \/ Spurious
  \/ Terminated

FabricSpec == FabricInit /\ [][FabricNext]_fabricVars

(* Threads that can run are run: a device thread, an owner that has been   *)
(* given a credit or waits for its completion, and the thread in           *)
(* cxl_fabric_destroy. Creating a request, getting a credit and freeing    *)
(* the request are the client's choice; spurious wake-ups never have to    *)
(* happen.                                                                 *)
FabricFairness ==
  /\ \A d \in Devices : WF_fabricVars(DeviceStep(d))
  /\ \A r \in Requests : WF_fabricVars(Enqueue(r) \/ WaitSleep(r) \/ WaitReturn(r))
  /\ WF_fabricVars(StopBroadcast \/ StopJoin)

FabricFairSpec == FabricSpec /\ FabricFairness

-----------------------------------------------------------------------------
(* Properties.                                                             *)

(* From the grant of the credit until sem_post.                            *)
HoldsCredit(r) ==
  \/ stage[r] = "admitted"
  \/ /\ stage[r] \in {"submitted", "asleep"}
     /\ r \in done => \E d \in Devices : serving[d] = r /\ dpc[d] = "locked"

Holders == {r \in Requests : HoldsCredit(r)}

(* "A request occupies one credit from submission until completion": no    *)
(* interleaving of admissions and completions loses or duplicates one.     *)
CreditConservation == credits + Cardinality(Holders) = QueueDepth

(* The fabric can still reach a request.                                   *)
InFabric(r) == \/ \E i \in 1..Len(queue) : queue[i] = r
               \/ \E d \in Devices : serving[d] = r

(* A request the queue or a device thread can still touch has not been     *)
(* returned to its owner, let alone freed: the owner's read of done and    *)
(* its cxl_request_destroy cannot overtake the tail of complete_request.   *)
NoUseAfterFree == \A r \in Requests : InFabric(r) => stage[r] \in {"submitted", "asleep"}

(* An owner asleep on done_cond after done was set still has its signal    *)
(* coming: the wake-up cannot fall between its test and its sleep.         *)
NoLostCompletion ==
  \A r \in Requests : stage[r] = "asleep" /\ r \in done => \E d \in Devices : serving[d] = r

(* While a device thread sleeps, every queued request has an awake thread  *)
(* about to look at the queue: one signal per request is enough even when  *)
(* a busy thread takes the request the signal was meant for.               *)
WorkConserving == Sleepers # {} => Len(queue) <= Cardinality(Awake)

(* Every submitted request is served and its owner woken, however the      *)
(* other requests keep coming.                                             *)
EveryRequestFinishes ==
  \A r \in Requests : stage[r] = "submitted" ~> stage[r] = "finished"

(* cxl_fabric_destroy returns: no device thread sleeps through the stop.   *)
DestroyReturns == life = "stopped" ~> life = "destroyed"

PhaseOf(r) ==
  IF HoldsCredit(r) THEN "inflight"
  ELSE IF stage[r] \in {"submitted", "asleep", "finished"} THEN "complete" ELSE "idle"

(* The fabric implements the credit pool, its fairness included.           *)
Pool == INSTANCE CreditPool WITH phase <- [r \in Requests |-> PhaseOf(r)]
ImplementsPool == Pool!PoolSpec
=============================================================================
