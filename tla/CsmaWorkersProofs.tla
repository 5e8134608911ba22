-------------------------- MODULE CsmaWorkersProofs --------------------------
(***************************************************************************)
(* Proofs about the CSMA policy, for any number of workers, device threads *)
(* and credits: it keeps to the protocol of the fabric, its counters       *)
(* balance, and a congested request is retained until it is admitted or    *)
(* the experiment stops.                                                   *)
(***************************************************************************)
EXTENDS CsmaWorkers, CxlFabricProofs

(* The steps of run_csma that run_random does not have.                    *)
CsmaStep(w) == Alloc(w) \/ Attempt(w) \/ GiveUp(w) \/ Admitted(w) \/ Rejected(w)

LEMMA CsmaOwnerStep ==
  ASSUME OwnersInv, NEW w \in Workers, CsmaStep(w)
  PROVE  OwnerInv'
<1> USE DEF OwnersInv, OwnerInv, Owns, OwnerPcs, FabricInv, TypeInv, Workers, At, Goto
<1>1. CASE Alloc(w)
  BY <1>1 DEF Alloc, Create
<1>2. CASE Attempt(w)
  BY <1>2 DEF Attempt, fabricVars
<1>3. CASE GiveUp(w)
  BY <1>3 DEF GiveUp, Destroy
<1>4. CASE Admitted(w)
  BY <1>4 DEF Admitted, TakeCredit
<1>5. CASE Rejected(w)
  BY <1>5 DEF Rejected, fabricVars
<1> QED
  BY <1>1, <1>2, <1>3, <1>4, <1>5 DEF CsmaStep

LEMMA WorkerStepInv ==
  ASSUME OwnersInv, NEW w \in Workers, WorkerStep(w)
  PROVE  [FabricNext]_fabricVars /\ OwnersInv'
<1>1. CASE Loop(w) \/ AllocFails(w) \/ EnqueueAdmitted(w) \/ AwaitDone(w) \/ Reap(w)
  BY <1>1, OwnersSharedStep
<1>2. CASE CsmaStep(w)
  <2> USE DEF CsmaStep, Alloc, Attempt, GiveUp, Admitted, Rejected, Workers
  <2>1. /\ UNCHANGED <<mainVars, life>> /\ wpc[w] \notin {"unborn", "exited"}
        /\ \A v \in Workers \ {w} : wpc'[v] = wpc[v]
    BY <1>2 DEF Create, TakeCredit, Destroy, fabricVars, At, Goto, OwnersInv, OwnerInv
  <2>2. [FabricNext]_fabricVars
    <3>1. life = "up"
      BY <2>1, RunningUp DEF OwnersInv
    <3>2. Create(w) \/ Destroy(w) \/ TakeCredit(w) \/ UNCHANGED fabricVars
      BY <1>2
    <3> QED
      BY <3>1, <3>2 DEF FabricNext, ClientStep
  <2> HIDE DEF CsmaStep
  <2>3. OwnerInv'
    BY <1>2, CsmaOwnerStep
  <2> QED
    BY <2>1, <2>2, <2>3, OwnersWorkerStep
<1> QED
  BY <1>1, <1>2 DEF WorkerStep, CsmaStep

LEMMA NextInv ==
  ASSUME OwnersInv, [Next]_vars
  PROVE  [FabricNext]_fabricVars /\ OwnersInv'
<1>1. CASE MainStep \/ TimeUp \/ SkipWakeAll
  BY <1>1, OwnersMainStep
<1>2. CASE \E w \in Workers : WorkerStep(w)
  BY <1>2, WorkerStepInv
<1>3. CASE (\E d \in Devices : DeviceThread(d)) \/ Wakeups
  BY <1>3, OwnersDeviceStep DEF DeviceThread, Wakeups
<1>4. CASE UNCHANGED vars
  <2>1. UNCHANGED fabricVars /\ UNCHANGED mainVars /\ UNCHANGED workerVars
    BY <1>4 DEF vars
  <2>2. FabricInv'
    BY <2>1, FabricStepInv DEF OwnersInv
  <2>3. MainInv' /\ OwnerInv'
    BY <2>1 DEF OwnersInv, MainInv, OwnerInv, Owns, fabricVars, mainVars, workerVars
  <2> QED
    BY <2>1, <2>2, <2>3 DEF OwnersInv
<1> QED
  BY <1>1, <1>2, <1>3, <1>4 DEF Next

(* The inductive invariant: where worker and request stand fit together,   *)
(* and every attempt is owed until its outcome is counted.                 *)
THEOREM CsmaInvariant == Spec => []OwnersInv
<1>1. Init => OwnersInv
  BY OwnersInit DEF Init
<1>2. OwnersInv /\ [Next]_vars => OwnersInv'
  BY NextInv
<1> QED
  BY <1>1, <1>2, PTL DEF Spec

(* run_csma uses the fabric as its API demands: a request retained through *)
(* any number of rejections is enqueued once, awaited and destroyed once,  *)
(* and none is left when main calls cxl_fabric_destroy.                    *)
THEOREM CsmaKeepsProtocol == Spec => FabricSpec
<1>1. Init => FabricInit
  BY DEF Init
<1>2. OwnersInv /\ [Next]_vars => [FabricNext]_fabricVars
  BY NextInv
<1> QED
  BY <1>1, <1>2, CsmaInvariant, PTL DEF Spec, FabricSpec

(* So what is proved of the fabric holds of the program in mode csma: no   *)
(* credit is lost to a rejected attempt, no request touched after its free *)
(* by a worker that gives up, no completion or wake-up missed.             *)
THEOREM CsmaFabricSafe ==
  Spec => [](CreditConservation /\ NoUseAfterFree /\ NoLostCompletion /\ WorkConserving)
  BY CsmaKeepsProtocol, CreditsConserved, NoAccessAfterFree, CompletionNotLost, NoIdleDevice, PTL

(* After the join every attempt has been counted as a success or a retry,  *)
(* also of a worker that saw the stop between two attempts.                *)
THEOREM CsmaAccounting == Spec => []AccountingBalanced
<1>1. OwnersInv => AccountingBalanced
  BY OwnerIdle, JoinedIdle DEF OwnersInv
<1> QED
  BY <1>1, CsmaInvariant, PTL

(* run_csma discards no congested request: one that was never admitted is  *)
(* freed only after the stop flag has been set.                            *)
THEOREM CsmaRetainsRequests == Spec => NoSilentDiscard
<1> DEFINE Kept == \A w \in Workers : stage[w] = "held" /\ stage'[w] = "free" => stop_flag
<1>1. ASSUME OwnersInv, [Next]_vars
      PROVE  Kept
  <2> USE DEF Workers
  <2>1. CASE MainStep \/ TimeUp \/ SkipWakeAll
    BY <2>1 DEF MainStep, TimeUp, SkipWakeAll, StartWorker, StartDone, StartFails, JoinWorkers,
                DestroyFabric, StopStore, StopBroadcast, StopJoin, fabricVars
  <2>2. ASSUME NEW w \in Workers, WorkerStep(w)
        PROVE  Kept
    <3>1. CASE GiveUp(w)
      BY <3>1 DEF GiveUp, Destroy, OwnersInv, FabricInv, TypeInv
    <3>2. CASE Reap(w)
      BY <1>1, <3>2 DEF Reap, Destroy, At, OwnersInv, OwnerInv, Owns, FabricInv, TypeInv
    <3>3. CASE Alloc(w) \/ Admitted(w) \/ AwaitDone(w) \/ EnqueueAdmitted(w)
      BY <1>1, <3>3 DEF Alloc, Admitted, AwaitDone, EnqueueAdmitted, Create, TakeCredit, WaitSleep,
                   WaitReturn, Enqueue, OwnersInv, FabricInv, TypeInv
    <3>4. CASE Loop(w) \/ AllocFails(w) \/ Attempt(w) \/ Rejected(w)
      BY <3>4 DEF Loop, AllocFails, Attempt, Rejected, fabricVars
    <3> QED
      BY <2>2, <3>1, <3>2, <3>3, <3>4 DEF WorkerStep
  <2>3. CASE (\E d \in Devices : DeviceThread(d)) \/ Wakeups
    BY <1>1, <2>3, DeviceWakesOnly DEF DeviceThread, Wakeups, WakesOnly, OwnersInv, FabricInv
  <2>4. CASE UNCHANGED vars
    BY <2>4 DEF vars, fabricVars
  <2> QED
    BY <1>1, <2>1, <2>2, <2>3, <2>4 DEF Next
<1>2. OwnersInv /\ [Next]_vars => [Kept]_vars
  BY <1>1
<1> QED
  BY <1>2, CsmaInvariant, PTL DEF Spec, NoSilentDiscard
=============================================================================
