------------------------- MODULE RandomWorkersProofs -------------------------
(***************************************************************************)
(* Proofs about the random policy, for any number of workers, device       *)
(* threads and credits: it keeps to the protocol of the fabric, so that    *)
(* all that is proved of CxlFabric holds of it, and its counters balance.  *)
(***************************************************************************)
EXTENDS RandomWorkers, CxlFabricProofs

LEMMA WorkerStepInv ==
  ASSUME OwnersInv, NEW w \in Workers, WorkerStep(w)
  PROVE  [FabricNext]_fabricVars /\ OwnersInv'
<1>1. CASE Loop(w) \/ AllocFails(w) \/ EnqueueAdmitted(w) \/ AwaitDone(w) \/ Reap(w)
  BY <1>1, OwnersSharedStep
<1>2. CASE Alloc(w) \/ AcquireCredit(w)
  <2> USE DEF Workers, Alloc, AcquireCredit, Create, TakeCredit, At, Goto
  <2>1. /\ UNCHANGED <<mainVars, life>> /\ wpc[w] \in {"alloc", "credit"}
        /\ wpc' = [wpc EXCEPT ![w] = IF wpc[w] = "alloc" THEN "credit" ELSE "enqueue"]
    BY <1>2
  <2>2. life = "up"
    BY <2>1, RunningUp DEF OwnersInv
  <2>3. [FabricNext]_fabricVars
    <3>1. Create(w) \/ TakeCredit(w)
      BY <1>2 DEF Alloc, AcquireCredit
    <3> QED
      BY <2>2, <3>1 DEF FabricNext, ClientStep
  <2>4. OwnerInv'
    <3> USE DEF OwnersInv, OwnerInv, Owns, OwnerPcs, FabricInv, TypeInv
    <3>1. CASE Alloc(w)
      BY <3>1
    <3>2. CASE AcquireCredit(w)
      BY <3>2
    <3> QED
      BY <1>2, <3>1, <3>2
  <2>5. \A v \in Workers \ {w} : wpc'[v] = wpc[v]
    BY <2>1 DEF OwnersInv, OwnerInv
  <2> QED
    BY <2>1, <2>3, <2>4, <2>5, OwnersWorkerStep
<1> QED
  BY <1>1, <1>2 DEF WorkerStep

LEMMA NextInv ==
  ASSUME OwnersInv, [Next]_vars
  PROVE  [FabricNext]_fabricVars /\ OwnersInv'
<1>1. CASE MainStep \/ TimeUp \/ SkipWakeAll
  BY <1>1, OwnersMainStep
<1>2. CASE \E w \in Workers : WorkerStep(w)
  BY <1>2, WorkerStepInv
<1>3. CASE (\E d \in Devices : DeviceThread(d)) \/ Wakeups
  BY <1>3, OwnersDeviceStep DEF DeviceThread, Wakeups
<1>4. CASE UNCHANGED vars
  <2>1. UNCHANGED fabricVars /\ UNCHANGED mainVars /\ UNCHANGED workerVars
    BY <1>4 DEF vars
  <2>2. FabricInv'
    BY <2>1, FabricStepInv DEF OwnersInv
  <2>3. MainInv' /\ OwnerInv'
    BY <2>1 DEF OwnersInv, MainInv, OwnerInv, Owns, fabricVars, mainVars, workerVars
  <2> QED
    BY <2>1, <2>2, <2>3 DEF OwnersInv
<1> QED
  BY <1>1, <1>2, <1>3, <1>4 DEF Next

(* The inductive invariant: where worker and request stand fit together,   *)
(* and every attempt is owed until its outcome is counted.                 *)
THEOREM RandomInvariant == Spec => []OwnersInv
<1>1. Init => OwnersInv
  BY OwnersInit DEF Init
<1>2. OwnersInv /\ [Next]_vars => OwnersInv'
  BY NextInv
<1> QED
  BY <1>1, <1>2, PTL DEF Spec

(* run_random uses the fabric as its API demands: a request is created,    *)
(* admitted, enqueued, awaited and destroyed in this order, and none is    *)
(* left when main calls cxl_fabric_destroy, whenever the stop comes.       *)
THEOREM RandomKeepsProtocol == Spec => FabricSpec
<1>1. Init => FabricInit
  BY DEF Init
<1>2. OwnersInv /\ [Next]_vars => [FabricNext]_fabricVars
  BY NextInv
<1> QED
  BY <1>1, <1>2, RandomInvariant, PTL DEF Spec, FabricSpec

(* So what is proved of the fabric holds of the program in mode random:    *)
(* no credit is lost, no request touched after its free, no completion     *)
(* missed, and no device thread sleeps beside a request it should serve.   *)
THEOREM RandomFabricSafe ==
  Spec => [](CreditConservation /\ NoUseAfterFree /\ NoLostCompletion /\ WorkConserving)
  BY RandomKeepsProtocol, CreditsConserved, NoAccessAfterFree, CompletionNotLost, NoIdleDevice, PTL

(* After the join every attempt of every worker has been counted as a      *)
(* success: the row's attempts are its success and its retry.              *)
THEOREM RandomAccounting == Spec => []AccountingBalanced
<1>1. OwnersInv => AccountingBalanced
  BY OwnerIdle, JoinedIdle DEF OwnersInv
<1> QED
  BY <1>1, RandomInvariant, PTL
=============================================================================
