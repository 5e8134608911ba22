-------------------------- MODULE AimdWorkersProofs --------------------------
(***************************************************************************)
(* Proofs about the AIMD policy and its controller, for any number of      *)
(* workers, device threads and credits. AimdInv is the inductive           *)
(* invariant. Most of it says what the holder of controller->lock is in    *)
(* the middle of, and so what the next thread to take the lock may rely on.*)
(*                                                                         *)
(* The second part is about the controller's clock (ControllerTime), for   *)
(* any bound on it: TimedInv adds to AimdInv how far the integrals can be  *)
(* from the exact ones, and what is made of them after the join.           *)
(***************************************************************************)
EXTENDS ControllerTime, CxlFabricProofs

(* What a worker owns, and whether it owes the outcome of an attempt. A    *)
(* device thread may complete a request before its owner has counted the   *)
(* attempt, but not before the controller has.                             *)
WorkerInv ==
  /\ wpc \in [Workers -> WorkerPcs]
  /\ due \in [Workers -> 0..1]
  /\ \A w \in Workers :
       /\ wpc[w] \in {"unborn", "alloc", "exited"} => Owns(w, {"free"}, 0)
       /\ wpc[w] \in {"lock", "full", "blocked", "woken", "admit"} => Owns(w, {"held"}, 0)
       /\ wpc[w] = "enqueue" => Owns(w, {"admitted"}, 0)
       /\ wpc[w] = "account" => Owns(w, {"submitted"}, 0)
       /\ wpc[w] = "check"   => Owns(w, {"submitted"}, 1)
       /\ wpc[w] = "wait"    => Owns(w, {"submitted", "asleep"}, 1)
       /\ wpc[w] \in {"reap", "reaped"} => Owns(w, {"finished"}, 1)
       /\ wpc[w] = "loop" => Owns(w, {"free", "held"}, 0) \/ Owns(w, {"submitted"}, 1)

(* Who holds the lock and where, with the reservation it has made.         *)
Inside == {"full", "admit", "enqueue", "account"}

LockInv ==
  /\ lock \in Workers \cup Devices \cup {NoReq}
  /\ \A w \in Workers : lock = w <=> wpc[w] \in Inside
  /\ lock \in Devices => dpc[lock] \in {"locked", "posted"}
  /\ reservations = IF \E w \in Workers : lock = w /\ wpc[w] # "full" THEN 1 ELSE 0

(* The two accounts of the credits differ only while the lock is held: by  *)
(* the credit a worker has taken and not yet counted, or a device thread   *)
(* has given back and not yet discounted.                                  *)
Taken    == \E w \in Workers : lock = w /\ wpc[w] \in {"enqueue", "account"}
Returned == \E d \in Devices : lock = d /\ dpc[d] = "posted"

AccountsInv ==
  /\ inflight \in 0..QueueDepth
  /\ max_inflight \in 0..QueueDepth
  /\ credits + inflight = QueueDepth + (IF Returned THEN 1 ELSE 0) - (IF Taken THEN 1 ELSE 0)

(* The window, and the hold-off against the history of completions.        *)
WindowInv ==
  /\ cwnd \in 1..MaxCwnd
  /\ acks \in 0..(cwnd - 1)
  /\ holdoff \in 0..MaxCwnd
  /\ since \in 0..MaxCwnd
  /\ holdoff + since >= MaxCwnd

(* How far the completions since the last cut have brought the window: a   *)
(* window of c has taken 1 + ... + (c - 1) of them to reach, and acks more *)
(* are counted. (Doubled, so that nothing is divided.)                     *)
ClimbInv ==
  /\ climb \in 0..WindowClimb
  /\ cwnd < MaxCwnd => 2 * climb <= cwnd * (cwnd - 1) + 2 * acks

(* The worker that holds the lock still finds the window as it tested it.  *)
TestedInv ==
  \A w \in Workers :
    /\ wpc[w] = "full"  => inflight >= cwnd
    /\ wpc[w] = "admit" => inflight < cwnd

(* After wake_all nobody is about to block either.                         *)
AwakeInv ==
  mpc \notin {"starting", "sleeping", "stopping"} =>
    \A w \in Workers : wpc[w] \notin {"blocked"} \cup Inside

AimdInv ==
  /\ FabricInv /\ MainInv
  /\ WorkerInv /\ LockInv /\ AccountsInv /\ WindowInv /\ ClimbInv /\ TestedInv
  /\ WaitersCounted /\ NoIdleSlot /\ AwakeInv
-----------------------------------------------------------------------------
(* The steps, as the proofs tell them apart.                               *)

(* Steps of a worker that do not touch the controller.                     *)
OutsideStep(w) ==
  \/ AimdLoop(w) \/ ReapCompleted(w) \/ ReapAndGoOn(w) \/ Alloc(w)
  \/ (AllocFails(w) \/ AwaitDone(w) \/ Reap(w)) /\ UNCHANGED ctlVars

(* Steps of a device thread that do not touch the controller.              *)
ServeStep(d) ==
  \/ /\ DevSleep(d) \/ DevDequeue(d) \/ DevExit(d) \/ DevComplete(d)
     /\ UNCHANGED <<mainVars, workerVars, ctlVars>>
  \/ SignalDone(d)

LEMMA NextCases ==
  ASSUME [Next]_vars
  PROVE  \/ (MainStep \/ TimeUp) /\ UNCHANGED ctlVars
         \/ WakeAll
         \/ \E w \in Workers : OutsideStep(w)
         \/ \E w \in Workers : \/ EnterSubmit(w) \/ Block(w) \/ Admitted(w) \/ EnqueueLocked(w)
                               \/ Account(w) \/ Rejected(w) \/ SpuriousSlot(w)
         \/ \E d \in Devices : ServeStep(d)
         \/ \E d \in Devices : LockCompletion(d) \/ PostLocked(d) \/ CompletionCallback(d)
         \/ Wakeups /\ UNCHANGED ctlVars
         \/ UNCHANGED vars
  BY DEF Next, WorkerStep, DeviceThread, MainThread, OutsideStep, ServeStep

LEMMA WorkerIdle == ASSUME WorkerInv PROVE IdleInv
  BY DEF WorkerInv, IdleInv, Owns

-----------------------------------------------------------------------------
(* Every step is a step of the fabric.                                     *)

LEMMA AimdFabricStep ==
  ASSUME AimdInv, [Next]_vars
  PROVE  [FabricNext]_fabricVars
<1> USE DEF AimdInv, Workers
<1>1. CASE MainStep \/ TimeUp
  BY <1>1, MainFabricStep, WorkerIdle
<1>2. CASE WakeAll \/ UNCHANGED vars
  BY <1>2 DEF WakeAll, vars
<1>3. ASSUME NEW w \in Workers, OutsideStep(w)
      PROVE  [FabricNext]_fabricVars
  <2>1. Alloc(w) => life = "up"
    BY RunningUp DEF Alloc, At
  <2>2. \/ (Alloc(w) /\ Create(w)) \/ WaitReturn(w) \/ WaitSleep(w) \/ Destroy(w)
        \/ UNCHANGED fabricVars
    BY <1>3 DEF OutsideStep, AimdLoop, ReapCompleted, ReapAndGoOn, Alloc, AllocFails,
                AwaitDone, Reap
  <2> QED
    BY <2>1, <2>2 DEF FabricNext, ClientStep
<1>4. ASSUME NEW w \in Workers, \/ EnterSubmit(w) \/ Block(w) \/ Admitted(w) \/ EnqueueLocked(w)
                                \/ Account(w) \/ Rejected(w) \/ SpuriousSlot(w)
      PROVE  [FabricNext]_fabricVars
  <2>1. TakeCredit(w) \/ Enqueue(w) \/ UNCHANGED fabricVars
    BY <1>4 DEF EnterSubmit, Block, Admitted, EnqueueLocked, Account, Rejected, SpuriousSlot
  <2> QED
    BY <2>1 DEF FabricNext, ClientStep
<1>5. ASSUME NEW d \in Devices, \/ ServeStep(d) \/ LockCompletion(d) \/ PostLocked(d)
                                \/ CompletionCallback(d)
      PROVE  [FabricNext]_fabricVars
  <2>1. DeviceStep(d) \/ UNCHANGED fabricVars
    BY <1>5 DEF ServeStep, SignalDone, LockCompletion, PostLocked, CompletionCallback, DeviceStep
  <2> QED
    BY <2>1, DeviceFabricStep
<1>6. CASE Wakeups
  BY <1>6, DeviceFabricStep DEF Wakeups
<1> QED
  BY <1>1, <1>2, <1>3, <1>4, <1>5, <1>6, NextCases

-----------------------------------------------------------------------------
(* Signals: some blocked workers are on their way to the lock.             *)

LEMMA SignalsBlocked ==
  ASSUME NEW n, NEW S \in SignalSets(n)
  PROVE  S \subseteq Blocked
  BY DEF SignalSets

(* The workers of S go from "blocked" to "woken", all others stay.         *)
LEMMA WakeEffect ==
  ASSUME WorkerInv, NEW S \in SUBSET Blocked
  PROVE  /\ Wake(wpc, S) \in [Workers -> WorkerPcs]
         /\ \A v \in S : wpc[v] = "blocked" /\ Wake(wpc, S)[v] = "woken"
         /\ \A v \in Workers \ S : Wake(wpc, S)[v] = wpc[v]
  BY DEF Wake, WorkerInv, WorkerPcs, Blocked, At

-----------------------------------------------------------------------------
(* WorkerInv.                                                              *)

LEMMA WorkerPart ==
  ASSUME AimdInv, [Next]_vars
  PROVE  WorkerInv'
<1> USE DEF AimdInv, Workers
<1> USE DEF Owns, WorkerPcs, At, Goto, mainVars, workerVars, ctlVars, fabricVars
<1>1. ASSUME UNCHANGED <<stage, due>>, NEW S \in SUBSET Blocked, wpc' = Wake(wpc, S)
      PROVE  WorkerInv'
  BY <1>1, WakeEffect DEF WorkerInv
<1>2. ASSUME UNCHANGED <<stage, workerVars>>
      PROVE  WorkerInv'
  BY <1>2 DEF WorkerInv
<1>3. CASE MainStep \/ TimeUp
  <2>1. ASSUME NEW w \in Workers, StartWorker(w)
        PROVE  WorkerInv'
    BY <2>1 DEF StartWorker, WorkerInv
  <2>2. CASE StartDone \/ StartFails \/ TimeUp \/ JoinWorkers
    BY <1>2, <2>2 DEF StartDone, StartFails, TimeUp, JoinWorkers
  <2>3. CASE DestroyFabric
    BY <1>2, <2>3 DEF DestroyFabric, StopStore, StopBroadcast, StopJoin
  <2> QED
    BY <1>3, <2>1, <2>2, <2>3 DEF MainStep
<1>4. CASE WakeAll
  BY <1>1, <1>4 DEF WakeAll
<1>5. ASSUME NEW w \in Workers, OutsideStep(w)
      PROVE  WorkerInv'
  <2> USE DEF WorkerInv, FabricInv, TypeInv
  <2>1. CASE AimdLoop(w)
    BY <2>1 DEF AimdLoop, AfterStop, Destroy
  <2>2. CASE ReapCompleted(w)
    BY <2>2 DEF ReapCompleted, WaitReturn
  <2>3. CASE ReapAndGoOn(w)
    BY <2>3 DEF ReapAndGoOn, Destroy
  <2>4. CASE Alloc(w)
    BY <2>4 DEF Alloc, Create
  <2>5. CASE AllocFails(w)
    BY <2>5 DEF AllocFails
  <2>6. CASE AwaitDone(w)
    BY <2>6 DEF AwaitDone, WaitSleep, WaitReturn
  <2>7. CASE Reap(w)
    BY <2>7 DEF Reap, Destroy
  <2> QED
    BY <1>5, <2>1, <2>2, <2>3, <2>4, <2>5, <2>6, <2>7 DEF OutsideStep
<1>6. ASSUME NEW w \in Workers, \/ EnterSubmit(w) \/ Block(w) \/ Rejected(w) \/ SpuriousSlot(w)
      PROVE  WorkerInv'
  BY <1>6 DEF EnterSubmit, Block, Rejected, SpuriousSlot, WorkerInv
<1>7. ASSUME NEW w \in Workers, Admitted(w) \/ EnqueueLocked(w)
      PROVE  WorkerInv'
  BY <1>7 DEF Admitted, EnqueueLocked, TakeCredit, Enqueue, WorkerInv, FabricInv, TypeInv
<1>8. ASSUME NEW w \in Workers, Account(w)
      PROVE  WorkerInv'
  <2>1. PICK S \in SUBSET Blocked : wpc' = [Wake(wpc, S) EXCEPT ![w] = "loop"]
    BY <1>8, SignalsBlocked DEF Account
  <2>2. /\ wpc[w] = "account" /\ due' = [due EXCEPT ![w] = @ + 1] /\ stage' = stage
    BY <1>8 DEF Account
  <2> QED
    BY <2>1, <2>2, WakeEffect DEF WorkerInv
<1>9. ASSUME NEW d \in Devices, ServeStep(d)
      PROVE  WorkerInv'
  <2>1. DeviceStep(d) /\ UNCHANGED workerVars
    BY <1>9 DEF ServeStep, SignalDone, DeviceStep
  <2>2. WakesOnly
    BY <2>1, DeviceWakesOnly DEF FabricInv
  <2>3. \A v \in Workers : stage[v] = "submitted" => stage'[v] = "submitted"
    BY <1>9 DEF ServeStep, SignalDone, DevSleep, DevDequeue, DevExit, DevComplete, DevSignal,
                FabricInv, TypeInv
  <2> QED
    BY <2>1, <2>2, <2>3 DEF WakesOnly, WorkerInv
<1>10. ASSUME NEW d \in Devices, LockCompletion(d) \/ PostLocked(d)
       PROVE  WorkerInv'
  BY <1>2, <1>10 DEF LockCompletion, PostLocked, DevPost
<1>11. ASSUME NEW d \in Devices, CompletionCallback(d)
       PROVE  WorkerInv'
  BY <1>1, <1>11, SignalsBlocked DEF CompletionCallback
<1>12. CASE Wakeups
  <2>1. UNCHANGED workerVars /\ WakesOnly
    BY <1>12, DeviceWakesOnly DEF Wakeups, FabricInv
  <2>2. \A v \in Workers : stage[v] = "submitted" => stage'[v] = "submitted"
    BY <1>12 DEF Wakeups, Spurious, WaitSpurious, DevSpurious, FabricInv, TypeInv
  <2> QED
    BY <2>1, <2>2 DEF WakesOnly, WorkerInv
<1>13. CASE UNCHANGED vars
  BY <1>2, <1>13 DEF vars
<1> QED
  BY <1>3, <1>4, <1>5, <1>6, <1>7, <1>8, <1>9, <1>10, <1>11, <1>12, <1>13, NextCases

-----------------------------------------------------------------------------
(* Steps outside the controller leave all that its invariants are about.   *)

AtController == Inside \cup {"blocked", "woken"}

Quiet ==
  /\ UNCHANGED <<ctlVars, credits>>
  /\ stop_flag => stop_flag'
  /\ \A w \in Workers : wpc[w] \in AtController \/ wpc'[w] \in AtController => wpc'[w] = wpc[w]
  /\ \A d \in Devices : lock = d => dpc'[d] = dpc[d]

LEMMA QuietSteps ==
  ASSUME AimdInv,
         \/ (MainStep \/ TimeUp) /\ UNCHANGED ctlVars
         \/ \E w \in Workers : OutsideStep(w)
         \/ \E d \in Devices : ServeStep(d)
         \/ Wakeups /\ UNCHANGED ctlVars
         \/ UNCHANGED vars
  PROVE  Quiet
<1> USE DEF AimdInv, Quiet, Workers
<1> USE DEF AtController, Inside, At, Goto, mainVars, workerVars, fabricVars
<1>1. CASE (MainStep \/ TimeUp) /\ UNCHANGED ctlVars
  <2>1. ASSUME NEW w \in Workers, StartWorker(w)
        PROVE  Quiet
    BY <1>1, <2>1 DEF StartWorker, WorkerInv
  <2>2. CASE StartDone \/ StartFails \/ TimeUp \/ JoinWorkers
    BY <1>1, <2>2 DEF StartDone, StartFails, TimeUp, JoinWorkers
  <2>3. CASE DestroyFabric
    BY <1>1, <2>3 DEF DestroyFabric, StopStore, StopBroadcast, StopJoin, LockInv, FabricInv, TypeInv
  <2> QED
    BY <1>1, <2>1, <2>2, <2>3 DEF MainStep
<1>2. ASSUME NEW w \in Workers, OutsideStep(w)
      PROVE  Quiet
  <2>1. UNCHANGED <<ctlVars, credits, dpc, mainVars>>
    BY <1>2 DEF OutsideStep, AimdLoop, ReapCompleted, ReapAndGoOn, Alloc, AllocFails,
                AwaitDone, Reap, WaitSleep, WaitReturn, Create, Destroy
  <2>2. \/ wpc' = wpc
        \/ /\ wpc[w] \notin AtController
           /\ \E pc \in WorkerPcs \ AtController : wpc' = [wpc EXCEPT ![w] = pc]
    BY <1>2 DEF OutsideStep, AimdLoop, ReapCompleted, ReapAndGoOn, Alloc, AllocFails,
                AwaitDone, Reap, AfterStop, WorkerPcs
  <2> QED
    BY <2>1, <2>2 DEF WorkerInv
<1>3. ASSUME NEW d \in Devices, ServeStep(d)
      PROVE  Quiet
  <2>1. UNCHANGED <<ctlVars, credits, mainVars, workerVars>>
    BY <1>3 DEF ServeStep, SignalDone, DevSleep, DevDequeue, DevExit, DevComplete, DevSignal
  <2>2. \A e \in Devices \ {d} : dpc'[e] = dpc[e]
    BY <1>3 DEF ServeStep, SignalDone, DevSleep, DevDequeue, DevExit, DevComplete, DevSignal,
                FabricInv, TypeInv
  <2>3. lock # d
    BY <1>3 DEF ServeStep, SignalDone, DevSleep, DevDequeue, DevExit, DevComplete, LockInv
  <2> QED
    BY <2>1, <2>2, <2>3
<1>4. CASE Wakeups /\ UNCHANGED ctlVars
  BY <1>4 DEF Wakeups, Spurious, WaitSpurious, DevSpurious, LockInv, FabricInv, TypeInv
<1>5. CASE UNCHANGED vars
  BY <1>5 DEF vars
<1> QED
  BY <1>1, <1>2, <1>3, <1>4, <1>5

(* The steps that are not quiet.                                           *)
SubmitStep(w) == \/ EnterSubmit(w) \/ Block(w) \/ Admitted(w) \/ EnqueueLocked(w)
                 \/ Account(w) \/ Rejected(w)
CompleteStep(d) == LockCompletion(d) \/ PostLocked(d) \/ CompletionCallback(d)

LEMMA ControllerCases ==
  ASSUME AimdInv, [Next]_vars
  PROVE  \/ Quiet \/ WakeAll
         \/ \E w \in Workers : SubmitStep(w) \/ SpuriousSlot(w)
         \/ \E d \in Devices : CompleteStep(d)
  BY NextCases, QuietSteps DEF SubmitStep, CompleteStep

-----------------------------------------------------------------------------
(* LockInv.                                                                *)

LEMMA LockPart ==
  ASSUME AimdInv, [Next]_vars
  PROVE  LockInv'
<1> USE DisjointAssumption, ThreadsAssumption
<1> USE DEF AimdInv, LockInv, LockFree, Inside, Workers, At, Goto
<1>1. CASE Quiet
  BY <1>1 DEF Quiet, AtController, ctlVars
<1>2. ASSUME NEW S \in SUBSET Blocked, wpc' = Wake(wpc, S), UNCHANGED <<lock, reservations, dpc>>
      PROVE  LockInv'
  BY <1>2, WakeEffect
<1>3. CASE WakeAll
  BY <1>2, <1>3 DEF WakeAll, ctlVars, fabricVars
<1>4. ASSUME NEW w \in Workers, EnterSubmit(w)
      PROVE  LockInv'
  BY <1>4 DEF EnterSubmit, fabricVars, WorkerInv
<1>5. ASSUME NEW w \in Workers, Block(w) \/ SpuriousSlot(w) \/ Rejected(w)
      PROVE  LockInv'
  BY <1>5 DEF Block, SpuriousSlot, Rejected, ctlVars, fabricVars, WorkerInv
<1>6. ASSUME NEW w \in Workers, Admitted(w)
      PROVE  LockInv'
  BY <1>6 DEF Admitted, TakeCredit, ctlVars, WorkerInv
<1>7. ASSUME NEW w \in Workers, EnqueueLocked(w)
      PROVE  LockInv'
  BY <1>7 DEF EnqueueLocked, ctlVars, WorkerInv
<1>8. ASSUME NEW w \in Workers, Account(w)
      PROVE  LockInv'
  <2>1. PICK S \in SUBSET Blocked : wpc' = [Wake(wpc, S) EXCEPT ![w] = "loop"]
    BY <1>8, SignalsBlocked DEF Account
  <2>2. wpc[w] = "account" /\ lock' = NoReq /\ reservations' = reservations - 1
    BY <1>8 DEF Account
  <2> QED
    BY <2>1, <2>2, WakeEffect
<1>9. ASSUME NEW d \in Devices, LockCompletion(d) \/ PostLocked(d)
      PROVE  LockInv'
  BY <1>9 DEF LockCompletion, PostLocked, DevPost, fabricVars, workerVars, ctlVars, FabricInv, TypeInv
<1>10. ASSUME NEW d \in Devices, CompletionCallback(d)
       PROVE  LockInv'
  <2>1. PICK S \in SUBSET Blocked : wpc' = Wake(wpc, S)
    BY <1>10, SignalsBlocked DEF CompletionCallback
  <2>2. lock = d /\ lock' = NoReq /\ UNCHANGED reservations
    BY <1>10 DEF CompletionCallback
  <2> QED
    BY <2>1, <2>2, WakeEffect
<1> QED
  BY <1>1, <1>3, <1>4, <1>5, <1>6, <1>7, <1>8, <1>9, <1>10, ControllerCases DEF SubmitStep, CompleteStep

-----------------------------------------------------------------------------
(* AccountsInv.                                                            *)

LEMMA CreditsBounded ==
  ASSUME FabricInv
  PROVE  credits \in 0..QueueDepth
  BY HoldersFinite, DepthAssumption DEF FabricInv, TypeInv, CreditConservation

(* What each holder of the lock makes of the two accounts.                 *)
LEMMA HolderAccounts ==
  ASSUME LockInv
  PROVE  /\ LockFree => ~Taken /\ ~Returned
         /\ \A w \in Workers : lock = w => /\ Taken <=> wpc[w] \in {"enqueue", "account"}
                                           /\ ~Returned
         /\ \A d \in Devices : lock = d => /\ ~Taken
                                           /\ Returned <=> dpc[d] = "posted"
  BY DisjointAssumption, ThreadsAssumption DEF LockInv, LockFree, Taken, Returned, Workers

LEMMA AccountsPart ==
  ASSUME AimdInv, [Next]_vars
  PROVE  AccountsInv'
<1> USE DepthAssumption
<1> USE DEF AimdInv, Workers, At, Goto
<1>1. LockInv' /\ WorkerInv' /\ FabricInv'
  BY LockPart, WorkerPart, AimdFabricStep, FabricStepInv
<1>2. credits \in 0..QueueDepth /\ credits' \in Nat
  BY <1>1, CreditsBounded DEF FabricInv, TypeInv
<1>3. ASSUME UNCHANGED <<credits, inflight, max_inflight>>,
             (Taken' <=> Taken) /\ (Returned' <=> Returned)
      PROVE  AccountsInv'
  BY <1>3 DEF AccountsInv
<1>4. ASSUME UNCHANGED <<credits, inflight, max_inflight>>,
             ~Taken /\ ~Returned /\ ~Taken' /\ ~Returned'
      PROVE  AccountsInv'
  BY <1>4 DEF AccountsInv
<1>5. LockFree' => ~Taken' /\ ~Returned'
  BY <1>1, DisjointAssumption, ThreadsAssumption DEF LockInv, LockFree, Taken, Returned
<1>6. \A w \in Workers : lock' = w => /\ Taken' <=> wpc'[w] \in {"enqueue", "account"}
                                      /\ ~Returned'
  BY <1>1, DisjointAssumption, ThreadsAssumption DEF LockInv, LockFree, Taken, Returned
<1>7. \A d \in Devices : lock' = d => ~Taken' /\ (Returned' <=> dpc'[d] = "posted")
  BY <1>1, DisjointAssumption, ThreadsAssumption DEF LockInv, LockFree, Taken, Returned
<1>8. CASE Quiet
  <2>1. (Taken' <=> Taken) /\ (Returned' <=> Returned)
    BY <1>8 DEF Quiet, ctlVars, AtController, Inside, Taken, Returned
  <2> QED
    BY <1>3, <1>8, <2>1 DEF Quiet, ctlVars
<1>9. CASE WakeAll
  <2>1. LockFree /\ LockFree' /\ UNCHANGED <<credits, inflight, max_inflight>>
    BY <1>9 DEF WakeAll, ctlVars, fabricVars, LockFree
  <2> QED
    BY <1>4, <1>5, <2>1, HolderAccounts
<1>10. ASSUME NEW w \in Workers, EnterSubmit(w)
       PROVE  AccountsInv'
  <2>1. LockFree /\ UNCHANGED <<credits, inflight, max_inflight>>
    BY <1>10 DEF EnterSubmit, fabricVars
  <2>2. \/ LockFree'
        \/ lock' = w /\ wpc'[w] \in {"full", "admit"}
    BY <1>10 DEF EnterSubmit, LockFree, WorkerInv
  <2> QED
    BY <1>4, <1>5, <1>6, <2>1, <2>2, HolderAccounts
<1>11. ASSUME NEW w \in Workers, Block(w) \/ Rejected(w)
       PROVE  AccountsInv'
  <2>1. /\ wpc[w] \in {"full", "admit"} /\ lock' = NoReq
        /\ UNCHANGED <<credits, inflight, max_inflight>>
    BY <1>11 DEF Block, Rejected, fabricVars
  <2>2. lock = w
    BY <2>1 DEF LockInv, Inside
  <2> QED
    BY <1>4, <1>5, <2>1, <2>2, HolderAccounts DEF LockFree
<1>12. ASSUME NEW w \in Workers, SpuriousSlot(w)
       PROVE  AccountsInv'
  <2>1. /\ UNCHANGED <<credits, inflight, max_inflight, lock, dpc>>
        /\ \A v \in Workers : \A pc \in {"enqueue", "account"} : wpc'[v] = pc <=> wpc[v] = pc
    BY <1>12 DEF SpuriousSlot, ctlVars, fabricVars, WorkerInv
  <2>2. (Taken' <=> Taken) /\ (Returned' <=> Returned)
    BY <2>1 DEF Taken, Returned
  <2> QED
    BY <1>3, <2>1, <2>2
<1>13. ASSUME NEW w \in Workers, Admitted(w)
       PROVE  AccountsInv'
  <2>1. /\ wpc[w] = "admit" /\ wpc'[w] = "enqueue" /\ credits' = credits - 1
        /\ UNCHANGED <<lock, inflight, max_inflight>>
    BY <1>13 DEF Admitted, TakeCredit, ctlVars, WorkerInv
  <2>2. lock = w
    BY <2>1 DEF LockInv, Inside
  <2> QED
    BY <1>2, <1>6, <2>1, <2>2, HolderAccounts DEF AccountsInv
<1>14. ASSUME NEW w \in Workers, EnqueueLocked(w)
       PROVE  AccountsInv'
  <2>1. /\ wpc[w] = "enqueue" /\ wpc'[w] = "account"
        /\ UNCHANGED <<lock, credits, inflight, max_inflight>>
    BY <1>14 DEF EnqueueLocked, Enqueue, ctlVars, WorkerInv
  <2>2. lock = w
    BY <2>1 DEF LockInv, Inside
  <2> QED
    BY <1>3, <1>6, <2>1, <2>2, HolderAccounts
<1>15. ASSUME NEW w \in Workers, Account(w)
       PROVE  AccountsInv'
  <2>1. /\ wpc[w] = "account" /\ lock' = NoReq /\ credits' = credits
        /\ inflight' = inflight + 1 /\ max_inflight' = NewMaximum
    BY <1>15 DEF Account, fabricVars
  <2>2. lock = w
    BY <2>1 DEF LockInv, Inside
  <2>3. ~Taken' /\ ~Returned' /\ Taken /\ ~Returned
    BY <1>5, <2>1, <2>2, HolderAccounts DEF LockFree
  <2> QED
    BY <1>2, <2>1, <2>3 DEF AccountsInv, NewMaximum
<1>16. ASSUME NEW d \in Devices, LockCompletion(d)
       PROVE  AccountsInv'
  <2>1. /\ LockFree /\ lock' = d /\ dpc'[d] = "locked"
        /\ UNCHANGED <<credits, inflight, max_inflight>>
    BY <1>16 DEF LockCompletion, fabricVars
  <2> QED
    BY <1>4, <1>7, <2>1, HolderAccounts
<1>17. ASSUME NEW d \in Devices, PostLocked(d)
       PROVE  AccountsInv'
  <2>1. /\ lock = d /\ lock' = d /\ dpc[d] # "posted" /\ dpc'[d] = "posted"
        /\ credits' = credits + 1 /\ UNCHANGED <<inflight, max_inflight>>
    BY <1>17 DEF PostLocked, DevPost, ctlVars, FabricInv, TypeInv
  <2>2. ~Taken /\ ~Returned
    BY <2>1, HolderAccounts
  <2>3. ~Taken' /\ Returned'
    BY <1>7, <2>1
  <2> QED
    BY <1>2, <2>1, <2>2, <2>3 DEF AccountsInv
<1>18. ASSUME NEW d \in Devices, CompletionCallback(d)
       PROVE  AccountsInv'
  <2>1. /\ lock = d /\ lock' = NoReq /\ dpc[d] = "posted"
        /\ inflight' = IF inflight > 0 THEN inflight - 1 ELSE inflight
        /\ UNCHANGED <<credits, max_inflight>>
    BY <1>18 DEF CompletionCallback, fabricVars
  <2>2. Returned /\ ~Taken /\ ~Returned' /\ ~Taken'
    BY <1>5, <2>1, HolderAccounts DEF LockFree
  <2> QED
    BY <1>2, <2>1, <2>2 DEF AccountsInv
<1> QED
  BY <1>8, <1>9, <1>10, <1>11, <1>12, <1>13, <1>14, <1>15, <1>16, <1>17, <1>18,
     ControllerCases DEF SubmitStep, CompleteStep

-----------------------------------------------------------------------------
(* WindowInv and TestedInv.                                                *)

LEMMA CutBounds ==
  ASSUME NEW c \in Nat \ {0}
  PROVE  LET h == IF c \div 2 < 1 THEN 1 ELSE c \div 2
         IN  h \in 1..c
  OBVIOUS

LEMMA WindowPart ==
  ASSUME AimdInv, [Next]_vars
  PROVE  WindowInv'
<1> USE DepthAssumption
<1> USE DEF AimdInv, Workers, WindowInv, MaxCwnd
<1>1. CASE UNCHANGED windowVars
  BY <1>1 DEF windowVars
<1>2. CASE Quiet \/ WakeAll
  BY <1>1, <1>2 DEF Quiet, WakeAll, ctlVars, windowVars
<1>3. ASSUME NEW w \in Workers, SubmitStep(w) \/ SpuriousSlot(w)
      PROVE  WindowInv'
  <2>1. CASE Rejected(w) /\ holdoff = 0
    <3>1. cwnd' = CutWindow /\ acks' = 0 /\ holdoff' = cwnd /\ since' = 0
      BY <2>1 DEF Rejected, HoldoffAfterCut
    <3>2. inflight = QueueDepth /\ cwnd = MaxCwnd
      <4>1. wpc[w] = "admit" /\ credits = 0
        BY <2>1 DEF Rejected, At
      <4>2. lock = w
        BY <4>1 DEF LockInv, Inside
      <4>3. ~Taken /\ ~Returned
        BY <4>1, <4>2, HolderAccounts
      <4>4. inflight = QueueDepth
        BY <4>1, <4>3 DEF AccountsInv
      <4> QED
        BY <4>1, <4>4 DEF TestedInv
    <3>3. CutWindow \in 1..cwnd
      BY CutBounds DEF CutWindow
    <3> QED
      BY <3>1, <3>2, <3>3
  <2>2. CASE ~(Rejected(w) /\ holdoff = 0)
    BY <1>1, <1>3, <2>2 DEF SubmitStep, SpuriousSlot, EnterSubmit, Block, Admitted, EnqueueLocked,
                            Account, Rejected, ctlVars, windowVars
  <2> QED
    BY <2>1, <2>2
<1>4. ASSUME NEW d \in Devices, LockCompletion(d) \/ PostLocked(d)
      PROVE  WindowInv'
  BY <1>1, <1>4 DEF LockCompletion, PostLocked, ctlVars, windowVars
<1>5. ASSUME NEW d \in Devices, CompletionCallback(d)
      PROVE  WindowInv'
  BY <1>5 DEF CompletionCallback, Acked, GrownWindow, Lower
<1> QED
  BY <1>2, <1>3, <1>4, <1>5, ControllerCases DEF CompleteStep

(* The sum 1 + ... + QueueDepth, and why a window below MaxCwnd is short   *)
(* of it.                                                                  *)
LEMMA ClimbSum ==
  /\ WindowClimb \in Nat
  /\ 2 * WindowClimb = QueueDepth * (QueueDepth + 1)
<1>1. QueueDepth \in Nat
  BY DepthAssumption
<1>2. PICK k \in Nat : QueueDepth = 2 * k \/ QueueDepth = 2 * k + 1
  <2>1. QueueDepth \div 2 \in Nat
    BY <1>1
  <2> QED
    BY <1>1, <2>1
<1>3. PICK t \in Nat : QueueDepth * (QueueDepth + 1) = 2 * t
  <2>1. CASE QueueDepth = 2 * k
    <3>1. k * (2 * k + 1) \in Nat /\ (2 * k) * (2 * k + 1) = 2 * (k * (2 * k + 1))
      OBVIOUS
    <3> QED
      BY <2>1, <3>1
  <2>2. CASE QueueDepth = 2 * k + 1
    <3>1. (2 * k + 1) * (k + 1) \in Nat /\ (2 * k + 1) * (2 * k + 2) = 2 * ((2 * k + 1) * (k + 1))
      OBVIOUS
    <3>2. QueueDepth * (QueueDepth + 1) = (2 * k + 1) * (2 * k + 2)
      <4>1. QueueDepth + 1 = 2 * k + 2
        BY <2>2
      <4> QED
        BY <2>2, <4>1, Zenon
    <3> QED
      BY <3>1, <3>2, Zenon
  <2> QED
    BY <1>2, <2>1, <2>2
<1>4. (2 * t) \div 2 = t
  OBVIOUS
<1> QED
  BY <1>3, <1>4 DEF WindowClimb, MaxCwnd

LEMMA ShortOfSum ==
  ASSUME NEW n \in Nat, NEW c \in 1..n, NEW a \in 0..(c - 1)
  PROVE  c * (c - 1) + 2 * a < n * (n + 1)
<1>1. /\ c * (c - 1) = c * c - c /\ n * (n + 1) = n * n + n
      /\ c * c \in Nat /\ n * n \in Nat
  OBVIOUS
<1>2. c * c <= n * n
  OBVIOUS
<1> QED
  BY <1>1, <1>2

(* One completion more, within the window and at its end.                  *)
LEMMA OneMore ==
  ASSUME NEW c \in Nat \ {0}, NEW a \in 0..(c - 1), NEW k \in Nat,
         2 * k <= c * (c - 1) + 2 * a
  PROVE  /\ 2 * (k + 1) <= c * (c - 1) + 2 * (a + 1)
         /\ a + 1 >= c => 2 * (k + 1) <= (c + 1) * ((c + 1) - 1) + 2 * 0
<1>1. /\ c * (c - 1) = c * c - c /\ (c + 1) * ((c + 1) - 1) = c * c + c /\ c * c \in Nat
  OBVIOUS
<1> QED
  BY <1>1

LEMMA ClimbPart ==
  ASSUME AimdInv, [Next]_vars
  PROVE  ClimbInv'
<1> USE DEF AimdInv, Workers
<1>1. /\ cwnd \in 1..MaxCwnd /\ acks \in 0..(cwnd - 1) /\ climb \in 0..WindowClimb
      /\ WindowClimb \in Nat /\ MaxCwnd \in Nat
      /\ WindowClimb' = WindowClimb /\ MaxCwnd' = MaxCwnd
  BY ClimbSum, DepthAssumption DEF WindowInv, ClimbInv, MaxCwnd, WindowClimb
<1>2. CASE UNCHANGED windowVars
  BY <1>1, <1>2 DEF windowVars, ClimbInv
<1>3. CASE Quiet \/ WakeAll
  BY <1>2, <1>3 DEF Quiet, WakeAll, ctlVars, windowVars
<1>4. ASSUME NEW w \in Workers, SubmitStep(w) \/ SpuriousSlot(w)
      PROVE  ClimbInv'
  <2>1. CASE Rejected(w) /\ holdoff = 0
    <3>1. cwnd' = CutWindow /\ acks' = 0 /\ climb' = 0
      BY <2>1 DEF Rejected
    <3>2. CutWindow \in 1..cwnd
      BY <1>1, CutBounds DEF CutWindow
    <3> DEFINE c == CutWindow
    <3>3. c * (c - 1) \in Nat
      <4>1. c \in Nat /\ c - 1 \in Nat
        BY <1>1, <3>2
      <4> HIDE DEF c
      <4> QED
        BY <4>1
    <3> HIDE DEF c
    <3> QED
      BY <1>1, <3>1, <3>3 DEF ClimbInv, c
  <2>2. CASE ~(Rejected(w) /\ holdoff = 0)
    BY <1>2, <1>4, <2>2 DEF SubmitStep, SpuriousSlot, EnterSubmit, Block, Admitted, EnqueueLocked,
                            Account, Rejected, ctlVars, windowVars
  <2> QED
    BY <2>1, <2>2
<1>5. ASSUME NEW d \in Devices, LockCompletion(d) \/ PostLocked(d)
      PROVE  ClimbInv'
  BY <1>2, <1>5 DEF LockCompletion, PostLocked, ctlVars, windowVars
<1>6. ASSUME NEW d \in Devices, CompletionCallback(d)
      PROVE  ClimbInv'
  <2>1. climb' = Lower(climb + 1, WindowClimb)
    BY <1>6 DEF CompletionCallback
  <2>2. climb' \in 0..WindowClimb /\ climb' <= climb + 1
    BY <1>1, <2>1 DEF Lower
  <2>3. CASE cwnd = MaxCwnd
    <3>1. cwnd' = MaxCwnd
      BY <1>1, <1>6, <2>3 DEF CompletionCallback, GrownWindow
    <3> QED
      BY <1>1, <2>2, <3>1 DEF ClimbInv
  <2>4. CASE cwnd < MaxCwnd
    <3>1. 2 * climb <= cwnd * (cwnd - 1) + 2 * acks
      BY <2>4 DEF ClimbInv
    <3>2. \/ acks + 1 >= cwnd /\ cwnd' = cwnd + 1 /\ acks' = 0
          \/ acks + 1 < cwnd /\ cwnd' = cwnd /\ acks' = acks + 1
      BY <1>1, <1>6, <2>4 DEF CompletionCallback, Acked, GrownWindow
    <3>3. /\ 2 * (climb + 1) <= cwnd * (cwnd - 1) + 2 * (acks + 1)
          /\ acks + 1 >= cwnd => 2 * (climb + 1) <= (cwnd + 1) * ((cwnd + 1) - 1) + 2 * 0
      BY <1>1, <3>1, OneMore
    <3>4. 2 * (climb + 1) <= cwnd' * (cwnd' - 1) + 2 * acks'
      BY <3>2, <3>3
    <3>5. cwnd' * (cwnd' - 1) + 2 * acks' \in Int /\ climb' \in Int /\ climb \in Int
      BY <1>1, <2>2, <3>2
    <3>6. 2 * climb' <= cwnd' * (cwnd' - 1) + 2 * acks'
      BY <2>2, <3>4, <3>5
    <3> QED
      BY <1>1, <2>2, <3>6 DEF ClimbInv
  <2> QED
    BY <1>1, <2>3, <2>4
<1> QED
  BY <1>3, <1>4, <1>5, <1>6, ControllerCases DEF CompleteStep

LEMMA TestedPart ==
  ASSUME AimdInv, [Next]_vars
  PROVE  TestedInv'
<1> USE DEF AimdInv, Workers, TestedInv
<1>1. \A v \in Workers : wpc'[v] \in Inside => lock' = v
  BY LockPart DEF LockInv
<1>2. CASE lock' \notin Workers
  BY <1>1, <1>2 DEF Inside
<1>3. CASE Quiet
  BY <1>3 DEF Quiet, AtController, Inside, ctlVars
<1>4. CASE WakeAll
  BY <1>2, <1>4, ThreadsAssumption DEF WakeAll, LockFree, ctlVars
<1>5. ASSUME NEW w \in Workers, EnterSubmit(w)
      PROVE  TestedInv'
  <2>1. reservations = 0 /\ inflight \in Nat /\ cwnd \in Nat
    BY <1>5, ThreadsAssumption, DepthAssumption
    DEF EnterSubmit, LockFree, LockInv, AccountsInv, WindowInv, MaxCwnd
  <2>2. UNCHANGED <<inflight, cwnd>>
    BY <1>5 DEF EnterSubmit, windowVars
  <2>3. CASE lock' = w
    <3>1. \A v \in Workers \ {w} : wpc'[v] \notin {"full", "admit"}
      BY <1>1, <2>3 DEF Inside
    <3>2. \/ wpc'[w] = "full" /\ WindowFull
          \/ wpc'[w] = "admit" /\ ~WindowFull
          \/ wpc'[w] = "loop"
      BY <1>5 DEF EnterSubmit, At, Goto, WorkerInv
    <3> QED
      BY <2>1, <2>2, <3>1, <3>2 DEF WindowFull
  <2>4. CASE lock' # w
    BY <1>2, <1>5, <2>4, ThreadsAssumption DEF EnterSubmit, LockFree
  <2> QED
    BY <2>3, <2>4
<1>6. ASSUME NEW w \in Workers, Block(w) \/ Account(w) \/ Rejected(w)
      PROVE  TestedInv'
  BY <1>2, <1>6, ThreadsAssumption DEF Block, Account, Rejected
<1>7. ASSUME NEW w \in Workers, Admitted(w) \/ EnqueueLocked(w)
      PROVE  TestedInv'
  BY <1>7 DEF Admitted, EnqueueLocked, At, Goto, WorkerInv, ctlVars
<1>8. ASSUME NEW w \in Workers, SpuriousSlot(w)
      PROVE  TestedInv'
  BY <1>8 DEF SpuriousSlot, At, Goto, WorkerInv, ctlVars
<1>9. ASSUME NEW d \in Devices, CompleteStep(d)
      PROVE  TestedInv'
  BY <1>2, <1>9, ThreadsAssumption, DisjointAssumption
  DEF CompleteStep, LockCompletion, PostLocked, CompletionCallback, ctlVars
<1> QED
  BY <1>3, <1>4, <1>5, <1>6, <1>7, <1>8, <1>9, ControllerCases DEF SubmitStep

-----------------------------------------------------------------------------
(* The workers in pthread_cond_wait.                                       *)

Waiters == Blocked \cup Woken

LEMMA WaitersFinite ==
  /\ IsFiniteSet(Blocked) /\ IsFiniteSet(Woken) /\ IsFiniteSet(Waiters)
  /\ Cardinality(Blocked) \in Nat /\ Cardinality(Woken) \in Nat /\ Cardinality(Waiters) \in Nat
  BY ThreadsAssumption, FS_Subset, FS_CardinalityType DEF Blocked, Woken, Waiters, Workers

(* What signalling S does to the two sets, when a worker goes on from the  *)
(* section that signals ...                                                *)
LEMMA WakeSets ==
  ASSUME WorkerInv, NEW S \in SUBSET Blocked, NEW w \in Workers, wpc[w] \notin {"blocked", "woken"},
         wpc' = [Wake(wpc, S) EXCEPT ![w] = "loop"]
  PROVE  Blocked' = Blocked \ S /\ Woken' = Woken \cup S /\ Waiters' = Waiters
<1>1. Blocked' = Blocked \ S
  BY WakeEffect DEF Blocked, At
<1>2. Woken' = Woken \cup S
  BY WakeEffect DEF Woken, Blocked, At
<1> QED
  BY <1>1, <1>2 DEF Waiters

(* ... and when another thread signals.                                    *)
LEMMA WakeOnlySets ==
  ASSUME WorkerInv, NEW S \in SUBSET Blocked, wpc' = Wake(wpc, S)
  PROVE  Blocked' = Blocked \ S /\ Woken' = Woken \cup S /\ Waiters' = Waiters
<1>1. Blocked' = Blocked \ S
  BY WakeEffect DEF Blocked, At
<1>2. Woken' = Woken \cup S
  BY WakeEffect DEF Woken, Blocked, At
<1> QED
  BY <1>1, <1>2 DEF Waiters

LEMMA WaitersPart ==
  ASSUME AimdInv, [Next]_vars
  PROVE  WaitersCounted'
<1> USE DEF AimdInv, Workers
<1>1. waiting = Cardinality(Waiters) /\ (WaitersCounted' <=> waiting' = Cardinality(Waiters'))
  BY DEF WaitersCounted, Waiters
<1>2. CASE Waiters' = Waiters /\ waiting' = waiting
  BY <1>1, <1>2
<1>3. ASSUME NEW w \in Waiters, Waiters' = Waiters \ {w}, waiting' = waiting - 1
      PROVE  WaitersCounted'
  BY <1>1, <1>3, WaitersFinite, FS_RemoveElement
<1>4. ASSUME NEW w, w \notin Waiters, Waiters' = Waiters \cup {w}, waiting' = waiting + 1
      PROVE  WaitersCounted'
  BY <1>1, <1>4, WaitersFinite, FS_AddElement
<1>5. CASE Quiet
  BY <1>2, <1>5 DEF Quiet, AtController, ctlVars, Waiters, Blocked, Woken, At
<1>6. CASE WakeAll
  BY <1>2, <1>6, WakeOnlySets DEF WakeAll, ctlVars
<1>7. ASSUME NEW w \in Workers, EnterSubmit(w)
      PROVE  WaitersCounted'
  <2>1. \E pc \in {"loop", "full", "admit"} : wpc' = [wpc EXCEPT ![w] = pc]
    BY <1>7 DEF EnterSubmit, Goto
  <2>2. CASE wpc[w] = "lock"
    BY <1>2, <1>7, <2>1, <2>2 DEF EnterSubmit, WaitingNow, At, WorkerInv, Waiters, Blocked, Woken
  <2>3. CASE wpc[w] = "woken"
    <3>1. w \in Waiters /\ Waiters' = Waiters \ {w}
      BY <2>1, <2>3 DEF At, WorkerInv, Waiters, Blocked, Woken
    <3> QED
      BY <1>3, <1>7, <2>3, <3>1 DEF EnterSubmit, WaitingNow, At
  <2> QED
    BY <1>7, <2>2, <2>3 DEF EnterSubmit
<1>8. ASSUME NEW w \in Workers, Block(w)
      PROVE  WaitersCounted'
  <2>1. w \notin Waiters /\ Waiters' = Waiters \cup {w}
    BY <1>8 DEF Block, At, Goto, WorkerInv, Waiters, Blocked, Woken
  <2> QED
    BY <1>4, <1>8, <2>1 DEF Block
<1>9. ASSUME NEW w \in Workers, Admitted(w) \/ EnqueueLocked(w) \/ Rejected(w) \/ SpuriousSlot(w)
      PROVE  WaitersCounted'
  BY <1>2, <1>9 DEF Admitted, EnqueueLocked, Rejected, SpuriousSlot, ctlVars, At, Goto, WorkerInv,
                    Waiters, Blocked, Woken
<1>10. ASSUME NEW w \in Workers, Account(w)
       PROVE  WaitersCounted'
  <2>1. PICK S \in SUBSET Blocked : wpc' = [Wake(wpc, S) EXCEPT ![w] = "loop"]
    BY <1>10, SignalsBlocked DEF Account
  <2> QED
    BY <1>2, <1>10, <2>1, WakeSets DEF Account, At
<1>11. ASSUME NEW d \in Devices, LockCompletion(d) \/ PostLocked(d)
       PROVE  WaitersCounted'
  BY <1>2, <1>11 DEF LockCompletion, PostLocked, ctlVars, workerVars, Waiters, Blocked, Woken, At
<1>12. ASSUME NEW d \in Devices, CompletionCallback(d)
       PROVE  WaitersCounted'
  <2>1. PICK S \in SUBSET Blocked : wpc' = Wake(wpc, S)
    BY <1>12, SignalsBlocked DEF CompletionCallback
  <2> QED
    BY <1>2, <1>12, <2>1, WakeOnlySets DEF CompletionCallback
<1> QED
  BY <1>5, <1>6, <1>7, <1>8, <1>9, <1>10, <1>11, <1>12, ControllerCases DEF SubmitStep, CompleteStep

-----------------------------------------------------------------------------
(* Enough signals: as many as there are slots, or to all that are blocked. *)

LEMMA SignalsEnough ==
  ASSUME WaitersCounted, NEW n \in Int, NEW S \in SignalSets(n)
  PROVE  S \subseteq Blocked /\ (S = Blocked \/ Cardinality(S) >= n)
<1> DEFINE b == Cardinality(Blocked)
           c == Cardinality(S)
<1>1. S \subseteq Blocked
  BY SignalsBlocked
<1>2. b \in Nat /\ c \in Nat /\ (c = b => S = Blocked)
  BY <1>1, WaitersFinite, FS_Subset, FS_CardinalityType
<1>3. waiting \in Nat /\ b <= waiting
  BY WaitersFinite, FS_Subset DEF WaitersCounted, Waiters
<1>4. c = LET wake_count == Lower(n, waiting)
          IN  IF wake_count < 0 THEN 0 ELSE Lower(wake_count, b)
  BY DEF SignalSets
<1> HIDE DEF b, c
<1>5. c = b \/ c >= n
  BY <1>2, <1>3, <1>4 DEF Lower
<1> QED
  BY <1>1, <1>2, <1>5 DEF c

LEMMA SlotPart ==
  ASSUME AimdInv, [Next]_vars
  PROVE  NoIdleSlot'
<1> USE DEF AimdInv, Workers
<1>1. CASE ~LockFree' \/ stop_flag' \/ credits' = 0 \/ Blocked' = {}
  BY <1>1, AimdFabricStep, FabricStepInv DEF NoIdleSlot, FabricInv, TypeInv
<1>2. inflight \in Nat /\ cwnd \in Nat /\ inflight' \in Nat /\ cwnd' \in Nat
  BY AccountsPart, WindowPart, DepthAssumption DEF AccountsInv, WindowInv, MaxCwnd
<1>3. LockFree' => reservations' = 0
  BY LockPart, ThreadsAssumption DEF LockInv, LockFree
<1>4. Cardinality(Woken') \in Nat
  BY ThreadsAssumption, FS_Subset, FS_CardinalityType DEF Woken
(* After a signal: those signalled are enough.                             *)
<1>5. ASSUME NEW S \in SignalSets(cwnd' - inflight' - reservations'), LockFree',
             Blocked' = Blocked \ S, Woken' = Woken \cup S
      PROVE  NoIdleSlot'
  <2>1. S = Blocked \/ Cardinality(S) >= cwnd' - inflight'
    BY <1>2, <1>3, <1>5, SignalsEnough
  <2>2. Cardinality(S) <= Cardinality(Woken') /\ Cardinality(S) \in Nat
    BY <1>5, ThreadsAssumption, FS_Subset, FS_CardinalityType DEF Woken
  <2> QED
    BY <1>2, <1>4, <1>5, <2>1, <2>2 DEF NoIdleSlot
<1>6. CASE Quiet
  <2>1. UNCHANGED <<cwnd, inflight, credits, Blocked, Woken>> /\ (LockFree' => LockFree)
    BY <1>6 DEF Quiet, AtController, ctlVars, Blocked, Woken, At, LockFree
  <2> QED
    BY <1>6, <2>1 DEF Quiet, NoIdleSlot
<1>7. CASE WakeAll
  BY <1>1, <1>7 DEF WakeAll, MainInv
<1>8. ASSUME NEW w \in Workers, EnterSubmit(w)
      PROVE  NoIdleSlot'
  <2>1. CASE stop_flag
    BY <1>1, <1>8, <2>1 DEF EnterSubmit, mainVars
  <2>2. CASE ~stop_flag
    BY <1>1, <1>8, <2>2, ThreadsAssumption DEF EnterSubmit, LockFree
  <2> QED
    BY <2>1, <2>2
<1>9. ASSUME NEW w \in Workers, Block(w)
      PROVE  NoIdleSlot'
  <2>1. cwnd' <= inflight'
    BY <1>2, <1>9 DEF Block, At, TestedInv, windowVars
  <2> QED
    BY <1>2, <1>4, <2>1 DEF NoIdleSlot
<1>10. ASSUME NEW w \in Workers, Admitted(w) \/ EnqueueLocked(w)
       PROVE  NoIdleSlot'
  BY <1>1, <1>10, ThreadsAssumption DEF Admitted, EnqueueLocked, At, LockInv, Inside, LockFree, ctlVars
<1>11. ASSUME NEW w \in Workers, Account(w)
       PROVE  NoIdleSlot'
  <2>1. PICK S \in SignalSets(cwnd - inflight' - reservations') :
          wpc' = [Wake(wpc, S) EXCEPT ![w] = "loop"]
    BY <1>11 DEF Account
  <2>2. Blocked' = Blocked \ S /\ Woken' = Woken \cup S
    BY <1>11, <2>1, WakeSets, SignalsBlocked DEF Account, At
  <2>3. LockFree' /\ cwnd' = cwnd
    BY <1>11 DEF Account, windowVars, LockFree
  <2> QED
    BY <1>5, <2>1, <2>2, <2>3
<1>12. ASSUME NEW w \in Workers, Rejected(w)
       PROVE  NoIdleSlot'
  BY <1>1, <1>12 DEF Rejected, fabricVars
<1>13. ASSUME NEW w \in Workers, SpuriousSlot(w)
       PROVE  NoIdleSlot'
  <2>1. /\ UNCHANGED <<cwnd, inflight, credits, lock, stop_flag>>
        /\ w \in Blocked /\ w \notin Woken /\ Woken' = Woken \cup {w}
    BY <1>13 DEF SpuriousSlot, Blocked, Woken, At, Goto, WorkerInv, ctlVars, windowVars, fabricVars,
                 mainVars
  <2>2. Cardinality(Woken') = Cardinality(Woken) + 1
    BY <2>1, WaitersFinite, FS_AddElement
  <2> QED
    BY <1>2, <2>1, <2>2, WaitersFinite DEF NoIdleSlot, LockFree
<1>14. ASSUME NEW d \in Devices, LockCompletion(d) \/ PostLocked(d)
       PROVE  NoIdleSlot'
  BY <1>1, <1>14, DisjointAssumption DEF LockCompletion, PostLocked, ctlVars, LockFree
<1>15. ASSUME NEW d \in Devices, CompletionCallback(d)
       PROVE  NoIdleSlot'
  <2>1. PICK S \in SignalSets(cwnd' - inflight' - reservations) : wpc' = Wake(wpc, S)
    BY <1>15 DEF CompletionCallback
  <2>2. Blocked' = Blocked \ S /\ Woken' = Woken \cup S
    BY <2>1, WakeOnlySets, SignalsBlocked
  <2>3. LockFree' /\ reservations' = reservations
    BY <1>15 DEF CompletionCallback, LockFree
  <2> QED
    BY <1>5, <2>1, <2>2, <2>3
<1> QED
  BY <1>6, <1>7, <1>8, <1>9, <1>10, <1>11, <1>12, <1>13, <1>14, <1>15, ControllerCases
  DEF SubmitStep, CompleteStep

-----------------------------------------------------------------------------
(* main: MainInv, and nobody left at the controller after wake_all.        *)

LEMMA MainPart ==
  ASSUME AimdInv, [Next]_vars
  PROVE  MainInv'
<1> USE DEF AimdInv, Workers
<1>1. CASE MainStep \/ TimeUp
  BY <1>1, MainInvStep, WorkerIdle DEF WorkerInv
<1>2. ASSUME NEW S \in SUBSET Blocked, wpc' = Wake(wpc, S)
      PROVE  \A w \in Workers : wpc[w] \in {"unborn", "exited"} => wpc'[w] = wpc[w]
  BY <1>2, WakeEffect
<1>3. CASE WakeAll
  <2>1. /\ mpc = "stopping" /\ mpc' = "joining"
        /\ UNCHANGED <<stop_flag, life>>
    BY <1>3 DEF WakeAll, fabricVars
  <2> QED
    BY <2>1 DEF MainInv, MainPcs
<1>4. ASSUME NEW w \in Workers, OutsideStep(w) \/ SubmitStep(w) \/ SpuriousSlot(w)
      PROVE  MainInv'
  <2>1. UNCHANGED <<mainVars, life>>
    BY <1>4 DEF OutsideStep, SubmitStep, SpuriousSlot, AimdLoop, ReapCompleted, ReapAndGoOn, Alloc,
                AllocFails, AwaitDone, Reap, EnterSubmit, Block, Admitted, EnqueueLocked, Account,
                Rejected, WaitSleep, WaitReturn, Create, Destroy, TakeCredit, Enqueue, fabricVars
  <2>2. wpc[w] \notin {"unborn", "exited"}
    BY <1>4 DEF OutsideStep, SubmitStep, SpuriousSlot, AimdLoop, ReapCompleted, ReapAndGoOn, Alloc,
                AllocFails, AwaitDone, Reap, EnterSubmit, Block, Admitted, EnqueueLocked, Account,
                Rejected, At
  <2>3. \A v \in Workers \ {w} : wpc[v] \in {"unborn", "exited"} => wpc'[v] = wpc[v]
    <3>1. CASE Account(w)
      <4>1. PICK S \in SUBSET Blocked : wpc' = [Wake(wpc, S) EXCEPT ![w] = "loop"]
        BY <3>1, SignalsBlocked DEF Account
      <4> QED
        BY <4>1, WakeEffect
    <3>2. CASE ~Account(w)
      BY <1>4, <3>2 DEF OutsideStep, SubmitStep, SpuriousSlot, AimdLoop, ReapCompleted, ReapAndGoOn,
                Alloc, AllocFails, AwaitDone, Reap, EnterSubmit, Block, Admitted, EnqueueLocked,
                Rejected, Goto, WorkerInv
    <3> QED
      BY <3>1, <3>2
  <2> QED
    BY <2>1, <2>2, <2>3, OthersMainInv
<1>5. ASSUME NEW d \in Devices, ServeStep(d)
      PROVE  MainInv'
  <2>1. DeviceStep(d) /\ UNCHANGED <<mainVars, workerVars>>
    BY <1>5 DEF ServeStep, SignalDone, DeviceStep
  <2> QED
    BY <2>1, DeviceWakesOnly, OthersMainInv DEF FabricInv, workerVars
<1>6. ASSUME NEW d \in Devices, CompleteStep(d)
      PROVE  MainInv'
  <2>1. UNCHANGED <<mainVars, life>>
    BY <1>6 DEF CompleteStep, LockCompletion, PostLocked, CompletionCallback, DevPost, fabricVars
  <2>2. wpc' = wpc \/ \E S \in SUBSET Blocked : wpc' = Wake(wpc, S)
    BY <1>6, SignalsBlocked
    DEF CompleteStep, LockCompletion, PostLocked, CompletionCallback, workerVars
  <2> QED
    BY <1>2, <2>1, <2>2, OthersMainInv
<1>7. CASE Wakeups
  BY <1>7, DeviceWakesOnly, OthersMainInv DEF Wakeups, FabricInv, workerVars
<1>8. CASE UNCHANGED vars
  BY <1>8, OthersMainInv DEF vars, fabricVars, workerVars
<1> QED
  BY <1>1, <1>3, <1>4, <1>5, <1>6, <1>7, <1>8, NextCases DEF SubmitStep, CompleteStep

LEMMA AwakePart ==
  ASSUME AimdInv, [Next]_vars
  PROVE  AwakeInv'
<1> USE DEF AimdInv, Workers, AwakeInv
<1>1. CASE mpc' \in {"starting", "sleeping", "stopping"}
  BY <1>1
<1>2. CASE WakeAll
  <2>1. LockFree' /\ \A w \in Workers : wpc'[w] # "blocked"
    <3>1. Blocked' = {} /\ LockFree'
      BY <1>2, WakeOnlySets DEF WakeAll, ctlVars, LockFree
    <3> QED
      BY <3>1 DEF Blocked, At
  <2>2. \A w \in Workers : wpc'[w] \notin Inside
    BY <2>1, LockPart, ThreadsAssumption DEF LockInv, LockFree
  <2> QED
    BY <2>1, <2>2
<1>3. ASSUME ~WakeAll, mpc \in {"starting", "sleeping", "stopping"}
      PROVE  mpc' \in {"starting", "sleeping", "stopping"}
  <2> USE DEF mainVars
  <2>1. CASE MainStep \/ TimeUp
    BY <1>3, <2>1 DEF MainStep, StartWorker, StartDone, StartFails, JoinWorkers, DestroyFabric,
                      TimeUp, MainInv, Lives, FabricInv, TypeInv, StopBroadcast, StopJoin
  <2>2. ASSUME NEW w \in Workers, OutsideStep(w) \/ SubmitStep(w) \/ SpuriousSlot(w)
        PROVE  mpc' = mpc
    BY <2>2 DEF OutsideStep, SubmitStep, SpuriousSlot, AimdLoop, ReapCompleted, ReapAndGoOn, Alloc,
                AllocFails, AwaitDone, Reap, EnterSubmit, Block, Admitted, EnqueueLocked, Account,
                Rejected
  <2>3. ASSUME NEW d \in Devices, ServeStep(d) \/ CompleteStep(d)
        PROVE  mpc' = mpc
    BY <2>3 DEF ServeStep, SignalDone, CompleteStep, LockCompletion, PostLocked, CompletionCallback
  <2>4. CASE Wakeups \/ UNCHANGED vars
    BY <1>3, <2>4 DEF Wakeups, vars
  <2> QED
    BY <1>3, <2>1, <2>2, <2>3, <2>4, NextCases DEF SubmitStep, CompleteStep
<1>4. ASSUME ~WakeAll, mpc \notin {"starting", "sleeping", "stopping"}
      PROVE  AwakeInv'
  <2>1. /\ stop_flag
        /\ \A w \in Workers : wpc[w] \notin {"blocked"} \cup Inside
    BY <1>4 DEF MainInv
  <2>2. CASE Quiet
    BY <2>1, <2>2 DEF Quiet, AtController, Inside
  <2>3. ASSUME NEW w \in Workers, EnterSubmit(w)
        PROVE  AwakeInv'
    BY <2>1, <2>3 DEF EnterSubmit, Goto, WorkerInv, Inside
  <2>4. ASSUME NEW w \in Workers, \/ Block(w) \/ Admitted(w) \/ EnqueueLocked(w) \/ Account(w)
                                  \/ Rejected(w) \/ SpuriousSlot(w)
        PROVE  FALSE
    BY <2>1, <2>4 DEF Block, Admitted, EnqueueLocked, Account, Rejected, SpuriousSlot, At, Inside
  <2>5. ASSUME NEW d \in Devices, CompleteStep(d)
        PROVE  AwakeInv'
    <3>1. wpc' = wpc \/ \E S \in SUBSET Blocked : wpc' = Wake(wpc, S)
      BY <2>5, SignalsBlocked
      DEF CompleteStep, LockCompletion, PostLocked, CompletionCallback, workerVars
    <3> QED
      BY <2>1, <3>1, WakeEffect
  <2> QED
    BY <1>4, <2>2, <2>3, <2>4, <2>5, ControllerCases DEF SubmitStep
<1> QED
  BY <1>1, <1>2, <1>3, <1>4

-----------------------------------------------------------------------------
(* The theorems.                                                           *)

LEMMA AimdInitInv ==
  ASSUME Init
  PROVE  AimdInv
<1> USE DEF Init, MainInit, Workers
<1>1. FabricInv
  BY FabricInitInv
<1>2. MainInv
  BY DEF FabricInit, MainInv, MainPcs
<1>3. WorkerInv
  BY DEF FabricInit, WorkerInv, WorkerPcs, Owns
<1>4. LockInv
  BY ThreadsAssumption, DisjointAssumption DEF LockInv, Inside
<1>5. AccountsInv
  <2>1. ~Taken /\ ~Returned
    BY ThreadsAssumption, DisjointAssumption DEF Taken, Returned
  <2> QED
    BY <2>1, DepthAssumption DEF AccountsInv, FabricInit
<1>6. WindowInv /\ ClimbInv /\ TestedInv
  BY ClimbSum, DepthAssumption DEF WindowInv, ClimbInv, TestedInv, MaxCwnd
<1>7. Blocked = {} /\ Woken = {}
  BY DEF Blocked, Woken, At
<1>8. WaitersCounted /\ NoIdleSlot /\ AwakeInv
  BY <1>7, FS_EmptySet DEF WaitersCounted, NoIdleSlot, AwakeInv
<1> QED
  BY <1>1, <1>2, <1>3, <1>4, <1>5, <1>6, <1>8 DEF AimdInv

LEMMA AimdStepInv ==
  ASSUME AimdInv, [Next]_vars
  PROVE  AimdInv'
<1>1. FabricInv'
  BY AimdFabricStep, FabricStepInv DEF AimdInv
<1> QED
  BY <1>1, MainPart, WorkerPart, LockPart, AccountsPart, WindowPart, ClimbPart, TestedPart, WaitersPart,
     SlotPart, AwakePart DEF AimdInv

(* The inductive invariant of the policy, its controller and main.         *)
THEOREM AimdInvariant == Spec => []AimdInv
<1>1. Init => AimdInv
  BY AimdInitInv
<1>2. AimdInv /\ [Next]_vars => AimdInv'
  BY AimdStepInv
<1> QED
  BY <1>1, <1>2, PTL DEF Spec

(* run_aimd and aimd_try_submit use the fabric as its API demands: all     *)
(* that is proved of CxlFabric holds under the controller's locking too,   *)
(* and no request is left when main calls cxl_fabric_destroy.              *)
THEOREM AimdKeepsProtocol == Spec => FabricSpec
<1>1. Init => FabricInit
  BY DEF Init
<1>2. AimdInv /\ [Next]_vars => [FabricNext]_fabricVars
  BY AimdFabricStep
<1> QED
  BY <1>1, <1>2, AimdInvariant, PTL DEF Spec, FabricSpec

(* So what is proved of the fabric holds of the program in mode aimd, with *)
(* sem_post and the completion callback under the controller's lock.       *)
THEOREM AimdFabricSafe ==
  Spec => [](CreditConservation /\ NoUseAfterFree /\ NoLostCompletion /\ WorkConserving)
  BY AimdKeepsProtocol, CreditsConserved, NoAccessAfterFree, CompletionNotLost, NoIdleDevice, PTL

(* Every variable of the controller stays in its range; in particular      *)
(* waiting_workers, inflight and reservations never wrap below zero.       *)
THEOREM AimdTypeCorrect == Spec => []AimdTypeOK
<1>1. AimdInv => AimdTypeOK
  <2> SUFFICES ASSUME AimdInv PROVE AimdTypeOK
    OBVIOUS
  <2> USE DEF AimdInv
  <2>1. MainTypeOK
    BY DEF MainInv, WorkerInv, MainTypeOK, Workers
  <2>2. waiting \in 0..Cardinality(Workers)
    BY WaitersFinite, ThreadsAssumption, FS_Subset, FS_CardinalityType
    DEF WaitersCounted, Blocked, Woken, Workers
  <2>3. acks \in 0..QueueDepth /\ reservations \in 0..1
    BY DepthAssumption DEF WindowInv, LockInv, MaxCwnd
  <2> QED
    BY <2>1, <2>2, <2>3 DEF AimdTypeOK, WorkerInv, LockInv, AccountsInv, WindowInv, ClimbInv
<1> QED
  BY <1>1, AimdInvariant, PTL

(* "Credit release and this accounting are therefore atomic": whoever      *)
(* takes the controller's lock finds every credit either in the semaphore  *)
(* or counted in inflight (aimd_try_submit, complete_request).             *)
THEOREM AimdAccountsAgree == Spec => []CreditsMatchInflight
<1>1. AimdInv => CreditsMatchInflight
  <2> SUFFICES ASSUME AimdInv, LockFree PROVE credits + inflight = QueueDepth /\ reservations = 0
    BY DEF CreditsMatchInflight
  <2>1. ~Taken /\ ~Returned
    BY HolderAccounts DEF AimdInv
  <2> QED
    BY <2>1, DepthAssumption, ThreadsAssumption DEF AimdInv, AccountsInv, LockInv, LockFree, Workers
<1> QED
  BY <1>1, AimdInvariant, PTL

(* waiting_workers is the number of workers in pthread_cond_wait, those    *)
(* signalled but not yet running included, whatever wake-ups are spurious. *)
THEOREM AimdWaitersExact == Spec => []WaitersCounted
<1>1. AimdInv => WaitersCounted
  BY DEF AimdInv
<1> QED
  BY <1>1, AimdInvariant, PTL

(* No signal on slot_available is missing: workers stay blocked beside     *)
(* free credits only if as many others as there are slots are on their way.*)
THEOREM AimdNoIdleSlot == Spec => []NoIdleSlot
<1>1. AimdInv => NoIdleSlot
  BY DEF AimdInv
<1> QED
  BY <1>1, AimdInvariant, PTL

(* Until the stop no worker is blocked without a wake-up to come: a worker *)
(* that has been signalled is on its way, or requests are in flight, the   *)
(* last of which makes room in any window.                                 *)
WakeUpToCome ==
  LockFree /\ ~stop_flag /\ Blocked # {} => Woken # {} \/ inflight > 0

(* pthread_cond_wait in aimd_try_submit never waits for nothing. With no   *)
(* request in flight all credits are there, and NoIdleSlot tells of a      *)
(* worker that has been signalled.                                         *)
THEOREM AimdWakeUpToCome == Spec => []WakeUpToCome
<1>1. AimdInv => WakeUpToCome
  <2> SUFFICES ASSUME AimdInv, LockFree, ~stop_flag, Blocked # {}, Woken = {}, ~(inflight > 0)
               PROVE  FALSE
    BY DEF WakeUpToCome
  <2>1. inflight = 0 /\ credits > 0
    <3>1. ~Taken /\ ~Returned
      BY HolderAccounts DEF AimdInv
    <3> QED
      BY <3>1, DepthAssumption DEF AimdInv, AccountsInv, FabricInv, TypeInv
  <2>2. Cardinality(Woken) = 0
    BY FS_EmptySet
  <2>3. cwnd \in Int /\ cwnd >= 1
    BY DEF AimdInv, WindowInv
  <2> QED
    BY <2>1, <2>2, <2>3 DEF AimdInv, NoIdleSlot
<1> QED
  BY <1>1, AimdInvariant, PTL

(* aimd_controller_wake_all reaches every blocked worker, and none blocks  *)
(* after it: main's join does not wait for a sleeper.                      *)
THEOREM AimdNobodyLeftBlocked == Spec => []NobodyBlockedAfterWakeAll
<1>1. AimdInv => NobodyBlockedAfterWakeAll
  BY DEF AimdInv, AwakeInv, NobodyBlockedAfterWakeAll, Blocked, At
<1> QED
  BY <1>1, AimdInvariant, PTL

(* The three kinds of lock. queue_lock is held for straight-line code only,*)
(* so nobody waits while holding it. A request's lock is wanted by its     *)
(* owner and the thread that serves it, the controller's by the workers    *)
(* that submit and the threads that complete. main holds no lock.          *)
WantsRequest(t, r) ==
  \/ t \in Workers /\ r = t /\ wpc[t] \in {"check", "wait"} /\ stage[t] = "submitted"
  \/ t \in Devices /\ r = serving[t] /\ dpc[t] = "serving"

HoldsRequest(u, r) == u \in Devices /\ r = serving[u] /\ dpc[u] \in {"locked", "posted"}

WantsController(t) ==
  \/ t \in Workers /\ wpc[t] \in {"lock", "woken"}
  \/ t \in Devices /\ dpc[t] = "locked" /\ lock # t

WaitsFor(t, u) ==
  \/ \E r \in Requests : WantsRequest(t, r) /\ HoldsRequest(u, r)
  \/ WantsController(t) /\ lock = u

(* Three threads never wait in a row, so no threads wait in a circle: a    *)
(* wait for a request leads at most to one for the controller, and that to *)
(* a thread that waits for no lock.                                        *)
NoCircularWait ==
  \A t, u, v, x \in Workers \cup Devices :
    ~(WaitsFor(t, u) /\ WaitsFor(u, v) /\ WaitsFor(v, x))

LEMMA HolderWaitsForNobody ==
  ASSUME AimdInv, NEW u \in Workers \cup Devices, lock = u, NEW x
  PROVE  ~WaitsFor(u, x)
<1>1. CASE u \in Workers
  <2>1. wpc[u] \in {"full", "admit", "enqueue", "account"}
    BY <1>1 DEF AimdInv, LockInv, Inside
  <2>2. u \notin Devices
    BY <1>1, DisjointAssumption DEF Workers
  <2> QED
    BY <2>1, <2>2 DEF WaitsFor, WantsRequest, WantsController
<1>2. CASE u \in Devices
  <2>1. dpc[u] \in {"locked", "posted"} /\ u \notin Workers
    BY <1>2, DisjointAssumption DEF AimdInv, LockInv, Workers
  <2> QED
    BY <2>1 DEF WaitsFor, WantsRequest, WantsController
<1> QED
  BY <1>1, <1>2

(* complete_request takes the controller's lock while it holds a request's,*)
(* aimd_try_submit calls into the fabric while it holds the controller's:  *)
(* whatever the interleaving, they do not wait for each other.             *)
THEOREM AimdNoCircularWait == Spec => []NoCircularWait
<1>1. AimdInv => NoCircularWait
  <2> SUFFICES ASSUME AimdInv, NEW t \in Workers \cup Devices, NEW u \in Workers \cup Devices,
                      NEW v \in Workers \cup Devices, NEW x \in Workers \cup Devices,
                      WaitsFor(t, u), WaitsFor(u, v), WaitsFor(v, x)
               PROVE  FALSE
    BY DEF NoCircularWait
  <2>1. lock # u /\ lock # v
    BY HolderWaitsForNobody
  <2>2. PICK r \in Requests : HoldsRequest(u, r)
    BY <2>1 DEF WaitsFor
  <2>3. u \in Devices /\ dpc[u] \in {"locked", "posted"} /\ u \notin Workers
    BY <2>2, DisjointAssumption DEF HoldsRequest, Workers
  <2>4. ~\E q \in Requests : WantsRequest(u, q)
    BY <2>3 DEF WantsRequest
  <2> QED
    BY <2>1, <2>4 DEF WaitsFor
<1> QED
  BY <1>1, AimdInvariant, PTL

(* After the join every attempt has been counted as a success or a retry.  *)
THEOREM AimdAccounting == Spec => []AccountingBalanced
<1>1. AimdInv => AccountingBalanced
  BY WorkerIdle, JoinedIdle DEF AimdInv
<1> QED
  BY <1>1, AimdInvariant, PTL

(* The final metrics are those of an idle controller: after the join       *)
(* nothing is in flight, reserved or waiting and the lock is free.         *)
THEOREM AimdIdleAtJoin == Spec => []ControllerIdleAtJoin
<1>1. AimdInv => ControllerIdleAtJoin
  <2> SUFFICES ASSUME AimdInv, mpc \in {"joined", "destroying", "done"}
               PROVE  LockFree /\ inflight = 0 /\ reservations = 0 /\ waiting = 0
    BY DEF ControllerIdleAtJoin
  <2> USE DEF AimdInv, Workers
  <2>1. \A w \in Workers : wpc[w] \in {"unborn", "exited"} /\ stage[w] = "free"
    BY WorkerIdle DEF MainInv, IdleInv
  <2>2. LockFree
    <3>1. \A w \in Workers : lock # w
      BY <2>1 DEF LockInv, Inside
    <3>2. \A d \in Devices : lock # d
      BY <2>1, ThreadsAssumption DEF LockInv, FabricInv, ServingInv, TypeInv
    <3> QED
      BY <3>1, <3>2 DEF LockInv, LockFree
  <2>3. credits = QueueDepth
    <3>1. Holders = {}
      BY <2>1 DEF Holders, HoldsCredit
    <3> QED
      BY <3>1, FS_EmptySet, DepthAssumption DEF FabricInv, TypeInv, CreditConservation
  <2>4. inflight = 0 /\ reservations = 0
    BY <2>2, <2>3, HolderAccounts, DepthAssumption, ThreadsAssumption
    DEF AccountsInv, LockInv, LockFree
  <2>5. waiting = 0
    <3>1. Blocked \cup Woken = {}
      BY <2>1 DEF Blocked, Woken, At
    <3> QED
      BY <3>1, FS_EmptySet DEF WaitersCounted
  <2> QED
    BY <2>2, <2>4, <2>5
<1> QED
  BY <1>1, AimdInvariant, PTL

(* "Suppress repeated decreases": the window is cut only when a probe      *)
(* beyond all credits is rejected, and never twice within a window's worth *)
(* of completions, however many workers see the same congestion.           *)
THEOREM AimdCutsOnce == Spec => CutsOncePerWindow
<1> DEFINE Cut == cwnd' < cwnd => cwnd = MaxCwnd /\ inflight = QueueDepth /\ since >= cwnd
<1>1. ASSUME AimdInv, [Next]_vars
      PROVE  Cut
  <2> USE DEF AimdInv, Workers
  <2>1. cwnd \in Nat /\ holdoff \in Nat /\ since \in Nat /\ holdoff + since >= MaxCwnd /\ cwnd <= MaxCwnd
    BY <1>1, DepthAssumption DEF WindowInv, MaxCwnd
  <2>2. CASE cwnd' = cwnd
    BY <2>1, <2>2
  <2>3. CASE Quiet \/ WakeAll
    BY <2>2, <2>3 DEF Quiet, WakeAll, ctlVars
  <2>4. ASSUME NEW w \in Workers, SubmitStep(w) \/ SpuriousSlot(w)
        PROVE  Cut
    <3>1. CASE Rejected(w) /\ holdoff = 0
      <4>1. wpc[w] = "admit" /\ credits = 0
        BY <3>1 DEF Rejected, At
      <4>2. lock = w
        BY <1>1, <4>1 DEF LockInv, Inside
      <4>3. ~Taken /\ ~Returned
        BY <1>1, <4>1, <4>2, HolderAccounts
      <4>4. inflight = QueueDepth /\ inflight < cwnd
        BY <1>1, <4>1, <4>3, DepthAssumption DEF AccountsInv, TestedInv
      <4> QED
        BY <2>1, <3>1, <4>4, DepthAssumption DEF MaxCwnd
    <3>2. CASE ~(Rejected(w) /\ holdoff = 0)
      BY <2>2, <2>4, <3>2 DEF SubmitStep, SpuriousSlot, EnterSubmit, Block, Admitted, EnqueueLocked,
                              Account, Rejected, ctlVars, windowVars
    <3> QED
      BY <3>1, <3>2
  <2>5. ASSUME NEW d \in Devices, CompleteStep(d)
        PROVE  Cut
    BY <2>1, <2>2, <2>5
    DEF CompleteStep, LockCompletion, PostLocked, CompletionCallback, Acked, GrownWindow, ctlVars
  <2> QED
    BY <1>1, <2>3, <2>4, <2>5, ControllerCases
<1>2. AimdInv /\ [Next]_vars => [Cut]_vars
  BY <1>1
<1> QED
  BY <1>2, AimdInvariant, PTL DEF Spec, CutsOncePerWindow

(* A cut is not for ever: 1 + 2 + ... + QueueDepth completions after one,  *)
(* the controller probes beyond the credits again, however many workers    *)
(* were rejected in between.                                               *)
THEOREM AimdRecoversInTime == Spec => []RecoversInTime
<1>1. AimdInv => RecoversInTime
  <2> SUFFICES ASSUME AimdInv, climb = WindowClimb, cwnd # MaxCwnd
               PROVE  FALSE
    BY DEF RecoversInTime
  <2> USE DEF AimdInv
  <2>1. /\ cwnd \in 1..QueueDepth /\ cwnd < MaxCwnd /\ acks \in 0..(cwnd - 1)
        /\ QueueDepth \in Nat
    BY DepthAssumption DEF WindowInv, MaxCwnd
  <2>2. cwnd * (cwnd - 1) + 2 * acks < QueueDepth * (QueueDepth + 1)
    BY <2>1, ShortOfSum
  <2>3. QueueDepth * (QueueDepth + 1) <= cwnd * (cwnd - 1) + 2 * acks
    BY <2>1, ClimbSum DEF ClimbInv
  <2>4. cwnd * (cwnd - 1) + 2 * acks \in Int /\ QueueDepth * (QueueDepth + 1) \in Int
    BY <2>1
  <2> QED
    BY <2>2, <2>3, <2>4
<1> QED
  BY <1>1, AimdInvariant, PTL
-----------------------------------------------------------------------------
(* ControllerTime: AimdWorkers under a clock. Its steps are those of       *)
(* AimdWorkers, so that AimdInv holds, and passings of time.               *)

Pending == now - last_update

(* While a worker holds the lock, all the time since the last update has   *)
(* been spent under it: so much of in_section is not used up yet.          *)
Spent == IF lock \in Workers THEN in_section - Pending ELSE in_section

TimeInv ==
  /\ now \in Nat /\ last_update \in 0..now /\ observation = last_update
  /\ cwnd_time \in Nat /\ inflight_time \in Nat
  /\ true_cwnd \in Nat /\ true_inflight \in Nat
  /\ in_section \in Nat /\ Spent >= 0
  /\ Distance(inflight_time + inflight * Pending, true_inflight) <= Spent
  /\ Distance(cwnd_time + cwnd * Pending, true_cwnd) <= Spent * LargestCut

(* The averages are in range whenever they are taken.                      *)
AveragesInv ==
  /\ inflight <= max_inflight
  /\ observation <= cwnd_time /\ cwnd_time <= MaxCwnd * observation
  /\ inflight_time <= max_inflight * observation

(* Time has passed when main comes past its sleep, so that there is some   *)
(* to take the averages over; what the metrics say stays in range.         *)
MetricsInv ==
  /\ slept => now > 0
  /\ MetricsInRange

TimedInv == AimdInv /\ TimeInv /\ AveragesInv /\ MetricsInv

(* Arithmetic of an integral i of v over time p against the exact one.     *)
LEMMA TimePasses ==
  ASSUME NEW i \in Int, NEW v \in Int, NEW p \in Int, NEW t \in Int
  PROVE  Distance(i + v * (p + 1), t + v) = Distance(i + v * p, t)
<1>1. v * (p + 1) = v * p + v
  OBVIOUS
<1>2. v * p \in Int
  OBVIOUS
<1> QED
  BY <1>1, <1>2 DEF Distance

(* The value changes by k at most: p is booked at the new value.           *)
LEMMA ValueChanges ==
  ASSUME NEW i \in Int, NEW v \in Int, NEW u \in Int, NEW p \in Nat, NEW t \in Int, NEW k \in Nat,
         Distance(u, v) <= k, NEW s \in Int, Distance(i + v * p, t) <= (s - p) * k
  PROVE  Distance(i + u * p, t) <= s * k
<1> DEFINE w == u - v
<1>1. w \in Int /\ -k <= w /\ w <= k
  BY DEF Distance
<1>2. w * p <= k * p /\ -(k * p) <= w * p
  BY <1>1
<1>3. u * p = v * p + w * p
  OBVIOUS
<1>4. (s - p) * k = s * k - k * p
  OBVIOUS
<1>5. /\ v * p \in Int /\ w * p \in Int /\ k * p \in Int /\ s * k \in Int
  BY <1>1
<1> HIDE DEF w
<1> QED
  BY <1>2, <1>3, <1>4, <1>5 DEF Distance

LEMMA Products ==
  ASSUME NEW a \in Nat, NEW b \in Nat, NEW n \in Nat, a <= b
  PROVE  a * n \in Nat /\ b * n \in Nat /\ a * n <= b * n
  OBVIOUS

LEMMA CutAtMost ==
  ASSUME AimdInv
  PROVE  /\ LargestCut \in Nat
         /\ cwnd \in 1..MaxCwnd /\ CutWindow \in 1..cwnd /\ cwnd - CutWindow <= LargestCut
<1>1. QueueDepth \in Nat /\ cwnd \in 1..MaxCwnd
  BY DepthAssumption DEF AimdInv, WindowInv
<1> QED
  BY <1>1 DEF LargestCut, CutWindow, MaxCwnd

(* What a step does to lock, cwnd and inflight if it does not update the   *)
(* integrals: nothing, or a worker leaves the section it was in.           *)
LEMMA NoUpdateStep ==
  ASSUME AimdInv, Next, ~CallsUpdate
  PROVE  \/ /\ UNCHANGED <<cwnd, inflight, max_inflight>>
            /\ lock' \in Workers <=> lock \in Workers
         \/ /\ lock \in Workers /\ lock' \notin Workers
            /\ \/ UNCHANGED <<cwnd, inflight, max_inflight>>
               \/ cwnd' = CutWindow /\ UNCHANGED <<inflight, max_inflight>>
               \/ inflight' = inflight + 1 /\ max_inflight' = NewMaximum /\ UNCHANGED cwnd
<1> USE DEF AimdInv, Workers
<1> USE ThreadsAssumption, DisjointAssumption
<1>1. CASE Quiet \/ WakeAll
  BY <1>1 DEF Quiet, WakeAll, ctlVars
<1>2. ASSUME NEW w \in Workers, SubmitStep(w) \/ SpuriousSlot(w)
      PROVE  \/ UNCHANGED <<lock, cwnd, inflight, max_inflight>>
             \/ /\ lock = w /\ lock' = NoReq
                /\ \/ UNCHANGED <<cwnd, inflight, max_inflight>>
                   \/ cwnd' = CutWindow /\ UNCHANGED <<inflight, max_inflight>>
                   \/ inflight' = inflight + 1 /\ max_inflight' = NewMaximum /\ UNCHANGED cwnd
  <2>1. CASE EnterSubmit(w)
    BY <2>1 DEF CallsUpdate
  <2>2. CASE Admitted(w) \/ EnqueueLocked(w) \/ SpuriousSlot(w)
    BY <2>2 DEF Admitted, EnqueueLocked, SpuriousSlot, ctlVars
  <2>3. CASE Block(w) \/ Account(w) \/ Rejected(w)
    <3>1. lock = w
      BY <2>3 DEF Block, Account, Rejected, At, LockInv, Inside
    <3> QED
      BY <2>3, <3>1 DEF Block, Account, Rejected, windowVars
  <2> QED
    BY <1>2, <2>1, <2>2, <2>3 DEF SubmitStep
<1>3. ASSUME NEW d \in Devices, CompleteStep(d)
      PROVE  UNCHANGED <<cwnd, inflight, max_inflight>> /\ (lock' \in Workers <=> lock \in Workers)
  <2>1. CASE CompletionCallback(d)
    BY <2>1 DEF CallsUpdate
  <2>2. CASE LockCompletion(d) \/ PostLocked(d)
    BY <2>2 DEF LockCompletion, PostLocked, ctlVars, LockFree
  <2> QED
    BY <1>3, <2>1, <2>2 DEF CompleteStep
<1> QED
  BY <1>1, <1>2, <1>3, ControllerCases

(* And if it does: a worker enters a section, or a completion changes the  *)
(* values after the update.                                                *)
LEMMA UpdateStep ==
  ASSUME AimdInv, CallsUpdate
  PROVE  /\ lock \notin Workers
         /\ max_inflight' = max_inflight /\ inflight' <= inflight
<1> USE ThreadsAssumption, DisjointAssumption
<1>1. inflight \in Nat
  BY DepthAssumption DEF AimdInv, AccountsInv
<1>2. ASSUME NEW w \in Workers, EnterSubmit(w)
      PROVE  lock \notin Workers /\ UNCHANGED <<inflight, max_inflight>>
  BY <1>2 DEF EnterSubmit, LockFree, Workers
<1>3. ASSUME NEW d \in Devices, CompletionCallback(d)
      PROVE  lock \notin Workers /\ max_inflight' = max_inflight /\ inflight' <= inflight
  BY <1>1, <1>3 DEF CompletionCallback, Workers
<1> QED
  BY <1>1, <1>2, <1>3 DEF CallsUpdate

LEMMA TimedTypes ==
  ASSUME TimedInv
  PROVE  /\ now \in Nat /\ last_update \in Nat /\ Pending \in Nat
         /\ cwnd \in Nat /\ inflight \in Nat /\ max_inflight \in Nat /\ MaxCwnd \in Nat
         /\ cwnd_time \in Nat /\ inflight_time \in Nat /\ in_section \in Nat /\ Spent \in Int
         /\ true_cwnd \in Nat /\ true_inflight \in Nat /\ LargestCut \in Nat
<1>1. /\ now \in Nat /\ last_update \in 0..now /\ in_section \in Nat
      /\ cwnd_time \in Nat /\ inflight_time \in Nat /\ true_cwnd \in Nat /\ true_inflight \in Nat
  BY DEF TimedInv, TimeInv
<1>2. Pending \in Nat /\ Spent \in Int
  BY <1>1 DEF Pending, Spent
<1>3. inflight \in Nat /\ max_inflight \in Nat /\ MaxCwnd \in Nat /\ QueueDepth \in Nat
  BY DepthAssumption DEF TimedInv, AimdInv, AccountsInv, MaxCwnd
<1> QED
  BY <1>1, <1>2, <1>3, CutAtMost DEF TimedInv

(* controller_update_time_locked: the pending time is booked, exactly.     *)
LEMMA Booked ==
  ASSUME TimedInv, UpdateTime, now' = now
  PROVE  /\ last_update' = now /\ observation' = now /\ Pending' = 0
         /\ cwnd_time' = cwnd_time + cwnd * Pending
         /\ inflight_time' = inflight_time + inflight * Pending
         /\ cwnd_time' \in Nat /\ inflight_time' \in Nat
<1>1. /\ now \in Nat /\ last_update \in 0..now /\ observation = last_update
  BY DEF TimedInv, TimeInv
<1>2. /\ last_update' = now /\ observation' = now /\ Pending' = 0
      /\ cwnd_time' = cwnd_time + cwnd * Pending
      /\ inflight_time' = inflight_time + inflight * Pending
  BY <1>1 DEF UpdateTime, Pending
<1>3. cwnd * Pending \in Nat /\ inflight * Pending \in Nat
  BY TimedTypes
<1> QED
  BY <1>2, <1>3, TimedTypes

LEMMA TickTime ==
  ASSUME TimedInv, Tick
  PROVE  TimeInv' /\ AveragesInv'
<1>1. /\ now' = now + 1 /\ true_cwnd' = true_cwnd + cwnd /\ true_inflight' = true_inflight + inflight
      /\ in_section' = in_section + (IF lock \in Workers THEN 1 ELSE 0)
      /\ UNCHANGED <<lock, cwnd, inflight, max_inflight>>
      /\ UNCHANGED <<last_update, cwnd_time, inflight_time, observation>>
  BY DEF Tick, vars, ctlVars, integrals
<1>2. Pending' = Pending + 1 /\ Spent' = Spent
  BY <1>1, TimedTypes DEF Pending, Spent
<1>3. /\ Distance(inflight_time + inflight * (Pending + 1), true_inflight + inflight)
           = Distance(inflight_time + inflight * Pending, true_inflight)
      /\ Distance(cwnd_time + cwnd * (Pending + 1), true_cwnd + cwnd)
           = Distance(cwnd_time + cwnd * Pending, true_cwnd)
  BY TimePasses, TimedTypes
<1>4. LargestCut' = LargestCut
  BY DEF LargestCut, MaxCwnd
<1>5. /\ Distance(inflight_time + inflight * Pending, true_inflight)'
           = Distance(inflight_time + inflight * Pending, true_inflight)
      /\ Distance(cwnd_time + cwnd * Pending, true_cwnd)'
           = Distance(cwnd_time + cwnd * Pending, true_cwnd)
  BY <1>1, <1>2, <1>3 DEF Distance
<1>6. TimeInv'
  <2>1. /\ now' \in Nat /\ last_update' \in 0..now' /\ observation' = last_update'
        /\ true_cwnd' \in Nat /\ true_inflight' \in Nat /\ in_section' \in Nat
    BY <1>1, TimedTypes DEF TimedInv, TimeInv
  <2> QED
    BY <1>1, <1>2, <1>4, <1>5, <2>1 DEF TimedInv, TimeInv
<1> QED
  BY <1>1, <1>6 DEF TimedInv, AveragesInv, MaxCwnd

(* An update books the pending time and leaves the distances as they are,  *)
(* whatever becomes of cwnd and inflight afterwards.                       *)
LEMMA UpdateTimeInv ==
  ASSUME TimedInv, UpdateTime, UNCHANGED <<now, history>>, lock \notin Workers,
         NEW c \in Int, cwnd' = c, NEW f \in Int, inflight' = f
  PROVE  TimeInv'
<1>1. /\ last_update' = now /\ observation' = now /\ Pending' = 0
      /\ cwnd_time' = cwnd_time + cwnd * Pending
      /\ inflight_time' = inflight_time + inflight * Pending
      /\ cwnd_time' \in Nat /\ inflight_time' \in Nat
  BY Booked
<1>2. UNCHANGED <<now, true_cwnd, true_inflight, in_section>>
  BY DEF history
<1>3. Spent = in_section /\ Spent' = in_section
  BY <1>1, <1>2, TimedTypes DEF Spent
<1>4. c * 0 = 0 /\ f * 0 = 0
  OBVIOUS
<1>5. cwnd_time' + cwnd' * Pending' = cwnd_time' /\ inflight_time' + inflight' * Pending' = inflight_time'
  BY <1>1, <1>4
<1>6. LargestCut' = LargestCut
  BY DEF LargestCut, MaxCwnd
<1>7. /\ Distance(inflight_time + inflight * Pending, true_inflight)'
           = Distance(inflight_time + inflight * Pending, true_inflight)
      /\ Distance(cwnd_time + cwnd * Pending, true_cwnd)'
           = Distance(cwnd_time + cwnd * Pending, true_cwnd)
  BY <1>1, <1>2, <1>5 DEF Distance
<1> QED
  BY <1>1, <1>2, <1>3, <1>6, <1>7, TimedTypes DEF TimedInv, TimeInv

(* The same for the averages; the maximum does not change in an update.    *)
LEMMA UpdateAverages ==
  ASSUME TimedInv, UpdateTime, now' = now, max_inflight' = max_inflight, inflight' <= inflight,
         inflight' \in Nat
  PROVE  AveragesInv'
<1>1. /\ observation' = observation + Pending
      /\ cwnd_time' = cwnd_time + cwnd * Pending
      /\ inflight_time' = inflight_time + inflight * Pending
  BY Booked, TimedTypes DEF TimedInv, TimeInv, Pending
<1>2. /\ 1 <= cwnd /\ cwnd <= MaxCwnd /\ inflight <= max_inflight /\ observation \in Nat
      /\ MaxCwnd' = MaxCwnd
  BY TimedTypes, CutAtMost DEF TimedInv, TimeInv, AveragesInv, MaxCwnd
<1>3. /\ 1 * Pending <= cwnd * Pending /\ cwnd * Pending <= MaxCwnd * Pending
      /\ inflight * Pending <= max_inflight * Pending
      /\ cwnd * Pending \in Nat /\ MaxCwnd * Pending \in Nat
      /\ inflight * Pending \in Nat /\ max_inflight * Pending \in Nat
  BY <1>2, TimedTypes, Products
<1>4. /\ MaxCwnd * (observation + Pending) = MaxCwnd * observation + MaxCwnd * Pending
      /\ max_inflight * (observation + Pending) = max_inflight * observation + max_inflight * Pending
      /\ 1 * Pending = Pending
      /\ MaxCwnd * observation \in Nat /\ max_inflight * observation \in Nat
  BY <1>2, TimedTypes
<1>5. inflight' <= max_inflight'
  BY <1>2, TimedTypes
<1>6. /\ observation + Pending <= cwnd_time + cwnd * Pending
      /\ cwnd_time + cwnd * Pending <= MaxCwnd * (observation + Pending)
      /\ inflight_time + inflight * Pending <= max_inflight * (observation + Pending)
  BY <1>2, <1>3, <1>4, TimedTypes DEF TimedInv, AveragesInv
<1> QED
  BY <1>1, <1>2, <1>5, <1>6 DEF AveragesInv

(* A step without an update: the time that is pending when a worker leaves *)
(* its section with new values was all spent in that section.              *)
LEMMA NoUpdateInv ==
  ASSUME TimedInv, Next, ~CallsUpdate, UNCHANGED <<now, integrals, history>>
  PROVE  TimeInv' /\ AveragesInv'
<1>1. /\ UNCHANGED <<now, last_update, cwnd_time, inflight_time, observation>>
      /\ UNCHANGED <<true_cwnd, true_inflight, in_section>> /\ Pending' = Pending
      /\ LargestCut' = LargestCut /\ MaxCwnd' = MaxCwnd
  BY DEF integrals, history, Pending, LargestCut, MaxCwnd
<1>2. CASE UNCHANGED <<cwnd, inflight, max_inflight>> /\ (lock' \in Workers <=> lock \in Workers)
  <2>1. /\ Spent' = Spent
        /\ Distance(inflight_time + inflight * Pending, true_inflight)'
             = Distance(inflight_time + inflight * Pending, true_inflight)
        /\ Distance(cwnd_time + cwnd * Pending, true_cwnd)'
             = Distance(cwnd_time + cwnd * Pending, true_cwnd)
    BY <1>1, <1>2 DEF Spent, Workers, Distance
  <2> QED
    BY <1>1, <1>2, <2>1 DEF TimedInv, TimeInv, AveragesInv
<1>3. ASSUME lock \in Workers, lock' \notin Workers,
             \/ UNCHANGED <<cwnd, inflight, max_inflight>>
             \/ cwnd' = CutWindow /\ UNCHANGED <<inflight, max_inflight>>
             \/ inflight' = inflight + 1 /\ max_inflight' = NewMaximum /\ UNCHANGED cwnd
      PROVE  TimeInv' /\ AveragesInv'
  <2>1. /\ cwnd' \in Nat /\ inflight' \in Nat /\ inflight' \in {inflight, inflight + 1}
        /\ Distance(cwnd', cwnd) <= LargestCut /\ Distance(inflight', inflight) <= 1
    BY <1>3, TimedTypes, CutAtMost DEF TimedInv, Distance
  <2>2. Spent = in_section - Pending /\ Spent' = in_section
    BY <1>1, <1>3 DEF Spent, Workers
  <2>3. /\ Distance(inflight_time + inflight * Pending, true_inflight) <= (in_section - Pending) * 1
        /\ Distance(cwnd_time + cwnd * Pending, true_cwnd) <= (in_section - Pending) * LargestCut
    BY <2>2, TimedTypes DEF TimedInv, TimeInv
  <2> DEFINE c == cwnd'
             f == inflight'
  <2>types. /\ inflight_time \in Int /\ inflight \in Int /\ f \in Int /\ true_inflight \in Int
        /\ cwnd_time \in Int /\ cwnd \in Int /\ c \in Int /\ true_cwnd \in Int
        /\ Pending \in Nat /\ in_section \in Int /\ LargestCut \in Nat /\ 1 \in Nat
        /\ Distance(c, cwnd) <= LargestCut /\ Distance(f, inflight) <= 1
    BY <2>1, TimedTypes
  <2> HIDE DEF c, f
  <2>4. Distance(inflight_time + f * Pending, true_inflight) <= in_section * 1
    BY <2>3, <2>types, ValueChanges, Zenon
  <2>5. Distance(cwnd_time + c * Pending, true_cwnd) <= in_section * LargestCut
    BY <2>3, <2>types, ValueChanges, Zenon
  <2>6. /\ Distance(inflight_time + inflight * Pending, true_inflight)'
             = Distance(inflight_time + f * Pending, true_inflight)
        /\ Distance(cwnd_time + cwnd * Pending, true_cwnd)'
             = Distance(cwnd_time + c * Pending, true_cwnd)
    BY <1>1 DEF Distance, c, f
  <2>7. TimeInv'
    <3>1. /\ now' \in Nat /\ last_update' \in 0..now' /\ observation' = last_update'
          /\ cwnd_time' \in Nat /\ inflight_time' \in Nat
          /\ true_cwnd' \in Nat /\ true_inflight' \in Nat
          /\ in_section' \in Nat /\ Spent' >= 0
      BY <1>1, <2>2, TimedTypes DEF TimedInv, TimeInv
    <3> QED
      BY <1>1, <2>2, <2>4, <2>5, <2>6, <3>1, TimedTypes DEF TimeInv
  <2>8. AveragesInv'
    <3>1. max_inflight' \in Nat /\ max_inflight <= max_inflight' /\ inflight' <= max_inflight'
      BY <1>3, TimedTypes DEF NewMaximum, TimedInv, AveragesInv
    <3>2. observation \in Nat
      BY TimedTypes DEF TimedInv, TimeInv
    <3>3. /\ max_inflight * observation <= max_inflight' * observation
          /\ max_inflight * observation \in Nat /\ max_inflight' * observation \in Nat
      BY <3>1, <3>2, TimedTypes, Products
    <3> QED
      BY <1>1, <3>1, <3>3, TimedTypes DEF TimedInv, AveragesInv
  <2> QED
    BY <2>7, <2>8
<1> QED
  BY <1>2, <1>3, NoUpdateStep DEF TimedInv

LEMMA TimedInitInv ==
  ASSUME TimedInit
  PROVE  TimedInv
<1> USE DEF TimedInit
<1>1. AimdInv
  BY AimdInitInv
<1>2. Pending = 0 /\ cwnd = 1 /\ inflight = 0 /\ max_inflight = 0 /\ lock = NoReq
  BY DEF Pending, Init
<1>3. cwnd * Pending = 0 /\ inflight * Pending = 0 /\ Spent = 0 /\ LargestCut \in Nat
  BY <1>1, <1>2, ThreadsAssumption, CutAtMost DEF Spent, Workers
<1>4. TimeInv
  BY <1>3 DEF TimeInv, Distance
<1>5. AveragesInv
  BY <1>2, DepthAssumption DEF AveragesInv, MaxCwnd
<1>6. MetricsInv
  BY DEF MetricsInv, MetricsInRange
<1> QED
  BY <1>1, <1>4, <1>5, <1>6 DEF TimedInv

LEMMA TimeStepInv ==
  ASSUME TimedInv, [TimedNext]_<<vars, timeVars>>
  PROVE  AimdInv' /\ TimeInv' /\ AveragesInv'
<1>1. [Next]_vars
  BY DEF TimedNext, Step, Tick, GetMetrics, timeVars
<1>2. AimdInv'
  BY <1>1, AimdStepInv DEF TimedInv
<1>3. cwnd' \in Int /\ inflight' \in Nat
  BY <1>2, DepthAssumption DEF AimdInv, WindowInv, AccountsInv, MaxCwnd
<1>4. CASE Tick
  BY <1>2, <1>4, TickTime
<1>5. CASE Step /\ CallsUpdate
  <2>1. UpdateTime /\ UNCHANGED <<now, history>>
    BY <1>5 DEF Step
  <2>2. now' = now /\ lock \notin Workers /\ max_inflight' = max_inflight /\ inflight' <= inflight
    BY <1>5, <2>1, UpdateStep DEF TimedInv
  <2> QED
    BY <1>2, <1>3, <2>1, <2>2, UpdateTimeInv, UpdateAverages
<1>6. CASE Step /\ ~CallsUpdate
  <2>1. Next /\ UNCHANGED <<now, integrals, history>>
    BY <1>6 DEF Step
  <2> QED
    BY <1>2, <1>6, <2>1, NoUpdateInv
<1>7. CASE GetMetrics
  <2>1. UpdateTime /\ UNCHANGED <<now, history>> /\ UNCHANGED <<lock, cwnd, inflight, max_inflight>>
    BY <1>7 DEF GetMetrics, vars, ctlVars
  <2>2. lock \notin Workers /\ inflight' <= inflight
    BY <1>7, <2>1, ThreadsAssumption, TimedTypes DEF GetMetrics, LockFree, Workers
  <2> QED
    BY <1>2, <1>3, <2>1, <2>2, UpdateTimeInv, UpdateAverages
<1>8. CASE UNCHANGED <<vars, timeVars>>
  <2>1. /\ UNCHANGED <<lock, cwnd, inflight, max_inflight>> /\ UNCHANGED <<now, integrals, history>>
    BY <1>8 DEF vars, ctlVars, timeVars
  <2>2. /\ UNCHANGED <<last_update, cwnd_time, inflight_time, observation>>
        /\ UNCHANGED <<true_cwnd, true_inflight, in_section>>
    BY <2>1 DEF integrals, history
  <2>3. TimeInv' /\ AveragesInv'
    BY <2>1, <2>2 DEF TimedInv, TimeInv, AveragesInv, Spent, Pending, Distance, LargestCut, MaxCwnd,
                      Workers
  <2> QED
    BY <1>2, <2>3
<1> QED
  BY <1>4, <1>5, <1>6, <1>7, <1>8 DEF TimedNext

(* What aimd_controller_get_metrics returns is in range: the update has    *)
(* made the integrals cover all time until now, and there was some.        *)
LEMMA MetricsStepInv ==
  ASSUME TimedInv, [TimedNext]_<<vars, timeVars>>
  PROVE  MetricsInv'
<1>1. AveragesInv' /\ AimdInv'
  BY TimeStepInv
<1>2. ASSUME UNCHANGED <<measured, metrics>>
      PROVE  MetricsInRange'
  BY <1>2 DEF TimedInv, MetricsInv, MetricsInRange, AtLeast, AtMost
<1>3. CASE Tick
  <2>1. UNCHANGED <<measured, metrics, slept>> /\ now' = now + 1
    BY <1>3 DEF Tick, outcome
  <2>2. slept' => now' > 0
    BY <2>1, TimedTypes DEF TimedInv, MetricsInv
  <2> QED
    BY <1>2, <2>1, <2>2 DEF MetricsInv
<1>4. CASE Step
  <2>1. UNCHANGED <<measured, metrics, now>> /\ (slept' => slept \/ TimeUp) /\ (TimeUp => now > 0)
    BY <1>4 DEF Step, Sleeping
  <2> QED
    BY <1>2, <2>1 DEF TimedInv, MetricsInv
<1>5. CASE GetMetrics
  <2>1. /\ slept /\ slept' = slept /\ now' = now /\ UpdateTime /\ max_inflight' = max_inflight
    BY <1>5 DEF GetMetrics, vars, ctlVars
  <2>2. now > 0 /\ now \in Nat
    BY <2>1, TimedTypes DEF TimedInv, MetricsInv
  <2>3. observation' = now /\ cwnd_time' \in Nat /\ inflight_time' \in Nat
    BY <2>1, Booked
  <2>4. metrics' = [avg_cwnd     |-> <<cwnd_time', observation'>>,
                    avg_inflight |-> <<inflight_time', observation'>>,
                    max_inflight |-> max_inflight']
    BY <1>5, <2>1, <2>2, <2>3 DEF GetMetrics, Average
  <2>5. /\ observation' <= cwnd_time' /\ cwnd_time' <= (QueueDepth + 1) * observation'
        /\ inflight_time' <= max_inflight' * observation' /\ max_inflight' <= QueueDepth
    BY <1>1, DepthAssumption DEF AveragesInv, MaxCwnd, AimdInv, AccountsInv
  <2>6. 1 * observation' = observation' /\ 0 * observation' = 0
    BY <2>2, <2>3
  <2>7. MetricsInRange'
    BY <2>3, <2>4, <2>5, <2>6 DEF MetricsInRange, AtLeast, AtMost
  <2> QED
    BY <2>1, <2>2, <2>7 DEF MetricsInv
<1>6. CASE UNCHANGED <<vars, timeVars>>
  BY <1>2, <1>6 DEF timeVars, outcome, TimedInv, MetricsInv
<1> QED
  BY <1>3, <1>4, <1>5, <1>6 DEF TimedNext

LEMMA TimedStepInv ==
  ASSUME TimedInv, [TimedNext]_<<vars, timeVars>>
  PROVE  TimedInv'
  BY TimeStepInv, MetricsStepInv DEF TimedInv

(* The inductive invariant under the clock.                                *)
THEOREM TimedInvariant == TimedSpec => []TimedInv
<1>1. TimedInit => TimedInv
  BY TimedInitInv
<1>2. TimedInv /\ [TimedNext]_<<vars, timeVars>> => TimedInv'
  BY TimedStepInv
<1> QED
  BY <1>1, <1>2, PTL DEF TimedSpec

(* The clock only watches: without it a behaviour is one of AimdWorkers,   *)
(* so that every theorem about AimdWorkers holds under it.                 *)
THEOREM TimedKeepsAimd == TimedSpec => Spec
<1>1. TimedInit => Init
  BY DEF TimedInit
<1>2. [TimedNext]_<<vars, timeVars>> => [Next]_vars
  BY DEF TimedNext, Step, Tick, GetMetrics
<1> QED
  BY <1>1, <1>2, PTL DEF TimedSpec, Spec

(* "Global time-weighted controller measurements": at any moment the       *)
(* integrals of controller_update_time_locked cover all the time there     *)
(* was, and are wrong by no more than the time workers held the lock, for  *)
(* cwnd times the largest cut.                                             *)
THEOREM TimedIntegralsTrue == TimedSpec => []IntegralsTrue
<1>1. TimedInv => IntegralsTrue
  <2> SUFFICES ASSUME TimedInv PROVE IntegralsTrue
    OBVIOUS
  <2>1. observation + Pending = now
    BY TimedTypes DEF TimedInv, TimeInv, Pending
  <2>2. Spent <= in_section /\ Spent \in Nat
    BY TimedTypes DEF TimedInv, TimeInv, Spent
  <2>3. Spent * LargestCut <= in_section * LargestCut
    BY <2>2, TimedTypes, Products
  <2>4. /\ Spent * LargestCut \in Nat /\ in_section * LargestCut \in Nat
        /\ cwnd * Pending \in Nat /\ inflight * Pending \in Nat
    BY <2>2, TimedTypes, Products
  <2>5. /\ Distance(inflight_time + inflight * Pending, true_inflight) \in Int
        /\ Distance(cwnd_time + cwnd * Pending, true_cwnd) \in Int
    BY <2>4, TimedTypes DEF Distance
  <2>6. /\ Distance(inflight_time + inflight * Pending, true_inflight) <= in_section
        /\ Distance(cwnd_time + cwnd * Pending, true_cwnd) <= in_section * LargestCut
    BY <2>2, <2>3, <2>4, <2>5, TimedTypes DEF TimedInv, TimeInv
  <2> QED
    BY <2>1, <2>6 DEF IntegralsTrue, Pending
<1> QED
  BY <1>1, TimedInvariant, PTL

(* The check run_thread_queue_sweep.sh makes of the controller's metrics,  *)
(* but for its comparisons with load (AimdLoad.cfg shows that these fail), *)
(* holds of every row, whatever the number of credits and the times.       *)
THEOREM TimedMetricsInRange == TimedSpec => []MetricsInRange
<1>1. TimedInv => MetricsInRange
  BY DEF TimedInv, MetricsInv
<1> QED
  BY <1>1, TimedInvariant, PTL
=============================================================================
