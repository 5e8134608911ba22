---------------------------- MODULE RandomWorkers ----------------------------
(***************************************************************************)
(* Mode 0, run_random of src/worker.c: blocking credit acquisition.        *)
(*                                                                         *)
(* cxl_fabric_submit_blocking fails only if sem_wait fails with an error   *)
(* other than EINTR, which a valid semaphore never does: the branch is not *)
(* modelled.                                                               *)
(***************************************************************************)
EXTENDS Experiment

vars == <<fabricVars, mainVars, workerVars>>

Init == FabricInit /\ MainInit

(* new_request succeeds and the attempt is counted.                        *)
Alloc(w) ==
  /\ At(w, "alloc")
  /\ Create(w)
  /\ due' = [due EXCEPT ![w] = @ + 1]
  /\ Goto(w, "credit")
  /\ UNCHANGED mainVars

(* wait_for_credit returns with a credit.                                  *)
AcquireCredit(w) ==
  /\ At(w, "credit")
  /\ TakeCredit(w)
  /\ Goto(w, "enqueue")
  /\ UNCHANGED <<mainVars, due>>

WorkerStep(w) ==
  \/ Loop(w)
  \/ AllocFails(w)
  \/ Alloc(w)
  \/ AcquireCredit(w)
  \/ EnqueueAdmitted(w)
  \/ AwaitDone(w)
  \/ Reap(w)

DeviceThread(d) == DeviceStep(d) /\ UNCHANGED <<mainVars, workerVars>>

Next ==
  \/ MainStep
  \/ TimeUp
  \/ SkipWakeAll
  \/ \E w \in Workers : WorkerStep(w)
  \/ \E d \in Devices : DeviceThread(d)
  \/ Wakeups
  \/ Finished /\ UNCHANGED vars

Spec == Init /\ [][Next]_vars

(* Every thread that can run is scheduled, and an allocation that may fail *)
(* does not fail for ever. How long main sleeps is left open.              *)
Fairness ==
  /\ \A w \in Workers : WF_vars(WorkerStep(w)) /\ SF_vars(Alloc(w))
  /\ \A d \in Devices : WF_vars(DeviceThread(d))
  /\ WF_vars(MainStep \/ SkipWakeAll)

FairSpec == Spec /\ Fairness
=============================================================================
