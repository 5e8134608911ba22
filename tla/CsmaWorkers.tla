----------------------------- MODULE CsmaWorkers -----------------------------
(***************************************************************************)
(* Mode 1, run_csma of src/worker.c: a request is allocated once, and      *)
(* sem_trywait is retried with backoff until it succeeds or the stop flag  *)
(* is seen. A rejected worker sleeps between its attempts; how long does   *)
(* not matter to the others.                                               *)
(***************************************************************************)
EXTENDS Experiment

vars == <<fabricVars, mainVars, workerVars>>

Init == FabricInit /\ MainInit

Alloc(w) ==
  /\ At(w, "alloc")
  /\ Create(w)
  /\ Goto(w, "try")
  /\ UNCHANGED <<mainVars, due>>

(* The head of the retry loop: the attempt is counted before it is made.   *)
Attempt(w) ==
  /\ At(w, "try") /\ ~stop_flag
  /\ due' = [due EXCEPT ![w] = @ + 1]
  /\ Goto(w, "admit")
  /\ UNCHANGED <<fabricVars, mainVars>>

(* Fault: the retained request is forgotten.                               *)
GiveUpLeaks(w) ==
  /\ At(w, "try") /\ stop_flag
  /\ Goto(w, "loop")
  /\ UNCHANGED <<fabricVars, mainVars, due>>

(* Stopped before admission: the retained request is freed.                *)
GiveUp(w) ==
  /\ At(w, "try") /\ stop_flag
  /\ Destroy(w)
  /\ Goto(w, "loop")
  /\ UNCHANGED <<mainVars, due>>

Admitted(w) ==
  /\ At(w, "admit")
  /\ TakeCredit(w)
  /\ Goto(w, "enqueue")
  /\ UNCHANGED <<mainVars, due>>

(* Faults: no retry is counted; the congested request is discarded.        *)
RejectedUncounted(w) ==
  /\ At(w, "admit") /\ credits = 0
  /\ Goto(w, "try")
  /\ UNCHANGED <<fabricVars, mainVars, due>>

RejectedDiscards(w) ==
  /\ At(w, "admit") /\ credits = 0
  /\ Destroy(w)
  /\ due' = [due EXCEPT ![w] = @ - 1]
  /\ Goto(w, "loop")
  /\ UNCHANGED mainVars

(* sem_trywait fails: a retry and a backoff are counted, the request kept. *)
Rejected(w) ==
  /\ At(w, "admit") /\ credits = 0
  /\ due' = [due EXCEPT ![w] = @ - 1]
  /\ Goto(w, "try")
  /\ UNCHANGED <<fabricVars, mainVars>>

WorkerStep(w) ==
  \/ Loop(w)
  \/ AllocFails(w)
  \/ Alloc(w)
  \/ Attempt(w)
  \/ GiveUp(w)
  \/ Admitted(w)
  \/ Rejected(w)
  \/ EnqueueAdmitted(w)
  \/ AwaitDone(w)
  \/ Reap(w)

DeviceThread(d) == DeviceStep(d) /\ UNCHANGED <<mainVars, workerVars>>

Next ==
  \/ MainStep
  \/ TimeUp
  \/ SkipWakeAll
  \/ \E w \in Workers : WorkerStep(w)
  \/ \E d \in Devices : DeviceThread(d)
  \/ Wakeups
  \/ Finished /\ UNCHANGED vars

Spec == Init /\ [][Next]_vars

Fairness ==
  /\ \A w \in Workers : WF_vars(WorkerStep(w)) /\ SF_vars(Alloc(w))
  /\ \A d \in Devices : WF_vars(DeviceThread(d))
  /\ WF_vars(MainStep \/ SkipWakeAll)

FairSpec == Spec /\ Fairness

(* "Retained across admission failures ... instead of silently discarding  *)
(* congested requests": once allocated, a request is freed without having  *)
(* been completed only when the experiment stops.                          *)
NoSilentDiscard ==
  [][\A w \in Workers : stage[w] = "held" /\ stage'[w] = "free" => stop_flag]_vars
=============================================================================
