----------------------------- MODULE Experiment -----------------------------
(***************************************************************************)
(* src/main.c from start_workers to the end of main, and the steps that    *)
(* the three injection policies of src/worker.c share.                     *)
(*                                                                         *)
(* A policy owns at most one request at a time, so the request of worker w *)
(* is slot w: Workers is Requests.                                         *)
(*                                                                         *)
(* Of a worker's statistics only the balance due = attempts - success -    *)
(* retry is kept. It stays bounded however long the experiment runs, and   *)
(* run_thread_queue_sweep.sh checks it to be 0 in every row. Sleeping      *)
(* (load_sleep, random_backoff, the allocation retry delay) changes no     *)
(* shared state: any other thread may run between two steps of a worker.   *)
(***************************************************************************)
EXTENDS CxlFabric, Integers

VARIABLES
  mpc,        \* where main stands
  stop_flag,  \* worker.c's stop_flag
  wpc,        \* wpc[w]: where worker w stands in its policy
  due         \* due[w]: attempts - success - retry of worker w

mainVars   == <<mpc, stop_flag>>
workerVars == <<wpc, due>>

Workers == Requests

MainPcs == {"starting", "sleeping", "stopping", "joining", "joined", "destroying", "done"}

MainTypeOK ==
  /\ mpc \in MainPcs
  /\ stop_flag \in BOOLEAN
  /\ due \in [Workers -> -1..1]

MainInit ==
  /\ mpc = "starting"
  /\ stop_flag = FALSE
  /\ wpc = [w \in Workers |-> "unborn"]
  /\ due = [w \in Workers |-> 0]

At(w, pc)   == wpc[w] = pc
Goto(w, pc) == wpc' = [wpc EXCEPT ![w] = pc]

-----------------------------------------------------------------------------
(* main                                                                    *)

(* start_workers: pthread_create succeeds for the next worker.             *)
StartWorker(w) ==
  /\ mpc = "starting" /\ At(w, "unborn")
  /\ Goto(w, "loop")
  /\ UNCHANGED <<fabricVars, mainVars, due>>

StartDone ==
  /\ mpc = "starting" /\ \A w \in Workers : ~At(w, "unborn")
  /\ mpc' = "sleeping"
  /\ UNCHANGED <<fabricVars, stop_flag, workerVars>>

(* pthread_create fails part of the way: stop and join those that run.     *)
StartFails ==
  /\ mpc = "starting" /\ \E w \in Workers : At(w, "unborn")
  /\ mpc' = "stopping"
  /\ stop_flag' = TRUE
  /\ UNCHANGED <<fabricVars, workerVars>>

(* sleep(cfg.seconds) is over.                                             *)
TimeUp ==
  /\ mpc = "sleeping"
  /\ mpc' = "stopping"
  /\ stop_flag' = TRUE
  /\ UNCHANGED <<fabricVars, workerVars>>

(* aimd_ready is 0: there is no controller to wake.                        *)
SkipWakeAll ==
  /\ mpc = "stopping"
  /\ mpc' = "joining"
  /\ UNCHANGED <<fabricVars, stop_flag, workerVars>>

(* Fault: main goes on to the cleanup without joining.                     *)
JoinNobody ==
  /\ mpc = "joining"
  /\ mpc' = "joined"
  /\ UNCHANGED <<fabricVars, stop_flag, workerVars>>

(* join_workers over the threads that were created.                        *)
JoinWorkers ==
  /\ mpc = "joining"
  /\ \A w \in Workers : wpc[w] \in {"unborn", "exited"}
  /\ mpc' = "joined"
  /\ UNCHANGED <<fabricVars, stop_flag, workerVars>>

(* cleanup: cxl_fabric_destroy, then everything the threads used.          *)
DestroyFabric ==
  \/ mpc = "joined" /\ mpc' = "destroying" /\ StopStore /\ UNCHANGED <<stop_flag, workerVars>>
  \/ mpc = "destroying" /\ (StopBroadcast \/ StopJoin) /\ UNCHANGED <<mainVars, workerVars>>
  \/ /\ mpc = "destroying" /\ life = "destroyed"
     /\ mpc' = "done"
     /\ UNCHANGED <<fabricVars, stop_flag, workerVars>>

-----------------------------------------------------------------------------
(* Steps that several policies take.                                       *)

(* while (!stop_requested()) at the head of run_random and run_csma.       *)
Loop(w) ==
  /\ At(w, "loop")
  /\ Goto(w, IF stop_flag THEN "exited" ELSE "alloc")
  /\ UNCHANGED <<fabricVars, mainVars, due>>

(* Fault: the attempt is counted before the allocation is known to work.   *)
AllocFailsCounted(w) ==
  /\ At(w, "alloc")
  /\ due' = [due EXCEPT ![w] = @ + 1]
  /\ Goto(w, "loop")
  /\ UNCHANGED <<fabricVars, mainVars>>

(* new_request returns NULL: no attempt is counted.                        *)
AllocFails(w) ==
  /\ At(w, "alloc")
  /\ Goto(w, "loop")
  /\ UNCHANGED <<fabricVars, mainVars, due>>

(* cxl_request_wait inside finish_request.                                 *)
AwaitDone(w) ==
  /\ At(w, "wait")
  /\ \/ WaitSleep(w) /\ UNCHANGED wpc
     \/ WaitReturn(w) /\ Goto(w, "reap")
  /\ UNCHANGED <<mainVars, due>>

(* The rest of finish_request: success is counted, the request freed.      *)
Reap(w) ==
  /\ At(w, "reap")
  /\ Destroy(w)
  /\ due' = [due EXCEPT ![w] = @ - 1]
  /\ Goto(w, "loop")
  /\ UNCHANGED mainVars

EnqueueAdmitted(w) ==
  /\ At(w, "enqueue")
  /\ Enqueue(w)
  /\ Goto(w, "wait")
  /\ UNCHANGED <<mainVars, due>>

Wakeups == Spurious /\ UNCHANGED <<mainVars, workerVars>>

MainStep ==
  \/ \E w \in Workers : StartWorker(w)
  \/ StartDone
  \/ StartFails
  \/ JoinWorkers
  \/ DestroyFabric

(* main runs on once stop_flag is set.                                     *)
ShutdownStep == JoinWorkers \/ DestroyFabric

Finished == mpc = "done"

-----------------------------------------------------------------------------
(* Properties common to the policies.                                      *)

(* "attempts = success + retry", the check run_thread_queue_sweep.sh makes *)
(* of every row: at the join no attempt is left without its outcome, also  *)
(* when the stop came between the attempt and its completion.              *)
AccountingBalanced ==
  mpc \in {"joined", "destroying", "done"} => \A w \in Workers : due[w] = 0

(* However the stop falls, every thread is joined and main returns.        *)
Terminates == stop_flag ~> mpc = "done"

(* Until the stop, requests keep completing: the workers, the credits and  *)
(* the device threads never all wait for one another.                      *)
KeepsCompleting == []<>(stop_flag \/ \E d \in Devices : dpc[d] = "posted")
=============================================================================
