----------------------------- MODULE AimdWorkers -----------------------------
(***************************************************************************)
(* Mode 2, the AIMD controller of src/worker.c and run_aimd: one window    *)
(* cwnd, shared by all workers, bounds the requests outstanding.           *)
(*                                                                         *)
(* controller->lock is held across calls into the fabric (aimd_try_submit) *)
(* and is taken by a device thread that already holds the request's lock   *)
(* (completion_lock in complete_request), so its holder is a variable.     *)
(* Waiters for slot_available are the workers at "blocked"; a signal moves *)
(* them to "woken", where they compete for the lock.                       *)
(*                                                                         *)
(* completion_count and next_decrease_completion are only ever compared    *)
(* with each other. Their difference, while positive, is holdoff, so the   *)
(* model needs no bound on the number of completions. The history          *)
(* variables since and climb count completions after a decrease            *)
(* independently of it and of acks.                                        *)
(* The time integrals of controller_update_time_locked feed no decision;   *)
(* ControllerTime adds them.                                               *)
(***************************************************************************)
EXTENDS Experiment

ASSUME DisjointAssumption == Requests \cap Devices = {} /\ NoReq \notin Devices

VARIABLES
  lock,          \* the thread that holds controller->lock, or NoReq
  cwnd, inflight, reservations, acks, max_inflight,
  waiting,       \* waiting_workers
  holdoff,       \* completions still to come before cwnd may be cut again
  since,         \* history: completions since the last cut, up to MaxCwnd
  climb          \* history: completions since the last cut or the start of
                 \* the experiment, up to WindowClimb

ctlVars == <<lock, cwnd, inflight, reservations, acks, max_inflight, waiting, holdoff, since, climb>>
windowVars == <<cwnd, acks, holdoff, since, climb>>
vars == <<fabricVars, mainVars, workerVars, ctlVars>>

MaxCwnd == QueueDepth + 1   \* main passes queue_depth + 1

(* 1 + 2 + ... + QueueDepth: the completions that take the window from 1   *)
(* to MaxCwnd, one window of them for each step.                           *)
WindowClimb == (QueueDepth * MaxCwnd) \div 2

Lower(a, b) == IF a < b THEN a ELSE b

WorkerPcs == {"unborn", "loop", "check", "alloc", "lock", "full", "blocked",
              "woken", "admit", "enqueue", "account", "wait", "reap", "reaped", "exited"}

AimdTypeOK ==
  /\ MainTypeOK
  /\ wpc \in [Workers -> WorkerPcs]
  /\ lock \in Workers \cup Devices \cup {NoReq}
  /\ cwnd \in 1..MaxCwnd
  /\ inflight \in 0..QueueDepth
  /\ reservations \in 0..1
  /\ acks \in 0..QueueDepth
  /\ max_inflight \in 0..QueueDepth
  /\ waiting \in 0..Cardinality(Workers)
  /\ holdoff \in 0..MaxCwnd
  /\ since \in 0..MaxCwnd
  /\ climb \in 0..WindowClimb

Init ==
  /\ FabricInit /\ MainInit
  /\ lock = NoReq
  /\ cwnd = 1          \* initial_cwnd
  /\ inflight = 0 /\ reservations = 0 /\ acks = 0 /\ max_inflight = 0
  /\ waiting = 0 /\ holdoff = 0
  /\ since = MaxCwnd /\ climb = 0

(* Fault: the controller's lock excludes nobody.                           *)
LockIgnored == TRUE

LockFree == lock = NoReq

Blocked == {w \in Workers : At(w, "blocked")}
Woken   == {w \in Workers : At(w, "woken")}

(* Workers S return from pthread_cond_wait, in the assignment pcs of pcs.  *)
Wake(pcs, S) == [w \in Workers |-> IF w \in S THEN "woken" ELSE pcs[w]]

(* Fault: one signal, however many slots are free.                         *)
SignalAtMostOne(available) ==
  LET woken == IF available < 1 THEN 0 ELSE Lower(1, Cardinality(Blocked))
  IN {S \in SUBSET Blocked : Cardinality(S) = woken}

(* pthread_cond_signal(&slot_available), wake_count times: each call wakes *)
(* one blocked worker if there is one.                                     *)
SignalSets(available) ==
  LET wake_count == Lower(available, waiting)
      woken      == IF wake_count < 0 THEN 0 ELSE Lower(wake_count, Cardinality(Blocked))
  IN {S \in SUBSET Blocked : Cardinality(S) = woken}

-----------------------------------------------------------------------------
(* run_aimd. A worker's request is pending while "held" and inflight once  *)
(* "submitted"; both are never there at once.                              *)

(* Fault: a stopping worker does not wait for its submitted request.       *)
LeaveAfterStop(w) == "exited"

AfterStop(w) == IF stage[w] = "submitted" THEN "wait" ELSE "exited"

(* The head of the loop, and what follows it once stop is seen: free the   *)
(* pending request or wait for the submitted one.                          *)
AimdLoop(w) ==
  /\ At(w, "loop")
  /\ \/ /\ ~stop_flag
        /\ Goto(w, CASE stage[w] = "submitted" -> "check"
                     [] stage[w] = "held"      -> "lock"
                     [] OTHER                  -> "alloc")
        /\ UNCHANGED fabricVars
     \/ /\ stop_flag /\ stage[w] # "held"
        /\ Goto(w, AfterStop(w))
        /\ UNCHANGED fabricVars
     \/ stop_flag /\ Destroy(w) /\ Goto(w, "exited")
  /\ UNCHANGED <<mainVars, due, ctlVars>>

(* reap_completed: a completed request is finished at once and the worker  *)
(* goes on to its next one without testing stop; otherwise it waits.       *)
ReapCompleted(w) ==
  /\ At(w, "check")
  /\ \/ WaitReturn(w) /\ Goto(w, "reaped")
     \/ w \notin done /\ ~ReqLocked(w) /\ Goto(w, "wait") /\ UNCHANGED fabricVars
  /\ UNCHANGED <<mainVars, due, ctlVars>>

ReapAndGoOn(w) ==
  /\ At(w, "reaped")
  /\ Destroy(w)
  /\ due' = [due EXCEPT ![w] = @ - 1]
  /\ Goto(w, "alloc")
  /\ UNCHANGED <<mainVars, ctlVars>>

(* new_request, with the completion lock and callback attached.            *)
Alloc(w) ==
  /\ At(w, "alloc")
  /\ Create(w)
  /\ Goto(w, "lock")
  /\ UNCHANGED <<mainVars, due, ctlVars>>

WindowFull == inflight + reservations >= cwnd

(* Fault: waiting_workers is not decremented after the wait.               *)
WaitingForEver(w) == waiting

(* A worker that returns from pthread_cond_wait is no longer waiting.      *)
WaitingNow(w) == IF At(w, "woken") THEN waiting - 1 ELSE waiting

(* Fault: the early return on stop leaves the lock taken.                  *)
EnterSubmitStopLocked(w) ==
  /\ wpc[w] \in {"lock", "woken"} /\ LockFree
  /\ waiting' = WaitingNow(w)
  /\ lock' = w
  /\ \/ stop_flag /\ Goto(w, "loop") /\ UNCHANGED reservations
     \/ ~stop_flag /\ WindowFull /\ Goto(w, "full") /\ UNCHANGED reservations
     \/ ~stop_flag /\ ~WindowFull /\ Goto(w, "admit") /\ reservations' = reservations + 1
  /\ UNCHANGED <<fabricVars, mainVars, due, windowVars, inflight, max_inflight>>

(* aimd_try_submit takes the lock (again, after slot_available), and tests *)
(* stop and the window. Unless it stops it keeps the lock.                 *)
EnterSubmit(w) ==
  /\ wpc[w] \in {"lock", "woken"} /\ LockFree
  /\ waiting' = WaitingNow(w)
  /\ \/ /\ stop_flag
        /\ Goto(w, "loop")
        /\ UNCHANGED <<lock, reservations>>
     \/ /\ ~stop_flag /\ WindowFull
        /\ lock' = w
        /\ Goto(w, "full")
        /\ UNCHANGED reservations
     \/ /\ ~stop_flag /\ ~WindowFull
        /\ lock' = w
        /\ reservations' = reservations + 1
        /\ Goto(w, "admit")
  /\ UNCHANGED <<fabricVars, mainVars, due, windowVars, inflight, max_inflight>>

(* pthread_cond_wait(&slot_available) blocks and releases the lock.        *)
Block(w) ==
  /\ At(w, "full")
  /\ waiting' = waiting + 1
  /\ lock' = NoReq
  /\ Goto(w, "blocked")
  /\ UNCHANGED <<fabricVars, mainVars, due, windowVars, inflight, reservations, max_inflight>>

(* sem_trywait succeeds.                                                   *)
Admitted(w) ==
  /\ At(w, "admit")
  /\ TakeCredit(w)
  /\ Goto(w, "enqueue")
  /\ UNCHANGED <<mainVars, due, ctlVars>>

EnqueueLocked(w) ==
  /\ At(w, "enqueue")
  /\ Enqueue(w)
  /\ Goto(w, "account")
  /\ UNCHANGED <<mainVars, due, ctlVars>>

(* Fault: max_inflight is taken before inflight is incremented.            *)
MaximumBefore == IF inflight > max_inflight THEN inflight ELSE max_inflight

NewMaximum == IF inflight + 1 > max_inflight THEN inflight + 1 ELSE max_inflight

(* The submission is accounted for, further waiters are signalled and the  *)
(* lock released; the worker counts its attempt.                           *)
Account(w) ==
  /\ At(w, "account")
  /\ reservations' = reservations - 1
  /\ inflight' = inflight + 1
  /\ max_inflight' = NewMaximum
  /\ \E S \in SignalSets(cwnd - inflight' - reservations') :
       wpc' = [Wake(wpc, S) EXCEPT ![w] = "loop"]
  /\ lock' = NoReq
  /\ due' = [due EXCEPT ![w] = @ + 1]
  /\ UNCHANGED <<fabricVars, mainVars, windowVars, waiting>>

CutWindow == IF cwnd \div 2 < 1 THEN 1 ELSE cwnd \div 2

(* Fault: the hold-off counts the new window.                              *)
HoldoffNewWindow == CutWindow

(* next_decrease_completion = completion_count + old_cwnd.                 *)
HoldoffAfterCut == cwnd

(* sem_trywait fails: the reservation is dropped, the window halved unless *)
(* this congestion episode has been answered already, and the request kept *)
(* for a retry (one attempt, one retry).                                   *)
Rejected(w) ==
  /\ At(w, "admit") /\ credits = 0
  /\ reservations' = reservations - 1
  /\ IF holdoff = 0
     THEN /\ cwnd' = CutWindow
          /\ acks' = 0
          /\ holdoff' = HoldoffAfterCut
          /\ since' = 0 /\ climb' = 0
     ELSE UNCHANGED windowVars
  /\ lock' = NoReq
  /\ Goto(w, "loop")
  /\ UNCHANGED <<fabricVars, mainVars, due, inflight, max_inflight, waiting>>

-----------------------------------------------------------------------------
(* complete_request for a request with a completion lock and callback.     *)

LockCompletion(d) ==
  /\ dpc[d] = "locked" /\ LockFree
  /\ lock' = d
  /\ UNCHANGED <<fabricVars, mainVars, workerVars, cwnd, inflight, reservations,
                 acks, max_inflight, waiting, holdoff, since, climb>>

PostLocked(d) ==
  /\ lock = d
  /\ DevPost(d)
  /\ UNCHANGED <<mainVars, workerVars, ctlVars>>

(* Fault: the completions before this one are forgotten.                   *)
AckedAlone == 1

(* acks_since_increase once this completion is counted.                    *)
Acked == acks + 1

GrownWindow == IF cwnd < MaxCwnd THEN cwnd + 1 ELSE cwnd

(* aimd_on_device_completion_locked, and the release of the lock.          *)
CompletionCallback(d) ==
  /\ lock = d /\ dpc[d] = "posted"
  /\ inflight' = IF inflight > 0 THEN inflight - 1 ELSE inflight
  /\ holdoff' = IF holdoff > 0 THEN holdoff - 1 ELSE 0
  /\ since' = Lower(since + 1, MaxCwnd)
  /\ climb' = Lower(climb + 1, WindowClimb)
  /\ IF Acked >= cwnd
     THEN /\ cwnd' = GrownWindow
          /\ acks' = 0
     ELSE /\ acks' = Acked
          /\ UNCHANGED cwnd
  /\ \E S \in SignalSets(cwnd' - inflight' - reservations) : wpc' = Wake(wpc, S)
  /\ lock' = NoReq
  /\ UNCHANGED <<fabricVars, mainVars, due, reservations, max_inflight, waiting>>

SignalDone(d) ==
  /\ lock # d
  /\ DevSignal(d)
  /\ UNCHANGED <<mainVars, workerVars, ctlVars>>

(* Fault: the request carries no completion lock and callback.             *)
PlainDeviceThread(d) == DeviceStep(d) /\ UNCHANGED <<mainVars, workerVars, ctlVars>>

DeviceThread(d) ==
  \/ /\ DevSleep(d) \/ DevDequeue(d) \/ DevExit(d) \/ DevComplete(d)
     /\ UNCHANGED <<mainVars, workerVars, ctlVars>>
  \/ LockCompletion(d)
  \/ PostLocked(d)
  \/ CompletionCallback(d)
  \/ SignalDone(d)

-----------------------------------------------------------------------------
(* Fault: the broadcast without the lock.                                  *)
WakeAllUnlocked ==
  /\ mpc = "stopping"
  /\ mpc' = "joining"
  /\ wpc' = Wake(wpc, Blocked)
  /\ UNCHANGED <<fabricVars, stop_flag, due, ctlVars>>

(* aimd_controller_wake_all, called once stop_flag is set.                 *)
WakeAll ==
  /\ mpc = "stopping" /\ LockFree
  /\ mpc' = "joining"
  /\ wpc' = Wake(wpc, Blocked)
  /\ UNCHANGED <<fabricVars, stop_flag, due, ctlVars>>

(* A spurious return from the wait for slot_available.                     *)
SpuriousSlot(w) ==
  /\ At(w, "blocked")
  /\ Goto(w, "woken")
  /\ UNCHANGED <<fabricVars, mainVars, due, ctlVars>>

WorkerStep(w) ==
  \/ AimdLoop(w)
  \/ ReapCompleted(w)
  \/ ReapAndGoOn(w)
  \/ Alloc(w)
  \/ EnterSubmit(w)
  \/ Block(w)
  \/ Admitted(w)
  \/ EnqueueLocked(w)
  \/ Account(w)
  \/ Rejected(w)
  \/ (AllocFails(w) \/ AwaitDone(w) \/ Reap(w)) /\ UNCHANGED ctlVars

MainThread == MainStep /\ UNCHANGED ctlVars

Next ==
  \/ MainThread
  \/ TimeUp /\ UNCHANGED ctlVars
  \/ WakeAll
  \/ \E w \in Workers : WorkerStep(w)
  \/ \E d \in Devices : DeviceThread(d)
  \/ \E w \in Workers : SpuriousSlot(w)
  \/ Wakeups /\ UNCHANGED ctlVars
  \/ Finished /\ UNCHANGED vars

Spec == Init /\ [][Next]_vars

(* As for the other policies; and a device thread that competes for the    *)
(* controller's lock gets it in the end although rejected workers take it  *)
(* again and again: they sleep in random_backoff in between.               *)
Fairness ==
  /\ \A w \in Workers : WF_vars(WorkerStep(w)) /\ SF_vars(Alloc(w))
  /\ \A d \in Devices : WF_vars(DeviceThread(d)) /\ SF_vars(LockCompletion(d))
  /\ WF_vars(MainThread \/ WakeAll)

FairSpec == Spec /\ Fairness

-----------------------------------------------------------------------------
(* Properties.                                                             *)

(* "Credit release and this accounting are therefore atomic with respect   *)
(* to new AIMD submissions": whoever takes the controller's lock finds     *)
(* every credit either in the semaphore or counted in inflight.            *)
CreditsMatchInflight == LockFree => credits + inflight = QueueDepth /\ reservations = 0

(* waiting_workers counts exactly the workers in pthread_cond_wait, those  *)
(* signalled but not yet running included.                                 *)
WaitersCounted == waiting = Cardinality(Blocked \cup Woken)

(* No lost or missing signal: while workers are blocked and credits lie    *)
(* idle inside the window, at least as many workers are on their way to    *)
(* the lock as there are slots for them.                                   *)
NoIdleSlot ==
  LockFree /\ ~stop_flag /\ credits > 0 /\ Blocked # {}
    => Cardinality(Woken) >= cwnd - inflight

(* Once wake_all is done nobody is blocked: the stop cannot fall between a *)
(* worker's test of stop_flag and its wait.                                *)
NobodyBlockedAfterWakeAll == mpc \notin {"starting", "sleeping", "stopping"} => Blocked = {}

(* "Suppress repeated decreases from workers observing the same congestion *)
(* episode": the window is cut only by a probe beyond the credits of the   *)
(* full window, and never before that many completions since the last cut. *)
CutsOncePerWindow ==
  [][cwnd' < cwnd => cwnd = MaxCwnd /\ inflight = QueueDepth /\ since >= cwnd]_vars

(* A cut is not for ever: the window grows by one for every window of      *)
(* completions, so that from a cut, or from the start, no more of them     *)
(* than it takes to climb from 1 bring it back to the probe beyond the     *)
(* credits, whatever the mix of completions, rejections and hold-off.      *)
RecoversInTime == climb = WindowClimb => cwnd = MaxCwnd

(* aimd_controller_get_metrics and the cleanup after the join find an idle *)
(* controller: the lock free, nothing counted as outstanding, reserved or  *)
(* waiting.                                                                *)
ControllerIdleAtJoin ==
  mpc \in {"joined", "destroying", "done"} =>
    LockFree /\ inflight = 0 /\ reservations = 0 /\ waiting = 0
=============================================================================
