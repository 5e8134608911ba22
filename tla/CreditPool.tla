----------------------------- MODULE CreditPool -----------------------------
(***************************************************************************)
(* What the fabric promises to the policies that inject requests, without  *)
(* its queue, its locks and its device threads: at most QueueDepth         *)
(* requests hold a credit at any time, each admitted request gives its     *)
(* credit back exactly once, and only then is its owner told.              *)
(*                                                                         *)
(* CxlFabric implements this specification.                                *)
(***************************************************************************)
EXTENDS Naturals, FiniteSets

CONSTANTS Requests,    \* the requests, one slot per cxl_request_t
          QueueDepth   \* cfg->queue_depth, the number of fabric credits

VARIABLE phase         \* phase[r]: how far request r is through the fabric

Phases == {"idle", "inflight", "complete"}

InFlight == {r \in Requests : phase[r] = "inflight"}

PoolInit == phase = [r \in Requests |-> "idle"]

(* A credit is granted: the request occupies it until its completion.      *)
Admit(r) ==
  /\ phase[r] = "idle"
  /\ Cardinality(InFlight) < QueueDepth
  /\ phase' = [phase EXCEPT ![r] = "inflight"]

(* The device has served the request and the credit is free again.         *)
Complete(r) ==
  /\ phase[r] = "inflight"
  /\ phase' = [phase EXCEPT ![r] = "complete"]

(* The owner has learnt of the completion and disposes of the request.     *)
Collect(r) ==
  /\ phase[r] = "complete"
  /\ phase' = [phase EXCEPT ![r] = "idle"]

PoolNext == \E r \in Requests : Admit(r) \/ Complete(r) \/ Collect(r)

PoolSafety == PoolInit /\ [][PoolNext]_phase

(* An admitted request is always served; admission itself is not promised: *)
(* POSIX semaphores are not fair to their waiters.                         *)
PoolSpec == PoolSafety /\ \A r \in Requests : WF_phase(Complete(r))
=============================================================================
