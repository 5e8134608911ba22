----------------------------- MODULE RequestList -----------------------------
(***************************************************************************)
(* The queue of src/cxl_fabric.c as it is stored: head and tail in the     *)
(* fabric, next in each request, which its owner frees and allocates anew. *)
(*                                                                         *)
(* Everything the code decides, it decides here by the pointers. queue,    *)
(* taken over from CxlFabric, is a history of what was enqueued and not    *)
(* yet dequeued; ListIsQueue says that the pointers tell the same story.   *)
(***************************************************************************)
EXTENDS CxlFabric

VARIABLES head, tail,  \* fabric->head and fabric->tail
          next         \* next[r]: the field of request r; NoReq is NULL

pointers == <<head, tail, next>>
listVars == <<fabricVars, pointers>>

ListInit == FabricInit /\ head = NoReq /\ tail = NoReq /\ next = [r \in Requests |-> NoReq]

(* calloc: whatever the memory held before, next is NULL.                  *)
ClearNext(r) == next' = [next EXCEPT ![r] = NoReq] /\ UNCHANGED <<head, tail>>

(* Fault: the request is put in front.                                     *)
LinkFirst(r) ==
  /\ next' = [next EXCEPT ![r] = head]
  /\ head' = r
  /\ tail' = IF tail = NoReq THEN r ELSE tail

(* The pointers of enqueue_request.                                        *)
LinkLast(r) ==
  /\ next' = [x \in Requests |->
                IF x = tail THEN r ELSE IF x = r THEN NoReq ELSE next[x]]
  /\ head' = IF tail = NoReq THEN r ELSE head
  /\ tail' = r

(* Fault: tail is left pointing at the last request that was dequeued.     *)
UnlinkKeepsTail ==
  /\ head' = next[head]
  /\ next' = [next EXCEPT ![head] = NoReq]
  /\ UNCHANGED tail

(* The pointers of dequeue_request.                                        *)
UnlinkFirst ==
  /\ head' = next[head]
  /\ tail' = IF head' = NoReq THEN NoReq ELSE tail
  /\ next' = [next EXCEPT ![head] = NoReq]

ListDequeue(d) ==
  /\ dpc[d] = "idle" /\ head # NoReq
  /\ UnlinkFirst
  /\ queue' = Tail(queue)
  /\ serving' = [serving EXCEPT ![d] = head]
  /\ dpc' = [dpc EXCEPT ![d] = "serving"]
  /\ UNCHANGED <<credits, stage, done, life>>

(* head is NULL: the thread sleeps, or exits if stop is set.               *)
ListEmpty(d) ==
  /\ dpc[d] = "idle" /\ head = NoReq
  /\ dpc' = [dpc EXCEPT ![d] = IF life = "up" THEN "asleep" ELSE "exited"]
  /\ UNCHANGED <<credits, queue, stage, done, serving, life, pointers>>

ListOwner(r) ==
  \/ Enqueue(r) /\ LinkLast(r)
  \/ (WaitSleep(r) \/ WaitReturn(r)) /\ UNCHANGED pointers

ListClient(r) ==
  \/ life = "up" /\ Create(r) /\ ClearNext(r)
  \/ ListOwner(r)
  \/ (TakeCredit(r) \/ Destroy(r)) /\ UNCHANGED pointers

ListDevice(d) ==
  \/ ListDequeue(d)
  \/ ListEmpty(d)
  \/ (DevComplete(d) \/ DevPost(d) \/ DevSignal(d)) /\ UNCHANGED pointers

ListNext ==
  \/ \E r \in Requests : ListClient(r)
  \/ \E d \in Devices : ListDevice(d)
  \/ (StopStep \/ Spurious \/ Terminated) /\ UNCHANGED pointers

ListSpec == ListInit /\ [][ListNext]_listVars

(* The fairness of FabricFairness.                                         *)
ListFairSpec ==
  /\ ListSpec
  /\ \A d \in Devices : WF_listVars(ListDevice(d))
  /\ \A r \in Requests : WF_listVars(ListOwner(r))
  /\ WF_listVars((StopBroadcast \/ StopJoin) /\ UNCHANGED pointers)

-----------------------------------------------------------------------------
(* The requests from head along next are the queue, in its order, and tail *)
(* is the last of them: a request enqueued next is not linked to one that  *)
(* has left the queue and may have been freed, and none is cut off.        *)
ListIsQueue ==
  /\ head = IF queue = <<>> THEN NoReq ELSE queue[1]
  /\ tail = IF queue = <<>> THEN NoReq ELSE queue[Len(queue)]
  /\ \A i \in 1..Len(queue) :
       next[queue[i]] = IF i = Len(queue) THEN NoReq ELSE queue[i + 1]
=============================================================================
