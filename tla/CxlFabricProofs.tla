--------------------------- MODULE CxlFabricProofs ---------------------------
(***************************************************************************)
(* Proofs about the fabric for any number of requests, device threads and  *)
(* credits: about CxlFabric first, then about RequestList, and last what   *)
(* the proofs about the three policies share of Experiment. FabricInv is   *)
(* the inductive invariant; its parts say where a request can be while its *)
(* owner and the device threads share it.                                  *)
(*                                                                         *)
(* The theorems about CxlFabric say nothing of head, tail and next, nor of *)
(* main and the workers, and hold of any specification that implies        *)
(* FabricSpec.                                                             *)
(***************************************************************************)
EXTENDS Experiment, RequestList, FiniteSetTheorems, TLAPS

TypeInv ==
  /\ credits \in Nat
  /\ queue \in Seq(Requests)
  /\ stage \in [Requests -> Stages]
  /\ done \subseteq Requests
  /\ dpc \in [Devices -> DevPcs]
  /\ serving \in [Devices -> Requests \cup {NoReq}]
  /\ life \in Lives

(* A queued request waits for its completion, and is queued once.          *)
QueueInv ==
  /\ \A i \in 1..Len(queue) : /\ stage[queue[i]] \in {"submitted", "asleep"}
                              /\ queue[i] \notin done
  /\ \A i, j \in 1..Len(queue) : queue[i] = queue[j] => i = j

(* A request being served waits for its completion, is served by one       *)
(* device thread only, has left the queue, and is done from the moment the *)
(* thread has locked it.                                                   *)
ServingInv ==
  /\ \A d \in Devices : dpc[d] \in {"serving", "locked", "posted"} <=> serving[d] # NoReq
  /\ \A d \in Devices : serving[d] # NoReq =>
       /\ stage[serving[d]] \in {"submitted", "asleep"}
       /\ serving[d] \in done <=> dpc[d] \in {"locked", "posted"}
       /\ \A i \in 1..Len(queue) : queue[i] # serving[d]
  /\ \A d, e \in Devices : serving[d] # NoReq /\ serving[d] = serving[e] => d = e

(* A request is done only between its completion and its destruction, and  *)
(* the fabric forgets no request that is not done.                         *)
DoneInv ==
  /\ \A r \in Requests : stage[r] \in {"free", "held", "admitted"} => r \notin done
  /\ \A r \in Requests : stage[r] = "finished" => r \in done
  /\ \A r \in Requests : stage[r] \in {"submitted", "asleep"} /\ r \notin done => InFabric(r)

FabricInv == TypeInv /\ QueueInv /\ ServingInv /\ DoneInv /\ NoLostCompletion /\ CreditConservation

-----------------------------------------------------------------------------
(* Every step of the specification is one of these.                        *)
LEMMA StepCases ==
  ASSUME FabricNext
  PROVE  \/ UNCHANGED fabricVars
         \/ \E r \in Requests : \/ Create(r) \/ TakeCredit(r) \/ Enqueue(r) \/ WaitSleep(r)
                                \/ WaitReturn(r) \/ WaitSpurious(r) \/ Destroy(r)
         \/ \E d \in Devices : \/ DevSleep(d) \/ DevSpurious(d) \/ DevDequeue(d) \/ DevExit(d)
                               \/ DevComplete(d) \/ DevPost(d) \/ DevSignal(d)
         \/ StopStore \/ StopBroadcast \/ StopJoin
  BY DEF FabricNext, ClientStep, DeviceStep, StopStep, Spurious, Terminated

LEMMA TypeStep ==
  ASSUME TypeInv, ServingInv, [FabricNext]_fabricVars
  PROVE  TypeInv'
<1> USE DEF TypeInv, Stages, DevPcs, Lives
<1>1. CASE UNCHANGED fabricVars
  BY <1>1 DEF fabricVars
<1>2. ASSUME NEW r \in Requests, \/ Create(r) \/ TakeCredit(r) \/ WaitSleep(r)
                                 \/ WaitReturn(r) \/ WaitSpurious(r) \/ Destroy(r)
      PROVE  TypeInv'
  BY <1>2 DEF Create, TakeCredit, WaitSleep, WaitReturn, WaitSpurious, Destroy
<1>3. ASSUME NEW r \in Requests, Enqueue(r)
      PROVE  TypeInv'
  BY <1>3 DEF Enqueue, SignalNotEmpty, Sleepers
<1>4. ASSUME NEW d \in Devices, \/ DevSleep(d) \/ DevSpurious(d) \/ DevDequeue(d) \/ DevExit(d)
                                \/ DevPost(d)
      PROVE  TypeInv'
  BY <1>4 DEF DevSleep, DevSpurious, DevDequeue, DevExit, DevPost
<1>5. ASSUME NEW d \in Devices, DevComplete(d)
      PROVE  TypeInv'
  BY <1>5 DEF DevComplete, ServingInv
<1>6. ASSUME NEW d \in Devices, DevSignal(d)
      PROVE  TypeInv'
  BY <1>6 DEF DevSignal
<1>7. CASE StopStore \/ StopBroadcast \/ StopJoin
  BY <1>7 DEF StopStore, StopBroadcast, StopJoin
<1> QED
  BY <1>1, <1>2, <1>3, <1>4, <1>5, <1>6, <1>7, StepCases

(* Appending and removing a request, element by element.                   *)
LEMMA AppendElements ==
  ASSUME NEW q \in Seq(Requests), NEW r \in Requests
  PROVE  /\ Append(q, r) \in Seq(Requests)
         /\ Len(Append(q, r)) = Len(q) + 1
         /\ \A i \in 1..Len(q) : Append(q, r)[i] = q[i]
         /\ Append(q, r)[Len(q) + 1] = r
  OBVIOUS

LEMMA TailElements ==
  ASSUME NEW q \in Seq(Requests), q # <<>>
  PROVE  /\ Tail(q) \in Seq(Requests)
         /\ Len(q) \in Nat \ {0} /\ Len(Tail(q)) = Len(q) - 1
         /\ \A i \in 1..Len(Tail(q)) : Tail(q)[i] = q[i + 1]
         /\ Head(q) = q[1]
  OBVIOUS

LEMMA QueueStep ==
  ASSUME TypeInv, QueueInv, ServingInv, DoneInv, [FabricNext]_fabricVars
  PROVE  QueueInv'
<1> USE DEF QueueInv, TypeInv
<1>1. CASE UNCHANGED fabricVars
  BY <1>1 DEF fabricVars
<1>2. ASSUME NEW r \in Requests, \/ Create(r) \/ TakeCredit(r) \/ WaitSleep(r)
                                 \/ WaitReturn(r) \/ WaitSpurious(r) \/ Destroy(r)
      PROVE  QueueInv'
  BY <1>2 DEF Create, TakeCredit, WaitSleep, WaitReturn, WaitSpurious, Destroy
<1>3. ASSUME NEW r \in Requests, Enqueue(r)
      PROVE  QueueInv'
  <2>1. /\ stage[r] = "admitted" /\ r \notin done
        /\ queue' = Append(queue, r) /\ done' = done
        /\ stage' = [stage EXCEPT ![r] = "submitted"]
    BY <1>3 DEF Enqueue, DoneInv
  <2>2. \A i \in 1..Len(queue) : queue[i] # r
    BY <2>1
  <2> QED
    BY <2>1, <2>2, AppendElements
<1>4. ASSUME NEW d \in Devices, DevDequeue(d)
      PROVE  QueueInv'
  <2>1. queue # <<>> /\ queue' = Tail(queue) /\ UNCHANGED <<stage, done>>
    BY <1>4 DEF DevDequeue
  <2>2. \A i \in 1..Len(queue') : i + 1 \in 1..Len(queue) /\ queue'[i] = queue[i + 1]
    BY <2>1, TailElements
  <2> QED
    BY <2>1, <2>2
<1>5. ASSUME NEW d \in Devices, DevComplete(d)
      PROVE  QueueInv'
  BY <1>5 DEF DevComplete, ServingInv
<1>6. ASSUME NEW d \in Devices, DevSignal(d)
      PROVE  QueueInv'
  BY <1>6 DEF DevSignal
<1>7. ASSUME NEW d \in Devices, DevSleep(d) \/ DevSpurious(d) \/ DevExit(d) \/ DevPost(d)
      PROVE  QueueInv'
  BY <1>7 DEF DevSleep, DevSpurious, DevExit, DevPost
<1>8. CASE StopStore \/ StopBroadcast \/ StopJoin
  BY <1>8 DEF StopStore, StopBroadcast, StopJoin
<1> QED
  BY <1>1, <1>2, <1>3, <1>4, <1>5, <1>6, <1>7, <1>8, StepCases

LEMMA ServingStep ==
  ASSUME TypeInv, QueueInv, ServingInv, DoneInv, [FabricNext]_fabricVars
  PROVE  ServingInv'
<1> USE DEF ServingInv, TypeInv
<1> USE ThreadsAssumption
<1>1. CASE UNCHANGED fabricVars
  BY <1>1 DEF fabricVars
<1>2. ASSUME NEW r \in Requests, \/ Create(r) \/ TakeCredit(r) \/ WaitSleep(r)
                                 \/ WaitSpurious(r)
      PROVE  ServingInv'
  BY <1>2 DEF Create, TakeCredit, WaitSleep, WaitSpurious
<1>3. ASSUME NEW r \in Requests, WaitReturn(r) \/ Destroy(r)
      PROVE  ServingInv'
  BY <1>3 DEF WaitReturn, Destroy, ReqLocked
<1>4. ASSUME NEW r \in Requests, Enqueue(r)
      PROVE  ServingInv'
  <2>1. /\ stage[r] = "admitted" /\ queue' = Append(queue, r)
        /\ stage' = [stage EXCEPT ![r] = "submitted"]
        /\ UNCHANGED <<done, serving>>
    BY <1>4 DEF Enqueue
  <2>2. \A d \in Devices : serving[d] # r
    BY <2>1
  <2>3. \A d \in Devices : \/ dpc'[d] = dpc[d]
                           \/ dpc[d] = "asleep" /\ dpc'[d] = "idle"
    BY <1>4 DEF Enqueue, SignalNotEmpty, Sleepers
  <2>4. \A d \in Devices : serving[d] # NoReq =>
          \A i \in 1..Len(queue') : queue'[i] # serving[d]
    BY <2>1, <2>2, AppendElements
  <2> QED
    BY <2>1, <2>2, <2>3, <2>4
<1>5. ASSUME NEW d \in Devices, DevDequeue(d)
      PROVE  ServingInv'
  <2>1. /\ queue # <<>> /\ queue' = Tail(queue) /\ UNCHANGED <<stage, done>>
        /\ dpc[d] = "idle" /\ dpc' = [dpc EXCEPT ![d] = "serving"]
        /\ serving' = [serving EXCEPT ![d] = queue[1]]
    BY <1>5, TailElements DEF DevDequeue
  <2>2. \A i \in 1..Len(queue') : i + 1 \in 2..Len(queue) /\ queue'[i] = queue[i + 1]
    BY <2>1, TailElements
  <2>3. 1 \in 1..Len(queue) /\ queue[1] \in Requests
    BY <2>1, TailElements
  <2>4. /\ stage[queue[1]] \in {"submitted", "asleep"} /\ queue[1] \notin done
        /\ \A i \in 1..Len(queue') : queue'[i] # queue[1]
        /\ \A e \in Devices : serving[e] # queue[1]
    BY <2>2, <2>3 DEF QueueInv
  <2>5. \A e \in Devices : serving[e] # NoReq =>
          \A i \in 1..Len(queue') : queue'[i] # serving[e]
    BY <2>2
  <2> QED
    BY <2>1, <2>3, <2>4, <2>5
<1>6. ASSUME NEW d \in Devices, DevComplete(d)
      PROVE  ServingInv'
  BY <1>6 DEF DevComplete
<1>7. ASSUME NEW d \in Devices, DevSignal(d)
      PROVE  ServingInv'
  BY <1>7 DEF DevSignal
<1>8. ASSUME NEW d \in Devices, DevSleep(d) \/ DevSpurious(d) \/ DevExit(d) \/ DevPost(d)
      PROVE  ServingInv'
  BY <1>8 DEF DevSleep, DevSpurious, DevExit, DevPost
<1>9. CASE StopStore \/ StopBroadcast \/ StopJoin
  BY <1>9 DEF StopStore, StopBroadcast, StopJoin
<1> QED
  BY <1>1, <1>2, <1>3, <1>4, <1>5, <1>6, <1>7, <1>8, <1>9, StepCases
LEMMA DoneStep ==
  ASSUME TypeInv, QueueInv, ServingInv, DoneInv, [FabricNext]_fabricVars
  PROVE  DoneInv'
<1> USE DEF DoneInv, TypeInv, InFabric, Stages
<1> USE ThreadsAssumption
<1>1. CASE UNCHANGED fabricVars
  BY <1>1 DEF fabricVars
<1>2. ASSUME NEW r \in Requests, Create(r) \/ TakeCredit(r) \/ Destroy(r)
      PROVE  DoneInv'
  BY <1>2 DEF Create, TakeCredit, Destroy
<1>3. ASSUME NEW r \in Requests, WaitSleep(r) \/ WaitReturn(r) \/ WaitSpurious(r)
      PROVE  DoneInv'
  BY <1>3 DEF WaitSleep, WaitReturn, WaitSpurious
<1>4. ASSUME NEW r \in Requests, Enqueue(r)
      PROVE  DoneInv'
  <2>1. /\ stage[r] = "admitted" /\ queue' = Append(queue, r)
        /\ stage' = [stage EXCEPT ![r] = "submitted"]
        /\ UNCHANGED <<done, serving>>
    BY <1>4 DEF Enqueue
  <2>2. /\ \A i \in 1..Len(queue) : i \in 1..Len(queue') /\ queue'[i] = queue[i]
        /\ Len(queue') \in 1..Len(queue') /\ queue'[Len(queue')] = r
    BY <2>1, AppendElements
  <2> QED
    BY <2>1, <2>2
<1>5. ASSUME NEW d \in Devices, DevDequeue(d)
      PROVE  DoneInv'
  <2>1. /\ queue # <<>> /\ queue' = Tail(queue) /\ UNCHANGED <<stage, done>>
        /\ serving[d] = NoReq
        /\ serving' = [serving EXCEPT ![d] = queue[1]]
    BY <1>5, TailElements DEF DevDequeue, ServingInv
  <2>2. \A i \in 1..Len(queue) : \/ queue[i] = serving'[d]
                                 \/ i - 1 \in 1..Len(queue') /\ queue'[i - 1] = queue[i]
    BY <2>1, TailElements
  <2>3. \A e \in Devices : serving[e] # NoReq => serving'[e] = serving[e]
    BY <2>1
  <2>4. \A r \in Requests : InFabric(r) => InFabric(r)'
    BY <2>2, <2>3
  <2> QED
    BY <2>1, <2>4
<1>6. ASSUME NEW d \in Devices, DevComplete(d)
      PROVE  DoneInv'
  BY <1>6 DEF DevComplete, ServingInv
<1>7. ASSUME NEW d \in Devices, DevSignal(d)
      PROVE  DoneInv'
  BY <1>7 DEF DevSignal, ServingInv
<1>8. ASSUME NEW d \in Devices, DevSleep(d) \/ DevSpurious(d) \/ DevExit(d) \/ DevPost(d)
      PROVE  DoneInv'
  BY <1>8 DEF DevSleep, DevSpurious, DevExit, DevPost
<1>9. CASE StopStore \/ StopBroadcast \/ StopJoin
  BY <1>9 DEF StopStore, StopBroadcast, StopJoin
<1> QED
  BY <1>1, <1>2, <1>3, <1>4, <1>5, <1>6, <1>7, <1>8, <1>9, StepCases

LEMMA CompletionStep ==
  ASSUME TypeInv, ServingInv, DoneInv, NoLostCompletion, [FabricNext]_fabricVars
  PROVE  NoLostCompletion'
<1> USE DEF NoLostCompletion, TypeInv
<1> USE ThreadsAssumption
<1>1. CASE UNCHANGED fabricVars
  BY <1>1 DEF fabricVars
<1>2. ASSUME NEW r \in Requests, \/ Create(r) \/ TakeCredit(r) \/ Enqueue(r) \/ WaitSleep(r)
                                 \/ WaitReturn(r) \/ WaitSpurious(r) \/ Destroy(r)
      PROVE  NoLostCompletion'
  BY <1>2 DEF Create, TakeCredit, Enqueue, WaitSleep, WaitReturn, WaitSpurious, Destroy
<1>3. ASSUME NEW d \in Devices, \/ DevSleep(d) \/ DevSpurious(d) \/ DevDequeue(d) \/ DevExit(d)
                                \/ DevComplete(d) \/ DevPost(d)
      PROVE  NoLostCompletion'
  BY <1>3 DEF DevSleep, DevSpurious, DevDequeue, DevExit, DevComplete, DevPost, ServingInv
<1>4. ASSUME NEW d \in Devices, DevSignal(d)
      PROVE  NoLostCompletion'
  BY <1>4 DEF DevSignal
<1>5. CASE StopStore \/ StopBroadcast \/ StopJoin
  BY <1>5 DEF StopStore, StopBroadcast, StopJoin
<1> QED
  BY <1>1, <1>2, <1>3, <1>4, <1>5, StepCases

-----------------------------------------------------------------------------
(* What each kind of step does to the set of credit holders.               *)

LEMMA HoldersFinite == IsFiniteSet(Holders) /\ Cardinality(Holders) \in Nat
  BY ThreadsAssumption, FS_Subset, FS_CardinalityType DEF Holders

LEMMA HoldersStep ==
  ASSUME TypeInv, QueueInv, ServingInv, DoneInv, [FabricNext]_fabricVars
  PROVE  \/ Holders' = Holders /\ credits' = credits
         \/ /\ credits > 0 /\ credits' = credits - 1
            /\ \E r \in Requests : r \notin Holders /\ Holders' = Holders \cup {r}
         \/ /\ credits' = credits + 1
            /\ \E r \in Requests : r \in Holders /\ Holders' = Holders \ {r}
<1> USE DEF TypeInv, Holders, HoldsCredit
<1> USE ThreadsAssumption
<1>1. CASE UNCHANGED fabricVars
  BY <1>1 DEF fabricVars
<1>2. ASSUME NEW r \in Requests, TakeCredit(r)
      PROVE  /\ credits > 0 /\ credits' = credits - 1
             /\ r \notin Holders /\ Holders' = Holders \cup {r}
  BY <1>2 DEF TakeCredit
<1>3. ASSUME NEW r \in Requests, Create(r) \/ WaitSleep(r) \/ WaitReturn(r) \/ WaitSpurious(r) \/ Destroy(r)
      PROVE  Holders' = Holders /\ credits' = credits
  BY <1>3 DEF Create, WaitSleep, WaitReturn, WaitSpurious, Destroy, ReqLocked
<1>4. ASSUME NEW r \in Requests, Enqueue(r)
      PROVE  Holders' = Holders /\ credits' = credits
  <2>1. \A d \in Devices : dpc'[d] = "locked" <=> dpc[d] = "locked"
    BY <1>4 DEF Enqueue, SignalNotEmpty, Sleepers
  <2> QED
    BY <1>4, <2>1 DEF Enqueue, DoneInv
<1>5. ASSUME NEW d \in Devices, DevDequeue(d)
      PROVE  Holders' = Holders /\ credits' = credits
  BY <1>5 DEF DevDequeue
<1>6. ASSUME NEW d \in Devices, DevComplete(d)
      PROVE  Holders' = Holders /\ credits' = credits
  BY <1>6 DEF DevComplete, ServingInv
<1>7. ASSUME NEW d \in Devices, DevPost(d)
      PROVE  /\ credits' = credits + 1
             /\ serving[d] \in Holders /\ Holders' = Holders \ {serving[d]}
  BY <1>7 DEF DevPost, ServingInv
<1>8. ASSUME NEW d \in Devices, DevSignal(d)
      PROVE  Holders' = Holders /\ credits' = credits
  BY <1>8 DEF DevSignal, ServingInv
<1>9. ASSUME NEW d \in Devices, DevSleep(d) \/ DevSpurious(d) \/ DevExit(d)
      PROVE  Holders' = Holders /\ credits' = credits
  BY <1>9 DEF DevSleep, DevSpurious, DevExit
<1>10. CASE StopStore \/ StopBroadcast \/ StopJoin
  BY <1>10 DEF StopStore, StopBroadcast, StopJoin
<1>11. ASSUME NEW d \in Devices, DevPost(d)
       PROVE  serving[d] \in Requests
  BY <1>11 DEF DevPost, ServingInv
<1> QED
  BY <1>1, <1>2, <1>3, <1>4, <1>5, <1>6, <1>7, <1>8, <1>9, <1>10, <1>11, StepCases

LEMMA CreditStep ==
  ASSUME TypeInv, QueueInv, ServingInv, DoneInv, CreditConservation, [FabricNext]_fabricVars
  PROVE  CreditConservation'
<1> USE DEF CreditConservation, TypeInv
<1>1. CASE Holders' = Holders /\ credits' = credits
  BY <1>1
<1>2. ASSUME NEW r \in Requests, r \notin Holders, Holders' = Holders \cup {r},
             credits > 0, credits' = credits - 1
      PROVE  CreditConservation'
  <2>1. Cardinality(Holders') = Cardinality(Holders) + 1
    BY <1>2, HoldersFinite, FS_AddElement
  <2> QED
    BY <1>2, <2>1, HoldersFinite
<1>3. ASSUME NEW r \in Requests, r \in Holders, Holders' = Holders \ {r}, credits' = credits + 1
      PROVE  CreditConservation'
  <2>1. Cardinality(Holders') = Cardinality(Holders) - 1
    BY <1>3, HoldersFinite, FS_RemoveElement
  <2> QED
    BY <1>3, <2>1, HoldersFinite, DepthAssumption
<1> QED
  BY <1>1, <1>2, <1>3, HoldersStep
-----------------------------------------------------------------------------
(* The theorems.                                                           *)

LEMMA FabricInitInv ==
  ASSUME FabricInit
  PROVE  FabricInv
<1> USE DEF FabricInit
<1>1. TypeInv
  BY DepthAssumption DEF TypeInv, Stages, DevPcs, Lives
<1>2. QueueInv /\ ServingInv /\ DoneInv /\ NoLostCompletion
  BY DEF QueueInv, ServingInv, DoneInv, NoLostCompletion
<1>3. Holders = {}
  BY DEF Holders, HoldsCredit
<1>4. CreditConservation
  BY <1>3, FS_EmptySet, DepthAssumption DEF CreditConservation
<1> QED
  BY <1>1, <1>2, <1>4 DEF FabricInv

LEMMA FabricStepInv ==
  ASSUME FabricInv, [FabricNext]_fabricVars
  PROVE  FabricInv'
  BY TypeStep, QueueStep, ServingStep, DoneStep, CompletionStep, CreditStep DEF FabricInv

(* The inductive invariant holds in every reachable state.                 *)
THEOREM FabricInvariant == FabricSpec => []FabricInv
<1>1. FabricInit => FabricInv
  BY FabricInitInv
<1>2. FabricInv /\ [FabricNext]_fabricVars => FabricInv'
  BY FabricStepInv
<1> QED
  BY <1>1, <1>2, PTL DEF FabricSpec

(* Every variable keeps its type; in particular the semaphore never counts *)
(* more credits than sem_init gave it.                                     *)
THEOREM TypeCorrect == FabricSpec => []FabricTypeOK
<1>1. FabricInv => FabricTypeOK
  <2> SUFFICES ASSUME FabricInv PROVE FabricTypeOK
    OBVIOUS
  <2>1. credits \in 0..QueueDepth
    BY HoldersFinite, DepthAssumption DEF FabricInv, TypeInv, CreditConservation
  <2> QED
    BY <2>1 DEF FabricInv, TypeInv, FabricTypeOK
<1> QED
  BY <1>1, FabricInvariant, PTL

(* No interleaving of submissions and completions loses or duplicates a    *)
(* credit (sem_wait, sem_trywait against sem_post in complete_request).    *)
THEOREM CreditsConserved == FabricSpec => []CreditConservation
<1>1. FabricInv => CreditConservation
  BY DEF FabricInv
<1> QED
  BY <1>1, FabricInvariant, PTL

(* A request the queue or a device thread can still reach has not been     *)
(* returned to its owner or freed: cxl_request_destroy does not overtake   *)
(* the tail of complete_request.                                           *)
THEOREM NoAccessAfterFree == FabricSpec => []NoUseAfterFree
<1>1. FabricInv => NoUseAfterFree
  BY ThreadsAssumption DEF FabricInv, TypeInv, QueueInv, ServingInv, NoUseAfterFree, InFabric
<1> QED
  BY <1>1, FabricInvariant, PTL

(* An owner asleep on done_cond although done is set has its signal coming *)
(* from the device thread that still serves the request.                   *)
THEOREM CompletionNotLost == FabricSpec => []NoLostCompletion
<1>1. FabricInv => NoLostCompletion
  BY DEF FabricInv
<1> QED
  BY <1>1, FabricInvariant, PTL

-----------------------------------------------------------------------------
(* Work conservation: of the other parts only the types are needed.        *)

LEMMA AwakeFinite == IsFiniteSet(Awake) /\ Cardinality(Awake) \in Nat
  BY ThreadsAssumption, FS_Subset, FS_CardinalityType DEF Awake

LEMMA WorkStep ==
  ASSUME TypeInv, WorkConserving, [FabricNext]_fabricVars
  PROVE  WorkConserving'
<1> USE DEF WorkConserving, TypeInv, Sleepers, Awake
<1>1. ASSUME Awake' = Awake, Sleepers' = Sleepers, queue' = queue
      PROVE  WorkConserving'
  BY <1>1
<1>2. ASSUME NEW d \in Devices, d \notin Awake, Awake' = Awake \cup {d},
             Len(queue') <= Len(queue) + 1, Sleepers # {},
             Len(queue') \in Nat, Len(queue) \in Nat
      PROVE  WorkConserving'
  <2>1. Cardinality(Awake') = Cardinality(Awake) + 1
    BY <1>2, AwakeFinite, FS_AddElement DEF Awake
  <2> HIDE DEF Awake, Sleepers
  <2> QED
    BY <1>2, <2>1, AwakeFinite
<1>3. ASSUME NEW r \in Requests, Enqueue(r)
      PROVE  WorkConserving'
  <2>1. Len(queue') = Len(queue) + 1 /\ Len(queue) \in Nat
    BY <1>3, AppendElements DEF Enqueue
  <2>2. CASE Sleepers = {}
    <3>1. Sleepers' = {}
      BY <1>3, <2>2 DEF Enqueue, SignalNotEmpty
    <3> QED
      BY <3>1
  <2>3. CASE Sleepers # {}
    <3>1. PICK d \in Sleepers : dpc' = [dpc EXCEPT ![d] = "idle"]
      BY <1>3, <2>3 DEF Enqueue, SignalNotEmpty
    <3>2. d \in Devices /\ d \notin Awake /\ Awake' = Awake \cup {d}
      BY <3>1
    <3> QED
      BY <2>1, <2>3, <3>2, <1>2
  <2> QED
    BY <2>2, <2>3
<1>4. ASSUME NEW d \in Devices, DevSpurious(d)
      PROVE  WorkConserving'
  <2>1. d \in Sleepers /\ d \notin Awake /\ Awake' = Awake \cup {d} /\ queue' = queue
    BY <1>4 DEF DevSpurious
  <2> QED
    BY <2>1, <1>2
<1>5. ASSUME NEW d \in Devices, DevSignal(d)
      PROVE  WorkConserving'
  <2>1. d \notin Awake /\ Awake' = Awake \cup {d} /\ queue' = queue /\ Sleepers' = Sleepers
    BY <1>5 DEF DevSignal
  <2>2. CASE Sleepers = {}
    BY <2>1, <2>2
  <2> QED
    BY <2>1, <2>2, <1>2
<1>6. ASSUME NEW d \in Devices, DevSleep(d) \/ DevExit(d)
      PROVE  WorkConserving'
  <2>1. queue' = <<>>
    BY <1>6 DEF DevSleep, DevExit
  <2>2. Cardinality(Awake') \in Nat
    BY ThreadsAssumption, FS_Subset, FS_CardinalityType
  <2> QED
    BY <2>1, <2>2
<1>7. ASSUME NEW d \in Devices, DevDequeue(d)
      PROVE  WorkConserving'
  <2>1. d \in Awake /\ Awake' = Awake \ {d} /\ Sleepers' = Sleepers
    BY <1>7 DEF DevDequeue
  <2>2. Len(queue') = Len(queue) - 1 /\ Len(queue) \in Nat
    BY <1>7, TailElements DEF DevDequeue
  <2> HIDE DEF Awake, Sleepers
  <2>3. Cardinality(Awake') = Cardinality(Awake) - 1
    BY <2>1, AwakeFinite, FS_RemoveElement
  <2> QED
    BY <2>1, <2>2, <2>3, AwakeFinite
<1>8. CASE StopBroadcast
  <2>1. Sleepers' = {}
    BY <1>8 DEF StopBroadcast
  <2> QED
    BY <2>1
<1>9. ASSUME NEW d \in Devices, DevComplete(d) \/ DevPost(d)
      PROVE  WorkConserving'
  BY <1>9, <1>1 DEF DevComplete, DevPost
<1>10. CASE UNCHANGED <<dpc, queue>>
  BY <1>10, <1>1
<1>11. CASE UNCHANGED fabricVars
  BY <1>11, <1>10 DEF fabricVars
<1>12. ASSUME NEW r \in Requests, \/ Create(r) \/ TakeCredit(r) \/ WaitSleep(r)
                                  \/ WaitReturn(r) \/ WaitSpurious(r) \/ Destroy(r)
       PROVE  WorkConserving'
  BY <1>12, <1>10 DEF Create, TakeCredit, WaitSleep, WaitReturn, WaitSpurious, Destroy
<1>13. CASE StopStore \/ StopJoin
  BY <1>13, <1>10 DEF StopStore, StopJoin
<1> QED
  BY <1>3, <1>4, <1>5, <1>6, <1>7, <1>8, <1>9, <1>11, <1>12, <1>13, StepCases

(* One pthread_cond_signal per request is enough: while a device thread    *)
(* sleeps, every queued request has an awake thread to look at it.         *)
THEOREM NoIdleDevice == FabricSpec => []WorkConserving
<1>1. FabricInit => WorkConserving
  BY DEF FabricInit, WorkConserving, Sleepers
<1>2. FabricInv /\ WorkConserving /\ [FabricNext]_fabricVars => WorkConserving'
  BY WorkStep DEF FabricInv
<1> QED
  BY <1>1, <1>2, FabricInvariant, PTL DEF FabricSpec
-----------------------------------------------------------------------------
(* CxlFabric implements CreditPool. A step changes the phase of at most    *)
(* one request, and in the way of one of the pool's actions.               *)

PoolPhase == [r \in Requests |-> PhaseOf(r)]

LEMMA PhaseHolders ==
  /\ \A r \in Requests : PoolPhase[r] = PhaseOf(r)
  /\ \A r \in Requests : PhaseOf(r) = "inflight" <=> r \in Holders
  BY DEF PoolPhase, PhaseOf, Holders

LEMMA PhaseStep ==
  ASSUME TypeInv, QueueInv, ServingInv, DoneInv, [FabricNext]_fabricVars
  PROVE  \/ PoolPhase' = PoolPhase
         \/ credits > 0 /\ \E r \in Requests :
              PhaseOf(r) = "idle" /\ PoolPhase' = [PoolPhase EXCEPT ![r] = "inflight"]
         \/ \E r \in Requests :
              PhaseOf(r) = "inflight" /\ PoolPhase' = [PoolPhase EXCEPT ![r] = "complete"]
         \/ \E r \in Requests :
              PhaseOf(r) = "complete" /\ PoolPhase' = [PoolPhase EXCEPT ![r] = "idle"]
<1> USE DEF TypeInv, PoolPhase, PhaseOf, HoldsCredit
<1> USE ThreadsAssumption
<1>1. CASE UNCHANGED fabricVars
  BY <1>1 DEF fabricVars
<1>2. ASSUME NEW r \in Requests, TakeCredit(r)
      PROVE  /\ credits > 0 /\ PhaseOf(r) = "idle"
             /\ PoolPhase' = [PoolPhase EXCEPT ![r] = "inflight"]
  BY <1>2 DEF TakeCredit
<1>3. ASSUME NEW r \in Requests, Create(r) \/ WaitSleep(r) \/ WaitReturn(r) \/ WaitSpurious(r)
      PROVE  PoolPhase' = PoolPhase
  BY <1>3 DEF Create, WaitSleep, WaitReturn, WaitSpurious, ReqLocked
<1>4. ASSUME NEW r \in Requests, Destroy(r), stage[r] = "held"
      PROVE  PoolPhase' = PoolPhase
  BY <1>4 DEF Destroy
<1>5. ASSUME NEW r \in Requests, Destroy(r), stage[r] = "finished"
      PROVE  PhaseOf(r) = "complete" /\ PoolPhase' = [PoolPhase EXCEPT ![r] = "idle"]
  BY <1>5 DEF Destroy
<1>6. ASSUME NEW r \in Requests, Enqueue(r)
      PROVE  PoolPhase' = PoolPhase
  <2>1. \A d \in Devices : dpc'[d] = "locked" <=> dpc[d] = "locked"
    BY <1>6 DEF Enqueue, SignalNotEmpty, Sleepers
  <2> QED
    BY <1>6, <2>1 DEF Enqueue, DoneInv
<1>7. ASSUME NEW d \in Devices, DevDequeue(d)
      PROVE  PoolPhase' = PoolPhase
  BY <1>7 DEF DevDequeue
<1>8. ASSUME NEW d \in Devices, DevComplete(d)
      PROVE  PoolPhase' = PoolPhase
  BY <1>8 DEF DevComplete, ServingInv
<1>9. ASSUME NEW d \in Devices, DevPost(d)
      PROVE  /\ serving[d] \in Requests /\ PhaseOf(serving[d]) = "inflight"
             /\ PoolPhase' = [PoolPhase EXCEPT ![serving[d]] = "complete"]
  <2>1. /\ serving[d] \in Requests /\ serving[d] \in done
        /\ stage[serving[d]] \in {"submitted", "asleep"}
        /\ \A e \in Devices : serving[e] = serving[d] => e = d
    BY <1>9 DEF DevPost, ServingInv
  <2>2. /\ dpc[d] = "locked" /\ dpc' = [dpc EXCEPT ![d] = "posted"]
        /\ UNCHANGED <<stage, done, serving>>
    BY <1>9 DEF DevPost
  <2>3. HoldsCredit(serving[d]) /\ ~HoldsCredit(serving[d])'
    BY <2>1, <2>2
  <2>4. \A r \in Requests \ {serving[d]} : HoldsCredit(r)' <=> HoldsCredit(r)
    BY <2>1, <2>2
  <2> HIDE DEF HoldsCredit
  <2> QED
    BY <2>1, <2>2, <2>3, <2>4
<1>10. ASSUME NEW d \in Devices, DevSignal(d)
       PROVE  PoolPhase' = PoolPhase
  BY <1>10 DEF DevSignal, ServingInv
<1>11. ASSUME NEW d \in Devices, DevSleep(d) \/ DevSpurious(d) \/ DevExit(d)
       PROVE  PoolPhase' = PoolPhase
  BY <1>11 DEF DevSleep, DevSpurious, DevExit
<1>12. CASE StopStore \/ StopBroadcast \/ StopJoin
  BY <1>12 DEF StopStore, StopBroadcast, StopJoin
<1>13. \A r \in Requests : Destroy(r) => stage[r] \in {"held", "finished"}
  BY DEF Destroy
<1> HIDE DEF TypeInv, PoolPhase, PhaseOf, HoldsCredit
<1> QED
  BY <1>1, <1>2, <1>3, <1>4, <1>5, <1>6, <1>7, <1>8, <1>9, <1>10, <1>11, <1>12, <1>13, StepCases

(* The safety part of the refinement: as far as its owners can tell, the   *)
(* queue, the locks and the device threads of cxl_fabric.c are a pool of   *)
(* queue_depth credits, each granted to one request until it completes.    *)
THEOREM ImplementsPoolSafety == FabricSpec => Pool!PoolSafety
<1> USE DEF Pool!PoolInit, Pool!PoolNext, Pool!Admit, Pool!Complete, Pool!Collect, Pool!InFlight
<1>1. FabricInit => Pool!PoolInit
  BY DEF FabricInit, PhaseOf, HoldsCredit
<1>2. FabricInv /\ [FabricNext]_fabricVars => [Pool!PoolNext]_PoolPhase
  <2> SUFFICES ASSUME FabricInv, [FabricNext]_fabricVars
               PROVE  Pool!PoolNext \/ PoolPhase' = PoolPhase
    OBVIOUS
  <2>1. CASE PoolPhase' = PoolPhase
    BY <2>1
  <2>2. ASSUME NEW r \in Requests, credits > 0, PhaseOf(r) = "idle",
               PoolPhase' = [PoolPhase EXCEPT ![r] = "inflight"]
        PROVE  Pool!Admit(r)
    <3>1. Pool!InFlight = Holders
      BY PhaseHolders DEF PoolPhase, Holders
    <3> HIDE DEF Pool!InFlight
    <3>2. Pool!Cardinality(Holders) = Cardinality(Holders)
      BY Zenon DEF Pool!Cardinality, Cardinality
    <3>3. Pool!Cardinality(Pool!InFlight) < QueueDepth
      BY <2>2, <3>1, <3>2, HoldersFinite, DepthAssumption DEF FabricInv, TypeInv, CreditConservation
    <3> QED
      BY <2>2, <3>3, PhaseHolders DEF PoolPhase
  <2>3. ASSUME NEW r \in Requests, PhaseOf(r) = "inflight",
               PoolPhase' = [PoolPhase EXCEPT ![r] = "complete"]
        PROVE  Pool!Complete(r)
    BY <2>3, PhaseHolders DEF PoolPhase
  <2>4. ASSUME NEW r \in Requests, PhaseOf(r) = "complete",
               PoolPhase' = [PoolPhase EXCEPT ![r] = "idle"]
        PROVE  Pool!Collect(r)
    BY <2>4, PhaseHolders DEF PoolPhase
  <2> QED
    BY <2>1, <2>2, <2>3, <2>4, PhaseStep DEF FabricInv
<1> QED
  BY <1>1, <1>2, FabricInvariant, PTL DEF FabricSpec, Pool!PoolSafety, PoolPhase
-----------------------------------------------------------------------------
(* RequestList: the linked list of cxl_fabric.c behaves as the sequence of *)
(* CxlFabric, so that what is proved above of the sequence holds of it.    *)
(*                                                                         *)
(* That the pointers are the queue, and that the step taken by the         *)
(* pointers is one of CxlFabric, need each other; the induction needs also *)
(* that a request is queued once (QueueInv), for LinkLast writes next of   *)
(* two requests and must not disturb the rest of the list.                 *)

PointerTypes ==
  /\ head \in Requests \cup {NoReq}
  /\ tail \in Requests \cup {NoReq}
  /\ next \in [Requests -> Requests \cup {NoReq}]

ListInv == FabricInv /\ PointerTypes /\ ListIsQueue

(* The tests of head that the code makes are tests of the queue.           *)
LEMMA HeadIsFirst ==
  ASSUME ListInv
  PROVE  /\ queue \in Seq(Requests) /\ Len(queue) \in Nat
         /\ head = NoReq <=> queue = <<>>
         /\ tail = NoReq <=> queue = <<>>
         /\ queue # <<>> => head = Head(queue) /\ head = queue[1] /\ head \in Requests
         /\ queue # <<>> => tail = queue[Len(queue)] /\ tail \in Requests
<1>1. queue \in Seq(Requests) /\ Len(queue) \in Nat
  BY DEF ListInv, FabricInv, TypeInv
<1>2. queue # <<>> => Head(queue) = queue[1] /\ queue[1] \in Requests
                      /\ queue[Len(queue)] \in Requests
  BY <1>1
<1> QED
  BY <1>1, <1>2, ThreadsAssumption DEF ListInv, ListIsQueue

(* What the pointers decide is a step of the fabric.                       *)
LEMMA ListStepIsFabricStep ==
  ASSUME ListInv, [ListNext]_listVars
  PROVE  [FabricNext]_fabricVars
<1>1. CASE UNCHANGED listVars
  BY <1>1 DEF listVars
<1>2. ASSUME NEW r \in Requests, ListClient(r)
      PROVE  FabricNext
  BY <1>2 DEF ListClient, ListOwner, FabricNext, ClientStep
<1>3. ASSUME NEW d \in Devices, ListDequeue(d)
      PROVE  DevDequeue(d)
  BY <1>3, HeadIsFirst DEF ListDequeue, DevDequeue
<1>4. ASSUME NEW d \in Devices, ListEmpty(d)
      PROVE  DevSleep(d) \/ DevExit(d)
  <2>1. queue = <<>>
    BY <1>4, HeadIsFirst DEF ListEmpty
  <2> QED
    BY <1>4, <2>1 DEF ListEmpty, DevSleep, DevExit
<1>5. ASSUME NEW d \in Devices, ListDevice(d)
      PROVE  FabricNext
  BY <1>3, <1>4, <1>5 DEF ListDevice, FabricNext, DeviceStep
<1>6. CASE StopStep \/ Spurious \/ Terminated
  BY <1>6 DEF FabricNext
<1> QED
  BY <1>1, <1>2, <1>5, <1>6 DEF ListNext

(* No step but these two touches the queue or a queued request's pointers. *)
LEMMA EnqueueLinks ==
  ASSUME ListInv, NEW r \in Requests, Enqueue(r), LinkLast(r)
  PROVE  PointerTypes' /\ ListIsQueue'
<1>1. queue' = Append(queue, r) /\ stage[r] = "admitted"
  BY DEF Enqueue
<1>2. \A i \in 1..Len(queue) : queue[i] # r
  BY <1>1 DEF ListInv, FabricInv, QueueInv
<1>3. PointerTypes'
  BY DEF LinkLast, PointerTypes, ListInv
<1>4. CASE queue = <<>>
  <2>1. queue' = <<r>> /\ Len(queue') = 1 /\ queue'[1] = r
    BY <1>1, <1>4
  <2>2. head' = r /\ tail' = r /\ next'[r] = NoReq
    BY <1>4, HeadIsFirst, ThreadsAssumption DEF LinkLast
  <2> QED
    BY <1>3, <2>1, <2>2 DEF ListIsQueue
<1>5. CASE queue # <<>>
  <2> DEFINE n == Len(queue)
  <2>1. /\ n \in Nat \ {0} /\ Len(queue') = n + 1 /\ queue' # <<>>
        /\ \A i \in 1..n : queue'[i] = queue[i] /\ queue[i] \in Requests
        /\ queue'[n + 1] = r
    BY <1>1, <1>5, HeadIsFirst, AppendElements
  <2>2. tail = queue[n] /\ tail # NoReq /\ head = queue[1] /\ tail # r
    BY <1>2, <1>5, <2>1, HeadIsFirst
  <2>3. head' = queue'[1] /\ tail' = queue'[n + 1]
    BY <2>1, <2>2 DEF LinkLast
  <2>4. ASSUME NEW i \in 1..n
        PROVE  next'[queue'[i]] = queue'[i + 1]
    <3>1. CASE i = n
      BY <2>1, <2>2, <3>1 DEF LinkLast
    <3>2. CASE i # n
      <4>1. i + 1 \in 1..n /\ queue[i] # tail /\ queue[i] # r
        BY <1>2, <2>1, <2>2, <3>2 DEF ListInv, FabricInv, QueueInv
      <4>2. next'[queue[i]] = next[queue[i]]
        BY <2>1, <4>1 DEF LinkLast
      <4>3. next[queue[i]] = queue[i + 1]
        BY <3>2, <2>1 DEF ListInv, ListIsQueue
      <4> QED
        BY <2>1, <4>1, <4>2, <4>3
    <3> QED
      BY <3>1, <3>2
  <2>5. next'[queue'[n + 1]] = NoReq
    BY <2>1, <2>2 DEF LinkLast
  <2>6. \A i \in 1..Len(queue') :
          next'[queue'[i]] = IF i = Len(queue') THEN NoReq ELSE queue'[i + 1]
    BY <2>1, <2>4, <2>5
  <2> QED
    BY <1>3, <2>1, <2>3, <2>6 DEF ListIsQueue
<1> QED
  BY <1>4, <1>5

LEMMA DequeueUnlinks ==
  ASSUME ListInv, head # NoReq, UnlinkFirst, queue' = Tail(queue)
  PROVE  PointerTypes' /\ ListIsQueue'
<1> DEFINE n == Len(queue)
<1>1. /\ queue # <<>> /\ queue \in Seq(Requests) /\ n \in Nat \ {0}
      /\ head = queue[1] /\ tail = queue[n] /\ head \in Requests
  BY HeadIsFirst, TailElements
<1>2. /\ queue' \in Seq(Requests) /\ Len(queue') = n - 1
      /\ \A i \in 1..Len(queue') : queue'[i] = queue[i + 1]
  BY <1>1, TailElements
<1>3. \A i \in 1..n : /\ queue[i] \in Requests
                      /\ next[queue[i]] = IF i = n THEN NoReq ELSE queue[i + 1]
  BY <1>1 DEF ListInv, ListIsQueue
<1>4. \A i \in 1..n : queue[i] = head => i = 1
  BY <1>1 DEF ListInv, FabricInv, QueueInv
<1> HIDE DEF n
<1>5. PointerTypes'
  BY <1>1 DEF UnlinkFirst, PointerTypes, ListInv
<1>6. CASE n = 1
  <2>1. queue' = <<>> /\ Len(queue') = 0
    BY <1>2, <1>6
  <2>2. head' = NoReq /\ tail' = NoReq
    BY <1>1, <1>3, <1>6 DEF UnlinkFirst
  <2> QED
    BY <1>5, <2>1, <2>2 DEF ListIsQueue
<1>7. CASE n # 1
  <2>1. 1 \in 1..n /\ 2 \in 1..n /\ n - 1 \in 1..Len(queue') /\ 1 \in 1..Len(queue')
    BY <1>1, <1>2, <1>7
  <2>2. queue' # <<>>
    BY <2>1, <1>2
  <2>3. head' = queue'[1] /\ head' # NoReq
    BY <1>1, <1>2, <1>3, <1>7, <2>1, ThreadsAssumption DEF UnlinkFirst
  <2>4. tail' = queue'[n - 1]
    BY <1>1, <1>2, <2>1, <2>3 DEF UnlinkFirst
  <2>5. ASSUME NEW i \in 1..Len(queue')
        PROVE  next'[queue'[i]] = IF i = Len(queue') THEN NoReq ELSE queue'[i + 1]
    <3>1. i + 1 \in 1..n /\ i + 1 # 1 /\ queue'[i] = queue[i + 1]
      BY <1>1, <1>2
    <3>2. next'[queue[i + 1]] = next[queue[i + 1]]
      BY <1>3, <1>4, <3>1 DEF UnlinkFirst, ListInv, PointerTypes
    <3>3. next[queue[i + 1]] = IF i + 1 = n THEN NoReq ELSE queue[(i + 1) + 1]
      BY <1>3, <3>1
    <3>4. CASE i = Len(queue')
      BY <1>1, <1>2, <3>1, <3>2, <3>3, <3>4
    <3>5. CASE i # Len(queue')
      <4>1. i + 1 \in 1..Len(queue') /\ i + 1 # n
        BY <1>1, <1>2, <3>5
      <4>2. queue'[i + 1] = queue[(i + 1) + 1]
        BY <1>2, <4>1
      <4> QED
        BY <3>1, <3>2, <3>3, <3>5, <4>1, <4>2
    <3> QED
      BY <3>4, <3>5
  <2> QED
    BY <1>2, <1>5, <2>2, <2>3, <2>4, <2>5 DEF ListIsQueue
<1> QED
  BY <1>6, <1>7

LEMMA PointersStep ==
  ASSUME ListInv, [ListNext]_listVars
  PROVE  PointerTypes' /\ ListIsQueue'
<1>1. ASSUME UNCHANGED <<queue, pointers>>
      PROVE  PointerTypes' /\ ListIsQueue'
  BY <1>1 DEF ListInv, PointerTypes, ListIsQueue, pointers
<1>2. CASE UNCHANGED listVars
  BY <1>1, <1>2 DEF listVars, fabricVars
<1>3. ASSUME NEW r \in Requests, Create(r), ClearNext(r)
      PROVE  PointerTypes' /\ ListIsQueue'
  <2>1. UNCHANGED <<queue, head, tail>> /\ next' = [next EXCEPT ![r] = NoReq]
    BY <1>3 DEF Create, ClearNext
  <2>2. \A i \in 1..Len(queue) : queue[i] # r /\ queue[i] \in Requests
    BY <1>3, HeadIsFirst DEF Create, ListInv, FabricInv, QueueInv
  <2> QED
    BY <2>1, <2>2 DEF ListInv, PointerTypes, ListIsQueue
<1>4. ASSUME NEW r \in Requests, ListClient(r)
      PROVE  PointerTypes' /\ ListIsQueue'
  <2>1. CASE WaitSleep(r) \/ WaitReturn(r) \/ TakeCredit(r) \/ Destroy(r)
    <3>1. CASE UNCHANGED pointers
      BY <1>1, <2>1, <3>1 DEF WaitSleep, WaitReturn, TakeCredit, Destroy
    <3>2. CASE ~UNCHANGED pointers
      BY <1>3, <1>4, <3>2, EnqueueLinks DEF ListClient, ListOwner
    <3> QED
      BY <3>1, <3>2
  <2> QED
    BY <1>3, <1>4, <2>1, EnqueueLinks DEF ListClient, ListOwner
<1>5. ASSUME NEW d \in Devices, ListDevice(d)
      PROVE  PointerTypes' /\ ListIsQueue'
  <2>1. CASE ListDequeue(d)
    BY <2>1, DequeueUnlinks DEF ListDequeue
  <2>2. CASE ListEmpty(d)
    BY <1>1, <2>2 DEF ListEmpty
  <2>3. CASE (DevComplete(d) \/ DevPost(d) \/ DevSignal(d)) /\ UNCHANGED pointers
    BY <1>1, <2>3 DEF DevComplete, DevPost, DevSignal
  <2> QED
    BY <1>5, <2>1, <2>2, <2>3 DEF ListDevice
<1>6. CASE (StopStep \/ Spurious \/ Terminated) /\ UNCHANGED pointers
  BY <1>1, <1>6 DEF StopStep, StopStore, StopBroadcast, StopJoin, Spurious, WaitSpurious,
                    DevSpurious, Terminated, fabricVars
<1> QED
  BY <1>2, <1>4, <1>5, <1>6 DEF ListNext

(* The invariant of the fabric and of its list together.                   *)
THEOREM ListInvariant == ListSpec => []ListInv
<1>1. ListInit => ListInv
  <2> SUFFICES ASSUME ListInit PROVE ListInv
    OBVIOUS
  <2>1. FabricInv
    BY FabricInitInv DEF ListInit
  <2> QED
    BY <2>1 DEF ListInit, FabricInit, ListInv, PointerTypes, ListIsQueue
<1>2. ListInv /\ [ListNext]_listVars => ListInv'
  BY ListStepIsFabricStep, FabricStepInv, PointersStep DEF ListInv
<1> QED
  BY <1>1, <1>2, PTL DEF ListSpec

(* Along any behaviour the pointers of cxl_fabric.c spell the queue, and   *)
(* tail never points at a request that has left it.                        *)
THEOREM ListCorrect == ListSpec => []ListIsQueue
<1>1. ListInv => ListIsQueue
  BY DEF ListInv
<1> QED
  BY <1>1, ListInvariant, PTL

(* The linked list implements the queue of CxlFabric: every step it takes  *)
(* by its pointers is a step of the fabric, so credit conservation,        *)
(* lifetime and the refinement of the pool carry over.                     *)
THEOREM ListImplementsFabric == ListSpec => FabricSpec
<1>1. ListInit => FabricInit
  BY DEF ListInit
<1>2. ListInv /\ [ListNext]_listVars => [FabricNext]_fabricVars
  BY ListStepIsFabricStep
<1> QED
  BY <1>1, <1>2, ListInvariant, PTL DEF ListSpec, FabricSpec

-----------------------------------------------------------------------------
(* main and the policies: main against the workers (MainInv, IdleInv), and *)
(* the ownership table of the two policies without a controller            *)
(* (OwnerInv).                                                             *)

(* main has set stop_flag before it wakes and joins, joins before it       *)
(* destroys the fabric, and destroys the fabric after every worker is gone.*)
MainInv ==
  /\ mpc \in MainPcs /\ stop_flag \in BOOLEAN
  /\ mpc \notin {"starting", "sleeping"} => stop_flag
  /\ life = "up" <=> mpc \notin {"destroying", "done"}
  /\ mpc \in {"joined", "destroying", "done"} =>
       \A w \in Workers : wpc[w] \in {"unborn", "exited"}

(* A worker that is not running owns no request and owes no outcome.       *)
IdleInv ==
  \A w \in Workers : wpc[w] \in {"unborn", "exited"} => stage[w] = "free" /\ due[w] = 0

(* After the join nothing is owned: AccountingBalanced, and what           *)
(* cxl_fabric_destroy needs.                                               *)
LEMMA JoinedIdle ==
  ASSUME MainInv, IdleInv
  PROVE  /\ AccountingBalanced
         /\ mpc \in {"joined", "destroying", "done"} => AllFree
  BY DEF MainInv, IdleInv, AccountingBalanced, AllFree, Workers

(* A worker at work is one main has not joined: the fabric is up.          *)
LEMMA RunningUp ==
  ASSUME MainInv, NEW w \in Workers, wpc[w] \notin {"unborn", "exited"}
  PROVE  life = "up" /\ mpc \notin {"joined", "destroying", "done"}
  BY DEF MainInv

LEMMA MainFabricStep ==
  ASSUME MainInv, IdleInv, MainStep \/ TimeUp \/ SkipWakeAll
  PROVE  [FabricNext]_fabricVars
<1>1. CASE \/ \E w \in Workers : StartWorker(w)
           \/ StartDone \/ StartFails \/ JoinWorkers \/ TimeUp \/ SkipWakeAll
  BY <1>1 DEF StartWorker, StartDone, StartFails, JoinWorkers, TimeUp, SkipWakeAll
<1>2. CASE DestroyFabric
  <2>1. CASE mpc = "joined" /\ StopStore
    BY <2>1, JoinedIdle DEF FabricNext, StopStep
  <2>2. CASE StopBroadcast \/ StopJoin
    BY <2>2 DEF FabricNext, StopStep
  <2> QED
    BY <1>2, <2>1, <2>2 DEF DestroyFabric
<1> QED
  BY <1>1, <1>2 DEF MainStep

(* main's own steps keep MainInv and IdleInv: stage and due do not change, *)
(* and only a worker that has not run starts.                              *)
LEMMA MainInvStep ==
  ASSUME MainInv, IdleInv, NEW Pcs, wpc \in [Workers -> Pcs],
         MainStep \/ TimeUp \/ SkipWakeAll
  PROVE  MainInv' /\ IdleInv'
<1> USE DEF MainInv, IdleInv, MainPcs, mainVars, workerVars, fabricVars, At, Goto
<1>1. ASSUME NEW w \in Workers, StartWorker(w)
      PROVE  MainInv' /\ IdleInv'
  BY <1>1 DEF StartWorker
<1>2. CASE StartDone \/ StartFails \/ TimeUp \/ SkipWakeAll \/ JoinWorkers
  BY <1>2 DEF StartDone, StartFails, TimeUp, SkipWakeAll, JoinWorkers
<1>3. CASE DestroyFabric
  BY <1>3 DEF DestroyFabric, StopStore, StopBroadcast, StopJoin
<1> QED
  BY <1>1, <1>2, <1>3 DEF MainStep

(* Steps of the other threads leave main where it is, and no worker comes  *)
(* back from where main joins it.                                          *)
LEMMA OthersMainInv ==
  ASSUME MainInv, UNCHANGED <<mainVars, life>>,
         \A w \in Workers : wpc[w] \in {"unborn", "exited"} => wpc'[w] = wpc[w]
  PROVE  MainInv'
  BY DEF MainInv, mainVars

(* The steps of the device threads and the spurious wake-ups are steps of  *)
(* the fabric, and to an owner they are wake-ups at most.                  *)
LEMMA DeviceFabricStep ==
  ASSUME (\E d \in Devices : DeviceStep(d)) \/ Spurious
  PROVE  FabricNext
  BY DEF FabricNext

WakesOnly ==
  \A r \in Requests : stage'[r] = stage[r] \/ (stage[r] \in {"submitted", "asleep"}
                                               /\ stage'[r] \in {"submitted", "asleep"})

LEMMA DeviceWakesOnly ==
  ASSUME TypeInv, (\E d \in Devices : DeviceStep(d)) \/ Spurious
  PROVE  WakesOnly /\ life' = life
<1>1. ASSUME NEW d \in Devices, DeviceStep(d)
      PROVE  WakesOnly /\ life' = life
  BY <1>1 DEF WakesOnly, TypeInv, DeviceStep, DevSleep, DevDequeue, DevExit, DevComplete,
              DevPost, DevSignal
<1>2. CASE Spurious
  BY <1>2 DEF WakesOnly, TypeInv, Spurious, WaitSpurious, DevSpurious
<1> QED
  BY <1>1, <1>2

-----------------------------------------------------------------------------
(* Random and CSMA: what a worker owns and owes at each point. "credit" is *)
(* run_random's blocking acquisition; "try" and "admit" are run_csma's.    *)

OwnerPcs == {"unborn", "loop", "alloc", "credit", "try", "admit", "enqueue",
             "wait", "reap", "exited"}

Owns(w, stages, owed) == stage[w] \in stages /\ due[w] = owed

OwnerInv ==
  /\ wpc \in [Workers -> OwnerPcs]
  /\ due \in [Workers -> 0..1]
  /\ \A w \in Workers :
       /\ wpc[w] \in {"unborn", "loop", "alloc", "exited"} => Owns(w, {"free"}, 0)
       /\ wpc[w] = "try"                => Owns(w, {"held"}, 0)
       /\ wpc[w] \in {"credit", "admit"} => Owns(w, {"held"}, 1)
       /\ wpc[w] = "enqueue"            => Owns(w, {"admitted"}, 1)
       /\ wpc[w] = "wait"               => Owns(w, {"submitted", "asleep"}, 1)
       /\ wpc[w] = "reap"               => Owns(w, {"finished"}, 1)

OwnersInv == FabricInv /\ MainInv /\ OwnerInv

LEMMA OwnerIdle == ASSUME OwnerInv PROVE IdleInv
  BY DEF OwnerInv, IdleInv, Owns

LEMMA OwnersInit == ASSUME FabricInit, MainInit PROVE OwnersInv
<1>1. FabricInv
  BY FabricInitInv
<1>2. MainInv
  BY DEF FabricInit, MainInit, MainInv, MainPcs
<1>3. OwnerInv
  BY DEF FabricInit, MainInit, OwnerInv, OwnerPcs, Owns, Workers
<1> QED
  BY <1>1, <1>2, <1>3 DEF OwnersInv

LEMMA OwnersMainStep ==
  ASSUME OwnersInv, MainStep \/ TimeUp \/ SkipWakeAll
  PROVE  [FabricNext]_fabricVars /\ OwnersInv'
<1> USE DEF OwnersInv
<1>1. IdleInv /\ wpc \in [Workers -> OwnerPcs]
  BY OwnerIdle DEF OwnerInv
<1>2. [FabricNext]_fabricVars /\ MainInv'
  BY <1>1, MainFabricStep, MainInvStep
<1>3. FabricInv'
  BY <1>2, FabricStepInv
<1>4. OwnerInv'
  <2> USE DEF OwnerInv, Owns, OwnerPcs, mainVars, workerVars, fabricVars, At, Goto
  <2>1. ASSUME NEW w \in Workers, StartWorker(w) PROVE OwnerInv'
    BY <2>1 DEF StartWorker
  <2>2. CASE UNCHANGED <<stage, workerVars>>
    BY <2>2
  <2>3. CASE StartDone \/ StartFails \/ TimeUp \/ SkipWakeAll \/ JoinWorkers
    BY <2>2, <2>3 DEF StartDone, StartFails, TimeUp, SkipWakeAll, JoinWorkers
  <2>4. CASE DestroyFabric
    BY <2>2, <2>4 DEF DestroyFabric, StopStore, StopBroadcast, StopJoin
  <2> QED
    BY <2>1, <2>3, <2>4 DEF MainStep
<1> QED
  BY <1>2, <1>3, <1>4

LEMMA OwnersDeviceStep ==
  ASSUME OwnersInv, (\E d \in Devices : DeviceStep(d)) \/ Spurious,
         UNCHANGED <<mainVars, workerVars>>
  PROVE  [FabricNext]_fabricVars /\ OwnersInv'
<1> USE DEF OwnersInv
<1>1. FabricNext /\ FabricInv'
  BY DeviceFabricStep, FabricStepInv
<1>2. WakesOnly /\ life' = life
  BY DeviceWakesOnly DEF FabricInv
<1>3. MainInv'
  BY <1>2, OthersMainInv DEF workerVars
<1>4. OwnerInv'
  BY <1>2 DEF OwnerInv, Owns, WakesOnly, workerVars, Workers
<1> QED
  BY <1>1, <1>3, <1>4

(* A step of a worker: it is a step of the fabric as its owner, or none,   *)
(* and changes only what is the worker's.                                  *)
LEMMA OwnersWorkerStep ==
  ASSUME OwnersInv, NEW w \in Workers, [FabricNext]_fabricVars, OwnerInv',
         UNCHANGED <<mainVars, life>>, wpc[w] \notin {"unborn", "exited"},
         \A v \in Workers \ {w} : wpc'[v] = wpc[v]
  PROVE  OwnersInv'
<1>1. FabricInv'
  BY FabricStepInv DEF OwnersInv
<1>2. MainInv'
  BY OthersMainInv DEF OwnersInv
<1> QED
  BY <1>1, <1>2 DEF OwnersInv

LEMMA OwnersSharedStep ==
  ASSUME OwnersInv, NEW w \in Workers,
         Loop(w) \/ AllocFails(w) \/ EnqueueAdmitted(w) \/ AwaitDone(w) \/ Reap(w)
  PROVE  [FabricNext]_fabricVars /\ OwnersInv'
<1> USE DEF Workers
<1>1. [FabricNext]_fabricVars
  BY DEF Loop, AllocFails, EnqueueAdmitted, AwaitDone, Reap, FabricNext, ClientStep
<1>2. OwnerInv'
  <2> USE DEF OwnersInv, OwnerInv, Owns, OwnerPcs, FabricInv, TypeInv, At, Goto, fabricVars, mainVars
  <2>1. CASE Loop(w) \/ AllocFails(w)
    BY <2>1 DEF Loop, AllocFails
  <2>2. CASE EnqueueAdmitted(w)
    BY <2>2 DEF EnqueueAdmitted, Enqueue
  <2>3. CASE AwaitDone(w)
    BY <2>3 DEF AwaitDone, WaitSleep, WaitReturn
  <2>4. CASE Reap(w)
    BY <2>4 DEF Reap, Destroy
  <2> QED
    BY <2>1, <2>2, <2>3, <2>4
<1>3. /\ UNCHANGED <<mainVars, life>> /\ wpc[w] \notin {"unborn", "exited"}
      /\ \A v \in Workers \ {w} : wpc'[v] = wpc[v]
  BY DEF Loop, AllocFails, EnqueueAdmitted, AwaitDone, Reap, Enqueue, WaitSleep, WaitReturn,
         Destroy, At, Goto, fabricVars, OwnersInv, OwnerInv
<1> QED
  BY <1>1, <1>2, <1>3, OwnersWorkerStep
=============================================================================
