---------------------- MODULE APBroadcasterRefinement ----------------------
(***************************************************************************)
(* Proof that the access-point task implements APBroadcast under the     *)
(* refinement mapping of APBroadcaster (Abstract), for every number of    *)
(* client slots, retry budget, queue capacity and message bound.          *)
(***************************************************************************)
EXTENDS APBroadcasterProofs, SequenceTheorems

USE APBroadcasterAssumption

(***************************************************************************)
(* Messages are numbered in the order they are offered.  Everything       *)
(* delivered so far carries a number no larger than the message the task  *)
(* last took, the queue holds larger numbers in increasing order, and no  *)
(* number exceeds the count of offers.  So the message taken by           *)
(* xQueueReceive has not been delivered to anyone before.                 *)
(***************************************************************************)
Numbering ==
    /\ msg <= produced
    /\ \A p \in delivered : p[1] <= msg
    /\ \A k \in 1 .. Len(queue) : msg < queue[k] /\ queue[k] <= produced
    /\ \A j, k \in 1 .. Len(queue) : j < k => queue[j] < queue[k]

(***************************************************************************)
(* The mutex: the task holds it exactly while it walks the client table,  *)
(* so the table cannot change then; it sends only to an active slot, and  *)
(* before it takes the mutex it has sent the new message to no one.       *)
(***************************************************************************)
LockedFanOut ==
    /\ ap_holds_lock <=> ap_pc \in {"fanout", "send"}
    /\ ap_pc = "send" => active[ci]
    /\ ap_pc = "lock" => \A p \in delivered : p[1] # msg
    /\ ap_pc \in {"fanout", "send"} =>
          \A p \in delivered : p[1] = msg => active[p[2]]

RInv == TInv /\ Numbering /\ LockedFanOut

-----------------------------------------------------------------------------
\* The facts of TInv the steps below use, in the form the provers need.
LEMMA TInvFacts ==
    ASSUME TInv
    PROVE  /\ msg \in Nat /\ produced \in Nat /\ ci \in Nat
           /\ queue \in Seq(Messages) /\ Messages \subseteq Nat
           /\ \A k \in 1 .. Len(queue) : queue[k] \in Nat
           /\ delivered \subseteq Messages \X Clients
           /\ active \in [Clients -> BOOLEAN]
<1>1. msg \in Nat /\ produced \in Nat /\ ci \in Nat
  BY DEF TInv, TaskType, EnvType, Messages, NoMsg
<1>2. queue \in Seq(Messages) /\ Messages \subseteq Nat
  BY DEF TInv, EnvType, Messages
<1>3. \A k \in 1 .. Len(queue) : queue[k] \in Nat
  BY <1>2, ElementOfSeq
<1>4. QED
  BY <1>1, <1>2, <1>3 DEF TInv, EnvType

LEMMA InitRInv == Init => RInv
<1> SUFFICES ASSUME Init PROVE RInv
  OBVIOUS
<1>1. TInv
  BY InitTInv
<1>2. Numbering
  BY DEF Init, Numbering, NoMsg
<1>3. LockedFanOut
  BY DEF Init, LockedFanOut
<1>4. QED
  BY <1>1, <1>2, <1>3 DEF RInv

\* Receive: the head of the queue becomes msg, and the rest stays ordered above it.
LEMMA ReceiveNumbering ==
    ASSUME TInv, Numbering, Receive
    PROVE  /\ Numbering'
           /\ \A p \in delivered : p[1] < msg'
<1>1. /\ queue \in Seq(Messages) /\ Len(queue) >= 1
      /\ msg' = queue[1] /\ queue' = Tail(queue)
      /\ delivered' = delivered /\ produced' = produced
  BY TInvFacts DEF Receive
<1>2. /\ Len(queue') = Len(queue) - 1
      /\ \A k \in 1 .. Len(queue') : queue'[k] = queue[k + 1]
  BY <1>1, HeadTailProperties
<1>3. \A p \in delivered : p[1] < msg'
  BY <1>1, TInvFacts DEF Numbering
<1>4. QED
  BY <1>1, <1>2, <1>3, TInvFacts DEF Numbering

\* An offer appends the next number above everything else, or empties the queue.
LEMMA OfferNumbering ==
    ASSUME TInv, Numbering, SendMessageToAllStations
    PROVE  Numbering'
<1>1. /\ produced' = produced + 1
      /\ msg' = msg /\ delivered' = delivered
      /\ queue' = QueueSend(produced + 1)
  BY DEF SendMessageToAllStations
<1>2. CASE Len(queue) = QueueCapacity
  BY <1>1, <1>2, TInvFacts DEF QueueSend, Numbering
<1>3. CASE Len(queue) # QueueCapacity
  <2>1. /\ queue' = Append(queue, produced + 1)
        /\ Len(queue') = Len(queue) + 1
        /\ \A k \in 1 .. Len(queue) : queue'[k] = queue[k]
        /\ queue'[Len(queue) + 1] = produced + 1
    <3>1. produced + 1 \in Messages
      BY DEF SendMessageToAllStations, Messages, TInv, EnvType
    <3>2. QED
      BY <1>1, <1>3, <3>1, TInvFacts, AppendProperties DEF QueueSend
  <2> DEFINE n == Len(queue)
  <2>2. n \in Nat /\ \A i \in 1 .. n : queue[i] \in Nat /\ msg \in Nat /\ produced \in Nat
    BY TInvFacts
  <2>3. \A k \in 1 .. n + 1 : msg < queue'[k] /\ queue'[k] <= produced + 1
    <3> SUFFICES ASSUME NEW k \in 1 .. n + 1
                 PROVE  msg < queue'[k] /\ queue'[k] <= produced + 1
      OBVIOUS
    <3>1. CASE k <= n
      BY <2>1, <2>2, <3>1 DEF Numbering, n
    <3>2. CASE k = n + 1
      <4>1. queue'[k] = produced + 1
        BY <2>1, <3>2 DEF n
      <4>2. msg <= produced
        BY DEF Numbering
      <4>3. QED
        BY <4>1, <4>2, TInvFacts
    <3>3. QED
      BY <2>2, <3>1, <3>2 DEF n
  <2>4. \A j, k \in 1 .. n + 1 : j < k => queue'[j] < queue'[k]
    <3> SUFFICES ASSUME NEW j \in 1 .. n + 1, NEW k \in 1 .. n + 1, j < k
                 PROVE  queue'[j] < queue'[k]
      OBVIOUS
    <3>1. CASE k <= n
      BY <2>1, <2>2, <3>1 DEF Numbering, n
    <3>2. CASE k = n + 1
      BY <2>1, <2>2, <3>2 DEF Numbering, n
    <3>3. QED
      BY <2>2, <3>1, <3>2 DEF n
  <2>5. msg' <= produced' /\ \A p \in delivered' : p[1] <= msg'
    BY <1>1, TInvFacts DEF Numbering
  <2>6. QED
    BY <1>1, <2>1, <2>3, <2>4, <2>5 DEF Numbering, n
<1>4. QED
  BY <1>2, <1>3

\* The steps that change neither the numbering nor the table or the lock.
LEMMA QuietNumbering ==
    ASSUME Numbering, UNCHANGED <<msg, produced, queue, delivered>>
    PROVE  Numbering'
BY DEF Numbering

LEMMA StepRInv == RInv /\ [Next]_vars => RInv'
<1> SUFFICES ASSUME TInv, Numbering, LockedFanOut, [Next]_vars
             PROVE  TInv' /\ Numbering' /\ LockedFanOut'
  BY DEF RInv
<1>0. TInv'
  BY StepTInv
<1>1. CASE CreateSocket \/ LoopTop
  <2>1. ap_pc \in {"start", "top"} /\ ap_pc' \in {"top", "recv", "exited"}
    BY <1>1 DEF CreateSocket, LoopTop
  <2>2. UNCHANGED <<msg, produced, queue, delivered, active, ci, ap_holds_lock>>
    BY <1>1 DEF CreateSocket, LoopTop, TaskUnchanged, EnvUnchanged
  <2>3. QED
    BY <1>0, <2>1, <2>2, QuietNumbering DEF LockedFanOut
<1>2. CASE Receive
  <2>1. Numbering' /\ \A p \in delivered : p[1] < msg'
    BY <1>2, ReceiveNumbering
  <2>2. ap_pc = "recv" /\ ap_pc' = "lock" /\ UNCHANGED <<ap_holds_lock, delivered>>
    BY <1>2 DEF Receive
  <2>3. \A p \in delivered : p[1] # msg'
    BY <2>1, TInvFacts DEF Messages, Clients
  <2>4. QED
    BY <1>0, <2>1, <2>2, <2>3 DEF LockedFanOut
<1>3. CASE TakeLock
  <2>1. /\ ap_pc = "lock" /\ ap_pc' = "fanout" /\ ap_holds_lock'
        /\ UNCHANGED <<msg, produced, queue, delivered, active>>
    BY <1>3 DEF TakeLock, EnvUnchanged
  <2>2. QED
    BY <1>0, <2>1, QuietNumbering DEF LockedFanOut
<1>4. CASE VisitClient
  <2>1. /\ ap_pc = "fanout" /\ ap_pc' \in {"fanout", "send"}
        /\ (ap_pc' = "send" => active[ci] /\ ci' = ci)
        /\ UNCHANGED <<msg, produced, queue, delivered, active, ap_holds_lock>>
    BY <1>4 DEF VisitClient, EnvUnchanged
  <2>2. QED
    BY <1>0, <2>1, QuietNumbering DEF LockedFanOut
<1>5. CASE SendTo
  <2>1. /\ ap_pc = "send" /\ active[ci]
        /\ ap_pc' \in {"fanout", "send"}
        /\ (ap_pc' = "send" => ci' = ci)
        /\ delivered' \subseteq delivered \cup {<<msg, ci>>}
        /\ UNCHANGED <<msg, produced, queue, active, ap_holds_lock>>
    BY <1>5 DEF SendTo, EnvUnchanged, LockedFanOut
  <2>2. Numbering'
    BY <2>1, TInvFacts DEF Numbering
  <2>3. \A p \in delivered' : p[1] = msg' => active'[p[2]]
    BY <2>1 DEF LockedFanOut
  <2>4. QED
    BY <1>0, <2>1, <2>2, <2>3 DEF LockedFanOut
<1>6. CASE GiveLock
  <2>1. /\ ap_pc' = "top" /\ ~ap_holds_lock'
        /\ UNCHANGED <<msg, produced, queue, delivered, active>>
    BY <1>6 DEF GiveLock, EnvUnchanged
  <2>2. QED
    BY <1>0, <2>1, QuietNumbering DEF LockedFanOut
<1>7. CASE SendMessageToAllStations
  <2>1. UNCHANGED <<ap_pc, msg, ci, ap_holds_lock, delivered, active>>
    BY <1>7 DEF SendMessageToAllStations
  <2>2. QED
    BY <1>0, <1>7, <2>1, OfferNumbering DEF LockedFanOut
<1>8. CASE ClientJoin \/ ClientLeave
  <2>1. /\ ~ap_holds_lock
        /\ UNCHANGED <<ap_pc, msg, ci, ap_holds_lock, produced, queue, delivered>>
    BY <1>8 DEF ClientJoin, ClientLeave, RegistryMayRun
  <2>2. QED
    BY <1>0, <2>1, QuietNumbering DEF LockedFanOut
<1>9. CASE StopTask \/ UNCHANGED vars
  <2>1. UNCHANGED <<ap_pc, msg, ci, ap_holds_lock, produced, queue, delivered, active>>
    BY <1>9 DEF StopTask, vars
  <2>2. QED
    BY <1>0, <2>1, QuietNumbering DEF LockedFanOut
<1>10. QED
  BY <1>1, <1>2, <1>3, <1>4, <1>5, <1>6, <1>7, <1>8, <1>9
     DEF Next, APTask, Environment

-----------------------------------------------------------------------------
(* The refinement mapping of APBroadcaster, spelt out.                    *)
InflightBar == IF FanningOut THEN msg ELSE NoMsg
DeliveredBar == {p \in delivered : ~(FanningOut /\ p[1] = msg)}

\* A step that keeps the mapped state: a stutter of APBroadcast.
LEMMA MappedStutter ==
    ASSUME UNCHANGED <<queue, produced, active, run_ap_task>>,
           InflightBar' = InflightBar, DeliveredBar' = DeliveredBar
    PROVE  UNCHANGED Abstract!vars
BY DEF Abstract!vars, InflightBar, DeliveredBar

LEMMA StepRefines ==
    ASSUME RInv, RInv', [Next]_vars
    PROVE  [Abstract!Next]_Abstract!vars
<1>1. CASE CreateSocket \/ LoopTop
  <2>1. ~FanningOut /\ ~FanningOut' /\ UNCHANGED <<queue, produced, active, run_ap_task, delivered>>
    BY <1>1 DEF CreateSocket, LoopTop, FanningOut, TaskUnchanged, EnvUnchanged
  <2>2. QED
    BY <2>1, MappedStutter DEF InflightBar, DeliveredBar
<1>2. CASE TakeLock \/ VisitClient
  <2>1. FanningOut /\ FanningOut' /\ UNCHANGED <<queue, produced, active, run_ap_task, delivered, msg>>
    BY <1>2 DEF TakeLock, VisitClient, FanningOut, EnvUnchanged
  <2>2. QED
    BY <2>1, MappedStutter DEF InflightBar, DeliveredBar
<1>3. CASE SendTo
  <2>1. /\ FanningOut /\ FanningOut'
        /\ UNCHANGED <<queue, produced, active, run_ap_task, msg>>
        /\ delivered \subseteq delivered'
        /\ delivered' \subseteq delivered \cup {<<msg, ci>>}
    BY <1>3 DEF SendTo, FanningOut, EnvUnchanged
  <2>2. DeliveredBar' = DeliveredBar
    BY <2>1 DEF DeliveredBar
  <2>3. QED
    BY <2>1, <2>2, MappedStutter DEF InflightBar
<1>4. CASE Receive
  <2>1. /\ ~FanningOut /\ FanningOut'
        /\ queue # <<>> /\ msg' = Head(queue) /\ queue' = Tail(queue)
        /\ UNCHANGED <<produced, active, run_ap_task, delivered>>
    BY <1>4 DEF Receive, FanningOut
  <2>2. \A p \in delivered : p[1] # msg'
    BY <1>4, ReceiveNumbering, TInvFacts DEF RInv, Messages, Clients
  <2>3. DeliveredBar' = delivered /\ DeliveredBar = delivered
    BY <2>1, <2>2 DEF DeliveredBar
  <2>4. Abstract!Take
    BY <2>1, <2>3 DEF Abstract!Take, InflightBar, DeliveredBar, NoMsg, Abstract!NoMsg
  <2>5. QED
    BY <2>4 DEF Abstract!Next
<1>5. CASE GiveLock
  <2> DEFINE reached == {c \in Clients : <<msg, c>> \in delivered}
  <2>1. /\ FanningOut /\ ~FanningOut' /\ ap_pc = "fanout"
        /\ UNCHANGED <<queue, produced, active, run_ap_task, delivered, msg>>
    BY <1>5 DEF GiveLock, FanningOut, EnvUnchanged
  <2>2. msg \in Messages /\ msg # NoMsg
    BY <2>1 DEF RInv, TInv, HeldMsg, Messages, NoMsg
  <2>3. reached \in SUBSET {c \in Clients : active[c]}
    BY <2>1 DEF RInv, LockedFanOut
  <2>4. DeliveredBar' = DeliveredBar \cup ({msg} \X reached)
    BY <2>1, TInvFacts DEF RInv, DeliveredBar
  <2>5. Abstract!Deliver
    BY <2>1, <2>2, <2>3, <2>4 DEF Abstract!Deliver, InflightBar, DeliveredBar,
                                  Abstract!NoMsg, NoMsg, Abstract!Clients, Clients
  <2>6. QED
    BY <2>5 DEF Abstract!Next
<1>6. CASE SendMessageToAllStations
  <2>1. Abstract!Offer
    BY <1>6 DEF SendMessageToAllStations, QueueSend, Abstract!Offer, FanningOut
  <2>2. QED
    BY <2>1 DEF Abstract!Next
<1>7. CASE ClientJoin \/ ClientLeave
  <2>1. /\ UNCHANGED <<ap_pc, msg, queue, produced, delivered, run_ap_task>>
        /\ \E c \in Clients : active' = [active EXCEPT ![c] = ~@]
    <3>1. active \in [Clients -> BOOLEAN]
      BY TInvFacts DEF RInv
    <3>2. QED
      BY <1>7, <3>1 DEF ClientJoin, ClientLeave
  <2>2. Abstract!Membership
    BY <2>1 DEF Abstract!Membership, Clients, Abstract!Clients, FanningOut
  <2>3. QED
    BY <2>2 DEF Abstract!Next
<1>8. CASE StopTask
  <2>1. Abstract!Stop
    BY <1>8 DEF StopTask, Abstract!Stop, FanningOut
  <2>2. QED
    BY <2>1 DEF Abstract!Next
<1>9. CASE UNCHANGED vars
  BY <1>9, MappedStutter DEF vars, InflightBar, DeliveredBar, FanningOut
<1>10. QED
  BY <1>1, <1>2, <1>3, <1>4, <1>5, <1>6, <1>7, <1>8, <1>9
     DEF Next, APTask, Environment

LEMMA InitRefines == Init => Abstract!Init
BY DEF Init, Abstract!Init, FanningOut, NoMsg, Abstract!NoMsg, Clients, Abstract!Clients

(***************************************************************************)
(* For every number of client slots, retry budget, queue capacity and     *)
(* message bound, WiFiAccessPointTask with its producer and the client    *)
(* registry implements APBroadcast: each message taken from               *)
(* wifi_ap_message_queue_ is delivered, as one indivisible step, to a     *)
(* subset of the clients active at that step, and to nobody before it was *)
(* taken -- because the task holds wifi_clients_list_mutex_ over the whole *)
(* loop over slots (comms_wifi.cpp:114-141) and messages leave the queue  *)
(* in the order they were offered.                                         *)
(***************************************************************************)
THEOREM RefinementHolds == Spec => ImplementsAPBroadcast
<1>1. RInv /\ RInv' /\ [Next]_vars => [Abstract!Next]_Abstract!vars
  BY StepRefines
<1>2. QED
  BY <1>1, InitRInv, StepRInv, InitRefines, PTL DEF Spec, ImplementsAPBroadcast, Abstract!Spec

=============================================================================
