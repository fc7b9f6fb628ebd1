------------------------ MODULE APBroadcasterProofs ------------------------
(***************************************************************************)
(* Proofs about the access-point task (APBroadcaster), for every number   *)
(* of client slots, retry budget, queue capacity and message bound.       *)
(***************************************************************************)
EXTENDS APBroadcaster, TLAPS

USE APBroadcasterAssumption

\* Every try recorded for the current client so far failed with ENOMEM.
AllEnomem(log) == \A k \in 1 .. Len(log) : log[k] = "enomem"

(***************************************************************************)
(* The inductive invariant behind RetryOnlyOnEnomem.  Inside the retry     *)
(* loop (pc "send") the log holds exactly num_tries results, all ENOMEM,   *)
(* and another try is still allowed; only then may a try be appended.     *)
(***************************************************************************)
InRetryLoop ==
    ap_pc = "send" =>
        /\ Len(tries_log) = num_tries
        /\ num_tries < NumRetries
        /\ AllEnomem(tries_log)

IInv ==
    /\ tries_log \in Seq(SendResults)
    /\ num_tries \in Nat
    /\ InRetryLoop
    /\ RetryOnlyOnEnomem
-----------------------------------------------------------------------------
\* Every step of the model is a step of one of the actions that touch the
\* retry loop, or leaves ap_pc, num_tries and tries_log as they are.
LEMMA StepCases ==
    ASSUME [Next]_vars
    PROVE  \/ VisitClient \/ SendTo
           \/ /\ UNCHANGED <<num_tries, tries_log>>
              /\ ap_pc' # "send"
           \/ UNCHANGED <<ap_pc, num_tries, tries_log>>
BY DEF Next, APTask, Environment, CreateSocket, LoopTop, Receive, TakeLock,
       GiveLock, SendMessageToAllStations, ClientJoin, ClientLeave, StopTask,
       TaskUnchanged, EnvUnchanged, vars

LEMMA InitIInv == Init => IInv
BY DEF Init, IInv, InRetryLoop, RetryOnlyOnEnomem, AllEnomem

LEMMA StepIInv == IInv /\ [Next]_vars => IInv'
<1> SUFFICES ASSUME IInv, [Next]_vars PROVE IInv'
  OBVIOUS
<1>0. tries_log \in Seq(SendResults) /\ num_tries \in Nat
  BY DEF IInv
<1>1. CASE VisitClient
  <2>1. CASE active[ci]
    <3>1. ap_pc' = "send" /\ num_tries' = 0 /\ tries_log' = <<>>
      BY <1>1, <2>1 DEF VisitClient
    <3>2. QED
      BY <3>1 DEF IInv, InRetryLoop, RetryOnlyOnEnomem, AllEnomem
  <2>2. CASE ~active[ci]
    <3>1. ap_pc' = "fanout" /\ UNCHANGED <<num_tries, tries_log>>
      BY <1>1, <2>2 DEF VisitClient
    <3>2. QED
      BY <3>1 DEF IInv, InRetryLoop, RetryOnlyOnEnomem
  <2>3. QED
    BY <2>1, <2>2
<1>2. CASE SendTo
  <2>1. ap_pc = "send"
    BY <1>2 DEF SendTo
  <2>2. /\ Len(tries_log) = num_tries
        /\ num_tries < NumRetries
        /\ AllEnomem(tries_log)
    BY <2>1 DEF IInv, InRetryLoop
  <2>3. PICK r \in SendResults :
            /\ tries_log' = Append(tries_log, r)
            /\ IF RetryLoopEnds(r) \/ ~TriesLeft
                  THEN /\ ap_pc' = "fanout"
                       /\ UNCHANGED num_tries
                  ELSE /\ num_tries' = num_tries + 1
                       /\ UNCHANGED ap_pc
    BY <1>2 DEF SendTo
  <2>4. /\ tries_log' \in Seq(SendResults)
        /\ Len(tries_log') = num_tries + 1
        /\ \A k \in 1 .. num_tries : tries_log'[k] = "enomem"
        /\ tries_log'[num_tries + 1] = r
    BY <1>0, <2>2, <2>3 DEF AllEnomem
  <2>5. CASE RetryLoopEnds(r) \/ ~TriesLeft
    <3>1. ap_pc' = "fanout" /\ num_tries' = num_tries
      BY <2>3, <2>5
    <3>2. Len(tries_log') <= NumRetries
      BY <1>0, <2>2, <2>4
    <3>3. \A k \in 1 .. Len(tries_log') - 1 : tries_log'[k] = "enomem"
      BY <1>0, <2>4
    <3>4. QED
      BY <1>0, <2>4, <3>1, <3>2, <3>3 DEF IInv, InRetryLoop, RetryOnlyOnEnomem
  <2>6. CASE ~(RetryLoopEnds(r) \/ ~TriesLeft)
    <3>1. r = "enomem" /\ num_tries + 1 < NumRetries
      BY <2>6 DEF RetryLoopEnds, TriesLeft
    <3>2. ap_pc' = "send" /\ num_tries' = num_tries + 1
      BY <2>1, <2>3, <2>6
    <3>3. AllEnomem(tries_log')
      BY <1>0, <2>4, <3>1 DEF AllEnomem
    <3>4. /\ Len(tries_log') <= NumRetries
          /\ \A k \in 1 .. Len(tries_log') - 1 : tries_log'[k] = "enomem"
      BY <1>0, <2>4, <3>1, <3>3 DEF AllEnomem
    <3>5. QED
      BY <1>0, <2>4, <3>1, <3>2, <3>3, <3>4 DEF IInv, InRetryLoop, RetryOnlyOnEnomem
  <2>7. QED
    BY <2>5, <2>6
<1>3. CASE UNCHANGED <<num_tries, tries_log>> /\ ap_pc' # "send"
  BY <1>3 DEF IInv, InRetryLoop, RetryOnlyOnEnomem, AllEnomem
<1>4. CASE UNCHANGED <<ap_pc, num_tries, tries_log>>
  BY <1>4 DEF IInv, InRetryLoop, RetryOnlyOnEnomem, AllEnomem
<1>5. QED
  BY <1>1, <1>2, <1>3, <1>4, StepCases

(***************************************************************************)
(* For every retry budget kWiFiNumRetries >= 1: the task calls sendto at   *)
(* most kWiFiNumRetries times per client and message, and tries again only *)
(* after ENOMEM -- the break on success or on another errno and the bound *)
(* of the retry loop (comms_wifi.cpp:120-128) hold whatever sendto returns *)
(* and whatever the stations and producers do meanwhile.                  *)
(***************************************************************************)
THEOREM RetryOnlyOnEnomemHolds == Spec => []RetryOnlyOnEnomem
<1>1. IInv => RetryOnlyOnEnomem
  BY DEF IInv
<1>2. QED
  BY <1>1, InitIInv, StepIInv, PTL DEF Spec

-----------------------------------------------------------------------------
(* Type correctness.  TypeOK is split into the task's variables and the   *)
(* environment's, each proved preserved action by action.                *)

TaskType ==
    /\ ap_pc \in {"start", "top", "recv", "lock", "fanout", "send", "exited"}
    /\ msg \in Messages \cup {NoMsg}
    /\ ci \in 0 .. NumClients
    /\ num_tries \in 0 .. NumRetries - 1
    /\ tries_log \in Seq(SendResults)
    /\ ap_holds_lock \in BOOLEAN
    /\ sock_open \in BOOLEAN

EnvType ==
    /\ queue \in Seq(Messages)
    /\ Len(queue) <= QueueCapacity
    /\ produced \in 0 .. MaxMessages
    /\ active \in [Clients -> BOOLEAN]
    /\ delivered \subseteq Messages \X Clients
    /\ run_ap_task \in BOOLEAN

LEMMA TypeSplit == TypeOK <=> TaskType /\ EnvType
BY DEF TypeOK, TaskType, EnvType

\* The queue after an offer: a full queue is reset, so it never outgrows its capacity.
LEMMA QueueSendType ==
    ASSUME EnvType, NEW v \in Messages
    PROVE  /\ QueueSend(v) \in Seq(Messages)
           /\ Len(QueueSend(v)) <= QueueCapacity
BY DEF EnvType, QueueSend

(* TypeOK alone is not inductive: sendto adds <<msg, ci>> to the history  *)
(* and moves to slot ci + 1, which is right only because the task sends   *)
(* to a real slot and holds a real message.                               *)
SendSlot == ap_pc = "send" => ci < NumClients
HeldMsg == FanningOut => msg \in Messages

TInv == TaskType /\ EnvType /\ SendSlot /\ HeldMsg

LEMMA EmptyLog == <<>> \in Seq(SendResults)
OBVIOUS

LEMMA InitTInv == Init => TInv
<1> SUFFICES ASSUME Init PROVE TInv
  OBVIOUS
<1>1. TaskType
  <2>1. tries_log \in Seq(SendResults)
    BY EmptyLog DEF Init
  <2>2. /\ ap_pc \in {"start", "top", "recv", "lock", "fanout", "send", "exited"}
        /\ msg \in Messages \cup {NoMsg}
        /\ ci \in 0 .. NumClients
        /\ num_tries \in 0 .. NumRetries - 1
    BY DEF Init
  <2>3. ap_holds_lock \in BOOLEAN /\ sock_open \in BOOLEAN
    BY DEF Init
  <2>4. QED
    BY <2>1, <2>2, <2>3 DEF TaskType
<1>2. EnvType
  BY DEF Init, EnvType
<1>3. SendSlot /\ HeldMsg
  BY DEF Init, SendSlot, HeldMsg, FanningOut
<1>4. QED
  BY <1>1, <1>2, <1>3 DEF TInv

LEMMA StepTInv == TInv /\ [Next]_vars => TInv'
<1> SUFFICES ASSUME TaskType, EnvType, SendSlot, HeldMsg, [Next]_vars
             PROVE  TaskType' /\ EnvType' /\ SendSlot' /\ HeldMsg'
  BY DEF TInv
<1>1. CASE CreateSocket \/ LoopTop \/ GiveLock
  BY <1>1 DEF CreateSocket, LoopTop, GiveLock, TaskUnchanged, EnvUnchanged,
              TaskType, EnvType, SendSlot, HeldMsg, FanningOut
<1>2. CASE Receive
  <2>1. msg' \in Messages /\ queue' \in Seq(Messages) /\ Len(queue') <= QueueCapacity
    BY <1>2 DEF Receive, EnvType
  <2>2. QED
    BY <1>2, <2>1 DEF Receive, TaskType, EnvType, SendSlot, HeldMsg, FanningOut
<1>3. CASE TakeLock
  BY <1>3 DEF TakeLock, EnvUnchanged, TaskType, EnvType, SendSlot, HeldMsg, FanningOut
<1>4. CASE VisitClient
  <2>1. ci' \in 0 .. NumClients /\ num_tries' \in 0 .. NumRetries - 1
    BY <1>4 DEF VisitClient, NextSlot, TaskType
  <2>2. SendSlot'
    BY <1>4 DEF VisitClient, SendSlot
  <2>3. tries_log' \in Seq(SendResults)
    BY <1>4, EmptyLog DEF VisitClient, TaskType
  <2>4. QED
    BY <1>4, <2>1, <2>2, <2>3 DEF VisitClient, EnvUnchanged, TaskType, EnvType,
                                  HeldMsg, FanningOut
<1>5. CASE SendTo
  <2>1. PICK r \in SendResults :
            /\ tries_log' = Append(tries_log, r)
            /\ delivered' = IF r = "ok" THEN delivered \cup {<<msg, ci>>} ELSE delivered
            /\ IF RetryLoopEnds(r) \/ ~TriesLeft
                  THEN /\ ap_pc' = "fanout"
                       /\ NextSlot
                       /\ UNCHANGED num_tries
                  ELSE /\ num_tries' = num_tries + 1
                       /\ UNCHANGED <<ap_pc, ci>>
    BY <1>5 DEF SendTo
  <2>2. ap_pc = "send" /\ ci \in Clients /\ msg \in Messages
    BY <1>5 DEF SendTo, SendSlot, HeldMsg, FanningOut, TaskType, Clients
  <2>3. /\ ap_pc' \in {"fanout", "send"}
        /\ ci' \in 0 .. NumClients
        /\ num_tries' \in 0 .. NumRetries - 1
        /\ SendSlot'
    BY <2>1, <2>2 DEF TaskType, NextSlot, TriesLeft, SendSlot, Clients
  <2>4. tries_log' \in Seq(SendResults)
    BY <2>1 DEF TaskType
  <2>5. delivered' \subseteq Messages \X Clients
    BY <2>1, <2>2 DEF EnvType
  <2>6. QED
    BY <1>5, <2>2, <2>3, <2>4, <2>5 DEF SendTo, EnvUnchanged, TaskType, EnvType,
                                        HeldMsg, FanningOut
<1>6. CASE SendMessageToAllStations
  <2>1. produced + 1 \in Messages
    BY <1>6 DEF SendMessageToAllStations, EnvType, Messages
  <2>2. QED
    BY <1>6, <2>1, QueueSendType DEF SendMessageToAllStations, TaskType, EnvType,
                                     SendSlot, HeldMsg, FanningOut
<1>7. CASE ClientJoin \/ ClientLeave \/ StopTask
  BY <1>7 DEF ClientJoin, ClientLeave, StopTask, TaskType, EnvType, SendSlot,
              HeldMsg, FanningOut
<1>8. CASE UNCHANGED vars
  BY <1>8 DEF vars, TaskType, EnvType, SendSlot, HeldMsg, FanningOut
<1>9. QED
  BY <1>1, <1>2, <1>3, <1>4, <1>5, <1>6, <1>7, <1>8
     DEF Next, APTask, Environment

(***************************************************************************)
(* For every number of slots, retry budget and queue capacity the task's  *)
(* and the environment's variables keep their types; in particular the    *)
(* producer's xQueueReset on errQUEUE_FULL (comms_wifi.cpp:583-587) keeps *)
(* wifi_ap_message_queue_ within its capacity, and the task only ever     *)
(* records deliveries of real messages to real client slots.              *)
(***************************************************************************)
THEOREM TypeCorrect == Spec => []TypeOK
<1>1. TInv => TypeOK
  BY TypeSplit DEF TInv
<1>2. QED
  BY <1>1, InitTInv, StepTInv, PTL DEF Spec

=============================================================================
