------------------------ MODULE FeedForwarderProofs ------------------------
(***************************************************************************)
(* Proofs about the station task (FeedForwarder), for every number of     *)
(* feed slots, queue length, interval and clock width.                    *)
(***************************************************************************)
EXTENDS FeedForwarder, FiniteSetTheorems, SequenceTheorems, TLAPS

USE FeedForwarderAssumption

\* The slots whose socket is connected, for a connection table c.
ConnectedSet(c) == {i \in Feeds : c[i]}

(***************************************************************************)
(* The inductive invariant behind NoSocketLeak.  A failed send closes the  *)
(* socket of slot i and decrements the count, which is right only if the  *)
(* slot was connected: the task reaches the send stage only for a         *)
(* connected slot, inside the loop over feeds, and nothing else changes   *)
(* the slot before the send.                                               *)
(***************************************************************************)
SendOnConnected == stage = "send" => pc = "feeds" /\ connected[fi]

IInv ==
    /\ connected \in [Feeds -> BOOLEAN]
    /\ fi \in Feeds
    /\ SendOnConnected
    /\ NoSocketLeak

-----------------------------------------------------------------------------
(* Lemmas about the number of connected slots.                            *)

LEMMA FeedsFinite == IsFiniteSet(Feeds)
BY FS_Interval DEF Feeds

LEMMA ConnectedCard ==
    ASSUME NEW c \in [Feeds -> BOOLEAN]
    PROVE  /\ IsFiniteSet(ConnectedSet(c))
           /\ Cardinality(ConnectedSet(c)) \in Nat
<1>1. IsFiniteSet(ConnectedSet(c))
  BY FeedsFinite, FS_Subset DEF ConnectedSet
<1>2. QED
  BY <1>1, FS_CardinalityType

\* Marking a disconnected slot j connected adds one to the count.
LEMMA SlotConnect ==
    ASSUME NEW c \in [Feeds -> BOOLEAN], NEW j \in Feeds, ~c[j]
    PROVE  Cardinality(ConnectedSet([c EXCEPT ![j] = TRUE])) =
              Cardinality(ConnectedSet(c)) + 1
<1> DEFINE S == ConnectedSet(c)
<1>1. IsFiniteSet(S) /\ j \notin S
  BY ConnectedCard DEF ConnectedSet
<1>2. ConnectedSet([c EXCEPT ![j] = TRUE]) = S \cup {j}
  BY DEF ConnectedSet
<1>3. Cardinality(S \cup {j}) = Cardinality(S) + 1
  BY <1>1, FS_AddElement
<1>4. QED
  BY <1>2, <1>3

\* Marking a connected slot j disconnected takes one from the count.
LEMMA SlotDisconnect ==
    ASSUME NEW c \in [Feeds -> BOOLEAN], NEW j \in Feeds, c[j]
    PROVE  Cardinality(ConnectedSet([c EXCEPT ![j] = FALSE])) =
              Cardinality(ConnectedSet(c)) - 1
<1> DEFINE S == ConnectedSet(c)
<1>1. IsFiniteSet(S) /\ j \in S
  BY ConnectedCard DEF ConnectedSet
<1>2. ConnectedSet([c EXCEPT ![j] = FALSE]) = S \ {j}
  BY DEF ConnectedSet
<1>3. Cardinality(S \ {j}) = Cardinality(S) - 1
  BY <1>1, FS_RemoveElement
<1>4. QED
  BY <1>2, <1>3

\* Marking a disconnected slot disconnected leaves the set as it is.
LEMMA SlotStaysDisconnected ==
    ASSUME NEW c \in [Feeds -> BOOLEAN], NEW j \in Feeds, ~c[j]
    PROVE  ConnectedSet([c EXCEPT ![j] = FALSE]) = ConnectedSet(c)
BY DEF ConnectedSet

LEMMA NoneConnected == Cardinality(ConnectedSet([i \in Feeds |-> FALSE])) = 0
<1>1. ConnectedSet([i \in Feeds |-> FALSE]) = {}
  BY DEF ConnectedSet
<1>2. QED
  BY <1>1, FS_EmptySet

-----------------------------------------------------------------------------
\* Every step of the model is a step of one of its actions, or a stutter.
LEMMA StepCases ==
    ASSUME [Next]_vars
    PROVE  \/ WaitForIp \/ ReceivePacket \/ ReceiveTimeout \/ ExitTask
           \/ FeedInactive \/ FeedConnected \/ FeedRateLimited \/ FeedConnect
           \/ FeedSend
           \/ UNCHANGED <<pc, fi, stage, connected, open_sockets>>
BY DEF Next, StationTask, FeedStep, Environment, SendDecodedTransponderPacket,
       ChangeFeedSettings, GotIp, StopTask, Tick, vars, task

\* Leaving a slot: the stage is reset and the index stays a slot or wraps to 0.
LEMMA NextFeedFacts ==
    ASSUME fi \in Feeds, NextFeed
    PROVE  stage' = "check" /\ fi' \in Feeds
BY DEF NextFeed, Feeds

LEMMA InitIInv == Init => IInv
<1> SUFFICES ASSUME Init PROVE IInv
  OBVIOUS
<1>1. connected = [i \in Feeds |-> FALSE] /\ open_sockets = 0 /\ fi = 0
  BY DEF Init
<1>2. fi \in Feeds
  BY <1>1 DEF Feeds
<1>3. QED
  BY <1>1, <1>2, NoneConnected DEF Init, IInv, SendOnConnected, NoSocketLeak, ConnectedSet

LEMMA StepIInv == IInv /\ [Next]_vars => IInv'
<1> SUFFICES ASSUME IInv, [Next]_vars PROVE IInv'
  OBVIOUS
<1> DEFINE N == Cardinality(ConnectedSet(connected))
<1>0. /\ connected \in [Feeds -> BOOLEAN]
      /\ fi \in Feeds
      /\ open_sockets = N
      /\ N \in Nat
  BY ConnectedCard DEF IInv, NoSocketLeak, ConnectedSet
<1>1. CASE WaitForIp \/ ReceivePacket \/ ReceiveTimeout
  BY <1>0, <1>1 DEF WaitForIp, ReceivePacket, ReceiveTimeout, UpdateStats,
                    EnvUnchanged, IInv, SendOnConnected, NoSocketLeak
<1>2. CASE ExitTask
  <2>1. connected' = [i \in Feeds |-> FALSE] /\ open_sockets' = 0
    BY <1>0, <1>2 DEF ExitTask, ConnectedSet
  <2>2. stage' # "send"
    BY <1>2 DEF ExitTask, IInv, SendOnConnected
  <2>3. QED
    BY <1>0, <1>2, <2>1, <2>2, NoneConnected
       DEF ExitTask, IInv, SendOnConnected, NoSocketLeak, ConnectedSet
<1>3. CASE FeedInactive
  <2>1. stage' = "check" /\ fi' \in Feeds
    BY <1>0, <1>3, NextFeedFacts DEF FeedInactive
  <2>2. open_sockets' = Cardinality(ConnectedSet(connected'))
    <3>1. connected' = [connected EXCEPT ![fi] = FALSE]
      BY <1>3 DEF FeedInactive
    <3>2. CASE connected[fi]
      BY <1>0, <1>3, <3>1, <3>2, SlotDisconnect DEF FeedInactive
    <3>3. CASE ~connected[fi]
      BY <1>0, <1>3, <3>1, <3>3, SlotStaysDisconnected DEF FeedInactive
    <3>4. QED
      BY <3>2, <3>3
  <2>3. pc' # "exited"
    BY <1>3 DEF FeedInactive, NextFeed
  <2>4. QED
    BY <1>0, <1>3, <2>1, <2>2, <2>3
       DEF FeedInactive, IInv, SendOnConnected, NoSocketLeak, ConnectedSet
<1>4. CASE FeedConnected
  BY <1>0, <1>4 DEF FeedConnected, IInv, SendOnConnected, NoSocketLeak
<1>5. CASE FeedRateLimited
  <2>1. stage' = "check" /\ fi' \in Feeds
    BY <1>0, <1>5, NextFeedFacts DEF FeedRateLimited
  <2>2. pc' # "exited"
    BY <1>5 DEF FeedRateLimited, NextFeed
  <2>3. QED
    BY <1>0, <1>5, <2>1, <2>2 DEF FeedRateLimited, IInv, SendOnConnected, NoSocketLeak
<1>6. CASE FeedConnect
  <2>1. PICK r \in ConnectResults(uri[fi]) :
            /\ open_sockets' = SocketsAfterAttempt(r)
            /\ IF r = "ok"
                  THEN /\ connected' = [connected EXCEPT ![fi] = TRUE]
                       /\ stage' = "send"
                       /\ UNCHANGED <<pc, fi>>
                  ELSE /\ UNCHANGED connected
                       /\ NextFeed
    BY <1>6 DEF FeedConnect
  <2>2. ~connected[fi] /\ pc = "feeds"
    BY <1>6 DEF FeedConnect
  <2>3. CASE r = "ok"
    <3>1. open_sockets' = N + 1
      BY <1>0, <2>1, <2>3 DEF SocketsAfterAttempt
    <3>2. Cardinality(ConnectedSet(connected')) = N + 1
      <4>1. connected' = [connected EXCEPT ![fi] = TRUE]
        BY <2>1, <2>3
      <4>2. QED
        BY <1>0, <2>2, <4>1, SlotConnect
    <3>3. QED
      BY <1>0, <2>1, <2>2, <2>3, <3>1, <3>2
         DEF IInv, SendOnConnected, NoSocketLeak, ConnectedSet
  <2>4. CASE r # "ok"
    <3>1. r \in {"socket_error", "connect_error", "dns_error"}
      BY <2>4 DEF ConnectResults
    <3>2. open_sockets' = open_sockets
      BY <1>0, <2>1, <3>1 DEF SocketsAfterAttempt
    <3>3. stage' = "check" /\ fi' \in Feeds /\ pc' # "exited"
      <4>1. NextFeed /\ connected' = connected
        BY <2>1, <2>4
      <4>2. QED
        BY <1>0, <2>2, <4>1, NextFeedFacts DEF NextFeed
    <3>4. QED
      BY <1>0, <2>1, <2>4, <3>2, <3>3
         DEF IInv, SendOnConnected, NoSocketLeak, ConnectedSet
  <2>5. QED
    BY <2>3, <2>4
<1>7. CASE FeedSend
  <2>1. connected[fi] /\ pc = "feeds"
    BY <1>7 DEF FeedSend, IInv, SendOnConnected
  <2>2. stage' = "check" /\ fi' \in Feeds /\ pc' # "exited"
    BY <1>0, <1>7, NextFeedFacts DEF FeedSend, NextFeed
  <2>3. open_sockets' = Cardinality(ConnectedSet(connected'))
    <3>1. CASE connected' = [connected EXCEPT ![fi] = FALSE]
                  /\ open_sockets' = open_sockets - 1
      BY <1>0, <2>1, <3>1, SlotDisconnect
    <3>2. CASE UNCHANGED <<connected, open_sockets>>
      BY <1>0, <3>2
    <3>3. QED
      BY <1>7, <3>1, <3>2 DEF FeedSend
  <2>4. connected' \in [Feeds -> BOOLEAN]
    BY <1>0, <1>7 DEF FeedSend
  <2>5. QED
    BY <2>2, <2>3, <2>4 DEF IInv, SendOnConnected, NoSocketLeak, ConnectedSet
<1>8. CASE UNCHANGED <<pc, fi, stage, connected, open_sockets>>
  BY <1>0, <1>8 DEF IInv, SendOnConnected, NoSocketLeak
<1>9. QED
  BY <1>1, <1>2, <1>3, <1>4, <1>5, <1>6, <1>7, <1>8, StepCases

(***************************************************************************)
(* No socket leak, for every number of feed slots: the lwIP sockets the    *)
(* station task holds are exactly those of its connected slots -- the DNS, *)
(* connect and send failure paths and the deactivation of a feed close    *)
(* what socket() opened -- and none is left once the task has exited.     *)
(***************************************************************************)
THEOREM NoSocketLeakHolds == Spec => []NoSocketLeak
<1>1. IInv => NoSocketLeak
  BY DEF IInv
<1>2. QED
  BY <1>1, InitIInv, StepIInv, PTL DEF Spec

-----------------------------------------------------------------------------
(* Type correctness.  TypeOK is proved in groups: the task's control      *)
(* state, the environment, and the per-slot timestamps and counters; the  *)
(* connection table, the slot index and the socket count come from IInv. *)

CtlType ==
    /\ pc \in {"wait_ip", "top", "feeds", "exited"}
    /\ stage \in {"check", "send"}
    /\ packet \in BOOLEAN

EnvType ==
    /\ queue \in Seq(BOOLEAN)
    /\ Len(queue) <= QueueCapacity
    /\ produced \in 0 .. MaxPackets
    /\ now \in 0 .. MaxTime
    /\ active \in [Feeds -> BOOLEAN]
    /\ protocol \in [Feeds -> Protocols]
    /\ uri \in [Feeds -> Uris]
    /\ sta_has_ip \in BOOLEAN
    /\ run_sta_task \in BOOLEAN

SlotType ==
    /\ last_connect \in [Feeds -> 0 .. ClockWrap - 1]
    /\ mps_counter \in [Feeds -> Nat]
    /\ mps \in [Feeds -> Nat]
    /\ stats_ts \in 0 .. ClockWrap - 1
    /\ since_attempt \in [Feeds -> 0 .. ReconnectInterval + 1]

LEMMA TypeSplit ==
    IInv => (TypeOK <=> CtlType /\ EnvType /\ SlotType)
<1> SUFFICES ASSUME IInv PROVE TypeOK <=> CtlType /\ EnvType /\ SlotType
  OBVIOUS
<1>1. open_sockets \in Nat
  BY ConnectedCard DEF IInv, NoSocketLeak, ConnectedSet
<1>2. QED
  BY <1>1 DEF IInv, TypeOK, CtlType, EnvType, SlotType

\* get_time_since_boot_ms() is a uint32_t: the clock is below its wrap.
LEMMA ClockRange ==
    ASSUME now \in Nat
    PROVE  Clock \in 0 .. ClockWrap - 1
BY DEF Clock

LEMMA InitType == Init => CtlType /\ EnvType /\ SlotType
<1> SUFFICES ASSUME Init PROVE CtlType /\ EnvType /\ SlotType
  OBVIOUS
<1>1. CtlType
  BY DEF Init, CtlType
<1>2. EnvType
  BY DEF Init, EnvType
<1>3. SlotType
  BY DEF Init, SlotType
<1>4. QED
  BY <1>1, <1>2, <1>3

\* The statistics block keeps the counters and the timestamp typed.
LEMMA UpdateStatsType ==
    ASSUME SlotType, now \in Nat, UpdateStats
    PROVE  /\ mps' \in [Feeds -> Nat] /\ mps_counter' \in [Feeds -> Nat]
           /\ stats_ts' \in 0 .. ClockWrap - 1
BY ClockRange DEF UpdateStats, SlotType

\* Leaving a slot moves the control state to "check", in the loop or at its top.
LEMMA NextFeedCtl ==
    ASSUME CtlType, pc = "feeds", NextFeed
    PROVE  pc' \in {"feeds", "top"} /\ stage' = "check"
BY DEF NextFeed, CtlType

ctl == <<pc, stage, packet>>
env == <<queue, produced, now, active, protocol, uri, sta_has_ip, run_sta_task>>
slots == <<last_connect, mps_counter, mps, stats_ts, since_attempt>>

\* The steps each group of variables is left alone by.
LEMMA Untouched ==
    /\ CtlType /\ UNCHANGED ctl => CtlType'
    /\ EnvType /\ UNCHANGED env => EnvType'
    /\ SlotType /\ UNCHANGED slots => SlotType'
BY DEF CtlType, EnvType, SlotType, ctl, env, slots

LEMMA StepCtl ==
    ASSUME CtlType, EnvType, [Next]_vars
    PROVE  CtlType'
<1>1. CASE WaitForIp \/ ExitTask
  BY <1>1 DEF WaitForIp, ExitTask, CtlType
<1>2. CASE ReceivePacket
  <2>1. packet' \in BOOLEAN
    BY <1>2 DEF ReceivePacket, EnvType
  <2>2. QED
    BY <1>2, <2>1 DEF ReceivePacket, CtlType
<1>3. CASE FeedInactive \/ FeedRateLimited \/ FeedSend
  <2>1. pc = "feeds" /\ NextFeed /\ UNCHANGED packet
    BY <1>3 DEF FeedInactive, FeedRateLimited, FeedSend, FeedStepUnchanged
  <2>2. QED
    BY <2>1, NextFeedCtl DEF CtlType
<1>4. CASE FeedConnected
  BY <1>4 DEF FeedConnected, FeedStepUnchanged, CtlType
<1>5. CASE FeedConnect
  <2>1. pc = "feeds" /\ UNCHANGED packet
    BY <1>5 DEF FeedConnect, FeedStepUnchanged
  <2>2. \/ stage' = "send" /\ UNCHANGED pc
        \/ NextFeed
    BY <1>5 DEF FeedConnect
  <2>3. QED
    BY <2>1, <2>2, NextFeedCtl DEF CtlType
<1>6. CASE ReceiveTimeout \/ Environment \/ UNCHANGED vars
  <2>1. UNCHANGED ctl
    BY <1>6 DEF ReceiveTimeout, Environment, SendDecodedTransponderPacket,
                ChangeFeedSettings, GotIp, StopTask, Tick, vars, task, ctl
  <2>2. QED
    BY <2>1, Untouched
<1>7. QED
  BY <1>1, <1>2, <1>3, <1>4, <1>5, <1>6 DEF Next, StationTask, FeedStep

\* The queue after an offer: a full queue is reset, so it never outgrows its capacity.
LEMMA QueueSendType ==
    ASSUME EnvType, NEW v \in BOOLEAN
    PROVE  QueueSend(v) \in Seq(BOOLEAN) /\ Len(QueueSend(v)) <= QueueCapacity
<1>1. CASE Len(queue) = QueueCapacity
  BY <1>1 DEF QueueSend
<1>2. CASE Len(queue) # QueueCapacity
  <2>1. Len(queue) < QueueCapacity
    BY <1>2 DEF EnvType
  <2>2. queue \in Seq(BOOLEAN)
    BY DEF EnvType
  <2>3. Append(queue, v) \in Seq(BOOLEAN) /\ Len(Append(queue, v)) = Len(queue) + 1
    BY <2>2, AppendProperties
  <2>4. QueueSend(v) = Append(queue, v)
    BY <1>2 DEF QueueSend
  <2>5. QED
    BY <2>1, <2>3, <2>4
<1>3. QED
  BY <1>1, <1>2

LEMMA StepEnv ==
    ASSUME EnvType, [Next]_vars
    PROVE  EnvType'
<1>1. CASE ReceivePacket
  <2>1. queue' \in Seq(BOOLEAN) /\ Len(queue') <= QueueCapacity
    <3>1. queue \in Seq(BOOLEAN) /\ queue # <<>> /\ queue' = Tail(queue)
      BY <1>1 DEF ReceivePacket, EnvType
    <3>2. Tail(queue) \in Seq(BOOLEAN) /\ Len(Tail(queue)) = Len(queue) - 1
      BY <3>1, HeadTailProperties
    <3>3. Len(queue) <= QueueCapacity
      BY DEF EnvType
    <3>4. QED
      BY <3>1, <3>2, <3>3
  <2>2. UNCHANGED <<produced, now, settings, sta_has_ip, run_sta_task>>
    BY <1>1 DEF ReceivePacket
  <2>3. QED
    BY <2>1, <2>2 DEF EnvType, settings
<1>2. CASE SendDecodedTransponderPacket
  <2>1. PICK valid \in BOOLEAN : queue' = QueueSend(valid)
    BY <1>2 DEF SendDecodedTransponderPacket
  <2>2. queue' \in Seq(BOOLEAN) /\ Len(queue') <= QueueCapacity
    BY <2>1, QueueSendType
  <2>3. produced' \in 0 .. MaxPackets
    BY <1>2 DEF SendDecodedTransponderPacket, EnvType
  <2>4. QED
    BY <1>2, <2>2, <2>3 DEF SendDecodedTransponderPacket, settings, EnvType
<1>3. CASE ChangeFeedSettings
  <2>1. active' \in [Feeds -> BOOLEAN] /\ protocol' \in [Feeds -> Protocols]
    BY <1>3 DEF ChangeFeedSettings, EnvType
  <2>2. QED
    BY <1>3, <2>1 DEF ChangeFeedSettings, EnvType
<1>4. CASE GotIp \/ StopTask
  BY <1>4 DEF GotIp, StopTask, settings, EnvType
<1>5. CASE Tick
  BY <1>5 DEF Tick, settings, EnvType
<1>6. CASE (StationTask /\ ~ReceivePacket) \/ UNCHANGED vars
  <2>1. UNCHANGED env
    BY <1>6 DEF StationTask, FeedStep, WaitForIp, ReceiveTimeout, ExitTask,
                FeedInactive, FeedConnected, FeedRateLimited, FeedConnect,
                FeedSend, EnvUnchanged, settings, vars, env
  <2>2. QED
    BY <2>1, Untouched
<1>7. QED
  BY <1>1, <1>2, <1>3, <1>4, <1>5, <1>6 DEF Next, Environment

LEMMA StepSlot ==
    ASSUME SlotType, EnvType, IInv, [Next]_vars
    PROVE  SlotType'
<1>0. now \in Nat /\ fi \in Feeds
  BY DEF EnvType, IInv
<1>1. CASE ReceivePacket \/ ReceiveTimeout
  <2>1. UpdateStats /\ UNCHANGED <<last_connect, since_attempt>>
    BY <1>1 DEF ReceivePacket, ReceiveTimeout
  <2>2. QED
    BY <1>0, <2>1, UpdateStatsType DEF SlotType
<1>2. CASE FeedConnect
  <2>1. last_connect' \in [Feeds -> 0 .. ClockWrap - 1]
    BY <1>0, <1>2, ClockRange DEF FeedConnect, StampAttempt, SlotType
  <2>2. since_attempt' \in [Feeds -> 0 .. ReconnectInterval + 1]
    BY <1>0, <1>2 DEF FeedConnect, SlotType
  <2>3. UNCHANGED <<mps_counter, mps, stats_ts>>
    BY <1>2 DEF FeedConnect, FeedStepUnchanged
  <2>4. QED
    BY <2>1, <2>2, <2>3 DEF SlotType
<1>3. CASE FeedSend
  <2>1. mps_counter' \in [Feeds -> Nat]
    BY <1>0, <1>3 DEF FeedSend, SlotType
  <2>2. UNCHANGED <<last_connect, mps, stats_ts, since_attempt>>
    BY <1>3 DEF FeedSend, FeedStepUnchanged
  <2>3. QED
    BY <2>1, <2>2 DEF SlotType
<1>4. CASE Tick
  <2>1. since_attempt' \in [Feeds -> 0 .. ReconnectInterval + 1]
    BY <1>4 DEF Tick, SlotType
  <2>2. QED
    BY <1>4, <2>1 DEF Tick, SlotType
<1>5. CASE \/ WaitForIp \/ ExitTask \/ FeedInactive \/ FeedConnected \/ FeedRateLimited
           \/ SendDecodedTransponderPacket \/ ChangeFeedSettings \/ GotIp \/ StopTask
           \/ UNCHANGED vars
  <2>1. UNCHANGED slots
    BY <1>5 DEF WaitForIp, ExitTask, FeedInactive, FeedConnected, FeedRateLimited,
                FeedStepUnchanged, SendDecodedTransponderPacket,
                ChangeFeedSettings, GotIp, StopTask, vars, task, slots
  <2>2. QED
    BY <2>1, Untouched
<1>6. QED
  BY <1>1, <1>2, <1>3, <1>4, <1>5 DEF Next, StationTask, FeedStep, Environment

(***************************************************************************)
(* For every number of feed slots, queue capacity, interval and clock     *)
(* width, the station task's variables keep their types: the producer's   *)
(* xQueueReset keeps the packet queue within its capacity, the socket     *)
(* count never goes negative, and the stamps taken from the 32-bit clock  *)
(* stay below its wrap.                                                   *)
(***************************************************************************)
THEOREM TypeCorrect == Spec => []TypeOK
<1>1. Init => IInv /\ CtlType /\ EnvType /\ SlotType
  BY InitIInv, InitType
<1>2. IInv /\ CtlType /\ EnvType /\ SlotType /\ [Next]_vars
        => (IInv /\ CtlType /\ EnvType /\ SlotType)'
  BY StepIInv, StepCtl, StepEnv, StepSlot
<1>3. IInv /\ CtlType /\ EnvType /\ SlotType => TypeOK
  BY TypeSplit
<1>4. QED
  BY <1>1, <1>2, <1>3, PTL DEF Spec

-----------------------------------------------------------------------------
(* Reconnection metering.  The task compares the 32-bit difference        *)
(* timestamp_ms - feed_sock_last_connect_timestamp_ms[i] with the         *)
(* interval (comms_wifi.cpp:260).  The difference is the real time since  *)
(* the last attempt as long as that time is below the interval, because   *)
(* the interval is below the wrap of the clock.  The proof carries the    *)
(* decomposition of the real time into whole wraps and the clock reading, *)
(* which the provers cannot derive from % by themselves.                  *)

\* The real time is q whole wraps of the 32-bit clock plus its reading r.
Decomposed(n) ==
    \E wraps \in 0 .. n, reading \in 0 .. ClockWrap - 1 :
        n = wraps * ClockWrap + reading

ClockDecomposed == Decomposed(now)

(* Below the interval, the 32-bit difference the task computes for a slot *)
(* is exactly the real time since the slot's last attempt.                *)
MeteringInv ==
    \A i \in Feeds :
        since_attempt[i] <= ReconnectInterval
            => Elapsed(Clock, last_connect[i]) = since_attempt[i]

\* A witness of the decomposition.
LEMMA DecomposedWitness ==
    ASSUME NEW n, NEW q \in 0 .. n, NEW r \in 0 .. ClockWrap - 1,
           n = q * ClockWrap + r
    PROVE  Decomposed(n)
BY Zenon DEF Decomposed

\* The 32-bit difference c - l of two clock readings, without the modulus.
LEMMA ElapsedValue ==
    ASSUME NEW c \in 0 .. ClockWrap - 1, NEW l \in 0 .. ClockWrap - 1
    PROVE  Elapsed(c, l) = IF l <= c THEN c - l ELSE c + ClockWrap - l
<1>1. CASE l <= c
  <2>1. c + ClockWrap - l \in ClockWrap .. 2 * ClockWrap - 1
    BY <1>1
  <2>2. (c + ClockWrap - l) % ClockWrap = c - l
    BY <2>1
  <2>3. QED
    BY <1>1, <2>2 DEF Elapsed
<1>2. CASE c < l
  <2>1. c + ClockWrap - l \in 0 .. ClockWrap - 1
    BY <1>2
  <2>2. (c + ClockWrap - l) % ClockWrap = c + ClockWrap - l
    BY <2>1
  <2>3. QED
    BY <1>2, <2>2 DEF Elapsed
<1>3. QED
  BY <1>1, <1>2

\* The clock reading after q whole wraps plus r milliseconds is r.
LEMMA ReadingOf ==
    ASSUME NEW n, NEW q \in Nat, NEW r \in 0 .. ClockWrap - 1, n = q * ClockWrap + r
    PROVE  n % ClockWrap = r
OBVIOUS

(* One millisecond later the difference has grown by one, unless it has   *)
(* reached the wrap, and the clock reading has moved on or wrapped to 0.  *)
LEMMA ElapsedTick ==
    ASSUME NEW c \in 0 .. ClockWrap - 1, NEW l \in 0 .. ClockWrap - 1,
           Elapsed(c, l) + 1 < ClockWrap
    PROVE  Elapsed(IF c + 1 = ClockWrap THEN 0 ELSE c + 1, l) = Elapsed(c, l) + 1
<1> DEFINE d == IF c + 1 = ClockWrap THEN 0 ELSE c + 1
<1>1. d \in 0 .. ClockWrap - 1
  OBVIOUS
<1>2. Elapsed(c, l) = IF l <= c THEN c - l ELSE c + ClockWrap - l
  BY ElapsedValue
<1>3. Elapsed(d, l) = IF l <= d THEN d - l ELSE d + ClockWrap - l
  BY <1>1, ElapsedValue
<1>4. QED
  BY <1>2, <1>3

\* Only a tick moves the clock, and only an attempt restamps a slot.
LEMMA MeterFrame ==
    ASSUME [Next]_vars
    PROVE  Tick \/ FeedConnect \/ UNCHANGED <<now, last_connect, since_attempt>>
BY DEF Next, StationTask, FeedStep, Environment, WaitForIp, ReceivePacket,
       ReceiveTimeout, ExitTask, FeedInactive, FeedConnected, FeedRateLimited,
       FeedSend, SendDecodedTransponderPacket, ChangeFeedSettings, GotIp,
       StopTask, EnvUnchanged, vars, task

LEMMA InitMetering == Init => ClockDecomposed /\ MeteringInv
<1> SUFFICES ASSUME Init PROVE ClockDecomposed /\ MeteringInv
  OBVIOUS
<1>1. now = 0 * ClockWrap + 0
  BY DEF Init
<1>2. ClockDecomposed
  <2>1. 0 \in 0 .. now /\ 0 \in 0 .. ClockWrap - 1
    BY DEF Init
  <2>2. QED
    BY <1>1, <2>1, DecomposedWitness DEF ClockDecomposed
<1>3. Clock = 0
  BY <1>1, ReadingOf DEF Clock
<1>4. Elapsed(0, 0) = 0
  BY ElapsedValue
<1>5. MeteringInv
  BY <1>3, <1>4 DEF Init, MeteringInv
<1>6. QED
  BY <1>2, <1>5

(* A tick keeps the decomposition and grows every difference below the   *)
(* interval by one with the history; an attempt restamps its slot with    *)
(* the clock, where the difference and the history are both 0.            *)
LEMMA StepMetering ==
    ASSUME IInv, EnvType, SlotType, ClockDecomposed, MeteringInv, [Next]_vars
    PROVE  ClockDecomposed' /\ MeteringInv'
<1>1. CASE Tick
  <2>1. PICK q \in 0 .. now, r \in 0 .. ClockWrap - 1 : now = q * ClockWrap + r
    BY DEF ClockDecomposed, Decomposed
  <2>2. now \in Nat /\ q \in Nat
    BY DEF EnvType
  <2>3. Clock = r
    BY <2>1, <2>2, ReadingOf DEF Clock
  <2>4. now' = now + 1
    BY <1>1 DEF Tick
  <2>5. ClockDecomposed' /\ Clock' = IF r + 1 = ClockWrap THEN 0 ELSE r + 1
    <3>1. CASE r + 1 < ClockWrap
      <4>1. now' = q * ClockWrap + (r + 1)
        BY <2>1, <2>4
      <4>2. Clock' = r + 1
        BY <2>2, <3>1, <4>1, ReadingOf DEF Clock
      <4>3. q \in 0 .. now' /\ r + 1 \in 0 .. ClockWrap - 1
        BY <2>2, <2>4, <3>1
      <4>4. ClockDecomposed'
        BY <4>1, <4>3, DecomposedWitness DEF ClockDecomposed
      <4>5. QED
        BY <3>1, <4>2, <4>4
    <3>2. CASE r + 1 = ClockWrap
      <4>1. now' = (q + 1) * ClockWrap + 0
        BY <2>1, <2>4, <3>2
      <4>2. Clock' = 0
        BY <2>2, <4>1, ReadingOf DEF Clock
      <4>3. q + 1 \in 0 .. now' /\ 0 \in 0 .. ClockWrap - 1
        BY <2>2, <2>4
      <4>4. ClockDecomposed'
        BY <4>1, <4>3, DecomposedWitness DEF ClockDecomposed
      <4>5. QED
        BY <3>2, <4>2, <4>4
    <3>3. QED
      BY <3>1, <3>2
  <2>6. MeteringInv'
    <3> SUFFICES ASSUME NEW i \in Feeds, since_attempt'[i] <= ReconnectInterval
                 PROVE  Elapsed(Clock', last_connect'[i]) = since_attempt'[i]
      BY DEF MeteringInv
    <3>1. /\ since_attempt[i] <= ReconnectInterval
          /\ since_attempt'[i] = since_attempt[i] + 1
          /\ last_connect'[i] = last_connect[i]
          /\ last_connect[i] \in 0 .. ClockWrap - 1
      BY <1>1 DEF Tick, SlotType
    <3>2. Elapsed(r, last_connect[i]) = since_attempt[i]
      BY <2>3, <3>1 DEF MeteringInv
    <3>3. Elapsed(r, last_connect[i]) + 1 < ClockWrap
      BY <3>1, <3>2 DEF SlotType
    <3>4. Elapsed(IF r + 1 = ClockWrap THEN 0 ELSE r + 1, last_connect[i])
            = Elapsed(r, last_connect[i]) + 1
      BY <3>1, <3>3, ElapsedTick
    <3>5. QED
      BY <2>5, <3>1, <3>2, <3>4
  <2>7. QED
    BY <2>5, <2>6
<1>2. CASE FeedConnect
  <2>1. now' = now /\ fi \in Feeds /\ now \in Nat
    BY <1>2 DEF FeedConnect, EnvUnchanged, IInv, EnvType
  <2>2. ClockDecomposed'
    BY <2>1 DEF ClockDecomposed, Decomposed
  <2>3. Clock' = Clock /\ Clock \in 0 .. ClockWrap - 1
    BY <2>1, ClockRange DEF Clock
  <2>4. Elapsed(Clock, Clock) = 0
    BY <2>3, ElapsedValue
  <2>5. MeteringInv'
    <3> SUFFICES ASSUME NEW i \in Feeds, since_attempt'[i] <= ReconnectInterval
                 PROVE  Elapsed(Clock', last_connect'[i]) = since_attempt'[i]
      BY DEF MeteringInv
    <3>1. CASE i = fi
      <4>1. last_connect'[i] = Clock /\ since_attempt'[i] = 0
        BY <1>2, <2>1, <3>1 DEF FeedConnect, StampAttempt, SlotType
      <4>2. QED
        BY <2>3, <2>4, <4>1
    <3>2. CASE i # fi
      <4>1. last_connect'[i] = last_connect[i] /\ since_attempt'[i] = since_attempt[i]
        BY <1>2, <3>2 DEF FeedConnect, StampAttempt, SlotType
      <4>2. QED
        BY <2>3, <4>1 DEF MeteringInv
    <3>3. QED
      BY <3>1, <3>2
  <2>6. QED
    BY <2>2, <2>5
<1>3. CASE UNCHANGED <<now, last_connect, since_attempt>>
  BY <1>3 DEF ClockDecomposed, Decomposed, MeteringInv, Clock
<1>4. QED
  BY <1>1, <1>2, <1>3, MeterFrame

\* The invariant behind the metering property: typing, IInv and the metering facts.
MeterInv ==
    /\ IInv /\ CtlType /\ EnvType /\ SlotType
    /\ ClockDecomposed /\ MeteringInv

(***************************************************************************)
(* ReconnectRateLimited for every number of slots, interval and clock     *)
(* width with the interval below the wrap: the task's connection attempt  *)
(* on a slot (comms_wifi.cpp:260-266) comes more than                     *)
(* kWiFiTCPSocketReconnectIntervalMs of real time after the slot's last   *)
(* attempt, or after boot, although it only compares 32-bit timestamps.   *)
(***************************************************************************)
THEOREM ReconnectRateLimitedHolds == Spec => ReconnectRateLimited
<1>1. Init => MeterInv
  BY InitIInv, InitType, InitMetering DEF MeterInv
<1>2. MeterInv /\ [Next]_vars => MeterInv'
  BY StepIInv, StepCtl, StepEnv, StepSlot, StepMetering DEF MeterInv
<1>3. MeterInv => [FeedConnect => since_attempt[fi] > ReconnectInterval]_vars
  <2> SUFFICES ASSUME MeterInv, FeedConnect
               PROVE  since_attempt[fi] > ReconnectInterval
    OBVIOUS
  <2>1. fi \in Feeds /\ since_attempt[fi] \in 0 .. ReconnectInterval + 1
    BY DEF MeterInv, IInv, SlotType
  <2>2. Elapsed(Clock, last_connect[fi]) > ReconnectInterval
    BY DEF FeedConnect
  <2>3. QED
    BY <2>1, <2>2 DEF MeterInv, MeteringInv
<1>4. QED
  BY <1>1, <1>2, <1>3, PTL DEF Spec, ReconnectRateLimited

=============================================================================
