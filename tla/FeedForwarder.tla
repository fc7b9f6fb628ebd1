---------------------------- MODULE FeedForwarder ----------------------------
(***************************************************************************)
(* The station task CommsManager::WiFiStationTask of the ESP32 firmware   *)
(* (src/firmware/esp/main/comms_wifi.cpp) with its producer               *)
(* CommsManager::WiFiStationSendDecodedTransponderPacket.  The task waits *)
(* for an IP address, then loops: update the per-feed statistics once a   *)
(* second, take one decoded packet from the bounded queue (or time out),  *)
(* and walk the feed slots in index order, closing the sockets of          *)
(* inactive feeds, opening (at most once per reconnect interval) those of *)
(* active ones, and sending the packet as a Beast frame.                  *)
(*                                                                         *)
(* The task's own arrays (feed_sock_is_connected, ...) are touched only by *)
(* the task.  Its environment -- producers, the settings writer, the IP   *)
(* event handler, the owner of run_wifi_sta_task_, the clock and the      *)
(* network -- acts between any two of its steps.  A socket call's outcome *)
(* is any of the ones lwIP can return.                                    *)
(***************************************************************************)
EXTENDS Naturals, Sequences, FiniteSets

CONSTANTS
    NumFeeds,           \* SettingsManager::Settings::kMaxNumFeeds
    QueueCapacity,      \* length of wifi_sta_decoded_transponder_packet_queue_
    ReconnectInterval,  \* kWiFiTCPSocketReconnectIntervalMs
    StatsInterval,      \* kMsPerSec
    ClockWrap,          \* 2^32: get_time_since_boot_ms() is a uint32_t
    Uris,               \* feed URIs, each a sequence of character classes
    MaxTime,            \* bound: milliseconds of model time
    MaxPackets          \* bound: packets the producers offer

ASSUME FeedForwarderAssumption ==
    /\ NumFeeds \in Nat \ {0}
    /\ QueueCapacity \in Nat \ {0}
    /\ ReconnectInterval \in Nat
    /\ StatsInterval \in Nat
    /\ ClockWrap \in Nat \ {0}
    \* kWiFiTCPSocketReconnectIntervalMs = 5000 is far below 2^32
    /\ ReconnectInterval < ClockWrap
    /\ MaxTime \in Nat
    /\ MaxPackets \in Nat
    /\ Uris # {}

Feeds == 0 .. NumFeeds - 1
Protocols == {"Beast", "BeastRaw", "None"}   \* SettingsManager::ReportingProtocol

VARIABLES
    pc,            \* where the station task is
    fi,            \* feed index i of the loop over feed slots
    stage,         \* "check" a slot's socket, or "send" on it
    packet,        \* decoded_packet: its validity (DecodedTransponderPacket::IsValid)
    queue,         \* the decoded transponder packet queue, of validities
    produced,      \* packets offered so far (bound)
    now,           \* milliseconds since boot
    active,        \* settings.feed_is_active
    protocol,      \* settings.feed_protocols
    uri,           \* settings.feed_uris
    connected,     \* feed_sock_is_connected
    last_connect,  \* feed_sock_last_connect_timestamp_ms
    open_sockets,  \* lwIP sockets the task holds open
    mps_counter,   \* feed_mps_counter_
    mps,           \* feed_mps
    stats_ts,      \* feed_mps_last_update_timestamp_ms_
    since_attempt, \* history: real time since each slot's last attempt, capped
    sta_has_ip,    \* wifi_sta_has_ip_
    run_sta_task   \* run_wifi_sta_task_

settings == <<active, protocol, uri>>
task == <<pc, fi, stage, packet, connected, last_connect, open_sockets,
          mps_counter, mps, stats_ts, since_attempt>>
vars == <<task, queue, produced, now, settings, sta_has_ip, run_sta_task>>

\* get_time_since_boot_ms(): milliseconds since boot in a uint32_t.
Clock == now % ClockWrap

\* a - b computed in uint32_t.
Elapsed(a, b) == (a + ClockWrap - b) % ClockWrap

\* IsNotIPAddress: the URI contains an alphabetic character.
IsNotIPAddress(u) == \E k \in DOMAIN u : u[k] = "alpha"

Init ==
    /\ pc = "wait_ip"
    /\ fi = 0
    /\ stage = "check"
    /\ packet = FALSE
    /\ queue = <<>>
    /\ produced = 0
    /\ now = 0
    /\ active \in [Feeds -> BOOLEAN]
    /\ protocol \in [Feeds -> Protocols]
    /\ uri \in [Feeds -> Uris]
    /\ connected = [i \in Feeds |-> FALSE]
    /\ last_connect = [i \in Feeds |-> 0]
    /\ open_sockets = 0
    /\ mps_counter = [i \in Feeds |-> 0]
    /\ mps = [i \in Feeds |-> 0]
    /\ stats_ts = 0
    /\ since_attempt = [i \in Feeds |-> 0]
    /\ sta_has_ip \in BOOLEAN
    /\ run_sta_task = TRUE

-----------------------------------------------------------------------------
(* The statistics block at the top of every loop pass: once more than     *)
(* kMsPerSec has passed, snapshot and reset the per-feed counters.        *)
UpdateStats ==
    IF Elapsed(Clock, stats_ts) > StatsInterval
       THEN /\ mps' = mps_counter
            /\ mps_counter' = [i \in Feeds |-> 0]
            /\ stats_ts' = Clock
       ELSE UNCHANGED <<mps, mps_counter, stats_ts>>

\* Slip: the loop bound written i <= kMaxNumFeeds.
NextFeedOffByOne ==
    /\ stage' = "check"
    /\ IF fi + 1 <= NumFeeds
          THEN fi' = fi + 1 /\ UNCHANGED pc
          ELSE fi' = 0 /\ pc' = "top"

\* Leave slot fi for the next one, or end the pass after the last slot.
NextFeed ==
    /\ stage' = "check"
    /\ IF fi + 1 < NumFeeds
          THEN fi' = fi + 1 /\ UNCHANGED pc
          ELSE fi' = 0 /\ pc' = "top"

\* The task's own state that a step on slot fi leaves alone.
FeedStepUnchanged == UNCHANGED <<packet, mps, stats_ts>>
EnvUnchanged == UNCHANGED <<queue, produced, now, settings, sta_has_ip, run_sta_task>>

-----------------------------------------------------------------------------
\* Poll wifi_sta_has_ip_ until the IP event handler has set it.
WaitForIp ==
    /\ pc = "wait_ip"
    /\ sta_has_ip
    /\ pc' = "top"
    /\ UNCHANGED <<fi, stage, packet, connected, last_connect, open_sockets,
                   mps_counter, mps, stats_ts, since_attempt>>
    /\ EnvUnchanged

\* A loop pass that receives a packet: statistics, then xQueueReceive.
ReceivePacket ==
    /\ pc = "top"
    /\ run_sta_task
    /\ queue # <<>>
    /\ UpdateStats
    /\ packet' = Head(queue)
    /\ queue' = Tail(queue)
    /\ pc' = "feeds"
    /\ UNCHANGED <<fi, stage, connected, last_connect, open_sockets, since_attempt,
                   produced, now, settings, sta_has_ip, run_sta_task>>

\* A loop pass whose xQueueReceive times out: statistics only, then continue.
ReceiveTimeout ==
    /\ pc = "top"
    /\ run_sta_task
    /\ queue = <<>>
    /\ UpdateStats
    /\ UNCHANGED <<pc, fi, stage, packet, connected, last_connect, open_sockets,
                   since_attempt>>
    /\ EnvUnchanged

\* run_wifi_sta_task_ cleared: close every connected feed socket and return.
ExitTask ==
    /\ pc = "top"
    /\ ~run_sta_task
    /\ pc' = "exited"
    /\ connected' = [i \in Feeds |-> FALSE]
    /\ open_sockets' = open_sockets - Cardinality({i \in Feeds : connected[i]})
    /\ UNCHANGED <<fi, stage, packet, last_connect, mps_counter, mps, stats_ts,
                   since_attempt>>
    /\ EnvUnchanged

-----------------------------------------------------------------------------
(* One slot of the loop over feeds.                                       *)

\* The feed is inactive: close its socket if it is connected.
FeedInactive ==
    /\ pc = "feeds" /\ stage = "check"
    /\ ~active[fi]
    /\ connected' = [connected EXCEPT ![fi] = FALSE]
    /\ open_sockets' = IF connected[fi] THEN open_sockets - 1 ELSE open_sockets
    /\ NextFeed
    /\ UNCHANGED <<last_connect, mps_counter, since_attempt>>
    /\ FeedStepUnchanged /\ EnvUnchanged

\* The feed is active and its socket is connected: go on to send.
FeedConnected ==
    /\ pc = "feeds" /\ stage = "check"
    /\ active[fi]
    /\ connected[fi]
    /\ stage' = "send"
    /\ UNCHANGED <<pc, fi, connected, last_connect, open_sockets, mps_counter,
                   since_attempt>>
    /\ FeedStepUnchanged /\ EnvUnchanged

\* Reconnection metering: the last attempt is too recent, skip the slot.
FeedRateLimited ==
    /\ pc = "feeds" /\ stage = "check"
    /\ active[fi]
    /\ ~connected[fi]
    /\ Elapsed(Clock, last_connect[fi]) <= ReconnectInterval
    /\ NextFeed
    /\ UNCHANGED <<connected, last_connect, open_sockets, mps_counter, since_attempt>>
    /\ FeedStepUnchanged /\ EnvUnchanged

(* A connection attempt: stamp the slot, socket(); a URI with a letter is *)
(* resolved by DNS first; then connect().  A failing socket() leaves      *)
(* nothing open; a failing DNS lookup or connect() closes the socket;     *)
(* success marks the slot connected and goes on to send.                  *)
ConnectResults(u) ==
    {"socket_error", "connect_error", "ok"}
        \cup (IF IsNotIPAddress(u) THEN {"dns_error"} ELSE {})

\* Slip: forgetting to stamp the attempt (feed_sock_last_connect_timestamp_ms).
StampAttemptDropped == UNCHANGED last_connect

\* feed_sock_last_connect_timestamp_ms[i] = timestamp_ms.
StampAttempt == last_connect' = [last_connect EXCEPT ![fi] = Clock]

\* Slip: the DNS failure path returns without close(feed_sock[i]).
SocketsAfterAttemptDnsLeak(r) ==
    open_sockets + (IF r = "socket_error" THEN 0 ELSE 1)
                 - (IF r = "connect_error" THEN 1 ELSE 0)

\* The sockets open after an attempt ending in r: socket(), then close() on failure.
SocketsAfterAttempt(r) ==
    open_sockets + (IF r = "socket_error" THEN 0 ELSE 1)
                 - (IF r \in {"dns_error", "connect_error"} THEN 1 ELSE 0)

FeedConnect ==
    /\ pc = "feeds" /\ stage = "check"
    /\ active[fi]
    /\ ~connected[fi]
    /\ Elapsed(Clock, last_connect[fi]) > ReconnectInterval
    /\ StampAttempt
    /\ since_attempt' = [since_attempt EXCEPT ![fi] = 0]
    /\ \E r \in ConnectResults(uri[fi]) :
          /\ open_sockets' = SocketsAfterAttempt(r)
          /\ IF r = "ok"
                THEN /\ connected' = [connected EXCEPT ![fi] = TRUE]
                     /\ stage' = "send"
                     /\ UNCHANGED <<pc, fi>>
                ELSE /\ UNCHANGED connected
                     /\ NextFeed
    /\ UNCHANGED mps_counter
    /\ FeedStepUnchanged /\ EnvUnchanged

(* Send the packet as the feed's protocol asks: Beast drops an invalid    *)
(* packet, then Beast and BeastRaw send a frame; a failing send() closes  *)
(* the socket and marks the slot disconnected, a successful one counts.   *)
(* Other protocols send nothing.                                          *)
SendsFrame(p, valid) == p = "BeastRaw" \/ (p = "Beast" /\ valid)

FeedSend ==
    /\ pc = "feeds" /\ stage = "send"
    /\ IF SendsFrame(protocol[fi], packet)
          THEN \E ok \in BOOLEAN :
                  IF ok
                     THEN /\ mps_counter' = [mps_counter EXCEPT ![fi] = @ + 1]
                          /\ UNCHANGED <<connected, open_sockets>>
                     ELSE /\ connected' = [connected EXCEPT ![fi] = FALSE]
                          /\ open_sockets' = open_sockets - 1
                          /\ UNCHANGED mps_counter
          ELSE UNCHANGED <<connected, open_sockets, mps_counter>>
    /\ NextFeed
    /\ UNCHANGED <<last_connect, since_attempt>>
    /\ FeedStepUnchanged /\ EnvUnchanged

-----------------------------------------------------------------------------
(* The environment.                                                       *)

(* xQueueSend with no wait, and xQueueReset when it reports errQUEUE_FULL: *)
(* the queue afterwards.                                                  *)
QueueSend(v) == IF Len(queue) = QueueCapacity THEN <<>> ELSE Append(queue, v)

(* WiFiStationSendDecodedTransponderPacket: refused while the task is not *)
(* running; a full queue is reset to empty and the packet dropped.        *)
SendDecodedTransponderPacket ==
    /\ run_sta_task
    /\ produced < MaxPackets
    /\ produced' = produced + 1
    /\ \E valid \in BOOLEAN : queue' = QueueSend(valid)
    /\ UNCHANGED <<task, now, settings, sta_has_ip, run_sta_task>>

(* The settings writer switches a feed on or off, or changes its protocol. *)
(* (A changed URI takes effect at the next connection attempt only; the   *)
(* URIs are fixed at boot here.)                                           *)
ChangeFeedSettings ==
    /\ \E i \in Feeds :
          \/ active' = [active EXCEPT ![i] = ~@] /\ UNCHANGED protocol
          \/ \E p \in Protocols \ {protocol[i]} :
                protocol' = [protocol EXCEPT ![i] = p] /\ UNCHANGED active
    /\ UNCHANGED <<uri, task, queue, produced, now, sta_has_ip, run_sta_task>>

(* The IP event handler sets wifi_sta_has_ip_.  (The disconnect handler  *)
(* clears it again, but the task reads it only before its loop.)          *)
GotIp ==
    /\ ~sta_has_ip
    /\ sta_has_ip' = TRUE
    /\ UNCHANGED <<task, queue, produced, now, settings, run_sta_task>>

\* The owner of the task clears run_wifi_sta_task_.
StopTask ==
    /\ run_sta_task
    /\ run_sta_task' = FALSE
    /\ UNCHANGED <<task, queue, produced, now, settings, sta_has_ip>>

(* A millisecond passes.  The history of attempts only needs to tell      *)
(* whether more than the reconnect interval has passed, so it stops       *)
(* counting there.                                                        *)
Tick ==
    /\ now < MaxTime
    /\ now' = now + 1
    /\ since_attempt' = [i \in Feeds |-> IF since_attempt[i] > ReconnectInterval
                                            THEN since_attempt[i]
                                            ELSE since_attempt[i] + 1]
    /\ UNCHANGED <<pc, fi, stage, packet, connected, last_connect, open_sockets,
                   mps_counter, mps, stats_ts>>
    /\ UNCHANGED <<queue, produced, settings, sta_has_ip, run_sta_task>>

-----------------------------------------------------------------------------
FeedStep == FeedInactive \/ FeedConnected \/ FeedRateLimited \/ FeedConnect \/ FeedSend

StationTask == WaitForIp \/ ReceivePacket \/ ReceiveTimeout \/ ExitTask \/ FeedStep

Environment ==
    \/ SendDecodedTransponderPacket
    \/ ChangeFeedSettings
    \/ GotIp
    \/ StopTask
    \/ Tick

Next == StationTask \/ Environment

\* The station task is scheduled whenever it can run; the environment need not act.
Spec == Init /\ [][Next]_vars /\ WF_vars(StationTask)

-----------------------------------------------------------------------------
(* Types.  The slot index stays a slot of the feed arrays (line 240), and *)
(* the socket count never goes below zero.                              *)
TypeOK ==
    /\ pc \in {"wait_ip", "top", "feeds", "exited"}
    /\ fi \in Feeds
    /\ stage \in {"check", "send"}
    /\ packet \in BOOLEAN
    /\ queue \in Seq(BOOLEAN)
    /\ Len(queue) <= QueueCapacity
    /\ produced \in 0 .. MaxPackets
    /\ now \in 0 .. MaxTime
    /\ active \in [Feeds -> BOOLEAN]
    /\ protocol \in [Feeds -> Protocols]
    /\ uri \in [Feeds -> Uris]
    /\ connected \in [Feeds -> BOOLEAN]
    /\ last_connect \in [Feeds -> 0 .. ClockWrap - 1]
    /\ open_sockets \in Nat
    /\ mps_counter \in [Feeds -> Nat]
    /\ mps \in [Feeds -> Nat]
    /\ stats_ts \in 0 .. ClockWrap - 1
    /\ since_attempt \in [Feeds -> 0 .. ReconnectInterval + 1]
    /\ sta_has_ip \in BOOLEAN
    /\ run_sta_task \in BOOLEAN

(***************************************************************************)
(* No socket leak: the lwIP sockets the task holds are exactly those of    *)
(* the connected slots -- every failed DNS lookup, connect, send and every *)
(* deactivation closes what it opened -- and none is left after the task  *)
(* has exited.  A leak would exhaust lwIP's small socket table.            *)
(***************************************************************************)
NoSocketLeak ==
    /\ open_sockets = Cardinality({i \in Feeds : connected[i]})
    /\ pc = "exited" => open_sockets = 0

(***************************************************************************)
(* Reconnection metering (spec 4.3): on any slot, two connection attempts  *)
(* are more than kWiFiTCPSocketReconnectIntervalMs apart in real time,     *)
(* also across the wrap of the 32-bit millisecond clock; the first one     *)
(* comes more than the interval after boot.                               *)
(***************************************************************************)
ReconnectRateLimited ==
    [][FeedConnect => since_attempt[fi] > ReconnectInterval]_vars

(***************************************************************************)
(* Spec 8: a feed that is inactive while its socket is open has the socket *)
(* closed by the next iteration of the task loop.                         *)
(***************************************************************************)
InactiveFeedClosed ==
    \A i \in Feeds :
        (connected[i] /\ ~active[i]) ~> (~connected[i] \/ active[i])

=============================================================================
