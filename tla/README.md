# TLA+ models of the ADSBee ESP32 WiFi and feed engine

This directory holds TLA+ models of `src/firmware/esp/main/comms_wifi.cpp`, the
network part of the ESP32 firmware. It also holds the TLC configurations that
check the models on small instances and the TLAPS proofs that hold for every
value of the constants.

## 1. Inventory

### The parts of the system and how they interact

| Component | Code | State | Operations |
|---|---|---|---|
| WiFiConnectionManager | `WiFiInit` (421-525), `WiFiEventHandler` (40-90), `WiFiDeInit` (527-555) | `wifi_event_group_` bits CONNECTED/FAIL, static `s_retry_num`, `wifi_sta_has_ip_`, `wifi_was_initialized_`, `run_wifi_ap_task_`, `run_wifi_sta_task_` | Init (blocks until CONNECTED or FAIL); one handler case per event: STA_START, STA_DISCONNECTED, STA_CONNECTED, AP_STA(DIS)CONNECTED; DeInit (= `esp_restart`) |
| FeedForwarder | `WiFiStationTask` (197-362), `WiFiStationSendDecodedTransponderPacket` (557-575), `IsNotIPAddress`, `ResolveURIToIP` (163-195) | the packet queue; per slot `feed_sock`, `feed_sock_is_connected`, `feed_sock_last_connect_timestamp_ms`; `feed_mps_counter_`, `feed_mps`, `feed_mps_last_update_timestamp_ms_` | IP gate; per pass: statistics, receive-or-timeout, then per slot close / rate-limit / connect (socket, DNS, connect) / send; shutdown closes all sockets; the producer enqueues and resets the queue when full |
| AccessPointBroadcaster | `WiFiAccessPointTask` (92-149), `WiFiAccessPointSendMessageToAllStations` (577-593) | the AP message queue, a UDP socket | receive (no timeout), lock the client list, up to 3 sends per client (retry on ENOMEM only) |
| ClientRegistry | `WiFiAddClient` / `WiFiRemoveClient` are **not in the repository** | `wifi_clients_list_` under `wifi_clients_list_mutex_` | add on associate, deactivate on disassociate |
| IP event handler | not in the repository | `wifi_sta_has_ip_` | set on IP_EVENT_STA_GOT_IP |
| SPI coprocessor transport | only a target test (`pico/.../test_spi_coprocessor.cc`) | none here | none here |
| Scan task, `get_auth_mode_name` | dead code, formatting | none | none |

These actors run concurrently:
- the task that calls `WiFiInit`;
- the default event-loop task, which runs `WiFiEventHandler` one event at a time, in the order the events were posted;
- the WiFi driver, which answers `esp_wifi_start` and `esp_wifi_connect` by posting events later;
- the station task;
- the AP task;
- the decoder tasks that produce packets and messages;
- the settings writer.

Components talk to each other only through shared flags and FreeRTOS objects:
- `wifi_event_group_` carries WiFiConnectionManager's result to the `WiFiInit` caller;
- `wifi_sta_has_ip_` is set by the IP handler, cleared by the disconnect handler, and gates the station task;
- `run_wifi_*_task_` are set by `WiFiInit` and checked by the producers and the tasks;
- the two bounded queues;
- the client list.

### The hard behaviours

- **Event-loop interleaving.** `xEventGroupSetBits` wakes the blocked `WiFiInit` caller with the group's value at that moment. Later handlers can clear the bit before the caller runs.
- **A static counter that is never reset.** `s_retry_num` counts every retry since boot (line 41).
- **Unbounded waits.** `WiFiInit` waits on the event group with `portMAX_DELAY`, and so does the AP task's queue receive.
- **Socket life cycle per feed.** Every failure path must close what `socket()` opened: DNS (284), connect (302) and send (338).
- **Rate limit on the wrapping clock.** Reconnects are limited with uint32 millisecond arithmetic (260), and the clock wraps.
- **Statistics only while packets arrive.** Per-slot work happens only on a pass that received a packet (233-237).
- **Lossy queues.** When a queue is full, `xQueueReset` drops the whole backlog (567, 586).
- **Unlocked settings reads.** The station task reads the settings without a lock, so the settings writer can change them between any two of its steps.
- **Mutex held across delays.** The client mutex is held over the AP fan-out, including the ENOMEM delays.

### Properties per component

- **WiFiConnectionManager:**
  - the retry counter stays within the budget;
  - a raised FAIL is terminal: CONNECTED is clear, the radio is idle and no attempt is pending;
  - `WiFiInit` returns;
  - (from spec 4.1/8) every failure episode gets its retries.
- **FeedForwarder:**
  - the loop over feeds never indexes past the feed arrays, and the socket count never goes negative (in `TypeOK`);
  - no socket leak, and none left after shutdown;
  - reconnect attempts per slot are more than the interval apart in real time, across clock wraps;
  - (spec 8) an inactive feed's socket is closed by the next iteration.
- **AccessPointBroadcaster:**
  - at most 3 sends per client and message, and a retry only after ENOMEM;
  - the retry counter stays below `kWiFiNumRetries` (in `TypeOK`);
  - every fan-out gives the mutex back;
  - the task refines `APBroadcast`: each message reaches, in one step, a subset of the clients active at that step;
  - (spec 4.2/5) the task runs while its flag is set, and stops once the flag is cleared.

## 2. Plan

| Order | Module | Models | Composes / refines | Status |
|---|---|---|---|---|
| 1 | `WiFiConnection` | WiFiConnectionManager, station side; the driver as environment | - | done |
| 2 | `FeedForwarder` | station task and its producer; settings writer, IP handler, clock, network as environment | - | done |
| 3 | `WiFiConnectionProofs` | TLAPS: type correctness and TerminalFailure | EXTENDS WiFiConnection | done |
| 4 | `APBroadcaster` | AP task with ENOMEM retries, its producer, the client registry (spec-modelled) under its mutex | - | done |
| 5 | `APBroadcast` | abstract AP broadcaster | `APBroadcaster` refines it via INSTANCE ... WITH | done |
| 6 | `FeedForwarderProofs` | TLAPS: NoSocketLeak, TypeOK, ReconnectRateLimited | EXTENDS FeedForwarder | done |
| 7 | `APBroadcasterProofs`, `APBroadcasterRefinement` | TLAPS: TypeOK, RetryOnlyOnEnomem, the refinement | EXTENDS APBroadcaster | done |
| 8 | `FeedLink` (abstract) | per slot: disconnected/connected, attempts at most once per interval | `FeedForwarder` refines it | later |
| 9 | `WiFiSystem` | WiFiConnection + FeedForwarder sharing `wifi_sta_has_ip_` and the run flag | composes 1, 2 | later; the joint state space is the obstacle |

## 3. Modules and their correspondence to the code

### `WiFiConnection` (station side of WiFiConnectionManager)

The variables:
- `config`: `wifi_ap_enabled` and `wifi_sta_enabled`.
- `radio`: the driver's link state.
- `events`: the FIFO queue of the default event loop.
- `bits`: `wifi_event_group_`.
- `s_retry_num`: the handler's static counter.
- `sta_has_ip`.
- `init_state` and `wait_bits`: where the `WiFiInit` caller is, and the value `xEventGroupWaitBits` hands it.
- the three flags.

The actions:
- **`WiFiInit`** runs the routine up to the wait. With STA enabled, `esp_wifi_start` posts `STA_START` and the caller blocks. With neither mode enabled it returns true.
- **`WiFiInitResume`** is the code after the wait. CONNECTED starts the station task and returns true; otherwise it returns false.
- **`WiFiDeInit`** is `esp_restart`. It reboots into a fresh state with any configuration, which also resets the static counter.
- **`HandleStaStart`, `HandleStaDisconnected`, `HandleStaConnected`** are the handler cases. Each consumes the head of `events`.
- **`HandleGotIp`** is the IP handler. It is not in the repository and is modelled from the spec.
- **`SetBits(g, b)`** is `xEventGroupSetBits` together with its wake-up of the waiter.
- **`Driver*`** are environment actions. A connect attempt ends in `STA_CONNECTED` or `STA_DISCONNECTED`. An associated link gets an IP or is lost.

### `FeedForwarder` (WiFiStationTask)

The task is a program counter (`pc`, `fi`, `stage`) over these steps:
- `WaitForIp`;
- `ReceivePacket` or `ReceiveTimeout`, both of which include `UpdateStats` from the top of the loop;
- one step per slot: `FeedInactive`, `FeedConnected`, `FeedRateLimited`, `FeedConnect`;
- `FeedSend`;
- `ExitTask`.

One slot's connect attempt (`socket`, optional DNS, `connect`) is a single step, because only the task touches that state. Its outcome is any result in `ConnectResults`. A URI containing a letter can also fail DNS.

How the code's data is represented:
- `open_sockets` counts the descriptors the task holds.
- The clock is `now % ClockWrap`, and `Elapsed` is uint32 subtraction.
- The auxiliary history `since_attempt[i]` holds the real time since the slot's last attempt, capped at `ReconnectInterval + 1`.

The environment acts between any two task steps:
- producers (`SendDecodedTransponderPacket`, which uses `QueueSend`);
- the settings writer, one field of one slot at a time;
- the IP handler;
- the owner of `run_wifi_sta_task_`;
- the clock (`Tick`).

Left out, because no property distinguishes them:
- the statistics log line;
- the Beast codec;
- socket descriptors' numeric values.

### `APBroadcaster` (WiFiAccessPointTask, its producer, the client registry)

The task is a program counter `ap_pc` over one action per step of the code:
- `CreateSocket` (96-100): `socket()` may fail, and then the task returns at once.
- `LoopTop` (108, 146-148): `while (run_wifi_ap_task_)`. When the flag is clear, the task runs `shutdown` and `close`.
- `Receive` (109): `xQueueReceive` with `portMAX_DELAY`. It is enabled only when the queue is non-empty.
- `TakeLock` (114): `xSemaphoreTake`.
- `VisitClient` (115-120): one pass of the loop over slots. An inactive slot is skipped; an active one enters the retry loop with `num_tries = 0`.
- `SendTo` (120-138): one `sendto`, whose result is `ok`, `enomem` or another errno. The loop ends on a non-ENOMEM result or when `num_tries + 1 = kWiFiNumRetries`. The 100 ms delay is a stutter.
- `GiveLock` (141): `xSemaphoreGive`.

How the code's data is represented:
- A message is its sequence number.
- `delivered` is a history of the `<<message, slot>>` pairs that `sendto` succeeded for.
- `tries_log` is a history of the results for the current client.

The environment:
- `SendMessageToAllStations` (577-593) is the producer. It is refused while the flag is clear. `QueueSend` is `xQueueSend` with no wait, followed by `xQueueReset` when the queue is full.
- The registry is `ClientJoin` and `ClientLeave`. `ClientLeave` is the `AP_STADISCONNECTED` case at 51-58, calling `WiFiRemoveClient`. `WiFiAddClient` and `WiFiRemoveClient` are not in the repository. They are modelled from the spec (spec 3, 4.1) as one mutation under `wifi_clients_list_mutex_`, so they wait while the task holds it (`RegistryMayRun`).
- `StopTask` clears the flag. Nothing in the repository does so today.

### `APBroadcast` (what the broadcaster promises)

`APBroadcast` has five actions:
- `Offer`: a lossy bounded queue.
- `Take`: the oldest message becomes `inflight`.
- `Deliver`: `inflight` reaches, in one step, some subset of the clients active at that step. A send may fail.
- `Membership`.
- `Stop`.

`APBroadcaster` maps onto it (`Abstract` in `APBroadcaster.tla`) as follows:
- `inflight` is the message the task holds between `xQueueReceive` and `xSemaphoreGive`.
- `delivered` hides that message's deliveries until the give.

Under this mapping:
- `Receive` is `Take`;
- `GiveLock` is `Deliver`, with `reached` the slots that `sendto` succeeded for;
- all other task steps are stutters.

The mutex is what makes this work. The slots are read one at a time. If the registry could run between two slots, a message could reach a client that had already left, and no single instant would then have the recipients as its active clients.

## 4. Runs

| Run | Config | Result | Shows |
|---|---|---|---|
| `wifi_connection` | `MCWiFiConnection.cfg` (budget 5, all four configs) | pass, 352 states | `TypeOK`, `TerminalFailure`, `InitTerminates` |
| `wifi_retry_episode` | `MCWiFiConnectionEpisode.cfg` | violation of `EveryEpisodeRetried` | finding 1 |
| `feed_forwarder` | `MCFeedForwarder.cfg` (2 slots, queue 1, interval 2, clock wraps at 4, 6 ticks, 2 packets) | pass, 2.4M states, ~30 s | `TypeOK`, `NoSocketLeak`, `ReconnectRateLimited` |
| `feed_idle_close` | `MCFeedForwarderIdle.cfg` (1 slot) | violation of `InactiveFeedClosed` | finding 2 |
| `ap_broadcaster` | `MCAPBroadcaster.cfg` (3 slots, 3 retries, queue 1, 3 messages) | pass, 189k states, ~6 s | `TypeOK`, `RetryOnlyOnEnomem`, `FanOutEnds`, `ImplementsAPBroadcast` |
| `ap_stop` | `MCAPBroadcasterStop.cfg` | violation of `StopsWhenCleared` | finding 3 |
| `ap_socket_fail` | `MCAPBroadcasterSocket.cfg` | violation of `RunsWhileFlagSet` | finding 4 |

### Findings

1. **The retry budget is spent over the device's lifetime, not per episode** (line 73). `s_retry_num` is never reset.
   - TLC's trace: five failed attempts, then success on the fifth retry, `WiFiInit` returns true, and the link is lost once.
   - The handler then raises FAIL without reconnecting.
   - Spec 4.1 and 8 say the budget is per failure episode.
2. **An inactive feed keeps its socket while no packets arrive** (line 236). A timed-out receive `continue`s before the loop over feeds. Spec 8 says the socket is closed by the next iteration.
3. **Clearing `run_wifi_ap_task_` never stops a waiting AP task** (line 109).
   - The flag is checked only after `xQueueReceive(..., portMAX_DELAY)` returns.
   - Producers are refused once the flag is clear (line 578), so nothing ever wakes the task, and its socket is never closed.
   - Spec 4.2 and 5 describe a cooperative shutdown through the flag.
   - Latent: nothing in the repository clears the flag (`WiFiDeInit` restarts the chip).
4. **A failed `socket()` ends the AP task with its flag still set** (line 99).
   - The producer keeps accepting messages that nobody sends.
   - Spec 4.2 says the broadcaster runs while its flag is set. Spec 7 says socket-creation failures are never fatal.

### Bounds, and why they are enough

**WiFiConnection** is checked with the real budget of 5. The counter saturates, so the state space is finite without any bound.

**FeedForwarder** bounds:
- Two slots are enough to interleave one slot's failure with another slot's send.
- A queue of capacity 1 with 2 packets makes overflow and reset happen.
- The reconnect interval of 2 and the clock wrap of 4 are scaled milliseconds. Within 6 ticks a slot can attempt, be rate-limited, attempt again after the interval, and cross a wrap of the clock.
- `MaxTime` and `MaxPackets` are named bounds on the clock and on the producers.

**APBroadcaster** bounds:
- The real `kWiFiNumRetries` of 3, so the runs include two ENOMEMs followed by a success, and three ENOMEMs.
- Three slots, so a join or leave can happen between fan-outs while another slot is mid-retry.
- A queue of 1 and 3 messages, so an offer meets a full queue while a fan-out runs. `MaxMessages` is the named bound on the producers.

### Fairness

The fairness assumptions, and what in the code justifies each:
- **The event loop handles pending events** (`WF_vars(Handler)`).
- **A woken `WiFiInit` caller runs** (`WF_vars(WiFiInitResume)`).
- **The driver ends every association attempt** (`WF_vars(DriverAssociated \/ DriverConnectFailed)`). The ESP-IDF driver reports `STA_DISCONNECTED` when an attempt times out.
- **Not forced:** getting an IP, losing the link, and de-initialisation.
- **FeedForwarder:** only the station task is weakly fair. It is a FreeRTOS task that runs whenever it is ready. The environment is never forced to act.
- **APBroadcaster:** only the AP task is weakly fair (`WF_vars(APTask)`). Producers, stations and the flag's owner are never forced. `FanOutEnds` therefore holds whatever `sendto` returns.

## 5. Proofs (TLAPS)

### `WiFiConnectionProofs`

The proofs hold for every retry budget. The only assumption is `MaxReconnectAttemptsAssumption`: the budget is in Nat.

**`TypeCorrect`: `Spec => []TypeOK`.**
- `TypeStep` takes one case per action, via `StepCases`.
- `TypeOK` is split into `TypeCore` and `TypeFlags` (lemma `TypeSplit`), and each half is proved per action.
- `TailType` states that the tail of an event queue is an event queue.

**`TerminalFailureHolds`: `Spec => []TerminalFailure`.**
- `TerminalFailure` is not inductive on its own. A `STA_DISCONNECTED` or `STA_START` pending in the queue would make the handler call `esp_wifi_connect` after FAIL.
- The inductive invariant `IInv` strengthens it with these facts:
  - `IdleFresh`: before `WiFiInit` nothing is pending or set.
  - `StartAlone`: `STA_START` is pending only alone, with the radio idle.
  - `DisconnectLast`: a pending disconnect is the last event and the radio is idle.
- These facts hold because the driver posts only while the radio is busy (lemma `BusyRadioQueue`).
- The proof is split into one lemma per group of actions: `DriverIInv`, `HandlerIInv`, `InitActionsIInv`.

### `FeedForwarderProofs`

**`NoSocketLeakHolds`: `Spec => []NoSocketLeak`.** It holds for every number of slots, queue length, interval and clock width, under `FeedForwarderAssumption`.
- The inductive invariant `IInv` adds `SendOnConnected`: the send stage is reached only inside the loop over feeds, for a connected slot.
- Without `SendOnConnected`, a failed send's close-and-decrement could hit a disconnected slot.
- The cardinality lemmas `SlotConnect`, `SlotDisconnect` and `SlotStaysDisconnected` state how marking a slot changes the number of connected slots. They are built on `FS_AddElement`, `FS_RemoveElement` and `FS_Subset` of FiniteSetTheorems.

`FeedForwarderAssumption` also requires `ReconnectInterval < ClockWrap`. The code justifies this: `kWiFiTCPSocketReconnectIntervalMs = 5000` (comms_wifi.cpp:23) is far below 2^32. The MC instance has 2 < 4.

**`TypeCorrect`: `Spec => []TypeOK`.**
- `TypeOK` is split into `CtlType`, `EnvType` and `SlotType` (lemma `TypeSplit`).
- `fi`, `connected` and the socket count come from `IInv`.
- Each group has its own step lemma: `StepCtl`, `StepEnv` and `StepSlot`. `Untouched` covers the actions that leave a group alone.
- `QueueSendType` carries the queue's type through an offer. The capacity bound is FreeRTOS's own, since `xQueueSend` fails on a full queue; the reset after it only empties the queue.

**`ReconnectRateLimitedHolds`: `Spec => ReconnectRateLimited`.** This is an action property, proved from the invariant `MeterInv` with a final `PTL` step.
- `MeteringInv`:
  - for a slot whose history `since_attempt[i]` is at most the interval, the 32-bit difference `Elapsed(Clock, last_connect[i])` equals that history;
  - so when the guard of `FeedConnect` finds the difference above the interval, the history is above it too.
- `ClockDecomposed`:
  - the real time is a whole number of wraps plus the clock reading;
  - the provers cannot derive how `now % ClockWrap` moves on a tick from `%` alone, so the invariant carries this decomposition;
  - with it, lemma `ReadingOf` gives the reading after a tick: the next value, or 0 at the wrap.
- `ElapsedValue` removes the modulus from a difference of two readings.
- `ElapsedTick` shows that a tick grows a difference below the wrap by exactly one. This is where `ReconnectInterval < ClockWrap` is needed.
- `StepMetering` has three cases: `Tick`, `FeedConnect` (the slot is restamped and both sides become 0), and the actions that leave the clock and the stamps alone (lemma `MeterFrame`).

### `APBroadcasterProofs`

These hold under `APBroadcasterAssumption`: at least one slot, one retry and one queue slot.

**`RetryOnlyOnEnomemHolds`.**
- Its invariant adds `InRetryLoop`. Inside the retry loop the log holds exactly `num_tries` results, all ENOMEM, and `num_tries < kWiFiNumRetries`.
- Without `InRetryLoop`, appending a try could not be bounded.

**`TypeCorrect`.**
- `TypeOK` is split into `TaskType` and `EnvType`.
- It is strengthened by two facts, since without them `SendTo` could record a pair outside `Messages \X Clients`:
  - `SendSlot`: the task sends to a real slot.
  - `HeldMsg`: during a fan-out the task holds a real message.
- `QueueSendType` carries the queue's type through an offer. The capacity bound itself is FreeRTOS's.

### `APBroadcasterRefinement`

**`RefinementHolds`: `Spec => ImplementsAPBroadcast`.** The inductive invariant `RInv` has three parts:
- `TInv`, the strengthened type invariant above.
- `Numbering`:
  - messages delivered so far are numbered at most `msg`;
  - the queue holds larger numbers, in increasing order, none above `produced`.
  - So `Receive` takes a message nobody has had yet, and its hidden deliveries start empty.
- `LockedFanOut`:
  - the task holds the mutex exactly in the fan-out states;
  - it sends only to an active slot;
  - every delivery of the current message is to a slot that is active.
  - So `GiveLock` is a `Deliver` step, because the registry cannot run meanwhile.

The proof has four parts:
- `InitRefines`;
- `StepRInv`, one case per action;
- `StepRefines`, which gives each action the abstract step it maps to, or a stutter (lemma `MappedStutter`);
- the `PTL` combination.

### What stays with TLC

- **Liveness:** `InitTerminates`, `FanOutEnds`, `InactiveFeedClosed` and `StopsWhenCleared`. They need fairness and ENABLED, which TLAPS cannot handle.
- **`EveryEpisodeRetried` and `RunsWhileFlagSet`.** These are violations.

## 6. Not modelled, and why

- **The registry's own code** (`WiFiAddClient`, `WiFiRemoveClient`, MAC matching, rejection at capacity). It is not in the repository. Its effect on the table is modelled from the spec.
- **`ESP_ERROR_CHECK` aborts and the driver's error codes.** They depend on ESP-IDF internals.
- **URI changes while a feed is connected.** URIs are fixed at boot to bound the state space.
- **The composition of the connection manager with the forwarder.** `wifi_sta_has_ip_` is only a startup gate (spec 4.3), so each side is checked with the other as its environment.
- **The SPI coprocessor transport.** Only a test of an external contract is present.
- **The scan task.** It is commented out.
