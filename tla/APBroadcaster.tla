---------------------------- MODULE APBroadcaster ----------------------------
(***************************************************************************)
(* The access-point side of the ESP32 WiFi engine                         *)
(* (src/firmware/esp/main/comms_wifi.cpp): CommsManager::                  *)
(* WiFiAccessPointTask, which takes one message at a time from            *)
(* wifi_ap_message_queue_ and, holding wifi_clients_list_mutex_, sends it *)
(* by UDP to every active slot of wifi_clients_list_, retrying a send      *)
(* only on ENOMEM and at most kWiFiNumRetries times; its producer          *)
(* WiFiAccessPointSendMessageToAllStations; and the client registry       *)
(* (WiFiAddClient / WiFiRemoveClient, called from the event loop), which  *)
(* is not in the repository and is modelled from the spec: one mutation  *)
(* of the table under the same mutex.                                      *)
(*                                                                         *)
(* A message is its sequence number, so that deliveries of different      *)
(* messages can be told apart.                                             *)
(***************************************************************************)
EXTENDS Naturals, Sequences

CONSTANTS
    NumClients,     \* SettingsManager::Settings::kWiFiMaxNumClients
    NumRetries,     \* kWiFiNumRetries (3)
    QueueCapacity,  \* length of wifi_ap_message_queue_
    MaxMessages     \* bound: messages the producers offer

ASSUME APBroadcasterAssumption ==
    /\ NumClients \in Nat \ {0}
    /\ NumRetries \in Nat \ {0}
    /\ QueueCapacity \in Nat \ {0}
    /\ MaxMessages \in Nat

Clients == 0 .. NumClients - 1
Messages == 1 .. MaxMessages
NoMsg == 0
SendResults == {"ok", "enomem", "error"}   \* sendto(): ret >= 0, ENOMEM, other errno

VARIABLES
    ap_pc,         \* where WiFiAccessPointTask is
    msg,           \* message: the one being fanned out
    ci,            \* client index i of the fan-out loop
    num_tries,     \* num_tries of the retry loop for client ci
    tries_log,     \* history: results of sendto for client ci in this fan-out
    ap_holds_lock, \* the task holds wifi_clients_list_mutex_
    sock_open,     \* the task's UDP socket is open
    queue,         \* wifi_ap_message_queue_
    produced,      \* messages offered so far (they are numbered 1, 2, ...)
    active,        \* wifi_clients_list_[i].active
    delivered,     \* history: <<message, client>> pairs sendto succeeded for
    run_ap_task    \* run_wifi_ap_task_

vars == <<ap_pc, msg, ci, num_tries, tries_log, ap_holds_lock, sock_open, queue,
          produced, active, delivered, run_ap_task>>

\* The task is between xQueueReceive and xSemaphoreGive: it owns message msg.
FanningOut == ap_pc \in {"lock", "fanout", "send"}

Init ==
    /\ ap_pc = "start"
    /\ msg = NoMsg
    /\ ci = 0
    /\ num_tries = 0
    /\ tries_log = <<>>
    /\ ap_holds_lock = FALSE
    /\ sock_open = FALSE
    /\ queue = <<>>
    /\ produced = 0
    /\ active = [c \in Clients |-> FALSE]
    /\ delivered = {}
    /\ run_ap_task = TRUE

TaskUnchanged == UNCHANGED <<msg, ci, num_tries, tries_log, ap_holds_lock, delivered>>
EnvUnchanged == UNCHANGED <<queue, produced, active, run_ap_task>>

-----------------------------------------------------------------------------
(* socket(AF_INET, SOCK_DGRAM): on failure the task returns at once.      *)
CreateSocket ==
    /\ ap_pc = "start"
    /\ \E ok \in BOOLEAN :
          /\ sock_open' = ok
          /\ ap_pc' = IF ok THEN "top" ELSE "exited"
    /\ TaskUnchanged /\ EnvUnchanged

\* while (run_wifi_ap_task_): go on to receive, or shut down and close the socket.
LoopTop ==
    /\ ap_pc = "top"
    /\ IF run_ap_task
          THEN ap_pc' = "recv" /\ UNCHANGED sock_open
          ELSE ap_pc' = "exited" /\ sock_open' = FALSE
    /\ TaskUnchanged /\ EnvUnchanged

\* xQueueReceive(..., portMAX_DELAY): blocks until a message is queued.
Receive ==
    /\ ap_pc = "recv"
    /\ queue # <<>>
    /\ msg' = Head(queue)
    /\ queue' = Tail(queue)
    /\ ap_pc' = "lock"
    /\ UNCHANGED <<ci, num_tries, tries_log, ap_holds_lock, sock_open, produced,
                   active, delivered, run_ap_task>>

\* xSemaphoreTake(wifi_clients_list_mutex_, portMAX_DELAY), then i = 0.
TakeLock ==
    /\ ap_pc = "lock"
    /\ ~ap_holds_lock
    /\ ap_holds_lock' = TRUE
    /\ ci' = 0
    /\ ap_pc' = "fanout"
    /\ UNCHANGED <<msg, num_tries, tries_log, sock_open, delivered>>
    /\ EnvUnchanged

\* Slip: forgetting the i++ of the loop over client slots.
NextSlotMissing == UNCHANGED ci

\* i++: on to the next client slot.
NextSlot == ci' = ci + 1

(* One pass of the loop over client slots: an inactive slot is skipped,  *)
(* an active one enters the retry loop with num_tries = 0.               *)
VisitClient ==
    /\ ap_pc = "fanout"
    /\ ci < NumClients
    /\ IF active[ci]
          THEN /\ ap_pc' = "send"
               /\ num_tries' = 0
               /\ tries_log' = <<>>
               /\ UNCHANGED ci
          ELSE /\ NextSlot
               /\ UNCHANGED <<ap_pc, num_tries, tries_log>>
    /\ UNCHANGED <<msg, ap_holds_lock, sock_open, delivered>>
    /\ EnvUnchanged

\* The retry loop stops after a send that succeeded or failed with another errno.
RetryLoopEnds(r) == r # "enomem"

\* Slip: the loop bound written num_tries <= kWiFiNumRetries.
TriesLeftOffByOne == num_tries + 1 <= NumRetries

\* The for-loop bound: another try is left after this one.
TriesLeft == num_tries + 1 < NumRetries

(* sendto() to client ci.  A success is recorded; the loop breaks on      *)
(* success or on an errno other than ENOMEM; after ENOMEM the task waits  *)
(* kWiFiRetryWaitTimeMs (still holding the mutex) and tries again while   *)
(* num_tries < kWiFiNumRetries.  Leaving the loop moves on to slot i + 1. *)
SendTo ==
    /\ ap_pc = "send"
    /\ \E r \in SendResults :
          /\ tries_log' = Append(tries_log, r)
          /\ delivered' = IF r = "ok" THEN delivered \cup {<<msg, ci>>} ELSE delivered
          /\ IF RetryLoopEnds(r) \/ ~TriesLeft
                THEN /\ ap_pc' = "fanout"
                     /\ NextSlot
                     /\ UNCHANGED num_tries
                ELSE /\ num_tries' = num_tries + 1
                     /\ UNCHANGED <<ap_pc, ci>>
    /\ UNCHANGED <<msg, ap_holds_lock, sock_open>>
    /\ EnvUnchanged

\* All slots visited: xSemaphoreGive, and back to the top of the while loop.
GiveLock ==
    /\ ap_pc = "fanout"
    /\ ci = NumClients
    /\ ap_holds_lock' = FALSE
    /\ ap_pc' = "top"
    /\ UNCHANGED <<msg, ci, num_tries, tries_log, sock_open, delivered>>
    /\ EnvUnchanged

-----------------------------------------------------------------------------
(* The environment.                                                       *)

(* xQueueSend with no wait, and xQueueReset when it reports errQUEUE_FULL: *)
(* the queue afterwards.                                                  *)
QueueSend(v) == IF Len(queue) = QueueCapacity THEN <<>> ELSE Append(queue, v)

(* WiFiAccessPointSendMessageToAllStations: refused while the task is not *)
(* running; a full queue is reset to empty and the message dropped.       *)
SendMessageToAllStations ==
    /\ run_ap_task
    /\ produced < MaxMessages
    /\ produced' = produced + 1
    /\ queue' = QueueSend(produced + 1)
    /\ UNCHANGED <<ap_pc, msg, ci, num_tries, tries_log, ap_holds_lock,
                   sock_open, active, delivered, run_ap_task>>

\* Slip: the registry mutates the table without taking the mutex.
RegistryMayRunIgnoringLock == TRUE

(* The registry (WiFiAddClient / WiFiRemoveClient, run by the event loop) *)
(* takes wifi_clients_list_mutex_ for one mutation: it waits while the    *)
(* task holds it.                                                         *)
RegistryMayRun == ~ap_holds_lock

\* A station joins the softAP and is given an address: its slot is activated.
ClientJoin ==
    /\ RegistryMayRun
    /\ \E c \in Clients : ~active[c] /\ active' = [active EXCEPT ![c] = TRUE]
    /\ UNCHANGED <<ap_pc, msg, ci, num_tries, tries_log, ap_holds_lock, sock_open,
                   queue, produced, delivered, run_ap_task>>

\* WIFI_EVENT_AP_STADISCONNECTED: WiFiRemoveClient deactivates the slot.
ClientLeave ==
    /\ RegistryMayRun
    /\ \E c \in Clients : active[c] /\ active' = [active EXCEPT ![c] = FALSE]
    /\ UNCHANGED <<ap_pc, msg, ci, num_tries, tries_log, ap_holds_lock, sock_open,
                   queue, produced, delivered, run_ap_task>>

\* The owner of the task clears run_wifi_ap_task_.
StopTask ==
    /\ run_ap_task
    /\ run_ap_task' = FALSE
    /\ UNCHANGED <<ap_pc, msg, ci, num_tries, tries_log, ap_holds_lock, sock_open,
                   queue, produced, active, delivered>>

-----------------------------------------------------------------------------
APTask == CreateSocket \/ LoopTop \/ Receive \/ TakeLock \/ VisitClient \/ SendTo \/ GiveLock

Environment == SendMessageToAllStations \/ ClientJoin \/ ClientLeave \/ StopTask

Next == APTask \/ Environment

\* The AP task runs whenever it is ready; producers, stations and the owner need not act.
Spec == Init /\ [][Next]_vars /\ WF_vars(APTask)

-----------------------------------------------------------------------------
(* Types.  The retry counter of the model stays below kWiFiNumRetries:   *)
(* it is raised only while another try is left (line 120).              *)
TypeOK ==
    /\ ap_pc \in {"start", "top", "recv", "lock", "fanout", "send", "exited"}
    /\ msg \in Messages \cup {NoMsg}
    /\ ci \in 0 .. NumClients
    /\ num_tries \in 0 .. NumRetries - 1
    /\ tries_log \in Seq(SendResults)
    /\ ap_holds_lock \in BOOLEAN
    /\ sock_open \in BOOLEAN
    /\ queue \in Seq(Messages)
    /\ Len(queue) <= QueueCapacity
    /\ produced \in 0 .. MaxMessages
    /\ active \in [Clients -> BOOLEAN]
    /\ delivered \subseteq Messages \X Clients
    /\ run_ap_task \in BOOLEAN

(***************************************************************************)
(* Spec 4.2/8: per client and message the task calls sendto at most        *)
(* kWiFiNumRetries times, and tries again only after ENOMEM: in the tries  *)
(* made for the current client every result but the last is ENOMEM.       *)
(***************************************************************************)
RetryOnlyOnEnomem ==
    /\ Len(tries_log) <= NumRetries
    /\ \A k \in 1 .. Len(tries_log) - 1 : tries_log[k] = "enomem"

(***************************************************************************)
(* Every fan-out ends: once the task has taken a message it releases the   *)
(* client-list mutex and returns to its loop, whatever sendto returns --  *)
(* the event loop, which needs the mutex for WiFiRemoveClient, is not     *)
(* blocked forever.                                                        *)
(***************************************************************************)
FanOutEnds == FanningOut ~> ap_pc = "top"

(***************************************************************************)
(* Spec 4.2/5: the task runs as long as run_wifi_ap_task_ is set; once it *)
(* is cleared the task stops and closes its socket.                        *)
(***************************************************************************)
StopsWhenCleared == ~run_ap_task ~> ap_pc = "exited"

(***************************************************************************)
(* Spec 4.2: the broadcaster runs as long as run_wifi_ap_task_ is set --   *)
(* WiFiAccessPointSendMessageToAllStations keeps accepting messages        *)
(* exactly then, so the task must not have left its loop while it is set.  *)
(***************************************************************************)
RunsWhileFlagSet == run_ap_task => ap_pc # "exited"

(***************************************************************************)
(* Refinement: the broadcaster implements APBroadcast.  The message the    *)
(* task holds between xQueueReceive and xSemaphoreGive is the abstract     *)
(* in-flight message, and its deliveries count only once the mutex is      *)
(* given back; the whole fan-out then is one Deliver step.  This needs     *)
(* the mutex: a client removed after it was sent the message, while the   *)
(* fan-out is still running, would have been reached without being active *)
(* when the message was delivered.                                        *)
(***************************************************************************)
Abstract == INSTANCE APBroadcast
    WITH inflight <- IF FanningOut THEN msg ELSE NoMsg,
         delivered <- {p \in delivered : ~(FanningOut /\ p[1] = msg)}

ImplementsAPBroadcast == Abstract!Spec

=============================================================================
