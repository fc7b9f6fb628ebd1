--------------------------- MODULE WiFiConnection ---------------------------
(***************************************************************************)
(* The station side of the WiFi connection manager of the ESP32 firmware  *)
(* (src/firmware/esp/main/comms_wifi.cpp): CommsManager::WiFiInit, the    *)
(* station cases of CommsManager::WiFiEventHandler with its static retry  *)
(* counter s_retry_num, the FreeRTOS event group wifi_event_group_ that   *)
(* WiFiInit blocks on, and CommsManager::WiFiDeInit (a software reset).   *)
(*                                                                         *)
(* Three actors interleave: the task that calls WiFiInit, the default     *)
(* event loop task that runs the event handlers one event at a time, in   *)
(* the order the events were posted, and the WiFi driver, which answers   *)
(* esp_wifi_start and esp_wifi_connect by posting events later.  The      *)
(* driver and the IP event handler are not in the repository; they are    *)
(* modelled from the interface the handler consumes.                      *)
(***************************************************************************)
EXTENDS Naturals, Sequences

CONSTANT MaxReconnectAttempts   \* kWiFiStaMaxNumReconnectAttempts (5)

ASSUME MaxReconnectAttemptsAssumption == MaxReconnectAttempts \in Nat

VARIABLES
    config,          \* [ap, sta]: wifi_ap_enabled, wifi_sta_enabled
    radio,           \* station link state inside the WiFi driver
    events,          \* events posted to the default event loop, not yet handled
    bits,            \* wifi_event_group_: subset of {"CONNECTED", "FAIL"}
    s_retry_num,     \* static retry counter of WiFiEventHandler
    sta_has_ip,      \* wifi_sta_has_ip_
    init_state,      \* where the caller of WiFiInit is
    wait_bits,       \* value xEventGroupWaitBits returns once the caller is woken
    was_initialized, \* wifi_was_initialized_
    run_ap_task,     \* run_wifi_ap_task_
    run_sta_task     \* run_wifi_sta_task_

vars == <<config, radio, events, bits, s_retry_num, sta_has_ip, init_state,
          wait_bits, was_initialized, run_ap_task, run_sta_task>>

Bits == {"CONNECTED", "FAIL"}
EventKinds == {"StaStart", "StaConnected", "StaDisconnected", "GotIp"}
RadioStates == {"stopped", "disconnected", "connecting", "connected", "has_ip"}
InitStates == {"idle", "waiting", "returned_true", "returned_false"}
Configs == [ap : BOOLEAN, sta : BOOLEAN]

(***************************************************************************)
(* The state right after a boot: nothing initialised, the event group     *)
(* empty; the persisted configuration is any of the four mode choices.    *)
(***************************************************************************)
Fresh ==
    /\ radio = "stopped"
    /\ events = <<>>
    /\ bits = {}
    /\ s_retry_num = 0
    /\ sta_has_ip = FALSE
    /\ init_state = "idle"
    /\ wait_bits = {}
    /\ was_initialized = FALSE
    /\ run_ap_task = FALSE
    /\ run_sta_task = FALSE

Init == config \in Configs /\ Fresh

(***************************************************************************)
(* xEventGroupSetBits on a group whose value is g: sets the bits and, if  *)
(* the WiFiInit caller is blocked in xEventGroupWaitBits (waiting for     *)
(* either bit), unblocks it with the group's value at that moment.        *)
(***************************************************************************)
SetBits(g, b) ==
    /\ bits' = g \cup b
    /\ wait_bits' = IF init_state = "waiting" /\ wait_bits = {}
                       THEN g \cup b ELSE wait_bits

\* Slip: retrying once more than kWiFiStaMaxNumReconnectAttempts (<=).
RetryAllowedOffByOne == s_retry_num <= MaxReconnectAttempts

\* The retry guard of the disconnect handler.
RetryAllowed == s_retry_num < MaxReconnectAttempts

\* Slip: forgetting xEventGroupClearBits(CONNECTED) on a disconnect.
ClearedBitsKept == bits

\* The event group once the disconnect handler has cleared CONNECTED.
ClearedBits == bits \ {"CONNECTED"}

\* esp_wifi_connect(): the driver starts an association attempt.
Connect == radio' = "connecting"

-----------------------------------------------------------------------------
(* CommsManager::WiFiInit up to the blocking wait: select the mode, mark  *)
(* the manager initialised, stop the radio and return true when no mode   *)
(* is enabled, otherwise start it (the driver posts WIFI_EVENT_STA_START  *)
(* when the station interface is on), launch the AP task, and block the   *)
(* caller on the event group when the station is enabled.                 *)
WiFiInit ==
    /\ init_state = "idle"
    /\ was_initialized' = TRUE
    /\ IF config.sta
          THEN /\ radio' = "disconnected"
               /\ events' = Append(events, "StaStart")
               /\ init_state' = "waiting"
          ELSE /\ init_state' = "returned_true"
               /\ UNCHANGED <<radio, events>>
    /\ run_ap_task' = config.ap
    /\ UNCHANGED <<config, bits, s_retry_num, sta_has_ip, wait_bits,
                   run_sta_task>>

(* The rest of WiFiInit once xEventGroupWaitBits has returned: on the     *)
(* CONNECTED bit launch the station task and return true, otherwise       *)
(* (FAIL) return false.                                                   *)
WiFiInitResume ==
    /\ init_state = "waiting"
    /\ wait_bits # {}
    /\ IF "CONNECTED" \in wait_bits
          THEN /\ init_state' = "returned_true"
               /\ run_sta_task' = TRUE
          ELSE /\ init_state' = "returned_false"
               /\ UNCHANGED run_sta_task
    /\ UNCHANGED <<config, radio, events, bits, s_retry_num, sta_has_ip,
                   wait_bits, was_initialized, run_ap_task>>

(* CommsManager::WiFiDeInit once WiFiInit has run: esp_restart().  The    *)
(* reset clears RAM, the static retry counter included, and the firmware  *)
(* boots again with the (possibly changed) persisted configuration.       *)
WiFiDeInit ==
    /\ was_initialized
    /\ init_state # "waiting"
    /\ config' \in Configs
    /\ radio' = "stopped"
    /\ events' = <<>>
    /\ bits' = {}
    /\ s_retry_num' = 0
    /\ sta_has_ip' = FALSE
    /\ init_state' = "idle"
    /\ wait_bits' = {}
    /\ was_initialized' = FALSE
    /\ run_ap_task' = FALSE
    /\ run_sta_task' = FALSE

-----------------------------------------------------------------------------
(* The event handler, one action per station event, each consuming the    *)
(* oldest pending event.                                                  *)

\* WIFI_EVENT_STA_START: esp_wifi_connect().
HandleStaStart ==
    /\ events # <<>>
    /\ Head(events) = "StaStart"
    /\ events' = Tail(events)
    /\ Connect
    /\ UNCHANGED <<config, bits, s_retry_num, sta_has_ip, init_state,
                   wait_bits, was_initialized, run_ap_task, run_sta_task>>

(* WIFI_EVENT_STA_DISCONNECTED: clear CONNECTED and wifi_sta_has_ip_;     *)
(* retry while s_retry_num < kWiFiStaMaxNumReconnectAttempts, otherwise   *)
(* set FAIL.  s_retry_num is never reset.                                 *)
HandleStaDisconnected ==
    /\ events # <<>>
    /\ Head(events) = "StaDisconnected"
    /\ events' = Tail(events)
    /\ sta_has_ip' = FALSE
    /\ IF RetryAllowed
          THEN /\ Connect
               /\ s_retry_num' = s_retry_num + 1
               /\ bits' = ClearedBits
               /\ UNCHANGED wait_bits
          ELSE /\ SetBits(ClearedBits, {"FAIL"})
               /\ UNCHANGED <<radio, s_retry_num>>
    /\ UNCHANGED <<config, init_state, was_initialized, run_ap_task,
                   run_sta_task>>

\* Slip: the connected handler forgets to set CONNECTED.
SetConnectedDropped == UNCHANGED <<bits, wait_bits>>

\* xEventGroupSetBits(wifi_event_group_, WIFI_CONNECTED_BIT).
SetConnected == SetBits(bits, {"CONNECTED"})

\* WIFI_EVENT_STA_CONNECTED: set CONNECTED.
HandleStaConnected ==
    /\ events # <<>>
    /\ Head(events) = "StaConnected"
    /\ events' = Tail(events)
    /\ SetConnected
    /\ UNCHANGED <<config, radio, s_retry_num, sta_has_ip, init_state,
                   was_initialized, run_ap_task, run_sta_task>>

\* IP_EVENT_STA_GOT_IP (IP event handler): set wifi_sta_has_ip_.
HandleGotIp ==
    /\ events # <<>>
    /\ Head(events) = "GotIp"
    /\ events' = Tail(events)
    /\ sta_has_ip' = TRUE
    /\ UNCHANGED <<config, radio, bits, s_retry_num, init_state, wait_bits,
                   was_initialized, run_ap_task, run_sta_task>>

-----------------------------------------------------------------------------
(* The WiFi driver: an association attempt ends in WIFI_EVENT_STA_CONNECTED *)
(* or WIFI_EVENT_STA_DISCONNECTED; an associated link gets an address      *)
(* (IP_EVENT_STA_GOT_IP) or is lost (WIFI_EVENT_STA_DISCONNECTED).         *)
DriverPost(r, e) ==
    /\ radio' = r
    /\ events' = Append(events, e)
    /\ UNCHANGED <<config, bits, s_retry_num, sta_has_ip, init_state,
                   wait_bits, was_initialized, run_ap_task, run_sta_task>>

DriverAssociated == radio = "connecting" /\ DriverPost("connected", "StaConnected")
DriverConnectFailed == radio = "connecting" /\ DriverPost("disconnected", "StaDisconnected")
DriverGotIp == radio = "connected" /\ DriverPost("has_ip", "GotIp")
DriverLinkLost ==
    radio \in {"connected", "has_ip"} /\ DriverPost("disconnected", "StaDisconnected")

-----------------------------------------------------------------------------
Handler ==
    \/ HandleStaStart
    \/ HandleStaDisconnected
    \/ HandleStaConnected
    \/ HandleGotIp

Driver == DriverAssociated \/ DriverConnectFailed \/ DriverGotIp \/ DriverLinkLost

Next ==
    \/ WiFiInit
    \/ WiFiInitResume
    \/ WiFiDeInit
    \/ Handler
    \/ Driver

(***************************************************************************)
(* Fairness: the event loop task keeps handling events, the WiFiInit      *)
(* caller runs once woken, and the driver ends every association attempt  *)
(* (it times out with a disconnect).  Getting an address, losing the link *)
(* and a de-initialisation are never forced.                              *)
(***************************************************************************)
Fairness ==
    /\ WF_vars(Handler)
    /\ WF_vars(WiFiInitResume)
    /\ WF_vars(DriverAssociated \/ DriverConnectFailed)

Spec == Init /\ [][Next]_vars /\ Fairness

-----------------------------------------------------------------------------
TypeOK ==
    /\ config \in Configs
    /\ radio \in RadioStates
    /\ events \in Seq(EventKinds)
    /\ bits \subseteq Bits
    /\ s_retry_num \in 0..MaxReconnectAttempts
    /\ sta_has_ip \in BOOLEAN
    /\ init_state \in InitStates
    /\ wait_bits \subseteq Bits
    /\ was_initialized \in BOOLEAN
    /\ run_ap_task \in BOOLEAN
    /\ run_sta_task \in BOOLEAN

(***************************************************************************)
(* Terminal failure: once the handler has raised FAIL (retry budget spent) *)
(* the connection is not also reported as up, no association attempt is   *)
(* in progress and no event is pending that would start one -- the        *)
(* manager has stopped retrying on its own.  Violated if the disconnect   *)
(* handler kept CONNECTED set or kept calling esp_wifi_connect.           *)
(***************************************************************************)
TerminalFailure ==
    "FAIL" \in bits =>
        /\ "CONNECTED" \notin bits
        /\ radio = "disconnected"
        /\ events = <<>>

(***************************************************************************)
(* WiFiInit returns: a caller blocked on the event group for the station   *)
(* to connect or fail is eventually released, whatever the driver does.   *)
(***************************************************************************)
InitTerminates ==
    init_state = "waiting" ~> init_state \in {"returned_true", "returned_false"}

(***************************************************************************)
(* Spec 4.1/8: the retry budget (5) is per failure episode.  The first     *)
(* disconnect after a successful association (CONNECTED still set) always *)
(* leads to a reconnection attempt.                                       *)
(***************************************************************************)
EveryEpisodeRetried ==
    [][HandleStaDisconnected /\ "CONNECTED" \in bits => radio' = "connecting"]_vars

=============================================================================
