------------------------ MODULE WiFiConnectionProofs ------------------------
(***************************************************************************)
(* Proofs about the station connection manager (WiFiConnection), for      *)
(* every retry budget kWiFiStaMaxNumReconnectAttempts in Nat.             *)
(***************************************************************************)
EXTENDS WiFiConnection, TLAPS

USE MaxReconnectAttemptsAssumption

\* Every step of the manager is a step of one of its actions, or a stutter.
LEMMA StepCases ==
    ASSUME [Next]_vars
    PROVE  \/ WiFiInit \/ WiFiInitResume \/ WiFiDeInit
           \/ HandleStaStart \/ HandleStaDisconnected
           \/ HandleStaConnected \/ HandleGotIp
           \/ DriverAssociated \/ DriverConnectFailed
           \/ DriverGotIp \/ DriverLinkLost
           \/ UNCHANGED vars
BY DEF Next, Handler, Driver

(***************************************************************************)
(* Type correctness: the variables keep their types; in particular the    *)
(* static retry counter never exceeds the budget and the event queue only *)
(* holds station events.  TypeOK is split in two halves, the state that   *)
(* the handlers compute and the Boolean flags, each proved on its own.    *)
(***************************************************************************)
TypeCore ==
    /\ config \in Configs
    /\ radio \in RadioStates
    /\ events \in Seq(EventKinds)
    /\ bits \subseteq Bits
    /\ s_retry_num \in 0 .. MaxReconnectAttempts
    /\ init_state \in InitStates
    /\ wait_bits \subseteq Bits

TypeFlags ==
    /\ sta_has_ip \in BOOLEAN
    /\ was_initialized \in BOOLEAN
    /\ run_ap_task \in BOOLEAN
    /\ run_sta_task \in BOOLEAN

LEMMA TypeSplit == TypeOK <=> TypeCore /\ TypeFlags
BY DEF TypeOK, TypeCore, TypeFlags

\* The tail of a queue of station events is a queue of station events.
LEMMA TailType ==
    ASSUME NEW q \in Seq(EventKinds), q # <<>>
    PROVE  Tail(q) \in Seq(EventKinds)
OBVIOUS

LEMMA TypeStep == TypeOK /\ [Next]_vars => TypeOK'
<1> SUFFICES ASSUME TypeCore, TypeFlags, [Next]_vars
             PROVE  TypeCore' /\ TypeFlags'
  BY TypeSplit DEF TypeOK, TypeCore, TypeFlags
<1>1. CASE WiFiInit
  <2>1. TypeCore'
    BY <1>1 DEF WiFiInit, TypeCore, InitStates, RadioStates, EventKinds
  <2>2. TypeFlags'
    BY <1>1 DEF WiFiInit, TypeFlags, TypeCore, Configs
  <2>3. QED
    BY <2>1, <2>2
<1>2. CASE WiFiInitResume
  <2>1. TypeCore'
    BY <1>2 DEF WiFiInitResume, TypeCore, InitStates
  <2>2. TypeFlags'
    BY <1>2 DEF WiFiInitResume, TypeFlags
  <2>3. QED
    BY <2>1, <2>2
<1>3. CASE WiFiDeInit
  <2>1. TypeCore'
    BY <1>3 DEF WiFiDeInit, TypeCore, InitStates, RadioStates
  <2>2. TypeFlags'
    BY <1>3 DEF WiFiDeInit, TypeFlags
  <2>3. QED
    BY <2>1, <2>2
<1>4. CASE HandleStaStart
  <2>1. TypeCore'
    BY <1>4 DEF HandleStaStart, Connect, TypeCore, RadioStates
  <2>2. TypeFlags'
    BY <1>4 DEF HandleStaStart, TypeFlags
  <2>3. QED
    BY <2>1, <2>2
<1>5. CASE HandleStaDisconnected
  <2>1. TypeCore'
    <3>1. events' \in Seq(EventKinds)
      BY <1>5, TailType DEF HandleStaDisconnected, TypeCore
    <3>2. bits' \subseteq Bits /\ wait_bits' \subseteq Bits
      BY <1>5 DEF HandleStaDisconnected, ClearedBits, SetBits, TypeCore, Bits
    <3>3. radio' \in RadioStates /\ s_retry_num' \in 0 .. MaxReconnectAttempts
      BY <1>5 DEF HandleStaDisconnected, RetryAllowed, Connect, TypeCore,
                  RadioStates
    <3>4. config' \in Configs /\ init_state' \in InitStates
      BY <1>5 DEF HandleStaDisconnected, TypeCore
    <3>5. QED
      BY <3>1, <3>2, <3>3, <3>4 DEF TypeCore
  <2>2. TypeFlags'
    BY <1>5 DEF HandleStaDisconnected, TypeFlags
  <2>3. QED
    BY <2>1, <2>2
<1>6. CASE HandleStaConnected
  <2>1. TypeCore'
    BY <1>6 DEF HandleStaConnected, SetConnected, SetBits, TypeCore, Bits
  <2>2. TypeFlags'
    BY <1>6 DEF HandleStaConnected, TypeFlags
  <2>3. QED
    BY <2>1, <2>2
<1>7. CASE HandleGotIp
  <2>1. TypeCore'
    BY <1>7 DEF HandleGotIp, TypeCore
  <2>2. TypeFlags'
    BY <1>7 DEF HandleGotIp, TypeFlags
  <2>3. QED
    BY <2>1, <2>2
<1>8. CASE DriverAssociated \/ DriverConnectFailed \/ DriverGotIp \/ DriverLinkLost
  <2>1. TypeCore'
    BY <1>8 DEF DriverAssociated, DriverConnectFailed, DriverGotIp,
                DriverLinkLost, DriverPost, TypeCore, RadioStates, EventKinds
  <2>2. TypeFlags'
    BY <1>8 DEF DriverAssociated, DriverConnectFailed, DriverGotIp,
                DriverLinkLost, DriverPost, TypeFlags
  <2>3. QED
    BY <2>1, <2>2
<1>9. CASE UNCHANGED vars
  BY <1>9 DEF vars, TypeCore, TypeFlags
<1>10. QED
  BY <1>1, <1>2, <1>3, <1>4, <1>5, <1>6, <1>7, <1>8, <1>9, StepCases

\* Every initial state is well typed.
LEMMA InitType == Init => TypeOK
<1> SUFFICES ASSUME Init PROVE TypeCore /\ TypeFlags
  BY TypeSplit
<1>1. TypeCore
  BY DEF Init, Fresh, TypeCore, RadioStates, InitStates
<1>2. TypeFlags
  BY DEF Init, Fresh, TypeFlags
<1>3. QED
  BY <1>1, <1>2

(***************************************************************************)
(* Type correctness of the connection manager, for every retry budget:     *)
(* WiFiEventHandler's static s_retry_num stays within                      *)
(* 0..kWiFiStaMaxNumReconnectAttempts and the event loop only ever holds   *)
(* station events.                                                         *)
(***************************************************************************)
THEOREM TypeCorrect == Spec => []TypeOK
<1>1. Init => TypeOK
  BY InitType
<1>2. QED
  BY <1>1, TypeStep, PTL DEF Spec

-----------------------------------------------------------------------------
(***************************************************************************)
(* The inductive invariant behind TerminalFailure.  FAIL is set only while *)
(* handling a disconnect, and then the handler has called nothing, so it  *)
(* must be known that a pending disconnect is the last pending event and  *)
(* that the radio is idle while it is pending; WIFI_EVENT_STA_START is    *)
(* pending only alone; before WiFiInit nothing is pending or set.         *)
(***************************************************************************)
IdleFresh ==
    init_state = "idle" => radio = "stopped" /\ events = <<>> /\ bits = {}

StartAlone ==
    \A k \in 1 .. Len(events) :
        events[k] = "StaStart" => events = <<"StaStart">> /\ radio = "disconnected"

DisconnectLast ==
    \A k \in 1 .. Len(events) :
        events[k] = "StaDisconnected" => k = Len(events) /\ radio = "disconnected"

IInv == TypeOK /\ IdleFresh /\ StartAlone /\ DisconnectLast /\ TerminalFailure

LEMMA InitIInv == Init => IInv
<1> SUFFICES ASSUME Init PROVE IInv
  OBVIOUS
<1>1. TypeOK
  BY InitType
<1>2. IdleFresh /\ StartAlone /\ DisconnectLast /\ TerminalFailure
  BY DEF Init, Fresh, IdleFresh, StartAlone, DisconnectLast, TerminalFailure
<1>3. QED
  BY <1>1, <1>2 DEF IInv

\* While the radio is not idle, no station start or disconnect is pending.
LEMMA BusyRadioQueue ==
    ASSUME IInv, radio \in {"connecting", "connected", "has_ip"}
    PROVE  \A k \in 1 .. Len(events) : events[k] \notin {"StaStart", "StaDisconnected"}
BY DEF IInv, StartAlone, DisconnectLast

LEMMA DriverIInv ==
    ASSUME IInv, TypeOK',
           DriverAssociated \/ DriverConnectFailed \/ DriverGotIp \/ DriverLinkLost
    PROVE  IInv'
<1> USE DEF DriverAssociated, DriverConnectFailed, DriverGotIp, DriverLinkLost,
            DriverPost
<1>1. radio \in {"connecting", "connected", "has_ip"}
  OBVIOUS
<1>2. \A k \in 1 .. Len(events) : events[k] \notin {"StaStart", "StaDisconnected"}
  BY <1>1, BusyRadioQueue
<1>3. TypeOK'
  OBVIOUS
<1>4. \E e \in EventKinds :
         /\ events' = Append(events, e)
         /\ e = "StaDisconnected" => radio' = "disconnected"
         /\ e # "StaStart"
  BY DEF EventKinds
<1>5. IdleFresh'
  BY <1>1 DEF IInv, IdleFresh
<1>6. StartAlone'
  BY <1>2, <1>4 DEF IInv, TypeOK, StartAlone
<1>7. DisconnectLast'
  BY <1>2, <1>4 DEF IInv, TypeOK, DisconnectLast
<1>8. TerminalFailure'
  BY <1>1 DEF IInv, TerminalFailure
<1>9. QED
  BY <1>3, <1>5, <1>6, <1>7, <1>8 DEF IInv

\* A handler consumes the head of a non-empty queue; what remains is its tail.
LEMMA TailPreserves ==
    ASSUME IInv, events # <<>>, events' = Tail(events)
    PROVE  /\ \A k \in 1 .. Len(events') : events'[k] = events[k + 1]
           /\ Len(events') = Len(events) - 1
BY DEF IInv, TypeOK

LEMMA HandlerIInv ==
    ASSUME IInv, TypeOK',
           HandleStaStart \/ HandleStaDisconnected \/ HandleStaConnected \/ HandleGotIp
    PROVE  IInv'
<1> USE DEF IInv
<1>1. /\ events # <<>>
      /\ events' = Tail(events)
      /\ init_state' = init_state
  BY DEF HandleStaStart, HandleStaDisconnected, HandleStaConnected, HandleGotIp
<1>2. /\ \A k \in 1 .. Len(events') : events'[k] = events[k + 1]
      /\ Len(events') = Len(events) - 1
  BY <1>1, TailPreserves
<1>3. "FAIL" \notin bits
  BY <1>1 DEF TerminalFailure
<1>4. init_state # "idle"
  BY <1>1 DEF IdleFresh
<1>5. IdleFresh'
  BY <1>1, <1>4 DEF IdleFresh
<1>6. CASE HandleStaStart
  <2>1. events = <<"StaStart">> /\ events' = <<>>
    BY <1>1, <1>6 DEF HandleStaStart, StartAlone, TypeOK
  <2>2. bits' = bits
    BY <1>6 DEF HandleStaStart
  <2>3. QED
    BY <1>3, <1>5, <2>1, <2>2 DEF StartAlone, DisconnectLast, TerminalFailure
<1>7. CASE HandleStaDisconnected
  <2>1. Len(events) = 1 /\ radio = "disconnected"
    <3>1. 1 \in 1 .. Len(events) /\ events[1] = "StaDisconnected"
      BY <1>1, <1>7 DEF HandleStaDisconnected, TypeOK
    <3>2. QED
      BY <3>1 DEF DisconnectLast
  <2>2. events' = <<>>
    BY <1>1, <2>1 DEF TypeOK
  <2>3. "CONNECTED" \notin bits'
    BY <1>7 DEF HandleStaDisconnected, RetryAllowed, ClearedBits, SetBits
  <2>4. "FAIL" \in bits' => radio' = "disconnected"
    BY <1>3, <1>7, <2>1 DEF HandleStaDisconnected, RetryAllowed, ClearedBits,
                            SetBits, Connect
  <2>5. QED
    BY <1>5, <2>2, <2>3, <2>4 DEF StartAlone, DisconnectLast, TerminalFailure
<1>8. CASE HandleStaConnected \/ HandleGotIp
  <2>1. radio' = radio /\ "FAIL" \notin bits'
    BY <1>3, <1>8 DEF HandleStaConnected, SetConnected, SetBits, HandleGotIp
  <2>2. Head(events) \in {"StaConnected", "GotIp"}
    BY <1>8 DEF HandleStaConnected, HandleGotIp
  <2>3. \A k \in 1 .. Len(events) : events[k] # "StaStart"
    BY <1>1, <2>2 DEF StartAlone, TypeOK
  <2>4. StartAlone'
    BY <1>2, <2>3 DEF StartAlone, TypeOK
  <2>5. DisconnectLast'
    BY <1>2, <2>1 DEF DisconnectLast, TypeOK
  <2>6. QED
    BY <1>5, <2>1, <2>4, <2>5 DEF TerminalFailure
<1>9. QED
  BY <1>6, <1>7, <1>8

LEMMA InitActionsIInv ==
    ASSUME IInv, TypeOK', WiFiInit \/ WiFiInitResume \/ WiFiDeInit
    PROVE  IInv'
<1> USE DEF IInv
<1>1. CASE WiFiInit
  <2>1. radio = "stopped" /\ events = <<>> /\ bits = {}
    BY <1>1 DEF WiFiInit, IdleFresh
  <2>2. /\ init_state' # "idle"
        /\ events' = <<>> \/ (events' = <<"StaStart">> /\ radio' = "disconnected")
        /\ bits' = {}
    BY <1>1, <2>1 DEF WiFiInit
  <2>3. QED
    BY <2>2 DEF IdleFresh, StartAlone, DisconnectLast, TerminalFailure
<1>2. CASE WiFiInitResume
  BY <1>2 DEF WiFiInitResume, IdleFresh, StartAlone, DisconnectLast, TerminalFailure
<1>3. CASE WiFiDeInit
  BY <1>3 DEF WiFiDeInit, IdleFresh, StartAlone, DisconnectLast, TerminalFailure
<1>4. QED
  BY <1>1, <1>2, <1>3

(***************************************************************************)
(* Terminal failure, for every retry budget: once FAIL is raised the       *)
(* connection is not reported up and the manager attempts nothing more:  *)
(* the radio is idle and no event that would start an attempt is pending. *)
(***************************************************************************)
THEOREM TerminalFailureHolds == Spec => []TerminalFailure
<1>1. Init => IInv
  BY InitIInv
<1>2. IInv /\ [Next]_vars => IInv'
  <2> SUFFICES ASSUME IInv, [Next]_vars PROVE IInv'
    OBVIOUS
  <2>1. TypeOK'
    BY TypeStep DEF IInv
  <2>2. CASE UNCHANGED vars
    BY <2>2 DEF vars, IInv, TypeOK, IdleFresh, StartAlone, DisconnectLast,
                TerminalFailure
  <2>3. QED
    BY <2>1, <2>2, StepCases, DriverIInv, HandlerIInv, InitActionsIInv
<1>3. IInv => TerminalFailure
  BY DEF IInv
<1>4. QED
  BY <1>1, <1>2, <1>3, PTL DEF Spec

=============================================================================
