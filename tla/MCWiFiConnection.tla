------------------------- MODULE MCWiFiConnection -------------------------
(* Model-checking instance of WiFiConnection with the firmware's retry    *)
(* budget kWiFiStaMaxNumReconnectAttempts = 5.                            *)
EXTENDS WiFiConnection

MCMaxReconnectAttempts == 5

=============================================================================
