-------------------------- MODULE MCAPBroadcaster --------------------------
(* Model-checking instance of APBroadcaster: three client slots, the real  *)
(* kWiFiNumRetries of 3 (so a send can fail with ENOMEM twice and then    *)
(* succeed, or three times), a queue of one message and three messages,  *)
(* so that an offer meets a full queue while a fan-out is running.        *)
EXTENDS APBroadcaster

MCNumClients == 3
MCNumRetries == 3
MCQueueCapacity == 1
MCMaxMessages == 3

=============================================================================
