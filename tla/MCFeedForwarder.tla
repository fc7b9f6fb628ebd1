-------------------------- MODULE MCFeedForwarder --------------------------
(* Model-checking instance of FeedForwarder: two feed slots, a queue of   *)
(* one packet (so that the second of two packets finds it full and resets *)
(* it), milliseconds scaled so that the reconnect interval is 2, the      *)
(* statistics interval 1, and the 32-bit clock wraps every 4 ticks --     *)
(* within the 6 ticks of model time, so long runs cross a wrap.           *)
EXTENDS FeedForwarder

MCNumFeeds == 2
MCQueueCapacity == 1
MCReconnectInterval == 2
MCStatsInterval == 1
MCClockWrap == 4
MCMaxTime == 6
MCMaxPackets == 2
\* a literal address ("10.0.0.1") and a host name ("feed.example")
MCUris == {<<"digit", ".", "digit">>, <<"alpha", ".", "alpha">>}

\* one feed slot, for the liveness question about a single slot
MCOneFeed == 1

=============================================================================
