----------------------------- MODULE APBroadcast -----------------------------
(***************************************************************************)
(* What the access-point broadcaster promises (spec 4.2), without its     *)
(* loops: messages offered while it runs enter a bounded queue that is    *)
(* emptied when an offer finds it full; the broadcaster takes the oldest  *)
(* message and, in one indivisible step, delivers it to some of the       *)
(* clients active at that moment (a send may fail); stations join and     *)
(* leave the client table at any time in between.                         *)
(***************************************************************************)
EXTENDS Naturals, Sequences

CONSTANTS NumClients, QueueCapacity, MaxMessages

Clients == 0 .. NumClients - 1
NoMsg == 0

VARIABLES queue, produced, inflight, active, delivered, run_ap_task

vars == <<queue, produced, inflight, active, delivered, run_ap_task>>

Init ==
    /\ queue = <<>>
    /\ produced = 0
    /\ inflight = NoMsg
    /\ active = [c \in Clients |-> FALSE]
    /\ delivered = {}
    /\ run_ap_task = TRUE

\* A message is offered: dropped with the whole backlog if the queue is full.
Offer ==
    /\ run_ap_task
    /\ produced < MaxMessages
    /\ produced' = produced + 1
    /\ queue' = IF Len(queue) = QueueCapacity THEN <<>> ELSE Append(queue, produced + 1)
    /\ UNCHANGED <<inflight, active, delivered, run_ap_task>>

\* The broadcaster takes the oldest message.
Take ==
    /\ inflight = NoMsg
    /\ queue # <<>>
    /\ inflight' = Head(queue)
    /\ queue' = Tail(queue)
    /\ UNCHANGED <<produced, active, delivered, run_ap_task>>

\* It reaches some of the clients that are active now, all at once.
Deliver ==
    /\ inflight # NoMsg
    /\ \E reached \in SUBSET {c \in Clients : active[c]} :
          delivered' = delivered \cup ({inflight} \X reached)
    /\ inflight' = NoMsg
    /\ UNCHANGED <<queue, produced, active, run_ap_task>>

\* A station joins or leaves.
Membership ==
    /\ \E c \in Clients : active' = [active EXCEPT ![c] = ~@]
    /\ UNCHANGED <<queue, produced, inflight, delivered, run_ap_task>>

Stop ==
    /\ run_ap_task
    /\ run_ap_task' = FALSE
    /\ UNCHANGED <<queue, produced, inflight, active, delivered>>

Next == Offer \/ Take \/ Deliver \/ Membership \/ Stop

Spec == Init /\ [][Next]_vars

=============================================================================
