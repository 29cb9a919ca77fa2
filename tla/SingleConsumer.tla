---------------------------- MODULE SingleConsumer ----------------------------
(***************************************************************************)
(* What the Redis lease of internal/hub promises the gateway: its three    *)
(* realtime feeds are read by one dashboard process at a time.  A process  *)
(* may start reading only when nobody reads; it may stop at any time.      *)
(***************************************************************************)
CONSTANTS Process, Nobody

VARIABLE consumer   \* the process reading the gateway, or Nobody

TypeOK == consumer \in Process \cup {Nobody}

Init == consumer = Nobody

Start(p) == consumer = Nobody /\ consumer' = p

Stop == consumer # Nobody /\ consumer' = Nobody

Next == Stop \/ \E p \in Process : Start(p)

Spec == Init /\ [][Next]_consumer
===============================================================================
