------------------------------ MODULE LossyLease ------------------------------
(***************************************************************************)
(* The lease over a Redis that may also lose the key: an empty restart, a  *)
(* failover to a replica that had not received it.  Calls are lost, late   *)
(* and repeated as in RealtimeLease.  Two instances may then read the      *)
(* gateway: the local deadline of hold is what bounds for how long, even   *)
(* when no renewal is answered.                                            *)
(***************************************************************************)
EXTENDS RealtimeLease

VARIABLE sinceLoss   \* history: time since Redis last lost the key, up to LongAgo

Deadline == Margin + Lag
LongAgo == Deadline + 1

LossyInit == Init /\ sinceLoss = LongAgo

LossyNext ==
    \/ (\E p \in Process : Code(p) \/ Network(p) \/ Cancel(p) \/ Kill(p)) /\ UNCHANGED sinceLoss
    \/ Tick /\ sinceLoss' = Later(sinceLoss, LongAgo)
    \/ RedisForgets /\ sinceLoss' = 0

LossySpec == LossyInit /\ [][LossyNext]_<<vars, sinceLoss>>

\* hold reads the gateway for its local deadline at most after the last renewal that was
\* granted, "que Redis réponde ou non" (relay.go, hold): two processes read together only
\* for that long after Redis lost the key.
ExclusionComesBack ==
    (\E p, q \in Process : p # q /\ upstream[p] /\ upstream[q]) => sinceLoss <= Deadline
===============================================================================
