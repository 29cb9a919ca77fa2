----------------------------- MODULE LeaseTiming -----------------------------
(***************************************************************************)
(* The lease over a Redis that answers at once, timed with history         *)
(* variables: how long the gateway stays unread although an instance is    *)
(* up, and how long two instances read it after Redis lost the key.        *)
(***************************************************************************)
EXTENDS RealtimeLease

CONSTANT MaxForgets   \* how many times Redis loses its data

ASSUME LossesAssumption == MaxForgets \in Nat

VARIABLES vacant, doubled, forgets

history == <<vacant, doubled, forgets>>

Standby == \E p \in Process : Up(p) /\ ~cancelled[p]
Read == \E p \in Process : upstream[p]
ReadTwice == \E p, q \in Process : p # q /\ upstream[p] /\ upstream[q]

\* Calls and shutdowns take no time here, and nobody acts on a tick late.
PromptTick ==
    /\ \A p \in Process : /\ wire[p] = {} /\ call[p].op = "none"
                          /\ pc[p] \in {"new", "stopped", "waiting", "holding"}
                          /\ ~cancelled[p] \/ pc[p] = "stopped"
                          /\ ~lost[p] /\ renewed[p] = Empty
                          /\ ~(pc[p] \in {"waiting", "holding"} /\ ticker[p].due)
    /\ Tick

PromptStep ==
    \E p \in Process : \/ Code(p) \/ Cancel(p) \/ Kill(p)
                       \/ \E op \in Scripts : RedisApplies(p, op, FALSE)

Stopped == \E p \in Process : Up(p) /\ ~Up(p)'

\* Time without a reader counts from the last death.
Count(n, on, ticked) == IF ~on THEN 0 ELSE IF ticked THEN n + 1 ELSE n

Watch(ticked) ==
    /\ vacant' = Count(vacant, ~Read' /\ Standby /\ ~Stopped, ticked)
    /\ doubled' = Count(doubled, ReadTwice', ticked)

TimedInit == Init /\ vacant = 0 /\ doubled = 0 /\ forgets = 0

TimedNext ==
    \/ PromptTick /\ Watch(TRUE) /\ UNCHANGED forgets
    \/ PromptStep /\ Watch(FALSE) /\ UNCHANGED forgets
    \/ RedisForgets /\ forgets < MaxForgets /\ forgets' = forgets + 1 /\ Watch(FALSE)

TimedSpec == TimedInit /\ [][TimedNext]_<<vars, history>>

\* hub.go, Hub: a killed holder is replaced within leaseTTL + leaseEvery (8 s).
ReplacedInTime == vacant <= TTL + Every

\* After Redis lost the key, the first renewal is refused and its process
\* leaves: each loss has two instances read the gateway for one renewal interval
\* at most.
DoubleReadIsShort == doubled <= Every * forgets
===============================================================================
