---------------------------- MODULE RealtimeRelay ----------------------------
(***************************************************************************)
(* What the statuses of the realtime subjects go through: the process that *)
(* holds the lease reads the gateway (consume, upstream.go), keeps a view  *)
(* of each subject (leaderView, relay.go), publishes its changes and, in   *)
(* whole, at each heartbeat (beat); the follower of every instance shows   *)
(* what it receives and watches the heartbeats (follow, relay.go).         *)
(*                                                                         *)
(* One subject stands for the three, which have a goroutine each and share *)
(* the heartbeat, and one follower for those of all the instances, which   *)
(* share nothing.  The lease is what RealtimeLease implements.  Publishing *)
(* loses what it cannot deliver; two goroutines publish, and a publication *)
(* their context gave up may land after the next one: nothing is ordered.  *)
(***************************************************************************)
EXTENDS Naturals

CONSTANTS
    Process, Nobody,    \* as in SingleConsumer
    Every,              \* heartbeatEvery
    Timeout,            \* heartbeatTimeout
    Delay               \* the longest from the making of a message to its reception

ASSUME RelayAssumption ==
    /\ Nobody \notin Process
    /\ Every \in Nat \ {0} /\ Timeout \in Nat /\ Delay \in Nat
    /\ Every + Delay <= Timeout

VARIABLES
    leader,     \* the process that reads the gateway, or Nobody
    feed,       \* its consume goroutine
    view,       \* what leaderView holds
    beat,       \* its beat goroutine: what it is about to publish, and its ticker
    up,         \* Redis answers, and the follower is subscribed
    air,        \* messages published, not received yet
    shown,      \* the follower: the status of its hub
    lastBeat,   \* the follower: time since the last heartbeat
    watchdog,   \* the follower: its ticker
    liveAge,    \* history: time since a leader read the feed of the subject
    calm        \* history: time without an outage nor a change of leader

leading == <<leader, feed, view, beat>>
following == <<shown, lastBeat, watchdog>>
history == <<liveAge, calm>>
vars == <<leading, up, air, following, history>>

Status == {"live", "stale"}
Message == [kind : {"status", "heartbeat"}, status : Status, age : 0 .. Delay]
Longest == Delay + Timeout + Every  \* how long a subject is shown live after it was

TypeOK ==
    /\ leader \in Process \cup {Nobody}
    /\ feed \in {"dialing", "announcing", "reading", "reporting"}
    /\ view \in Status
    /\ beat \in [carries : Status \cup {"nothing"}, age : 0 .. Delay, phase : 0 .. Every]
    /\ up \in BOOLEAN /\ air \subseteq Message
    /\ shown \in Status /\ lastBeat \in 0 .. Longest + 1 /\ watchdog \in 0 .. Every
    /\ liveAge \in 0 .. Longest + 1 /\ calm \in 0 .. Longest + 1

NewBeat == [carries |-> "nothing", age |-> 0, phase |-> Every]

Init ==
    /\ leader = Nobody /\ feed = "dialing" /\ view = "stale" /\ beat = NewBeat
    /\ up = TRUE /\ air = {}
    /\ shown = "stale" /\ lastBeat = 0 /\ watchdog = 0
    /\ liveAge = Longest + 1 /\ calm = 0

Sent(kind, status, age) == [kind |-> kind, status |-> status, age |-> age]

----------------------------------------------------------------------------
(* The lease, as SingleConsumer promises it. *)

Lease == INSTANCE SingleConsumer WITH consumer <- leader

\* Mutant of FirstView: the view outlives the lease.
LastView == view

FirstView == "stale"

\* hold: a new leaderView, and goroutines of its own.
TakeLease(p) ==
    /\ Lease!Start(p)
    /\ view' = FirstView
    /\ UNCHANGED <<feed, beat, up, air, following, history>>

\* The end of hold cancels what publishes with it: the last status stays unsaid.
LoseLease ==
    /\ Lease!Stop
    /\ feed' = "dialing" /\ beat' = NewBeat /\ calm' = 0
    /\ UNCHANGED <<view, up, air, following, liveAge>>

----------------------------------------------------------------------------
(* consume: leaderView.set changes the view under the mutex and publishes after it. *)

Change(status, next) ==
    /\ view' = status /\ feed' = next
    /\ UNCHANGED <<leader, beat, up, air, following, calm>>

Reading == feed \in {"announcing", "reading"}

Dial ==
    /\ leader # Nobody /\ feed = "dialing"
    /\ Change("live", "announcing") /\ liveAge' = 0

Falls == feed = "reading" /\ Change("stale", "reporting") /\ UNCHANGED liveAge

Report ==
    /\ feed \in {"announcing", "reporting"}
    /\ air' = air \cup {Sent("status", view, 0)}
    /\ feed' = IF feed = "announcing" THEN "reading" ELSE "dialing"
    /\ UNCHANGED <<leader, view, beat, up, following, history>>

----------------------------------------------------------------------------
(* beat: the message is made under the mutex, and published after it. *)

BeatDue == beat.phase >= Every

MakeBeat ==
    /\ leader # Nobody /\ beat.carries = "nothing" /\ BeatDue
    /\ beat' = [carries |-> view, age |-> 0, phase |-> 0]
    /\ UNCHANGED <<leader, feed, view, up, air, following, history>>

SendBeat ==
    /\ beat.carries # "nothing"
    /\ air' = air \cup {Sent("heartbeat", beat.carries, beat.age)}
    /\ beat' = [carries |-> "nothing", age |-> 0, phase |-> beat.phase]
    /\ UNCHANGED <<leader, feed, view, up, following, history>>

----------------------------------------------------------------------------
(* follow. *)

\* Mutant of Shows: a heartbeat only proves that the leader lives.
ShowsChanges(m) == IF m.kind = "status" THEN m.status ELSE shown

Shows(m) == m.status

Receive(m) ==
    /\ up /\ m \in air
    /\ air' = air \ {m}
    /\ shown' = Shows(m)
    /\ lastBeat' = IF m.kind = "heartbeat" THEN 0 ELSE lastBeat
    /\ UNCHANGED <<leading, up, watchdog, history>>

\* Mutant of TooLong: the alarm of the first heartbeat that is late.
TooLongSoon == lastBeat > Every

TooLong == lastBeat > Timeout

\* markStale: only what is live.
Watch ==
    /\ watchdog >= Every
    /\ watchdog' = 0
    /\ shown' = IF TooLong THEN "stale" ELSE shown
    /\ UNCHANGED <<leading, up, air, lastBeat, history>>

\* Another process, not subscribed yet: nothing shown, the watchdog armed.
Restart ==
    /\ ~up
    /\ shown' = "stale" /\ lastBeat' = 0 /\ watchdog' = 0
    /\ UNCHANGED <<leading, up, air, history>>

----------------------------------------------------------------------------
(* Redis, and time. *)

Outage == up /\ up' = FALSE /\ calm' = 0 /\ UNCHANGED <<leading, air, following, liveAge>>
Mend == ~up /\ up' = TRUE /\ UNCHANGED <<leading, air, following, history>>

Lose(m) ==
    /\ ~up /\ m \in air
    /\ air' = air \ {m}
    /\ UNCHANGED <<leading, up, following, history>>

Upto(n, limit) == IF n < limit THEN n + 1 ELSE n

\* A goroutine handles its timer, and a publication its delay, before time goes on.
OnTime ==
    /\ leader # Nobody => ~BeatDue /\ (beat.carries # "nothing" => beat.age < Delay)
    /\ watchdog < Every
    /\ \A m \in air : m.age < Delay

Tick ==
    /\ OnTime
    /\ beat' = [carries |-> beat.carries,
                age |-> IF beat.carries = "nothing" THEN 0 ELSE beat.age + 1,
                phase |-> IF leader = Nobody THEN beat.phase ELSE beat.phase + 1]
    /\ air' = {[m EXCEPT !.age = @ + 1] : m \in air}
    /\ lastBeat' = Upto(lastBeat, Longest + 1) /\ watchdog' = watchdog + 1
    /\ liveAge' = IF Reading THEN 0 ELSE Upto(liveAge, Longest + 1)
    /\ calm' = IF up /\ leader # Nobody THEN Upto(calm, Longest + 1) ELSE 0
    /\ UNCHANGED <<leader, feed, view, up, shown>>

----------------------------------------------------------------------------

Feed == Dial \/ Report
Beat == MakeBeat \/ SendBeat
Deliver == \E m \in air : Receive(m) \/ Lose(m)

Next ==
    \/ (\E p \in Process : TakeLease(p)) \/ LoseLease
    \/ Feed \/ Falls \/ Beat \/ Deliver \/ Watch \/ Restart \/ Outage \/ Mend \/ Tick

\* Goroutines run and time passes; nothing makes a dial succeed (upstream.go, consume:
\* the gateway may stay down), a connection fall or Redis come back.
Fairness == WF_vars(Tick) /\ WF_vars(Report) /\ WF_vars(Beat) /\ WF_vars(Deliver) /\ WF_vars(Watch)

Spec == Init /\ [][Next]_vars
FairSpec == Spec /\ Fairness

----------------------------------------------------------------------------
(* Properties. *)

\* "Afficher live sur des chiffres figés serait pire que les dire périmés" (relay.go,
\* follow): whatever is lost, late or out of order, and whoever dies, a subject is not
\* shown live longer than this after the last leader that read it.
LiveIsRecent == shown = "live" => liveAge <= Longest

\* "Trois battements manqués rendent les sujets stale" (hub.go), and nothing less: the
\* watchdog says nothing once one leader has published, and Redis answered, long enough
\* for its first heartbeat to be made and received.
AlarmIsReal == [][Watch /\ shown # shown' => calm <= Every + Delay]_vars

\* A change lost, or overtaken by a heartbeat made before it, is repaired: once the
\* leader's view and Redis settle, every follower ends up showing it (relay.go, beat).
Repaired ==
    \A s \in Status : <>[](up /\ leader # Nobody /\ view = s) => <>[](shown = s)
===============================================================================
