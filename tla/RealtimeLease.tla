---------------------------- MODULE RealtimeLease ----------------------------
(***************************************************************************)
(* The lease that designates the one process consuming the gateway:        *)
(* internal/hub/lease.go (the three Redis scripts) and the lead / hold /   *)
(* renew / release part of internal/hub/relay.go.                          *)
(*                                                                         *)
(* A process is one life of the binary: its holder value is drawn at       *)
(* start-up, so a restart is another process.  Time is discrete and        *)
(* relative: durations elapsed or remaining, advanced together by Tick, so *)
(* no clock grows.  A Redis call is a command on the wire and an answer on *)
(* its way back: the caller may give up before the command is applied, the *)
(* command may be applied late, twice (go-redis retries) or never.         *)
(***************************************************************************)
EXTENDS Naturals

CONSTANTS
    Process,    \* the lives of dashboard instances
    Nobody,     \* not a process
    TTL,        \* leaseTTL (6 s)
    Every,      \* leaseEvery (2 s): attempts, renewals, and the bound of a call
    Lag         \* how late a goroutine may act on a timer or a cancellation

(***************************************************************************)
(* The code has TTL = 3 * Every.  Lag is the only promise asked of the     *)
(* scheduler: pump closes the connection on cancellation by itself         *)
(* (AfterFunc), within less than the interval the local deadline leaves.   *)
(***************************************************************************)
ASSUME TimingAssumption ==
    /\ Nobody \notin Process
    /\ TTL \in Nat /\ Every \in Nat /\ Lag \in Nat
    /\ Lag < Every /\ 2 * Every <= TTL

\* Mutant of Margin: the holder counts on the whole lease.
NoMargin == TTL

Margin == TTL - Every   \* the local deadline, counted from the last ask
Empty == TTL            \* the `renewed` channel holds no instant

VARIABLES
    lease,      \* the Redis key: its value and the time before it expires
    wire,       \* wire[p]: commands of p that Redis may still apply
    pc,         \* where p's lead loop is
    cancelled,  \* p's context is cancelled (SIGTERM)
    call,       \* p's Redis call: script, answer, time since `asked`
    ticker,     \* p's attempt or renewal ticker: phase, and a tick buffered
    upstream,   \* p's connections to the gateway are open
    heldFor,    \* time since the ask p's local deadline counts from
    renewed,    \* the one-slot channel: time since that renewal was asked
    lost        \* the `lost` channel is closed

proc == <<pc, cancelled, call, ticker, upstream, heldFor, renewed, lost>>
vars == <<lease, wire, proc>>

Scripts == {"acquire", "renew", "release"}
PCs == {"new", "waiting", "acquiring", "holding", "stopping", "releasing", "stopped"}
Idle == [op |-> "none", answer |-> "none", age |-> 0]
Calls == [op : Scripts \cup {"none"}, answer : {"none", "granted", "refused"}, age : 0 .. Every + Lag]
Tickers == [phase : 0 .. Every - 1, due : BOOLEAN]
NewTicker == [phase |-> 0, due |-> FALSE]

TypeOK ==
    /\ lease \in [holder : Process \cup {Nobody}, left : 0 .. TTL]
    /\ wire \in [Process -> SUBSET Scripts]
    /\ pc \in [Process -> PCs]
    /\ cancelled \in [Process -> BOOLEAN]
    /\ call \in [Process -> Calls]
    /\ ticker \in [Process -> Tickers]
    /\ upstream \in [Process -> BOOLEAN]
    /\ heldFor \in [Process -> 0 .. Margin + Lag]
    /\ renewed \in [Process -> 0 .. TTL]
    /\ lost \in [Process -> BOOLEAN]

Init ==
    /\ lease = [holder |-> Nobody, left |-> 0]
    /\ wire = [p \in Process |-> {}]
    /\ pc = [p \in Process |-> "new"]
    /\ cancelled = [p \in Process |-> FALSE]
    /\ call = [p \in Process |-> Idle]
    /\ ticker = [p \in Process |-> NewTicker]
    /\ upstream = [p \in Process |-> FALSE]
    /\ heldFor = [p \in Process |-> 0]
    /\ renewed = [p \in Process |-> Empty]
    /\ lost = [p \in Process |-> FALSE]

Up(p) == pc[p] \notin {"new", "stopped"}

----------------------------------------------------------------------------
(* The Redis side: each script compares and acts in one step. *)

Free == lease.holder = Nobody
Owns(p) == lease.holder = p

\* Mutant of Answer: the release script deletes without comparing.
UncheckedRelease(p, op) ==
    IF Owns(p) \/ op = "release" \/ (op = "acquire" /\ Free) THEN "granted" ELSE "refused"

\* Mutant of Answer: SET without NX.
UncheckedAcquire(p, op) ==
    IF Owns(p) \/ op = "acquire" THEN "granted" ELSE "refused"

\* What a script answers, and what it leaves in the key.
Answer(p, op) ==
    IF Owns(p) \/ (op = "acquire" /\ Free) THEN "granted" ELSE "refused"

\* Mutant of Applied: PEXPIRE whoever owns the key.
ExtendsForAnyone(p, op) ==
    IF op = "release" THEN IF Owns(p) THEN [holder |-> Nobody, left |-> 0] ELSE lease
    ELSE IF Free THEN [holder |-> p, left |-> TTL] ELSE [lease EXCEPT !.left = TTL]

Applied(p, op) ==
    IF Answer(p, op) = "refused" THEN lease
    ELSE IF op = "release" THEN [holder |-> Nobody, left |-> 0]
    ELSE [holder |-> p, left |-> TTL]

\* Redis applies a command on the wire; `again` leaves a copy behind, as a
\* retry would.  The answer reaches the caller if it still waits for it.
RedisApplies(p, op, again) ==
    /\ op \in wire[p]
    /\ lease' = Applied(p, op)
    /\ wire' = IF again THEN wire ELSE [wire EXCEPT ![p] = @ \ {op}]
    /\ call' = IF call[p].op = op
               THEN [call EXCEPT ![p].answer = Answer(p, op)] ELSE call
    /\ UNCHANGED <<pc, cancelled, ticker, upstream, heldFor, renewed, lost>>

WireLoses(p, op) ==
    /\ op \in wire[p]
    /\ wire' = [wire EXCEPT ![p] = @ \ {op}]
    /\ UNCHANGED <<lease, proc>>

\* Redis restarts empty, or fails over to a replica that had not the key.
RedisForgets ==
    /\ ~Free
    /\ lease' = [holder |-> Nobody, left |-> 0]
    /\ UNCHANGED <<wire, proc>>

----------------------------------------------------------------------------
(* One call: `asked` is read before the command leaves. *)

Send(p, op) ==
    /\ call' = [call EXCEPT ![p] = [op |-> op, answer |-> "none", age |-> 0]]
    /\ wire' = [wire EXCEPT ![p] = @ \cup {op}]

Hang(p) == call' = [call EXCEPT ![p] = Idle]

\* Mutant of SinceAsked: the instant is read after the call.
SinceAnswered(p) == 0

SinceAsked(p) == call[p].age

Answered(p, op, answer) == call[p].op = op /\ call[p].answer = answer

----------------------------------------------------------------------------
(* lead: asks for the lease at start-up, then at every tick. *)

Run(p) ==
    /\ pc[p] = "new"
    /\ pc' = [pc EXCEPT ![p] = "acquiring"]
    /\ ticker' = [ticker EXCEPT ![p] = NewTicker]
    /\ Send(p, "acquire")
    /\ UNCHANGED <<lease, cancelled, upstream, heldFor, renewed, lost>>

Attempt(p) ==
    /\ pc[p] = "waiting" /\ ~cancelled[p] /\ ticker[p].due
    /\ pc' = [pc EXCEPT ![p] = "acquiring"]
    /\ ticker' = [ticker EXCEPT ![p].due = FALSE]
    /\ Send(p, "acquire")
    /\ UNCHANGED <<lease, cancelled, upstream, heldFor, renewed, lost>>

\* The answer opens hold: its workers start on the context of hold, dead at
\* once when the process is stopping.
AcquireHeld(p) ==
    /\ pc[p] = "acquiring" /\ Answered(p, "acquire", "granted")
    /\ pc' = [pc EXCEPT ![p] = "holding"]
    /\ upstream' = [upstream EXCEPT ![p] = ~cancelled[p]]
    /\ heldFor' = [heldFor EXCEPT ![p] = IF cancelled[p] THEN 0 ELSE SinceAsked(p)]
    /\ ticker' = [ticker EXCEPT ![p] = NewTicker]
    /\ Hang(p)
    /\ UNCHANGED <<lease, wire, cancelled, renewed, lost>>

AcquireRefused(p) ==
    /\ pc[p] = "acquiring" /\ Answered(p, "acquire", "refused")
    /\ pc' = [pc EXCEPT ![p] = "waiting"]
    /\ Hang(p)
    /\ UNCHANGED <<lease, wire, cancelled, ticker, upstream, heldFor, renewed, lost>>

LeadReturns(p) ==
    /\ pc[p] = "waiting" /\ cancelled[p]
    /\ pc' = [pc EXCEPT ![p] = "stopped"]
    /\ ticker' = [ticker EXCEPT ![p] = NewTicker]
    /\ UNCHANGED <<lease, wire, cancelled, call, upstream, heldFor, renewed, lost>>

----------------------------------------------------------------------------
(* renew: the worker that extends the lease while hold runs. *)

AskRenewal(p) ==
    /\ pc[p] = "holding" /\ ~cancelled[p] /\ ~lost[p]
    /\ call[p].op = "none" /\ ticker[p].due
    /\ ticker' = [ticker EXCEPT ![p].due = FALSE]
    /\ Send(p, "renew")
    /\ UNCHANGED <<lease, pc, cancelled, upstream, heldFor, renewed, lost>>

RenewalGranted(p) ==
    /\ Answered(p, "renew", "granted")
    /\ renewed' = [renewed EXCEPT ![p] = IF pc[p] = "holding" THEN SinceAsked(p) ELSE Empty]
    /\ Hang(p)
    /\ UNCHANGED <<lease, wire, pc, cancelled, ticker, upstream, heldFor, lost>>

\* Mutant of CloseLost: a refusal is taken for a network error.
KeepLost(p) == UNCHANGED lost

CloseLost(p) == lost' = [lost EXCEPT ![p] = TRUE]

RenewalRefused(p) ==
    /\ Answered(p, "renew", "refused")
    /\ CloseLost(p)
    /\ Hang(p)
    /\ UNCHANGED <<lease, wire, pc, cancelled, ticker, upstream, heldFor, renewed>>

\* Mutant of AfterFailure: lead does not come back from a failed attempt.
AttemptsOnce(at) == IF at = "releasing" THEN "stopped" ELSE at

\* A failed acquire waits for the next tick, a failed renewal is not a loss, a
\* failed release ends the process all the same.
AfterFailure(at) ==
    CASE at = "acquiring" -> "waiting"
      [] at = "releasing" -> "stopped"
      [] OTHER -> at

\* A network error, or the deadline of the call: an answer on its way is lost.
CallFails(p) ==
    /\ call[p].op # "none"
    /\ pc' = [pc EXCEPT ![p] = AfterFailure(@)]
    /\ Hang(p)
    /\ UNCHANGED <<lease, wire, cancelled, ticker, upstream, heldFor, renewed, lost>>

----------------------------------------------------------------------------
(* hold: the local deadline decides, whatever Redis answers. *)

TakeRenewed(p) ==
    /\ pc[p] = "holding" /\ ~cancelled[p] /\ renewed[p] # Empty
    /\ heldFor' = [heldFor EXCEPT ![p] = renewed[p]]
    /\ renewed' = [renewed EXCEPT ![p] = Empty]
    /\ UNCHANGED <<lease, wire, pc, cancelled, call, ticker, upstream, lost>>

HoldEnds(p) ==
    /\ pc[p] = "holding"
    /\ cancelled[p] \/ lost[p] \/ heldFor[p] >= Margin
    /\ pc' = [pc EXCEPT ![p] = "stopping"]
    /\ renewed' = [renewed EXCEPT ![p] = Empty]
    /\ ticker' = [ticker EXCEPT ![p] = NewTicker]
    /\ UNCHANGED <<lease, wire, cancelled, call, upstream, heldFor, lost>>

\* context.AfterFunc in pump: the connections close on cancellation.
CloseUpstream(p) ==
    /\ upstream[p] /\ (pc[p] = "stopping" \/ cancelled[p])
    /\ upstream' = [upstream EXCEPT ![p] = FALSE]
    /\ heldFor' = [heldFor EXCEPT ![p] = 0]
    /\ UNCHANGED <<lease, wire, pc, cancelled, call, ticker, renewed, lost>>

\* workers.Wait, then the release of a clean stop.  The attempt ticker of lead
\* ran all along: its phase is anything.
HoldReturns(p, t) ==
    /\ pc[p] = "stopping" /\ ~upstream[p] /\ call[p].op = "none"
    /\ lost' = [lost EXCEPT ![p] = FALSE]
    /\ \/ /\ cancelled[p]
          /\ pc' = [pc EXCEPT ![p] = "releasing"]
          /\ Send(p, "release")
          /\ UNCHANGED ticker
       \/ /\ ~cancelled[p]
          /\ pc' = [pc EXCEPT ![p] = "waiting"]
          /\ ticker' = [ticker EXCEPT ![p] = t]
          /\ UNCHANGED <<call, wire>>
    /\ UNCHANGED <<lease, cancelled, upstream, heldFor, renewed>>

ReleaseDone(p) ==
    /\ pc[p] = "releasing" /\ call[p].op = "release" /\ call[p].answer # "none"
    /\ pc' = [pc EXCEPT ![p] = "stopped"]
    /\ Hang(p)
    /\ UNCHANGED <<lease, wire, cancelled, ticker, upstream, heldFor, renewed, lost>>

----------------------------------------------------------------------------
(* Stopping and dying. *)

Cancel(p) ==
    /\ Up(p) /\ ~cancelled[p]
    /\ cancelled' = [cancelled EXCEPT ![p] = TRUE]
    /\ UNCHANGED <<lease, wire, pc, call, ticker, upstream, heldFor, renewed, lost>>

\* SIGKILL: the connections fall with the process, its commands may still land.
Kill(p) ==
    /\ Up(p)
    /\ pc' = [pc EXCEPT ![p] = "stopped"]
    /\ upstream' = [upstream EXCEPT ![p] = FALSE]
    /\ ticker' = [ticker EXCEPT ![p] = NewTicker]
    /\ heldFor' = [heldFor EXCEPT ![p] = 0]
    /\ renewed' = [renewed EXCEPT ![p] = Empty]
    /\ lost' = [lost EXCEPT ![p] = FALSE]
    /\ Hang(p)
    /\ UNCHANGED <<lease, wire, cancelled>>

----------------------------------------------------------------------------
(* Time. *)

\* Nobody acts on a timer more than Lag late.
OnTime(p) ==
    /\ upstream[p] => heldFor[p] < Margin + Lag
    /\ call[p].op # "none" => call[p].age < Every + Lag
    /\ ~(pc[p] = "waiting" /\ ticker[p].due /\ ticker[p].phase >= Lag)
    /\ ~(pc[p] = "holding" /\ renewed[p] # Empty /\ renewed[p] >= Margin + Lag)

Later(n, limit) == IF n < limit THEN n + 1 ELSE n

TickTicker(t) ==
    IF t.phase + 1 < Every THEN [t EXCEPT !.phase = @ + 1]
    ELSE [phase |-> 0, due |-> TRUE]

Tick ==
    /\ \A p \in Process : OnTime(p)
    /\ lease' = IF lease.left <= 1 THEN [holder |-> Nobody, left |-> 0]
                ELSE [lease EXCEPT !.left = @ - 1]
    /\ call' = [p \in Process |->
                 IF call[p].op = "none" THEN call[p]
                 ELSE [call[p] EXCEPT !.age = @ + 1]]
    /\ ticker' = [p \in Process |->
                   IF pc[p] \in {"waiting", "acquiring", "holding"}
                   THEN TickTicker(ticker[p]) ELSE ticker[p]]
    /\ heldFor' = [p \in Process |-> IF upstream[p] THEN heldFor[p] + 1 ELSE heldFor[p]]
    /\ renewed' = [p \in Process |-> Later(renewed[p], Empty)]
    /\ UNCHANGED <<wire, pc, cancelled, upstream, lost>>

----------------------------------------------------------------------------
Lead(p) == Run(p) \/ Attempt(p) \/ AcquireHeld(p) \/ AcquireRefused(p) \/ LeadReturns(p)
Renew(p) == AskRenewal(p) \/ RenewalGranted(p) \/ RenewalRefused(p)
Hold(p) ==
    \/ TakeRenewed(p) \/ HoldEnds(p) \/ CloseUpstream(p) \/ ReleaseDone(p)
    \/ \E t \in Tickers : HoldReturns(p, t)
Code(p) == Lead(p) \/ Renew(p) \/ Hold(p)

Network(p) ==
    \/ CallFails(p)
    \/ \E op \in Scripts : WireLoses(p, op)
    \/ \E op \in Scripts, again \in BOOLEAN : RedisApplies(p, op, again)

Next ==
    \/ \E p \in Process : Code(p) \/ Network(p) \/ Cancel(p) \/ Kill(p)
    \/ Tick

Spec == Init /\ [][Next]_vars

(***************************************************************************)
(* Fairness: goroutines run, time passes, Redis works through its input,   *)
(* and a call that can no longer be answered ends on its deadline.         *)
(***************************************************************************)
Served(p) == \/ call[p].op \in wire[p] \cup {"none"}
             \/ call[p].answer # "none"

Fairness ==
    /\ WF_vars(Tick)
    /\ \A p \in Process :
        /\ WF_vars(Attempt(p)) /\ WF_vars(AcquireHeld(p)) /\ WF_vars(AcquireRefused(p))
        /\ WF_vars(LeadReturns(p)) /\ WF_vars(Renew(p)) /\ WF_vars(Hold(p))
        /\ WF_vars(~Served(p) /\ CallFails(p))
        /\ \A op \in Scripts : WF_vars(RedisApplies(p, op, FALSE))

FairSpec == Spec /\ Fairness

----------------------------------------------------------------------------
(* Properties. *)

\* Two processes never read the gateway at the same time (relay.go, hold: "un
\* appel Redis bloqué ne peut donc plus laisser deux instances").
AtMostOneConsumer ==
    \A p, q \in Process : upstream[p] /\ upstream[q] => p = q

\* A process that reads the gateway still owns the key in Redis, at least as
\* long as its local deadline believes: the lease never expires under it.
ConsumerOwnsLease ==
    \A p \in Process : upstream[p] => Owns(p) /\ lease.left + heldFor[p] >= TTL

\* The key changes hands only by expiry or by its owner's own release: a late
\* renewal or release never touches a successor's lease (lease.go scripts).
LeaseNeverStolen ==
    [][\A p \in Process : Owns(p) /\ ~Owns(p)' =>
         /\ lease'.holder = Nobody
         /\ lease.left <= 1 \/ "release" \in wire[p]]_vars

\* Once Redis answers again the calls it is sent, each once, and one process stays up,
\* the gateway is read again and again, whoever died with the lease.
SettledStep ==
    \A p \in Process : Up(p)' /\ Served(p) =>
        /\ Served(p)'
        /\ call[p].op # "none" /\ call[p].answer = "none" => call'[p].op # "none"
        /\ call'[p].answer # "none" => call[p].op \notin wire'[p]
        /\ Answered(p, "acquire", "granted") => pc'[p] \in {"acquiring", "holding"}

RedisSettles == <>[][SettledStep]_vars

Takeover ==
    RedisSettles /\ (\E p \in Process : <>[](Up(p) /\ ~cancelled[p]))
        => []<>(\E p \in Process : upstream[p])

\* The gateway sees what SingleConsumer promises.
consumer == IF \E p \in Process : upstream[p]
            THEN CHOOSE p \in Process : upstream[p] ELSE Nobody

SC == INSTANCE SingleConsumer WITH Process <- Process, Nobody <- Nobody, consumer <- consumer
SCSpec == SC!Spec
===============================================================================
