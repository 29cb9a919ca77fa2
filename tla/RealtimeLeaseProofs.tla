------------------------- MODULE RealtimeLeaseProofs -------------------------
(***************************************************************************)
(* Proofs about the lease, for every set of processes and every TTL, Every *)
(* and Lag that TimingAssumption allows.                                   *)
(*                                                                         *)
(* At most one process reads the gateway.  AtMostOneConsumer is not        *)
(* inductive: what keeps a second reader out is that whoever believes in   *)
(* the lease (a reader, a granted answer on its way back, an instant in    *)
(* the `renewed` channel) counts from an instant that is not later than    *)
(* the one Redis counts from (LeaseInv).  When Redis may lose the key, it  *)
(* counts from an ask made before the loss (LossyInv), so that exclusion   *)
(* comes back with the local deadline.                                     *)
(*                                                                         *)
(* Over a Redis that answers at once: while nobody reads, either the key   *)
(* runs down or a waiting process comes to its tick (Vacancy); while two   *)
(* read, one of them has lost the key and comes to its renewal (Doubling). *)
(***************************************************************************)
EXTENDS LeaseTiming, LossyLease, TLAPS

KeyInv == lease.holder = Nobody <=> lease.left = 0

\* What p's connections, call, channel and commands say of the place it stands at.
Places(p) ==
    /\ upstream[p] => pc[p] \in {"holding", "stopping"}
    /\ call[p].op = "acquire" => pc[p] = "acquiring"
    /\ call[p].op = "renew" => pc[p] \in {"holding", "stopping"}
    /\ call[p].op = "release" => pc[p] = "releasing"
    /\ renewed[p] # Empty => pc[p] = "holding" /\ renewed[p] <= Margin + Lag
    /\ "release" \in wire[p] => pc[p] \in {"releasing", "stopped"}

LeaseBase == TypeOK /\ KeyInv /\ \A p \in Process : Places(p)

\* An answer on its way to p, which p will count on.
Granted(p) == call[p].op \in {"acquire", "renew"} /\ call[p].answer = "granted"

\* p owns the key for at least TTL minus the age of the ask it counts from.
Covered(p, age) == Owns(p) /\ lease.left + age >= TTL

\* What p reads on, or is about to, is an ask that its key covers.
Covers(p) ==
    /\ upstream[p] => Covered(p, heldFor[p])
    /\ Granted(p) => Covered(p, call[p].age)
    /\ renewed[p] # Empty => Covered(p, renewed[p])

LeaseInv == LeaseBase /\ \A p \in Process : Covers(p)

\* The initial states satisfy the invariant.
LEMMA LeaseInvInit == Init => LeaseInv
  BY TimingAssumption, SMT
  DEF Init, LeaseInv, LeaseBase, TypeOK, KeyInv, Places, Covers, Granted, Scripts, PCs, Idle, Calls,
      Tickers, NewTicker, Margin, Empty

\* A call that leaves has the type of a call, and its command that of a script.
LEMMA SendKeepsTypes ==
  ASSUME TypeOK, NEW p \in Process, NEW op \in Scripts, Send(p, op)
  PROVE  call' \in [Process -> Calls] /\ wire' \in [Process -> SUBSET Scripts]
<1>1. 0 \in 0 .. Every + Lag
  BY TimingAssumption, SMT
<1>2. [op |-> op, answer |-> "none", age |-> 0] \in Calls
  BY <1>1, Zenon DEF Calls
<1> QED
  BY <1>2 DEF TypeOK, Send

\* A tick taken from its channel, or a tick of the clock, leaves a ticker.
LEMMA TickerStays ==
  ASSUME NEW t \in Tickers
  PROVE  [t EXCEPT !.due = FALSE] \in Tickers /\ TickTicker(t) \in Tickers
<1>1. [t EXCEPT !.due = FALSE] \in Tickers
  BY Zenon DEF Tickers
<1>2. CASE t.phase + 1 < Every
  <2>1. t.phase \in 0 .. Every - 1
    BY Zenon DEF Tickers
  <2>2. t.phase + 1 \in 0 .. Every - 1
    BY <1>2, <2>1, TimingAssumption, SMT
  <2>3. [t EXCEPT !.phase = @ + 1] \in Tickers
    BY <2>2, Zenon DEF Tickers
  <2> QED
    BY <1>1, <1>2, <2>3 DEF TickTicker
<1>3. CASE ~(t.phase + 1 < Every)
  <2>1. 0 \in 0 .. Every - 1
    BY TimingAssumption, SMT
  <2>2. [phase |-> 0, due |-> TRUE] \in Tickers
    BY <2>1, Zenon DEF Tickers
  <2> QED
    BY <1>1, <1>3, <2>2 DEF TickTicker
<1> QED
  BY <1>2, <1>3

\* Every step of one process, of its calls and of the clock keeps the types and the places.
LEMMA LeaseBaseStep == LeaseBase /\ [Next]_vars => LeaseBase'
<1> SUFFICES ASSUME LeaseBase, [Next]_vars PROVE LeaseBase'
  OBVIOUS
<1> USE TimingAssumption
<1> USE DEF LeaseBase, TypeOK, KeyInv, Places, Owns, Scripts, PCs, Idle, Calls, Tickers, NewTicker, Margin, Empty,
            Send, Hang, SinceAsked, Answered, Up
<1>1. ASSUME NEW p \in Process, Run(p) PROVE LeaseBase'
  BY <1>1, SMTT(30) DEF Run
<1>2. ASSUME NEW p \in Process, Attempt(p) PROVE LeaseBase'
  <2>1. TypeOK' /\ KeyInv'
    <3> HIDE DEF Calls, Tickers, Scripts
    <3>1. ticker' \in [Process -> Tickers]
      BY <1>2, TickerStays DEF Attempt
    <3>2. call' \in [Process -> Calls] /\ wire' \in [Process -> SUBSET Scripts]
      <4>1. "acquire" \in Scripts
        BY DEF Scripts
      <4> QED
        BY <1>2, <4>1, SendKeepsTypes DEF Attempt
    <3> QED
      BY <1>2, <3>1, <3>2 DEF Attempt
  <2>2. ASSUME NEW q \in Process PROVE Places(q)'
    BY <1>2, SMTT(30) DEF Attempt
  <2> QED
    BY <2>1, <2>2
<1>3. ASSUME NEW p \in Process, AcquireHeld(p) PROVE LeaseBase'
  <2>1. TypeOK' /\ KeyInv'
    BY <1>3, SMTT(30) DEF AcquireHeld
  <2>2. ASSUME NEW q \in Process PROVE Places(q)'
    BY <1>3, SMTT(30) DEF AcquireHeld
  <2> QED
    BY <2>1, <2>2
<1>4. ASSUME NEW p \in Process, AcquireRefused(p) PROVE LeaseBase'
  BY <1>4, SMTT(30) DEF AcquireRefused
<1>5. ASSUME NEW p \in Process, LeadReturns(p) PROVE LeaseBase'
  BY <1>5, SMTT(30) DEF LeadReturns
<1>6. ASSUME NEW p \in Process, AskRenewal(p) PROVE LeaseBase'
  <2>1. TypeOK' /\ KeyInv'
    <3> HIDE DEF Calls, Tickers, Scripts
    <3>1. ticker' \in [Process -> Tickers]
      BY <1>6, TickerStays DEF AskRenewal
    <3>2. call' \in [Process -> Calls] /\ wire' \in [Process -> SUBSET Scripts]
      <4>1. "renew" \in Scripts
        BY DEF Scripts
      <4> QED
        BY <1>6, <4>1, SendKeepsTypes DEF AskRenewal
    <3> QED
      BY <1>6, <3>1, <3>2 DEF AskRenewal
  <2>2. ASSUME NEW q \in Process PROVE Places(q)'
    BY <1>6, SMTT(30) DEF AskRenewal
  <2> QED
    BY <2>1, <2>2
<1>7. ASSUME NEW p \in Process, RenewalGranted(p) PROVE LeaseBase'
  BY <1>7, SMTT(30) DEF RenewalGranted
<1>8. ASSUME NEW p \in Process, RenewalRefused(p) PROVE LeaseBase'
  BY <1>8, SMTT(30) DEF RenewalRefused, CloseLost
<1>9. ASSUME NEW p \in Process, CallFails(p) PROVE LeaseBase'
  BY <1>9, SMTT(30) DEF CallFails, AfterFailure
<1>10. ASSUME NEW p \in Process, TakeRenewed(p) PROVE LeaseBase'
  BY <1>10, SMTT(30) DEF TakeRenewed
<1>11. ASSUME NEW p \in Process, HoldEnds(p) PROVE LeaseBase'
  BY <1>11, SMTT(30) DEF HoldEnds
<1>12. ASSUME NEW p \in Process, CloseUpstream(p) PROVE LeaseBase'
  BY <1>12, SMTT(30) DEF CloseUpstream
<1>13. ASSUME NEW p \in Process, ReleaseDone(p) PROVE LeaseBase'
  BY <1>13, SMTT(30) DEF ReleaseDone
<1>14. ASSUME NEW p \in Process, Cancel(p) PROVE LeaseBase'
  BY <1>14, SMTT(30) DEF Cancel
<1>15. ASSUME NEW p \in Process, Kill(p) PROVE LeaseBase'
  BY <1>15, SMTT(30) DEF Kill
<1>16. ASSUME NEW p \in Process, NEW t \in Tickers, HoldReturns(p, t) PROVE LeaseBase'
  <2>1. TypeOK' /\ KeyInv'
    <3> HIDE DEF Calls, Tickers, Scripts
    <3>1. ticker' \in [Process -> Tickers]
      BY <1>16 DEF HoldReturns
    <3>2. call' \in [Process -> Calls] /\ wire' \in [Process -> SUBSET Scripts]
      <4>1. "release" \in Scripts
        BY DEF Scripts
      <4> HIDE DEF Send
      <4>2. CASE Send(p, "release")
        BY <4>1, <4>2, SendKeepsTypes
      <4>3. CASE UNCHANGED <<call, wire>>
        BY <4>3
      <4> QED
        BY <1>16, <4>2, <4>3 DEF HoldReturns
    <3>3. pc' \in [Process -> PCs]
      BY <1>16 DEF HoldReturns
    <3>4. lost' \in [Process -> BOOLEAN]
      BY <1>16 DEF HoldReturns
    <3> HIDE DEF PCs
    <3> QED
      BY <1>16, <3>1, <3>2, <3>3, <3>4 DEF HoldReturns
  <2>2. ASSUME NEW q \in Process PROVE Places(q)'
    BY <1>16, SMTT(30) DEF HoldReturns
  <2> QED
    BY <2>1, <2>2
<1>17. ASSUME NEW p \in Process, NEW op \in Scripts, WireLoses(p, op) PROVE LeaseBase'
  BY <1>17, SMTT(30) DEF WireLoses, proc
<1>18. ASSUME NEW p \in Process, NEW op \in Scripts, NEW again \in BOOLEAN,
              RedisApplies(p, op, again) PROVE LeaseBase'
  BY <1>18, SMTT(30) DEF RedisApplies, Applied, Answer, Free
<1>19. CASE Tick
  <2>1. TypeOK' /\ KeyInv'
    <3>1. ticker' \in [Process -> Tickers]
      <4> HIDE DEF Tickers
      <4> QED
        BY <1>19, TickerStays DEF Tick
    <3>2. call' \in [Process -> Calls]
      <4>1. ASSUME NEW q \in Process, call[q].op # "none" PROVE [call[q] EXCEPT !.age = @ + 1] \in Calls
        <5>1. call[q].age \in 0 .. Every + Lag /\ call[q].age < Every + Lag
          BY <1>19, <4>1 DEF Tick, OnTime
        <5>2. call[q].age + 1 \in 0 .. Every + Lag
          BY <5>1, SMT
        <5>3. call[q] \in Calls
          OBVIOUS
        <5> HIDE DEF LeaseBase
        <5> QED
          BY <5>2, <5>3
      <4> HIDE DEF Calls
      <4> QED
        BY <1>19, <4>1 DEF Tick
    <3>3. lease' \in [holder : Process \cup {Nobody}, left : 0 .. TTL] /\ KeyInv'
      BY <1>19, SMTT(30) DEF Tick
    <3>4. heldFor' \in [Process -> 0 .. Margin + Lag] /\ renewed' \in [Process -> 0 .. TTL]
      BY <1>19, SMTT(30) DEF Tick, OnTime, Later
    <3> QED
      BY <1>19, <3>1, <3>2, <3>3, <3>4 DEF Tick
  <2>2. ASSUME NEW q \in Process PROVE Places(q)'
    BY <1>19, SMTT(30) DEF Tick, OnTime, Later
  <2> QED
    BY <2>1, <2>2
<1>20. CASE UNCHANGED vars
  BY <1>20 DEF vars, proc
<1> HIDE DEF LeaseBase, TypeOK, KeyInv, Places, Owns, Scripts, PCs, Idle, Calls, Tickers, NewTicker, Margin, Empty,
            Send, Hang, SinceAsked, Answered, Up
<1> QED
  BY <1>1, <1>2, <1>3, <1>4, <1>5, <1>6, <1>7, <1>8, <1>9, <1>10, <1>11, <1>12, <1>13, <1>14, <1>15, <1>16, <1>17, <1>18, <1>19, <1>20
  DEF Next, Code, Lead, Renew, Hold, Network

\* Nor does any of them leave a process counting from an ask later than the one that Redis
\* counts from.
LEMMA CoversStep == LeaseInv /\ [Next]_vars => \A p \in Process : Covers(p)'
<1> SUFFICES ASSUME LeaseBase, \A p \in Process : Covers(p), [Next]_vars, NEW q \in Process PROVE Covers(q)'
  BY DEF LeaseInv
<1> USE TimingAssumption
<1> USE DEF LeaseBase, TypeOK, KeyInv, Places, Covers, Covered, Granted, Owns, Scripts, PCs, Idle, Calls,
            Margin, Empty, Send, Hang, SinceAsked, Answered
<1>1. ASSUME NEW p \in Process, Run(p) PROVE Covers(q)'
  BY <1>1, SMTT(30) DEF Run
<1>2. ASSUME NEW p \in Process, Attempt(p) PROVE Covers(q)'
  BY <1>2, SMTT(30) DEF Attempt
<1>3. ASSUME NEW p \in Process, AcquireHeld(p) PROVE Covers(q)'
  BY <1>3, SMTT(30) DEF AcquireHeld
<1>4. ASSUME NEW p \in Process, AcquireRefused(p) PROVE Covers(q)'
  BY <1>4, SMTT(30) DEF AcquireRefused
<1>5. ASSUME NEW p \in Process, LeadReturns(p) PROVE Covers(q)'
  BY <1>5, SMTT(30) DEF LeadReturns
<1>6. ASSUME NEW p \in Process, AskRenewal(p) PROVE Covers(q)'
  BY <1>6, SMTT(30) DEF AskRenewal
<1>7. ASSUME NEW p \in Process, RenewalGranted(p) PROVE Covers(q)'
  BY <1>7, SMTT(30) DEF RenewalGranted
<1>8. ASSUME NEW p \in Process, RenewalRefused(p) PROVE Covers(q)'
  BY <1>8, SMTT(30) DEF RenewalRefused, CloseLost
<1>9. ASSUME NEW p \in Process, CallFails(p) PROVE Covers(q)'
  BY <1>9, SMTT(30) DEF CallFails, AfterFailure
<1>10. ASSUME NEW p \in Process, TakeRenewed(p) PROVE Covers(q)'
  BY <1>10, SMTT(30) DEF TakeRenewed
<1>11. ASSUME NEW p \in Process, HoldEnds(p) PROVE Covers(q)'
  BY <1>11, SMTT(30) DEF HoldEnds
<1>12. ASSUME NEW p \in Process, CloseUpstream(p) PROVE Covers(q)'
  BY <1>12, SMTT(30) DEF CloseUpstream
<1>13. ASSUME NEW p \in Process, ReleaseDone(p) PROVE Covers(q)'
  BY <1>13, SMTT(30) DEF ReleaseDone
<1>14. ASSUME NEW p \in Process, Cancel(p) PROVE Covers(q)'
  BY <1>14, SMTT(30) DEF Cancel
<1>15. ASSUME NEW p \in Process, Kill(p) PROVE Covers(q)'
  BY <1>15, SMTT(30) DEF Kill
<1>16. ASSUME NEW p \in Process, NEW t \in Tickers, HoldReturns(p, t) PROVE Covers(q)'
  BY <1>16, SMTT(30) DEF HoldReturns
<1>17. ASSUME NEW p \in Process, NEW op \in Scripts, WireLoses(p, op) PROVE Covers(q)'
  BY <1>17, SMTT(30) DEF WireLoses, proc
<1>18. ASSUME NEW p \in Process, NEW op \in Scripts, NEW again \in BOOLEAN,
              RedisApplies(p, op, again) PROVE Covers(q)'
  BY <1>18, SMTT(30) DEF RedisApplies, Applied, Answer, Free
<1>19. CASE Tick
  BY <1>19, SMTT(30) DEF Tick, OnTime, Later
<1>20. CASE UNCHANGED vars
  BY <1>20 DEF vars, proc
<1> HIDE DEF LeaseBase, TypeOK, KeyInv, Places, Covers, Covered, Granted, Owns, Scripts, PCs, Idle, Calls,
            Margin, Empty, Send, Hang, SinceAsked, Answered
<1> QED
  BY <1>1, <1>2, <1>3, <1>4, <1>5, <1>6, <1>7, <1>8, <1>9, <1>10, <1>11, <1>12, <1>13, <1>14, <1>15, <1>16, <1>17, <1>18, <1>19, <1>20
  DEF Next, Code, Lead, Renew, Hold, Network

\* The invariant holds in every reachable state.
LEMMA LeaseInvariant == Spec => []LeaseInv
<1>1. LeaseInv /\ [Next]_vars => LeaseInv'
  BY LeaseBaseStep, CoversStep DEF LeaseInv
<1> QED
  BY LeaseInvInit, <1>1, PTL DEF Spec

\* Type correctness: no duration leaves its bounds, so the deadlines are met.
THEOREM TypeCorrect == Spec => []TypeOK
<1>1. LeaseInv => TypeOK
  BY DEF LeaseInv, LeaseBase
<1> QED
  BY LeaseInvariant, <1>1, PTL

\* What the invariant says of a reader.
LEMMA ReaderOwns == LeaseInv => ConsumerOwnsLease
  BY DEF LeaseInv, Covers, Covered, ConsumerOwnsLease

\* The lease never expires, in Redis, under a process that reads the gateway.
THEOREM ReadersOwnTheLease == Spec => []ConsumerOwnsLease
  BY LeaseInvariant, ReaderOwns, PTL

\* Two owners would be one, so two readers are one.
LEMMA OneReader == ConsumerOwnsLease => AtMostOneConsumer
  BY DEF ConsumerOwnsLease, AtMostOneConsumer, Owns

\* Whatever Redis calls do, two processes never read the gateway together.
THEOREM MutualExclusion == Spec => []AtMostOneConsumer
  BY ReadersOwnTheLease, OneReader, PTL

\* The three scripts leave a successor's key alone.
LEMMA KeyStep ==
  ASSUME LeaseInv, [Next]_vars, NEW p \in Process, Owns(p), ~Owns(p)'
  PROVE  /\ lease'.holder = Nobody
         /\ lease.left <= 1 \/ "release" \in wire[p]
<1>1. CASE Tick
  BY <1>1, SMT DEF LeaseInv, LeaseBase, TypeOK, Owns, Tick
<1>2. ASSUME NEW q \in Process, NEW op \in Scripts, NEW again \in BOOLEAN,
             RedisApplies(q, op, again)
      PROVE  lease'.holder = Nobody /\ "release" \in wire[p]
  BY <1>2, TimingAssumption, SMT
  DEF RedisApplies, Applied, Answer, Owns, Free, Scripts
<1>3. CASE UNCHANGED lease
  BY <1>3 DEF Owns
<1> QED
  BY <1>1, <1>2, <1>3
  DEF Next, Code, Lead, Renew, Hold, Network, Run, Attempt, AcquireHeld, AcquireRefused,
      LeadReturns, AskRenewal, RenewalGranted, RenewalRefused, CallFails, TakeRenewed,
      HoldEnds, CloseUpstream, HoldReturns, ReleaseDone, Cancel, Kill, WireLoses, vars

\* The key changes hands only by expiry or by its owner's own release.
THEOREM NeverStolen == Spec => LeaseNeverStolen
<1>1. LeaseInv /\ [Next]_vars =>
        [\A p \in Process : Owns(p) /\ ~Owns(p)' =>
           /\ lease'.holder = Nobody
           /\ lease.left <= 1 \/ "release" \in wire[p]]_vars
  BY KeyStep
<1> QED
  BY LeaseInvariant, <1>1, PTL DEF Spec, LeaseNeverStolen

\* A step changes the connections of one process at most.
LEMMA UpstreamStep ==
  ASSUME LeaseInv, [Next]_vars
  PROVE  \/ upstream' = upstream
         \/ \E p \in Process, b \in BOOLEAN : upstream' = [upstream EXCEPT ![p] = b]
  BY ZenonT(40) DEF LeaseInv, LeaseBase, TypeOK, Next, Code, Lead, Renew, Hold, Network, Run, Attempt, AcquireHeld,
         AcquireRefused, LeadReturns, AskRenewal, RenewalGranted, RenewalRefused, CallFails,
         TakeRenewed, HoldEnds, CloseUpstream, HoldReturns, ReleaseDone, Cancel, Kill, Tick,
         WireLoses, RedisApplies, vars, proc

\* The lease implements SingleConsumer: a process starts reading only when
\* nobody reads, and the reading never passes from one to another in a step.
THEOREM Refinement == Spec => SCSpec
<1>1. Init => SC!Init
  BY DEF Init, SC!Init, consumer
<1>2. ASSUME LeaseInv, LeaseInv', [Next]_vars PROVE [SC!Next]_consumer
  <2>1. AtMostOneConsumer /\ AtMostOneConsumer'
    <3>1. ConsumerOwnsLease /\ ConsumerOwnsLease'
      BY <1>2 DEF LeaseInv, Covers, Covered, ConsumerOwnsLease
    <3> QED
      BY <3>1 DEF ConsumerOwnsLease, AtMostOneConsumer, Owns
  <2>2. upstream \in [Process -> BOOLEAN] /\ Nobody \notin Process
    BY <1>2, TimingAssumption DEF LeaseInv, LeaseBase, TypeOK
  <2>3. CASE upstream' = upstream
    BY <2>3 DEF consumer
  <2>4. ASSUME NEW p \in Process, NEW b \in BOOLEAN, upstream' = [upstream EXCEPT ![p] = b]
        PROVE  [SC!Next]_consumer
    <3>1. CASE upstream[p] = b
      BY <2>2, <2>4, <3>1 DEF consumer
    <3>2. CASE upstream[p] /\ ~b
      <4>1. consumer = p /\ consumer' = Nobody
        BY <2>1, <2>2, <2>4, <3>2 DEF consumer, AtMostOneConsumer
      <4> QED
        BY <2>2, <4>1 DEF SC!Next, SC!Stop
    <3>3. CASE ~upstream[p] /\ b
      <4>1. consumer = Nobody /\ consumer' = p
        BY <2>1, <2>2, <2>4, <3>3 DEF consumer, AtMostOneConsumer
      <4> QED
        BY <4>1 DEF SC!Next, SC!Start
    <3> QED
      BY <2>2, <3>1, <3>2, <3>3
  <2> QED
    BY <1>2, <2>3, <2>4, UpstreamStep
<1> QED
  BY LeaseInvariant, <1>1, <1>2, PTL DEF Spec, SC!Spec, SCSpec

----------------------------------------------------------------------------
(* How long nobody reads, and how long two do, over a Redis that answers at once. *)

TimedCalls == [op : Scripts \cup {"none"}, answer : {"none", "granted", "refused"}, age : {0}]

TimedTypes ==
    /\ lease \in [holder : Process \cup {Nobody}, left : 0 .. TTL] /\ KeyInv
    /\ wire \in [Process -> SUBSET Scripts]
    /\ pc \in [Process -> PCs]
    /\ cancelled \in [Process -> BOOLEAN]
    /\ call \in [Process -> TimedCalls]
    /\ ticker \in [Process -> Tickers]
    /\ upstream \in [Process -> BOOLEAN]
    /\ heldFor \in [Process -> Nat]
    /\ renewed \in [Process -> Nat]
    /\ lost \in [Process -> BOOLEAN]

\* A command on the wire is the call of a process that lives, and the call is that of the
\* place it stands at.
Wires(p) ==
    /\ pc[p] = "new" => wire[p] = {} /\ ~cancelled[p]
    /\ Up(p) => \A op \in wire[p] : call[p].op = op /\ call[p].answer = "none"
    /\ pc[p] \in {"new", "waiting", "stopped"} => call[p].op = "none"
    /\ pc[p] = "acquiring" <=> call[p].op = "acquire"
    /\ pc[p] = "releasing" <=> call[p].op = "release"
    /\ pc[p] = "releasing" => cancelled[p]
    /\ call[p].op = "renew" => pc[p] \in {"holding", "stopping"}
    /\ upstream[p] => pc[p] \in {"holding", "stopping"}
    /\ pc[p] = "holding" /\ ~cancelled[p] => upstream[p]

TimedBase == TimedTypes /\ \A p \in Process : Wires(p)

\* The initial states satisfy it.
LEMMA TimedBaseInit == Init => TimedBase
  BY TimingAssumption, SMT
  DEF Init, TimedBase, TimedTypes, TimedCalls, Wires, KeyInv, Scripts, PCs, Idle, Tickers, NewTicker, Empty, Up

\* What a call and a ticker are written with.
LEMMA TimedCallsStay ==
  /\ Idle \in TimedCalls /\ NewTicker \in Tickers
  /\ \A op \in Scripts : [op |-> op, answer |-> "none", age |-> 0] \in TimedCalls
  /\ \A c \in TimedCalls, a \in {"granted", "refused"} : [c EXCEPT !.answer = a] \in TimedCalls
  /\ \A c \in TimedCalls : c.age = 0
<1>1. \A c \in TimedCalls, a \in {"granted", "refused"} : [c EXCEPT !.answer = a] \in TimedCalls
  BY SMT DEF TimedCalls
<1>2. \A c \in TimedCalls : c.age = 0
  BY SMT DEF TimedCalls
<1>3. Idle \in TimedCalls /\ \A op \in Scripts : [op |-> op, answer |-> "none", age |-> 0] \in TimedCalls
  BY SMT DEF TimedCalls, Idle, Scripts
<1>4. NewTicker \in Tickers
  BY TimingAssumption, SMT DEF NewTicker, Tickers
<1> QED BY <1>1, <1>2, <1>3, <1>4

\* Every step keeps it.
LEMMA TimedTypesStep == TimedBase /\ [TimedNext]_<<vars, history>> => TimedTypes'
<1> SUFFICES ASSUME TimedBase, [TimedNext]_<<vars, history>> PROVE TimedTypes'
  OBVIOUS
<1> USE TimingAssumption
<1> USE DEF TimedBase, TimedTypes, KeyInv, Owns, Scripts, PCs, Margin, Empty, Send, Hang, SinceAsked, Answered, Up
<1>1. ASSUME NEW p \in Process, Run(p) PROVE TimedTypes'
  BY TimedCallsStay, TickerStays, <1>1, SMTT(30) DEF Run
<1>2. ASSUME NEW p \in Process, Attempt(p) PROVE TimedTypes'
  BY TimedCallsStay, TickerStays, <1>2, SMTT(30) DEF Attempt
<1>3. ASSUME NEW p \in Process, AcquireHeld(p) PROVE TimedTypes'
  <2>1. call[p].age = 0
    BY TimedCallsStay
  <2>2. call' \in [Process -> TimedCalls] /\ ticker' \in [Process -> Tickers]
    BY <1>3, TimedCallsStay DEF AcquireHeld
  <2>3. heldFor' \in [Process -> Nat]
    BY <1>3, <2>1, SMT DEF AcquireHeld
  <2> QED
    BY <1>3, <2>2, <2>3, SMT DEF AcquireHeld
<1>4. ASSUME NEW p \in Process, AcquireRefused(p) PROVE TimedTypes'
  BY TimedCallsStay, TickerStays, <1>4, SMTT(30) DEF AcquireRefused
<1>5. ASSUME NEW p \in Process, LeadReturns(p) PROVE TimedTypes'
  BY TimedCallsStay, TickerStays, <1>5, SMTT(30) DEF LeadReturns
<1>6. ASSUME NEW p \in Process, AskRenewal(p) PROVE TimedTypes'
  BY TimedCallsStay, TickerStays, <1>6, SMTT(30) DEF AskRenewal
<1>7. ASSUME NEW p \in Process, RenewalGranted(p) PROVE TimedTypes'
  <2>1. call[p].age = 0
    BY TimedCallsStay
  <2>2. call' \in [Process -> TimedCalls]
    BY <1>7, TimedCallsStay DEF RenewalGranted
  <2>3. renewed' \in [Process -> Nat]
    BY <1>7, <2>1, SMT DEF RenewalGranted
  <2> QED
    BY <1>7, <2>2, <2>3, SMT DEF RenewalGranted
<1>8. ASSUME NEW p \in Process, RenewalRefused(p) PROVE TimedTypes'
  BY TimedCallsStay, TickerStays, <1>8, SMTT(30) DEF RenewalRefused, CloseLost
<1>9. ASSUME NEW p \in Process, TakeRenewed(p) PROVE TimedTypes'
  BY TimedCallsStay, TickerStays, <1>9, SMTT(30) DEF TakeRenewed
<1>10. ASSUME NEW p \in Process, HoldEnds(p) PROVE TimedTypes'
  BY TimedCallsStay, TickerStays, <1>10, SMTT(30) DEF HoldEnds
<1>11. ASSUME NEW p \in Process, CloseUpstream(p) PROVE TimedTypes'
  BY TimedCallsStay, TickerStays, <1>11, SMTT(30) DEF CloseUpstream
<1>12. ASSUME NEW p \in Process, ReleaseDone(p) PROVE TimedTypes'
  BY TimedCallsStay, TickerStays, <1>12, SMTT(30) DEF ReleaseDone
<1>13. ASSUME NEW p \in Process, Cancel(p) PROVE TimedTypes'
  BY TimedCallsStay, TickerStays, <1>13, SMTT(30) DEF Cancel
<1>14. ASSUME NEW p \in Process, Kill(p) PROVE TimedTypes'
  BY TimedCallsStay, TickerStays, <1>14, SMTT(30) DEF Kill
<1>15. ASSUME NEW p \in Process, NEW t \in Tickers, HoldReturns(p, t) PROVE TimedTypes'
  <2>1. CASE cancelled[p]
    <3>1. call' \in [Process -> TimedCalls] /\ wire' \in [Process -> SUBSET Scripts]
      <4>1. Send(p, "release")
        BY <1>15, <2>1 DEF HoldReturns
      <4> QED
        BY <4>1, TimedCallsStay
    <3>2. pc' \in [Process -> PCs] /\ lost' \in [Process -> BOOLEAN]
      BY <1>15, <2>1 DEF HoldReturns
    <3> HIDE DEF Scripts, PCs, KeyInv
    <3> QED
      BY <1>15, <2>1, <3>1, <3>2 DEF HoldReturns, KeyInv
  <2>2. CASE ~cancelled[p]
    <3>1. pc' \in [Process -> PCs] /\ lost' \in [Process -> BOOLEAN]
      BY <1>15, <2>2 DEF HoldReturns
    <3> HIDE DEF Scripts, PCs
    <3> QED
      BY <1>15, <2>2, <3>1 DEF HoldReturns
  <2> QED
    BY <2>1, <2>2
<1>16. ASSUME NEW p \in Process, NEW op \in Scripts, RedisApplies(p, op, FALSE) PROVE TimedTypes'
  <2>1. Answer(p, op) \in {"granted", "refused"}
    BY DEF Answer
  <2>2. call' \in [Process -> TimedCalls]
    <3>1. CASE call[p].op = op
      BY <1>16, <2>1, <3>1, TimedCallsStay DEF RedisApplies
    <3>2. CASE call[p].op # op
      BY <1>16, <3>2 DEF RedisApplies
    <3> QED
      BY <3>1, <3>2
  <2>3. lease' \in [holder : Process \cup {Nobody}, left : 0 .. TTL] /\ KeyInv'
    BY <1>16, SMTT(30) DEF RedisApplies, Applied, Answer, Free
  <2>4. wire' \in [Process -> SUBSET Scripts]
    BY <1>16 DEF RedisApplies
  <2> HIDE DEF Scripts, PCs, KeyInv
  <2> QED
    BY <1>16, <2>2, <2>3, <2>4 DEF RedisApplies
<1>17. CASE RedisForgets
  BY TimedCallsStay, TickerStays, <1>17, SMTT(30) DEF RedisForgets, proc, Free
<1>18. CASE PromptTick
  <2>1. ticker' \in [Process -> Tickers]
    BY <1>18, TickerStays DEF PromptTick, Tick
  <2>2. call' = call
    BY <1>18 DEF PromptTick, Tick
  <2>3. lease' \in [holder : Process \cup {Nobody}, left : 0 .. TTL] /\ KeyInv'
    BY <1>18, SMTT(30) DEF PromptTick, Tick
  <2>4. heldFor' \in [Process -> Nat] /\ renewed' \in [Process -> Nat]
    BY <1>18, SMTT(30) DEF PromptTick, Tick, Later
  <2> HIDE DEF Scripts, PCs, KeyInv
  <2> QED
    BY <1>18, <2>1, <2>2, <2>3, <2>4 DEF PromptTick, Tick
<1>19. CASE UNCHANGED vars
  BY TimedCallsStay, TickerStays, <1>19 DEF vars, proc
<1> QED
  BY <1>1, <1>2, <1>3, <1>4, <1>5, <1>6, <1>7, <1>8, <1>9, <1>10, <1>11, <1>12, <1>13, <1>14, <1>15, <1>16, <1>17, <1>18, <1>19
  DEF TimedNext, PromptStep, Code, Lead, Renew, Hold

LEMMA WiresStep == TimedBase /\ [TimedNext]_<<vars, history>> => \A q \in Process : Wires(q)'
<1> SUFFICES ASSUME TimedBase, [TimedNext]_<<vars, history>>, NEW q \in Process PROVE Wires(q)'
  OBVIOUS
<1> USE TimingAssumption
<1> USE DEF TimedBase, TimedTypes, TimedCalls, Wires, Owns, Scripts, PCs, Idle, NewTicker, Margin, Empty,
            Send, Hang, SinceAsked, Answered, Up
<1>1. ASSUME NEW p \in Process, Run(p) PROVE Wires(q)'
  BY <1>1, SMTT(30) DEF Run
<1>2. ASSUME NEW p \in Process, Attempt(p) PROVE Wires(q)'
  BY <1>2, SMTT(30) DEF Attempt
<1>3. ASSUME NEW p \in Process, AcquireHeld(p) PROVE Wires(q)'
  <2>1. CASE q = p
    <3>1. /\ pc'[p] = "holding" /\ upstream'[p] = ~cancelled[p] /\ call'[p].op = "none"
          /\ wire'[p] = wire[p] /\ cancelled' = cancelled
      BY <1>3 DEF AcquireHeld
    <3>2. wire[p] = {}
      BY <1>3 DEF AcquireHeld
    <3> QED
      BY <2>1, <3>1, <3>2
  <2>2. CASE q # p
    <3>1. /\ pc'[q] = pc[q] /\ upstream'[q] = upstream[q] /\ call'[q] = call[q]
          /\ wire' = wire /\ cancelled' = cancelled
      BY <1>3, <2>2 DEF AcquireHeld
    <3> QED
      BY <3>1
  <2> QED
    BY <2>1, <2>2
<1>4. ASSUME NEW p \in Process, AcquireRefused(p) PROVE Wires(q)'
  BY <1>4, SMTT(30) DEF AcquireRefused
<1>5. ASSUME NEW p \in Process, LeadReturns(p) PROVE Wires(q)'
  BY <1>5, SMTT(30) DEF LeadReturns
<1>6. ASSUME NEW p \in Process, AskRenewal(p) PROVE Wires(q)'
  BY <1>6, SMTT(30) DEF AskRenewal
<1>7. ASSUME NEW p \in Process, RenewalGranted(p) PROVE Wires(q)'
  BY <1>7, SMTT(30) DEF RenewalGranted
<1>8. ASSUME NEW p \in Process, RenewalRefused(p) PROVE Wires(q)'
  BY <1>8, SMTT(30) DEF RenewalRefused, CloseLost
<1>9. ASSUME NEW p \in Process, TakeRenewed(p) PROVE Wires(q)'
  BY <1>9, SMTT(30) DEF TakeRenewed
<1>10. ASSUME NEW p \in Process, HoldEnds(p) PROVE Wires(q)'
  BY <1>10, SMTT(30) DEF HoldEnds
<1>11. ASSUME NEW p \in Process, CloseUpstream(p) PROVE Wires(q)'
  BY <1>11, SMTT(30) DEF CloseUpstream
<1>12. ASSUME NEW p \in Process, ReleaseDone(p) PROVE Wires(q)'
  BY <1>12, SMTT(30) DEF ReleaseDone
<1>13. ASSUME NEW p \in Process, Cancel(p) PROVE Wires(q)'
  BY <1>13, SMTT(30) DEF Cancel
<1>14. ASSUME NEW p \in Process, Kill(p) PROVE Wires(q)'
  BY <1>14, SMTT(30) DEF Kill
<1>15. ASSUME NEW p \in Process, NEW t \in Tickers, HoldReturns(p, t) PROVE Wires(q)'
  <2>1. wire[p] = {}
    BY <1>15 DEF HoldReturns
  <2>2. CASE cancelled[p]
    <3>1. Send(p, "release") /\ pc' = [pc EXCEPT ![p] = "releasing"]
      BY <1>15, <2>2 DEF HoldReturns
    <3>2. wire'[p] = {"release"} /\ (q # p => wire'[q] = wire[q])
      BY <2>1, <3>1
    <3> QED
      BY <1>15, <2>2, <3>1, <3>2, SMTT(30) DEF HoldReturns
  <2>3. CASE ~cancelled[p]
    BY <1>15, <2>3, SMTT(30) DEF HoldReturns
  <2> QED
    BY <2>2, <2>3
<1>16. ASSUME NEW p \in Process, NEW op \in Scripts, RedisApplies(p, op, FALSE) PROVE Wires(q)'
  BY <1>16, SMTT(30) DEF RedisApplies, Applied, Answer, Free
<1>17. CASE RedisForgets
  BY <1>17, SMTT(30) DEF RedisForgets, proc, Free
<1>18. CASE PromptTick
  BY <1>18, SMTT(30) DEF PromptTick, Tick, OnTime, Later, TickTicker
<1>19. CASE UNCHANGED vars
  BY <1>19 DEF vars, proc
<1> HIDE DEF TimedBase, TimedTypes, TimedCalls, Wires, Owns, Scripts, PCs, Idle, NewTicker, Margin, Empty,
            Send, Hang, SinceAsked, Answered, Up
<1> QED
  BY <1>1, <1>2, <1>3, <1>4, <1>5, <1>6, <1>7, <1>8, <1>9, <1>10, <1>11, <1>12, <1>13, <1>14, <1>15, <1>16, <1>17, <1>18, <1>19
  DEF TimedNext, PromptStep, Code, Lead, Renew, Hold

\* A call is granted, or a process is stopping: who reads next is settled before time passes.
Comes(p) == Answered(p, "acquire", "granted") \/ (Up(p) /\ cancelled[p])
Coming == \E p \in Process : Comes(p)

\* Nobody reads, nobody dies: what a process stands at when time runs without a reader.
Quiet(p) ==
    /\ ~upstream[p]
    /\ pc[p] = "stopped" => wire[p] = {}
    /\ pc[p] = "stopping" => cancelled[p]

\* How far p is from the key: it has to expire, then p waits for its next tick.
Awaits(p) ==
    /\ ~Free => vacant + lease.left <= TTL
    /\ Free /\ pc[p] = "waiting" /\ ~ticker[p].due => vacant <= TTL + ticker[p].phase
    /\ Answered(p, "acquire", "refused") => vacant <= TTL

Vacancy ==
    /\ vacant \in Nat /\ vacant <= TTL + Every
    /\ vacant > 0 => \A p \in Process : Quiet(p)
    /\ vacant > 0 /\ ~Coming => \A p \in Process : Awaits(p)

\* Whoever comes still comes after a step that leaves nobody reading and nobody dead.
LEMMA ComingStays ==
  ASSUME TimedBase, PromptStep, Coming, ~Read', ~Stopped
  PROVE  Coming'
<1> PICK q \in Process : Comes(q)
  BY DEF Coming
<1> SUFFICES Comes(q)'
  BY DEF Coming
<1>0. ~upstream'[q] /\ (Up(q) => Up(q)')
  BY DEF Read, Stopped
<1> USE DEF TimedBase, TimedTypes, TimedCalls, Wires, Scripts, PCs, Idle, Send, Hang, Answered, Up, Comes
<1>1. ASSUME NEW p \in Process, Run(p) PROVE Comes(q)'
  BY <1>1, <1>0, SMTT(30) DEF Run
<1>2. ASSUME NEW p \in Process, Attempt(p) PROVE Comes(q)'
  BY <1>2, <1>0, SMTT(30) DEF Attempt
<1>3. ASSUME NEW p \in Process, AcquireHeld(p) PROVE Comes(q)'
  <2>1. CASE q = p
    BY <1>3, <1>0, <2>1 DEF AcquireHeld
  <2>2. CASE q # p
    <3>1. call'[q] = call[q] /\ pc'[q] = pc[q] /\ cancelled'[q] = cancelled[q]
      BY <1>3, <2>2 DEF AcquireHeld
    <3> QED
      BY <3>1
  <2> QED
    BY <2>1, <2>2
<1>4. ASSUME NEW p \in Process, AcquireRefused(p) PROVE Comes(q)'
  BY <1>4, <1>0, SMTT(30) DEF AcquireRefused
<1>5. ASSUME NEW p \in Process, LeadReturns(p) PROVE Comes(q)'
  BY <1>5, <1>0, SMTT(30) DEF LeadReturns
<1>6. ASSUME NEW p \in Process, AskRenewal(p) PROVE Comes(q)'
  BY <1>6, <1>0, SMTT(30) DEF AskRenewal
<1>7. ASSUME NEW p \in Process, RenewalGranted(p) PROVE Comes(q)'
  BY <1>7, <1>0, SMTT(30) DEF RenewalGranted
<1>8. ASSUME NEW p \in Process, RenewalRefused(p) PROVE Comes(q)'
  BY <1>8, <1>0, SMTT(30) DEF RenewalRefused, CloseLost
<1>9. ASSUME NEW p \in Process, TakeRenewed(p) PROVE Comes(q)'
  BY <1>9, <1>0, SMTT(30) DEF TakeRenewed
<1>10. ASSUME NEW p \in Process, HoldEnds(p) PROVE Comes(q)'
  BY <1>10, <1>0, SMTT(30) DEF HoldEnds
<1>11. ASSUME NEW p \in Process, CloseUpstream(p) PROVE Comes(q)'
  BY <1>11, <1>0, SMTT(30) DEF CloseUpstream
<1>12. ASSUME NEW p \in Process, ReleaseDone(p) PROVE Comes(q)'
  BY <1>12, <1>0, SMTT(30) DEF ReleaseDone
<1>13. ASSUME NEW p \in Process, Cancel(p) PROVE Comes(q)'
  BY <1>13, <1>0, SMTT(30) DEF Cancel
<1>14. ASSUME NEW p \in Process, Kill(p) PROVE Comes(q)'
  BY <1>14, <1>0, SMTT(30) DEF Kill
<1>15. ASSUME NEW p \in Process, NEW t \in Tickers, HoldReturns(p, t) PROVE Comes(q)'
  BY <1>15, <1>0, SMTT(30) DEF HoldReturns
<1>16. ASSUME NEW p \in Process, NEW op \in Scripts, RedisApplies(p, op, FALSE) PROVE Comes(q)'
  BY <1>16, <1>0, SMTT(30) DEF RedisApplies, Applied, Answer, Free
<1> QED
  <2> HIDE DEF TimedBase, TimedTypes, TimedCalls, Wires, Scripts, PCs, Idle, Send, Hang, Answered, Up, Comes
  <2> QED
    BY <1>1, <1>2, <1>3, <1>4, <1>5, <1>6, <1>7, <1>8, <1>9, <1>10, <1>11, <1>12, <1>13, <1>14, <1>15, <1>16
  DEF PromptStep, Code, Lead, Renew, Hold

\* Processes stay quiet in such a step.
LEMMA QuietStays ==
  ASSUME TimedBase, PromptStep, \A p \in Process : Quiet(p), ~Read', ~Stopped
  PROVE  \A p \in Process : Quiet(p)'
<1> SUFFICES ASSUME NEW q \in Process PROVE Quiet(q)'
  OBVIOUS
<1>0. ~upstream'[q] /\ (Up(q) => Up(q)')
  BY DEF Read, Stopped
<1> USE DEF TimedBase, TimedTypes, Wires, PCs, Scripts, Send, Hang, Up, Quiet
<1>1. ASSUME NEW p \in Process, Run(p) PROVE Quiet(q)'
  BY <1>1, <1>0, SMTT(30) DEF Run
<1>2. ASSUME NEW p \in Process, Attempt(p) PROVE Quiet(q)'
  BY <1>2, <1>0, SMTT(30) DEF Attempt
<1>3. ASSUME NEW p \in Process, AcquireHeld(p) PROVE Quiet(q)'
  BY <1>3, <1>0, SMTT(30) DEF AcquireHeld
<1>4. ASSUME NEW p \in Process, AcquireRefused(p) PROVE Quiet(q)'
  BY <1>4, <1>0, SMTT(30) DEF AcquireRefused
<1>5. ASSUME NEW p \in Process, LeadReturns(p) PROVE Quiet(q)'
  BY <1>5, <1>0, SMTT(30) DEF LeadReturns
<1>6. ASSUME NEW p \in Process, AskRenewal(p) PROVE Quiet(q)'
  BY <1>6, <1>0, SMTT(30) DEF AskRenewal
<1>7. ASSUME NEW p \in Process, RenewalGranted(p) PROVE Quiet(q)'
  BY <1>7, <1>0, SMTT(30) DEF RenewalGranted
<1>8. ASSUME NEW p \in Process, RenewalRefused(p) PROVE Quiet(q)'
  BY <1>8, <1>0, SMTT(30) DEF RenewalRefused, CloseLost
<1>9. ASSUME NEW p \in Process, TakeRenewed(p) PROVE Quiet(q)'
  BY <1>9, <1>0, SMTT(30) DEF TakeRenewed
<1>10. ASSUME NEW p \in Process, HoldEnds(p) PROVE Quiet(q)'
  BY <1>10, <1>0, SMTT(30) DEF HoldEnds
<1>11. ASSUME NEW p \in Process, CloseUpstream(p) PROVE Quiet(q)'
  BY <1>11, <1>0, SMTT(30) DEF CloseUpstream
<1>12. ASSUME NEW p \in Process, ReleaseDone(p) PROVE Quiet(q)'
  BY <1>12, <1>0, SMTT(30) DEF ReleaseDone
<1>13. ASSUME NEW p \in Process, Cancel(p) PROVE Quiet(q)'
  BY <1>13, <1>0, SMTT(30) DEF Cancel
<1>14. ASSUME NEW p \in Process, Kill(p) PROVE Quiet(q)'
  BY <1>14, <1>0, SMTT(30) DEF Kill
<1>15. ASSUME NEW p \in Process, NEW t \in Tickers, HoldReturns(p, t) PROVE Quiet(q)'
  BY <1>15, <1>0, SMTT(30) DEF HoldReturns
<1>16. ASSUME NEW p \in Process, NEW op \in Scripts, RedisApplies(p, op, FALSE) PROVE Quiet(q)'
  BY <1>16, <1>0, SMTT(30) DEF RedisApplies, Applied, Answer, Free
<1> QED
  <2> HIDE DEF TimedBase, TimedTypes, Wires, PCs, Scripts, Send, Hang, Up, Quiet
  <2> QED
    BY <1>1, <1>2, <1>3, <1>4, <1>5, <1>6, <1>7, <1>8, <1>9, <1>10, <1>11, <1>12, <1>13, <1>14, <1>15, <1>16
  DEF PromptStep, Code, Lead, Renew, Hold

\* Nobody comes: only an acquisition starts, or is refused.
LEMMA AwaitsStays ==
  ASSUME TimedBase, PromptStep, \A p \in Process : Quiet(p) /\ Awaits(p), ~Coming, ~Coming', ~Stopped,
         vacant \in Nat, vacant' = vacant
  PROVE  \A p \in Process : Awaits(p)'
<1> SUFFICES ASSUME NEW q \in Process PROVE Awaits(q)'
  OBVIOUS
<1>0. \A p \in Process : ~Comes(p) /\ ~Comes(p)' /\ Quiet(p) /\ Awaits(p) /\ (Up(p) => Up(p)')
  BY DEF Coming, Stopped
<1> USE TimingAssumption
<1> USE DEF TimedBase, TimedTypes, TimedCalls, Wires, Scripts, PCs, Idle, Send, Hang, Answered, Up, Comes,
            Quiet, Awaits, Free
<1>1. ASSUME NEW p \in Process, Run(p) PROVE Awaits(q)'
  BY <1>1, <1>0, SMTT(30) DEF Run
<1>2. ASSUME NEW p \in Process, Attempt(p) PROVE Awaits(q)'
  BY <1>2, <1>0, SMTT(30) DEF Attempt
<1>3. ASSUME NEW p \in Process, AcquireHeld(p) PROVE Awaits(q)'
  BY <1>3, <1>0, SMTT(30) DEF AcquireHeld
<1>4. ASSUME NEW p \in Process, AcquireRefused(p) PROVE Awaits(q)'
  <2>1. lease' = lease /\ ticker' = ticker /\ vacant' = vacant
    BY <1>4 DEF AcquireRefused
  <2>2. CASE q = p
    <3>1. vacant <= TTL /\ call'[q].op = "none"
      BY <1>4, <1>0, <2>2 DEF AcquireRefused
    <3>2. ticker[q].phase \in Nat
      BY SMT DEF Tickers
    <3> QED
      BY <1>0, <2>1, <3>1, <3>2, SMT
  <2>3. CASE q # p
    <3>1. call'[q] = call[q] /\ pc'[q] = pc[q]
      BY <1>4, <2>3 DEF AcquireRefused
    <3> QED
      BY <1>0, <2>1, <3>1
  <2> QED
    BY <2>2, <2>3
<1>5. ASSUME NEW p \in Process, LeadReturns(p) PROVE Awaits(q)'
  BY <1>5, <1>0, SMTT(30) DEF LeadReturns
<1>6. ASSUME NEW p \in Process, AskRenewal(p) PROVE Awaits(q)'
  BY <1>6, <1>0, SMTT(30) DEF AskRenewal
<1>7. ASSUME NEW p \in Process, RenewalGranted(p) PROVE Awaits(q)'
  BY <1>7, <1>0, SMTT(30) DEF RenewalGranted
<1>8. ASSUME NEW p \in Process, RenewalRefused(p) PROVE Awaits(q)'
  BY <1>8, <1>0, SMTT(30) DEF RenewalRefused, CloseLost
<1>9. ASSUME NEW p \in Process, TakeRenewed(p) PROVE Awaits(q)'
  BY <1>9, <1>0, SMTT(30) DEF TakeRenewed
<1>10. ASSUME NEW p \in Process, HoldEnds(p) PROVE Awaits(q)'
  BY <1>10, <1>0, SMTT(30) DEF HoldEnds
<1>11. ASSUME NEW p \in Process, CloseUpstream(p) PROVE Awaits(q)'
  BY <1>11, <1>0, SMTT(30) DEF CloseUpstream
<1>12. ASSUME NEW p \in Process, ReleaseDone(p) PROVE Awaits(q)'
  BY <1>12, <1>0, SMTT(30) DEF ReleaseDone
<1>13. ASSUME NEW p \in Process, Cancel(p) PROVE Awaits(q)'
  BY <1>13, <1>0, SMTT(30) DEF Cancel
<1>14. ASSUME NEW p \in Process, Kill(p) PROVE Awaits(q)'
  BY <1>14, <1>0, SMTT(30) DEF Kill
<1>15. ASSUME NEW p \in Process, NEW t \in Tickers, HoldReturns(p, t) PROVE Awaits(q)'
  BY <1>15, <1>0, SMTT(30) DEF HoldReturns
<1>16. ASSUME NEW p \in Process, NEW op \in Scripts, RedisApplies(p, op, FALSE) PROVE Awaits(q)'
  BY <1>16, <1>0, SMTT(30) DEF RedisApplies, Applied, Answer, Free
<1> QED
  <2> HIDE DEF TimedBase, TimedTypes, TimedCalls, Wires, Scripts, PCs, Idle, Send, Hang, Answered, Up, Comes, Quiet, Awaits, Free
  <2> QED
    BY <1>1, <1>2, <1>3, <1>4, <1>5, <1>6, <1>7, <1>8, <1>9, <1>10, <1>11, <1>12, <1>13, <1>14, <1>15, <1>16
  DEF PromptStep, Code, Lead, Renew, Hold

\* What Watch leaves of the time without a reader.
LEMMA VacantCount ==
  ASSUME vacant \in Nat, NEW b \in BOOLEAN, Watch(b)
  PROVE  \/ vacant' = 0
         \/ vacant' = (IF b THEN vacant + 1 ELSE vacant) /\ ~Read' /\ Standby /\ ~Stopped
  BY DEF Watch, Count

\* Time passes only over processes that wait or hold, with no call under way: the key is
\* nearer to its expiry, or a waiting process nearer to its tick.
LEMMA VacancyTick ==
  ASSUME TimedBase, Vacancy, PromptTick, Watch(TRUE)
  PROVE  Vacancy'
<1> USE TimingAssumption
<1> DEFINE Idles(p) == /\ wire[p] = {} /\ call[p].op = "none"
                       /\ pc[p] \in {"new", "stopped", "waiting", "holding"}
                       /\ ~cancelled[p] \/ pc[p] = "stopped"
                       /\ ~(pc[p] \in {"waiting", "holding"} /\ ticker[p].due)
<1>1. \A p \in Process : Idles(p)
  BY DEF PromptTick
<1>2. UNCHANGED <<wire, pc, cancelled, call, upstream>>
  <2>1. call' = call
    BY <1>1 DEF PromptTick, Tick, TimedBase, TimedTypes
  <2> QED
    BY <2>1 DEF PromptTick, Tick
<1>3. ~Coming
  BY <1>1 DEF Coming, Comes, Answered, Up
<1>4. vacant \in Nat /\ lease.left \in 0 .. TTL /\ (~Free => lease.left > 0)
  BY SMT DEF Vacancy, TimedBase, TimedTypes, KeyInv, Free
<1>5. CASE vacant' = 0
  BY <1>5, SMT DEF Vacancy
<1>6. CASE vacant' = vacant + 1 /\ ~Read' /\ Standby
  <2>1. PICK s \in Process : Up(s) /\ ~cancelled[s]
    BY <1>6 DEF Standby
  <2>2. \A p \in Process : ~upstream[p] /\ ~upstream'[p]
    BY <1>2, <1>6 DEF Read
  <2>3. pc[s] = "waiting" /\ ~ticker[s].due
    BY <1>1, <2>1, <2>2 DEF TimedBase, Wires, Up
  <2>4. ASSUME NEW p \in Process PROVE Quiet(p)'
    BY <1>1, <1>2, <2>2 DEF Quiet
  <2>5. ASSUME NEW p \in Process PROVE ~Free => vacant + lease.left <= TTL
    BY <1>3, <1>4, SMT DEF Vacancy, Awaits
  <2>6. ASSUME NEW p \in Process, Free, pc[p] = "waiting"
        PROVE  vacant <= TTL + ticker[p].phase /\ ticker[p].phase \in 0 .. Every - 1
    <3>1. ticker[p].phase \in 0 .. Every - 1
      BY DEF TimedBase, TimedTypes, Tickers
    <3>2. ~ticker[p].due
      BY <1>1, <2>6
    <3>3. CASE vacant = 0
      BY <3>1, <3>3, SMT
    <3>4. CASE vacant > 0
      BY <1>3, <2>6, <3>1, <3>2, <3>4 DEF Vacancy, Awaits
    <3> QED
      BY <1>4, <3>1, <3>3, <3>4, SMT
  <2>7. vacant' <= TTL + Every
    <3>1. CASE Free
      BY <1>6, <1>4, <2>3, <2>6, <3>1, SMT
    <3>2. CASE ~Free
      BY <1>6, <1>4, <2>1, <2>5, <3>2, SMT
    <3> QED
      BY <3>1, <3>2
  <2>8. ASSUME NEW p \in Process PROVE Awaits(p)'
    <3>1. lease' = IF lease.left <= 1 THEN [holder |-> Nobody, left |-> 0]
                   ELSE [lease EXCEPT !.left = @ - 1]
      BY DEF PromptTick, Tick
    <3>2. ~Free' => ~Free /\ lease'.left = lease.left - 1
      BY <3>1 DEF TimedBase, TimedTypes, Free
    <3>3. Free' => Free \/ lease.left <= 1
      BY <3>1 DEF TimedBase, TimedTypes, Free
    <3>4. ~Free' => vacant' + lease'.left <= TTL
      BY <1>4, <1>6, <2>5, <3>2, SMT
    <3>5. ~Answered(p, "acquire", "refused")'
      BY <1>1, <1>2 DEF Answered
    <3>6. ASSUME Free', pc'[p] = "waiting", ~ticker'[p].due
          PROVE  vacant' <= TTL + ticker'[p].phase
      <4>1. pc[p] = "waiting" /\ ticker[p] \in Tickers
        BY <1>2, <3>6 DEF TimedBase, TimedTypes
      <4>2. ticker'[p] = TickTicker(ticker[p])
        BY <4>1 DEF PromptTick, Tick
      <4>3. ticker[p].phase \in 0 .. Every - 1
        BY <4>1 DEF Tickers
      <4>4. ticker'[p].phase = ticker[p].phase + 1
        <5>1. CASE ticker[p].phase + 1 < Every
          <6>1. [ticker[p] EXCEPT !.phase = @ + 1].phase = ticker[p].phase + 1
            BY <4>1, Zenon DEF Tickers
          <6> QED
            BY <4>2, <5>1, <6>1 DEF TickTicker
        <5>2. CASE ~(ticker[p].phase + 1 < Every)
          BY <3>6, <4>2, <5>2 DEF TickTicker
        <5> QED
          BY <5>1, <5>2
      <4>5. CASE Free
        BY <1>4, <1>6, <2>6, <4>1, <4>3, <4>4, <4>5, SMT
      <4>6. CASE ~Free
        <5>1. lease.left <= 1
          BY <3>3, <3>6, <4>6
        <5> QED
          BY <1>4, <1>6, <2>5, <4>3, <4>4, <4>6, <5>1, SMT
      <4> QED
        BY <4>5, <4>6
    <3> QED
      BY <3>4, <3>5, <3>6 DEF Awaits
  <2> QED
    BY <1>4, <1>6, <2>4, <2>7, <2>8, SMT DEF Vacancy
<1> QED
  BY <1>4, <1>5, <1>6, VacantCount

\* A step of a process leaves the time as it is, or ends it.
LEMMA VacancyPrompt ==
  ASSUME TimedBase, Vacancy, PromptStep, Watch(FALSE)
  PROVE  Vacancy'
<1>1. vacant \in Nat
  BY DEF Vacancy
<1>2. CASE vacant' = 0
  BY <1>2, TimingAssumption, SMT DEF Vacancy
<1>3. CASE vacant' = vacant /\ vacant > 0 /\ ~Read' /\ ~Stopped
  <2>1. \A p \in Process : Quiet(p)'
    BY <1>3, QuietStays DEF Vacancy
  <2>2. ASSUME ~Coming' PROVE \A p \in Process : Awaits(p)'
    <3>1. ~Coming
      BY <1>3, <2>2, ComingStays
    <3> QED
      BY <1>1, <1>3, <2>2, <3>1, AwaitsStays DEF Vacancy
  <2> QED
    BY <1>3, <2>1, <2>2 DEF Vacancy
<1>4. vacant' = 0 \/ (vacant' = vacant /\ ~Read' /\ ~Stopped)
  BY <1>1, VacantCount
<1>5. vacant = 0 \/ vacant > 0
  BY <1>1, SMT
<1> QED
  BY <1>2, <1>3, <1>4, <1>5

\* A lost key is one that has expired.
LEMMA VacancyForgets ==
  ASSUME TimedBase, Vacancy, RedisForgets, Watch(FALSE)
  PROVE  Vacancy'
<1>1. vacant \in Nat /\ UNCHANGED <<wire, proc>> /\ ~Free /\ lease'.holder = Nobody
  BY DEF Vacancy, RedisForgets
<1>2. CASE vacant' = 0
  BY <1>2, TimingAssumption, SMT DEF Vacancy
<1>3. CASE vacant' = vacant /\ vacant > 0
  <2>1. \A p \in Process : Quiet(p)' /\ (Comes(p)' <=> Comes(p))
    BY <1>1, <1>3 DEF Vacancy, Quiet, Comes, Answered, Up, proc
  <2>2. Coming' <=> Coming
    BY <2>1 DEF Coming
  <2>3. ASSUME NEW p \in Process, ~Coming PROVE Awaits(p)'
    <3>1. ticker[p].phase \in Nat /\ lease.left \in Nat
      BY TimingAssumption, SMT DEF TimedBase, TimedTypes, Tickers
    <3>2. vacant + lease.left <= TTL
      BY <1>1, <1>3, <2>3 DEF Vacancy, Awaits
    <3>3. vacant <= TTL
      BY <1>1, <3>1, <3>2, TimingAssumption, SMT
    <3>4. vacant' <= TTL + ticker'[p].phase
      BY <1>1, <1>3, <3>1, <3>3, TimingAssumption, SMT DEF proc
    <3> QED
      BY <1>1, <1>3, <3>3, <3>4 DEF Awaits, Free, Answered
  <2> QED
    BY <1>3, <2>1, <2>2, <2>3 DEF Vacancy
<1>4. vacant' = 0 \/ (vacant' = vacant /\ ~Read' /\ ~Stopped)
  BY <1>1, VacantCount
<1>5. vacant = 0 \/ vacant > 0
  BY <1>1, SMT
<1> QED
  BY <1>2, <1>3, <1>4, <1>5

\* The invariant of the time without a reader.
LEMMA VacancyInvariant == TimedSpec => [](TimedBase /\ Vacancy)
<1>1. TimedInit => TimedBase /\ Vacancy
  BY TimedBaseInit, TimingAssumption, SMT DEF TimedInit, Vacancy
<1>2. TimedBase /\ Vacancy /\ [TimedNext]_<<vars, history>> => (TimedBase /\ Vacancy)'
  <2> SUFFICES ASSUME TimedBase, Vacancy, [TimedNext]_<<vars, history>> PROVE (TimedBase /\ Vacancy)'
    OBVIOUS
  <2>1. TimedBase'
    BY TimedTypesStep, WiresStep DEF TimedBase
  <2>2. CASE UNCHANGED <<vars, history>>
    BY <2>1, <2>2 DEF vars, proc, history, Vacancy, Coming, Comes, Quiet, Awaits, Answered, Up, Free
  <2> QED
    BY <2>1, <2>2, VacancyTick, VacancyPrompt, VacancyForgets DEF TimedNext
<1> QED
  BY <1>1, <1>2, PTL DEF TimedSpec

\* A killed holder is replaced: while an instance is up, the gateway is not left without a
\* reader for longer than the lease and one attempt interval (hub.go, Hub).
THEOREM KilledHolderIsReplaced == TimedSpec => []ReplacedInTime
<1>1. Vacancy => ReplacedInTime
  BY DEF Vacancy, ReplacedInTime
<1> QED
  BY VacancyInvariant, <1>1, PTL

\* The time two readers may have spent before the last loss of the key, and with it.
Earlier == Every * (forgets - 1)
Budget == Every * forgets

\* The renewal that tells p of its loss is not due yet.
Steady(p) ==
    pc[p] = "holding" /\ ~cancelled[p] /\ ~lost[p] /\ call[p].op = "none" /\ ~ticker[p].due

\* Who believes in the lease owns it for as long as it counts on, ...
Believes(p) ==
    Owns(p) => /\ upstream[p] => lease.left + heldFor[p] >= TTL
               /\ Granted(p) => lease.left = TTL
               /\ renewed[p] # Empty => lease.left + renewed[p] >= TTL

\* ... or Redis has lost its key since, and its next renewal is refused.
Outlives(p) ==
    ~Owns(p) => /\ Granted(p) => forgets > 0 /\ doubled <= Earlier
                /\ upstream[p] => /\ forgets > 0 /\ doubled <= Budget
                                  /\ Steady(p) => doubled <= Earlier + ticker[p].phase

Doubling ==
    /\ doubled \in Nat /\ forgets \in Nat
    /\ ~ReadTwice => doubled = 0
    /\ \A p \in Process : Believes(p) /\ Outlives(p)

\* The arithmetic of one loss more.
LEMMA OneLossMore ==
  ASSUME NEW f \in Nat
  PROVE  /\ Every * f \in Nat /\ Every * (f + 1) = Every * f + Every
         /\ f > 0 => Every * (f - 1) \in Nat /\ Every * f = Every * (f - 1) + Every
<1>1. Every \in Nat
  BY TimingAssumption
<1>2. Every * f \in Nat /\ Every * (f + 1) = Every * f + Every
  BY <1>1, SMT
<1>3. ASSUME f > 0 PROVE Every * (f - 1) \in Nat /\ Every * f = Every * (f - 1) + Every
  <2>1. f - 1 \in Nat
    BY <1>3, SMT
  <2> QED
    BY <1>1, <2>1, SMT
<1> QED
  BY <1>2, <1>3

\* What Watch leaves of the time with two readers.
LEMMA DoubledCount ==
  ASSUME doubled \in Nat, NEW b \in BOOLEAN, Watch(b)
  PROVE  /\ ~ReadTwice' => doubled' = 0
         /\ doubled' \in Nat /\ doubled' <= IF b THEN doubled + 1 ELSE doubled
  BY SMT DEF Watch, Count

\* The bound is what the invariant says of the one of two readers that does not own the key.
LEMMA DoubledBound == Doubling => doubled <= Budget
<1> SUFFICES ASSUME Doubling PROVE doubled <= Budget
  OBVIOUS
<1>1. CASE ReadTwice
  <2>1. PICK p \in Process : upstream[p] /\ ~Owns(p)
    BY <1>1 DEF ReadTwice, Owns
  <2> QED
    BY <2>1 DEF Doubling, Outlives
<1>2. CASE ~ReadTwice
  BY <1>2, OneLossMore, SMT DEF Doubling, Budget
<1> QED
  BY <1>1, <1>2

\* A step of a process keeps what the others, and itself, believe.
LEMMA BelievesStays ==
  ASSUME TimedBase, PromptStep, \A p \in Process : Believes(p)
  PROVE  \A p \in Process : Believes(p)'
<1> SUFFICES ASSUME NEW q \in Process PROVE Believes(q)'
  OBVIOUS
<1> USE TimingAssumption
<1> USE DEF TimedBase, TimedTypes, TimedCalls, Wires, Scripts, PCs, Idle, NewTicker, Margin, Empty, Send, Hang, SinceAsked, Answered, Up, Owns, Granted, Steady, Believes
<1>1. ASSUME NEW p \in Process, Run(p) PROVE Believes(q)'
  BY <1>1, SMTT(30) DEF Run
<1>2. ASSUME NEW p \in Process, Attempt(p) PROVE Believes(q)'
  BY <1>2, SMTT(30) DEF Attempt
<1>3. ASSUME NEW p \in Process, AcquireHeld(p) PROVE Believes(q)'
  BY <1>3, SMTT(30) DEF AcquireHeld
<1>4. ASSUME NEW p \in Process, AcquireRefused(p) PROVE Believes(q)'
  BY <1>4, SMTT(30) DEF AcquireRefused
<1>5. ASSUME NEW p \in Process, LeadReturns(p) PROVE Believes(q)'
  BY <1>5, SMTT(30) DEF LeadReturns
<1>6. ASSUME NEW p \in Process, AskRenewal(p) PROVE Believes(q)'
  BY <1>6, SMTT(30) DEF AskRenewal
<1>7. ASSUME NEW p \in Process, RenewalGranted(p) PROVE Believes(q)'
  BY <1>7, SMTT(30) DEF RenewalGranted
<1>8. ASSUME NEW p \in Process, RenewalRefused(p) PROVE Believes(q)'
  BY <1>8, SMTT(30) DEF RenewalRefused, CloseLost
<1>9. ASSUME NEW p \in Process, TakeRenewed(p) PROVE Believes(q)'
  BY <1>9, SMTT(30) DEF TakeRenewed
<1>10. ASSUME NEW p \in Process, HoldEnds(p) PROVE Believes(q)'
  BY <1>10, SMTT(30) DEF HoldEnds
<1>11. ASSUME NEW p \in Process, CloseUpstream(p) PROVE Believes(q)'
  BY <1>11, SMTT(30) DEF CloseUpstream
<1>12. ASSUME NEW p \in Process, ReleaseDone(p) PROVE Believes(q)'
  BY <1>12, SMTT(30) DEF ReleaseDone
<1>13. ASSUME NEW p \in Process, Cancel(p) PROVE Believes(q)'
  BY <1>13, SMTT(30) DEF Cancel
<1>14. ASSUME NEW p \in Process, Kill(p) PROVE Believes(q)'
  BY <1>14, SMTT(30) DEF Kill
<1>15. ASSUME NEW p \in Process, NEW t \in Tickers, HoldReturns(p, t) PROVE Believes(q)'
  BY <1>15, SMTT(30) DEF HoldReturns
<1>16. ASSUME NEW p \in Process, NEW op \in Scripts, RedisApplies(p, op, FALSE) PROVE Believes(q)'
  BY <1>16, SMTT(30) DEF RedisApplies, Applied, Answer, Free
<1> QED
  <2> HIDE DEF TimedBase, TimedTypes, TimedCalls, Wires, Scripts, PCs, Idle, NewTicker, Margin, Empty, Send, Hang, SinceAsked, Answered, Up, Owns, Granted, Steady, Believes
  <2> QED
    BY <1>1, <1>2, <1>3, <1>4, <1>5, <1>6, <1>7, <1>8, <1>9, <1>10, <1>11, <1>12, <1>13, <1>14, <1>15, <1>16
  DEF PromptStep, Code, Lead, Renew, Hold

\* A process that outlives the key after a step did so before it, with the renewal to come
\* no further away, unless a grant that is already void opens its reading.
LEMMA WhereItComesFrom ==
  ASSUME TimedBase, PromptStep, NEW q \in Process, ~Owns(q)'
  PROVE  /\ Granted(q)' => ~Owns(q) /\ Granted(q)
         /\ upstream'[q] => ~Owns(q) /\ (upstream[q] \/ Granted(q))
         /\ upstream'[q] /\ Steady(q)' =>
              Granted(q) \/ (upstream[q] /\ Steady(q) /\ ticker'[q].phase = ticker[q].phase)
<1> DEFINE From == /\ Granted(q)' => ~Owns(q) /\ Granted(q)
                   /\ upstream'[q] => ~Owns(q) /\ (upstream[q] \/ Granted(q))
                   /\ upstream'[q] /\ Steady(q)' =>
                        Granted(q) \/ (upstream[q] /\ Steady(q) /\ ticker'[q].phase = ticker[q].phase)
<1> SUFFICES From
  OBVIOUS
<1> USE TimingAssumption
<1> USE DEF TimedBase, TimedTypes, TimedCalls, Wires, Scripts, PCs, Idle, NewTicker, Margin, Empty, Send, Hang, SinceAsked, Answered, Up, Owns, Granted, Steady
<1>1. ASSUME NEW p \in Process, Run(p) PROVE From
  BY <1>1, SMTT(30) DEF Run
<1>2. ASSUME NEW p \in Process, Attempt(p) PROVE From
  BY <1>2, SMTT(30) DEF Attempt
<1>3. ASSUME NEW p \in Process, AcquireHeld(p) PROVE From
  BY <1>3, SMTT(30) DEF AcquireHeld
<1>4. ASSUME NEW p \in Process, AcquireRefused(p) PROVE From
  BY <1>4, SMTT(30) DEF AcquireRefused
<1>5. ASSUME NEW p \in Process, LeadReturns(p) PROVE From
  BY <1>5, SMTT(30) DEF LeadReturns
<1>6. ASSUME NEW p \in Process, AskRenewal(p) PROVE From
  BY <1>6, SMTT(30) DEF AskRenewal
<1>7. ASSUME NEW p \in Process, RenewalGranted(p) PROVE From
  BY <1>7, SMTT(30) DEF RenewalGranted
<1>8. ASSUME NEW p \in Process, RenewalRefused(p) PROVE From
  BY <1>8, SMTT(30) DEF RenewalRefused, CloseLost
<1>9. ASSUME NEW p \in Process, TakeRenewed(p) PROVE From
  BY <1>9, SMTT(30) DEF TakeRenewed
<1>10. ASSUME NEW p \in Process, HoldEnds(p) PROVE From
  BY <1>10, SMTT(30) DEF HoldEnds
<1>11. ASSUME NEW p \in Process, CloseUpstream(p) PROVE From
  BY <1>11, SMTT(30) DEF CloseUpstream
<1>12. ASSUME NEW p \in Process, ReleaseDone(p) PROVE From
  BY <1>12, SMTT(30) DEF ReleaseDone
<1>13. ASSUME NEW p \in Process, Cancel(p) PROVE From
  BY <1>13, SMTT(30) DEF Cancel
<1>14. ASSUME NEW p \in Process, Kill(p) PROVE From
  BY <1>14, SMTT(30) DEF Kill
<1>15. ASSUME NEW p \in Process, NEW t \in Tickers, HoldReturns(p, t) PROVE From
  BY <1>15, SMTT(30) DEF HoldReturns
<1>16. ASSUME NEW p \in Process, NEW op \in Scripts, RedisApplies(p, op, FALSE) PROVE From
  BY <1>16, SMTT(30) DEF RedisApplies, Applied, Answer, Free
<1> QED
  <2> HIDE DEF TimedBase, TimedTypes, TimedCalls, Wires, Scripts, PCs, Idle, NewTicker, Margin, Empty, Send, Hang, SinceAsked, Answered, Up, Owns, Granted, Steady, From
  <2> QED
    BY <1>1, <1>2, <1>3, <1>4, <1>5, <1>6, <1>7, <1>8, <1>9, <1>10, <1>11, <1>12, <1>13, <1>14, <1>15, <1>16
  DEF PromptStep, Code, Lead, Renew, Hold

\* A step of a process does not take the bound away from one that outlives the key.
LEMMA OutlivesStays ==
  ASSUME TimedBase, TimedBase', PromptStep, \A p \in Process : Outlives(p), doubled \in Nat, forgets \in Nat,
         doubled' \in Nat, doubled' <= doubled, forgets' = forgets
  PROVE  \A p \in Process : Outlives(p)'
<1> SUFFICES ASSUME NEW q \in Process, ~Owns(q)'
             PROVE  /\ Granted(q)' => forgets' > 0 /\ doubled' <= Earlier'
                    /\ upstream'[q] => /\ forgets' > 0 /\ doubled' <= Budget'
                                       /\ Steady(q)' => doubled' <= Earlier' + ticker'[q].phase
  BY DEF Outlives
<1>1. /\ Earlier' = Earlier /\ Budget' = Budget /\ Budget \in Nat
      /\ forgets > 0 => Earlier \in Nat /\ Budget = Earlier + Every
  BY OneLossMore DEF Earlier, Budget
<1>2. ticker'[q].phase \in Nat /\ Every \in Nat
  BY TimingAssumption, SMT DEF TimedBase, TimedTypes, Tickers
<1>3. ASSUME forgets > 0, doubled <= Earlier
      PROVE  doubled' <= Earlier' /\ doubled' <= Budget' /\ doubled' <= Earlier' + ticker'[q].phase
  BY <1>1, <1>2, <1>3, SMT
<1>4. ASSUME forgets > 0, doubled <= Budget PROVE doubled' <= Budget'
  BY <1>1, <1>4, SMT
<1>5. ASSUME forgets > 0, doubled <= Earlier + ticker'[q].phase
      PROVE  doubled' <= Earlier' + ticker'[q].phase
  BY <1>1, <1>2, <1>5, SMT
<1>6. ~Owns(q) => /\ Granted(q) => forgets > 0 /\ doubled <= Earlier
                  /\ upstream[q] => /\ forgets > 0 /\ doubled <= Budget
                                    /\ Steady(q) => doubled <= Earlier + ticker[q].phase
  BY DEF Outlives
<1> QED
  BY <1>3, <1>4, <1>5, <1>6, WhereItComesFrom

\* Time passes: the reader that owns the key keeps it, the other comes to its renewal.
LEMMA DoublingTick ==
  ASSUME TimedBase, Doubling, PromptTick, Watch(TRUE), UNCHANGED forgets
  PROVE  Doubling'
<1> USE TimingAssumption
<1>1. call' = call /\ UNCHANGED <<wire, pc, cancelled, upstream, lost, forgets>>
  BY DEF PromptTick, Tick, TimedBase, TimedTypes
<1>2. doubled \in Nat /\ doubled' \in Nat /\ doubled' <= doubled + 1 /\ (~ReadTwice' => doubled' = 0)
  BY DoubledCount DEF Doubling
<1>3. ASSUME NEW p \in Process, upstream[p], Owns(p)
      PROVE  /\ Owns(p)' /\ lease'.left = lease.left - 1 /\ lease.left \in Nat
             /\ heldFor'[p] = heldFor[p] + 1 /\ heldFor[p] \in Nat
             /\ lease.left + heldFor[p] >= TTL
  <2>1. heldFor[p] < Margin + Lag /\ heldFor[p] \in Nat /\ lease.left + heldFor[p] >= TTL
    BY <1>3 DEF PromptTick, Tick, OnTime, TimedBase, TimedTypes, Doubling, Believes
  <2>2. lease.left > 1 /\ lease.left \in Nat
    <3>1. lease.left \in 0 .. TTL
      BY DEF TimedBase, TimedTypes
    <3> QED
      BY <2>1, <3>1, SMT DEF Margin
  <2>3. lease' = [lease EXCEPT !.left = @ - 1]
    BY <2>2, SMT DEF PromptTick, Tick
  <2>4. heldFor'[p] = heldFor[p] + 1
    BY <1>3 DEF PromptTick, Tick
  <2> QED
    BY <1>3, <2>1, <2>2, <2>3, <2>4 DEF Owns, TimedBase, TimedTypes
<1>4. ASSUME NEW p \in Process PROVE Believes(p)'
  <2>1. call[p].op = "none" /\ renewed'[p] = Empty
    BY DEF PromptTick, Tick, Later, Empty
  <2>2. ~Granted(p)'
    BY <1>1, <2>1 DEF Granted
  <2>3. Owns(p)' => Owns(p)
    BY DEF PromptTick, Tick, TimedBase, TimedTypes, Owns
  <2>4. ASSUME Owns(p)', upstream'[p] PROVE lease'.left + heldFor'[p] >= TTL
    <3>1. upstream[p] /\ Owns(p)
      BY <1>1, <2>3, <2>4
    <3> QED
      BY <1>3, <3>1, SMT
  <2> QED
    BY <2>1, <2>2, <2>4 DEF Believes, Empty
<1>5. ASSUME NEW p \in Process PROVE Outlives(p)'
  <2>1. call[p].op = "none"
    BY DEF PromptTick
  <2>2. ~Granted(p)'
    BY <1>1, <2>1 DEF Granted
  <2>3. ASSUME ~Owns(p)', upstream'[p]
        PROVE  /\ forgets' > 0 /\ doubled' <= Budget'
               /\ Steady(p)' => doubled' <= Earlier' + ticker'[p].phase
    <3>1. upstream[p] /\ ~Owns(p)
      BY <1>1, <1>3, <2>3
    <3>2. pc[p] = "holding"
      BY <3>1 DEF PromptTick, TimedBase, Wires
    <3>3. Steady(p)
      BY <2>1, <3>2 DEF PromptTick, Steady
    <3>4. forgets > 0 /\ doubled <= Earlier + ticker[p].phase
      BY <3>1, <3>3 DEF Doubling, Outlives
    <3>5. Earlier' = Earlier /\ Budget' = Budget /\ Earlier \in Nat /\ Budget = Earlier + Every
      BY <1>1, <3>4, OneLossMore DEF Earlier, Budget, Doubling
    <3>6. ticker[p].phase \in 0 .. Every - 1 /\ ticker[p] \in Tickers
      BY DEF TimedBase, TimedTypes, Tickers
    <3>7. ticker'[p] = TickTicker(ticker[p])
      BY <3>2 DEF PromptTick, Tick
    <3>8. CASE ticker[p].phase + 1 < Every
      <4>1. [ticker[p] EXCEPT !.phase = @ + 1].phase = ticker[p].phase + 1
        BY <3>6, Zenon DEF Tickers
      <4>2. ticker'[p].phase = ticker[p].phase + 1
        BY <3>7, <3>8, <4>1 DEF TickTicker
      <4> QED
        BY <1>1, <1>2, <3>4, <3>5, <3>6, <3>8, <4>2, SMT
    <3>9. CASE ~(ticker[p].phase + 1 < Every)
      <4>1. ticker'[p].due
        BY <3>7, <3>9 DEF TickTicker
      <4>2. ~Steady(p)'
        BY <4>1 DEF Steady
      <4> QED
        BY <1>1, <1>2, <3>4, <3>5, <3>6, <4>2, SMT
    <3> QED
      BY <3>8, <3>9
  <2> QED
    BY <2>2, <2>3 DEF Outlives
<1> QED
  BY <1>1, <1>2, <1>4, <1>5 DEF Doubling

\* A lost key allows one interval more, whoever reads.
LEMMA DoublingForgets ==
  ASSUME TimedBase, Doubling, RedisForgets, forgets' = forgets + 1, Watch(FALSE)
  PROVE  Doubling'
<1>1. UNCHANGED <<wire, proc>> /\ lease'.holder = Nobody
  BY DEF RedisForgets
<1>2. doubled \in Nat /\ doubled' \in Nat /\ doubled' <= doubled /\ (~ReadTwice' => doubled' = 0)
  BY DoubledCount DEF Doubling
<1>3. /\ forgets' \in Nat /\ forgets' > 0 /\ doubled' <= Earlier' /\ Budget' = Earlier' + Every
      /\ Earlier' \in Nat
  <2>1. forgets \in Nat /\ doubled <= Budget
    BY DoubledBound DEF Doubling
  <2>2. Earlier' = Budget
    <3>1. (forgets + 1) - 1 = forgets
      BY <2>1, SMT
    <3> QED
      BY <3>1 DEF Earlier, Budget
  <2>3. Budget' = Budget + Every /\ Budget \in Nat
    BY <2>1, OneLossMore DEF Budget
  <2> QED
    BY <1>2, <2>1, <2>2, <2>3, SMT
<1>4. ASSUME NEW p \in Process PROVE Believes(p)' /\ Outlives(p)'
  <2>1. ~Owns(p)'
    BY <1>1, TimingAssumption DEF Owns
  <2>2. ticker'[p].phase \in Nat
    <3>1. ticker'[p] = ticker[p] /\ ticker[p] \in Tickers
      BY <1>1 DEF proc, TimedBase, TimedTypes
    <3> QED
      BY <3>1, TimingAssumption, SMT DEF Tickers
  <2>3. doubled' <= Budget' /\ doubled' <= Earlier' + ticker'[p].phase
    <3> DEFINE n == ticker'[p].phase
               e == Earlier'
               d == doubled'
    <3>1. Every \in Nat /\ n \in Nat /\ e \in Nat /\ d \in Nat /\ d <= e
      BY <1>2, <1>3, <2>2, TimingAssumption
    <3> HIDE DEF n, e, d
    <3>2. d <= e + Every /\ d <= e + n
      BY <3>1, SMT
    <3> QED
      BY <1>3, <3>2 DEF n, e, d
  <2> QED
    BY <1>3, <2>1, <2>3 DEF Believes, Outlives
<1> QED
  BY <1>2, <1>3, <1>4 DEF Doubling

\* The invariant of the time with two readers.
LEMMA DoublingInvariant == TimedSpec => [](TimedBase /\ Doubling)
<1>1. TimedInit => TimedBase /\ Doubling
  <2> SUFFICES ASSUME TimedInit PROVE TimedBase /\ Doubling
    OBVIOUS
  <2>1. TimedBase
    BY TimedBaseInit DEF TimedInit
  <2>2. ASSUME NEW p \in Process PROVE Believes(p) /\ Outlives(p)
    BY TimingAssumption DEF TimedInit, Init, Believes, Outlives, Owns, Granted, Idle
  <2>3. ~ReadTwice
    BY DEF TimedInit, Init, ReadTwice
  <2> QED
    BY <2>1, <2>2, <2>3 DEF TimedInit, Doubling
<1>2. TimedBase /\ Doubling /\ [TimedNext]_<<vars, history>> => (TimedBase /\ Doubling)'
  <2> SUFFICES ASSUME TimedBase, Doubling, [TimedNext]_<<vars, history>> PROVE (TimedBase /\ Doubling)'
    OBVIOUS
  <2>1. TimedBase'
    BY TimedTypesStep, WiresStep DEF TimedBase
  <2>2. CASE UNCHANGED <<vars, history>>
    BY <2>1, <2>2 DEF vars, proc, history, Doubling, Believes, Outlives, Granted, Steady, Owns, ReadTwice,
                      Earlier, Budget
  <2>3. CASE PromptStep /\ Watch(FALSE) /\ UNCHANGED forgets
    <3>1. doubled' \in Nat /\ doubled' <= doubled /\ (~ReadTwice' => doubled' = 0)
      BY <2>3, DoubledCount DEF Doubling
    <3> QED
      BY <2>1, <2>3, <3>1, BelievesStays, OutlivesStays DEF Doubling
  <2> QED
    BY <2>1, <2>2, <2>3, DoublingTick, DoublingForgets DEF TimedNext
<1> QED
  BY <1>1, <1>2, PTL DEF TimedSpec

\* Each time Redis loses the key, two instances read the gateway for one renewal interval
\* at most: the first renewal of the one that lost it is refused (relay.go, renew).
THEOREM DoubleReadsAreShort == TimedSpec => []DoubleReadIsShort
<1>1. Doubling => DoubleReadIsShort
  BY DoubledBound DEF Budget, DoubleReadIsShort
<1> QED
  BY DoublingInvariant, <1>1, PTL

----------------------------------------------------------------------------
(* Two readers after a loss of the key, over a Redis that may answer nothing. *)

\* What p counts on is an ask that its key covers, or one made before the key was lost.
Kept(p, age) == Covered(p, age) \/ sinceLoss <= age

Holds(p) ==
    /\ upstream[p] => Kept(p, heldFor[p])
    /\ Granted(p) => Kept(p, call[p].age)
    /\ renewed[p] # Empty => Kept(p, renewed[p])

LossyInv == LeaseBase /\ sinceLoss \in Nat /\ \A p \in Process : Holds(p)

\* Steps of a process and of its calls: a script that grants counts from now.
LEMMA HoldsStep ==
  ASSUME LossyInv, \E p \in Process : Code(p) \/ Network(p) \/ Cancel(p) \/ Kill(p), UNCHANGED sinceLoss
  PROVE  \A p \in Process : Holds(p)'
<1> SUFFICES ASSUME LeaseBase, sinceLoss \in Nat, \A p \in Process : Holds(p), NEW q \in Process
             PROVE  Holds(q)'
  BY DEF LossyInv
<1> USE TimingAssumption
<1> USE DEF LeaseBase, TypeOK, KeyInv, Places, Holds, Kept, Covered, Granted, Owns, Scripts, PCs, Idle, Calls,
            Margin, Empty, Send, Hang, SinceAsked, Answered
<1>1. ASSUME NEW p \in Process, Run(p) PROVE Holds(q)'
  BY <1>1, SMTT(30) DEF Run
<1>2. ASSUME NEW p \in Process, Attempt(p) PROVE Holds(q)'
  BY <1>2, SMTT(30) DEF Attempt
<1>3. ASSUME NEW p \in Process, AcquireHeld(p) PROVE Holds(q)'
  BY <1>3, SMTT(30) DEF AcquireHeld
<1>4. ASSUME NEW p \in Process, AcquireRefused(p) PROVE Holds(q)'
  BY <1>4, SMTT(30) DEF AcquireRefused
<1>5. ASSUME NEW p \in Process, LeadReturns(p) PROVE Holds(q)'
  BY <1>5, SMTT(30) DEF LeadReturns
<1>6. ASSUME NEW p \in Process, AskRenewal(p) PROVE Holds(q)'
  BY <1>6, SMTT(30) DEF AskRenewal
<1>7. ASSUME NEW p \in Process, RenewalGranted(p) PROVE Holds(q)'
  BY <1>7, SMTT(30) DEF RenewalGranted
<1>8. ASSUME NEW p \in Process, RenewalRefused(p) PROVE Holds(q)'
  BY <1>8, SMTT(30) DEF RenewalRefused, CloseLost
<1>9. ASSUME NEW p \in Process, CallFails(p) PROVE Holds(q)'
  BY <1>9, SMTT(30) DEF CallFails, AfterFailure
<1>10. ASSUME NEW p \in Process, TakeRenewed(p) PROVE Holds(q)'
  BY <1>10, SMTT(30) DEF TakeRenewed
<1>11. ASSUME NEW p \in Process, HoldEnds(p) PROVE Holds(q)'
  BY <1>11, SMTT(30) DEF HoldEnds
<1>12. ASSUME NEW p \in Process, CloseUpstream(p) PROVE Holds(q)'
  BY <1>12, SMTT(30) DEF CloseUpstream
<1>13. ASSUME NEW p \in Process, ReleaseDone(p) PROVE Holds(q)'
  BY <1>13, SMTT(30) DEF ReleaseDone
<1>14. ASSUME NEW p \in Process, Cancel(p) PROVE Holds(q)'
  BY <1>14, SMTT(30) DEF Cancel
<1>15. ASSUME NEW p \in Process, Kill(p) PROVE Holds(q)'
  BY <1>15, SMTT(30) DEF Kill
<1>16. ASSUME NEW p \in Process, NEW t \in Tickers, HoldReturns(p, t) PROVE Holds(q)'
  BY <1>16, SMTT(30) DEF HoldReturns
<1>17. ASSUME NEW p \in Process, NEW op \in Scripts, WireLoses(p, op) PROVE Holds(q)'
  BY <1>17, SMTT(30) DEF WireLoses, proc
<1>18. ASSUME NEW p \in Process, NEW op \in Scripts, NEW again \in BOOLEAN,
              RedisApplies(p, op, again) PROVE Holds(q)'
  BY <1>18, SMTT(30) DEF RedisApplies, Applied, Answer, Free
<1> HIDE DEF LeaseBase, TypeOK, KeyInv, Places, Holds, Kept, Covered, Granted, Owns, Scripts, PCs, Idle, Calls,
            Margin, Empty, Send, Hang, SinceAsked, Answered
<1> QED
  BY <1>1, <1>2, <1>3, <1>4, <1>5, <1>6, <1>7, <1>8, <1>9, <1>10, <1>11, <1>12, <1>13, <1>14, <1>15, <1>16, <1>17, <1>18
  DEF Code, Lead, Renew, Hold, Network

\* Time counts for the asks as it does for the loss, and for the key.
LEMMA HoldsTick ==
  ASSUME LossyInv, Tick, sinceLoss' = Later(sinceLoss, LongAgo)
  PROVE  \A p \in Process : Holds(p)'
<1> SUFFICES ASSUME NEW q \in Process PROVE Holds(q)'
  OBVIOUS
<1>1. sinceLoss \in Nat /\ sinceLoss' \in Nat /\ sinceLoss' <= sinceLoss + 1
  BY TimingAssumption, SMT DEF LossyInv, Later, LongAgo, Deadline, Margin
<1> QED
  BY <1>1, TimingAssumption, SMTT(60)
  DEF LossyInv, LeaseBase, TypeOK, KeyInv, Places, Holds, Kept, Covered, Granted, Owns, Calls, Scripts, Margin,
      Empty, Tick, OnTime, Later

\* Every ask that a process counts from was made before a loss that happens now.
LEMMA HoldsLoss ==
  ASSUME LossyInv, RedisForgets, sinceLoss' = 0
  PROVE  LossyInv'
<1>1. LeaseBase'
  <2>1. 0 \in 0 .. TTL
    BY TimingAssumption, SMT
  <2>2. lease' \in [holder : Process \cup {Nobody}, left : 0 .. TTL] /\ KeyInv'
    BY <2>1 DEF RedisForgets, KeyInv
  <2>3. UNCHANGED <<wire, proc>>
    BY DEF RedisForgets
  <2>4. TypeOK'
    BY <2>2, <2>3 DEF LossyInv, LeaseBase, TypeOK, proc
  <2>5. \A p \in Process : Places(p)'
    BY <2>3 DEF LossyInv, LeaseBase, Places, proc
  <2> QED
    BY <2>2, <2>4, <2>5 DEF LeaseBase
<1>2. ASSUME NEW p \in Process PROVE Holds(p)'
  BY SMT DEF LossyInv, LeaseBase, TypeOK, Calls, Holds, Kept, Granted, RedisForgets, proc
<1> QED
  BY <1>1, <1>2 DEF LossyInv

LEMMA LossyInvariant == LossySpec => []LossyInv
<1>1. LossyInit => LossyInv
  <2> SUFFICES ASSUME LossyInit PROVE LossyInv
    OBVIOUS
  <2>1. LeaseBase /\ sinceLoss \in Nat
    BY LeaseInvInit, TimingAssumption, SMT DEF LossyInit, LeaseInv, LongAgo, Deadline, Margin
  <2>2. ASSUME NEW p \in Process PROVE Holds(p)
    BY TimingAssumption DEF LossyInit, Init, Holds, Granted, Idle
  <2> QED
    BY <2>1, <2>2 DEF LossyInv
<1>2. LossyInv /\ [LossyNext]_<<vars, sinceLoss>> => LossyInv'
  <2> SUFFICES ASSUME LossyInv, [LossyNext]_<<vars, sinceLoss>> PROVE LossyInv'
    OBVIOUS
  <2>1. ASSUME [Next]_vars PROVE LeaseBase'
    BY <2>1, LeaseBaseStep DEF LossyInv
  <2>2. CASE (\E p \in Process : Code(p) \/ Network(p) \/ Cancel(p) \/ Kill(p)) /\ UNCHANGED sinceLoss
    <3>1. \A p \in Process : Holds(p)'
      BY <2>2, HoldsStep
    <3> QED
      BY <2>1, <2>2, <3>1 DEF Next, LossyInv
  <2>3. CASE Tick /\ sinceLoss' = Later(sinceLoss, LongAgo)
    <3>1. \A p \in Process : Holds(p)'
      BY <2>3, HoldsTick
    <3>2. sinceLoss' \in Nat
      BY <2>3, TimingAssumption, SMT DEF LossyInv, Later, LongAgo, Deadline, Margin
    <3> QED
      BY <2>1, <2>3, <3>1, <3>2 DEF Next, LossyInv
  <2>4. CASE UNCHANGED <<vars, sinceLoss>>
    <3>1. \A p \in Process : Holds(p)'
      BY <2>4 DEF LossyInv, Holds, Kept, Covered, Granted, Owns, vars, proc
    <3> QED
      BY <2>1, <2>4, <3>1 DEF LossyInv
  <2> QED
    BY <2>2, <2>3, <2>4, HoldsLoss DEF LossyNext
<1> QED
  BY <1>1, <1>2, PTL DEF LossySpec

\* Whatever Redis loses and leaves unanswered, two processes read the gateway together only
\* until the local deadline of the one that lost the key, counted from the loss (relay.go, hold).
THEOREM ExclusionIsRestored == LossySpec => []ExclusionComesBack
<1>1. LossyInv => ExclusionComesBack
  <2> SUFFICES ASSUME LossyInv, NEW p \in Process, NEW q \in Process, p # q, upstream[p], upstream[q]
               PROVE  sinceLoss <= Deadline
    BY DEF ExclusionComesBack
  <2>1. PICK r \in {p, q} : ~Owns(r) /\ upstream[r]
    BY DEF Owns
  <2>2. sinceLoss <= heldFor[r]
    BY <2>1 DEF LossyInv, Holds, Kept, Covered
  <2>3. heldFor[r] \in 0 .. Margin + Lag
    BY <2>1 DEF LossyInv, LeaseBase, TypeOK
  <2> QED
    BY <2>2, <2>3, TimingAssumption, SMT DEF LossyInv, Deadline, Margin
<1> QED
  BY LossyInvariant, <1>1, PTL
===============================================================================
