# A verified model of the dashboard (go-gateway-bo)

`go-gateway-bo` is the back office of a message gateway: a Go server (`src/cmd/dashboard`), run as
several interchangeable instances behind a load balancer, and a React client (`src/web`). It keeps
its accounts, sessions, audit log and notifications in PostgreSQL, elects through Redis the one
instance that reads the realtime streams of the gateway, fans these out to its browsers over
websockets, and relays everything else to the gateway over HTTP.

This directory holds TLA+ models of the parts of it whose correctness depends on what happens
*between* two statements, two requests or two instances, the TLC configurations that check them and
TLAPS proofs about them. Paths below are relative to `src/`.

- [1. Inventory](#1-inventory): what the system is made of, and what is hard in it
- [2. Modules](#2-modules): what models what
- [3. Runs](#3-runs): what is checked, with which bounds, under which fairness
- [4. Proofs](#4-proofs): what holds for every value of the constants, and why
- [5. Findings](#5-findings): where the code and its own documentation disagree
- [6. What is not modelled](#6-what-is-not-modelled) and [7. Plan](#7-plan)

`PROJECT.json` is the index: components, runs, mutants, the lines of source behind each definition
(`map`), hazards and theorems.

## 1. Inventory

| Component | State it keeps | Operations | What is hard | What makes it correct |
|---|---|---|---|---|
| **Realtime lease** `internal/hub/lease.go`, `relay.go` (`lead`, `hold`, `renew`) | one Redis key with a TTL; per process: a loop, two tickers, a local deadline | acquire, renew, release (three Lua scripts), stop | calls that time out and are applied late or twice, blocked calls, process death, Redis restarting empty | one reader of the gateway at a time; the local deadline passes before the key does; a dead holder is replaced |
| **Realtime relay** `relay.go` (`leaderView`, `beat`, `follow`), `upstream.go`, `frames.go` | status of each subject, buffered connection, watchdog | publish on a lossy Redis channel, heartbeat, reconnect with backoff, watchdog | pub/sub loses and the heartbeat repairs; a heartbeat built before a change and published after it | a follower stops showing live what nobody reads, within a bound; the alarm is never false; a lost change is repaired by a heartbeat |
| **Realtime sockets** `hub.go` | statuses, subscriptions, a bounded queue and the permissions of each socket, `draining` | serve, subscribe, revalidate, publish, drain | slow readers, permissions taken away while frames are queued, subscribing during a publication, entering during the drain | what a socket shows is true or about to be corrected, or the socket is closed |
| **First factor** `auth/authenticator.go`, `store/counters.go`, `store/logins.go` | counter rows per address and per source | login: source lock, reservation, lookup, hash, refusal or success | many instances, `now()` frozen at the start of a transaction, statements waiting for a row | no more guesses than announced; a lock ends; a lock announced is real |
| **Second factor** `bff/mfa.go`, `store/mfa.go` | TOTP secret, last step, waiting secret, recovery codes, challenges, counters | verify, enroll, confirm | each handler is 3 to 6 statements, and all of them race | a code serves once; the codes follow the secret; what is destroyed was presented |
| **Sessions** `store/sessions.go`, `session/` | rows with two lifetimes, two levels of assurance | create, resolve, elevate, revoke | elevation racing a revocation | an elevated session belongs to an active account that has a factor |
| **Access links** `store/access_links.go`, `cmd/dashboard/mail.go`, `bff/access.go` | one row per operator: kind, token hash, attempts, deadline | request, deliver by SMTP under a row lock, use, close | a mail cannot be rolled back; four kinds of transactions take two locks | the row only holds a mailed token; a superseded link is dead; every request is mailed or given up |
| **Administration** `store/admin.go` | operators, roles, permissions | assign, edit, create, delete, enable, disable | READ COMMITTED, checks that read what others are changing | no sum of two assignments, no dangling role, an author keeps the administration keys |
| **Passkeys** `store/webauthn.go`, `bff/webauthn.go` | credentials, ceremonies, signature counters | two ceremonies, removal | overlapping ceremonies, cloned authenticators, the last factor | a ceremony is judged once; a copied key is refused; the last factor stays |
| **Password hashing slots** `auth/argon2.go` | a semaphore | hash | waiting, cancelled requests | bounded memory |
| **Authorization guard** `bff/guard.go`, `permissions/` | a table of operations | one check per request | completeness of the table (a test enumerates it) | no operation without its key |
| **Audited relay** `bff/relay.go` and its handlers | two audit lines per write | intent, call, outcome | a crash or a cancellation between two of them | no write without its intent; a success or a refusal said of it is true (`failed` is neither); an outcome after each intent |
| **Gateway client** `internal/gateway` | none | a call, with one replay of a lost read | a lost write may have been applied | a write is never replayed |
| **Gateway tokens** `internal/token` | keys | sign, publish | cryptography | out of a model checker's reach |
| **Notifications** `store/notifications.go` | rows, read marks | list, mark | cursor over concurrent insertions | nothing skipped |
| **Audit log** `store/audit.go`, `partitions.go` | partitioned table | record (inside the action's transaction), create partitions | the calendar | an action and its line are together or absent |
| **Installation** `store/first_operator.go`, `seed.go`, `migrations.go` | advisory locks | seed, first operator, migrate | several instances starting together | done once |
| **Process** `cmd/dashboard/main.go`, `server.go` | contexts | start, stop | order of the stop | drain before exit |
| **Surface** `bff/router.go`, `validation.go`, generated code, metrics, assets, configuration | none | - | - | - |
| **Web client** `web/src/lib/realtime.ts` | a socket with a backoff | subscribe again after a reconnection | resubscription, stale figures | shows what the server last said |

How they interact. The instances share PostgreSQL (row locks and transactions at READ COMMITTED, never
SERIALIZABLE) and Redis (the lease and one pub/sub channel). Inside an instance, the hub's mutex is
shared by one follower of the channel and one goroutine per socket. An administrator's gesture
reaches the others only through rows: a deactivation closes sessions and links in its transaction, a
role change is seen by a socket at its next revalidation. The lease decides who feeds the channel;
every instance, the leader included, shows its browsers what comes out of the channel.

## 2. Modules

| Module | Models | Extends or instantiates |
|---|---|---|
| `SingleConsumer` | the promise of the lease: the gateway has one reader or none | - |
| `RealtimeLease` | the lease, detailed | `SingleConsumer` (refinement) |
| `LeaseTiming` | the same over a Redis that answers at once but may lose the key, with history clocks | `RealtimeLease` |
| `LossyLease` | the lease over a Redis that may lose the key, and leave any call unanswered | `RealtimeLease` |
| `RealtimeLeaseProofs` | the theorems of the three | `LeaseTiming`, `LossyLease` |
| `RealtimeRelay` | the status of a subject, from the gateway to a follower | `SingleConsumer` (who leads) |
| `HubClients` | the sockets of one instance and its follower | - |
| `RealtimeProofs` | the theorems of both | `RealtimeRelay`, `HubClients` |
| `AttemptCounter` | a counter row and the statements on it | - |
| `FirstFactor`, `MCFirstFactor`, `FirstFactorProofs` | login, over two counters | `AttemptCounter` |
| `SecondFactor`, `MCSecondFactor`, `SecondFactorProofs` | verify, enroll and confirm; sessions and challenges around them | - |
| `AccessLinks`, `AccessLinksProofs` | the link of one operator; the mail worker; deactivation | - |
| `Passkeys`, `MCPasskeys`, `PasskeysProofs` | the two ceremonies, the signature counter, the removal of a key | - |
| `Administration`, `MCAdministration`, `AdministrationProofs` | roles, permissions, the lockout check | - |
| `AuditedRelay`, `MCAuditedRelay`, `AuditedRelayProofs` | the operations relayed to the gateway and their audit lines | - |

Conventions. A step is what the program does atomically: one SQL statement (in a transaction, up to
the row lock it waits for), one Lua script, one critical section of a mutex, one channel operation.
What a request or a goroutine holds between two steps is a record `req[r]`, `tx[t]`, `call[c]`,
`work[w]` whose field `at` is its place in the code. Rows are shared variables. A variable marked
*history* is not in the program: it records what a property speaks of and guards nothing. An operator
marked *Mutant of X* is a plausible wrong version of X; no action uses it, and substituting it for X
breaks the property that `PROJECT.json` names.

**RealtimeLease.** `lease` is the Redis key and its remaining time. `wire[p]` is the set of commands
that Redis may still apply for `p`: a command stays there after its caller has given up, may be
applied any number of ticks later, and twice (go-redis retries). `RedisApplies` is the three Lua
scripts; `Run`, `Attempt`, `AcquireHeld`, `AcquireRefused`, `LeadReturns` are `lead`; `AskRenewal`,
`RenewalGranted`, `RenewalRefused` are the renewal goroutine; `TakeRenewed`, `HoldEnds`,
`CloseUpstream`, `HoldReturns`, `ReleaseDone` are `hold`. Between the moment `hold` decides to stop
and the moment the connection is really closed there is a step (`CloseUpstream`), and `Lag` bounds how
late it may be. `RedisForgets` (an empty restart) is not part of `Next`: exclusion does not survive it. Two
modules measure by how much: `LossyLease` adds it to everything else Redis may do, with the time since the
last loss (`sinceLoss`, history); `LeaseTiming` adds it to a Redis that answers at once. In the latter, time
passes only while no call is under way, nobody is stopping and no tick is due (`PromptTick`); `vacant` and
`doubled` (history) count the ticks without a reader and with two.

**AttemptCounter / FirstFactor.** A row is a number and an age. A statement carries the age of its own
`now()`, because PostgreSQL freezes it at the start of the transaction: one that waited `Patience` for
the row writes an instant of the past. `ReserveEmail` is the upsert of `reserve` and the reading of
`admitted`; `Look`, `Judge`, `Refuse`, `Clear`, `Challenge` follow `Login`; `Drop` is any
error or cancellation between two statements. The `now()` of two transactions are taken as distinct
(section 5 says what equal ones do). `admitted` (history) is the set of the attempts admitted on an address
since its last success, with their ages, so that what a window let through is the size of a set. `cleared`
(history) is the set of the requests in flight whose address a success cleared after they were admitted on
it: only they may announce a lock that is there no more.

**SecondFactor.** One operator. A TOTP code is a pair of a secret and a step; recovery codes are
those handed over with a secret, so a code is named by its secret. `Start`, `Admit`, `ReadState`,
`ReadFactors`, `Reserve`, `Judge*`, `ConsumeStep`, `ConsumeRecoveryCode`, `Clear`, `Fail`, `Release`,
`Spend`, `Elevate` are `VerifyMfa` and the proof that the other two handlers ask for; `Enroll`,
`EnrollPending`, `Confirm` are theirs: a transaction of several statements, all behind the update of the
operator's row, is one step. `Elsewhere` is what other code does to the same rows: logins,
logouts, passkeys, deactivation, a reset link.

**AccessLinks.** One operator, one row. `Take` to `Record`/`Postpone`/`Abort` is `DeliverNext`: the
worker holds the lock of the row while the SMTP exchange runs, the mail goes out before the commit, and
both may fail. `Ask`, `ChooseKind`, `RequestLink` are `RequestAccessLink`; `Disable`,
`CloseAccessLink` are `SetOperatorStatus`; `Present`, `FindOperator`, `Consume` are the use of a link,
whose password hash is computed between the first check and the transaction. Only the delivery loop holds the
lock of the link over several steps; a caller takes the lock of the link in the step that uses it, under that of the
operator, so that `LocksAreLeft` sees a lock that is never released, not two taken in the wrong order. `stale` (history) holds
the tokens that were replaced, closed or used.

**Administration.** Transactions statement by statement; `KeysSeen` is a READ COMMITTED snapshot: what
is committed when the statement starts and what the transaction itself wrote. `lock` is FOR UPDATE,
`share` the FOR KEY SHARE that a foreign key takes.

**HubClients.** Two subjects stand for four: *billing* needs a permission; *notifications* needs none,
follows the status of billing, and is filtered frame by frame. `SetStatus`, `Publish`, `Mirror`,
`PublishData` are the follower, with the gap between the change of a status under the mutex and its
publication; `Enter`, `Accept`, `Subscribe`, `Forbid`, `Unsubscribe`, `Revalidate`, `DropForbidden`,
`TellForbidden`, `Write`, `Close`, `Leave` are `Serve`; `Drain` is the end of `Run`.

**RealtimeRelay.** One subject, one follower. `leader` follows `SingleConsumer`, which `RealtimeLease`
implements: `TakeLease` and `LoseLease` are its two steps, with what `hold` starts and cancels. `Dial`,
`Falls` and `Report` are `consume`: the view changes under its mutex (`Change`) and is published after it,
so `MakeBeat` and `SendBeat`, the heartbeat, may fall between the two. `air` is what was published and
not received: up to `Delay` old, in any order (two goroutines publish on two connections, and a
publication that its context gave up may still land), and lost while Redis is away (`up`). `Receive` and
`Watch` are `follow`; `Restart` is an instance that starts. `liveAge` and `calm` (history) time what the
properties speak of. Cutting the backoff and the silence timer of an upstream leaves a feed that falls,
and comes back, at any moment.

**Passkeys.** One operator. `Begin` and `Finish` are the two ceremonies, from the session that the
middleware resolved (`Start`) to `IssueCeremony`, or through `LiveCeremony`, `ConsumeCeremony` and
`Judge` to `Register` or `ConsumeSignCount`. `IssueStarts` is the snapshot of the opening statement: two
openings that overlap do not put out each other's ceremony. `LockOperator`, `Inventory`, `Delete` are
`Remove`. Whoever answers chooses the key and the counter he shows, as the holder of a copy would; he can
only sign for a challenge he was given. Ages of ceremonies are their numbers, in the order of
`created_at`. `Elsewhere` is what logins, the other factor, a reset link and an administrator do to the
same rows.

**AuditedRelay.** `Operations` are the 37 handlers, each described by what it does with the gateway: a
write or a read, a reading first, a body expected, the refusals it passes on. `Intend`, the call,
`Conclude` are `auditRelayed`; `Relay` is the handler of a read; `Looked` is the category that an edit
reads before it announces it. `wire[r]` holds the attempts of a write that the gateway has not served: a
lost answer, a closed tab or a dead process leave them there, to be applied at any later moment.
`Outcome` has two values, as the code: whatever is not an acceptance is `failed`, the write whose answer was
lost, or was a 5xx, and which was or will be applied, included. `VerdictsHold` therefore speaks of successes
and refusals, and of `failed` only that it never stands beside a success.
`WorthReplaying` and `Again` are `replayReadsOnce`.

## 3. Runs

No run checks deadlock: every one of these systems may legitimately stop (all processes killed,
nobody logging in, bounds used up).

| Run | Question | Instance |
|---|---|---|
| `Lease` | Is there one reader at most, does it own the key, is the key never taken from its owner, and is `SingleConsumer` implemented? If Redis ends up answering and one process stays up, is the gateway read again and again? | 2 processes, TTL 3, Every 1, Lag 0, `FairSpec` |
| `LeaseTiming` | Is a killed holder replaced within TTL + Every (the announced eight seconds)? How long may two read each time Redis loses the key? | 3 processes, TTL 6, Every 2, two losses |
| `RealtimeRelay` | How long is a subject shown live after nobody reads it? Is the alarm ever false? Is a lost or overtaken change repaired, also while the gateway stays down? | 1 process, Every 1, Timeout 3, Delay 1, `FairSpec` |
| `FirstFactor` | Bounds on attempts per address and per source; is an announced lock there, unless a success cleared it, and does it end? | 3 requests, 1 address, Window 3, Threshold 2, Patience 1 |
| `SecondFactor` | Single use of codes and challenges, codes and secrets together, bounded guesses, elevation with a factor | 2 requests, 1 session, 3 secrets, 2 steps, Threshold 2 |
| `Passkeys` | Single use of a ceremony, refusal of a copied key, the last factor | 2 requests, 1 session, 2 keys, counters 0 and 1, 3 openings |
| `AccessLinks` | Mails and row agree; locks are left; a request ends mailed, given up or replaced | 2 workers, 2 callers, 3 tokens, 2 attempts, 1 fault |
| `HubClients` | Truth of what a socket shows, order of status and data, revocation, drain, end of a slow socket | 1 socket, queue of 2 |
| `Administration` | Assignments do not add up, deletion waits, an undisturbed check keeps the keys | 2 operators, 2 roles, 2 transactions |
| `AuditedRelay` | Is everything announced, applied once at most, and followed by its outcome? Is a success, or a refusal, said of a write true? | 2 requests: one for any operation, one that edits the sender ID; 2 categories, `FairSpec` |
| `ReplacementRace`, `CategoryRace` | the two [findings](#5-findings) | as `SecondFactor`; two edits of one sender ID |

Why the bounds are enough to see the interesting cases:

- *Lease.* Two processes are enough for exclusion and hand-over; three for the timing, where one dies,
  one takes over and one waits. TTL = 3 Every is the ratio of the code; the theorems cover every other one
  that the assumption allows, and every Lag. `Lag` 0 in `LeaseTiming` because it times the protocol
  itself, with calls and shutdowns that take no time; two losses, the second while two already read.
- *Relay.* A process that loses the lease and takes it again has the same new view as another one would:
  one is enough. Timeout = 3 Every is the ratio of the code; Delay 1 lets a heartbeat be overtaken by a
  change and arrive after it. The theorem covers every other value.
- *First factor.* One request more than the threshold admits, a window longer than a request's life
  plus the patience of a statement, so that windows expire while requests are in flight. That
  `Life + Patience < Window` is an assumption of the module: a request lives thirty seconds at most
  (`apiRequestDeadline`, `hardening.go`), a window lasts fifteen minutes. One address: two of them share only
  the source row, whose overshoot needs no second address.
- *Second factor.* Two racing requests are every pairwise race of statements; three secrets are one in
  force, one waiting, one being drawn.
- *Passkeys.* Two racing requests; two keys are one removed beside one that stays or goes; a counter
  that advances needs 0 and 1; three openings are one replaced by two that overlap.
- *Access links.* Two workers and two callers are every pair of transactions on the row; three tokens
  are one recorded, one in a mailbox, one being sent. Names of tokens are reused once nobody holds them.
- *Administration.* Two transactions are every pair of gestures; one default and one custom role, so
  that an assignment gives or takes a role that the other transaction edits or deletes.
- *Sockets.* Sockets share nothing but the hub's status: one, against the follower and the drain, shows
  every interleaving. A queue of 2 fills, overflows and drains with a status still behind a frame.
- *Audited relay.* Requests meet in one place only, the category of the sender ID: one request for any
  operation beside one that edits it is every such meeting. The client sends at most two attempts.

Fairness, and why the code gives it:

- `RealtimeLease!Fairness`: weak fairness of every goroutine's next step, of time, and of Redis
  answering the calls of a live process. `Takeover` adds, as a hypothesis of the property, that Redis
  *settles*: after some moment calls are answered before their timeout. Without it a hostile network may
  drop every acquisition and nobody should be expected to read.
- `RealtimeRelay!Fairness`: goroutines run, time passes, and what is in the air is received or lost.
  Nothing makes Redis come back, a dial succeed (`consume` may fail to dial for ever), a connection fall or
  the lease be taken: `Repaired` supposes, as a hypothesis, that Redis stays up and the view and its leader
  settle, on *live* under a connection that holds or on *stale* under a gateway that stays down. Its mutant
  breaks each of the two cases.
- `AccessLinks`: weak fairness of the delivery loop (a ticker of five seconds in every instance, and a
  worker that dies is replaced by another's loop), of the end of a backoff, and of a transaction that
  holds a lock. Nobody is obliged to ask, log in or use a link.
- `HubClients`: weak fairness of a goroutine's bounded steps, strong fairness of the two `select` cases
  *stop* and *lagging*: Go's `select` picks uniformly among ready cases, so a case that is ready again
  and again is taken. No fairness of the follower or of clients.
- `AuditedRelay!Fairness`: handlers run, and the time limit of the HTTP client (`gateway/client.go`) ends
  a call that nobody answers. The gateway owes nothing.
- `LeaseTiming`, `FirstFactor`, `SecondFactor`, `Passkeys`, `Administration`: none, their properties are safety.

Each property of a passing run has a mutant in `PROJECT.json`: a definition of the model replaced by the
plausible bug written beside it, for which the same run finds the property violated.

## 4. Proofs

The eight `*Proofs` modules are checked by TLAPS; nothing is assumed but the named `ASSUME` of each
module. None of the invariants that the runs check is inductive: each proof module states one that is, as a
conjunction of named parts, and proves that every action keeps it.

**The lease** (`TypeCorrect`, `ReadersOwnTheLease`, `MutualExclusion`, `NeverStolen`, `Refinement`), for
every set of processes and every TTL, Every and Lag such that `TimingAssumption` holds: `Lag < Every` and
`2 * Every <= TTL`. The code has TTL = 3 Every; the promise asked of the scheduler is that a goroutine
woken by a timer or a cancellation closes its connection within less than `Every` (two seconds).

`AtMostOneConsumer` is not inductive: a state with one reader and, elsewhere, a granted answer still on its
way back satisfies it and leads to two. What is inductive (`LeaseInv`) is that *whoever believes in the
lease counts from an instant that is not later than the one Redis counts from*: for a reader, for a granted
answer and for an instant waiting in the `renewed` channel, the process owns the key in Redis and
`lease.left + age >= TTL`, where `age` is the time since the ask that it counts from. This is why the code
reads `asked` before the call and not after it. Two processes that believe therefore both own the key, and
are one; the deadline `Margin + Lag < TTL` passes before the key does. The refinement follows: reading
starts only when nobody reads, and never passes from one process to another in one step.

**The lease over a Redis that loses the key** (`ExclusionIsRestored`), whatever calls it leaves unanswered,
applies late or twice, and however often it loses the key: two processes read together only while the last
loss is `Margin + Lag` old at most, the local deadline of `hold` (four seconds, and the delay of a goroutine).
The invariant (`LossyInv`) is that of the lease with one alternative: whoever believes in the lease owns it
for as long as it counts on, or counts from an ask made before the loss. No run checks it: the two
processes of `Lease` with losses are three million states, for a question that the theorem settles.

**The lease over a Redis that answers at once** (`KilledHolderIsReplaced`, `DoubleReadsAreShort`), with any
number of losses of the key. The invariant of the first is `Vacancy`. Time passes without a reader only over
processes that wait, or are gone, with nothing on the wire (`Quiet`); then either somebody *comes* (a grant
on its way, a process that is stopping) and is settled before the next tick, or the key has
`TTL - vacant` left at most, or it is free and whoever waits has spent on its ticker all the time beyond TTL
(`Awaits`). Hence `TTL + Every`, and no more: the key runs out, then a ticker comes round. That of the second
is `Doubling`: whoever believes in the lease owns it for as long as it counts on, or Redis has lost the key
since; the one that lost it is then refused at its next renewal, whose ticker bounds what is left
(`Outlives`): with answers, `Every` where the local deadline alone would give `Margin`. `LeaseInv` does not
survive a loss, so both rest on a weaker base (`TimedBase`): what a command on the wire says of its process.

**The relay** (`RelayTypes`, `LiveIsNeverOld`, `WatchdogIsRight`), for every period, timeout and delay with
`Every + Delay <= Timeout`. Nothing that carries *live* is older than the reading it was made from
(`Carried`), and what a follower shows live was so at most `Delay` before its last heartbeat, hence, since
each look of the watchdog finds that heartbeat younger than `Timeout` or marks the subject stale,
`Delay + Timeout` before its last look (`Watched`). The alarm is never false because one of three holds
(`Alive`): the last heartbeat received is no older than the last one made, or the next is made and not yet
published, or it is in the air; it is `Every + Delay` old at most, or Redis and the leader were not there
for so long.

**The sockets** (`HubTypes`, `SocketsKnowTheStatus`, `DataFollowsStatus`, `NobodyAfterTheDrain`,
`RevocationIsFollowed`), for any number of sockets and any queue. What is published is what the hub knows
(`Following`), the gap between the two being the critical section's end; and a check that refuses a subject
unsubscribes before the socket is served again (`Subscribed`), so that a refusal is never said to a
subscriber. The queue is handled by lemmas on *the last word of a queue on a subject*: what an offered frame,
a frame of another subject, or a frame that leaves for the browser do to it.

**First factor** (`FirstFactorTypes`, `LockDeadlineIsKept`, `SourceIsNotForgiven`, `AttemptsAreBounded`,
`AnnouncedLocksAreReal`, `SourceOvershootIsBounded`), for every number of requests, addresses and sources.
`CounterRows` says what each statement does to a row whatever the age of its `now()`: a locked row is left as
it is by `Reserve`, and `Count` only forgets an old one. `Counted` relates the row to the history: what was
admitted in the last `Window - Patience` is at most what the row counts, and the row is at most `Patience`
older than any attempt. A request lives less than a window: the row that it locked admits nothing while it lives,
so that only a success can unlock it, and a success leaves its mark on every request admitted before it
(`Announcing`). The source is
counted only after the password, so that it may be overshot by the requests in flight and no more (`Burst`):
once its row is at the threshold, whoever is past `SourceLock` came in before the row was last written, or
comes to it when it is to be forgotten.

**Second factor** (`SecondFactorTypes`, `CodesServeOnce`, `CodesGoTogether`, `ChallengesServeOnce`,
`ElevationsHaveFactor`, `GuessesAreBounded`). The invariant says what a request may believe at each place: who
has proven a factor holds a session that a reset of the factors would have closed; the steps a code has served
at are not above the last step; who has spent a challenge is alone with it. An attempt is reserved before its
code is judged, maybe before the counter was cleared: the wrong codes and the attempts whose fate is open are
at most what the row counts and one more for each request (`GuessesCounted`).

**Passkeys** (`PasskeyTypes`, `LastFactorIsKept`, `NoCloneIsServed`, `NoCeremonyServesTwice`). Three
invariants over one type invariant: the row of the operator has one holder, and what it counted under its
lock stays true until its deletion (`Locked`); the counter of a row follows what its key has shown
(`Followed`); a ceremony that was judged is not live, nor is one still to be issued judged (`Fresh`). The type invariant
itself needs a budget: every ceremony issued was counted first (`Budget`).

**Access links** (`LinksTypeCorrect`, `RecordedWasMailed`, `SendersExclude`, `KindIsRight`,
`DisabledIsClosed`, `SupersededIsDead`), for every number of workers, callers, tokens, attempts and
faults. `LinksInv` says what each lock protects. While the link is locked by a worker, the row is an open
request, without a token, of an active account: a deactivation waits for that lock and closes what the
worker wrote. While the operator is locked, what the holder of the lock read stays true: that the account
is active (a request), that it has no password (an activation), that the row holds the token presented (a
use). Hence the properties, and `UseStep`: between finding the link and using it, nothing but its expiry
can change it.

**Administration** (`AdministrationTypes`, `RolesDoNotAddUp`, `DeletionsQueue`, `CheckedIsKept`).
`AdminInv` says what FOR UPDATE and FOR KEY SHARE protect: who holds the row of a role for its update
shares it with nobody (`Excludes`); between the lock of its target and its end, what a transaction read of
that target stays true (`Knows`).

**Audited relay** (`RelayTypes`, `EverythingIsAnnounced`, `WritesAreNotReplayed`, `VerdictsAreTrue`),
for every number of requests, whatever each one asks. `Tells` says, of each request, what its place and
what it holds mean for the write it sent: nothing was sent before the intention; one attempt at most is on
the wire, or was applied; a success or a refusal, in hand, in the log or in the reply, says which; and no line
of an outcome is there before the handler is done, so that `failed` is never beside a success. What `failed`
leaves open, the theorem leaves open.

Every invariant and every action property that a run checks is also a theorem. Left to TLC: what happens
in the end, under fairness, which TLAPS cannot treat (`Takeover`, `Repaired`, `Delivered`, `LocksAreLeft`,
`SlowIsClosed`, `OutcomeFollows`), and the two findings below. That `consumer` of `RealtimeLease` and `leader` of
`RealtimeRelay` are one variable rests on both modules' use of `SingleConsumer`: the refinement is a
theorem, the composed state space is not explored.

## 5. Findings

Two runs end in a violation of what the repository says of itself. Each one checks the sentence it quotes.

- **`ReplacementRace`** (`internal/bff/mfa.go:95`). `EnrollTotp` decides without proof, from a state it
  read, that an unconfirmed factor may be replaced; the write does not ask again that it is unconfirmed. A
  factor confirmed in between is replaced without being presented, with its recovery codes.
- **`CategoryRace`** (`internal/bff/sender_ids.go:203`). The category that the audit records as the one a
  sender ID leaves is read in a call of its own: of two edits that read before either writes, the second
  records a category that its write does not replace.

Seen while reading or in the states of the models, and not runs of their own:

- `store/counters.go:172`: `admitted` is `last_failure_at = now()`, which two transactions of the same
  microsecond cannot tell apart; one refused at the threshold passes.
- `store/mfa.go:135`: `ConsumeStep` sets the last step of whatever secret the row holds by then, so that a
  code checked against one secret confirms the one that replaced it.
- `store/admin.go:538`: two edits of two roles by one administrator lock two rows; each sees the other role
  still grant the key, both commit, and the author has lost it. The comment at 525 admits the race of two
  administrators, not that of one with himself; `CheckedGestureKeepsKeys` is what does hold.
- `bff/relay.go:86`: the outcome of a call without an answer, or answered by a 5xx, is recorded as `failed`,
  although the gateway may have applied it or may yet; only `attempted` alone reads as an unknown outcome
  (comment at 70). And a write answered 2xx without its body is `succeeded` in the log, "try again" for the
  browser.
- `bff/webauthn.go:106`: a registration checks the factors and inserts later: a factor enrolled in between
  does not keep a session that is not elevated from attaching a key.
- `store/webauthn.go:340`: two openings that overlap both stay live; the finish of the older tab consumes
  the newer ceremony, against which its answer fails: both tabs begin again. The comment at 368 says that
  the newest is the one the client has just received.
- A code may be presented again after a replacement of the factor that accepted it (same root as
  `ReplacementRace`); a session may be created after the deactivation that closed the others (`Resolve`
  refuses it while the account is disabled); the removal of a passkey counts a TOTP that nobody has proven;
  `Release` after a reset gives back an attempt that another request took.

## 6. What is not modelled

- *Generated code*: `gateway/client.gen.go` and `bff/bff.gen.go` are 47,848 of the 67,214 lines of the
  implementation; they encode and decode, and hold no state of their own. The share of the code that the
  map covers is therefore small, although most of the hand-written statements that change shared state are
  in it.
- *Content*: frames, mails, names, audit details, permissions other than the two administration keys.
- *Cryptography*: hashes, TOTP arithmetic, WebAuthn signatures, JWT. A secret is a name, a code is a
  secret and a step; the tolerance of one step is in the range of steps a request may present.
- *The gateway*, the mail server, PostgreSQL and Redis, beyond what their answers do to this program.
- *HTTP, validation, configuration, assets, metrics*: sequential and covered case by case by their tests.
- *Test doubles* (`internal/fakegateway`, `internal/bddtest`) and generators.
- *`notify`* (a row written before its frame is published), the backoff and the silence timer of an
  upstream, the semaphore of the hash slots, the calendar of the audit partitions, the cursor of the
  notifications, the installation commands.
- *The web client*, except as the reader of a socket.

## 7. Plan

Done, in this order: `RealtimeLease`, `AttemptCounter` and `FirstFactor`, `SecondFactor`, `AccessLinks`,
`HubClients`, `Administration`, `RealtimeRelay`, `Passkeys`, `AuditedRelay`, `LeaseTiming`; proofs of all of
them.

Next, by decreasing interest:

1. `notify` and the cursor of the notifications: a row written, its frame lost, a list read meanwhile.
2. Installation: seed, first operator and migrations by several instances, under advisory locks.
3. The hash slots and their wait; the resubscription of the web client after a reconnection.
