-------------------------- MODULE AccessLinksProofs --------------------------
(***************************************************************************)
(* The safety of access links, for any number of workers, of callers, of   *)
(* tokens and of faults.                                                   *)
(*                                                                         *)
(* None of the properties is inductive.  What carries them is what each of *)
(* the two locks protects: while the link is locked its row is an open     *)
(* request of an active account; while the operator is locked, what the    *)
(* holder of the lock read of the account, or of the link, stays true.     *)
(***************************************************************************)
EXTENDS AccessLinks, TLAPS

Locking == {"asking", "writing", "disabling", "consuming"}

LinkLockInv == linkLock # None =>
    /\ link.kind # None /\ link.token = None /\ link.attempts < MaxAttempts
    /\ link.due /\ active

LinkInv ==
    /\ link.token # None => link.due /\ link.token \in mailed
    /\ link.token # None /\ ~link.expired => link.token \notin stale
    /\ link.kind = "activation" => ~password
    /\ factors => password

RowInv == LinkLockInv /\ LinkInv /\ DisabledHasNoLink

WorkerInv(w) ==
    /\ work[w].at # "idle" <=> linkLock = w
    /\ work[w].at \in {"sending", "recording"} => work[w].token \in Token \ stale
    /\ work[w].at = "recording" => work[w].token \in mailed

CallerInv(c) ==
    /\ call[c].at \in Locking <=> opLock = c
    /\ call[c].at \in {"asking", "writing"} => active
    /\ call[c].at = "writing" =>
           call[c].kind # None /\ (call[c].kind = "activation" => ~password)
    /\ call[c].at \in {"hashing", "consuming"} => call[c].token \in Token
    /\ call[c].at = "consuming" => link.token = call[c].token

LinksInv ==
    /\ TypeOK /\ RowInv
    /\ \A w \in Worker : WorkerInv(w)
    /\ \A c \in Caller : CallerInv(c)

USE AccessLinksAssumption
USE DEF LinksInv

\* The initial states satisfy the invariant.
LEMMA LinksInvInit == Init => LinksInv
<1> SUFFICES ASSUME Init PROVE LinksInv
  OBVIOUS
<1>1. link = [kind |-> "activation", token |-> None, attempts |-> 0,
              due |-> TRUE, parked |-> FALSE, expired |-> FALSE]
  BY Zenon DEF Init, Asked, NoLink
<1>2. TypeOK
  <2>1. 0 \in 0 .. MaxAttempts /\ 0 \in 0 .. MaxFaults
    BY SMT
  <2>2. link \in Row
    BY <1>1, <2>1, Zenon DEF Row, Kind
  <2>3. Idle \in Job /\ Free \in Call
    BY Zenon DEF Idle, Free, Job, Call, Kind
  <2> QED
    BY <2>1, <2>2, <2>3 DEF Init, TypeOK
<1>3. RowInv
  BY <1>1, SMT DEF Init, RowInv, LinkLockInv, LinkInv, DisabledHasNoLink
<1>4. ASSUME NEW w \in Worker PROVE WorkerInv(w)
  BY SMT DEF Init, WorkerInv, Idle
<1>5. ASSUME NEW c \in Caller PROVE CallerInv(c)
  BY SMT DEF Init, CallerInv, Free, Locking
<1> QED
  BY <1>2, <1>3, <1>4, <1>5

\* Every step of a worker keeps the types.
LEMMA DeliverKeepsTypes ==
  ASSUME LinksInv, NEW w \in Worker, Deliver(w) \/ Abort(w)
  PROVE  TypeOK'
<1> USE DEF TypeOK, Leave, world, history
<1>0. Idle \in Job
  BY Zenon DEF Idle, Job
<1>1. ASSUME NEW t \in Token, Take(w, t) PROVE TypeOK'
  <2>1. [at |-> "sending", token |-> t] \in Job
    BY Zenon DEF Job
  <2> QED
    BY <1>1, <2>1 DEF Take
<1>2. CASE Sent(w)
  <2>1. [work[w] EXCEPT !.at = "recording"] \in Job
    BY Zenon DEF Job
  <2>2. work[w].token \in Token
    BY <1>2, SMT DEF Sent, WorkerInv
  <2> QED
    BY <1>2, <2>1, <2>2 DEF Sent
<1>3. ASSUME NEW taken \in BOOLEAN, SendFails(w, taken) PROVE TypeOK'
  <2>1. [work[w] EXCEPT !.at = AfterFailure] \in Job
    BY Zenon DEF Job, AfterFailure
  <2>2. work[w].token \in Token
    BY <1>3, SMT DEF SendFails, WorkerInv
  <2> QED
    BY <1>3, <2>1, <2>2 DEF SendFails
<1>4. CASE Record(w)
  <2>1. work[w].token \in Token
    BY <1>4, SMT DEF Record, WorkerInv
  <2>2. link' \in Row
    BY <1>4, <2>1, Zenon DEF Record, Row
  <2> QED
    BY <1>0, <1>4, <2>2 DEF Record
<1>5. CASE Postpone(w)
  <2>1. link.attempts + 1 \in 0 .. MaxAttempts
    <3>1. linkLock # None
      BY <1>5, SMT DEF Postpone, WorkerInv
    <3>2. link.attempts \in 0 .. MaxAttempts
      BY Zenon DEF Row
    <3> QED
      BY <3>1, <3>2, SMT DEF RowInv, LinkLockInv
  <2>2. link' \in Row
    BY <1>5, <2>1, Zenon DEF Postpone, PostponedRow, Row
  <2> QED
    BY <1>0, <1>5, <2>2 DEF Postpone
<1>6. CASE Abort(w)
  <2>1. faults + 1 \in 0 .. MaxFaults
    BY <1>6, SMT DEF Abort
  <2>2. stale' \subseteq Token
    BY <1>6 DEF Abort
  <2> QED
    BY <1>0, <1>6, <2>1, <2>2 DEF Abort
<1> QED
  BY <1>1, <1>2, <1>3, <1>4, <1>5, <1>6 DEF Deliver

\* Every step of an administrator or of a link holder keeps the types.
LEMMA ServeKeepsTypes ==
  ASSUME LinksInv, NEW c \in Caller, Serve(c)
  PROVE  TypeOK'
<1> USE DEF TypeOK, Begin, Finish, Unlock, Superseded, world, history
<1>0. /\ Free \in Call /\ NoLink \in Row
      /\ \A kind \in Kind : Asked(kind) \in Row
  <2>1. 0 \in 0 .. MaxAttempts
    BY SMT
  <2>2. NoLink \in Row
    BY <2>1, Zenon DEF NoLink, Row, Kind
  <2>3. \A kind \in Kind : Asked(kind) \in Row
    BY <2>2, Zenon DEF Asked, Row
  <2>4. Free \in Call
    BY Zenon DEF Free, Call, Kind
  <2> QED
    BY <2>2, <2>3, <2>4
<1>a. ASSUME NEW t \in Token \cup {None},
             NEW place \in {"idle", "asking", "writing", "disabling", "hashing", "consuming"}
      PROVE  [Free EXCEPT !.at = place, !.token = t] \in Call
  BY <1>0, Zenon DEF Call
<1>b. link.token \in Token \cup {None}
  BY Zenon DEF Row
<1>c. call[c].token \in Token \cup {None} /\ call[c].kind \in Kind
  BY Zenon DEF Call
<1>1. CASE Ask(c)
  <2>1. [Free EXCEPT !.at = "asking", !.token = None] \in Call
    BY <1>a, Zenon
  <2> QED
    BY <1>1, <2>1 DEF Ask, LocksOperator
<1>2. CASE ChooseKind(c)
  <2>1. [call[c] EXCEPT !.at = "writing", !.kind = IF password THEN "reset" ELSE "activation"] \in Call
    BY Zenon DEF Call, Kind
  <2> QED
    BY <1>2, <2>1 DEF ChooseKind
<1>3. CASE RequestLink(c)
  BY <1>3, <1>0, <1>b, <1>c, SMT DEF RequestLink
<1>4. CASE Disable(c)
  <2>1. [Free EXCEPT !.at = "disabling", !.token = None] \in Call
    BY <1>a, Zenon
  <2> QED
    BY <1>4, <2>1 DEF Disable
<1>5. CASE CloseAccessLink(c)
  <2>1. [NoLink EXCEPT !.kind = "activation", !.due = TRUE, !.parked = TRUE] \in Row
    BY <1>0, Zenon DEF Row, Kind
  <2>2. link' \in Row
    BY <1>5, <1>0, <2>1, Zenon DEF CloseAccessLink, CloseLink
  <2>3. stale' \subseteq Token
    BY <1>5, <1>b DEF CloseAccessLink
  <2> QED
    BY <1>5, <1>0, <2>2, <2>3 DEF CloseAccessLink
<1>6. ASSUME NEW t \in Token, Present(c, t) PROVE TypeOK'
  <2>1. [Free EXCEPT !.at = "hashing", !.token = t] \in Call
    BY <1>a, Zenon
  <2> QED
    BY <1>6, <2>1 DEF Present
<1>7. CASE FindOperator(c)
  <2>1. [call[c] EXCEPT !.at = "consuming"] \in Call
    BY Zenon DEF Call
  <2> QED
    BY <1>7, <1>0, <2>1, SMT DEF FindOperator
<1>8. CASE Consume(c)
  <2>1. call[c].token \in Token
    BY <1>8, SMT DEF Consume, CallerInv
  <2> QED
    BY <1>8, <1>0, <2>1 DEF Consume
<1>9. CASE GiveUp(c)
  BY <1>9, <1>0, SMT DEF GiveUp
<1> QED
  BY <1>1, <1>2, <1>3, <1>4, <1>5, <1>6, <1>7, <1>8, <1>9 DEF Serve

\* Every step keeps the types.
LEMMA TypesStep == LinksInv /\ [Next]_vars => TypeOK'
<1> SUFFICES ASSUME LinksInv, [Next]_vars PROVE TypeOK'
  OBVIOUS
<1> USE DEF TypeOK, world, history
<1>1. CASE BackoffEnds
  <2>1. [link EXCEPT !.due = TRUE] \in Row
    BY Zenon DEF Row
  <2> QED
    BY <1>1, <2>1 DEF BackoffEnds
<1>2. CASE Expire
  <2>1. [link EXCEPT !.expired = TRUE] \in Row /\ link.token \in Token \cup {None}
    BY Zenon DEF Row
  <2> QED
    BY <1>2, <2>1, SMT DEF Expire
<1>3. CASE Reactivate
  BY <1>3 DEF Reactivate
<1>4. CASE Enrol
  BY <1>4 DEF Enrol
<1>5. CASE UNCHANGED vars
  BY <1>5 DEF vars
<1> QED
  BY <1>1, <1>2, <1>3, <1>4, <1>5, DeliverKeepsTypes, ServeKeepsTypes DEF Next


\* Every step of a worker keeps what the two locks protect.
LEMMA DeliverKeepsInv ==
  ASSUME LinksInv, NEW w \in Worker, Deliver(w) \/ Abort(w)
  PROVE  /\ RowInv'
         /\ \A v \in Worker : WorkerInv(v)'
         /\ \A c \in Caller : CallerInv(c)'
<1> DEFINE Kept == RowInv' /\ (\A v \in Worker : WorkerInv(v)') /\ \A c \in Caller : CallerInv(c)'
<1> USE DEF RowInv, LinkLockInv, LinkInv, DisabledHasNoLink, WorkerInv, CallerInv, Locking
<1> USE DEF TypeOK, Row, Job, Call, Kind, Leave, Idle, world, history
<1>1. ASSUME NEW t \in Token, Take(w, t) PROVE Kept
  <2>1. RowInv'
    BY <1>1, SMTT(20) DEF Take, Due, AttemptsLeft, Unlocked, NewToken
  <2>2. ASSUME NEW v \in Worker PROVE WorkerInv(v)'
    BY <1>1, SMTT(20) DEF Take, Due, AttemptsLeft, Unlocked, NewToken
  <2>3. ASSUME NEW c \in Caller PROVE CallerInv(c)'
    BY <1>1, SMTT(20) DEF Take, Due, AttemptsLeft, Unlocked, NewToken
  <2> QED
    BY <2>1, <2>2, <2>3
<1>2. CASE Sent(w)
  <2>1. RowInv'
    BY <1>2, SMTT(20) DEF Sent
  <2>2. ASSUME NEW v \in Worker PROVE WorkerInv(v)'
    BY <1>2, SMTT(20) DEF Sent
  <2>3. ASSUME NEW c \in Caller PROVE CallerInv(c)'
    BY <1>2, SMTT(20) DEF Sent
  <2> QED
    BY <2>1, <2>2, <2>3
<1>3. ASSUME NEW taken \in BOOLEAN, SendFails(w, taken) PROVE Kept
  <2>1. RowInv'
    BY <1>3, SMTT(20) DEF SendFails, AfterFailure
  <2>2. ASSUME NEW v \in Worker PROVE WorkerInv(v)'
    BY <1>3, SMTT(20) DEF SendFails, AfterFailure
  <2>3. ASSUME NEW c \in Caller PROVE CallerInv(c)'
    BY <1>3, SMTT(20) DEF SendFails, AfterFailure
  <2> QED
    BY <2>1, <2>2, <2>3
<1>4. CASE Record(w)
  <2>1. RowInv'
    BY <1>4, SMTT(20) DEF Record
  <2>2. ASSUME NEW v \in Worker PROVE WorkerInv(v)'
    BY <1>4, SMTT(20) DEF Record
  <2>3. ASSUME NEW c \in Caller PROVE CallerInv(c)'
    BY <1>4, SMTT(20) DEF Record
  <2> QED
    BY <2>1, <2>2, <2>3
<1>5. CASE Postpone(w)
  <2>1. RowInv'
    BY <1>5, SMTT(20) DEF Postpone, PostponedRow
  <2>2. ASSUME NEW v \in Worker PROVE WorkerInv(v)'
    BY <1>5, SMTT(20) DEF Postpone, PostponedRow
  <2>3. ASSUME NEW c \in Caller PROVE CallerInv(c)'
    BY <1>5, SMTT(20) DEF Postpone, PostponedRow
  <2> QED
    BY <2>1, <2>2, <2>3
<1>6. CASE Abort(w)
  <2>1. RowInv'
    BY <1>6, SMTT(20) DEF Abort
  <2>2. ASSUME NEW v \in Worker PROVE WorkerInv(v)'
    BY <1>6, SMTT(20) DEF Abort
  <2>3. ASSUME NEW c \in Caller PROVE CallerInv(c)'
    BY <1>6, SMTT(20) DEF Abort
  <2> QED
    BY <2>1, <2>2, <2>3
<1> QED
  BY <1>1, <1>2, <1>3, <1>4, <1>5, <1>6 DEF Deliver


\* Every step of an administrator or of a link holder keeps what the locks protect.
LEMMA ServeKeepsInv ==
  ASSUME LinksInv, NEW c \in Caller, Serve(c)
  PROVE  /\ RowInv'
         /\ \A w \in Worker : WorkerInv(w)'
         /\ \A d \in Caller : CallerInv(d)'
<1> DEFINE Kept == RowInv' /\ (\A w \in Worker : WorkerInv(w)') /\ \A d \in Caller : CallerInv(d)'
<1> USE DEF RowInv, LinkLockInv, LinkInv, DisabledHasNoLink, WorkerInv, CallerInv, Locking
<1> USE DEF TypeOK, Row, Job, Call, Kind, Begin, Finish, Unlock, Free, world, history
<1>1. CASE Ask(c)
  <2>1. RowInv'
    BY <1>1, SMTT(20) DEF Ask, LocksOperator
  <2>2. ASSUME NEW w \in Worker PROVE WorkerInv(w)'
    BY <1>1, SMTT(20) DEF Ask, LocksOperator
  <2>3. ASSUME NEW d \in Caller PROVE CallerInv(d)'
    BY <1>1, SMTT(20) DEF Ask, LocksOperator
  <2> QED
    BY <2>1, <2>2, <2>3
<1>2. CASE ChooseKind(c)
  <2>1. RowInv'
    BY <1>2, SMTT(20) DEF ChooseKind
  <2>2. ASSUME NEW w \in Worker PROVE WorkerInv(w)'
    BY <1>2, SMTT(20) DEF ChooseKind
  <2>3. ASSUME NEW d \in Caller PROVE CallerInv(d)'
    BY <1>2, SMTT(20) DEF ChooseKind
  <2> QED
    BY <2>1, <2>2, <2>3
<1>3. CASE RequestLink(c)
  <2>1. RowInv'
    BY <1>3, SMTT(20) DEF RequestLink, Superseded, Asked, NoLink
  <2>2. ASSUME NEW w \in Worker PROVE WorkerInv(w)'
    BY <1>3, SMTT(20) DEF RequestLink, Superseded, Asked, NoLink
  <2>3. ASSUME NEW d \in Caller PROVE CallerInv(d)'
    BY <1>3, SMTT(20) DEF RequestLink, Superseded, Asked, NoLink
  <2> QED
    BY <2>1, <2>2, <2>3
<1>4. CASE Disable(c)
  <2>1. RowInv'
    BY <1>4, SMTT(20) DEF Disable
  <2>2. ASSUME NEW w \in Worker PROVE WorkerInv(w)'
    BY <1>4, SMTT(20) DEF Disable
  <2>3. ASSUME NEW d \in Caller PROVE CallerInv(d)'
    BY <1>4, SMTT(20) DEF Disable
  <2> QED
    BY <2>1, <2>2, <2>3
<1>5. CASE CloseAccessLink(c)
  <2>1. RowInv'
    BY <1>5, SMTT(20) DEF CloseAccessLink, CloseLink, Superseded, NoLink
  <2>2. ASSUME NEW w \in Worker PROVE WorkerInv(w)'
    BY <1>5, SMTT(20) DEF CloseAccessLink, CloseLink, Superseded, NoLink
  <2>3. ASSUME NEW d \in Caller PROVE CallerInv(d)'
    BY <1>5, SMTT(20) DEF CloseAccessLink, CloseLink, Superseded, NoLink
  <2> QED
    BY <2>1, <2>2, <2>3
<1>6. ASSUME NEW t \in Token, Present(c, t) PROVE Kept
  <2>1. RowInv'
    BY <1>6, SMTT(20) DEF Present, Usable
  <2>2. ASSUME NEW w \in Worker PROVE WorkerInv(w)'
    BY <1>6, SMTT(20) DEF Present, Usable
  <2>3. ASSUME NEW d \in Caller PROVE CallerInv(d)'
    BY <1>6, SMTT(20) DEF Present, Usable
  <2> QED
    BY <2>1, <2>2, <2>3
<1>7. CASE FindOperator(c)
  <2>1. RowInv'
    BY <1>7, SMTT(20) DEF FindOperator
  <2>2. ASSUME NEW w \in Worker PROVE WorkerInv(w)'
    BY <1>7, SMTT(20) DEF FindOperator
  <2>3. ASSUME NEW d \in Caller PROVE CallerInv(d)'
    BY <1>7, SMTT(20) DEF FindOperator
  <2> QED
    BY <2>1, <2>2, <2>3
<1>8. CASE Consume(c)
  <2>1. RowInv'
    <3>1. CASE StillUsable(call[c].token)
      <4>1. link' = NoLink /\ password' /\ UNCHANGED <<active, linkLock>>
        BY <1>8, <3>1 DEF Consume
      <4>2. linkLock = None
        BY <1>8, <3>1, SMT DEF Consume, StillUsable, Usable
      <4>3. NoLink.kind = None /\ NoLink.token = None
        BY SMT DEF NoLink
      <4> QED
        BY <4>1, <4>2, <4>3, SMT
    <3>2. CASE ~StillUsable(call[c].token)
      BY <1>8, <3>2 DEF Consume
    <3> QED
      BY <3>1, <3>2
  <2>2. ASSUME NEW w \in Worker PROVE WorkerInv(w)'
    BY <1>8, SMTT(20) DEF Consume, StillUsable, Usable, NoLink
  <2>3. ASSUME NEW d \in Caller PROVE CallerInv(d)'
    BY <1>8, SMTT(20) DEF Consume, StillUsable, Usable, NoLink
  <2> QED
    BY <2>1, <2>2, <2>3
<1>9. CASE GiveUp(c)
  <2>1. RowInv'
    BY <1>9, SMTT(20) DEF GiveUp
  <2>2. ASSUME NEW w \in Worker PROVE WorkerInv(w)'
    BY <1>9, SMTT(20) DEF GiveUp
  <2>3. ASSUME NEW d \in Caller PROVE CallerInv(d)'
    BY <1>9, SMTT(20) DEF GiveUp
  <2> QED
    BY <2>1, <2>2, <2>3
<1> QED
  BY <1>1, <1>2, <1>3, <1>4, <1>5, <1>6, <1>7, <1>8, <1>9 DEF Serve

\* The invariant is inductive.
LEMMA LinksInvStep == LinksInv /\ [Next]_vars => LinksInv'
<1> SUFFICES ASSUME LinksInv, [Next]_vars PROVE LinksInv'
  OBVIOUS
<1> USE DEF RowInv, LinkLockInv, LinkInv, DisabledHasNoLink, WorkerInv, CallerInv, Locking, world, history
<1> DEFINE Kept == RowInv' /\ (\A w \in Worker : WorkerInv(w)') /\ \A c \in Caller : CallerInv(c)'
<1>1. CASE BackoffEnds
  <2> USE DEF TypeOK, Row
  <2>1. RowInv'
    BY <1>1, SMTT(20) DEF BackoffEnds
  <2>2. Kept
    BY <1>1, <2>1, SMTT(20) DEF BackoffEnds
  <2> QED
    BY <2>2, TypesStep
<1>2. CASE Expire
  <2> USE DEF TypeOK, Row
  <2>1. RowInv'
    BY <1>2, SMTT(20) DEF Expire
  <2>2. Kept
    BY <1>2, <2>1, SMTT(20) DEF Expire
  <2> QED
    BY <2>2, TypesStep
<1>3. CASE Reactivate
  <2>1. Kept
    BY <1>3, SMTT(20) DEF Reactivate
  <2> QED
    BY <2>1, TypesStep
<1>4. CASE Enrol
  <2>1. Kept
    BY <1>4, SMTT(20) DEF Enrol
  <2> QED
    BY <2>1, TypesStep
<1>5. CASE UNCHANGED vars
  <2>1. Kept
    BY <1>5, SMTT(20) DEF vars
  <2> QED
    BY <2>1, TypesStep
<1> HIDE DEF RowInv, WorkerInv, CallerInv
<1> QED
  BY <1>1, <1>2, <1>3, <1>4, <1>5, DeliverKeepsInv, ServeKeepsInv, TypesStep DEF Next

\* The invariant holds in every reachable state.
LEMMA LinksInvariant == Spec => []LinksInv
  BY LinksInvInit, LinksInvStep, PTL DEF Spec


\* Every variable keeps its type: the attempts of a request never pass MaxAttempts.
THEOREM LinksTypeCorrect == Spec => []TypeOK
<1>1. LinksInv => TypeOK
  OBVIOUS
<1> QED
  BY LinksInvariant, <1>1, PTL

\* The row only ever holds the token of a mail that went out (DeliverNext).
THEOREM RecordedWasMailed == Spec => []TokenWasMailed
<1>1. LinksInv => TokenWasMailed
  BY DEF RowInv, LinkInv, TokenWasMailed
<1> QED
  BY LinksInvariant, <1>1, PTL

\* Two workers are never at work on one request (DeliverNext, FOR UPDATE SKIP LOCKED).
THEOREM SendersExclude == Spec => []OneSender
<1>1. LinksInv => OneSender
  BY DEF WorkerInv, OneSender
<1> QED
  BY LinksInvariant, <1>1, PTL

\* An activation link is never open on an account with a password or factors: the
\* request and the use of a link both hold the operator's lock.
THEOREM KindIsRight == Spec => []KindFollowsAccount
<1>1. LinksInv => KindFollowsAccount
  BY DEF RowInv, LinkInv, KindFollowsAccount
<1> QED
  BY LinksInvariant, <1>1, PTL

\* A disabled account has no link that could serve (closeAccessLink).
THEOREM DisabledIsClosed == Spec => []DisabledHasNoLink
<1>1. LinksInv => DisabledHasNoLink
  BY DEF RowInv
<1> QED
  BY LinksInvariant, <1>1, PTL

\* Whoever holds the operator's lock sees the link it found stay in the row until it
\* uses it: what changes the row meanwhile is its expiry, or the use itself.
LEMMA UseStep ==
  ASSUME LinksInv, [Next]_vars, NEW c \in Caller, call[c].at = "consuming", link # link'
  PROVE  call[c].token \notin stale
<1>1. link.token = call[c].token /\ call[c].token \in Token /\ opLock = c
  BY DEF CallerInv, Locking
<1>2. linkLock = None /\ link.due
  BY <1>1, SMT DEF RowInv, LinkLockInv, LinkInv
<1>3. ~link.expired => call[c].token \notin stale
  BY <1>1, SMT DEF RowInv, LinkInv
<1>4. ASSUME NEW w \in Worker PROVE ~Deliver(w) \/ UNCHANGED link
  BY <1>2, SMT DEF WorkerInv, Deliver, Take, Sent, SendFails, Record, Postpone
<1>5. ASSUME NEW w \in Worker PROVE ~Abort(w)
  BY <1>2 DEF WorkerInv, Abort
<1>6. ASSUME NEW d \in Caller, Serve(d) PROVE UNCHANGED link \/ ~link.expired
  <2>1. CASE Consume(d)
    <3>1. d = c
      BY <1>1, <2>1 DEF Consume, CallerInv, Locking
    <3> QED
      BY <2>1, <3>1 DEF Consume, StillUsable, Usable
  <2>2. call[d].at \notin {"writing", "disabling"}
    BY <1>1 DEF CallerInv, Locking
  <2> QED
    BY <1>6, <2>1, <2>2
    DEF Serve, Ask, ChooseKind, RequestLink, Disable, CloseAccessLink, Present, FindOperator, GiveUp
<1>7. CASE Expire
  BY <1>3, <1>7 DEF Expire
<1>8. ~BackoffEnds
  BY <1>2 DEF BackoffEnds
<1> QED
  BY <1>3, <1>4, <1>5, <1>6, <1>7, <1>8 DEF Next, Reactivate, Enrol, vars

\* A mail that was replaced, closed, used or never recorded sets no password.
THEOREM SupersededIsDead == Spec => SupersededNeverServes
<1>1. LinksInv /\ [Next]_vars =>
        [\A c \in Caller : call[c].at = "consuming" /\ link # link' => call[c].token \notin stale]_vars
  BY UseStep
<1> QED
  BY LinksInvariant, <1>1, PTL DEF Spec, SupersededNeverServes

=============================================================================
