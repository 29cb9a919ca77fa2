----------------------------- MODULE AccessLinks -----------------------------
(***************************************************************************)
(* The access link of one operator (internal/store/access_links.go): the   *)
(* administrator asks for it, a worker of some instance mails it, whoever  *)
(* has the mail sets a password with it.  One row at most per operator; a  *)
(* worker keeps it locked while it sends, the other transactions lock the  *)
(* operator first, then the link.                                          *)
(***************************************************************************)
EXTENDS Naturals, FiniteSets

CONSTANTS
    Worker,      \* delivery loops, one per instance
    Caller,      \* transactions of administrators and of link holders, in flight at once
    Token,       \* names of tokens, taken again once nobody holds them
    MaxAttempts, \* MaxDeliveryAttempts
    MaxFaults,   \* bound of the run: crashes and commits that fail
    None

ASSUME AccessLinksAssumption ==
    /\ MaxAttempts \in Nat \ {0} /\ MaxFaults \in Nat
    /\ None \notin Worker \cup Caller \cup Token \cup {"activation", "reset"}

VARIABLES
    link,     \* the row of access_links, or NoLink
    password, \* whether password_hash is set
    active,   \* whether the operator's status is active
    factors,  \* whether second factors, sessions or counters of the operator remain
    opLock,   \* the caller that holds the lock of the operator's row
    linkLock, \* the worker that holds the lock of the link's row
    work,     \* work[w]: what worker w is at, and the token it sends
    call,     \* call[c]: what caller c is at
    faults,   \* how many faults happened
    mailed,   \* history: the tokens that some mailbox may hold
    stale     \* history: the tokens that must not serve any more

world == <<password, active, factors>>
history == <<mailed, stale>>
vars == <<link, world, opLock, linkLock, work, call, faults, history>>

NoLink == [kind |-> None, token |-> None, attempts |-> 0, due |-> FALSE, parked |-> FALSE, expired |-> FALSE]
Asked(kind) == [NoLink EXCEPT !.kind = kind, !.due = TRUE]

Idle == [at |-> "idle", token |-> None]
Free == [at |-> "idle", token |-> None, kind |-> None]

Kind == {None, "activation", "reset"}
Row == [kind : Kind, token : Token \cup {None}, attempts : 0 .. MaxAttempts,
        due : BOOLEAN, parked : BOOLEAN, expired : BOOLEAN]
Job == [at : {"idle", "sending", "recording", "postponing"}, token : Token \cup {None}]
Call == [at : {"idle", "asking", "writing", "disabling", "hashing", "consuming"},
         token : Token \cup {None}, kind : Kind]

TypeOK ==
    /\ link \in Row
    /\ password \in BOOLEAN /\ active \in BOOLEAN /\ factors \in BOOLEAN
    /\ opLock \in Caller \cup {None} /\ linkLock \in Worker \cup {None}
    /\ work \in [Worker -> Job] /\ call \in [Caller -> Call]
    /\ faults \in 0 .. MaxFaults /\ mailed \subseteq Token /\ stale \subseteq Token

\* CreateOperator: an active account without a password, its link in the queue.
Init ==
    /\ link = Asked("activation")
    /\ password = FALSE /\ active = TRUE /\ factors = FALSE
    /\ opLock = None /\ linkLock = None
    /\ work = [w \in Worker |-> Idle] /\ call = [c \in Caller |-> Free]
    /\ faults = 0 /\ mailed = {} /\ stale = {}

NewToken == {t \in Token : /\ t # link.token
                           /\ \A w \in Worker : work[w].token # t
                           /\ \A c \in Caller : call[c].token # t}

----------------------------------------------------------------------------
(* The worker: DeliverNext. *)

AttemptsLeft == link.attempts < MaxAttempts

Due == link.kind # None /\ link.token = None /\ AttemptsLeft /\ link.due /\ ~link.parked /\ active

\* FOR UPDATE OF l SKIP LOCKED: the status is read and not locked.
Unlocked == linkLock = None

Take(w, t) ==
    /\ work[w].at = "idle" /\ Due /\ Unlocked /\ t \in NewToken
    /\ work' = [work EXCEPT ![w] = [at |-> "sending", token |-> t]]
    /\ linkLock' = w
    /\ mailed' = mailed \ {t} /\ stale' = stale \ {t}
    /\ UNCHANGED <<link, world, opLock, call, faults>>

Sent(w) ==
    /\ work[w].at = "sending"
    /\ work' = [work EXCEPT ![w].at = "recording"]
    /\ mailed' = mailed \cup {work[w].token}
    /\ UNCHANGED <<link, world, opLock, linkLock, call, faults, stale>>

AfterFailure == "postponing"

\* The mail server may have taken the message all the same (an error of QUIT).
SendFails(w, taken) ==
    /\ work[w].at = "sending"
    /\ work' = [work EXCEPT ![w].at = AfterFailure]
    /\ IF taken
       THEN mailed' = mailed \cup {work[w].token} /\ stale' = stale \cup {work[w].token}
       ELSE UNCHANGED history
    /\ UNCHANGED <<link, world, opLock, linkLock, call, faults>>

Leave(w) == work' = [work EXCEPT ![w] = Idle] /\ linkLock' = None

\* Mutant of Record: the row keeps the lock of a connection left open.
RecordKeepsLock(w) ==
    /\ work[w].at = "recording"
    /\ link' = [link EXCEPT !.token = work[w].token, !.expired = FALSE]
    /\ work' = [work EXCEPT ![w] = Idle]
    /\ UNCHANGED <<world, opLock, linkLock, call, faults, history>>

Record(w) ==
    /\ work[w].at = "recording"
    /\ link' = [link EXCEPT !.token = work[w].token, !.expired = FALSE]
    /\ Leave(w)
    /\ UNCHANGED <<world, opLock, call, faults, history>>

\* Mutant of PostponedRow: the failed attempt is not counted.
UncountedRow == [link EXCEPT !.due = FALSE]

PostponedRow == [link EXCEPT !.attempts = @ + 1, !.due = FALSE]

Postpone(w) ==
    /\ work[w].at = "postponing"
    /\ link' = PostponedRow
    /\ Leave(w)
    /\ UNCHANGED <<world, opLock, call, faults, history>>

\* A crash, or a commit that fails: the transaction is rolled back, the mail is not.
Abort(w) ==
    /\ work[w].at # "idle" /\ faults < MaxFaults
    /\ faults' = faults + 1
    /\ stale' = IF work[w].token \in mailed THEN stale \cup {work[w].token} ELSE stale
    /\ Leave(w)
    /\ UNCHANGED <<link, world, opLock, call, mailed>>

BackoffEnds ==
    /\ link.kind # None /\ ~link.due
    /\ link' = [link EXCEPT !.due = TRUE]
    /\ UNCHANGED <<world, opLock, linkLock, work, call, faults, history>>

Expire ==
    /\ link.token # None /\ ~link.expired
    /\ link' = [link EXCEPT !.expired = TRUE]
    /\ stale' = stale \cup {link.token}
    /\ UNCHANGED <<world, opLock, linkLock, work, call, faults, mailed>>

----------------------------------------------------------------------------
(* The callers.  A token that leaves the row must not serve again. *)

Begin(c, place, t) == call' = [call EXCEPT ![c] = [Free EXCEPT !.at = place, !.token = t]]
Finish(c) == call' = [call EXCEPT ![c] = Free]
Superseded == stale' = IF link.token = None THEN stale ELSE stale \cup {link.token}

\* Mutant of LocksOperator: the operator is read, and not locked.
ReadsOperator(c) == UNCHANGED opLock

LocksOperator(c) == opLock = None /\ opLock' = c

\* RequestAccessLink: SELECT ... FOR UPDATE on the operator, then requestLink.
Ask(c) ==
    /\ call[c].at = "idle" /\ LocksOperator(c) /\ active
    /\ Begin(c, "asking", None)
    /\ UNCHANGED <<link, world, linkLock, work, faults, history>>

Unlock(c) == opLock' = IF opLock = c THEN None ELSE opLock

\* The upsert reads the account in its snapshot, then waits for the lock of the link.
ChooseKind(c) ==
    /\ call[c].at = "asking"
    /\ call' = [call EXCEPT ![c].at = "writing", ![c].kind = IF password THEN "reset" ELSE "activation"]
    /\ UNCHANGED <<link, world, opLock, linkLock, work, faults, history>>

RequestLink(c) ==
    /\ call[c].at = "writing" /\ linkLock = None
    /\ link' = Asked(call[c].kind)
    /\ Superseded /\ Finish(c) /\ Unlock(c)
    /\ UNCHANGED <<world, linkLock, work, faults, mailed>>

\* SetOperatorStatus: the update locks the operator; closeAccessLink waits for the
\* link, erases a reset and parks an activation.
Disable(c) ==
    /\ call[c].at = "idle" /\ opLock = None /\ opLock' = c /\ active
    /\ Begin(c, "disabling", None)
    /\ UNCHANGED <<link, world, linkLock, work, faults, history>>

\* Mutant of CloseLink: the link is left as it is.
LeaveLink == UNCHANGED link

CloseLink ==
    link' = IF link.kind = "activation" THEN [NoLink EXCEPT !.kind = "activation", !.due = TRUE, !.parked = TRUE]
            ELSE NoLink

CloseAccessLink(c) ==
    /\ call[c].at = "disabling" /\ linkLock = None
    /\ active' = FALSE
    /\ CloseLink
    /\ Superseded /\ Finish(c) /\ Unlock(c)
    /\ UNCHANGED <<password, factors, linkLock, work, faults, mailed>>

Reactivate ==
    /\ ~active /\ opLock = None
    /\ active' = TRUE
    /\ UNCHANGED <<link, password, factors, opLock, linkLock, work, call, faults, history>>

Usable(t) == link.token = t /\ ~link.expired /\ active

\* Valid, before the hash; the holder of any mail may try.
Present(c, t) ==
    /\ call[c].at = "idle" /\ t \in mailed /\ Usable(t)
    /\ Begin(c, "hashing", t)
    /\ UNCHANGED <<link, world, opLock, linkLock, work, faults, history>>

\* Consume finds the operator by the token, and locks it.
FindOperator(c) ==
    /\ call[c].at = "hashing"
    /\ IF link.token = call[c].token
       THEN opLock = None /\ opLock' = c /\ call' = [call EXCEPT ![c].at = "consuming"]
       ELSE Finish(c) /\ UNCHANGED opLock
    /\ UNCHANGED <<link, world, linkLock, work, faults, history>>

\* Mutant of StillUsable: what Valid said is trusted.
WasUsable(t) == link.kind # None

StillUsable(t) == Usable(t)

\* DELETE ... USING: the conditions again; a reset clears what passes the factors.
Consume(c) ==
    /\ call[c].at = "consuming"
    /\ IF StillUsable(call[c].token)
       THEN /\ link' = NoLink /\ password' = TRUE
            /\ factors' = IF link.kind = "reset" THEN FALSE ELSE factors
            /\ stale' = stale \cup {call[c].token}
       ELSE UNCHANGED <<link, password, factors, stale>>
    /\ Finish(c) /\ Unlock(c)
    /\ UNCHANGED <<active, linkLock, work, faults, mailed>>

\* Overloaded hash slots, a weak password: the link stays.
GiveUp(c) ==
    /\ call[c].at = "hashing"
    /\ Finish(c)
    /\ UNCHANGED <<link, world, opLock, linkLock, work, faults, history>>

\* The operator logs in and enrols.
Enrol ==
    /\ password /\ active /\ ~factors
    /\ factors' = TRUE
    /\ UNCHANGED <<link, password, active, opLock, linkLock, work, call, faults, history>>

----------------------------------------------------------------------------

Deliver(w) ==
    \/ \E t \in Token : Take(w, t)
    \/ Sent(w) \/ \E taken \in BOOLEAN : SendFails(w, taken)
    \/ Record(w) \/ Postpone(w)

Serve(c) ==
    \/ Ask(c) \/ ChooseKind(c) \/ RequestLink(c) \/ Disable(c) \/ CloseAccessLink(c)
    \/ \E t \in Token : Present(c, t)
    \/ FindOperator(c) \/ Consume(c) \/ GiveUp(c)

Next ==
    \/ \E w \in Worker : Deliver(w) \/ Abort(w)
    \/ \E c \in Caller : Serve(c)
    \/ BackoffEnds \/ Expire \/ Reactivate \/ Enrol

\* The loop of a live instance runs every five seconds, a backoff ends, and a
\* transaction that may go on does.  Nothing obliges anybody to ask or to log in.
Fairness ==
    /\ \A w \in Worker : WF_vars(Deliver(w))
    /\ WF_vars(BackoffEnds)
    /\ \A c \in Caller : WF_vars(ChooseKind(c) \/ RequestLink(c) \/ CloseAccessLink(c) \/ Consume(c))

Spec == Init /\ [][Next]_vars /\ Fairness

----------------------------------------------------------------------------
(* Properties. *)

\* The row only ever holds the token of a mail that went out: "un échec ne laisse
\* aucune empreinte d'un lien jamais reçu" (access_links.go, DeliverNext).
TokenWasMailed == link.token # None => link.token \in mailed

\* Two instances never send the same request at once (DeliverNext, SKIP LOCKED).
OneSender == \A w1, w2 \in Worker : w1 # w2 => "idle" \in {work[w1].at, work[w2].at}

\* An activation link clears no factor: none is ever open on an account that has a
\* password, or factors of its own, because the request and the use of a link both
\* take the operator's lock (admin.go, RequestAccessLink; access_links.go, Consume).
KindFollowsAccount == link.kind = "activation" => ~password /\ ~factors

\* A mail that was replaced, closed, used or never recorded sets no password, however
\* long ago Valid accepted it (access_links.go, Consume).
SupersededNeverServes ==
    [][\A c \in Caller : call[c].at = "consuming" /\ link # link' => call[c].token \notin stale]_vars

\* A disabled account has no link that could serve: it would do so the day it is
\* reactivated (admin.go, closeAccessLink).
DisabledHasNoLink == ~active => link.token = None /\ (link.kind = None \/ link.parked)

\* A request of an active account is mailed, unless it was abandoned after
\* MaxAttempts, closed, or replaced by another request, which starts the count again
\* (access_links.go, KeepDeliveringAccessLinks).
Delivered ==
    Due ~> \/ link.token # None \/ link.attempts = MaxAttempts
           \/ link.kind = None \/ link.parked
           \/ \E c \in Caller : call[c].at = "asking"

\* Nobody waits for ever on the two locks (access_links.go, Consume: the order of
\* RequestAccessLink and SetOperatorStatus).
LocksAreLeft == \A c \in Caller : opLock = c ~> opLock # c
==============================================================================
