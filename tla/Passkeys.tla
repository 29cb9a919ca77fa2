------------------------------- MODULE Passkeys -------------------------------
(***************************************************************************)
(* The passkeys of one operator: opening and finishing a ceremony          *)
(* (internal/bff/webauthn.go, PasskeyManager in internal/mfa/webauthn.go)  *)
(* and removing a key, as concurrent requests over the statements of       *)
(* internal/store/webauthn.go.  Each statement is one step; a transaction  *)
(* holds the operator's row from its lock to its commit.                   *)
(*                                                                         *)
(* The authenticators are not trusted: whoever answers a ceremony chooses  *)
(* its key and its counter, as a copied key would.  He cannot sign for a   *)
(* challenge he has not received.                                          *)
(***************************************************************************)
EXTENDS Naturals, FiniteSets

CONSTANTS
    Request,        \* requests in flight at once
    Session,        \* names of session rows, taken again once closed
    Key,            \* authenticators
    MaxCount,       \* bound of the run: signature counters are 0 .. MaxCount
    MaxCeremonies,  \* MaxCeremonies: openings admitted in one window
    None

ASSUME PasskeysAssumption ==
    /\ MaxCount \in Nat /\ MaxCeremonies \in Nat /\ IsFiniteSet(Request)
    /\ None \notin Request \cup Session \cup Key \cup (0 .. MaxCount)

Ceremony == 1 .. MaxCeremonies      \* by created_at, the instant the statement starts
Purpose == {"registration", "assertion"}

VARIABLES
    count,      \* webauthn_credentials: sign_count by key, None without a row
    totp,       \* operators.mfa_totp_secret is not null
    active,     \* operators.status is active
    row,        \* the request whose transaction locks the operator's row
    session,    \* session[s]: "closed", "open" or "elevated"
    ceremony,   \* webauthn_challenges: session, purpose, whether live; by age
    openings,   \* the row of scope ceremony in login_attempt_counters
    issued,     \* how many IssueCeremony statements started
    req,        \* req[r]: where request r is, and what it holds
    judged,     \* history: the ceremonies an answer was judged against
    reused,     \* history: one of them was judged against twice
    shown,      \* history: by key, the highest counter it showed since it was registered
    cloned      \* history: a counter not above it was accepted, or one of no key

history == <<judged, reused, shown, cloned>>
rows == <<count, totp, active, session, ceremony>>
vars == <<rows, row, openings, issued, req, history>>

Unused == [session |-> None, purpose |-> None, live |-> FALSE]
Free == [at |-> "idle", kind |-> "none", purpose |-> None, session |-> None, elevated |-> FALSE, key |-> None,
         sees |-> {}, answers |-> 0, ceremony |-> 0]

Kinds == {"none", "begin", "finish", "remove"}
Places == {"idle", "admitting", "checking", "reading", "issuing", "inserting", "looking", "consuming",
           "judging", "registering", "counting", "elevating", "locking", "inventory", "deleting"}

TypeOK ==
    /\ count \in [Key -> 0 .. MaxCount \cup {None}]
    /\ totp \in BOOLEAN /\ active \in BOOLEAN /\ row \in Request \cup {None}
    /\ session \in [Session -> {"closed", "open", "elevated"}]
    /\ ceremony \in [Ceremony -> [session : Session \cup {None}, purpose : Purpose \cup {None}, live : BOOLEAN]]
    /\ openings \in 0 .. MaxCeremonies /\ issued \in 0 .. openings
    /\ req \in [Request ->
         [at : Places, kind : Kinds, purpose : Purpose \cup {None}, session : Session \cup {None},
          elevated : BOOLEAN, key : Key \cup {None}, sees : SUBSET Ceremony,
          answers : 0 .. MaxCeremonies, ceremony : 0 .. MaxCeremonies]]
    /\ judged \subseteq Ceremony /\ reused \in BOOLEAN
    /\ shown \in [Key -> 0 .. MaxCount] /\ cloned \in BOOLEAN

Init ==
    /\ count = [k \in Key |-> None] /\ totp = FALSE /\ active = TRUE /\ row = None
    /\ session = [s \in Session |-> "closed"]
    /\ ceremony = [c \in Ceremony |-> Unused]
    /\ openings = 0 /\ issued = 0
    /\ req = [r \in Request |-> Free]
    /\ judged = {} /\ reused = FALSE /\ shown = [k \in Key |-> 0] /\ cloned = FALSE

Goto(r, place) == req' = [req EXCEPT ![r].at = place]
Answer(r) == req' = [req EXCEPT ![r] = Free]

Alive(s) == active /\ session[s] # "closed"
Passkeys == {k \in Key : count[k] # None}
Held == totp \/ Passkeys # {}       \* secondFactorHeld
Opened == {c \in Ceremony : ceremony[c].session # None}
Live(s, p) == {c \in Opened : ceremony[c].session = s /\ ceremony[c].purpose = p /\ ceremony[c].live}

----------------------------------------------------------------------------
(* The routes: the middleware resolves the session, the handler keeps what it read and
   will read again. *)

Start(r, s, kind, first, p, c, k) ==
    /\ req[r].at = "idle" /\ Alive(s)
    /\ req' = [req EXCEPT ![r] = [Free EXCEPT !.at = first, !.kind = kind, !.purpose = p, !.session = s,
                  !.elevated = p = "registration" /\ session[s] = "elevated", !.answers = c, !.key = k]]
    /\ UNCHANGED <<rows, row, openings, issued, history>>

Begin(r, s, p) == Start(r, s, "begin", "admitting", p, 0, None)

\* What the client answers: a challenge it was given.
Finish(r, s, p, c) ==
    /\ c \in Opened
    /\ Start(r, s, "finish", IF p = "registration" THEN "checking" ELSE "reading", p, c, None)

Remove(r, s, k) ==
    /\ session[s] = "elevated"
    /\ Start(r, s, "remove", "locking", None, 0, k)

\* Both openings share one counter.
AdmitCeremony(r) ==
    /\ req[r].at = "admitting"
    /\ IF openings < MaxCeremonies
       THEN /\ openings' = openings + 1
            /\ Goto(r, IF req[r].purpose = "registration" THEN "checking" ELSE "reading")
       ELSE Answer(r) /\ UNCHANGED openings
    /\ UNCHANGED <<rows, row, issued, history>>

\* Factors: a factor in place is to be passed first, at both ends of a registration.
CheckFactors(r) ==
    /\ req[r].at = "checking"
    /\ IF Held /\ ~req[r].elevated THEN Answer(r) ELSE Goto(r, "reading")
    /\ UNCHANGED <<rows, row, openings, issued, history>>

\* OwnerOf: an active operator and his keys.  An assertion answers with one of them.
ReadOwner(r, k) ==
    LET begins == req[r].kind = "begin"
        asserts == req[r].purpose = "assertion"
    IN  /\ req[r].at = "reading"
        /\ IF ~active \/ (begins /\ asserts /\ Passkeys = {})
           THEN Answer(r)
           ELSE req' = [req EXCEPT ![r].at = IF begins THEN "issuing" ELSE "looking",
                                   ![r].key = IF asserts /\ ~begins /\ k \in Passkeys THEN k ELSE None]
        /\ UNCHANGED <<rows, row, openings, issued, history>>

----------------------------------------------------------------------------
(* Opening: one statement, which sees the ceremonies committed when it starts. *)

IssueStarts(r) ==
    /\ req[r].at = "issuing"
    /\ issued' = issued + 1
    /\ req' = [req EXCEPT ![r].at = "inserting", ![r].ceremony = issued',
                          ![r].sees = Live(req[r].session, req[r].purpose)]
    /\ UNCHANGED <<rows, row, openings, history>>

IssueCeremony(r) ==
    /\ req[r].at = "inserting"
    /\ ceremony' = [c \in Ceremony |->
          IF c = req[r].ceremony THEN [session |-> req[r].session, purpose |-> req[r].purpose, live |-> TRUE]
          ELSE IF c \in req[r].sees THEN [ceremony[c] EXCEPT !.live = FALSE]
          ELSE ceremony[c]]
    /\ Answer(r)
    /\ UNCHANGED <<count, totp, active, session, row, openings, issued, history>>

----------------------------------------------------------------------------
(* Finishing: the newest live ceremony is closed, then the answer is verified against it. *)

LiveCeremony(r) ==
    LET cs == Live(req[r].session, req[r].purpose) IN
    /\ req[r].at = "looking"
    /\ \/ cs = {} /\ Answer(r)
       \/ \E c \in cs :
            /\ \A d \in cs : d <= c
            /\ req' = [req EXCEPT ![r].at = "consuming", ![r].ceremony = c]
    /\ UNCHANGED <<rows, row, openings, issued, history>>

\* Mutant of StillLive: what LiveCeremony read is trusted.
WasLive(c) == TRUE

StillLive(c) == ceremony[c].live

ConsumeCeremony(r) ==
    LET c == req[r].ceremony IN
    /\ req[r].at = "consuming"
    /\ IF StillLive(c)
       THEN /\ ceremony' = [ceremony EXCEPT ![c].live = FALSE]
            /\ Goto(r, "judging")
            /\ judged' = judged \cup {c} /\ reused' = (reused \/ c \in judged)
       ELSE Answer(r) /\ UNCHANGED <<ceremony, judged, reused>>
    /\ UNCHANGED <<count, totp, active, session, row, openings, issued, shown, cloned>>

\* FinishRegistration, FinishAssertion: the signature is for this challenge or for nothing.
Judge(r, k) ==
    LET registers == req[r].purpose = "registration" IN
    /\ req[r].at = "judging"
    /\ IF req[r].answers # req[r].ceremony \/ (~registers /\ req[r].key = None)
       THEN Answer(r)
       ELSE req' = [req EXCEPT ![r].at = IF registers THEN "registering" ELSE "counting",
                               ![r].key = IF registers THEN k ELSE @,
                               ![r].answers = 0, ![r].ceremony = 0]
    /\ UNCHANGED <<rows, row, openings, issued, history>>

\* The insertion takes a share of the operator's row; a key already there is refused.
Register(r, n) ==
    LET k == req[r].key IN
    /\ req[r].at = "registering" /\ row = None
    /\ IF count[k] = None
       THEN count' = [count EXCEPT ![k] = n] /\ shown' = [shown EXCEPT ![k] = n]
       ELSE UNCHANGED <<count, shown>>
    /\ Answer(r)
    /\ UNCHANGED <<totp, active, session, ceremony, row, openings, issued, judged, reused, cloned>>

\* Mutant of Advances: a permanent zero is taken for an advance whatever the row says.
AdvancesOrZero(k, n) == count[k] # None /\ (n > count[k] \/ n = 0)

Advances(k, n) == count[k] # None /\ (n > count[k] \/ (n = 0 /\ count[k] = 0))

ConsumeSignCount(r, n) ==
    LET k == req[r].key IN
    /\ req[r].at = "counting"
    /\ IF Advances(k, n)
       THEN /\ count' = [count EXCEPT ![k] = n]
            /\ Goto(r, "elevating")
            /\ shown' = [shown EXCEPT ![k] = IF n > @ THEN n ELSE @]
            /\ cloned' = (cloned \/ count[k] = None \/ (shown[k] # 0 /\ n <= shown[k]))
       ELSE Answer(r) /\ UNCHANGED <<count, shown, cloned>>
    /\ UNCHANGED <<totp, active, session, ceremony, row, openings, issued, judged, reused>>

\* The rest of VerifyMfa (module SecondFactor): its login challenge, then Elevate.
Elevate(r) ==
    /\ req[r].at = "elevating"
    /\ session' = IF Alive(req[r].session) THEN [session EXCEPT ![req[r].session] = "elevated"] ELSE session
    /\ Answer(r)
    /\ UNCHANGED <<count, totp, active, ceremony, row, openings, issued, history>>

----------------------------------------------------------------------------
(* Remove: the lock, the inventory, the deletion with its audit line. *)

\* Mutant of RowIsFree: the lock is read and not taken.
RowIsRead == TRUE

RowIsFree == row = None

LockOperator(r) ==
    /\ req[r].at = "locking" /\ RowIsFree
    /\ IF active THEN row' = r /\ Goto(r, "inventory") ELSE Answer(r) /\ UNCHANGED row
    /\ UNCHANGED <<rows, openings, issued, history>>

Unlocked(r) == IF row = r THEN None ELSE row

IsLastFactor == ~totp /\ \A k, l \in Passkeys : k = l

Inventory(r) ==
    /\ req[r].at = "inventory"
    /\ IF req[r].key \notin Passkeys \/ IsLastFactor
       THEN Answer(r) /\ row' = Unlocked(r)
       ELSE Goto(r, "deleting") /\ UNCHANGED row
    /\ UNCHANGED <<rows, openings, issued, history>>

Delete(r) ==
    /\ req[r].at = "deleting"
    /\ count' = [count EXCEPT ![req[r].key] = None]
    /\ shown' = [shown EXCEPT ![req[r].key] = 0]
    /\ Answer(r) /\ row' = Unlocked(r)
    /\ UNCHANGED <<totp, active, session, ceremony, openings, issued, judged, reused, cloned>>

\* An error, a client gone, the death of the process: the transaction falls with it.
Drop(r) ==
    /\ req[r].at # "idle"
    /\ Answer(r) /\ row' = Unlocked(r)
    /\ UNCHANGED <<rows, openings, issued, history>>

----------------------------------------------------------------------------
(* What else changes the rows: modules SecondFactor, AccessLinks, Administration. *)

Login(s) ==
    /\ active /\ session[s] = "closed" /\ \A r \in Request : req[r].session # s
    /\ session' = [session EXCEPT ![s] = "open"]
    /\ ceremony' = [c \in Ceremony |-> IF ceremony[c].session = s THEN [ceremony[c] EXCEPT !.live = FALSE] ELSE ceremony[c]]
    /\ UNCHANGED <<count, totp, active, row, openings, issued, req, history>>

Logout(s) ==
    /\ session[s] # "closed"
    /\ session' = [session EXCEPT ![s] = "closed"]
    /\ UNCHANGED <<count, totp, active, ceremony, row, openings, issued, req, history>>

\* The secret of a bare account, or one that an elevated session confirmed.
EnrollTotp(s) ==
    /\ row = None /\ Alive(s) /\ ~totp /\ (Held => session[s] = "elevated")
    /\ totp' = TRUE
    /\ UNCHANGED <<count, active, session, ceremony, row, openings, issued, req, history>>

VerifyTotp(s) ==
    /\ totp /\ Alive(s)
    /\ session' = [session EXCEPT ![s] = "elevated"]
    /\ UNCHANGED <<count, totp, active, ceremony, row, openings, issued, req, history>>

\* clearSecondFactors, behind a reset link.
UseResetLink ==
    /\ row = None /\ active
    /\ count' = [k \in Key |-> None] /\ totp' = FALSE
    /\ session' = [s \in Session |-> "closed"] /\ shown' = [k \in Key |-> 0]
    /\ UNCHANGED <<active, ceremony, row, openings, issued, req, judged, reused, cloned>>

SetStatus ==
    /\ row = None
    /\ active' = ~active
    /\ session' = IF active THEN [s \in Session |-> "closed"] ELSE session
    /\ UNCHANGED <<count, totp, ceremony, row, openings, issued, req, history>>

Expire(c) ==
    /\ ceremony[c].live
    /\ ceremony' = [ceremony EXCEPT ![c].live = FALSE]
    /\ UNCHANGED <<count, totp, active, session, row, openings, issued, req, history>>

----------------------------------------------------------------------------

Serve(r) ==
    \/ \E s \in Session, p \in Purpose : Begin(r, s, p) \/ \E c \in Ceremony : Finish(r, s, p, c)
    \/ \E s \in Session, k \in Key : Remove(r, s, k)
    \/ AdmitCeremony(r) \/ CheckFactors(r) \/ \E k \in Key : ReadOwner(r, k)
    \/ IssueStarts(r) \/ IssueCeremony(r)
    \/ LiveCeremony(r) \/ ConsumeCeremony(r) \/ \E k \in Key : Judge(r, k)
    \/ \E n \in 0 .. MaxCount : Register(r, n) \/ ConsumeSignCount(r, n)
    \/ Elevate(r) \/ LockOperator(r) \/ Inventory(r) \/ Delete(r) \/ Drop(r)

Elsewhere ==
    \/ \E s \in Session : Login(s) \/ Logout(s) \/ EnrollTotp(s) \/ VerifyTotp(s)
    \/ \E c \in Ceremony : Expire(c)
    \/ UseResetLink \/ SetStatus

Next == Elsewhere \/ \E r \in Request : Serve(r)

Spec == Init /\ [][Next]_vars

----------------------------------------------------------------------------
(* Properties. *)

\* No removal, and no two of them together, leaves an account that had a second factor
\* without any: only a reset does (store/webauthn.go, Remove).
LastFactorStays == [][Held /\ ~Held' => UseResetLink]_vars

\* Two finishes never both get an answer judged against one ceremony, whatever the first
\* one's verdict (mfa/webauthn.go, consumeCeremony: "deux finitions concurrentes n'en
\* font aboutir qu'une").
CeremonyServesOnce == ~reused

\* Of the answers one key gives since it was registered, each shows a counter above the
\* last unless none counts; a key removed in between answers nothing (store/webauthn.go,
\* ConsumeSignCount).
CloneRefused == ~cloned
===============================================================================
