---------------------------- MODULE SecondFactor ----------------------------
(***************************************************************************)
(* The second factor of one operator: VerifyMfa, EnrollTotp and            *)
(* ConfirmTotp (internal/bff/mfa.go) with the statements they run          *)
(* (internal/store/mfa.go, sessions.go), as concurrent requests.  Each     *)
(* statement is one step.  Passkeys are a number here, their ceremonies    *)
(* are the module Passkeys; another operator's challenge is a dead one.    *)
(***************************************************************************)
EXTENDS Naturals, FiniteSets

CONSTANTS
    Request,    \* requests in flight at once
    Session,    \* names of session rows, taken again once forgotten
    Challenge,  \* names of challenge rows, likewise
    Secret,     \* names of TOTP secrets, likewise
    MaxStep,    \* bound of the run: the time steps are 1 .. MaxStep
    Threshold,  \* MaxFailures
    MaxCalls,   \* MaxEnrollments
    Keys,       \* bound of the run: passkeys held at once
    None

ASSUME SecondFactorAssumption ==
    /\ MaxStep \in Nat \ {0} /\ Threshold \in Nat \ {0} /\ MaxCalls \in Nat \ {0}
    /\ IsFiniteSet(Request)
    /\ Keys \in Nat /\ None \notin Request \cup Session \cup Challenge \cup Secret

VARIABLES
    secret,     \* operators.mfa_totp_secret
    last,       \* mfa_totp_last_step, 0 for NULL
    pending,    \* mfa_totp_pending_secret
    codes,      \* the secrets whose recovery code is active
    waiting,    \* those whose recovery code waits for the confirmation
    passkeys,   \* how many webauthn_credentials
    active,     \* whether the operator's status is active
    session,    \* session[s]: "closed", "open" or "elevated"
    challenge,  \* the live challenges
    failures,   \* the row of scope mfa
    calls,      \* the row of scope mfa_enroll
    req,        \* req[r]: where request r is, and what it holds
    accepted,   \* history: the steps whose code, of the secret in force, was accepted
    replayed,   \* history: whether one of them was accepted twice
    wrong       \* history: wrong codes judged since the counter was last cleared

factors == <<secret, last, pending, codes, waiting, passkeys>>
counters == <<failures, calls>>
history == <<accepted, replayed, wrong>>
vars == <<factors, active, session, challenge, counters, req, history>>

Free == [at |-> "idle", kind |-> "none", session |-> None, elevated |-> FALSE, challenge |-> None,
         enrolled |-> FALSE, proven |-> FALSE, replace |-> FALSE, aside |-> FALSE, proof |-> <<None, 0>>]

Kinds == {"none", "verify", "enroll", "confirm"}
Places == {"idle", "admitting", "reading", "counting", "reserving", "looking",
           "judging", "step", "code", "confirming", "writing", "spending", "elevating", "clearing",
           "releasing"}

TypeOK ==
    /\ secret \in Secret \cup {None} /\ pending \in Secret \cup {None}
    /\ last \in 0 .. MaxStep
    /\ codes \subseteq Secret /\ waiting \subseteq Secret
    /\ passkeys \in 0 .. Keys /\ active \in BOOLEAN
    /\ session \in [Session -> {"closed", "open", "elevated"}]
    /\ challenge \subseteq Challenge
    /\ failures \in 0 .. Threshold /\ calls \in 0 .. MaxCalls
    /\ req \in [Request -> [at : Places, kind : Kinds, session : Session \cup {None},
            elevated : BOOLEAN, challenge : Challenge \cup {None}, enrolled : BOOLEAN,
            proven : BOOLEAN, replace : BOOLEAN, aside : BOOLEAN,
            proof : (Secret \cup {None}) \X (0 .. MaxStep)]]
    /\ accepted \subseteq 1 .. MaxStep
    /\ replayed \in BOOLEAN /\ wrong \in Nat

Init ==
    /\ secret = None /\ last = 0 /\ pending = None /\ codes = {} /\ waiting = {} /\ passkeys = 0
    /\ active = TRUE /\ session = [s \in Session |-> "closed"] /\ challenge = {}
    /\ failures = 0 /\ calls = 0 
    /\ req = [r \in Request |-> Free]
    /\ accepted = {} /\ replayed = FALSE /\ wrong = 0

Goto(r, place) == req' = [req EXCEPT ![r].at = place]
Answer(r) == req' = [req EXCEPT ![r] = Free]

Alive(s) == active /\ session[s] # "closed"

\* The names no row and no request holds any more.
NewSession == {s \in Session : session[s] = "closed" /\ \A r \in Request : req[r].session # s}
NewChallenge == {c \in Challenge : c \notin challenge /\ \A r \in Request : req[r].challenge # c}
NewSecret == {s \in Secret : s \notin {secret, pending} \cup codes \cup waiting
                             /\ \A r \in Request : req[r].proof[1] # s}

----------------------------------------------------------------------------
(* Login, after the steps of the module FirstFactor: the status was read before,
   and neither IssueChallenge nor Create reads it again. *)

Login(s, c) ==
    /\ s \in NewSession /\ c \in NewChallenge
    /\ session' = [session EXCEPT ![s] = "open"]
    /\ challenge' = challenge \cup {c}
    /\ UNCHANGED <<factors, active, counters, req, history>>

----------------------------------------------------------------------------
(* What the three routes share. *)

\* The middleware resolves the session; the handler keeps what it read.
Start(r, kind, s) ==
    /\ req[r].at = "idle" /\ Alive(s)
    /\ kind = "confirm" => session[s] = "elevated"
    /\ req' = [req EXCEPT ![r] = [Free EXCEPT !.kind = kind, !.session = s,
          !.at = IF kind = "verify" THEN "reserving" ELSE IF kind = "enroll" THEN "admitting" ELSE "reading",
          !.elevated = session[s] = "elevated"]]
    /\ UNCHANGED <<factors, active, session, challenge, counters, history>>

Reserves == failures < Threshold

Reserve(r) ==
    /\ req[r].at = "reserving"
    /\ IF Reserves
       THEN failures' = failures + 1 /\ Goto(r, IF req[r].kind = "verify" THEN "looking" ELSE "judging")
       ELSE Answer(r) /\ UNCHANGED failures
    /\ UNCHANGED <<factors, active, session, challenge, calls, history>>

\* Mutant of Refuse: a refused code gives its attempt back.
RefuseReleases(r) == Goto(r, "releasing")

Refuse(r) == Answer(r)

\* VerifyTOTP and ConfirmTOTP read a secret, then look for the code at the steps around
\* the clock of the base; nothing is written yet.  The clock is left out: any step may
\* match at any time, which allows more than the code does.
Judge(r, s, n, place) ==
    /\ req[r].at = "judging" /\ s # None
    /\ req' = [req EXCEPT ![r].at = place, ![r].proof = <<s, n>>]
    /\ UNCHANGED <<factors, active, session, challenge, counters, history>>

JudgeTotp(r, n) == req[r].kind \in {"verify", "enroll"} /\ active /\ Judge(r, secret, n, "step")

JudgePending(r, n) == req[r].kind = "confirm" /\ active /\ Judge(r, pending, n, "confirming")

JudgeCode(r, c) ==
    /\ req[r].at = "judging" /\ req[r].kind \in {"verify", "enroll"} /\ c \in codes
    /\ req' = [req EXCEPT ![r].at = "code", ![r].proof = <<c, 0>>]
    /\ UNCHANGED <<factors, active, session, challenge, counters, history>>

JudgeWrong(r) ==
    /\ req[r].at = "judging"
    /\ Refuse(r)
    /\ wrong' = wrong + 1
    /\ UNCHANGED <<factors, active, session, challenge, counters, accepted, replayed>>

\* What a presented factor opens: the elevation of the session, or the replacement.
Proven(r) ==
    req' = [req EXCEPT ![r].at = IF @ = "idle" THEN @ ELSE IF req[r].kind = "verify" THEN "spending" ELSE "writing",
                       ![r].replace = req[r].kind = "enroll", ![r].proof = <<None, 0>>]

\* The history of a code: accepted, and maybe accepted before, if its secret is
\* still in force.
Accept(s, n) ==
    /\ accepted' = IF s = secret THEN accepted \cup {n} ELSE accepted
    /\ replayed' = (replayed \/ (s = secret /\ n \in accepted))
    /\ UNCHANGED wrong

\* Mutant of FreshStep: the step that served last serves again.
SameStep(n) == last <= n

FreshStep(n) == last < n

ConsumeStep(r) ==
    LET n == req[r].proof[2] IN
    /\ req[r].at = "step"
    /\ IF FreshStep(n)
       THEN last' = n /\ Proven(r) /\ Accept(req[r].proof[1], n)
       ELSE Refuse(r) /\ UNCHANGED <<last, history>>
    /\ UNCHANGED <<secret, pending, codes, waiting, passkeys, active, session, challenge, counters>>

\* By identifier: the row, were it waiting again, goes all the same.
ConsumeRecoveryCode(r) ==
    LET c == req[r].proof[1] IN
    /\ req[r].at = "code"
    /\ IF c \in codes THEN codes' = codes \ {c} /\ Proven(r) ELSE Refuse(r) /\ UNCHANGED codes
    /\ UNCHANGED <<secret, last, pending, waiting, passkeys, active, session, challenge, counters, history>>

Clear(r) ==
    /\ req[r].at = "clearing"
    /\ failures' = 0 /\ wrong' = 0
    /\ Answer(r)
    /\ UNCHANGED <<factors, active, session, challenge, calls, accepted, replayed>>

\* An error before the code is wrong, or while it is being consumed: the attempt
\* is given back, by a statement of its own.
Fail(r) ==
    /\ req[r].at \in {"looking", "judging", "step", "code", "confirming"}
    /\ Goto(r, "releasing")
    /\ UNCHANGED <<factors, active, session, challenge, counters, history>>

Release(r) ==
    /\ req[r].at = "releasing"
    /\ failures' = IF failures = 0 THEN 0 ELSE failures - 1
    /\ Answer(r)
    /\ UNCHANGED <<factors, active, session, challenge, calls, history>>

\* Full hash slots, an error no attempt is given back for, the death of the process.
Drop(r) ==
    /\ req[r].at # "idle"
    /\ Answer(r)
    /\ UNCHANGED <<factors, active, session, challenge, counters, history>>

----------------------------------------------------------------------------
(* VerifyMfa. *)

\* LiveChallenge reads, and consumes nothing.
Look(r, c) ==
    /\ req[r].at = "looking"
    /\ IF c \in challenge
       THEN req' = [req EXCEPT ![r].at = "judging", ![r].challenge = c]
       ELSE Answer(r)
    /\ UNCHANGED <<factors, active, session, challenge, counters, history>>

\* VerifyAssertion, whose ceremony is the module Passkeys.
JudgeAssertion(r) ==
    /\ req[r].at = "judging" /\ req[r].kind = "verify" /\ active /\ passkeys > 0
    /\ Proven(r)
    /\ UNCHANGED <<factors, active, session, challenge, counters, history>>

\* Mutant of Usable: what LiveChallenge read is trusted.
WasLive(c) == c # None

Usable(c) == c \in challenge

Spend(r) ==
    /\ req[r].at = "spending"
    /\ IF Usable(req[r].challenge)
       THEN challenge' = challenge \ {req[r].challenge} /\ Goto(r, "elevating")
       ELSE Answer(r) /\ UNCHANGED challenge
    /\ UNCHANGED <<factors, active, session, counters, history>>

\* The guards of Resolve, said again; the token is renewed.
Elevate(r) ==
    /\ req[r].at = "elevating"
    /\ IF Alive(req[r].session)
       THEN session' = [session EXCEPT ![req[r].session] = "elevated"] /\ Goto(r, "clearing")
       ELSE Answer(r) /\ UNCHANGED session
    /\ UNCHANGED <<factors, active, challenge, counters, history>>

----------------------------------------------------------------------------
(* EnrollTotp. *)

Admit(r) ==
    /\ req[r].at = "admitting"
    /\ IF calls < MaxCalls
       THEN calls' = calls + 1 /\ Goto(r, "reading")
       ELSE Answer(r) /\ UNCHANGED calls
    /\ UNCHANGED <<factors, active, session, challenge, failures, history>>

ReadState(r) ==
    /\ req[r].at = "reading" /\ req[r].kind = "enroll"
    /\ IF active
       THEN req' = [req EXCEPT ![r].at = "counting", ![r].enrolled = secret # None, ![r].proven = last # 0]
       ELSE Answer(r)
    /\ UNCHANGED <<factors, active, session, challenge, counters, history>>

\* FactorsOf, and what follows from the two reads: a refusal, the code of the factor
\* in place (`presents`), or the write; `aside` is the handler's `pending`.
ReadFactors(r, presents) ==
    LET enrolled == req[r].enrolled
        proven == req[r].proven
        guarded == passkeys > 0
        unconfirmed == enrolled /\ ~proven /\ ~guarded
        refused == \/ ~enrolled /\ guarded /\ ~req[r].elevated
                   \/ enrolled /\ ~unconfirmed /\ ~presents
    IN  /\ req[r].at = "counting"
        /\ IF refused
           THEN Answer(r)
           ELSE req' = [req EXCEPT
                    ![r].at = IF enrolled /\ ~unconfirmed THEN "reserving" ELSE "writing",
                    ![r].replace = unconfirmed, ![r].aside = (enrolled /\ proven) \/ guarded,
                    ![r].enrolled = FALSE, ![r].proven = FALSE]
        /\ UNCHANGED <<factors, active, session, challenge, counters, history>>

Enroll(r, s) ==
    /\ req[r].at = "writing" /\ ~req[r].aside /\ s \in NewSecret
    /\ IF req[r].replace \/ secret = None
       THEN /\ secret' = s /\ last' = 0 /\ pending' = None
            /\ codes' = {s} /\ waiting' = {}
            /\ accepted' = {}
       ELSE UNCHANGED <<secret, last, pending, codes, waiting, accepted>>
    /\ Answer(r)
    /\ UNCHANGED <<passkeys, active, session, challenge, counters, replayed, wrong>>

EnrollPending(r, s) ==
    /\ req[r].at = "writing" /\ req[r].aside /\ s \in NewSecret
    /\ IF secret # None \/ passkeys > 0
       THEN pending' = s /\ waiting' = {s}
       ELSE UNCHANGED <<pending, waiting>>
    /\ Answer(r)
    /\ UNCHANGED <<secret, last, codes, passkeys, active, session, challenge, counters, history>>

----------------------------------------------------------------------------
(* ConfirmTotp. *)

ReadPending(r) ==
    /\ req[r].at = "reading" /\ req[r].kind = "confirm"
    /\ IF active /\ pending # None THEN Goto(r, "reserving") ELSE Answer(r)
    /\ UNCHANGED <<factors, active, session, challenge, counters, history>>

StillPending(s) == pending = s

\* Mutant of Promoted: the codes of the replaced secret stay.
PromotedBeside == codes \cup waiting

Promoted == waiting

\* ConfirmPending: the secret verified is the one that waits.
Confirm(r) ==
    /\ req[r].at = "confirming"
    /\ IF StillPending(req[r].proof[1])
       THEN /\ secret' = pending /\ pending' = None /\ last' = req[r].proof[2]
            /\ codes' = Promoted /\ waiting' = {}
            /\ req' = [req EXCEPT ![r].at = "clearing", ![r].proof = <<None, 0>>]
            /\ accepted' = IF secret' = req[r].proof[1] THEN {last'} ELSE {}
       ELSE Refuse(r) /\ UNCHANGED <<secret, last, pending, codes, waiting, accepted>>
    /\ UNCHANGED <<passkeys, active, session, challenge, counters, replayed, wrong>>

----------------------------------------------------------------------------
(* What else changes the rows. *)

Logout(s) ==
    /\ session[s] # "closed"
    /\ session' = [session EXCEPT ![s] = "closed"]
    /\ UNCHANGED <<factors, active, challenge, counters, req, history>>

ExpireChallenge(c) ==
    /\ c \in challenge
    /\ challenge' = challenge \ {c}
    /\ UNCHANGED <<factors, active, session, counters, req, history>>

\* A first passkey is free on a bare account; otherwise the session is elevated.
AddPasskey(s) ==
    /\ Alive(s) /\ passkeys < Keys
    /\ secret # None \/ passkeys > 0 => session[s] = "elevated"
    /\ passkeys' = passkeys + 1
    /\ UNCHANGED <<secret, last, pending, codes, waiting, active, session, challenge, counters, req, history>>

RemovePasskey(s) ==
    /\ Alive(s) /\ session[s] = "elevated" /\ passkeys > 0
    /\ secret # None \/ passkeys > 1
    /\ passkeys' = passkeys - 1
    /\ UNCHANGED <<secret, last, pending, codes, waiting, active, session, challenge, counters, req, history>>

SetStatus ==
    /\ active' = ~active
    /\ session' = IF active THEN [s \in Session |-> "closed"] ELSE session
    /\ UNCHANGED <<factors, challenge, counters, req, history>>

\* Mutant of RevokeSessions: the reset leaves them open.
KeepSessions == UNCHANGED session

RevokeSessions == session' = [s \in Session |-> "closed"]

\* A reset link consumed: AccessLinks.Consume, clearSecondFactors.
UseResetLink ==
    /\ active
    /\ secret' = None /\ last' = 0 /\ pending' = None /\ codes' = {} /\ waiting' = {} /\ passkeys' = 0
    /\ RevokeSessions
    /\ failures' = 0 /\ wrong' = 0 /\ accepted' = {}
    /\ UNCHANGED <<active, challenge, calls, req, replayed>>

\* Fifteen minutes without an admitted attempt: longer than any request lives.
Forget ==
    /\ \A r \in Request : req[r].at = "idle"
    /\ failures' = 0 /\ calls' = 0 /\ wrong' = 0
    /\ UNCHANGED <<factors, active, session, challenge, req, accepted, replayed>>

----------------------------------------------------------------------------

Serve(r) ==
    \/ \E c \in Challenge : Look(r, c)
    \/ \E kind \in {"verify", "enroll", "confirm"}, s \in Session : Start(r, kind, s)
    \/ Admit(r) \/ ReadState(r) \/ ReadPending(r) \/ \E b \in BOOLEAN : ReadFactors(r, b)
    \/ Reserve(r) \/ JudgeWrong(r) \/ JudgeAssertion(r) \/ \E c \in Secret : JudgeCode(r, c)
    \/ \E n \in 1 .. MaxStep : JudgeTotp(r, n) \/ JudgePending(r, n)
    \/ ConsumeStep(r) \/ ConsumeRecoveryCode(r) \/ Confirm(r)
    \/ \E s \in Secret : Enroll(r, s) \/ EnrollPending(r, s)
    \/ Spend(r) \/ Elevate(r) \/ Clear(r) \/ Fail(r) \/ Release(r) \/ Drop(r)

Elsewhere ==
    \/ \E s \in Session, c \in Challenge : Login(s, c)
    \/ \E s \in Session : Logout(s) \/ AddPasskey(s) \/ RemovePasskey(s)
    \/ \E c \in Challenge : ExpireChallenge(c)
    \/ SetStatus \/ UseResetLink \/ Forget

Next == Elsewhere \/ \E r \in Request : Serve(r)

Spec == Init /\ [][Next]_vars

----------------------------------------------------------------------------
(* Properties. *)

\* A code of the secret in force opens one thing once, whatever requests present it
\* and in whatever order the statements run (store/mfa.go, ConsumeStep).
CodeServesOnce == ~replayed

\* The recovery codes in force are those handed over with the secret in force, and
\* those that wait with the secret that waits (store/mfa.go, Enroll: "les trois
\* écritures ne sont pas séparables").
CodesFollowSecret == codes \subseteq {secret} /\ waiting \subseteq {pending}

\* Two requests never both get past one challenge (store/mfa.go, ConsumeChallenge).
ChallengeServesOnce ==
    \A r1, r2 \in Request : r1 # r2 /\ {req[r1].at, req[r2].at} \subseteq {"elevating", "clearing"}
        /\ req[r1].challenge # None => req[r1].challenge # req[r2].challenge

\* Until the counter is cleared no more wrong codes are seen than Threshold, and one per
\* request in flight when it was (bff/mfa.go, VerifyMfa step 2, releaseUnjudgedAttempt).
GuessesBounded == wrong <= Threshold + Cardinality(Request)

\* A session is elevated only while the account has a factor: a factor checked and
\* then taken away by a reset link elevates nothing (store/sessions.go, Elevate).
ElevationHasFactor ==
    [][\A s \in Session : session[s] # "elevated" /\ session'[s] = "elevated"
         => secret # None \/ passkeys > 0]_vars

\* "Le remplacement, lui, détruira l'authentificateur en place : il exige donc de
\* présenter ce qu'il détruira", and "la garde du remplacement est appliquée par
\* l'écriture" (bff/mfa.go): a confirmed secret gives way to a confirmed one only.
ReplacementPresented ==
    [][last # 0 /\ secret # None /\ secret' \notin {secret, None} => secret' = pending]_vars
==============================================================================
