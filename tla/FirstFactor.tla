----------------------------- MODULE FirstFactor -----------------------------
(***************************************************************************)
(* POST /auth/login: Authenticator.Login (internal/auth/authenticator.go)  *)
(* over the address and source counters (internal/store/logins.go), as run *)
(* by concurrent requests of any number of instances.  Each statement is   *)
(* one step; between two of them anything may happen, the death of the     *)
(* request included.                                                       *)
(***************************************************************************)
EXTENDS AttemptCounter, FiniteSets

CONSTANTS
    Request,    \* requests in flight at once
    Email,      \* submitted addresses, normalised
    Known,      \* those that name an operator
    Source,     \* client addresses
    Life        \* the longest a request lives: apiRequestDeadline (internal/bff/hardening.go)

\* A request and what it waits for are over in seconds; the window lasts minutes.
ASSUME FirstFactorAssumption ==
    /\ IsFiniteSet(Request)
    /\ Known \subseteq Email /\ Life \in Nat /\ Life + Patience < Window
    /\ "none" \notin Email \cup Source

VARIABLES
    email,      \* email[e]: the row of scope email
    source,     \* source[s]: the row of scope source
    active,     \* the operators whose status is active
    req,        \* req[r]: where request r is, and what it holds
    admitted,   \* history: the attempts admitted on e since its last success
    cleared     \* history: the requests whose address a success cleared since they
                \* were admitted on it

vars == <<email, source, active, req, admitted, cleared>>

Steps == {"idle", "reserving", "looking", "hashing", "refusing", "clearing", "challenging"}
None == "none"
Free == [at |-> "idle", email |-> None, source |-> None, failures |-> 0, live |-> FALSE, age |-> 0]

Row == [failures : Nat, age : 0 .. Oldest]

\* An admitted attempt: how long ago, and which of those of that instant.
Attempt == [age : 0 .. Window, nth : Nat]

TypeOK ==
    /\ email \in [Email -> Row] /\ source \in [Source -> Row]
    /\ active \subseteq Known
    /\ req \in [Request -> [at : Steps, email : Email \cup {None}, source : Source \cup {None},
                            failures : 0 .. Threshold, live : BOOLEAN, age : 0 .. Life]]
    /\ admitted \in [Email -> SUBSET Attempt]
    /\ cleared \subseteq Request

Init ==
    /\ email = [e \in Email |-> NoRow]
    /\ source = [s \in Source |-> NoRow]
    /\ active = Known
    /\ req = [r \in Request |-> Free]
    /\ admitted = [e \in Email |-> {}]
    /\ cleared = {}

Goto(r, step) == req' = [req EXCEPT ![r].at = step]
Answer(r) == req' = [req EXCEPT ![r] = Free] /\ cleared' = cleared \ {r}

\* The requests admitted on e whose password nobody has accepted.
Trying(e) == {r \in Request : req[r].email = e /\ req[r].at \in {"looking", "hashing", "refusing"}}

\* SourceLock, read only: a locked source is answered at once, and its attempt
\* costs the address nothing.
Enter(r, e, s) ==
    /\ req[r].at = "idle" /\ ~Locks(source[s], 0)
    /\ req' = [req EXCEPT ![r] = [Free EXCEPT !.at = "reserving", !.email = e, !.source = s]]
    /\ UNCHANGED <<email, source, active, admitted, cleared>>

\* The attempt admitted on e at the age `now`.
Newest(e, now) == [age |-> now, nth |-> Cardinality({a \in admitted[e] : a.age = now})]

\* Reserve on the address; `now` is how long ago the transaction started.  What
\* the statement returns as admitted is last_failure_at = now(), that it wrote the
\* row: the now() of two transactions are taken as distinct.
ReserveEmail(r, now) ==
    LET e == req[r].email
        row == Reserve(email[e], now)
    IN  /\ req[r].at = "reserving" /\ now <= req[r].age
        /\ email' = [email EXCEPT ![e] = row]
        /\ IF Admits(email[e], now)
           THEN /\ req' = [req EXCEPT ![r].at = "looking", ![r].failures = row.failures]
                /\ admitted' = [admitted EXCEPT ![e] = @ \cup {Newest(e, now)}]
                /\ UNCHANGED cleared
           ELSE Answer(r) /\ UNCHANGED admitted
        /\ UNCHANGED <<source, active>>

\* OperatorByEmail: the status is read before the hash is paid.
Look(r) ==
    /\ req[r].at = "looking"
    /\ req' = [req EXCEPT ![r].at = "hashing", ![r].live = req[r].email \in active]
    /\ UNCHANGED <<email, source, active, admitted, cleared>>

\* passwordMatches; an unknown address pays the dummy hash.
Judge(r, right) ==
    /\ req[r].at = "hashing"
    /\ Goto(r, IF right /\ req[r].live THEN "clearing" ELSE "refusing")
    /\ UNCHANGED <<email, source, active, admitted, cleared>>

\* Mutant of AtThreshold: the lock is announced one attempt too soon.
BelowThreshold(failures) == failures + 1 >= Threshold

AtThreshold(failures) == failures >= Threshold

\* refuse: the source is counted, the lock announced at the threshold.
Refuse(r, now) ==
    LET s == req[r].source IN
    /\ req[r].at = "refusing" /\ now <= req[r].age
    /\ source' = [source EXCEPT ![s] = Count(@, now)]
    /\ Answer(r)
    /\ UNCHANGED <<email, active, admitted>>

Announces(r) == req[r].at = "refusing" /\ AtThreshold(req[r].failures)

\* ClearFailures on the address only.
Clear(r) ==
    /\ req[r].at = "clearing"
    /\ email' = [email EXCEPT ![req[r].email] = NoRow]
    /\ admitted' = [admitted EXCEPT ![req[r].email] = {}]
    /\ cleared' = cleared \cup Trying(req[r].email)
    /\ Goto(r, "challenging")
    /\ UNCHANGED <<source, active>>

\* IssueChallenge: what it starts is the second factor's.
Challenge(r) ==
    /\ req[r].at = "challenging"
    /\ Answer(r)
    /\ UNCHANGED <<email, source, active, admitted>>

\* Overloaded hash slots, a cancelled context, a failing base: the request ends
\* where it is, and the attempt it reserved stays counted.
Drop(r) ==
    /\ req[r].at # "idle"
    /\ Answer(r)
    /\ UNCHANGED <<email, source, active, admitted>>

SetStatus(e) ==
    /\ e \in Known
    /\ active' = IF e \in active THEN active \ {e} ELSE active \cup {e}
    /\ UNCHANGED <<email, source, req, admitted, cleared>>

\* The attempts of the window, one instant later.
Aged(attempts) == {[a EXCEPT !.age = @ + 1] : a \in {b \in attempts : b.age < Window}}

Tick ==
    /\ \A r \in Request : req[r].at # "idle" => req[r].age < Life
    /\ email' = [e \in Email |-> Older(email[e])]
    /\ source' = [s \in Source |-> Older(source[s])]
    /\ req' = [r \in Request |-> IF req[r].at = "idle" THEN req[r] ELSE [req[r] EXCEPT !.age = @ + 1]]
    /\ admitted' = [e \in Email |-> Aged(admitted[e])]
    /\ UNCHANGED <<active, cleared>>

Serve(r) ==
    \/ \E e \in Email, s \in Source : Enter(r, e, s)
    \/ \E now \in 0 .. Patience : ReserveEmail(r, now)
    \/ Look(r) \/ \E right \in BOOLEAN : Judge(r, right)
    \/ \E now \in 0 .. Patience : Refuse(r, now)
    \/ Clear(r) \/ Challenge(r) \/ Drop(r)

Next == Tick \/ (\E r \in Request : Serve(r)) \/ (\E e \in Email : SetStatus(e))

Spec == Init /\ [][Next]_vars

----------------------------------------------------------------------------
(* Properties. *)

AdmittedWithin(e, length) == Cardinality({a \in admitted[e] : a.age < length})

\* Whatever requests run together, an address whose owner does not log in gives
\* no more than Threshold password checks in a window, less the time a
\* statement may wait for the row (counters.go, reserve).
AttemptsBounded ==
    \A e \in Email : AdmittedWithin(e, Window - Patience) <= Threshold

\* A burst overshoots the threshold of a source by the requests already past
\* SourceLock, never more (logins.go: "c'est assumé").
SourceOvershootBounded ==
    \A s \in Source : source[s].failures < Threshold + Cardinality(Request)

\* A source is never forgiven by a success: its failures only fall once its
\* window has passed (logins.go, ClearFailures).
SourceOnlyForgets ==
    [][\A s \in Source : source'[s].failures < source[s].failures
         => source[s].age >= Window]_vars

\* The request that announces the lock says true: an attempt made now on the
\* address would be refused, unless a success cleared the address since the
\* request was admitted on it (authenticator.go, refuse).
AnnouncedLockIsReal ==
    \A r \in Request \ cleared : Announces(r) => Locks(email[req[r].email], 0)

\* Whoever keeps trying does not keep an address closed: only time, or its
\* owner's success, moves the deadline of a lock (counters.go, reserve).
LockDeadlineHolds ==
    [][\A e \in Email : Locks(email[e], 0)
         => email'[e] = NoRow \/ email'[e].age >= email[e].age]_vars
===============================================================================
