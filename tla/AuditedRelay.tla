----------------------------- MODULE AuditedRelay -----------------------------
(***************************************************************************)
(* What the dashboard relays to the gateway, and the trace it keeps of it: *)
(* internal/bff/relay.go and its handlers, internal/gateway (one replay of *)
(* a lost read, never of a write).  A write is three steps that no         *)
(* transaction joins: the line `attempted`, the call, the line of its      *)
(* outcome; the tab may close and the process may die between any two, and *)
(* a call whose answer never came may have been applied, or be applied     *)
(* later.                                                                  *)
(***************************************************************************)
EXTENDS Naturals

CONSTANTS
    Request,    \* requests of browsers
    Category,   \* traffic categories of the one sender ID that is edited
    Served      \* Served[r]: the operations r may be a request for

Refusals == {"notFound", "conflict", "invalid"}     \* 404, 409, 422

\* What a handler does with the gateway: whether it writes, whether it first
\* reads what it will replace, whether it expects a body, the refusals it passes
\* on to the browser, and whether it refuses some requests by itself (an
\* identifier that is not one).
Write(relays) == [write |-> TRUE, lookup |-> FALSE, body |-> TRUE, relays |-> relays,
                  checks |-> "notFound" \in relays]
Read(relays) == [Write(relays) EXCEPT !.write = FALSE]
Bodiless(relays) == [Write(relays) EXCEPT !.body = FALSE]

ListCustomers == Read({"invalid"})
CreateCustomer == Write({"invalid"})
GetCustomer == Read({"notFound", "invalid"})
UpdateCustomer == Write({"notFound", "invalid"})
SetCustomerGroup == Write({"notFound", "invalid"})
GetCustomerSuspensionImpact == Read({"notFound", "invalid"})
SuspendCustomer == Write({"notFound", "invalid"})
ReactivateCustomer == Write({"notFound", "invalid"})

ListAccounts == Read({"invalid"})
CreateAccount == Write({"conflict", "invalid"})
GetAccount == Read({"notFound", "invalid"})
SetAccountChannels == Write({"notFound", "invalid"})
SetAccountSmppOps == Write({"notFound", "invalid"})
SetAccountSessionLimits == Write({"notFound", "invalid"})
ListAccountSessions == Read({"notFound", "invalid"})

ListCustomerGroups == Read({"invalid"})
CreateCustomerGroup == Write({"conflict", "invalid"})
GetCustomerGroup == Read({"notFound", "invalid"})
UpdateCustomerGroup == Write({"notFound", "conflict", "invalid"})
DeleteCustomerGroup == Bodiless({"notFound", "invalid"})

ListSenderIds == Read({"notFound", "invalid"})
CreateSenderId == [Write({"conflict", "invalid"}) EXCEPT !.checks = TRUE]
UpdateSenderIdStatus == Write({"notFound", "invalid"})
UpdateSenderIdCategory == [Write({"notFound", "invalid"}) EXCEPT !.lookup = TRUE]
SetSenderIdRateLimit == Write({"notFound", "invalid"})
DeleteSenderIdRateLimit == Bodiless({"notFound", "invalid"})
DeleteSenderId == Bodiless({"notFound", "conflict", "invalid"})

ListWebhooks == Read({"notFound", "invalid"})
CreateWebhook == Write({"notFound", "conflict", "invalid"})
UpdateWebhook == Write({"notFound", "invalid"})
RotateWebhookSecret == Write({"notFound", "invalid"})
DeleteWebhook == Bodiless({"notFound", "invalid"})

ListCredentials == Read({"notFound", "invalid"})
CreateCredential == Write({"notFound", "conflict", "invalid"})
RevokeCredential == Bodiless({"notFound", "invalid"})
RotateCredential == Write({"notFound", "conflict", "invalid"})
ListAccountBindFailures == Read({"notFound", "invalid"})

Operations ==
    { ListCustomers, CreateCustomer, GetCustomer, UpdateCustomer, SetCustomerGroup,
      GetCustomerSuspensionImpact, SuspendCustomer, ReactivateCustomer,
      ListAccounts, CreateAccount, GetAccount, SetAccountChannels, SetAccountSmppOps,
      SetAccountSessionLimits, ListAccountSessions,
      ListCustomerGroups, CreateCustomerGroup, GetCustomerGroup, UpdateCustomerGroup,
      DeleteCustomerGroup,
      ListSenderIds, CreateSenderId, UpdateSenderIdStatus, UpdateSenderIdCategory,
      SetSenderIdRateLimit, DeleteSenderIdRateLimit, DeleteSenderId,
      ListWebhooks, CreateWebhook, UpdateWebhook, RotateWebhookSecret, DeleteWebhook,
      ListCredentials, CreateCredential, RevokeCredential, RotateCredential,
      ListAccountBindFailures }

ASSUME ServedAssumption == Served \in [Request -> SUBSET Operations]

VARIABLES
    req,        \* req[r]: what the handler of r holds
    wire,       \* wire[r]: the attempts of the write of r still to be served
    audit,      \* audit[r]: the lines of the audit log about r
    category,   \* the category of the sender ID, at the gateway
    applied,    \* history: how many times the gateway applied the write of r
    untraced    \* history: the outcome line of r was refused by the database

vars == <<req, wire, audit, category, applied, untraced>>

Answers == Refusals \cup
    { "done",           \* 2xx, with the body the handler expects
      "bare",           \* 2xx without it
      "rejected",       \* 401 or 403: the token
      "tooMany",        \* 429
      "failing",        \* 500 or 503
      "unjoinable",     \* 502 or 504: an intermediary did not join the gateway
      "none" }          \* no answer: the network, the time limit, a closed tab
Replies == {"none", "done", "refused", "rejected", "unavailable", "error"}
Places == {"idle", "reading", "read", "looking", "looked", "tracing", "writing", "written",
           "done", "dead"}
Idle == [at |-> "idle", op |-> GetCustomer, try |-> 0, answer |-> "none",
         gone |-> FALSE, late |-> FALSE, want |-> "none", before |-> "none", reply |-> "none"]

TypeOK ==
    /\ req \in [Request ->
         [at : Places, op : Operations, try : 0 .. 2, answer : Answers, gone : BOOLEAN,
          late : BOOLEAN, want : Category \cup {"none"}, before : Category \cup {"none"},
          reply : Replies]]
    /\ wire \in [Request -> SUBSET (1 .. 2)]
    /\ audit \in [Request -> SUBSET {"attempted", "succeeded", "failed"}]
    /\ category \in Category
    /\ applied \in [Request -> 0 .. 2]
    /\ untraced \in [Request -> BOOLEAN]

Init ==
    /\ req = [r \in Request |-> Idle]
    /\ wire = [r \in Request |-> {}]
    /\ audit = [r \in Request |-> {}]
    /\ category \in Category
    /\ applied = [r \in Request |-> 0]
    /\ untraced = [r \in Request |-> FALSE]

At(r, place) == req[r].at = place

Goes(r, change) == req' = [req EXCEPT ![r] = change]

----------------------------------------------------------------------------
(* The client of the gateway. *)

\* Mutant of WorthReplaying: the guard of the error goes before the guard of the method.
ReplaysLostWrites(write, answer) ==
    answer = "none" \/ (~write /\ answer = "unjoinable")

\* worthReplaying: reads only, when the connection fell or an intermediary answered.
WorthReplaying(write, answer) == ~write /\ answer \in {"none", "unjoinable"}

Sends(r, place, n) ==
    /\ Goes(r, [req[r] EXCEPT !.at = place, !.try = n, !.answer = "none"])
    /\ wire' = IF place = "writing" THEN [wire EXCEPT ![r] = @ \cup {n}] ELSE wire

\* Where the answer of each call is looked at.
After(place) ==
    CASE place = "looking" -> "looked" [] place = "reading" -> "read" [] place = "writing" -> "written"

Answered(r, a) == [req[r] EXCEPT !.at = After(@), !.answer = a]

CallOf(place) ==
    CASE place = "looked" -> "looking" [] place = "read" -> "reading" [] place = "written" -> "writing"

\* RoundTrip: the second attempt is the last; a caller that has left, or run
\* out of time, sends none.
Again(r) ==
    /\ WorthReplaying(At(r, "written"), req[r].answer)
    /\ req[r].try = 1 /\ ~req[r].gone /\ ~req[r].late

Replay(r) ==
    /\ req[r].at \in {"looked", "read", "written"} /\ Again(r)
    /\ Sends(r, CallOf(req[r].at), 2)
    /\ UNCHANGED <<audit, category, applied, untraced>>

\* The connection falls (`late`: the time limit of the whole call is over).
CallFails(r, late) ==
    /\ req[r].at \in {"looking", "reading", "writing"}
    /\ Goes(r, [Answered(r, "none") EXCEPT !.late = late])
    /\ UNCHANGED <<wire, audit, category, applied, untraced>>

----------------------------------------------------------------------------
(* The gateway. *)

Accepts(a) == a \in {"done", "bare"}

\* It may answer any refusal of the contract; a body is missing only where one
\* is expected.
MayAnswer(op, a) ==
    /\ a # "none"
    /\ a = "bare" => op.body
    /\ a \in {"notFound", "conflict"} => a \in op.relays

\* A read: the answer only matters to who waits for it.  The list of sender IDs
\* holds the category of the moment.
ServesRead(r, a) ==
    /\ req[r].at \in {"looking", "reading"} /\ MayAnswer(req[r].op, a)
    /\ Goes(r, [Answered(r, a) EXCEPT
                  !.before = IF At(r, "looking") /\ a = "done" THEN category ELSE @])
    /\ UNCHANGED <<wire, audit, category, applied, untraced>>

\* What an answer says of a write: a refusal leaves everything as it was; of a
\* failure, nobody knows.  What exists already cannot be created again.
Consistent(r, a, applies) ==
    /\ Accepts(a) => applies
    /\ applies => Accepts(a) \/ a \in {"failing", "unjoinable"}
    /\ applies /\ applied[r] > 0 => "conflict" \notin req[r].op.relays

\* A write, whether or not somebody still waits for this attempt.
ServesWrite(r, n, a, applies, arrives) ==
    /\ n \in wire[r] /\ MayAnswer(req[r].op, a) /\ Consistent(r, a, applies)
    /\ wire' = [wire EXCEPT ![r] = @ \ {n}]
    /\ applied' = [applied EXCEPT ![r] = IF applies THEN @ + 1 ELSE @]
    /\ category' = IF applies /\ req[r].op.lookup THEN req[r].want ELSE category
    /\ IF arrives THEN At(r, "writing") /\ req[r].try = n /\ Goes(r, Answered(r, a)) ELSE req' = req
    /\ UNCHANGED <<audit, untraced>>

----------------------------------------------------------------------------
(* What the browser is told. *)

\* relayedRefusal and the switch of the handler: no answer, 429, 5xx and a
\* missing body are "try again"; a refusal the handler does not list is a 500.
Reply(op, a) ==
    IF a = "done" THEN "done"
    ELSE IF a = "rejected" THEN "rejected"
    ELSE IF a \in Refusals THEN IF a \in op.relays THEN "refused" ELSE "error"
    ELSE "unavailable"

\* The handler is over: what it held is gone, what it asked for is not.
Over(r, at, reply) == [req[r] EXCEPT !.at = at, !.reply = reply, !.try = 0, !.answer = "none",
                                     !.gone = FALSE, !.late = FALSE]

Ends(r, reply) == Over(r, "done", reply)

----------------------------------------------------------------------------
(* auditRelayed and its callers. *)

\* Behind the guard of internal/bff/guard.go.
Enter(r, op, want) ==
    /\ At(r, "idle") /\ op \in Served[r]
    /\ LET it == [Idle EXCEPT !.op = op, !.want = IF op.lookup THEN want ELSE "none"]
       IN  \/ op.checks /\ Goes(r, [it EXCEPT !.at = "done", !.reply = "refused"])
           \/ op.lookup /\ Goes(r, [it EXCEPT !.at = "looking", !.try = 1])
           \/ op.write /\ ~op.lookup /\ Goes(r, [it EXCEPT !.at = "tracing"])
           \/ ~op.write /\ Goes(r, [it EXCEPT !.at = "reading", !.try = 1])
    /\ UNCHANGED <<wire, audit, category, applied, untraced>>

\* senderIDCategory: the category is in the list, or the sender ID is unknown.
Looked(r) ==
    /\ At(r, "looked") /\ ~Again(r)
    /\ \/ req[r].answer = "done" /\ Goes(r, [req[r] EXCEPT !.at = "tracing", !.late = FALSE])
       \/ req[r].answer = "done" /\ Goes(r, Ends(r, "refused"))
       \/ req[r].answer # "done" /\ Goes(r, Ends(r, Reply(req[r].op, req[r].answer)))
    /\ UNCHANGED <<wire, audit, category, applied, untraced>>

\* Mutant of Intend: the call leaves whatever became of the line.
IntendAnyway(r) ==
    /\ At(r, "tracing")
    /\ \/ audit' = [audit EXCEPT ![r] = @ \cup {"attempted"}]
       \/ UNCHANGED audit
    /\ Sends(r, "writing", 1)
    /\ UNCHANGED <<category, applied, untraced>>

\* Records the intention, then calls.  An insertion that fails, or whose
\* acknowledgement is lost, keeps the call from leaving.
Intend(r) ==
    /\ At(r, "tracing")
    /\ \/ /\ ~req[r].gone
          /\ audit' = [audit EXCEPT ![r] = @ \cup {"attempted"}]
          /\ Sends(r, "writing", 1)
       \/ /\ \/ audit' = [audit EXCEPT ![r] = @ \cup {"attempted"}]
             \/ UNCHANGED audit
          /\ Goes(r, Ends(r, "error"))
          /\ UNCHANGED wire
    /\ UNCHANGED <<category, applied, untraced>>

Outcome(a) == IF Accepts(a) THEN "succeeded" ELSE "failed"

\* Mutant of Recorded: on the context of the request.
RecordedUnlessGone(r) == ~req[r].gone

\* context.WithoutCancel: a closed tab does not keep the outcome from being written.
Recorded(r) == TRUE

\* Records the outcome, then answers; a line that the database refuses is only logged.
Conclude(r) ==
    /\ At(r, "written") /\ ~Again(r)
    /\ \/ /\ audit' = IF Recorded(r) THEN [audit EXCEPT ![r] = @ \cup {Outcome(req[r].answer)}]
                      ELSE audit
          /\ UNCHANGED untraced
       \/ untraced' = [untraced EXCEPT ![r] = TRUE] /\ UNCHANGED audit
    /\ Goes(r, Ends(r, Reply(req[r].op, req[r].answer)))
    /\ UNCHANGED <<wire, category, applied>>

\* A handler that only reads.
Relay(r) ==
    /\ At(r, "read") /\ ~Again(r)
    /\ Goes(r, Ends(r, Reply(req[r].op, req[r].answer)))
    /\ UNCHANGED <<wire, audit, category, applied, untraced>>

----------------------------------------------------------------------------
(* Tabs and processes. *)

Busy(r) == req[r].at \notin {"idle", "done", "dead"}

\* The browser leaves: the context of the request is cancelled.
CloseTab(r) ==
    /\ Busy(r) /\ ~req[r].gone
    /\ Goes(r, [req[r] EXCEPT !.gone = TRUE])
    /\ UNCHANGED <<wire, audit, category, applied, untraced>>

\* The process dies; what it sent may still be served.
Die(r) ==
    /\ Busy(r)
    /\ Goes(r, Over(r, "dead", "none"))
    /\ UNCHANGED <<wire, audit, category, applied, untraced>>

----------------------------------------------------------------------------
Handler(r) == Looked(r) \/ Intend(r) \/ Replay(r) \/ Conclude(r) \/ Relay(r)

Next ==
    \E r \in Request :
        \/ Handler(r) \/ CloseTab(r) \/ Die(r)
        \/ \E op \in Served[r], want \in Category : Enter(r, op, want)
        \/ \E late \in BOOLEAN : CallFails(r, late)
        \/ \E a \in Answers : ServesRead(r, a)
        \/ \E n \in 1 .. 2, a \in Answers, applies, arrives \in BOOLEAN :
              ServesWrite(r, n, a, applies, arrives)

Spec == Init /\ [][Next]_vars

(***************************************************************************)
(* Handlers run, and the time limit of the client ends every call.         *)
(***************************************************************************)
Fairness ==
    \A r \in Request : WF_vars(Handler(r)) /\ WF_vars(CallFails(r, TRUE))

FairSpec == Spec /\ Fairness

----------------------------------------------------------------------------
(* Properties. *)

Traced(r, outcome) == outcome \in audit[r]

\* Nothing is changed at the gateway, by a live request or long after its death,
\* that the audit log does not announce (relay.go, auditRelayed: "L'intention
\* s'écrit donc avant l'appel").
NothingWithoutIntent == \A r \in Request : applied[r] > 0 => Traced(r, "attempted")

\* A write is applied once at most, whatever was lost on the way (retry.go:
\* "Jamais un POST, un PATCH ni un DELETE").
WrittenOnce == \A r \in Request : applied[r] <= 1

\* What the log and the browser affirm of a write is true: `succeeded` and "done" are
\* applied, and never stand beside `failed`; a refusal, or "l'action n'a pas eu lieu",
\* is not and will not be.  Of the rest nothing is affirmed: `failed` (relay.go:86) and
\* "try again" are also what is said of a write whose answer was lost, or was a 5xx,
\* and which was applied, or will be.
VerdictsHold ==
    \A r \in Request : req[r].op.write =>
        /\ Traced(r, "succeeded") \/ req[r].reply = "done" => applied[r] = 1 /\ ~Traced(r, "failed")
        /\ req[r].reply \in {"refused", "rejected"} => applied[r] = 0 /\ wire[r] = {}

\* An intention is followed by its outcome, even when the tab has closed, unless
\* the process died or the database refused the line.
OutcomeFollows ==
    \A r \in Request :
        At(r, "writing") ~>
            \/ Traced(r, "succeeded") \/ Traced(r, "failed")
            \/ At(r, "dead") \/ untraced[r]

\* bff/sender_ids.go, senderIDCategory: "l'audit garde celle que le sender ID
\* quitte": the category that an edit recorded is the one it replaces.
BeforeIsLeft ==
    [][\A r \in Request : req[r].op.lookup /\ applied'[r] > applied[r] =>
         req[r].before = category]_vars
===============================================================================
