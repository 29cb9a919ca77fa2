-------------------------- MODULE AuditedRelayProofs --------------------------
(***************************************************************************)
(* Proofs about AuditedRelay, for any number of requests and categories.   *)
(*                                                                         *)
(* The invariant says, of each request, what its place and what it holds   *)
(* mean for the write it sent (Told): before the call nothing was sent; at *)
(* most one attempt is ever on the wire, and it or what it did is          *)
(* announced; a success or a refusal, in hand, in the log or in the reply, *)
(* says what became of it, and `failed` never stands beside a success.     *)
(***************************************************************************)
EXTENDS AuditedRelay, TLAPS

Held == [at : Places, op : Operations, try : 0 .. 2, answer : Answers, gone : BOOLEAN,
         late : BOOLEAN, want : Category \cup {"none"}, before : Category \cup {"none"},
         reply : Replies]

Refused(a) == a \in Refusals \cup {"rejected", "tooMany"}

\* q: what the handler holds; w: its attempts on the wire; u: its lines; n: how many
\* times its write was applied.
Tells(q, w, u, n) ==
    /\ w = {} \/ (w = {1} /\ n = 0)
    /\ n \in {0, 1}
    /\ w # {} \/ n # 0 \/ q.at \in {"writing", "written"} => "attempted" \in u
    /\ q.at \in {"idle", "reading", "read", "looking", "looked", "tracing"} => w = {} /\ n = 0
    /\ q.at \in {"reading", "read"} => ~q.op.write
    /\ q.at \notin {"done", "dead"} => q.reply = "none"
    /\ q.at = "writing" => q.try = 1
    /\ q.at = "written" /\ Accepts(q.answer) => n = 1
    /\ q.at = "written" /\ Refused(q.answer) => w = {} /\ n = 0
    /\ "succeeded" \in u => n = 1 /\ "failed" \notin u
    /\ q.at # "done" => u \subseteq {"attempted"}
    /\ q.reply = "done" /\ q.op.write => n = 1 /\ "failed" \notin u
    /\ q.reply \in {"refused", "rejected"} => w = {} /\ n = 0
    /\ q.op.lookup => q.want \in Category

Told(r) == Tells(req[r], wire[r], audit[r], applied[r])

Typed ==
    /\ req \in [Request -> Held]
    /\ wire \in [Request -> SUBSET (1 .. 2)]
    /\ audit \in [Request -> SUBSET {"attempted", "succeeded", "failed"}]
    /\ category \in Category
    /\ applied \in [Request -> 0 .. 2]
    /\ untraced \in [Request -> BOOLEAN]

RelayInv == Typed /\ \A r \in Request : Told(r)

\* An idle request holds nothing.
LEMMA IdleIsHeld == Idle \in Held /\ ~Idle.op.lookup
<1>1. GetCustomer \in Operations
  BY Zenon DEF Operations
<1>2. ~GetCustomer.lookup
  BY DEF GetCustomer, Read, Write
<1>3. "idle" \in Places /\ "none" \in Answers /\ "none" \in Replies /\ 0 \in 0 .. 2
  BY DEF Places, Answers, Replies
<1>4. Idle \in Held
  BY <1>1, <1>3, Zenon DEF Idle, Held
<1>5. Idle.op = GetCustomer
  BY DEF Idle
<1> QED
  BY <1>2, <1>4, <1>5

\* Nothing was asked, announced or applied yet.
LEMMA RelayInvInit == Init => RelayInv
<1> SUFFICES ASSUME Init PROVE RelayInv
  OBVIOUS
<1>1. Typed
  BY IdleIsHeld DEF Init, Typed
<1>2. Idle.at = "idle" /\ Idle.reply = "none"
  BY DEF Idle
<1>3. ASSUME NEW r \in Request PROVE Told(r)
  BY <1>2, IdleIsHeld DEF Init, Told, Tells
<1> QED
  BY <1>1, <1>3 DEF RelayInv

\* A step changes what is told of one request only.
LEMMA OneMoves ==
  ASSUME RelayInv, NEW r \in Request,
         NEW q \in Held, NEW w \in SUBSET (1 .. 2), NEW u \in SUBSET {"attempted", "succeeded", "failed"},
         NEW n \in 0 .. 2, Tells(q, w, u, n),
         req' = [req EXCEPT ![r] = q], wire' = [wire EXCEPT ![r] = w], audit' = [audit EXCEPT ![r] = u],
         applied' = [applied EXCEPT ![r] = n],
         category' \in Category, untraced' \in [Request -> BOOLEAN]
  PROVE  RelayInv'
<1>1. Typed'
  BY DEF RelayInv, Typed
<1>2. Told(r)'
  BY DEF RelayInv, Typed, Told
<1>3. ASSUME NEW s \in Request \ {r} PROVE Told(s)'
  BY DEF RelayInv, Typed, Told
<1> QED
  BY <1>1, <1>2, <1>3 DEF RelayInv

\* A step that only changes what its handler holds.
LEMMA HandlerMoves ==
  ASSUME RelayInv, NEW r \in Request, NEW q \in Held, Tells(q, wire[r], audit[r], applied[r]),
         req' = [req EXCEPT ![r] = q], UNCHANGED <<wire, audit, category, applied, untraced>>
  PROVE  RelayInv'
<1>1. Typed'
  BY DEF RelayInv, Typed
<1>2. Told(r)'
  BY DEF RelayInv, Typed, Told
<1>3. ASSUME NEW s \in Request \ {r} PROVE Told(s)'
  BY DEF RelayInv, Typed, Told
<1> QED
  BY <1>1, <1>2, <1>3 DEF RelayInv

\* No step of a handler, of the client or of the gateway breaks the invariant.
LEMMA RelayInvStep == RelayInv /\ [Next]_vars => RelayInv'
<1> SUFFICES ASSUME RelayInv, [Next]_vars PROVE RelayInv'
  OBVIOUS
<1>1. CASE UNCHANGED vars
  BY <1>1 DEF vars, RelayInv, Typed, Told, Tells
<1>2. ASSUME NEW r \in Request PROVE req[r] \in Held /\ Tells(req[r], wire[r], audit[r], applied[r])
  BY DEF RelayInv, Typed, Told
<1>3. ASSUME NEW r \in Request, NEW q \in Held, NEW at \in Places, NEW reply \in Replies
      PROVE  /\ [q EXCEPT !.at = at, !.reply = reply, !.try = 0, !.answer = "none", !.gone = FALSE, !.late = FALSE] \in Held
  <2>1. "none" \in Answers /\ 0 \in 0 .. 2
    BY DEF Answers
  <2> QED BY <2>1, Zenon DEF Held
<1>4. ASSUME NEW r \in Request, NEW at \in {"done", "dead"}, NEW reply \in Replies,
             req[r].reply = "none", req[r].at # "done",
             reply = "done" /\ req[r].op.write => applied[r] = 1,
             reply \in {"refused", "rejected"} => wire[r] = {} /\ applied[r] = 0,
             Goes(r, Over(r, at, reply)), UNCHANGED <<wire, audit, category, applied, untraced>>
      PROVE  RelayInv'
  <2>1. at \in Places
    BY DEF Places
  <2>2. Over(r, at, reply) \in Held
    BY <1>2, <1>3, <2>1 DEF Over
  <2>3. /\ Over(r, at, reply).at = at /\ Over(r, at, reply).reply = reply
        /\ Over(r, at, reply).op = req[r].op /\ Over(r, at, reply).want = req[r].want
    BY <1>2 DEF Over, Held
  <2>4. Tells(Over(r, at, reply), wire[r], audit[r], applied[r])
    BY <1>2, <1>4, <2>3 DEF Tells
  <2> QED BY <1>4, <2>2, <2>4, HandlerMoves DEF Goes
<1>5. ASSUME NEW r \in Request, Die(r) PROVE RelayInv'
  BY <1>5, <1>4, <1>2 DEF Die, Busy, Tells, Replies
<1>6. ASSUME NEW r \in Request, CloseTab(r) PROVE RelayInv'
  <2>1. [req[r] EXCEPT !.gone = TRUE] \in Held
    BY <1>2, Zenon DEF Held
  <2>2. Tells([req[r] EXCEPT !.gone = TRUE], wire[r], audit[r], applied[r])
    BY <1>2 DEF Tells, Held
  <2> QED BY <1>6, <2>1, <2>2, HandlerMoves DEF CloseTab, Goes
<1>7. ASSUME NEW r \in Request, NEW late \in BOOLEAN, CallFails(r, late) PROVE RelayInv'
  <2> DEFINE q == [Answered(r, "none") EXCEPT !.late = late]
  <2>1. After(req[r].at) \in Places /\ "none" \in Answers
    BY <1>7 DEF CallFails, After, Places, Answers
  <2>2. q \in Held
    BY <1>2, <2>1, Zenon DEF Answered, Held
  <2>3. /\ q.at = After(req[r].at) /\ q.op = req[r].op /\ q.answer = "none" /\ q.reply = req[r].reply
        /\ q.want = req[r].want /\ q.try = req[r].try
    BY <1>2 DEF Answered, Held
  <2>4. Tells(q, wire[r], audit[r], applied[r])
    <3> HIDE DEF q
    <3> QED BY <1>2, <1>7, <2>3 DEF CallFails, After, Tells, Accepts, Refused, Refusals
  <2> QED BY <1>7, <2>2, <2>4, HandlerMoves DEF CallFails, Goes
<1>8. ASSUME NEW r \in Request, NEW a \in Answers, ServesRead(r, a) PROVE RelayInv'
  <2> DEFINE b == IF At(r, "looking") /\ a = "done" THEN category ELSE req[r].before
             q == [Answered(r, a) EXCEPT !.before = b]
  <2>1. After(req[r].at) \in Places /\ b \in Category \cup {"none"}
    BY <1>2, <1>8 DEF ServesRead, After, Places, RelayInv, Typed, Held
  <2>2. q \in Held
    <3> HIDE DEF b
    <3> QED BY <1>2, <2>1, Zenon DEF Answered, Held
  <2>3. /\ q.at = After(req[r].at) /\ q.op = req[r].op /\ q.reply = req[r].reply
        /\ q.want = req[r].want /\ q.try = req[r].try
    BY <1>2 DEF Answered, Held
  <2>4. req' = [req EXCEPT ![r] = q]
    BY <1>2, <1>8 DEF ServesRead, Goes, Answered, Held
  <2>5. Tells(q, wire[r], audit[r], applied[r])
    <3> HIDE DEF q
    <3> QED BY <1>2, <1>8, <2>3 DEF ServesRead, After, Tells
  <2> HIDE DEF q
  <2> QED BY <1>8, <2>2, <2>4, <2>5, HandlerMoves DEF ServesRead
<1>9. ASSUME NEW r \in Request, Relay(r) PROVE RelayInv'
  <2>1. Reply(req[r].op, req[r].answer) \in Replies
    BY DEF Reply, Replies
  <2>2. /\ ~req[r].op.write /\ req[r].reply = "none" /\ wire[r] = {} /\ applied[r] = 0
        /\ req[r].at # "done"
    BY <1>2, <1>9 DEF Relay, At, Tells
  <2> QED BY <1>4, <1>9, <2>1, <2>2 DEF Relay, Ends
<1>10. ASSUME NEW r \in Request, Looked(r) PROVE RelayInv'
  <2>1. /\ req[r].reply = "none" /\ wire[r] = {} /\ applied[r] = 0
        /\ req[r].at # "done" /\ audit[r] \subseteq {"attempted"}
    BY <1>2, <1>10 DEF Looked, At, Tells
  <2>2. CASE Goes(r, [req[r] EXCEPT !.at = "tracing", !.late = FALSE])
    <3> DEFINE q == [req[r] EXCEPT !.at = "tracing", !.late = FALSE]
    <3>1. "tracing" \in Places
      BY DEF Places
    <3>2. q \in Held
      BY <1>2, <3>1, Zenon DEF Held
    <3>3. q.at = "tracing" /\ q.op = req[r].op /\ q.reply = "none" /\ q.want = req[r].want
      BY <1>2, <2>1 DEF Held
    <3>4. Tells(q, wire[r], audit[r], applied[r])
      <4> HIDE DEF q
      <4> QED BY <1>2, <2>1, <3>3 DEF Tells
    <3> QED BY <1>10, <2>2, <3>2, <3>4, HandlerMoves DEF Looked, Goes
  <2>3. CASE Goes(r, Ends(r, "refused"))
    BY <1>4, <1>10, <2>1, <2>3 DEF Looked, Ends, Replies
  <2>4. CASE req[r].answer # "done" /\ Goes(r, Ends(r, Reply(req[r].op, req[r].answer)))
    <3>1. Reply(req[r].op, req[r].answer) \in Replies \ {"done"}
      BY <2>4 DEF Reply, Replies
    <3> QED BY <1>4, <1>10, <2>1, <2>4, <3>1 DEF Looked, Ends
  <2> QED BY <1>10, <2>2, <2>3, <2>4 DEF Looked
<1>11. ASSUME NEW r \in Request, Replay(r) PROVE RelayInv'
  <2> DEFINE p == CallOf(req[r].at)
             q == [req[r] EXCEPT !.at = p, !.try = 2, !.answer = "none"]
  <2>1. req[r].at \in {"looked", "read"}
    BY <1>11 DEF Replay, Again, At, WorthReplaying
  <2>2. p \in {"looking", "reading"} /\ (p = "reading" => req[r].at = "read")
    BY <2>1 DEF CallOf
  <2>3. p \in Places /\ "none" \in Answers /\ 2 \in 0 .. 2
    BY <2>2 DEF Places, Answers
  <2>4. q \in Held
    <3> HIDE DEF p
    <3> QED BY <1>2, <2>3, Zenon DEF Held
  <2>5. q.at = p /\ q.op = req[r].op /\ q.reply = req[r].reply /\ q.want = req[r].want
    BY <1>2 DEF Held
  <2>6. wire' = wire /\ req' = [req EXCEPT ![r] = q]
    BY <1>11, <2>2 DEF Replay, Sends, Goes
  <2> HIDE DEF p, q
  <2>7. Tells(q, wire[r], audit[r], applied[r])
    BY <1>2, <2>1, <2>2, <2>5 DEF Tells
  <2> QED BY <1>11, <2>4, <2>6, <2>7, HandlerMoves DEF Replay
<1>12. ASSUME NEW r \in Request, Conclude(r) PROVE RelayInv'
  <2> DEFINE reply == Reply(req[r].op, req[r].answer)
             q == Over(r, "done", reply)
  <2>1. req[r].at = "written" /\ req[r].reply = "none"
    BY <1>2, <1>12 DEF Conclude, At, Tells
  <2>2. reply \in Replies /\ "done" \in Places
    BY DEF Reply, Replies, Places
  <2>3. q \in Held
    BY <1>2, <1>3, <2>2 DEF Over
  <2>4. q.at = "done" /\ q.reply = reply /\ q.op = req[r].op /\ q.want = req[r].want
    BY <1>2 DEF Over, Held
  <2>5. /\ reply = "done" => Accepts(req[r].answer)
        /\ reply \in {"refused", "rejected"} => Refused(req[r].answer)
    BY DEF Reply, Accepts, Refused, Refusals
  <2>6. PICK u \in {audit[r], audit[r] \cup {Outcome(req[r].answer)}} : audit' = [audit EXCEPT ![r] = u]
    BY <1>12 DEF Conclude, Recorded, RelayInv, Typed
  <2>7. u \in SUBSET {"attempted", "succeeded", "failed"}
    BY DEF Outcome, RelayInv, Typed
  <2>8. /\ "succeeded" \in u => applied[r] = 1 /\ "failed" \notin u
        /\ Accepts(req[r].answer) => "failed" \notin u
        /\ "attempted" \in u
    BY <1>2, <2>1, <2>6 DEF Outcome, Tells
  <2>9. Tells(q, wire[r], u, applied[r])
    <3> HIDE DEF q, reply
    <3> QED BY <1>2, <2>1, <2>4, <2>5, <2>6, <2>8 DEF Tells
  <2>10. /\ wire[r] \in SUBSET (1 .. 2) /\ wire' = [wire EXCEPT ![r] = wire[r]]
         /\ applied[r] \in 0 .. 2 /\ applied' = [applied EXCEPT ![r] = applied[r]]
         /\ category' \in Category /\ untraced' \in [Request -> BOOLEAN] /\ req' = [req EXCEPT ![r] = q]
    BY <1>12 DEF Conclude, Goes, Ends, RelayInv, Typed
  <2> HIDE DEF q
  <2> QED BY <2>3, <2>6, <2>7, <2>9, <2>10, OneMoves
<1>13. ASSUME NEW r \in Request, Intend(r) PROVE RelayInv'
  <2>1. PICK u \in {audit[r], audit[r] \cup {"attempted"}} : audit' = [audit EXCEPT ![r] = u]
    BY <1>13 DEF Intend, RelayInv, Typed
  <2>2. u \in SUBSET {"attempted", "succeeded", "failed"}
    BY DEF RelayInv, Typed
  <2>3. /\ applied[r] = 0 /\ wire[r] = {} /\ req[r].reply = "none" /\ u \subseteq {"attempted"}
        /\ applied' = [applied EXCEPT ![r] = 0] /\ category' \in Category /\ untraced' \in [Request -> BOOLEAN]
    BY <1>2, <1>13, <2>1 DEF Intend, At, Tells, RelayInv, Typed
  <2>4. CASE audit' = [audit EXCEPT ![r] = @ \cup {"attempted"}] /\ Sends(r, "writing", 1)
    <3> DEFINE q == [req[r] EXCEPT !.at = "writing", !.try = 1, !.answer = "none"]
    <3>1. "writing" \in Places /\ "none" \in Answers /\ 1 \in 0 .. 2
      BY DEF Places, Answers
    <3>2. q \in Held
      BY <1>2, <3>1, Zenon DEF Held
    <3>3. q.at = "writing" /\ q.try = 1 /\ q.op = req[r].op /\ q.reply = "none" /\ q.want = req[r].want
      BY <1>2, <2>3 DEF Held
    <3>4. "attempted" \in u
      BY <2>1, <2>4 DEF RelayInv, Typed
    <3>5. wire' = [wire EXCEPT ![r] = {1}] /\ req' = [req EXCEPT ![r] = q]
      BY <2>3, <2>4 DEF Sends, Goes, RelayInv, Typed
    <3>6. Tells(q, {1}, u, 0)
      <4> HIDE DEF q
      <4> QED BY <1>2, <2>3, <3>3, <3>4 DEF Tells
    <3> HIDE DEF q
    <3>7. {1} \in SUBSET (1 .. 2) /\ 0 \in 0 .. 2
      OBVIOUS
    <3> QED BY <2>1, <2>2, <2>3, <3>2, <3>5, <3>6, <3>7, OneMoves
  <2>5. CASE Goes(r, Ends(r, "error")) /\ UNCHANGED wire
    <3> DEFINE q == Over(r, "done", "error")
    <3>1. "done" \in Places /\ "error" \in Replies
      BY DEF Places, Replies
    <3>2. q \in Held
      BY <1>2, <1>3, <3>1 DEF Over
    <3>3. q.at = "done" /\ q.reply = "error" /\ q.op = req[r].op /\ q.want = req[r].want
      BY <1>2 DEF Over, Held
    <3>4. wire' = [wire EXCEPT ![r] = {}] /\ req' = [req EXCEPT ![r] = q]
      BY <2>3, <2>5 DEF Goes, Ends, RelayInv, Typed
    <3> HIDE DEF q
    <3>5. Tells(q, {}, u, 0)
      BY <1>2, <2>3, <3>3 DEF Tells
    <3>6. {} \in SUBSET (1 .. 2) /\ 0 \in 0 .. 2
      OBVIOUS
    <3> QED BY <2>1, <2>2, <2>3, <3>2, <3>4, <3>5, <3>6, OneMoves
  <2> QED BY <1>13, <2>4, <2>5 DEF Intend
<1>14. ASSUME NEW r \in Request, NEW n \in 1 .. 2, NEW a \in Answers, NEW applies \in BOOLEAN, NEW arrives \in BOOLEAN,
              ServesWrite(r, n, a, applies, arrives)
       PROVE  RelayInv'
  <2> DEFINE q == IF arrives THEN Answered(r, a) ELSE req[r]
             m == IF applies THEN 1 ELSE 0
  <2>1. wire[r] = {1} /\ n = 1 /\ applied[r] = 0 /\ "attempted" \in audit[r]
    BY <1>2, <1>14 DEF ServesWrite, Tells
  <2>2. arrives => req[r].at = "writing"
    BY <1>14 DEF ServesWrite, At
  <2>3. /\ wire' = [wire EXCEPT ![r] = {}] /\ applied' = [applied EXCEPT ![r] = m]
        /\ audit' = [audit EXCEPT ![r] = audit[r]] /\ audit[r] \in SUBSET {"attempted", "succeeded", "failed"}
        /\ untraced' \in [Request -> BOOLEAN]
    <3>1. wire' = [wire EXCEPT ![r] = wire[r] \ {n}] /\ wire[r] \ {n} = {}
      BY <1>14, <2>1 DEF ServesWrite
    <3>2. applied' = [applied EXCEPT ![r] = IF applies THEN applied[r] + 1 ELSE applied[r]]
      BY <1>14 DEF ServesWrite
    <3>3. (IF applies THEN applied[r] + 1 ELSE applied[r]) = m
      BY <2>1
    <3>4. audit' = audit /\ untraced' = untraced
      BY <1>14 DEF ServesWrite
    <3> QED BY <3>1, <3>2, <3>3, <3>4 DEF RelayInv, Typed
  <2>4. category' \in Category
    BY <1>2, <1>14 DEF ServesWrite, Tells, RelayInv, Typed
  <2>5. req' = [req EXCEPT ![r] = q]
    BY <1>14 DEF ServesWrite, Goes, RelayInv, Typed
  <2>6. arrives => After(req[r].at) = "written"
    BY <2>2 DEF After
  <2>7. q \in Held
    <3>1. "written" \in Places
      BY DEF Places
    <3> QED BY <1>2, <2>6, <3>1, Zenon DEF Answered, Held
  <2>8. /\ q.op = req[r].op /\ q.reply = req[r].reply /\ q.want = req[r].want /\ q.try = req[r].try
        /\ arrives => q.at = "written" /\ q.answer = a
        /\ ~arrives => q = req[r]
    BY <1>2, <2>6 DEF Answered, Held
  <2>9. (Accepts(a) => applies) /\ (applies => ~Refused(a))
    BY <1>14 DEF ServesWrite, Consistent, Accepts, Refused, Refusals
  <2>10. Tells(q, {}, audit[r], m)
    <3> HIDE DEF q
    <3>1. CASE arrives
      BY <1>2, <2>1, <2>2, <2>8, <2>9, <3>1 DEF Tells
    <3>2. CASE ~arrives
      BY <1>2, <2>1, <2>8, <3>2 DEF Tells
    <3> QED BY <3>1, <3>2
  <2>11. {} \in SUBSET (1 .. 2) /\ m \in 0 .. 2
    OBVIOUS
  <2> HIDE DEF q, m
  <2> QED BY <2>3, <2>4, <2>5, <2>7, <2>10, <2>11, OneMoves
<1>15. ASSUME NEW r \in Request, NEW op \in Served[r], NEW want \in Category, Enter(r, op, want) PROVE RelayInv'
  <2> DEFINE it == [Idle EXCEPT !.op = op, !.want = IF op.lookup THEN want ELSE "none"]
  <2>1. op \in Operations
    BY ServedAssumption
  <2>2. it \in Held
    BY <2>1, IdleIsHeld, Zenon DEF Held
  <2>3. /\ it.op = op /\ it.reply = "none" /\ it.want = IF op.lookup THEN want ELSE "none"
    BY DEF Idle
  <2>4. wire[r] = {} /\ applied[r] = 0 /\ audit[r] \subseteq {"attempted"}
    BY <1>2, <1>15 DEF Enter, At, Tells
  <2>5. UNCHANGED <<wire, audit, category, applied, untraced>>
    BY <1>15 DEF Enter
  <2>6. /\ {"looking", "tracing", "reading", "done"} \subseteq Places /\ "refused" \in Replies /\ 1 \in 0 .. 2
    BY DEF Places, Replies
  <2>7. CASE Goes(r, [it EXCEPT !.at = "done", !.reply = "refused"])
    <3> DEFINE q == [it EXCEPT !.at = "done", !.reply = "refused"]
    <3>1. q \in Held
      <4> HIDE DEF it
      <4> QED BY <2>2, <2>6, Zenon DEF Held
    <3>2. q.at = "done" /\ q.op = op /\ q.reply = "refused" /\ q.want = IF op.lookup THEN want ELSE "none"
      <4> HIDE DEF it
      <4> QED BY <2>2, <2>3 DEF Held
    <3> HIDE DEF q
    <3>3. Tells(q, wire[r], audit[r], applied[r])
      BY <2>4, <3>2 DEF Tells
    <3> QED BY <2>5, <2>7, <3>1, <3>3, HandlerMoves DEF Goes, q
  <2>8. ASSUME NEW at \in {"looking", "reading"}, at = "reading" => ~op.write,
               Goes(r, [it EXCEPT !.at = at, !.try = 1])
        PROVE  RelayInv'
    <3> DEFINE q == [it EXCEPT !.at = at, !.try = 1]
    <3>1. q \in Held
      <4> HIDE DEF it
      <4> QED BY <2>2, <2>6, Zenon DEF Held
    <3>2. q.at = at /\ q.op = op /\ q.reply = "none" /\ q.want = IF op.lookup THEN want ELSE "none"
      <4> HIDE DEF it
      <4> QED BY <2>2, <2>3 DEF Held
    <3> HIDE DEF q
    <3>3. Tells(q, wire[r], audit[r], applied[r])
      BY <2>4, <2>8, <3>2 DEF Tells
    <3> QED BY <2>5, <2>8, <3>1, <3>3, HandlerMoves DEF Goes, q
  <2>9. CASE Goes(r, [it EXCEPT !.at = "tracing"])
    <3> DEFINE q == [it EXCEPT !.at = "tracing"]
    <3>1. q \in Held
      <4> HIDE DEF it
      <4> QED BY <2>2, <2>6, Zenon DEF Held
    <3>2. q.at = "tracing" /\ q.op = op /\ q.reply = "none" /\ q.want = IF op.lookup THEN want ELSE "none"
      <4> HIDE DEF it
      <4> QED BY <2>2, <2>3 DEF Held
    <3> HIDE DEF q
    <3>3. Tells(q, wire[r], audit[r], applied[r])
      BY <2>4, <3>2 DEF Tells
    <3> QED BY <2>5, <2>9, <3>1, <3>3, HandlerMoves DEF Goes, q
  <2> HIDE DEF it
  <2> QED BY <1>15, <2>7, <2>8, <2>9 DEF Enter, it
<1> QED
  BY <1>1, <1>5, <1>6, <1>7, <1>8, <1>9, <1>10, <1>11, <1>12, <1>13, <1>14, <1>15 DEF Next, Handler

\* What the steps keep, every behaviour keeps.
LEMMA RelayInvariant == Spec => []RelayInv
<1> QED
  BY RelayInvInit, RelayInvStep, PTL DEF Spec

\* What the handlers hold, the wire and the log keep their types.
THEOREM RelayTypes == Spec => []TypeOK
<1>1. RelayInv => TypeOK
  BY Zenon DEF RelayInv, Typed, Held, TypeOK
<1> QED
  BY <1>1, RelayInvariant, PTL

\* Nothing is changed at the gateway that the audit log does not announce, whoever
\* leaves, dies or is late (relay.go, auditRelayed).
THEOREM EverythingIsAnnounced == Spec => []NothingWithoutIntent
<1>1. RelayInv => NothingWithoutIntent
  BY DEF RelayInv, Typed, Told, Tells, NothingWithoutIntent, Traced
<1> QED
  BY <1>1, RelayInvariant, PTL

\* A write is applied once at most, whatever was lost (retry.go, worthReplaying).
THEOREM WritesAreNotReplayed == Spec => []WrittenOnce
<1>1. RelayInv => WrittenOnce
  <2> SUFFICES ASSUME RelayInv, NEW r \in Request PROVE applied[r] <= 1
    BY DEF WrittenOnce
  <2>1. applied[r] = 0 \/ applied[r] = 1
    BY DEF RelayInv, Told, Tells
  <2> QED BY <2>1
<1> QED
  BY <1>1, RelayInvariant, PTL

\* A success said of a write was applied, and a refusal was not and will not be; of a
\* write that `failed` nothing more is known than that no success was said of it
\* (relay.go, auditRelayed and relayedRefusal).
THEOREM VerdictsAreTrue == Spec => []VerdictsHold
<1>1. RelayInv => VerdictsHold
  BY DEF RelayInv, Typed, Told, Tells, VerdictsHold, Traced
<1> QED
  BY <1>1, RelayInvariant, PTL
===============================================================================
