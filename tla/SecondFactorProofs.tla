-------------------------- MODULE SecondFactorProofs --------------------------
(***************************************************************************)
(* Proofs about SecondFactor, for any number of requests, of sessions, of  *)
(* challenges and of secrets.                                              *)
(*                                                                         *)
(* The invariant says what a request may believe at each place: who proved *)
(* a factor has a session that a reset of the factors would have closed,   *)
(* and who spent a challenge is alone with it.                             *)
(***************************************************************************)
EXTENDS SecondFactor, FiniteSetTheorems, TLAPS

Requests == [at : Places, kind : Kinds, session : Session \cup {None},
            elevated : BOOLEAN, challenge : Challenge \cup {None}, enrolled : BOOLEAN,
            proven : BOOLEAN, replace : BOOLEAN, aside : BOOLEAN,
            proof : (Secret \cup {None}) \X (0 .. MaxStep)]

Past == {"elevating", "clearing"}

HasFactor == secret # None \/ passkeys > 0

\* What a request stands on.
Stands(q) ==
    /\ q.at # "idle" => q.session \in Session
    /\ q.at \in {"looking", "spending", "elevating"} => q.kind = "verify"
    /\ q.at = "confirming" => q.kind = "confirm"
    /\ q.challenge # None => q.kind = "verify"
    /\ q.at \in {"step", "confirming"} => q.proof[1] \in Secret /\ q.proof[2] \in 1 .. MaxStep
    /\ q.at = "code" => q.proof[1] \in Secret
    /\ q.at \in Past => q.challenge \notin challenge
    /\ q.kind = "verify" /\ q.at \in {"step", "code", "spending", "elevating"}
         => session[q.session] = "closed" \/ HasFactor

Factors ==
    /\ secret \in Secret \cup {None} /\ pending \in Secret \cup {None}
    /\ last \in 0 .. MaxStep
    /\ codes \subseteq Secret /\ waiting \subseteq Secret
    /\ passkeys \in 0 .. Keys
    /\ CodesFollowSecret

\* The steps accepted are those up to the last, so none is accepted again.
Steps ==
    /\ accepted \subseteq 1 .. MaxStep /\ \A n \in accepted : n <= last
    /\ replayed = FALSE

Rest ==
    /\ active \in BOOLEAN /\ session \in [Session -> {"closed", "open", "elevated"}]
    /\ challenge \subseteq Challenge
    /\ failures \in 0 .. Threshold /\ calls \in 0 .. MaxCalls /\ wrong \in Nat

Asks == req \in [Request -> Requests] /\ \A r \in Request : Stands(req[r])

SecondFactorInv == Factors /\ Steps /\ Rest /\ Asks /\ ChallengeServesOnce

\* The fields of a request.
LEMMA RequestFields ==
  ASSUME NEW q \in Requests
  PROVE  /\ q.at \in Places /\ q.kind \in Kinds /\ q.session \in Session \cup {None}
         /\ q.challenge \in Challenge \cup {None}
         /\ q.proof[1] \in Secret \cup {None} /\ q.proof[2] \in 0 .. MaxStep
  BY DEF Requests

\* A request that moves keeps the rest of what it holds.
LEMMA RequestGoes ==
  ASSUME NEW q \in Requests, NEW place \in Places
  PROVE  LET p == [q EXCEPT !.at = place] IN
         /\ p \in Requests /\ p.at = place /\ p.kind = q.kind /\ p.session = q.session
         /\ p.challenge = q.challenge /\ p.proof = q.proof
<1> DEFINE p == [q EXCEPT !.at = place]
<1>1. p \in Requests
  BY ZenonT(30) DEF Requests
<1>2. p.at = place /\ p.kind = q.kind /\ p.session = q.session /\ p.challenge = q.challenge /\ p.proof = q.proof
  BY DEF Requests
<1> QED
  BY <1>1, <1>2

\* The record of a free request.
LEMMA FreeIsRequest ==
  Free \in Requests /\ Free.at = "idle" /\ Free.challenge = None /\ Free.kind = "none" /\ Free.session = None
<1>1. 0 \in 0 .. MaxStep
  BY SecondFactorAssumption
<1>2. <<None, 0>> \in (Secret \cup {None}) \X (0 .. MaxStep)
  BY <1>1
<1>3. Free \in Requests
  BY <1>2, ZenonT(30) DEF Free, Requests, Places, Kinds
<1> QED
  BY <1>3 DEF Free

\* Nothing is enrolled, and nobody asks.
LEMMA SecondFactorInvInit == Init => SecondFactorInv
<1> SUFFICES ASSUME Init PROVE SecondFactorInv
  OBVIOUS
<1>1. Factors /\ Steps /\ Rest
  BY SecondFactorAssumption DEF Init, Factors, Steps, Rest, CodesFollowSecret
<1>2. Asks
  BY FreeIsRequest DEF Init, Asks, Stands, Past
<1>3. ChallengeServesOnce
  BY FreeIsRequest DEF Init, ChallengeServesOnce
<1> QED
  BY <1>1, <1>2, <1>3 DEF SecondFactorInv

\* One request moves.  The others stand still on what they stood on; the one that
\* gets past a challenge takes it from those that live.
LEMMA OneRequestMoves ==
  ASSUME SecondFactorInv, NEW r \in Request, NEW q \in Requests, req' = [req EXCEPT ![r] = q],
         Stands(q)', \A u \in Request \ {r} : Stands(req[u])',
         q.at \in Past /\ q.challenge # None =>
            \/ q.challenge \in challenge
            \/ req[r].at \in Past /\ req[r].challenge = q.challenge
  PROVE  Asks' /\ ChallengeServesOnce'
<1> HIDE DEF Requests
<1>1. req' \in [Request -> Requests] /\ req'[r] = q /\ \A u \in Request : u # r => req'[u] = req[u]
  BY DEF SecondFactorInv, Asks
<1>2. Asks'
  BY <1>1 DEF Asks, Stands, HasFactor
<1>3. ASSUME NEW u \in Request, u # r, req[u].at \in Past, q.at \in Past, q.challenge # None
      PROVE req[u].challenge # q.challenge
  <2>1. CASE q.challenge \in challenge
    BY <2>1, <1>3 DEF SecondFactorInv, Asks, Stands
  <2>2. CASE req[r].at \in Past /\ req[r].challenge = q.challenge
    BY <2>2, <1>3 DEF SecondFactorInv, ChallengeServesOnce, Past
  <2> QED
    BY <1>3, <2>1, <2>2
<1>4. ChallengeServesOnce'
  <2> SUFFICES ASSUME NEW u \in Request, NEW v \in Request, u # v,
                      req'[u].at \in Past, req'[v].at \in Past, req'[u].challenge # None
               PROVE  req'[u].challenge # req'[v].challenge
    BY DEF ChallengeServesOnce, Past
  <2>1. CASE u = r
    BY <2>1, <1>1, <1>3
  <2>2. CASE v = r
    BY <2>2, <1>1, <1>3
  <2>3. CASE u # r /\ v # r
    BY <2>3, <1>1 DEF SecondFactorInv, ChallengeServesOnce, Past
  <2> QED
    BY <2>1, <2>2, <2>3
<1> QED
  BY <1>2, <1>4

\* The requests stay where they are, and stand.
LEMMA NoRequestMoves ==
  ASSUME SecondFactorInv, UNCHANGED req, \A u \in Request : Stands(req[u])'
  PROVE  Asks' /\ ChallengeServesOnce'
  BY DEF SecondFactorInv, Asks, ChallengeServesOnce, Stands, HasFactor

\* The steps that move one request among the places where it believes nothing, and
\* touch nothing but the counters.
LEMMA CountingStep ==
  ASSUME SecondFactorInv, NEW r \in Request, NEW q \in Requests, req' = [req EXCEPT ![r] = q],
         UNCHANGED <<factors, active, session, challenge, accepted, replayed>>,
         failures' \in 0 .. Threshold, calls' \in 0 .. MaxCalls, wrong' \in Nat,
         Stands(q), q.at \notin Past
  PROVE  SecondFactorInv'
<1> HIDE DEF Requests
<1>1. Factors' /\ Steps' /\ Rest'
  BY DEF SecondFactorInv, Factors, Steps, Rest, factors, CodesFollowSecret
<1>2. Stands(q)' /\ \A u \in Request \ {r} : Stands(req[u])'
  BY DEF SecondFactorInv, Asks, Stands, HasFactor, factors
<1>3. Asks' /\ ChallengeServesOnce'
  BY <1>2, OneRequestMoves
<1> QED
  BY <1>1, <1>3 DEF SecondFactorInv

Harmless == {"idle", "admitting", "reading", "counting", "reserving", "judging", "writing", "releasing"}

\* A request answered.
LEMMA AnswerStep ==
  ASSUME SecondFactorInv, NEW r \in Request, Answer(r),
         UNCHANGED <<factors, active, session, challenge, accepted, replayed>>,
         failures' \in 0 .. Threshold, calls' \in 0 .. MaxCalls, wrong' \in Nat
  PROVE  SecondFactorInv'
<1>1. Stands(Free) /\ Free.at \notin Past
  BY FreeIsRequest DEF Stands, Past
<1>2. req' = [req EXCEPT ![r] = Free]
  BY DEF Answer
<1> HIDE DEF Free
<1> QED
  BY <1>1, <1>2, FreeIsRequest, CountingStep

\* A request that goes where there is nothing to believe, or to look for its challenge.
LEMMA GotoStep ==
  ASSUME SecondFactorInv, NEW r \in Request, NEW place \in Harmless \cup {"looking"}, Goto(r, place),
         req[r].at # "idle", place = "looking" => req[r].kind = "verify",
         UNCHANGED <<factors, active, session, challenge, accepted, replayed>>,
         failures' \in 0 .. Threshold, calls' \in 0 .. MaxCalls, wrong' \in Nat
  PROVE  SecondFactorInv'
<1> DEFINE q == [req[r] EXCEPT !.at = place]
<1>1. req[r] \in Requests /\ Stands(req[r])
  BY DEF SecondFactorInv, Asks
<1>2. place \in Places
  BY DEF Harmless, Places
<1>3. q \in Requests /\ q.at = place /\ q.kind = req[r].kind /\ q.session = req[r].session /\ q.challenge = req[r].challenge
  BY <1>1, <1>2, RequestGoes
<1> HIDE DEF Requests
<1>4. req' = [req EXCEPT ![r] = q]
  BY Zenon DEF Goto, SecondFactorInv, Asks
<1> HIDE DEF q
<1>5. Stands(q) /\ q.at \notin Past
  BY <1>1, <1>3 DEF Stands, Past, Harmless
<1> QED
  BY <1>3, <1>4, <1>5, CountingStep

\* What the steps below say of the shared state.
LEMMA Counters ==
  ASSUME SecondFactorInv
  PROVE  failures \in 0 .. Threshold /\ calls \in 0 .. MaxCalls /\ wrong \in Nat
         /\ \A r \in Request : req[r] \in Requests /\ Stands(req[r])
  BY DEF SecondFactorInv, Rest, Asks

\* The middleware lets a request in.
LEMMA StartStep ==
  ASSUME SecondFactorInv, NEW r \in Request, NEW kind \in {"verify", "enroll", "confirm"},
         NEW s \in Session, Start(r, kind, s)
  PROVE  SecondFactorInv'
<1> DEFINE place == IF kind = "verify" THEN "reserving" ELSE IF kind = "enroll" THEN "admitting" ELSE "reading"
           q == [Free EXCEPT !.kind = kind, !.session = s, !.at = place, !.elevated = session[s] = "elevated"]
<1>1. place \in {"reserving", "admitting", "reading"} /\ place \in Places /\ kind \in Kinds
  BY DEF Places, Kinds
<1>2. req' = [req EXCEPT ![r] = q] /\ UNCHANGED <<factors, active, session, challenge, counters, history>>
  BY DEF Start
<1> HIDE DEF place
<1>3. q \in Requests
  <2>1. (session[s] = "elevated") \in BOOLEAN
    OBVIOUS
  <2> QED
    BY <1>1, <2>1, FreeIsRequest, ZenonT(30) DEF Requests
<1>4. q.at = place /\ q.session = s /\ q.challenge = None
  BY DEF Free
<1> HIDE DEF q
<1>5. Stands(q) /\ q.at \notin Past
  BY <1>1, <1>4 DEF Stands, Past
<1> QED
  BY <1>2, <1>3, <1>5, Counters, CountingStep DEF counters, history

\* The attempt is reserved before anything is judged.
LEMMA ReserveStep == ASSUME SecondFactorInv, NEW r \in Request, Reserve(r) PROVE SecondFactorInv'
<1>1. CASE Reserves
  <2> DEFINE place == IF req[r].kind = "verify" THEN "looking" ELSE "judging"
  <2>1. Goto(r, place) /\ failures' = failures + 1 /\ req[r].at = "reserving"
        /\ UNCHANGED <<factors, active, session, challenge, calls, history>>
    BY <1>1 DEF Reserve
  <2>2. failures' \in 0 .. Threshold
    BY <1>1, <2>1, Counters, SecondFactorAssumption DEF Reserves
  <2>3. place \in Harmless \cup {"looking"} /\ (place = "looking" => req[r].kind = "verify")
    BY DEF Harmless
  <2> HIDE DEF place
  <2> QED
    BY <2>1, <2>2, <2>3, Counters, GotoStep DEF history
<1>2. CASE ~Reserves
  <2>1. Answer(r) /\ UNCHANGED <<failures, factors, active, session, challenge, calls, history>>
    BY <1>2 DEF Reserve
  <2> QED
    BY <2>1, Counters, AnswerStep DEF history
<1> QED
  BY <1>1, <1>2

\* A code looked at: the proof is what the request found, and nothing is written.
LEMMA JudgeStep ==
  ASSUME SecondFactorInv, NEW r \in Request, NEW s \in Secret, NEW n \in 0 .. MaxStep,
         NEW place \in {"step", "code", "confirming"},
         req[r].at = "judging",
         req' = [req EXCEPT ![r].at = place, ![r].proof = <<s, n>>],
         place = "confirming" => req[r].kind = "confirm",
         place # "code" => n \in 1 .. MaxStep,
         place # "confirming" => HasFactor,
         UNCHANGED <<factors, active, session, challenge, counters, history>>
  PROVE  SecondFactorInv'
<1> DEFINE proof == <<s, n>>
           q == [req[r] EXCEPT !.at = place, !.proof = proof]
<1>1. req[r] \in Requests /\ Stands(req[r])
  BY Counters
<1>2. place \in Places /\ proof \in (Secret \cup {None}) \X (0 .. MaxStep) /\ proof[1] = s /\ proof[2] = n
  BY DEF Places
<1>3. req' = [req EXCEPT ![r] = q]
  <2>1. req \in [Request -> Requests]
    BY DEF SecondFactorInv, Asks
  <2> HIDE DEF Requests
  <2> QED
    BY <2>1, Zenon
<1> HIDE DEF proof
<1>4. /\ q \in Requests /\ q.at = place /\ q.kind = req[r].kind /\ q.session = req[r].session
      /\ q.challenge = req[r].challenge /\ q.proof = proof
  <2>1. q \in Requests
    BY <1>1, <1>2, ZenonT(30) DEF Requests
  <2>2. /\ q.at = place /\ q.kind = req[r].kind /\ q.session = req[r].session
        /\ q.challenge = req[r].challenge /\ q.proof = proof
    BY <1>1 DEF Requests
  <2> QED
    BY <2>1, <2>2
<1> HIDE DEF q, Requests
<1>5. Stands(q) /\ q.at \notin Past
  <2>1. q.proof[1] = s /\ q.proof[2] = n
    BY <1>2, <1>4
  <2>2. (q.at # "idle" => q.session \in Session) /\ (q.challenge # None => q.kind = "verify")
    BY <1>1, <1>4 DEF Stands
  <2>3. q.at = "confirming" => q.kind = "confirm"
    BY <1>4
  <2>4. q.kind = "verify" /\ q.at \in {"step", "code", "spending", "elevating"} => HasFactor
    BY <1>4
  <2>5. q.at \in {"step", "code", "confirming"} /\ (q.at # "code" => n \in 1 .. MaxStep)
    BY <1>4
  <2>6. s \in Secret /\ (q.at = "step" \/ q.at = "confirming" => n \in 1 .. MaxStep)
    BY <2>5
  <2>7. q.at \notin {"looking", "spending", "elevating", "clearing"}
    BY <2>5
  <2> HIDE DEF HasFactor
  <2> QED
    BY <2>1, <2>2, <2>3, <2>4, <2>6, <2>7 DEF Stands, Past
<1> QED
  BY <1>4, <1>3, <1>5, Counters, CountingStep DEF counters, history

\* The judgements of a code.
LEMMA CodeSteps ==
  ASSUME SecondFactorInv, NEW r \in Request,
         \/ \E n \in 1 .. MaxStep : JudgeTotp(r, n) \/ JudgePending(r, n)
         \/ \E c \in Secret : JudgeCode(r, c)
  PROVE  SecondFactorInv'
<1>0. None \notin Secret /\ MaxStep \in Nat /\ secret \in Secret \cup {None} /\ pending \in Secret \cup {None}
      /\ codes \subseteq {secret}
  BY SecondFactorAssumption DEF SecondFactorInv, Factors, CodesFollowSecret
<1>1. ASSUME NEW n \in 1 .. MaxStep, JudgeTotp(r, n) PROVE SecondFactorInv'
  <2>1. /\ secret \in Secret /\ HasFactor /\ req[r].at = "judging" /\ n \in 0 .. MaxStep
        /\ req' = [req EXCEPT ![r].at = "step", ![r].proof = <<secret, n>>]
        /\ UNCHANGED <<factors, active, session, challenge, counters, history>>
    BY <1>0, <1>1 DEF JudgeTotp, Judge, HasFactor
  <2> QED
    BY <2>1, JudgeStep
<1>2. ASSUME NEW n \in 1 .. MaxStep, JudgePending(r, n) PROVE SecondFactorInv'
  <2>1. /\ pending \in Secret /\ req[r].at = "judging" /\ req[r].kind = "confirm" /\ n \in 0 .. MaxStep
        /\ req' = [req EXCEPT ![r].at = "confirming", ![r].proof = <<pending, n>>]
        /\ UNCHANGED <<factors, active, session, challenge, counters, history>>
    BY <1>0, <1>2 DEF JudgePending, Judge
  <2> QED
    BY <2>1, JudgeStep
<1>3. ASSUME NEW c \in Secret, JudgeCode(r, c) PROVE SecondFactorInv'
  <2>1. /\ HasFactor /\ req[r].at = "judging" /\ 0 \in 0 .. MaxStep
        /\ req' = [req EXCEPT ![r].at = "code", ![r].proof = <<c, 0>>]
        /\ UNCHANGED <<factors, active, session, challenge, counters, history>>
    BY <1>0, <1>3 DEF JudgeCode, HasFactor
  <2> QED
    BY <2>1, JudgeStep
<1> QED
  BY <1>1, <1>2, <1>3

\* The steps that answer, count or give back.
LEMMA PlainSteps ==
  ASSUME SecondFactorInv, NEW r \in Request,
         JudgeWrong(r) \/ Clear(r) \/ Fail(r) \/ Release(r) \/ Drop(r) \/ Admit(r) \/ ReadPending(r)
  PROVE  SecondFactorInv'
<1>1. CASE JudgeWrong(r)
  BY <1>1, Counters, AnswerStep DEF JudgeWrong, Refuse, counters
<1>2. CASE Clear(r)
  BY <1>2, Counters, AnswerStep, SecondFactorAssumption DEF Clear
<1>3. CASE Fail(r)
  BY <1>3, Counters, GotoStep DEF Fail, counters, history, Harmless
<1>4. CASE Release(r)
  <2>1. failures' \in 0 .. Threshold
    BY <1>4, Counters, SecondFactorAssumption DEF Release
  <2> QED
    BY <1>4, <2>1, Counters, AnswerStep DEF Release, history
<1>5. CASE Drop(r)
  BY <1>5, Counters, AnswerStep DEF Drop, counters, history
<1>6. CASE Admit(r)
  <2>1. CASE calls < MaxCalls
    <3>1. calls' \in 0 .. MaxCalls
      BY <1>6, <2>1, Counters, SecondFactorAssumption DEF Admit
    <3> QED
      BY <1>6, <2>1, <3>1, Counters, GotoStep DEF Admit, history, Harmless
  <2>2. CASE ~(calls < MaxCalls)
    BY <1>6, <2>2, Counters, AnswerStep DEF Admit, history
  <2> QED
    BY <2>1, <2>2
<1>7. CASE ReadPending(r)
  <2>1. CASE active /\ pending # None
    BY <1>7, <2>1, Counters, GotoStep DEF ReadPending, counters, history, Harmless
  <2>2. CASE ~(active /\ pending # None)
    BY <1>7, <2>2, Counters, AnswerStep DEF ReadPending, counters, history
  <2> QED
    BY <2>1, <2>2
<1> QED
  BY <1>1, <1>2, <1>3, <1>4, <1>5, <1>6, <1>7

\* The challenge is read, and found alive.
LEMMA LookStep ==
  ASSUME SecondFactorInv, NEW r \in Request, NEW c \in Challenge, Look(r, c)
  PROVE  SecondFactorInv'
<1>1. CASE c \in challenge
  <2> DEFINE q == [req[r] EXCEPT !.at = "judging", !.challenge = c]
  <2>1. req[r] \in Requests /\ Stands(req[r]) /\ req[r].at = "looking"
    BY Counters DEF Look
  <2>2. "judging" \in Places
    BY DEF Places
  <2>3. q \in Requests
    BY <2>1, <2>2, ZenonT(30) DEF Requests
  <2>4. q.at = "judging" /\ q.kind = req[r].kind /\ q.session = req[r].session
    BY <2>1 DEF Requests
  <2> HIDE DEF Requests
  <2>5. req' = [req EXCEPT ![r] = q] /\ UNCHANGED <<factors, active, session, challenge, counters, history>>
    BY <1>1, Zenon DEF Look, SecondFactorInv, Asks
  <2> HIDE DEF q
  <2>6. Stands(q) /\ q.at \notin Past
    BY <2>1, <2>4 DEF Stands, Past
  <2> QED
    BY <2>3, <2>5, <2>6, Counters, CountingStep DEF counters, history
<1>2. CASE c \notin challenge
  BY <1>2, Counters, AnswerStep DEF Look, counters, history
<1> QED
  BY <1>1, <1>2

\* What Proven writes of a request.
LEMMA ProvenRequest ==
  ASSUME SecondFactorInv, NEW r \in Request, Proven(r), req[r].at # "idle"
  PROVE  \E q \in Requests :
           /\ req' = [req EXCEPT ![r] = q]
           /\ q.at = IF req[r].kind = "verify" THEN "spending" ELSE "writing"
           /\ q.kind = req[r].kind /\ q.session = req[r].session /\ q.challenge = req[r].challenge
<1> DEFINE place == IF req[r].kind = "verify" THEN "spending" ELSE "writing"
           b == req[r].kind = "enroll"
           q == [req[r] EXCEPT !.at = place, !.replace = b, !.proof = <<None, 0>>]
<1>1. req[r] \in Requests
  BY Counters
<1>2. place \in Places /\ b \in BOOLEAN
  BY DEF Places
<1>3. <<None, 0>> \in (Secret \cup {None}) \X (0 .. MaxStep)
  <2>1. 0 \in 0 .. MaxStep
    BY SecondFactorAssumption
  <2> QED
    BY <2>1
<1>4. req' = [req EXCEPT ![r] = q]
  <2>1. req' = [req EXCEPT ![r].at = place, ![r].replace = b, ![r].proof = <<None, 0>>]
    BY DEF Proven
  <2>2. req \in [Request -> Requests]
    BY DEF SecondFactorInv, Asks
  <2> HIDE DEF place, b, Requests
  <2> QED
    BY <2>1, <2>2, Zenon
<1> HIDE DEF place, b
<1>5. q \in Requests
  BY <1>1, <1>2, <1>3, ZenonT(30) DEF Requests
<1>6. q.at = place /\ q.kind = req[r].kind /\ q.session = req[r].session /\ q.challenge = req[r].challenge
  BY <1>1 DEF Requests
<1> HIDE DEF q, Requests
<1> QED
  BY <1>4, <1>5, <1>6 DEF place

\* A passkey proves as a code does.
LEMMA AssertionStep == ASSUME SecondFactorInv, NEW r \in Request, JudgeAssertion(r) PROVE SecondFactorInv'
<1>1. PICK q \in Requests :
           /\ req' = [req EXCEPT ![r] = q]
           /\ q.at = IF req[r].kind = "verify" THEN "spending" ELSE "writing"
           /\ q.kind = req[r].kind /\ q.session = req[r].session /\ q.challenge = req[r].challenge
  BY ProvenRequest DEF JudgeAssertion
<1>2. req[r].kind = "verify" /\ HasFactor /\ Stands(req[r]) /\ req[r].at # "idle"
  BY Counters DEF JudgeAssertion, HasFactor
<1>3. Stands(q) /\ q.at \notin Past
  BY <1>1, <1>2 DEF Stands, Past
<1> HIDE DEF Requests
<1> QED
  BY <1>1, <1>3, Counters, CountingStep DEF JudgeAssertion, counters, history

\* The two reads of an enrolment.
LEMMA EnrolmentReads ==
  ASSUME SecondFactorInv, NEW r \in Request, ReadState(r) \/ \E b \in BOOLEAN : ReadFactors(r, b)
  PROVE  SecondFactorInv'
<1>0. req[r] \in Requests /\ Stands(req[r])
  BY Counters
<1>1. ASSUME NEW q \in Requests, req' = [req EXCEPT ![r] = q], q.at \in Harmless, q.session = req[r].session,
             q.challenge = req[r].challenge, q.kind = req[r].kind, req[r].at # "idle",
             UNCHANGED <<factors, active, session, challenge, counters, history>>
      PROVE  SecondFactorInv'
  <2>1. Stands(q) /\ q.at \notin Past
    BY <1>0, <1>1 DEF Stands, Past, Harmless
  <2> HIDE DEF Requests
  <2> QED
    BY <1>1, <2>1, Counters, CountingStep DEF counters, history
<1>2. CASE ReadState(r)
  <2>1. CASE active
    <3> DEFINE b == secret # None
               c == last # 0
               q == [req[r] EXCEPT !.at = "counting", !.enrolled = b, !.proven = c]
    <3>1. b \in BOOLEAN /\ c \in BOOLEAN /\ "counting" \in Places
      BY DEF Places
    <3>2. req' = [req EXCEPT ![r] = q] /\ UNCHANGED <<factors, active, session, challenge, counters, history>>
      BY <1>2, <2>1, Zenon DEF ReadState, SecondFactorInv, Asks
    <3> HIDE DEF b, c
    <3>3. q \in Requests
      BY <3>1, <1>0, ZenonT(30) DEF Requests
    <3>4. q.at = "counting" /\ q.session = req[r].session /\ q.challenge = req[r].challenge /\ q.kind = req[r].kind
      BY <1>0 DEF Requests
    <3> HIDE DEF q, Requests
    <3> QED
      BY <3>2, <3>3, <3>4, <1>1, <1>2 DEF ReadState, Harmless
  <2>2. CASE ~active
    BY <1>2, <2>2, Counters, AnswerStep DEF ReadState, counters, history
  <2> QED
    BY <2>1, <2>2
<1>3. ASSUME NEW presents \in BOOLEAN, ReadFactors(r, presents) PROVE SecondFactorInv'
  <2> DEFINE enrolled == req[r].enrolled
             proven == req[r].proven
             guarded == passkeys > 0
             unconfirmed == enrolled /\ ~proven /\ ~guarded
             place == IF enrolled /\ ~unconfirmed THEN "reserving" ELSE "writing"
             aside == (enrolled /\ proven) \/ guarded
             q == [req[r] EXCEPT !.at = place, !.replace = unconfirmed, !.aside = aside,
                                 !.enrolled = FALSE, !.proven = FALSE]
  <2>1. CASE Answer(r)
    BY <1>3, <2>1, Counters, AnswerStep DEF ReadFactors, counters, history
  <2>2. CASE req' = [req EXCEPT ![r].at = place, ![r].replace = unconfirmed, ![r].aside = aside,
                                ![r].enrolled = FALSE, ![r].proven = FALSE]
    <3>1. unconfirmed \in BOOLEAN /\ aside \in BOOLEAN
      BY <1>0 DEF Requests
    <3>2. place \in Places /\ place \in Harmless
      BY DEF Places, Harmless
    <3> HIDE DEF place, unconfirmed, aside
    <3>3. q \in Requests
      BY <3>1, <3>2, <1>0, ZenonT(30) DEF Requests
    <3>4. q.at = place /\ q.session = req[r].session /\ q.challenge = req[r].challenge /\ q.kind = req[r].kind
      BY <1>0 DEF Requests
    <3> HIDE DEF Requests
    <3>5. req' = [req EXCEPT ![r] = q]
      BY <2>2, Zenon DEF SecondFactorInv, Asks
    <3> HIDE DEF q
    <3> QED
      BY <3>2, <3>3, <3>4, <3>5, <1>1, <1>3 DEF ReadFactors
  <2> QED
    BY <1>3, <2>1, <2>2 DEF ReadFactors
<1> QED
  BY <1>2, <1>3

----------------------------------------------------------------------------
(* The steps that write the factors, the challenges or the sessions.  Each is *)
(* seen by the requests that believe something of them.                       *)

\* A request answered, when what the others stand on moved.
LEMMA AnsweredAmong ==
  ASSUME SecondFactorInv, NEW r \in Request, Answer(r), \A u \in Request \ {r} : Stands(req[u])'
  PROVE  Asks' /\ ChallengeServesOnce'
<1>1. Stands(Free)' /\ Free.at \notin Past
  BY FreeIsRequest DEF Stands, Past, HasFactor, Free
<1>2. req' = [req EXCEPT ![r] = Free]
  BY DEF Answer
<1> HIDE DEF Free
<1> QED
  BY <1>1, <1>2, FreeIsRequest, OneRequestMoves

\* What a request that did not move stands on, when only the factors moved.
LEMMA OthersStand ==
  ASSUME SecondFactorInv, HasFactor', UNCHANGED challenge, NEW u \in Request, req'[u] = req[u]
  PROVE  Stands(req[u])'
<1>1. req[u] \in Requests /\ Stands(req[u])
  BY Counters
<1> QED
  BY <1>1 DEF Stands

\* The step of a code is consumed, once.
LEMMA ConsumeStepKeeps == ASSUME SecondFactorInv, NEW r \in Request, ConsumeStep(r) PROVE SecondFactorInv'
<1> DEFINE n == req[r].proof[2]
<1>1. req[r] \in Requests /\ Stands(req[r]) /\ req[r].at = "step" /\ n \in 1 .. MaxStep
  BY Counters DEF ConsumeStep, Stands
<1>2. CASE FreshStep(n)
  <2>1. /\ last' = n /\ Proven(r) /\ last < n
        /\ accepted' = (IF req[r].proof[1] = secret THEN accepted \cup {n} ELSE accepted)
        /\ replayed' = (replayed \/ (req[r].proof[1] = secret /\ n \in accepted))
        /\ UNCHANGED <<secret, pending, codes, waiting, passkeys, active, session, challenge, counters, wrong>>
    BY <1>2, Zenon DEF ConsumeStep, Accept, FreshStep
  <2>2. last \in 0 .. MaxStep /\ accepted \subseteq 1 .. MaxStep /\ (\A k \in accepted : k <= last) /\ replayed = FALSE
        /\ MaxStep \in Nat
    BY SecondFactorAssumption DEF SecondFactorInv, Factors, Steps
  <2>3. n \notin accepted
    BY <1>1, <2>1, <2>2
  <2>4. Factors'
    BY <1>1, <2>1, <2>2 DEF SecondFactorInv, Factors, CodesFollowSecret
  <2>5. Steps'
    <3>1. replayed' = FALSE
      BY <2>1, <2>2, <2>3
    <3>2. accepted' \subseteq accepted \cup {n}
      BY <2>1
    <3>3. accepted' \subseteq 1 .. MaxStep
      BY <1>1, <2>2, <3>2
    <3>4. ASSUME NEW k \in accepted' PROVE k <= last'
      <4>1. k = n \/ k \in accepted
        BY <3>2, <3>4
      <4>2. ASSUME k \in accepted PROVE k \in Nat /\ k <= last
        BY <2>2, <4>2
      <4>3. last' = n /\ last < n /\ n \in Nat /\ last \in Nat
        BY <1>1, <2>1, <2>2
      <4> HIDE DEF n
      <4> QED
        BY <4>1, <4>2, <4>3
    <3> QED
      BY <3>1, <3>3, <3>4 DEF Steps
  <2>6. Rest'
    BY <2>1 DEF SecondFactorInv, Rest, counters
  <2>7. PICK q \in Requests :
           /\ req' = [req EXCEPT ![r] = q]
           /\ q.at = IF req[r].kind = "verify" THEN "spending" ELSE "writing"
           /\ q.kind = req[r].kind /\ q.session = req[r].session /\ q.challenge = req[r].challenge
    BY <1>1, <2>1, ProvenRequest
  <2>8. Stands(q)' /\ q.at \notin Past
    BY <1>1, <2>1, <2>7 DEF Stands, Past, HasFactor
  <2>9. \A u \in Request \ {r} : Stands(req[u])'
    BY <2>1, <2>7, Counters DEF Stands, HasFactor, SecondFactorInv, Asks
  <2> HIDE DEF n, Requests
  <2>10. Asks' /\ ChallengeServesOnce'
    BY <2>7, <2>8, <2>9, OneRequestMoves
  <2> QED
    BY <2>4, <2>5, <2>6, <2>10 DEF SecondFactorInv
<1>3. CASE ~FreshStep(n)
  BY <1>3, Counters, AnswerStep DEF ConsumeStep, Refuse, factors, counters, history
<1> QED
  BY <1>2, <1>3

\* A recovery code is consumed, once.
LEMMA ConsumeCodeKeeps == ASSUME SecondFactorInv, NEW r \in Request, ConsumeRecoveryCode(r) PROVE SecondFactorInv'
<1> DEFINE c == req[r].proof[1]
<1>1. req[r] \in Requests /\ Stands(req[r]) /\ req[r].at = "code"
  BY Counters DEF ConsumeRecoveryCode
<1>2. CASE c \in codes
  <2>1. /\ codes' = codes \ {c} /\ Proven(r)
        /\ UNCHANGED <<secret, last, pending, waiting, passkeys, active, session, challenge, counters, history>>
    BY <1>2 DEF ConsumeRecoveryCode
  <2>2. Factors' /\ Steps' /\ Rest'
    BY <2>1 DEF SecondFactorInv, Factors, Steps, Rest, CodesFollowSecret, counters, history
  <2>3. PICK q \in Requests :
           /\ req' = [req EXCEPT ![r] = q]
           /\ q.at = IF req[r].kind = "verify" THEN "spending" ELSE "writing"
           /\ q.kind = req[r].kind /\ q.session = req[r].session /\ q.challenge = req[r].challenge
    BY <1>1, <2>1, ProvenRequest
  <2>4. Stands(q)' /\ q.at \notin Past
    BY <1>1, <2>1, <2>3 DEF Stands, Past, HasFactor
  <2>5. \A u \in Request \ {r} : Stands(req[u])'
    BY <2>1, <2>3, Counters DEF Stands, HasFactor, SecondFactorInv, Asks
  <2> HIDE DEF c, Requests
  <2>6. Asks' /\ ChallengeServesOnce'
    BY <2>3, <2>4, <2>5, OneRequestMoves
  <2> QED
    BY <2>2, <2>6 DEF SecondFactorInv
<1>3. CASE c \notin codes
  BY <1>3, Counters, AnswerStep DEF ConsumeRecoveryCode, Refuse, factors, counters, history
<1> QED
  BY <1>2, <1>3

\* What Goto writes of a request.
LEMMA GoneRequest ==
  ASSUME SecondFactorInv, NEW r \in Request, NEW place \in Places, Goto(r, place)
  PROVE  \E q \in Requests :
           /\ req' = [req EXCEPT ![r] = q] /\ q.at = place
           /\ q.kind = req[r].kind /\ q.session = req[r].session /\ q.challenge = req[r].challenge
<1> DEFINE q == [req[r] EXCEPT !.at = place]
<1>1. q \in Requests /\ q.at = place /\ q.kind = req[r].kind /\ q.session = req[r].session /\ q.challenge = req[r].challenge
  BY Counters, RequestGoes
<1> HIDE DEF Requests
<1>2. req' = [req EXCEPT ![r] = q]
  BY Zenon DEF Goto, SecondFactorInv, Asks
<1> HIDE DEF q
<1> QED
  BY <1>1, <1>2

\* A challenge is spent: who spends it takes it from those that live.
LEMMA SpendKeeps == ASSUME SecondFactorInv, NEW r \in Request, Spend(r) PROVE SecondFactorInv'
<1> DEFINE c == req[r].challenge
<1>1. req[r] \in Requests /\ Stands(req[r]) /\ req[r].at = "spending" /\ "elevating" \in Places
  BY Counters DEF Spend, Places
<1>2. CASE Usable(c)
  <2>1. /\ challenge' = challenge \ {c} /\ Goto(r, "elevating") /\ c \in challenge
        /\ UNCHANGED <<factors, active, session, counters, history>>
    BY <1>2 DEF Spend, Usable
  <2>2. Factors' /\ Steps' /\ Rest'
    BY <2>1 DEF SecondFactorInv, Factors, Steps, Rest, CodesFollowSecret, factors, counters, history
  <2>3. PICK q \in Requests :
           /\ req' = [req EXCEPT ![r] = q] /\ q.at = "elevating"
           /\ q.kind = req[r].kind /\ q.session = req[r].session /\ q.challenge = c
    BY <1>1, <2>1, GoneRequest
  <2>4. req' = [req EXCEPT ![r] = q]
    BY <2>3
  <2> HIDE DEF Requests
  <2>5. Stands(q)'
    BY <1>1, <2>1, <2>3 DEF Stands, Past, HasFactor, factors
  <2>6. \A u \in Request \ {r} : Stands(req[u])'
    BY <2>1, <2>4, Counters DEF Stands, HasFactor, SecondFactorInv, Asks, factors
  <2>7. Asks' /\ ChallengeServesOnce'
    BY <2>1, <2>3, <2>4, <2>5, <2>6, OneRequestMoves
  <2> QED
    BY <2>2, <2>7 DEF SecondFactorInv
<1>3. CASE ~Usable(c)
  BY <1>3, Counters, AnswerStep DEF Spend, counters, history
<1> QED
  BY <1>2, <1>3

\* The elevation: the session that a reset would have closed is open.
LEMMA ElevateKeeps == ASSUME SecondFactorInv, NEW r \in Request, Elevate(r) PROVE SecondFactorInv'
<1> DEFINE s == req[r].session
<1>1. req[r] \in Requests /\ Stands(req[r]) /\ req[r].at = "elevating" /\ s \in Session /\ "clearing" \in Places
  BY Counters DEF Elevate, Places, Stands
<1>2. CASE Alive(s)
  <2>1. /\ session' = [session EXCEPT ![s] = "elevated"] /\ Goto(r, "clearing") /\ session[s] # "closed"
        /\ UNCHANGED <<factors, active, challenge, counters, history>>
    BY <1>2 DEF Elevate, Alive
  <2>2. /\ session' \in [Session -> {"closed", "open", "elevated"}]
        /\ \A o \in Session : session'[o] = "closed" <=> session[o] = "closed"
    BY <1>1, <2>1 DEF SecondFactorInv, Rest
  <2>3. Factors' /\ Steps' /\ Rest'
    BY <2>1, <2>2 DEF SecondFactorInv, Factors, Steps, Rest, CodesFollowSecret, factors, counters, history
  <2>4. PICK q \in Requests :
           /\ req' = [req EXCEPT ![r] = q] /\ q.at = "clearing"
           /\ q.kind = req[r].kind /\ q.session = s /\ q.challenge = req[r].challenge
    BY <1>1, <2>1, GoneRequest
  <2>5. req' = [req EXCEPT ![r] = q]
    BY <2>4
  <2> HIDE DEF s, Requests
  <2>6. Stands(q)'
    BY <1>1, <2>1, <2>4 DEF Stands, Past
  <2>7. \A u \in Request \ {r} : Stands(req[u])'
    <3>1. ASSUME NEW u \in Request \ {r} PROVE Stands(req[u])'
      <4>1. req'[u] = req[u] /\ Stands(req[u])
        BY <2>5, Counters DEF SecondFactorInv, Asks
      <4> QED
        BY <4>1, <2>1, <2>2 DEF Stands, HasFactor, factors
    <3> QED
      BY <3>1
  <2>8. Asks' /\ ChallengeServesOnce'
    BY <1>1, <2>4, <2>5, <2>6, <2>7, OneRequestMoves DEF Past
  <2> QED
    BY <2>3, <2>8 DEF SecondFactorInv
<1>3. CASE ~Alive(s)
  BY <1>3, Counters, AnswerStep DEF Elevate, counters, history
<1> QED
  BY <1>2, <1>3

\* What an enrolment or a confirmation leaves: a factor, and the codes that go with it.
LEMMA FactorsWritten ==
  ASSUME SecondFactorInv, NEW r \in Request, Factors', Steps', HasFactor', req[r].at # "idle",
         UNCHANGED <<active, session, challenge, counters, wrong>>,
         \/ Answer(r)
         \/ \E q \in Requests :
              /\ req' = [req EXCEPT ![r] = q] /\ q.at = "clearing" /\ q.challenge = None
              /\ q.session = req[r].session
  PROVE  SecondFactorInv'
<1>1. Rest'
  BY DEF SecondFactorInv, Rest, counters
<1>2. CASE Answer(r)
  <2>1. \A u \in Request \ {r} : req'[u] = req[u]
    BY <1>2 DEF Answer, SecondFactorInv, Asks
  <2>2. \A u \in Request \ {r} : Stands(req[u])'
    BY <2>1, OthersStand
  <2> QED
    BY <1>1, <1>2, <2>2, AnsweredAmong DEF SecondFactorInv
<1>3. ASSUME NEW q \in Requests, req' = [req EXCEPT ![r] = q], q.at = "clearing", q.challenge = None,
             q.session = req[r].session
      PROVE  SecondFactorInv'
  <2>1. \A u \in Request \ {r} : req'[u] = req[u]
    BY <1>3 DEF SecondFactorInv, Asks
  <2>2. \A u \in Request \ {r} : Stands(req[u])'
    BY <2>1, OthersStand
  <2>3. Stands(q)'
    <3>1. None \notin challenge
      BY SecondFactorAssumption DEF SecondFactorInv, Rest
    <3>2. q.session \in Session
      BY <1>3, Counters DEF Stands
    <3> QED
      BY <3>1, <3>2, <1>3 DEF Stands
  <2> HIDE DEF Requests
  <2>4. Asks' /\ ChallengeServesOnce'
    BY <1>3, <2>2, <2>3, OneRequestMoves
  <2> QED
    BY <1>1, <2>4 DEF SecondFactorInv
<1> QED
  BY <1>2, <1>3

\* The first secret, or one that takes the place of another.
LEMMA EnrollKeeps == ASSUME SecondFactorInv, NEW r \in Request, NEW s \in Secret, Enroll(r, s) PROVE SecondFactorInv'
<1>1. CASE req[r].replace \/ secret = None
  <2>1. /\ secret' = s /\ last' = 0 /\ pending' = None /\ codes' = {s} /\ waiting' = {} /\ accepted' = {}
        /\ Answer(r) /\ UNCHANGED <<passkeys, active, session, challenge, counters, replayed, wrong>>
        /\ req[r].at = "writing"
    BY <1>1 DEF Enroll
  <2>2. Factors' /\ HasFactor'
    BY <2>1, SecondFactorAssumption DEF SecondFactorInv, Factors, CodesFollowSecret, HasFactor
  <2>3. Steps'
    BY <2>1 DEF SecondFactorInv, Steps
  <2> QED
    BY <2>1, <2>2, <2>3, FactorsWritten
<1>2. CASE ~(req[r].replace \/ secret = None)
  BY <1>2, Counters, AnswerStep DEF Enroll, factors, counters
<1> QED
  BY <1>1, <1>2

\* A secret set aside.
LEMMA EnrollPendingKeeps ==
  ASSUME SecondFactorInv, NEW r \in Request, NEW s \in Secret, EnrollPending(r, s)
  PROVE  SecondFactorInv'
<1>1. CASE secret # None \/ passkeys > 0
  <2>1. /\ pending' = s /\ waiting' = {s} /\ Answer(r) /\ req[r].at = "writing"
        /\ UNCHANGED <<secret, last, codes, passkeys, active, session, challenge, counters, history>>
    BY <1>1 DEF EnrollPending
  <2>2. Factors' /\ HasFactor' /\ Steps'
    BY <1>1, <2>1 DEF SecondFactorInv, Factors, CodesFollowSecret, HasFactor, Steps, history
  <2> QED
    BY <2>1, <2>2, FactorsWritten DEF history
<1>2. CASE ~(secret # None \/ passkeys > 0)
  BY <1>2, Counters, AnswerStep DEF EnrollPending, factors, counters, history
<1> QED
  BY <1>1, <1>2

\* The secret that waits takes its place, with its codes and the step just accepted.
LEMMA ConfirmKeeps == ASSUME SecondFactorInv, NEW r \in Request, Confirm(r) PROVE SecondFactorInv'
<1> DEFINE s == req[r].proof[1]
           n == req[r].proof[2]
<1>1. /\ req[r] \in Requests /\ Stands(req[r]) /\ req[r].at = "confirming" /\ s \in Secret /\ n \in 1 .. MaxStep
      /\ req[r].kind = "confirm"
  BY Counters DEF Confirm, Stands
<1>2. CASE StillPending(s)
  <2>1. /\ secret' = pending /\ pending' = None /\ last' = n /\ codes' = waiting /\ waiting' = {} /\ pending = s
        /\ req' = [req EXCEPT ![r].at = "clearing", ![r].proof = <<None, 0>>]
        /\ accepted' = (IF secret' = s THEN {last'} ELSE {})
        /\ UNCHANGED <<passkeys, active, session, challenge, counters, replayed, wrong>>
    BY <1>2 DEF Confirm, StillPending, Promoted
  <2>2. accepted' = {n} /\ None \notin Secret /\ MaxStep \in Nat
    BY <2>1, SecondFactorAssumption
  <2>3. Factors' /\ HasFactor' /\ Steps'
    <3> HIDE DEF s, n
    <3> QED
      BY <1>1, <2>1, <2>2 DEF SecondFactorInv, Factors, CodesFollowSecret, HasFactor, Steps
  <2>4. \E q \in Requests :
          /\ req' = [req EXCEPT ![r] = q] /\ q.at = "clearing" /\ q.challenge = None /\ q.session = req[r].session
    <3> DEFINE p == <<None, 0>>
               q == [req[r] EXCEPT !.at = "clearing", !.proof = p]
    <3>1. p \in (Secret \cup {None}) \X (0 .. MaxStep) /\ "clearing" \in Places
      BY <2>2 DEF Places
    <3>2. req' = [req EXCEPT ![r] = q]
      <4>1. req \in [Request -> Requests]
        BY DEF SecondFactorInv, Asks
      <4> HIDE DEF Requests
      <4> QED
        BY <4>1, <2>1, Zenon
    <3> HIDE DEF p
    <3>3. q \in Requests
      BY <1>1, <3>1, ZenonT(30) DEF Requests
    <3>4. q.at = "clearing" /\ q.challenge = req[r].challenge /\ q.session = req[r].session
      BY <1>1 DEF Requests
    <3>5. req[r].challenge = None
      BY <1>1 DEF Stands
    <3> HIDE DEF q, Requests
    <3> QED
      BY <3>2, <3>3, <3>4, <3>5
  <2> HIDE DEF Requests
  <2> QED
    BY <1>1, <2>1, <2>3, <2>4, FactorsWritten
<1>3. CASE ~StillPending(s)
  BY <1>3, Counters, AnswerStep DEF Confirm, Refuse, factors, counters
<1> QED
  BY <1>2, <1>3

\* What happens elsewhere: no request moves.
LEMMA ElsewhereKeeps == SecondFactorInv /\ Elsewhere => SecondFactorInv'
<1> SUFFICES ASSUME SecondFactorInv, Elsewhere PROVE SecondFactorInv'
  OBVIOUS
<1>0. \A u \in Request : req[u] \in Requests /\ Stands(req[u])
  BY Counters
<1>1. ASSUME NEW s \in Session, NEW c \in Challenge, Login(s, c) PROVE SecondFactorInv'
  <2>1. /\ session' = [session EXCEPT ![s] = "open"] /\ challenge' = challenge \cup {c}
        /\ UNCHANGED <<factors, active, counters, req, history>>
        /\ \A u \in Request : req[u].session # s /\ req[u].challenge # c
    BY <1>1 DEF Login, NewSession, NewChallenge
  <2>2. Factors' /\ Steps' /\ Rest'
    BY <2>1 DEF SecondFactorInv, Factors, Steps, Rest, CodesFollowSecret, factors, counters, history
  <2>3. \A o \in Session : o # s => session'[o] = session[o]
    BY <2>1 DEF SecondFactorInv, Rest
  <2>4. ASSUME NEW u \in Request PROVE Stands(req[u])'
    BY <1>0, <2>1, <2>3 DEF Stands, HasFactor, factors
  <2> QED
    BY <2>1, <2>2, <2>4, NoRequestMoves DEF SecondFactorInv
<1>2. ASSUME UNCHANGED <<factors, counters, req, history>>, challenge' \subseteq challenge, active' \in BOOLEAN,
             session' \in [Session -> {"closed", "open", "elevated"}],
             \A s \in Session : session[s] = "closed" => session'[s] = "closed"
      PROVE  SecondFactorInv'
  <2>1. Factors' /\ Steps' /\ Rest'
    BY <1>2 DEF SecondFactorInv, Factors, Steps, Rest, CodesFollowSecret, factors, counters, history
  <2>2. ASSUME NEW u \in Request PROVE Stands(req[u])'
    BY <1>0, <1>2 DEF Stands, HasFactor, factors
  <2> QED
    BY <1>2, <2>1, <2>2, NoRequestMoves DEF SecondFactorInv
<1>3. ASSUME NEW s \in Session, Logout(s) PROVE SecondFactorInv'
  BY <1>3, <1>2 DEF Logout, SecondFactorInv, Rest
<1>4. ASSUME NEW c \in Challenge, ExpireChallenge(c) PROVE SecondFactorInv'
  BY <1>4, <1>2 DEF ExpireChallenge, SecondFactorInv, Rest
<1>5. CASE SetStatus
  BY <1>5, <1>2 DEF SetStatus, SecondFactorInv, Rest
<1>6. ASSUME UNCHANGED <<secret, last, pending, codes, waiting, active, session, challenge, counters, req, history>>,
             passkeys' \in 0 .. Keys, HasFactor'
      PROVE  SecondFactorInv'
  <2>1. Factors' /\ Steps' /\ Rest'
    BY <1>6 DEF SecondFactorInv, Factors, Steps, Rest, CodesFollowSecret, counters, history
  <2>2. \A u \in Request : Stands(req[u])'
    BY <1>6, OthersStand
  <2> QED
    BY <1>6, <2>1, <2>2, NoRequestMoves DEF SecondFactorInv
<1>7. passkeys \in 0 .. Keys /\ Keys \in Nat
  BY SecondFactorAssumption DEF SecondFactorInv, Factors
<1>8. ASSUME NEW s \in Session, AddPasskey(s) PROVE SecondFactorInv'
  <2>1. passkeys' \in 0 .. Keys /\ HasFactor'
    BY <1>7, <1>8 DEF AddPasskey, HasFactor
  <2> QED
    BY <2>1, <1>6, <1>8 DEF AddPasskey
<1>9. ASSUME NEW s \in Session, RemovePasskey(s) PROVE SecondFactorInv'
  <2>1. passkeys' \in 0 .. Keys /\ HasFactor'
    BY <1>7, <1>9 DEF RemovePasskey, HasFactor
  <2> QED
    BY <2>1, <1>6, <1>9 DEF RemovePasskey
<1>10. CASE UseResetLink
  <2>1. /\ secret' = None /\ last' = 0 /\ pending' = None /\ codes' = {} /\ waiting' = {} /\ passkeys' = 0
        /\ session' = [s \in Session |-> "closed"] /\ failures' = 0 /\ wrong' = 0 /\ accepted' = {}
        /\ UNCHANGED <<active, challenge, calls, req, replayed>>
    BY <1>10 DEF UseResetLink, RevokeSessions
  <2>2. Factors' /\ Steps' /\ Rest'
    BY <2>1, SecondFactorAssumption DEF SecondFactorInv, Factors, Steps, Rest, CodesFollowSecret
  <2>3. ASSUME NEW u \in Request PROVE Stands(req[u])'
    BY <1>0, <2>1 DEF Stands
  <2> QED
    BY <2>1, <2>2, <2>3, NoRequestMoves DEF SecondFactorInv
<1>11. CASE Forget
  <2>1. failures' = 0 /\ calls' = 0 /\ wrong' = 0
        /\ UNCHANGED <<factors, active, session, challenge, req, accepted, replayed>>
    BY <1>11 DEF Forget
  <2>2. Factors' /\ Steps' /\ Rest'
    BY <2>1, SecondFactorAssumption DEF SecondFactorInv, Factors, Steps, Rest, CodesFollowSecret, factors
  <2>3. ASSUME NEW u \in Request PROVE Stands(req[u])'
    BY <1>0, <2>1 DEF Stands, HasFactor, factors
  <2> QED
    BY <2>1, <2>2, <2>3, NoRequestMoves DEF SecondFactorInv
<1> QED
  BY <1>1, <1>3, <1>4, <1>5, <1>8, <1>9, <1>10, <1>11 DEF Elsewhere

\* No step breaks the invariant.
LEMMA SecondFactorInvStep == SecondFactorInv /\ [Next]_vars => SecondFactorInv'
<1> SUFFICES ASSUME SecondFactorInv, [Next]_vars PROVE SecondFactorInv'
  OBVIOUS
<1>1. ASSUME NEW r \in Request, Serve(r) PROVE SecondFactorInv'
  BY <1>1, StartStep, LookStep, ReserveStep, CodeSteps, PlainSteps, AssertionStep, EnrolmentReads, ConsumeStepKeeps,
     ConsumeCodeKeeps, SpendKeeps, ElevateKeeps, EnrollKeeps, EnrollPendingKeeps, ConfirmKeeps DEF Serve
<1>2. CASE UNCHANGED vars
  <2>1. UNCHANGED <<secret, last, pending, codes, waiting, passkeys, active, session, challenge, failures, calls, req,
                    accepted, replayed, wrong>>
    BY <1>2 DEF vars, factors, counters, history
  <2>2. Factors' /\ Steps' /\ Rest'
    BY <2>1 DEF SecondFactorInv, Factors, Steps, Rest, CodesFollowSecret
  <2>3. ASSUME NEW u \in Request PROVE Stands(req[u])'
    BY <2>1, Counters DEF Stands, HasFactor
  <2> QED
    BY <2>1, <2>2, <2>3, NoRequestMoves DEF SecondFactorInv
<1> QED
  BY <1>1, <1>2, ElsewhereKeeps DEF Next

\* What the steps keep, every behaviour keeps.
LEMMA SecondFactorInvariant == Spec => []SecondFactorInv
  BY SecondFactorInvInit, SecondFactorInvStep, PTL DEF Spec

\* Every variable keeps its type: the counters never pass their thresholds.
THEOREM SecondFactorTypes == Spec => []TypeOK
<1>1. SecondFactorInv => TypeOK
  BY DEF SecondFactorInv, Factors, Steps, Rest, Asks, TypeOK, Requests
<1> QED
  BY <1>1, SecondFactorInvariant, PTL

\* A code of the secret in force is accepted once (store/mfa.go, ConsumeStep).
THEOREM CodesServeOnce == Spec => []CodeServesOnce
<1>1. SecondFactorInv => CodeServesOnce
  BY DEF SecondFactorInv, Steps, CodeServesOnce
<1> QED
  BY <1>1, SecondFactorInvariant, PTL

\* The recovery codes are those of the secret they were shown with (store/mfa.go, Enroll).
THEOREM CodesGoTogether == Spec => []CodesFollowSecret
<1>1. SecondFactorInv => CodesFollowSecret
  BY DEF SecondFactorInv, Factors
<1> QED
  BY <1>1, SecondFactorInvariant, PTL

\* Two requests never both get past one challenge (store/mfa.go, ConsumeChallenge).
THEOREM ChallengesServeOnce == Spec => []ChallengeServesOnce
<1>1. SecondFactorInv => ChallengeServesOnce
  BY DEF SecondFactorInv
<1> QED
  BY <1>1, SecondFactorInvariant, PTL

\* A factor proved and then taken away by a reset elevates nothing (store/sessions.go,
\* Elevate).
THEOREM ElevationsHaveFactor == Spec => ElevationHasFactor
<1> DEFINE P == \A s \in Session : session[s] # "elevated" /\ session'[s] = "elevated" => secret # None \/ passkeys > 0
<1>1. SecondFactorInv /\ [Next]_vars => [P]_vars
  <2> SUFFICES ASSUME SecondFactorInv, Next, NEW s \in Session, session[s] # "elevated", session'[s] = "elevated"
               PROVE  HasFactor
    BY DEF HasFactor
  <2>1. session \in [Session -> {"closed", "open", "elevated"}]
    BY DEF SecondFactorInv, Rest
  <2>2. ASSUME Elsewhere PROVE FALSE
    BY <2>1, <2>2 DEF Elsewhere, Login, Logout, AddPasskey, RemovePasskey, ExpireChallenge, SetStatus, UseResetLink,
                      RevokeSessions, Forget
  <2>3. ASSUME NEW r \in Request, Serve(r) PROVE HasFactor
    <3>1. CASE Elevate(r)
      <4>1. s = req[r].session /\ session[s] # "closed" /\ req[r].at = "elevating"
        BY <2>1, <3>1 DEF Elevate, Alive
      <4> QED
        BY <4>1, Counters DEF Stands
    <3>2. CASE ~Elevate(r)
      <4>1. UNCHANGED session
        BY <2>3, <3>2 DEF Serve, Look, Start, Admit, ReadState, ReadPending, ReadFactors, Reserve, JudgeWrong,
           JudgeAssertion, JudgeCode, JudgeTotp, JudgePending, Judge, ConsumeStep, ConsumeRecoveryCode, Confirm, Enroll,
           EnrollPending, Spend, Clear, Fail, Release, Drop
      <4> QED
        BY <4>1
    <3> QED
      BY <3>1, <3>2
  <2> QED
    BY <2>2, <2>3 DEF Next
<1> QED
  BY <1>1, SecondFactorInvariant, PTL DEF Spec, ElevationHasFactor

----------------------------------------------------------------------------
(* The wrong codes.  An attempt is reserved before its code is judged, and what is not yet
   judged was reserved, maybe before the counter was cleared: each request accounts for one
   guess beyond those the counter knows. *)

\* Where a request holds an attempt whose fate is open.
Trying == {r \in Request :
              req[r].at \in {"looking", "judging", "step", "code", "confirming", "releasing"}}

GuessesCounted == wrong + Cardinality(Trying) <= failures + Cardinality(Request)

\* The requests that try are as many as the requests, at most.
LEMMA TryingSize ==
  IsFiniteSet(Trying) /\ Cardinality(Trying) \in Nat /\ Cardinality(Request) \in Nat
  /\ Cardinality(Trying) <= Cardinality(Request)
<1>1. Trying \in SUBSET Request /\ IsFiniteSet(Request)
  BY SecondFactorAssumption DEF Trying
<1> QED BY <1>1, FS_Subset, FS_CardinalityType

\* The guesses of a cleared counter are within the bound again.
LEMMA ClearedCounts ==
  ASSUME wrong' = 0, failures' \in Nat PROVE GuessesCounted'
<1>1. Trying' \in SUBSET Request /\ IsFiniteSet(Request)
  BY SecondFactorAssumption DEF Trying
<1>2. Cardinality(Trying') \in Nat /\ Cardinality(Request) \in Nat /\ Cardinality(Trying') <= Cardinality(Request)
  BY <1>1, FS_Subset, FS_CardinalityType
<1> QED BY <1>2 DEF GuessesCounted

\* One attempt more, less or as many on each side.
LEMMA Shift ==
  ASSUME NEW w \in Nat, NEW v \in Nat, NEW f \in Nat, NEW g \in Nat, NEW n \in Nat, NEW m \in Nat,
         \/ m = n - 1 /\ v + f <= w + g + 1
         \/ m = n + 1 /\ v + f + 1 <= w + g
         \/ m = n /\ v + f <= w + g
  PROVE  v + m + f <= w + n + g
  OBVIOUS

\* One request moves: what it holds, the counter and the guesses move together.
LEMMA OneMoves ==
  ASSUME SecondFactorInv, NEW r \in Request,
         \A u \in Request : u # r => req'[u].at = req[u].at,
         failures' \in Nat, wrong' \in Nat,
         r \in Trying /\ r \notin Trying' => wrong' + failures <= wrong + failures' + 1,
         r \notin Trying /\ r \in Trying' => wrong' + failures + 1 <= wrong + failures',
         (r \in Trying <=> r \in Trying') => wrong' + failures <= wrong + failures'
  PROVE  /\ Cardinality(Trying') \in Nat
         /\ wrong' + Cardinality(Trying') + failures <= wrong + Cardinality(Trying) + failures'
<1> DEFINE n == Cardinality(Trying)
           m == Cardinality(Trying')
<1>0. failures' \in Nat /\ wrong' \in Nat
  OBVIOUS
<1>1. failures \in Nat /\ wrong \in Nat /\ n \in Nat /\ IsFiniteSet(Trying)
  BY Counters, TryingSize
<1>3. Trying' \in SUBSET Request /\ IsFiniteSet(Request)
  BY SecondFactorAssumption DEF Trying
<1>4. m \in Nat
  BY <1>3, FS_Subset, FS_CardinalityType
<1>5. wrong' + m + failures <= wrong + n + failures'
  <2>1. CASE r \in Trying /\ r \notin Trying'
    <3>1. Trying' = Trying \ {r}
      BY <2>1 DEF Trying
    <3>2. m = n - 1
      BY <1>1, <2>1, <3>1, FS_RemoveElement
    <3>3. wrong' + failures <= wrong + failures' + 1
      BY <2>1
    <3> HIDE DEF n, m
    <3> QED BY <1>0, <1>1, <1>4, <3>2, <3>3, Shift
  <2>2. CASE r \notin Trying /\ r \in Trying'
    <3>1. Trying' = Trying \cup {r}
      BY <2>2 DEF Trying
    <3>2. m = n + 1
      BY <1>1, <2>2, <3>1, FS_AddElement
    <3>3. wrong' + failures + 1 <= wrong + failures'
      BY <2>2
    <3> HIDE DEF n, m
    <3> QED BY <1>0, <1>1, <1>4, <3>2, <3>3, Shift
  <2>3. CASE r \in Trying <=> r \in Trying'
    <3>1. Trying' = Trying
      BY <2>3 DEF Trying
    <3>2. m = n
      BY <3>1
    <3>3. wrong' + failures <= wrong + failures'
      BY <2>3
    <3> HIDE DEF n, m
    <3> QED BY <1>0, <1>1, <1>4, <3>2, <3>3, Shift
  <2> QED BY <2>1, <2>2, <2>3
<1> QED BY <1>4, <1>5

\* The bound holds on, then.
LEMMA BoundHolds ==
  ASSUME GuessesCounted, failures \in Nat, wrong \in Nat, failures' \in Nat, wrong' \in Nat,
         Cardinality(Trying) \in Nat, Cardinality(Trying') \in Nat, Cardinality(Request) \in Nat,
         wrong' + Cardinality(Trying') + failures <= wrong + Cardinality(Trying) + failures'
  PROVE  GuessesCounted'
  BY DEF GuessesCounted

LEMMA OneCounts ==
  ASSUME SecondFactorInv, GuessesCounted, NEW r \in Request,
         \A u \in Request : u # r => req'[u].at = req[u].at,
         failures' \in Nat, wrong' \in Nat,
         r \in Trying /\ r \notin Trying' => wrong' + failures <= wrong + failures' + 1,
         r \notin Trying /\ r \in Trying' => wrong' + failures + 1 <= wrong + failures',
         (r \in Trying <=> r \in Trying') => wrong' + failures <= wrong + failures'
  PROVE  GuessesCounted'
  BY OneMoves, BoundHolds, Counters, TryingSize

\* A request that goes, or is answered, is where it went; nobody else moves.
LEMMA WhereTo ==
  ASSUME SecondFactorInv, NEW r \in Request
  PROVE  /\ \A place : Goto(r, place) => req'[r].at = place /\ \A u \in Request : u # r => req'[u] = req[u]
         /\ Answer(r) => req'[r].at = "idle" /\ \A u \in Request : u # r => req'[u] = req[u]
         /\ Proven(r) => /\ req'[r].at \in {"idle", "spending", "writing"}
                        /\ \A u \in Request : u # r => req'[u] = req[u]
<1>1. req \in [Request -> Requests] /\ req[r] \in Requests
  BY DEF SecondFactorInv, Asks
<1>2. ASSUME NEW place, Goto(r, place) PROVE req'[r].at = place
  BY <1>1, <1>2 DEF Goto, Requests
<1>3. ASSUME Answer(r) PROVE req'[r].at = "idle"
  BY <1>1, <1>3, FreeIsRequest DEF Answer
<1>4. ASSUME Proven(r) PROVE req'[r].at \in {"idle", "spending", "writing"}
  BY <1>1, <1>4 DEF Proven, Requests
<1>5. Answer(r) \/ Proven(r) \/ (\E place : Goto(r, place)) => \A u \in Request : u # r => req'[u] = req[u]
  BY <1>1 DEF Answer, Proven, Goto
<1> QED BY <1>2, <1>3, <1>4, <1>5

\* No step judges a wrong code that was not reserved.
LEMMA GuessesStep == SecondFactorInv /\ GuessesCounted /\ [Next]_vars => GuessesCounted'
<1> SUFFICES ASSUME SecondFactorInv, GuessesCounted, [Next]_vars PROVE GuessesCounted'
  OBVIOUS
<1>0. failures \in Nat /\ wrong \in Nat /\ failures <= Threshold
  BY Counters, SecondFactorAssumption
<1>1. ASSUME UNCHANGED <<req, failures, wrong>> PROVE GuessesCounted'
  BY <1>1 DEF GuessesCounted, Trying
<1>2. CASE Elsewhere
  <2>1. CASE UseResetLink \/ Forget
    BY <2>1, ClearedCounts DEF UseResetLink, Forget
  <2>2. CASE ~(UseResetLink \/ Forget)
    BY <1>1, <1>2, <2>2 DEF Elsewhere, Login, Logout, AddPasskey, RemovePasskey, ExpireChallenge, SetStatus,
       counters, history
  <2> QED BY <2>1, <2>2
<1>3. ASSUME NEW r \in Request, Serve(r) PROVE GuessesCounted'
  <2>0. req \in [Request -> Requests] /\ req[r] \in Requests
    BY DEF SecondFactorInv, Asks
  <2> DEFINE Calm == /\ UNCHANGED <<failures, wrong>>
                     /\ \A u \in Request : u # r => req'[u].at = req[u].at
                     /\ r \in Trying' => r \in Trying
  <2>1. Calm => GuessesCounted'
    BY <1>0, OneCounts
  <2>2. ASSUME NEW c \in Challenge, Look(r, c) PROVE Calm
    BY <2>0, <2>2, WhereTo DEF Look, Trying, Requests, counters, history
  <2>3. ASSUME NEW kind \in {"verify", "enroll", "confirm"}, NEW s \in Session, Start(r, kind, s) PROVE Calm
    <3>1. /\ req'[r].at \in {"reserving", "admitting", "reading"} /\ UNCHANGED <<failures, wrong>>
          /\ \A u \in Request : u # r => req'[u] = req[u]
      BY <2>0, <2>3 DEF Start, Free, counters, history
    <3> QED BY <3>1 DEF Trying
  <2>4. CASE Admit(r) \/ ReadPending(r) \/ Spend(r) \/ Elevate(r) \/ Drop(r)
    <3>1. UNCHANGED <<failures, wrong>>
      BY <2>4 DEF Admit, ReadPending, Spend, Elevate, Drop, counters, history
    <3>2. \/ Answer(r)
          \/ \E place \in {"reading", "reserving", "elevating", "clearing"} : Goto(r, place)
      BY <2>4 DEF Admit, ReadPending, Spend, Elevate, Drop
    <3>3. req'[r].at \in {"idle", "reading", "reserving", "elevating", "clearing"}
          /\ \A u \in Request : u # r => req'[u] = req[u]
      BY <3>2, WhereTo
    <3> QED BY <2>1, <3>1, <3>3 DEF Trying
  <2>5. CASE ReadState(r) \/ \E b \in BOOLEAN : ReadFactors(r, b)
    <3>1. UNCHANGED <<failures, wrong>>
      BY <2>5 DEF ReadState, ReadFactors, counters, history
    <3>2. req'[r].at \in {"idle", "counting", "reserving", "writing"}
      BY <2>0, <2>5, WhereTo DEF ReadState, ReadFactors, Requests
    <3>3. \A u \in Request : u # r => req'[u] = req[u]
      BY <2>0, <2>5, WhereTo DEF ReadState, ReadFactors
    <3> QED BY <2>1, <3>1, <3>2, <3>3 DEF Trying
  <2>6. CASE Reserve(r)
    <3>1. req[r].at = "reserving" /\ wrong' = wrong
      BY <2>6 DEF Reserve, history
    <3>2. CASE Reserves
      <4>1. failures' = failures + 1 /\ \E place : Goto(r, place)
        BY <2>6, <3>2 DEF Reserve
      <4> QED BY <1>0, <3>1, <4>1, WhereTo, OneCounts DEF Trying
    <3>3. CASE ~Reserves
      BY <2>1, <2>6, <3>1, <3>3, WhereTo DEF Reserve, Trying
    <3> QED BY <3>2, <3>3
  <2>7. CASE JudgeWrong(r)
    <3>1. req[r].at = "judging" /\ Answer(r) /\ wrong' = wrong + 1 /\ failures' = failures
      BY <2>7 DEF JudgeWrong, Refuse, counters
    <3> QED BY <1>0, <3>1, WhereTo, OneCounts DEF Trying
  <2>8. CASE JudgeAssertion(r)
    BY <2>1, <2>8, WhereTo DEF JudgeAssertion, Trying, counters, history
  <2>9. CASE (\E c \in Secret : JudgeCode(r, c)) \/ \E n \in 1 .. MaxStep : JudgeTotp(r, n) \/ JudgePending(r, n)
    <3>1. req[r].at = "judging" /\ UNCHANGED <<failures, wrong>>
      BY <2>9 DEF JudgeCode, JudgeTotp, JudgePending, Judge, counters, history
    <3>2. \A u \in Request : u # r => req'[u] = req[u]
      BY <2>0, <2>9 DEF JudgeCode, JudgeTotp, JudgePending, Judge
    <3> QED BY <2>1, <3>1, <3>2 DEF Trying
  <2>10. CASE ConsumeStep(r) \/ ConsumeRecoveryCode(r)
    <3>1. UNCHANGED <<failures, wrong>> /\ (Proven(r) \/ Answer(r))
      BY <2>10 DEF ConsumeStep, ConsumeRecoveryCode, Accept, Refuse, counters, history
    <3> QED BY <2>1, <3>1, WhereTo DEF Trying
  <2>11. CASE Confirm(r)
    <3>1. UNCHANGED <<failures, wrong>>
      BY <2>11 DEF Confirm, counters
    <3>2. req'[r].at \in {"idle", "clearing"} /\ \A u \in Request : u # r => req'[u] = req[u]
      BY <2>0, <2>11, WhereTo DEF Confirm, Refuse, Requests
    <3> QED BY <2>1, <3>1, <3>2 DEF Trying
  <2>12. CASE \E s \in Secret : Enroll(r, s) \/ EnrollPending(r, s)
    <3>1. UNCHANGED <<failures, wrong>> /\ Answer(r)
      BY <2>12 DEF Enroll, EnrollPending, counters, history
    <3> QED BY <2>1, <3>1, WhereTo DEF Trying
  <2>13. CASE Clear(r)
    BY <2>13, ClearedCounts DEF Clear
  <2>14. CASE Fail(r)
    <3>1. UNCHANGED <<failures, wrong>> /\ Goto(r, "releasing") /\ r \in Trying
      BY <2>14 DEF Fail, Trying, counters, history
    <3> QED BY <2>1, <3>1, WhereTo
  <2>15. CASE Release(r)
    <3>1. /\ Answer(r) /\ r \in Trying /\ wrong' = wrong
          /\ failures' = IF failures = 0 THEN 0 ELSE failures - 1
      BY <2>15 DEF Release, Trying, history
    <3>2. r \notin Trying'
      BY <3>1, WhereTo DEF Trying
    <3> QED BY <1>0, <3>1, <3>2, WhereTo, OneCounts
  <2> HIDE DEF Calm
  <2> QED
    BY <1>3, <2>1, <2>2, <2>3, <2>4, <2>5, <2>6, <2>7, <2>8, <2>9, <2>10, <2>11, <2>12, <2>13, <2>14, <2>15 DEF Serve
<1>4. CASE UNCHANGED vars
  BY <1>1, <1>4 DEF vars, counters, history
<1> QED BY <1>2, <1>3, <1>4 DEF Next

\* Between two clearings of the counter, no more wrong codes are judged than Threshold and
\* one per request, however the requests interleave (bff/mfa.go, VerifyMfa step 2).
THEOREM GuessesAreBounded == Spec => []GuessesBounded
<1>1. Init => GuessesCounted
  <2>1. Init => wrong = 0 /\ failures = 0
    BY DEF Init
  <2> QED BY <2>1, TryingSize DEF GuessesCounted
<1>2. SecondFactorInv /\ GuessesCounted => GuessesBounded
  <2> SUFFICES ASSUME SecondFactorInv, GuessesCounted PROVE GuessesBounded
    OBVIOUS
  <2>1. failures \in Nat /\ wrong \in Nat /\ failures <= Threshold /\ Threshold \in Nat
    BY Counters, SecondFactorAssumption
  <2> QED BY <2>1, TryingSize DEF GuessesCounted, GuessesBounded
<1> QED
  BY <1>1, <1>2, SecondFactorInvariant, GuessesStep, PTL DEF Spec
===============================================================================
