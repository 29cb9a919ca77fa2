--------------------------- MODULE FirstFactorProofs ---------------------------
(***************************************************************************)
(* Proofs about FirstFactor, for any number of requests, addresses and     *)
(* sources, and every window, threshold and patience: its types, the       *)
(* deadline of a lock, and what a source forgets.                          *)
(***************************************************************************)
EXTENDS FirstFactor, FiniteSetTheorems, TLAPS

Requests == [at : Steps, email : Email \cup {None}, source : Source \cup {None},
             failures : 0 .. Threshold, live : BOOLEAN, age : 0 .. Life]

\* An address never counts past its threshold, and who is past SourceLock has a place
\* to count at.
FirstFactorInv ==
    /\ email \in [Email -> Row] /\ source \in [Source -> Row]
    /\ active \subseteq Known
    /\ req \in [Request -> Requests]
    /\ admitted \in [Email -> SUBSET Attempt] /\ cleared \subseteq Request
    /\ \A e \in Email : IsFiniteSet(admitted[e]) /\ email[e].failures <= Threshold
    /\ \A r \in Request : req[r].at # "idle" => req[r].email \in Email /\ req[r].source \in Source

\* The statements on a row, whatever the row and the age of their now().
LEMMA CounterRows ==
  ASSUME NEW row \in Row, NEW now \in 0 .. Patience
  PROVE  /\ Count(row, now) \in Row /\ Reserve(row, now) \in Row /\ Older(row) \in Row /\ NoRow \in Row
         /\ row.failures <= Threshold => Reserve(row, now).failures <= Threshold
         /\ Locks(row, 0) => Reserve(row, now) = row
         /\ Older(row).failures = row.failures /\ Older(row).age >= row.age
         /\ Count(row, now).failures < row.failures => row.age >= Window
<1>1. row = [failures |-> row.failures, age |-> row.age] /\ row.failures \in Nat /\ row.age \in 0 .. Oldest
  BY DEF Row
<1>2. Oldest \in Nat /\ now \in 0 .. Oldest /\ Window \in Nat /\ Patience \in Nat /\ Threshold \in Nat \ {0}
  BY CounterAssumption DEF Oldest
<1>3. Count(row, now) \in Row
  BY <1>1, <1>2 DEF Count, Row
<1>4. Reserve(row, now) \in Row
  BY <1>3 DEF Reserve, Refused
<1>5. Older(row) \in Row /\ Older(row).failures = row.failures /\ Older(row).age >= row.age
  BY <1>1, <1>2 DEF Older, Row
<1>6. NoRow \in Row
  BY <1>2 DEF NoRow, Row
<1>7. row.failures <= Threshold => Reserve(row, now).failures <= Threshold
  BY <1>1, <1>2 DEF Reserve, Refused, Count, Admits
<1>8. Locks(row, 0) => Reserve(row, now) = row
  BY <1>1, <1>2 DEF Locks, Forgotten, Reserve, Refused, Admits
<1>9. Count(row, now).failures < row.failures => row.age >= Window
  BY <1>1, <1>2 DEF Count, Forgotten
<1> QED
  BY <1>3, <1>4, <1>5, <1>6, <1>7, <1>8, <1>9

\* The history holds attempts, finitely many: what is added to it, and what ages in it.
LEMMA NewestAttempt ==
  ASSUME NEW e \in Email, NEW now \in 0 .. Patience, IsFiniteSet(admitted[e])
  PROVE  Newest(e, now) \in Attempt
<1>1. IsFiniteSet({a \in admitted[e] : a.age = now})
  BY FS_Subset
<1>2. Cardinality({a \in admitted[e] : a.age = now}) \in Nat
  BY <1>1, FS_CardinalityType
<1>3. now \in 0 .. Window
  BY CounterAssumption
<1> QED BY <1>2, <1>3 DEF Newest, Attempt

LEMMA AgedAttempts ==
  ASSUME NEW S \in SUBSET Attempt, IsFiniteSet(S)
  PROVE  /\ Aged(S) \in SUBSET Attempt /\ IsFiniteSet(Aged(S))
         /\ \A n \in Nat : Cardinality({a \in Aged(S) : a.age < n}) <= Cardinality({a \in S : a.age < n})
         /\ \A a \in Aged(S) : \E b \in S : a.age = b.age + 1
<1> DEFINE older(a) == [a EXCEPT !.age = @ + 1]
           young == {a \in S : a.age < Window}
           f == [a \in young |-> older(a)]
<1>1. ASSUME NEW a \in Attempt, a.age < Window
      PROVE older(a) \in Attempt /\ older(a).age = a.age + 1 /\ older(a).nth = a.nth
  BY <1>1, CounterAssumption DEF Attempt
<1>2. Aged(S) = {older(a) : a \in young}
  BY DEF Aged
<1>3. IsFiniteSet(young)
  BY FS_Subset
<1>4. f \in Surjection(young, Aged(S))
  BY <1>2 DEF Surjection
<1>5. IsFiniteSet(Aged(S))
  BY <1>3, <1>4, FS_Surjection
<1>6. ASSUME NEW n \in Nat
      PROVE Cardinality({a \in Aged(S) : a.age < n}) <= Cardinality({a \in S : a.age < n})
  <2> DEFINE from == {a \in young : a.age + 1 < n}
             to == {a \in Aged(S) : a.age < n}
             within == {a \in S : a.age < n}
             g == [a \in from |-> older(a)]
  <2>1. \A a \in S : a.age \in Nat
    BY CounterAssumption DEF Attempt
  <2>2. from \in SUBSET within
    BY <2>1
  <2>3. IsFiniteSet(within) /\ IsFiniteSet(from) /\ Cardinality(from) <= Cardinality(within)
    <3>1. IsFiniteSet(within)
      BY FS_Subset
    <3> QED BY <3>1, <2>2, FS_Subset
  <2>4. g \in Surjection(from, to)
    <3>1. \A a \in from : older(a) \in to
      BY <1>1, <1>2
    <3>2. ASSUME NEW b \in to PROVE \E a \in from : b = older(a)
      <4>1. PICK a \in young : b = older(a)
        BY <1>2
      <4> QED BY <1>1, <4>1
    <3> HIDE DEF from, to, older
    <3> QED BY <3>1, <3>2 DEF Surjection
  <2>5. Cardinality(to) <= Cardinality(from)
    BY <2>3, <2>4, FS_Surjection
  <2>6. IsFiniteSet(to)
    BY <1>5, FS_Subset
  <2>7. Cardinality(to) \in Nat /\ Cardinality(from) \in Nat /\ Cardinality(within) \in Nat
    BY <2>3, <2>6, FS_CardinalityType
  <2> HIDE DEF to, from, within
  <2>8. Cardinality(to) <= Cardinality(within)
    BY <2>3, <2>5, <2>7
  <2> QED BY <2>8 DEF to, within
<1>7. \A a \in Aged(S) : a \in Attempt /\ \E b \in S : a.age = b.age + 1
  BY <1>1, <1>2
<1> QED BY <1>5, <1>6, <1>7

\* What is written to the history of one address leaves those of the others.
LEMMA HistoryWritten ==
  ASSUME NEW h \in [Email -> SUBSET Attempt], \A o \in Email : IsFiniteSet(h[o]), NEW e \in Email, NEW a \in Attempt
  PROVE  /\ [h EXCEPT ![e] = @ \cup {a}] \in [Email -> SUBSET Attempt]
         /\ \A o \in Email : IsFiniteSet([h EXCEPT ![e] = @ \cup {a}][o])
         /\ \A o \in Email : [h EXCEPT ![e] = @ \cup {a}][o] = IF o = e THEN h[e] \cup {a} ELSE h[o]
<1>1. \A o \in Email : [h EXCEPT ![e] = @ \cup {a}][o] = IF o = e THEN h[e] \cup {a} ELSE h[o]
  OBVIOUS
<1>2. IsFiniteSet(h[e] \cup {a})
  BY FS_AddElement
<1>3. [h EXCEPT ![e] = @ \cup {a}] \in [Email -> SUBSET Attempt]
  OBVIOUS
<1>4. ASSUME NEW o \in Email PROVE IsFiniteSet([h EXCEPT ![e] = @ \cup {a}][o])
  BY <1>1, <1>2
<1> QED BY <1>1, <1>3, <1>4

LEMMA HistoryCleared ==
  ASSUME NEW h \in [Email -> SUBSET Attempt], \A o \in Email : IsFiniteSet(h[o]), NEW e \in Email
  PROVE  /\ [h EXCEPT ![e] = {}] \in [Email -> SUBSET Attempt]
         /\ \A o \in Email : IsFiniteSet([h EXCEPT ![e] = {}][o])
         /\ \A o \in Email : [h EXCEPT ![e] = {}][o] = IF o = e THEN {} ELSE h[o]
<1>1. \A o \in Email : [h EXCEPT ![e] = {}][o] = IF o = e THEN {} ELSE h[o]
  OBVIOUS
<1>2. IsFiniteSet({})
  BY FS_EmptySet
<1>3. [h EXCEPT ![e] = {}] \in [Email -> SUBSET Attempt]
  OBVIOUS
<1>4. ASSUME NEW o \in Email PROVE IsFiniteSet([h EXCEPT ![e] = {}][o])
  BY <1>1, <1>2
<1> QED BY <1>1, <1>3, <1>4

\* A request that is answered is free again.
LEMMA FreeIsRequest == Free \in Requests
  BY CounterAssumption, FirstFactorAssumption DEF Free, Requests, Steps

\* No row is written and nobody asks yet.
LEMMA FirstFactorInvInit == Init => FirstFactorInv
<1> SUFFICES ASSUME Init PROVE FirstFactorInv
  OBVIOUS
<1>1. NoRow \in Row /\ NoRow.failures <= Threshold
  BY CounterAssumption DEF NoRow, Row, Oldest
<1>2. email \in [Email -> Row] /\ source \in [Source -> Row] /\ active \subseteq Known
  BY <1>1 DEF Init
<1>3. req \in [Request -> Requests] /\ \A r \in Request : req[r].at = "idle"
  BY FreeIsRequest DEF Init, Free
<1>4. admitted \in [Email -> SUBSET Attempt] /\ cleared \subseteq Request
  BY DEF Init
<1>5. \A e \in Email : IsFiniteSet(admitted[e]) /\ email[e].failures <= Threshold
  BY <1>1, FS_EmptySet DEF Init
<1> QED
  BY <1>2, <1>3, <1>4, <1>5 DEF FirstFactorInv

\* One request moves: where it stands is all the invariant says of it.
LEMMA OneRequestMoves ==
  ASSUME FirstFactorInv, NEW r \in Request, NEW q \in Requests,
         q.at # "idle" => q.email \in Email /\ q.source \in Source,
         req' = [req EXCEPT ![r] = q]
  PROVE  /\ req' \in [Request -> Requests]
         /\ \A o \in Request : req'[o].at # "idle" => req'[o].email \in Email /\ req'[o].source \in Source
<1> HIDE DEF Requests
<1> QED
  BY DEF FirstFactorInv

\* What a request writes of itself, field by field.
LEMMA RequestWrites ==
  ASSUME NEW q \in Requests
  PROVE  /\ \A s \in Steps : [q EXCEPT !.at = s] \in Requests
         /\ \A s \in Steps, n \in 0 .. Threshold : [q EXCEPT !.at = s, !.failures = n] \in Requests
         /\ \A s \in Steps, b \in BOOLEAN : [q EXCEPT !.at = s, !.live = b] \in Requests
         /\ \A e \in Email, s \in Source : [Free EXCEPT !.at = "reserving", !.email = e, !.source = s] \in Requests
         /\ q.age < Life => [q EXCEPT !.age = @ + 1] \in Requests
         /\ q.at \in Steps /\ q.failures \in 0 .. Threshold /\ q.age \in 0 .. Life
<1>1. Life \in Nat
  BY FirstFactorAssumption
<1>2. \A s \in Steps : [q EXCEPT !.at = s] \in Requests
  BY ZenonT(30) DEF Requests
<1>3. \A s \in Steps, n \in 0 .. Threshold : [q EXCEPT !.at = s, !.failures = n] \in Requests
  BY ZenonT(30) DEF Requests
<1>4. \A s \in Steps, b \in BOOLEAN : [q EXCEPT !.at = s, !.live = b] \in Requests
  BY ZenonT(30) DEF Requests
<1>5. \A e \in Email, s \in Source : [Free EXCEPT !.at = "reserving", !.email = e, !.source = s] \in Requests
  <2>1. "reserving" \in Steps
    BY DEF Steps
  <2> QED
    BY <2>1, FreeIsRequest, ZenonT(30) DEF Requests
<1>6. q.at \in Steps /\ q.failures \in 0 .. Threshold /\ q.age \in 0 .. Life
  BY DEF Requests
<1>7. ASSUME q.age < Life PROVE [q EXCEPT !.age = @ + 1] \in Requests
  <2>1. q.age + 1 \in 0 .. Life
    BY <1>1, <1>6, <1>7
  <2> QED
    BY <2>1, ZenonT(30) DEF Requests
<1> QED
  BY <1>2, <1>3, <1>4, <1>5, <1>6, <1>7

\* A statement on one row of a counter: the other rows stay.
LEMMA OneRowWritten ==
  ASSUME NEW S, NEW t \in [S -> Row], NEW s \in S, NEW row \in Row
  PROVE  /\ [t EXCEPT ![s] = row] \in [S -> Row]
         /\ \A o \in S : [t EXCEPT ![s] = row][o] = IF o = s THEN row ELSE t[o]
<1> HIDE DEF Row
<1> QED
  OBVIOUS

\* What a step may do to the rows: a lock keeps its deadline but for time and a
\* success, and a source forgets only what is out of its window.
Rows ==
    /\ \A e \in Email : Locks(email[e], 0) => email'[e] = NoRow \/ email'[e].age >= email[e].age
    /\ \A s \in Source : source'[s].failures < source[s].failures => source[s].age >= Window

\* A request is only taken out of the history of clearings when it is answered.
LEMMA ClearingsServed ==
  ASSUME NEW r \in Request, Serve(r)
  PROVE  cleared \ {r} \subseteq cleared' /\ cleared' \subseteq cleared \cup Request
BY DEF Serve, Enter, ReserveEmail, Look, Judge, Refuse, Clear, Challenge, Drop, Goto, Answer, Trying

LEMMA ClearingsStay ==
  ASSUME [Next]_vars, \A r \in Request : ~Serve(r)
  PROVE  cleared' = cleared
BY DEF Next, Tick, SetStatus, vars

\* No action breaks the invariant or touches the rows otherwise.
LEMMA FirstFactorInvStep == FirstFactorInv /\ [Next]_vars => FirstFactorInv' /\ (Rows \/ UNCHANGED vars)
<1> SUFFICES ASSUME FirstFactorInv, [Next]_vars PROVE FirstFactorInv' /\ (Rows \/ UNCHANGED vars)
  OBVIOUS
<1>t. \A r \in Request : req[r] \in Requests
  BY DEF FirstFactorInv
<1>s. \A e \in Email : email[e] \in Row
  BY DEF FirstFactorInv
<1>o. \A s \in Source : source[s] \in Row
  BY DEF FirstFactorInv
<1>n. \A row \in Row : row.age \in Nat /\ row.failures \in Nat
  BY CounterAssumption DEF Row, Oldest
<1>c. cleared' \subseteq Request
  BY ClearingsServed, ClearingsStay DEF FirstFactorInv
<1>0. ASSUME NEW r \in Request, NEW q \in Requests, UNCHANGED <<email, source, active, admitted>>,
             q.at # "idle" => q.email \in Email /\ q.source \in Source, req' = [req EXCEPT ![r] = q]
      PROVE  FirstFactorInv' /\ Rows
  <2> HIDE DEF Requests, Row
  <2>1. /\ req' \in [Request -> Requests]
        /\ \A o \in Request : req'[o].at # "idle" => req'[o].email \in Email /\ req'[o].source \in Source
    BY <1>0, OneRequestMoves
  <2>2. FirstFactorInv'
    BY <2>1, <1>0, <1>c DEF FirstFactorInv
  <2>3. \A e \in Email : email'[e].age >= email[e].age
    BY <1>0, <1>s, <1>n
  <2>4. \A s \in Source : ~(source'[s].failures < source[s].failures)
    BY <1>0, <1>o, <1>n
  <2> QED
    BY <2>2, <2>3, <2>4 DEF Rows
<1>1. ASSUME Tick PROVE FirstFactorInv' /\ Rows
  <2>1. ASSUME NEW row \in Row
        PROVE Older(row) \in Row /\ Older(row).failures = row.failures /\ Older(row).age >= row.age
    <3>1. 0 \in 0 .. Patience
      BY CounterAssumption
    <3> QED
      BY <3>1, CounterRows
  <2>2. \A e \in Email : email'[e] = Older(email[e])
    BY <1>1 DEF Tick
  <2>3. \A s \in Source : source'[s] = Older(source[s])
    BY <1>1 DEF Tick
  <2>4. email' \in [Email -> Row] /\ source' \in [Source -> Row] /\ active' \subseteq Known
    BY <1>1, <2>1, <1>s, <1>o DEF Tick, FirstFactorInv
  <2>5. ASSUME NEW r \in Request
        PROVE  /\ req'[r] \in Requests
               /\ req'[r].at = req[r].at /\ req'[r].email = req[r].email /\ req'[r].source = req[r].source
    <3>1. CASE req[r].at = "idle"
      BY <3>1, <1>1, <1>t DEF Tick
    <3>2. CASE req[r].at # "idle"
      <4>1. req'[r] = [req[r] EXCEPT !.age = @ + 1] /\ req[r].age < Life
        BY <3>2, <1>1 DEF Tick
      <4>2. req'[r] \in Requests
        BY <4>1, <1>t, RequestWrites
      <4> QED
        BY <4>1, <4>2, <1>t DEF Requests
    <3> QED
      BY <3>1, <3>2
  <2>6. req' \in [Request -> Requests]
    <3> HIDE DEF Requests
    <3> QED
      BY <2>5, <1>1 DEF Tick
  <2>7. admitted' \in [Email -> SUBSET Attempt]
    <3>1. \A e \in Email : Aged(admitted[e]) \in SUBSET Attempt
      BY AgedAttempts DEF FirstFactorInv
    <3> QED
      BY <3>1, <1>1 DEF Tick
  <2>8. \A e \in Email : email'[e].failures <= Threshold /\ email'[e].age >= email[e].age
    BY <2>1, <2>2, <1>s DEF FirstFactorInv
  <2>11. \A e \in Email : IsFiniteSet(admitted'[e])
    BY <1>1, AgedAttempts DEF Tick, FirstFactorInv
  <2>9. \A s \in Source : ~(source'[s].failures < source[s].failures)
    BY <2>1, <2>3, <1>o, <1>n
  <2>10. \A r \in Request : req'[r].at # "idle" => req'[r].email \in Email /\ req'[r].source \in Source
    BY <2>5 DEF FirstFactorInv
  <2> HIDE DEF Requests, Row
  <2> QED
    BY <1>c, <2>4, <2>6, <2>7, <2>8, <2>9, <2>10, <2>11 DEF FirstFactorInv, Rows
<1>2. ASSUME NEW r \in Request, NEW e \in Email, NEW s \in Source, Enter(r, e, s) PROVE FirstFactorInv' /\ Rows
  <2> DEFINE q == [Free EXCEPT !.at = "reserving", !.email = e, !.source = s]
  <2>1. q \in Requests
    BY <1>t, RequestWrites
  <2>2. q.email = e /\ q.source = s
    BY DEF Free
  <2>3. req' = [req EXCEPT ![r] = q] /\ UNCHANGED <<email, source, active, admitted>>
    BY <1>2 DEF Enter
  <2> HIDE DEF q
  <2> QED
    BY <2>1, <2>2, <2>3, <1>0
<1>3. ASSUME NEW r \in Request, NEW now \in 0 .. Patience, ReserveEmail(r, now) PROVE FirstFactorInv' /\ Rows
  <2> DEFINE e == req[r].email
             row == Reserve(email[e], now)
             q == IF Admits(email[e], now) THEN [req[r] EXCEPT !.at = "looking", !.failures = row.failures] ELSE Free
  <2>1. e \in Email /\ req[r].source \in Source
    BY <1>3 DEF ReserveEmail, FirstFactorInv
  <2>2. row \in Row /\ row.failures <= Threshold /\ (Locks(email[e], 0) => row = email[e])
    BY <2>1, <1>s, CounterRows DEF FirstFactorInv
  <2>3. q \in Requests
    <3>1. row.failures \in 0 .. Threshold
      BY <2>2, <1>n, CounterAssumption
    <3>2. "looking" \in Steps
      BY DEF Steps
    <3> HIDE DEF row, e, Requests
    <3> QED
      BY <3>1, <3>2, <1>t, RequestWrites, FreeIsRequest
  <2>4. q.at # "idle" => q.email \in Email /\ q.source \in Source
    <3>1. CASE Admits(email[e], now)
      <4>1. q.email = req[r].email /\ q.source = req[r].source
        BY <3>1, <1>t DEF Requests
      <4> QED
        BY <4>1, <2>1
    <3>2. CASE ~Admits(email[e], now)
      BY <3>2 DEF Free
    <3> QED
      BY <3>1, <3>2
  <2>5. req' = [req EXCEPT ![r] = q]
    <3>1. CASE Admits(email[e], now)
      <4>1. req' = [req EXCEPT ![r].at = "looking", ![r].failures = row.failures]
        BY <3>1, <1>3 DEF ReserveEmail
      <4> HIDE DEF row, Requests
      <4> QED
        BY <3>1, <4>1, Zenon DEF FirstFactorInv
    <3>2. CASE ~Admits(email[e], now)
      BY <3>2, <1>3 DEF ReserveEmail, Answer
    <3> QED
      BY <3>1, <3>2
  <2>6. email' = [email EXCEPT ![e] = row] /\ UNCHANGED <<source, active>>
    BY <1>3 DEF ReserveEmail
  <2>7. admitted' \in [Email -> SUBSET Attempt] /\ \A o \in Email : IsFiniteSet(admitted'[o])
    <3>1. CASE Admits(email[e], now)
      <4>1. admitted' = [admitted EXCEPT ![e] = @ \cup {Newest(e, now)}]
        BY <3>1, <1>3 DEF ReserveEmail
      <4>2. admitted[e] \in SUBSET Attempt /\ IsFiniteSet(admitted[e])
        BY <2>1 DEF FirstFactorInv
      <4>3. Newest(e, now) \in Attempt
        BY <2>1, <4>2, NewestAttempt
      <4> HIDE DEF e
      <4> QED
        BY <4>1, <4>3, <2>1, HistoryWritten DEF FirstFactorInv
    <3>2. CASE ~Admits(email[e], now)
      BY <3>2, <1>3 DEF ReserveEmail, FirstFactorInv
    <3> QED
      BY <3>1, <3>2
  <2> HIDE DEF q, row
  <2>8. /\ req' \in [Request -> Requests]
        /\ \A o \in Request : req'[o].at # "idle" => req'[o].email \in Email /\ req'[o].source \in Source
    BY <2>3, <2>4, <2>5, OneRequestMoves
  <2>9. email' \in [Email -> Row] /\ \A o \in Email : email'[o] = IF o = e THEN row ELSE email[o]
    BY <2>1, <2>2, <2>6, OneRowWritten DEF FirstFactorInv
  <2>10. \A o \in Email : email'[o].failures <= Threshold
    BY <2>9, <2>2 DEF FirstFactorInv
  <2>11. \A o \in Email : Locks(email[o], 0) => email'[o].age >= email[o].age
    BY <2>9, <2>2, <1>s, <1>n
  <2>12. \A s \in Source : ~(source'[s].failures < source[s].failures)
    BY <2>6, <1>o, <1>n
  <2> HIDE DEF Requests, Row, e
  <2>13. FirstFactorInv'
    BY <1>c, <2>6, <2>7, <2>8, <2>9, <2>10 DEF FirstFactorInv
  <2> QED
    BY <2>11, <2>12, <2>13 DEF Rows
<1>4. ASSUME NEW r \in Request, Look(r) PROVE FirstFactorInv' /\ Rows
  <2> DEFINE q == [req[r] EXCEPT !.at = "hashing", !.live = req[r].email \in active]
  <2>1. q \in Requests
    <3>1. "hashing" \in Steps /\ (req[r].email \in active) \in BOOLEAN
      BY DEF Steps
    <3> QED
      BY <3>1, <1>t, RequestWrites
  <2>2. q.email \in Email /\ q.source \in Source
    <3>1. q.email = req[r].email /\ q.source = req[r].source
      BY <1>t DEF Requests
    <3> QED
      BY <3>1, <1>4 DEF Look, FirstFactorInv
  <2>3. req' = [req EXCEPT ![r] = q] /\ UNCHANGED <<email, source, active, admitted>>
    BY <1>4, Zenon DEF Look, FirstFactorInv
  <2> HIDE DEF q
  <2> QED
    BY <2>1, <2>2, <2>3, <1>0
<1>5. ASSUME NEW r \in Request, NEW s \in Steps, req[r].at # "idle", Goto(r, s),
             UNCHANGED <<email, source, active, admitted>>
      PROVE FirstFactorInv' /\ Rows
  <2> DEFINE q == [req[r] EXCEPT !.at = s]
  <2>1. q \in Requests
    BY <1>t, RequestWrites
  <2>2. q.email \in Email /\ q.source \in Source
    <3>1. q.email = req[r].email /\ q.source = req[r].source
      BY <1>t DEF Requests
    <3> QED
      BY <3>1, <1>5 DEF FirstFactorInv
  <2>3. req' = [req EXCEPT ![r] = q]
    BY <1>5, Zenon DEF Goto, FirstFactorInv
  <2> HIDE DEF q
  <2> QED
    BY <2>1, <2>2, <2>3, <1>0, <1>5
<1>6. ASSUME NEW r \in Request, NEW right \in BOOLEAN, Judge(r, right) PROVE FirstFactorInv' /\ Rows
  <2>1. (IF right /\ req[r].live THEN "clearing" ELSE "refusing") \in Steps
    BY DEF Steps
  <2> QED
    BY <2>1, <1>5, <1>6 DEF Judge
<1>7. ASSUME NEW r \in Request, NEW now \in 0 .. Patience, Refuse(r, now) PROVE FirstFactorInv' /\ Rows
  <2> DEFINE s == req[r].source
             row == Count(source[s], now)
  <2>1. s \in Source
    BY <1>7 DEF Refuse, FirstFactorInv
  <2>2. row \in Row /\ (row.failures < source[s].failures => source[s].age >= Window)
    BY <2>1, <1>o, CounterRows
  <2>3. source' = [source EXCEPT ![s] = row] /\ req' = [req EXCEPT ![r] = Free] /\ UNCHANGED <<email, active, admitted>>
    BY <1>7 DEF Refuse, Answer
  <2> HIDE DEF row, s
  <2>4. source' \in [Source -> Row] /\ \A o \in Source : source'[o] = IF o = s THEN row ELSE source[o]
    BY <2>1, <2>2, <2>3, OneRowWritten DEF FirstFactorInv
  <2>5. /\ req' \in [Request -> Requests]
        /\ \A o \in Request : req'[o].at # "idle" => req'[o].email \in Email /\ req'[o].source \in Source
    BY <2>3, FreeIsRequest, OneRequestMoves DEF Free
  <2>6. \A o \in Source : source'[o].failures < source[o].failures => source[o].age >= Window
    BY <2>4, <2>2, <1>o, <1>n
  <2>7. \A e \in Email : email'[e].age >= email[e].age
    BY <2>3, <1>s, <1>n
  <2> HIDE DEF Requests, Row
  <2>8. FirstFactorInv'
    BY <1>c, <2>3, <2>4, <2>5 DEF FirstFactorInv
  <2> QED
    BY <2>6, <2>7, <2>8 DEF Rows
<1>8. ASSUME NEW r \in Request, Clear(r) PROVE FirstFactorInv' /\ Rows
  <2> DEFINE e == req[r].email
             q == [req[r] EXCEPT !.at = "challenging"]
  <2>1. e \in Email /\ req[r].source \in Source
    BY <1>8 DEF Clear, FirstFactorInv
  <2>2. q \in Requests
    <3>1. "challenging" \in Steps
      BY DEF Steps
    <3> QED
      BY <3>1, <1>t, RequestWrites
  <2>3. q.email \in Email /\ q.source \in Source
    BY <2>1, <1>t DEF Requests
  <2>4. req' = [req EXCEPT ![r] = q]
    BY <1>8, Zenon DEF Clear, Goto, FirstFactorInv
  <2>5. NoRow \in Row /\ NoRow.failures <= Threshold
    BY CounterAssumption DEF NoRow, Row, Oldest
  <2>6. /\ email' = [email EXCEPT ![e] = NoRow] /\ UNCHANGED <<source, active>>
        /\ admitted' = [admitted EXCEPT ![e] = {}]
    BY <1>8 DEF Clear
  <2> HIDE DEF q, e
  <2>7. /\ req' \in [Request -> Requests]
        /\ \A o \in Request : req'[o].at # "idle" => req'[o].email \in Email /\ req'[o].source \in Source
    BY <2>2, <2>3, <2>4, OneRequestMoves
  <2>8. email' \in [Email -> Row] /\ \A o \in Email : email'[o] = IF o = e THEN NoRow ELSE email[o]
    BY <2>1, <2>5, <2>6, OneRowWritten DEF FirstFactorInv
  <2>9. admitted' \in [Email -> SUBSET Attempt] /\ \A o \in Email : IsFiniteSet(admitted'[o])
    BY <2>1, <2>6, HistoryCleared DEF FirstFactorInv
  <2>10. \A o \in Email : email'[o].failures <= Threshold
    BY <2>8, <2>5 DEF FirstFactorInv
  <2>11. \A o \in Email : email'[o] = NoRow \/ email'[o].age >= email[o].age
    BY <2>8, <1>s, <1>n
  <2>12. \A s \in Source : ~(source'[s].failures < source[s].failures)
    BY <2>6, <1>o, <1>n
  <2> HIDE DEF Requests, Row
  <2>13. FirstFactorInv'
    BY <1>c, <2>6, <2>7, <2>8, <2>9, <2>10 DEF FirstFactorInv
  <2> QED
    BY <2>11, <2>12, <2>13 DEF Rows
<1>9. ASSUME NEW r \in Request, Answer(r), UNCHANGED <<email, source, active, admitted>> PROVE FirstFactorInv' /\ Rows
  <2>1. req' = [req EXCEPT ![r] = Free] /\ Free.at = "idle"
    BY <1>9 DEF Answer, Free
  <2> QED
    BY <2>1, <1>0, <1>9, FreeIsRequest
<1>10. ASSUME NEW e \in Email, SetStatus(e) PROVE FirstFactorInv' /\ Rows
  <2>1. active' \subseteq Known /\ UNCHANGED <<email, source, req, admitted>>
    BY <1>10 DEF SetStatus, FirstFactorInv
  <2> HIDE DEF Requests, Row
  <2>2. FirstFactorInv'
    BY <1>c, <2>1 DEF FirstFactorInv
  <2>3. \A o \in Email : email'[o].age >= email[o].age
    BY <2>1, <1>s, <1>n
  <2>4. \A s \in Source : ~(source'[s].failures < source[s].failures)
    BY <2>1, <1>o, <1>n
  <2> QED
    BY <2>2, <2>3, <2>4 DEF Rows
<1>11. CASE UNCHANGED vars
  BY <1>11 DEF vars, FirstFactorInv
<1>12. ASSUME NEW r \in Request, Serve(r) PROVE FirstFactorInv' /\ Rows
  <2>1. ASSUME Challenge(r) PROVE FirstFactorInv' /\ Rows
    BY <2>1, <1>9 DEF Challenge
  <2>2. ASSUME Drop(r) PROVE FirstFactorInv' /\ Rows
    BY <2>2, <1>9 DEF Drop
  <2> QED
    BY <2>1, <2>2, <1>2, <1>3, <1>4, <1>6, <1>7, <1>8, <1>12 DEF Serve
<1> QED
  BY <1>1, <1>10, <1>11, <1>12 DEF Next

\* What the steps keep, every behaviour keeps.
LEMMA FirstFactorInvariant == Spec => []FirstFactorInv
<1>1. FirstFactorInv /\ [Next]_vars => FirstFactorInv'
  BY FirstFactorInvStep
<1> QED
  BY FirstFactorInvInit, <1>1, PTL DEF Spec

\* The rows, the requests and the history stay of their types.
THEOREM FirstFactorTypes == Spec => []TypeOK
<1>1. FirstFactorInv => TypeOK
  BY DEF FirstFactorInv, TypeOK, Requests
<1> QED
  BY <1>1, FirstFactorInvariant, PTL

\* Whoever keeps trying does not keep an address closed: while it is locked, no
\* statement moves its deadline, but the success of its owner (counters.go, reserve).
THEOREM LockDeadlineIsKept == Spec => LockDeadlineHolds
<1>1. FirstFactorInv /\ [Next]_vars =>
        [\A e \in Email : Locks(email[e], 0) => email'[e] = NoRow \/ email'[e].age >= email[e].age]_vars
  BY FirstFactorInvStep DEF Rows
<1> QED
  BY <1>1, FirstFactorInvariant, PTL DEF Spec, LockDeadlineHolds

\* A success, on whatever address, forgives nothing of the source it comes from
\* (logins.go, ClearFailures): a source forgets with time alone.
THEOREM SourceIsNotForgiven == Spec => SourceOnlyForgets
<1>1. FirstFactorInv /\ [Next]_vars =>
        [\A s \in Source : source'[s].failures < source[s].failures => source[s].age >= Window]_vars
  BY FirstFactorInvStep DEF Rows
<1> QED
  BY <1>1, FirstFactorInvariant, PTL DEF Spec, SourceOnlyForgets

----------------------------------------------------------------------------
(* The attempts on an address.  What a row counts and what its history holds move together,
   and a row starts again only where its history is out of the bound. *)

\* What was admitted before the window forgot it is older than what AttemptsBounded looks at.
Counted ==
    \A e \in Email :
        /\ AdmittedWithin(e, Window - Patience) <= email[e].failures
        /\ \A a \in admitted[e] : email[e].age <= a.age + Patience

\* A request moves alone, and who is answered stands nowhere.
LEMMA OthersStay ==
  ASSUME FirstFactorInv, NEW r \in Request, Serve(r)
  PROVE  \A o \in Request : o # r => req'[o] = req[o]
<1>1. req \in [Request -> Requests]
  BY DEF FirstFactorInv
<1> HIDE DEF Requests
<1>2. CASE \E now \in 0 .. Patience : ReserveEmail(r, now)
  BY <1>1, <1>2 DEF ReserveEmail, Answer
<1>3. CASE \E e \in Email, s \in Source : Enter(r, e, s)
  BY <1>1, <1>3 DEF Enter
<1>4. CASE Look(r) \/ (\E right \in BOOLEAN : Judge(r, right)) \/ Clear(r)
  BY <1>1, <1>4 DEF Look, Judge, Clear, Goto
<1>5. CASE (\E now \in 0 .. Patience : Refuse(r, now)) \/ Challenge(r) \/ Drop(r)
  BY <1>1, <1>5 DEF Refuse, Challenge, Drop, Answer
<1> QED BY <1>2, <1>3, <1>4, <1>5 DEF Serve

\* How a step moves the row of an address and its history, together.
Moves(e) ==
    \/ email'[e] = email[e] /\ admitted'[e] = admitted[e]
    \/ email'[e] = NoRow /\ admitted'[e] = {} /\ Trying(e) \subseteq cleared'
    \/ \E now \in 0 .. Patience : /\ Admits(email[e], now)
                                  /\ email'[e] = Count(email[e], now)
                                  /\ admitted'[e] = admitted[e] \cup {Newest(e, now)}

LEMMA HistoryMoves ==
  ASSUME FirstFactorInv, [Next]_vars, ~Tick, NEW e \in Email
  PROVE  Moves(e)
<1>0. email \in [Email -> Row] /\ admitted \in [Email -> SUBSET Attempt]
  BY DEF FirstFactorInv
<1>1. CASE UNCHANGED <<email, admitted>>
  BY <1>1 DEF Moves
<1>2. ASSUME NEW r \in Request, NEW now \in 0 .. Patience, ReserveEmail(r, now) PROVE Moves(e)
  <2>1. req[r].email \in Email
    BY <1>2 DEF ReserveEmail, FirstFactorInv
  <2>2. email' = [email EXCEPT ![req[r].email] = Reserve(email[req[r].email], now)]
    BY <1>2 DEF ReserveEmail
  <2>3. CASE e # req[r].email
    <3>1. email'[e] = email[e]
      BY <1>0, <2>2, <2>3
    <3>2. admitted'[e] = admitted[e]
      BY <1>0, <1>2, <2>3 DEF ReserveEmail
    <3> QED BY <3>1, <3>2 DEF Moves
  <2>4. CASE e = req[r].email /\ Admits(email[e], now)
    <3>1. email'[e] = Count(email[e], now)
      BY <1>0, <2>1, <2>2, <2>4 DEF Reserve
    <3>2. admitted' = [admitted EXCEPT ![e] = @ \cup {Newest(e, now)}]
      BY <1>2, <2>4 DEF ReserveEmail
    <3>3. admitted'[e] = admitted[e] \cup {Newest(e, now)}
      BY <1>0, <3>2
    <3> QED BY <2>4, <3>1, <3>3 DEF Moves
  <2>5. CASE e = req[r].email /\ ~Admits(email[e], now)
    <3>1. email'[e] = email[e]
      BY <1>0, <2>1, <2>2, <2>5 DEF Reserve, Refused
    <3>2. admitted' = admitted
      BY <1>2, <2>5 DEF ReserveEmail
    <3> QED BY <3>1, <3>2 DEF Moves
  <2> QED BY <2>3, <2>4, <2>5
<1>3. ASSUME NEW r \in Request, Clear(r) PROVE Moves(e)
  <2>1. /\ email' = [email EXCEPT ![req[r].email] = NoRow]
        /\ admitted' = [admitted EXCEPT ![req[r].email] = {}]
        /\ Trying(req[r].email) \subseteq cleared'
    BY <1>3 DEF Clear
  <2>2. CASE e = req[r].email
    BY <1>0, <2>1, <2>2 DEF Moves
  <2>3. CASE e # req[r].email
    BY <1>0, <2>1, <2>3 DEF Moves
  <2> QED BY <2>2, <2>3
<1>4. ASSUME NEW r \in Request, Serve(r) PROVE Moves(e)
  BY <1>1, <1>2, <1>3, <1>4 DEF Serve, Enter, Look, Judge, Refuse, Challenge, Drop
<1>5. CASE \E o \in Email : SetStatus(o)
  BY <1>1, <1>5 DEF SetStatus
<1>6. CASE UNCHANGED vars
  BY <1>1, <1>6 DEF vars
<1> QED BY <1>4, <1>5, <1>6 DEF Next

\* One attempt more is one more at most, whatever the bound.
LEMMA OneMore ==
  ASSUME NEW S \in SUBSET Attempt, IsFiniteSet(S), NEW a \in Attempt, NEW n \in Nat
  PROVE  /\ Cardinality({x \in S \cup {a} : x.age < n}) <= Cardinality({x \in S : x.age < n}) + 1
         /\ Cardinality({x \in S \cup {a} : x.age < n}) \in Nat
         /\ Cardinality({x \in S : x.age < n}) \in Nat
         /\ Cardinality({x \in S : x.age < n}) <= Cardinality(S)
<1> DEFINE old == {x \in S : x.age < n}
           new == {x \in S \cup {a} : x.age < n}
<1>1. IsFiniteSet(old) /\ Cardinality(old) \in Nat /\ Cardinality(old) <= Cardinality(S)
  BY FS_Subset, FS_CardinalityType
<1>2. new = old \/ new = old \cup {a}
  OBVIOUS
<1>3. IsFiniteSet(old \cup {a}) /\ Cardinality(old \cup {a}) \in {Cardinality(old), Cardinality(old) + 1}
  BY <1>1, FS_AddElement
<1> HIDE DEF old, new
<1>4. Cardinality(new) \in Nat /\ Cardinality(new) <= Cardinality(old) + 1
  BY <1>1, <1>2, <1>3
<1> QED BY <1>1, <1>4 DEF old, new

\* A row that admits either counts on, or starts again when its window has passed.
LEMMA RowCounts ==
  ASSUME NEW row \in Row, NEW now \in 0 .. Patience, Admits(row, now)
  PROVE  /\ Count(row, now).age = now
         /\ \/ Count(row, now).failures = 1 /\ row.age >= Window + now
            \/ Count(row, now).failures = row.failures + 1 /\ row.failures < Threshold /\ row.age < Window + now
         /\ NoRow.failures = 0 /\ NoRow.age = Window + Patience
<1>1. row.failures \in Nat /\ row.age \in Nat /\ now \in Nat /\ Window \in Nat
  BY CounterAssumption DEF Row, Oldest
<1>2. CASE row.age >= Window + now
  BY <1>1, <1>2 DEF Count, Forgotten, NoRow, Oldest
<1>3. CASE ~(row.age >= Window + now)
  <2>1. row.failures < Threshold
    BY <1>3 DEF Admits, Forgotten
  <2>2. Count(row, now) = [failures |-> row.failures + 1, age |-> now]
    BY <1>3 DEF Count, Forgotten
  <2> QED BY <1>1, <1>3, <2>1, <2>2 DEF NoRow, Oldest
<1> QED BY <1>2, <1>3

\* What a step of the row and of the history does to the bound.
LEMMA CountedMoves ==
  ASSUME FirstFactorInv, Counted, NEW e \in Email, Moves(e)
  PROVE  /\ Cardinality({a \in admitted'[e] : a.age < Window - Patience}) <= email'[e].failures
         /\ \A a \in admitted'[e] : email'[e].age <= a.age + Patience
<1> DEFINE row == email[e]
           bound == Window - Patience
           n == Cardinality({a \in admitted[e] : a.age < bound})
<1>0. bound \in Nat /\ Patience \in Nat /\ Window \in Nat /\ bound + Patience = Window
  BY CounterAssumption
<1>1. row \in Row /\ admitted[e] \in SUBSET Attempt /\ IsFiniteSet(admitted[e])
  BY DEF FirstFactorInv
<1>2. row.failures \in Nat /\ row.age \in Nat
  BY <1>1, CounterAssumption DEF Row, Oldest
<1>3. n <= row.failures /\ \A a \in admitted[e] : row.age <= a.age + Patience
  BY DEF Counted, AdmittedWithin
<1>4. CASE email'[e] = email[e] /\ admitted'[e] = admitted[e]
  BY <1>3, <1>4
<1>5. CASE email'[e] = NoRow /\ admitted'[e] = {}
  <2>1. {a \in {} : a.age < bound} = {} /\ NoRow.failures = 0
    BY DEF NoRow
  <2> QED BY <1>5, <2>1, FS_EmptySet
<1>6. ASSUME NEW now \in 0 .. Patience, Admits(row, now), email'[e] = Count(row, now),
             admitted'[e] = admitted[e] \cup {Newest(e, now)}
      PROVE  /\ Cardinality({a \in admitted'[e] : a.age < bound}) <= email'[e].failures
             /\ \A a \in admitted'[e] : email'[e].age <= a.age + Patience
  <2> DEFINE m == Cardinality({a \in admitted'[e] : a.age < bound})
  <2>1. Newest(e, now) \in Attempt /\ Newest(e, now).age = now
    BY <1>1, NewestAttempt DEF Newest
  <2>2. m \in Nat /\ n \in Nat /\ m <= n + 1
    BY <1>0, <1>1, <1>6, <2>1, OneMore
  <2>3. \A a \in admitted'[e] : a \in Attempt /\ a.age \in Nat
    BY <1>1, <1>6, <2>1, CounterAssumption DEF Attempt
  <2>4. Count(row, now).age = now
    BY <1>1, <1>6, RowCounts
  <2>5. \A a \in admitted'[e] : email'[e].age <= a.age + Patience
    BY <1>0, <1>6, <2>3, <2>4
  <2>6. CASE Count(row, now).failures = 1 /\ row.age >= Window + now
    <3>1. \A a \in admitted[e] : a.age \in Nat /\ ~(a.age < bound)
      BY <1>0, <1>1, <1>2, <1>3, <2>3, <2>6, <1>6
    <3>2. {a \in admitted[e] : a.age < bound} = {}
      BY <3>1
    <3>3. n = 0
      BY <3>2, FS_EmptySet
    <3> HIDE DEF m, n
    <3>4. m <= 1
      BY <2>2, <3>3
    <3> QED BY <1>6, <2>5, <2>6, <3>4 DEF m
  <2>7. CASE Count(row, now).failures = row.failures + 1
    <3> HIDE DEF m, n, row
    <3>1. m <= row.failures + 1
      BY <1>2, <1>3, <2>2
    <3> QED BY <1>6, <2>5, <2>7, <3>1 DEF m
  <2> QED BY <1>1, <1>6, <2>6, <2>7, RowCounts
<1> QED BY <1>4, <1>5, <1>6 DEF Moves

\* The window passes for the row and for its history alike.
LEMMA CountedAges ==
  ASSUME FirstFactorInv, Counted, Tick, NEW e \in Email
  PROVE  /\ Cardinality({a \in admitted'[e] : a.age < Window - Patience}) <= email'[e].failures
         /\ \A a \in admitted'[e] : email'[e].age <= a.age + Patience
<1> DEFINE row == email[e]
           bound == Window - Patience
<1>0. bound \in Nat /\ Patience \in Nat /\ Window \in Nat
  BY CounterAssumption
<1>1. row \in Row /\ admitted[e] \in SUBSET Attempt /\ IsFiniteSet(admitted[e])
  BY DEF FirstFactorInv
<1>2. row.failures \in Nat /\ row.age \in Nat
  BY <1>1, CounterAssumption DEF Row, Oldest
<1>3. /\ Cardinality({a \in admitted[e] : a.age < bound}) <= row.failures
      /\ \A a \in admitted[e] : row.age <= a.age + Patience
  BY DEF Counted, AdmittedWithin
<1>4. email'[e] = Older(row) /\ admitted'[e] = Aged(admitted[e])
  BY DEF Tick
<1>5. Older(row).failures = row.failures /\ Older(row).age <= row.age + 1 /\ Older(row).age \in Nat
  BY <1>1, <1>2 DEF Older, Row
<1>6. /\ Cardinality({a \in Aged(admitted[e]) : a.age < bound}) <= Cardinality({a \in admitted[e] : a.age < bound})
      /\ \A a \in Aged(admitted[e]) : \E b \in admitted[e] : a.age = b.age + 1
  BY <1>0, <1>1, AgedAttempts
<1>7. ASSUME NEW a \in admitted'[e] PROVE email'[e].age <= a.age + Patience
  <2>1. PICK b \in admitted[e] : a.age = b.age + 1
    BY <1>4, <1>6
  <2>2. b.age \in Nat /\ row.age <= b.age + Patience
    BY <1>1, <1>3, CounterAssumption DEF Attempt
  <2> HIDE DEF row
  <2> QED BY <1>0, <1>2, <1>4, <1>5, <2>1, <2>2
<1>8. Cardinality({a \in admitted[e] : a.age < bound}) \in Nat
      /\ Cardinality({a \in Aged(admitted[e]) : a.age < bound}) \in Nat
  <2>1. IsFiniteSet(Aged(admitted[e]))
    BY <1>1, AgedAttempts
  <2> QED BY <1>1, <2>1, FS_Subset, FS_CardinalityType
<1> QED BY <1>2, <1>3, <1>4, <1>5, <1>6, <1>7, <1>8

\* Hence it is kept by every step.
LEMMA CountedStep == FirstFactorInv /\ Counted /\ [Next]_vars => Counted'
<1> SUFFICES ASSUME FirstFactorInv, Counted, [Next]_vars, NEW e \in Email
             PROVE  /\ Cardinality({a \in admitted'[e] : a.age < Window - Patience}) <= email'[e].failures
                    /\ \A a \in admitted'[e] : email'[e].age <= a.age + Patience
  BY DEF Counted, AdmittedWithin
<1>1. CASE Tick
  BY <1>1, CountedAges
<1>2. CASE ~Tick
  BY <1>2, HistoryMoves, CountedMoves
<1> QED BY <1>1, <1>2

\* Nobody has tried yet.
LEMMA CountedInit == Init => Counted
<1> SUFFICES ASSUME Init, NEW e \in Email
             PROVE  /\ Cardinality({a \in admitted[e] : a.age < Window - Patience}) <= email[e].failures
                    /\ \A a \in admitted[e] : email[e].age <= a.age + Patience
  BY DEF Counted, AdmittedWithin
<1>1. admitted[e] = {} /\ email[e].failures = 0
  BY DEF Init, NoRow
<1>2. {a \in {} : a.age < Window - Patience} = {}
  OBVIOUS
<1> QED BY <1>1, <1>2, FS_EmptySet

\* Whatever requests run together, an address whose owner does not log in gives no more
\* than Threshold password checks in a window, less the wait of a statement (counters.go,
\* reserve).
THEOREM AttemptsAreBounded == Spec => []AttemptsBounded
<1>1. FirstFactorInv /\ Counted => AttemptsBounded
  <2> SUFFICES ASSUME FirstFactorInv, Counted, NEW e \in Email
               PROVE  AdmittedWithin(e, Window - Patience) <= Threshold
    BY DEF AttemptsBounded
  <2>1. email[e].failures <= Threshold /\ email[e].failures \in Nat /\ Threshold \in Nat
    BY CounterAssumption DEF FirstFactorInv, Row
  <2>2. AdmittedWithin(e, Window - Patience) \in Nat
    <3>1. IsFiniteSet(admitted[e])
      BY DEF FirstFactorInv
    <3> QED BY <3>1, FS_Subset, FS_CardinalityType DEF AdmittedWithin
  <2>3. AdmittedWithin(e, Window - Patience) <= email[e].failures
    BY DEF Counted
  <2> QED BY <2>1, <2>2, <2>3
<1> QED BY <1>1, FirstFactorInvariant, CountedInit, CountedStep, PTL DEF Spec

\* The attempts of one age are told apart by their number: the history merges none.
SameAge(S, n) == {b \in S : b.age = n}
Numbered(S) == \A a \in S : a.nth < Cardinality(SameAge(S, a.age))
Distinct == \A e \in Email : Numbered(admitted[e])

LEMMA NewestIsNew ==
  ASSUME FirstFactorInv, NEW e \in Email, Numbered(admitted[e]), NEW now \in 0 .. Patience
  PROVE  /\ Newest(e, now) \notin admitted[e]
         /\ Numbered(admitted[e] \cup {Newest(e, now)})
<1> DEFINE S == admitted[e]
           new == Newest(e, now)
           k == Cardinality(SameAge(S, now))
<1>1. S \in SUBSET Attempt /\ IsFiniteSet(S)
  BY DEF FirstFactorInv
<1>2. new.age = now /\ new.nth = k
  BY DEF Newest, SameAge
<1>3. IsFiniteSet(SameAge(S, now)) /\ k \in Nat
  BY <1>1, FS_Subset, FS_CardinalityType DEF SameAge
<1>4. new \notin S
  <2>1. new \in S => k < k
    BY <1>2 DEF Numbered
  <2> HIDE DEF k
  <2> QED BY <1>3, <2>1
<1>5. ASSUME NEW a \in S \cup {new} PROVE a.nth < Cardinality(SameAge(S \cup {new}, a.age))
  <2>1. CASE a.age = now
    <3>1. SameAge(S \cup {new}, now) = SameAge(S, now) \cup {new} /\ new \notin SameAge(S, now)
      BY <1>2, <1>4 DEF SameAge
    <3>2. Cardinality(SameAge(S \cup {new}, now)) = k + 1
      BY <1>3, <3>1, FS_AddElement
    <3>3. a.nth = k \/ (a \in S /\ a.nth < k)
      BY <1>2, <2>1 DEF Numbered
    <3>4. a \in S => a.nth \in Nat
      BY <1>1 DEF Attempt
    <3> HIDE DEF k, S, new
    <3>5. a.nth < k + 1
      BY <1>3, <3>3, <3>4
    <3> QED BY <2>1, <3>2, <3>5
  <2>2. CASE a.age # now
    <3>1. a \in S /\ SameAge(S \cup {new}, a.age) = SameAge(S, a.age)
      BY <1>2, <2>2 DEF SameAge
    <3> QED BY <3>1 DEF Numbered
  <2> QED BY <2>1, <2>2
<1>6. Numbered(S \cup {new})
  BY <1>5 DEF Numbered
<1> QED BY <1>4, <1>6

LEMMA AgedAreNumbered ==
  ASSUME NEW S \in SUBSET Attempt, IsFiniteSet(S), Numbered(S)
  PROVE  Numbered(Aged(S))
<1> DEFINE older(a) == [a EXCEPT !.age = @ + 1]
<1>1. ASSUME NEW a \in Attempt, a.age < Window
      PROVE older(a).age = a.age + 1 /\ older(a).nth = a.nth /\ a.age \in Nat
  BY CounterAssumption DEF Attempt
<1>2. ASSUME NEW a \in Aged(S) PROVE a.nth < Cardinality(SameAge(Aged(S), a.age))
  <2>1. PICK b \in S : b.age < Window /\ a = older(b)
    BY <1>2 DEF Aged
  <2> DEFINE from == SameAge(S, b.age)
             to == SameAge(Aged(S), a.age)
             f == [x \in from |-> older(x)]
  <2>2. a.age = b.age + 1 /\ a.nth = b.nth /\ b.age \in Nat
    BY <1>1, <2>1
  <2>3. \A x \in from : x \in S /\ x \in Attempt /\ x.age = b.age /\ older(x) \in to
    <3> SUFFICES ASSUME NEW x \in from PROVE x \in S /\ x \in Attempt /\ x.age = b.age /\ older(x) \in to
      OBVIOUS
    <3>1. x \in S /\ x \in Attempt /\ x.age = b.age
      BY DEF SameAge
    <3>2. older(x) \in Aged(S)
      BY <2>1, <3>1 DEF Aged
    <3>3. older(x).age = a.age
      BY <1>1, <2>1, <2>2, <3>1
    <3> QED BY <3>1, <3>2, <3>3 DEF SameAge
  <2>4. ASSUME NEW y \in to PROVE \E x \in from : y = older(x)
    <3>1. PICK x \in S : x.age < Window /\ y = older(x)
      BY <2>4 DEF SameAge, Aged
    <3>2. y.age = x.age + 1 /\ x.age \in Nat /\ y.age = a.age
      BY <1>1, <3>1 DEF SameAge
    <3>3. x.age = b.age
      BY <2>2, <3>2
    <3> QED BY <3>1, <3>3 DEF SameAge
  <2>5. ASSUME NEW x \in from, NEW y \in from, older(x) = older(y) PROVE x = y
    <3>1. x \in Attempt /\ y \in Attempt /\ x.age = y.age
      BY <2>3
    <3>2. x.nth = y.nth
      BY <1>1, <2>1, <2>3, <2>5
    <3> QED BY <3>1, <3>2 DEF Attempt
  <2> HIDE DEF from, to, older
  <2>6. f \in Surjection(from, to) /\ f \in Injection(from, to)
    BY <2>3, <2>4, <2>5 DEF Surjection, Injection, IsInjective
  <2>7. IsFiniteSet(from)
    BY FS_Subset DEF from, SameAge
  <2>8. Cardinality(to) = Cardinality(from)
    BY <2>6, <2>7, FS_Surjection
  <2> QED BY <2>2, <2>8 DEF from, to, Numbered
<1> QED BY <1>2 DEF Numbered

LEMMA DistinctStep == FirstFactorInv /\ Distinct /\ [Next]_vars => Distinct'
<1> SUFFICES ASSUME FirstFactorInv, Distinct, [Next]_vars, NEW e \in Email PROVE Numbered(admitted'[e])
  BY DEF Distinct, Numbered, SameAge
<1>0. admitted[e] \in SUBSET Attempt /\ IsFiniteSet(admitted[e]) /\ Numbered(admitted[e])
  BY DEF FirstFactorInv, Distinct
<1>1. CASE Tick
  BY <1>0, <1>1, AgedAreNumbered DEF Tick
<1>2. CASE ~Tick
  <2>1. Numbered({})
    BY DEF Numbered
  <2>2. \A now \in 0 .. Patience : Numbered(admitted[e] \cup {Newest(e, now)})
    BY <1>0, NewestIsNew
  <2>3. Moves(e)
    BY <1>2, HistoryMoves
  <2> QED BY <1>0, <2>1, <2>2, <2>3 DEF Moves
<1> QED BY <1>1, <1>2

\* Each admission is one attempt more in the history the bounds count (counters.go, reserve:
\* admitted).
AdmissionsCount ==
    [][\A r \in Request : req[r].at = "reserving" /\ req'[r].at = "looking" =>
          Cardinality(admitted'[req[r].email]) = Cardinality(admitted[req[r].email]) + 1]_vars

\* No attempt is merged with another, or forgotten by the history as it is admitted: what
\* AttemptsBounded counts is every password check.
LEMMA AdmissionsAreCounted == Spec => AdmissionsCount
<1> DEFINE P == \A r \in Request : req[r].at = "reserving" /\ req'[r].at = "looking" =>
                    Cardinality(admitted'[req[r].email]) = Cardinality(admitted[req[r].email]) + 1
<1>1. Init => Distinct
  BY DEF Init, Distinct, Numbered
<1>2. FirstFactorInv /\ Distinct /\ [Next]_vars => [P]_vars
  <2> SUFFICES ASSUME FirstFactorInv, Distinct, Next, NEW r \in Request, req[r].at = "reserving", req'[r].at = "looking"
               PROVE  Cardinality(admitted'[req[r].email]) = Cardinality(admitted[req[r].email]) + 1
    OBVIOUS
  <2>0. req \in [Request -> Requests] /\ req[r] \in Requests
    BY DEF FirstFactorInv
  <2>1. ~Tick /\ \A o \in Email : ~SetStatus(o)
    BY <2>0 DEF Tick, SetStatus, Requests
  <2>2. Serve(r)
    BY <2>1, OthersStay DEF Next
  <2>3. PICK now \in 0 .. Patience : ReserveEmail(r, now)
    <3>1. ~Answer(r)
      BY <2>0 DEF Answer, Free
    <3> QED BY <2>2, <3>1 DEF Serve, Enter, Look, Judge, Refuse, Clear, Challenge, Drop
  <2> DEFINE e == req[r].email
  <2>4. e \in Email /\ admitted \in [Email -> SUBSET Attempt] /\ IsFiniteSet(admitted[e]) /\ Numbered(admitted[e])
    BY DEF FirstFactorInv, Distinct
  <2>5. admitted' = [admitted EXCEPT ![e] = @ \cup {Newest(e, now)}]
    <3>1. ~Answer(r)
      BY <2>0 DEF Answer, Free
    <3> QED BY <2>3, <3>1 DEF ReserveEmail
  <2>6. Newest(e, now) \notin admitted[e]
    BY <2>4, NewestIsNew
  <2>7. admitted'[e] = admitted[e] \cup {Newest(e, now)}
    BY <2>4, <2>5
  <2> QED BY <2>4, <2>6, <2>7, FS_AddElement
<1> QED BY <1>1, <1>2, FirstFactorInvariant, DistinctStep, PTL DEF Spec, AdmissionsCount

----------------------------------------------------------------------------
(* The lock a request announces.  It lives less than a window: what it locked is locked
   still, unless a success cleared it, which the request is then known to have seen. *)

\* The row was written, if ever, while a request of that age lived.
Since(row, age) == row.age <= age + Patience

LockedSince(row, age) == row.failures >= Threshold /\ Since(row, age)

\* The request reserved the attempt that reached the threshold.
Reached(r) == req[r].at \in {"looking", "hashing", "refusing"} /\ req[r].failures >= Threshold

Announcing ==
    \A r \in Request \ cleared : Reached(r) => LockedSince(email[req[r].email], req[r].age)

\* Such a row is locked, admits nothing and ages with the request.
LEMMA LockLasts ==
  ASSUME NEW row \in Row, NEW age \in 0 .. Life, LockedSince(row, age)
  PROVE  /\ Locks(row, 0)
         /\ \A now \in 0 .. Patience : ~Admits(row, now)
         /\ LockedSince(Older(row), age + 1)
<1>1. /\ row.failures \in Nat /\ row.age \in Nat /\ age \in Nat /\ Window \in Nat /\ Patience \in Nat /\ Life \in Nat
      /\ Threshold \in Nat /\ age <= Life /\ Life + Patience < Window
  BY CounterAssumption, FirstFactorAssumption DEF Row, Oldest
<1>2. row.failures >= Threshold /\ row.age <= age + Patience /\ row.age < Window
  BY <1>1 DEF LockedSince, Since
<1>3. Locks(row, 0)
  BY <1>1, <1>2 DEF Locks, Forgotten
<1>4. \A now \in 0 .. Patience : ~Admits(row, now)
  BY <1>1, <1>2 DEF Admits, Forgotten
<1>5. Older(row).failures = row.failures /\ Older(row).age <= row.age + 1 /\ Older(row).age \in Nat
  BY <1>1 DEF Older, Row
<1>6. LockedSince(Older(row), age + 1)
  BY <1>1, <1>2, <1>5 DEF LockedSince, Since
<1> QED BY <1>3, <1>4, <1>6

\* Who reached the threshold was told so by its own reservation, or had been before.
LEMMA ReachedHow ==
  ASSUME FirstFactorInv, [Next]_vars, ~Tick, NEW r \in Request, Reached(r)'
  PROVE  /\ req'[r].email \in Email /\ req'[r].age \in 0 .. Life
         /\ \/ /\ Reached(r) /\ req'[r].email = req[r].email /\ req'[r].age = req[r].age
               /\ r \in cleared => r \in cleared'
            \/ LockedSince(email'[req'[r].email], req'[r].age)
<1>0. req \in [Request -> Requests] /\ req[r] \in Requests
  BY DEF FirstFactorInv
<1>i. FirstFactorInv'
  BY FirstFactorInvStep
<1>a. req'[r].email \in Email /\ req'[r].age \in 0 .. Life
  BY <1>i DEF FirstFactorInv, Reached, Requests
<1> DEFINE Kept == /\ Reached(r) /\ req'[r].email = req[r].email /\ req'[r].age = req[r].age
                   /\ r \in cleared => r \in cleared'
           Locked == LockedSince(email'[req'[r].email], req'[r].age)
<1>1. ASSUME req'[r] = req[r], r \in cleared => r \in cleared' PROVE Kept
  BY <1>1 DEF Reached
<1>2. ASSUME Answer(r) PROVE FALSE
  BY <1>0, <1>2 DEF Answer, Reached, Free
<1>3. ASSUME NEW e \in Email, NEW s \in Source, Enter(r, e, s) PROVE FALSE
  <2>1. req'[r].at = "reserving"
    BY <1>0, <1>3 DEF Enter, Free
  <2> QED BY <2>1 DEF Reached
<1>4. ASSUME NEW now \in 0 .. Patience, ReserveEmail(r, now) PROVE Locked
  <2> DEFINE e == req[r].email
             row == Reserve(email[e], now)
  <2>1. Admits(email[e], now)
    BY <1>2, <1>4 DEF ReserveEmail
  <2>2. e \in Email /\ email \in [Email -> Row] /\ email[e] \in Row
    BY <1>4 DEF ReserveEmail, FirstFactorInv
  <2>3. req' = [req EXCEPT ![r].at = "looking", ![r].failures = row.failures] /\ email' = [email EXCEPT ![e] = row]
    BY <1>4, <2>1 DEF ReserveEmail
  <2>4. req'[r].failures = row.failures /\ req'[r].email = e /\ req'[r].age = req[r].age
    BY <1>0, <2>3 DEF Requests
  <2>5. email'[e] = row
    BY <2>2, <2>3
  <2>6. row.age = now
    BY <2>1, <2>2, RowCounts DEF Reserve
  <2>7. now <= req[r].age + Patience
    BY <1>0, CounterAssumption, FirstFactorAssumption DEF Requests
  <2> HIDE DEF row, e
  <2> QED BY <2>4, <2>5, <2>6, <2>7 DEF LockedSince, Since, Reached
<1>5. ASSUME Look(r) \/ \E right \in BOOLEAN : Judge(r, right) PROVE Kept
  <2>1. req[r].at \in {"looking", "hashing"} /\ req'[r].failures = req[r].failures
        /\ req'[r].email = req[r].email /\ req'[r].age = req[r].age /\ cleared' = cleared
    BY <1>0, <1>5 DEF Look, Judge, Goto, Requests
  <2> QED BY <2>1 DEF Reached
<1>6. ASSUME Clear(r) PROVE FALSE
  BY <1>0, <1>6 DEF Clear, Goto, Reached
<1>7. ASSUME Serve(r) PROVE Kept \/ Locked
  <2> HIDE DEF Kept, Locked
  <2> QED BY <1>2, <1>3, <1>4, <1>5, <1>6, <1>7 DEF Serve, Refuse, Challenge, Drop
<1>8. ASSUME NEW o \in Request, o # r, Serve(o) PROVE Kept
  BY <1>1, <1>8, OthersStay, ClearingsServed
<1>9. ASSUME (\E e \in Email : SetStatus(e)) \/ UNCHANGED vars PROVE Kept
  BY <1>1, <1>9 DEF SetStatus, vars
<1> HIDE DEF Kept, Locked
<1>10. Kept \/ Locked
  BY <1>7, <1>8, <1>9 DEF Next
<1> QED BY <1>a, <1>10 DEF Kept, Locked

\* No step belies an announcement.
LEMMA AnnouncingStep == FirstFactorInv /\ Announcing /\ [Next]_vars => Announcing'
<1> SUFFICES ASSUME FirstFactorInv, Announcing, [Next]_vars, NEW r \in Request, Reached(r)', r \notin cleared'
             PROVE  LockedSince(email'[req'[r].email], req'[r].age)
  BY DEF Announcing
<1>1. CASE Tick
  <2> DEFINE e == req[r].email
  <2>0. req[r] \in Requests /\ Reached(r) /\ r \notin cleared /\ req[r].age \in 0 .. Life /\ e \in Email
    BY <1>1 DEF Tick, FirstFactorInv, Requests, Reached
  <2>1. req'[r].email = e /\ req'[r].age = req[r].age + 1
    BY <1>1, <2>0 DEF Tick, Reached, Requests
  <2>2. email'[e] = Older(email[e]) /\ email[e] \in Row
    BY <1>1, <2>0 DEF Tick, FirstFactorInv
  <2>3. LockedSince(email[e], req[r].age)
    BY <2>0 DEF Announcing
  <2> HIDE DEF e
  <2> QED BY <2>0, <2>1, <2>2, <2>3, LockLasts
<1>2. CASE ~Tick
  <2> DEFINE e == req'[r].email
             age == req'[r].age
  <2>1. e \in Email /\ age \in 0 .. Life
    BY <1>2, ReachedHow
  <2>2. CASE Reached(r) /\ r \notin cleared /\ req'[r].email = req[r].email /\ req'[r].age = req[r].age
    <3>1. LockedSince(email[e], age) /\ r \in Trying(e)
      BY <2>2 DEF Announcing, Trying, Reached
    <3>2. email[e] \in Row
      BY <2>1 DEF FirstFactorInv
    <3>3. Moves(e)
      BY <1>2, <2>1, HistoryMoves
    <3> HIDE DEF e, age
    <3>4. email'[e] = email[e]
      BY <2>1, <3>1, <3>2, <3>3, LockLasts DEF Moves
    <3>5. LockedSince(email'[e], age)
      BY <3>1, <3>4
    <3> QED BY <3>5 DEF e, age
  <2> QED BY <1>2, <2>2, ReachedHow
<1> QED BY <1>1, <1>2

\* The request that announces a lock finds the address locked, unless a success cleared it
\* since the request was admitted (authenticator.go, refuse).
THEOREM AnnouncedLocksAreReal == Spec => []AnnouncedLockIsReal
<1>1. Init => Announcing
  BY DEF Init, Announcing, Reached, Free
<1>2. FirstFactorInv /\ Announcing => AnnouncedLockIsReal
  <2> SUFFICES ASSUME FirstFactorInv, Announcing, NEW r \in Request \ cleared, Announces(r)
               PROVE  Locks(email[req[r].email], 0)
    BY DEF AnnouncedLockIsReal
  <2>1. Reached(r)
    BY DEF Announces, AtThreshold, Reached
  <2>2. req[r].age \in 0 .. Life /\ email[req[r].email] \in Row
    BY <2>1 DEF FirstFactorInv, Requests, Reached
  <2>3. LockedSince(email[req[r].email], req[r].age)
    BY <2>1 DEF Announcing
  <2> QED BY <2>2, <2>3, LockLasts
<1> QED BY <1>1, <1>2, FirstFactorInvariant, AnnouncingStep, PTL DEF Spec

----------------------------------------------------------------------------
(* The overshoot of a source.  Once its row is at the threshold nobody passes SourceLock
   until its window has passed: who is past it then came in before the row was written
   last, and counts before the window passes, or came in after, and starts the row again. *)

Past(s) == {r \in Request : req[r].at # "idle" /\ req[r].source = s}

\* Whatever the now() of a request of that age, the row has been forgotten by then.
Overdue(row, age) == row.age >= Window + (IF age < Patience THEN age ELSE Patience)

Entered(s) ==
    source[s].failures >= Threshold =>
        \A r \in Past(s) : Since(source[s], req[r].age) \/ Overdue(source[s], req[r].age)

RoomLeft(s) ==
    source[s].failures >= Threshold /\ source[s].age < Window =>
        source[s].failures + Cardinality(Past(s)) < Threshold + Cardinality(Request)

Burst == \A s \in Source :
    /\ Entered(s) /\ RoomLeft(s)
    /\ source[s].failures < Threshold + Cardinality(Request)

LEMMA PastSize ==
  ASSUME NEW s \in Source
  PROVE  /\ IsFiniteSet(Request) /\ Cardinality(Request) \in Nat
         /\ IsFiniteSet(Past(s)) /\ Cardinality(Past(s)) \in Nat
         /\ \A S \in SUBSET Past(s) : /\ IsFiniteSet(S) /\ Cardinality(S) \in Nat
                                     /\ Cardinality(S) <= Cardinality(Past(s))
<1>1. Past(s) \in SUBSET Request /\ IsFiniteSet(Request)
  BY FirstFactorAssumption DEF Past
<1>2. IsFiniteSet(Past(s))
  BY <1>1, FS_Subset
<1> QED BY <1>1, <1>2, FS_Subset, FS_CardinalityType

\* A row and the ages of the requests past its lock are all the invariant is about: who
\* leaves only makes room.
LEMMA BurstStays ==
  ASSUME FirstFactorInv, Burst, NEW s \in Source, source'[s] = source[s],
         \A r \in Past(s)' : r \in Past(s) /\ req'[r].age = req[r].age
  PROVE  Entered(s)' /\ RoomLeft(s)' /\ source'[s].failures < Threshold + Cardinality(Request)
<1>1. source[s].failures \in Nat /\ source[s].age \in Nat /\ Threshold \in Nat
  BY CounterAssumption DEF FirstFactorInv, Row, Oldest
<1>2. Cardinality(Past(s)) \in Nat /\ Cardinality(Past(s)') \in Nat /\ Cardinality(Past(s)') <= Cardinality(Past(s))
  BY PastSize
<1>3. Cardinality(Request) \in Nat
  BY PastSize
<1>4. Entered(s)'
  BY DEF Burst, Entered
<1>5. RoomLeft(s)'
  <2>1. RoomLeft(s)
    BY DEF Burst
  <2> QED BY <1>1, <1>2, <1>3, <2>1 DEF RoomLeft
<1> QED BY <1>4, <1>5 DEF Burst

\* SourceLock lets in where the row is under the threshold, or forgotten.
LEMMA BurstEnters ==
  ASSUME FirstFactorInv, Burst, NEW s \in Source, NEW r \in Request, NEW e \in Email, Enter(r, e, s)
  PROVE  Entered(s)' /\ RoomLeft(s)' /\ source'[s].failures < Threshold + Cardinality(Request)
<1>0. req \in [Request -> Requests] /\ source' = source
  BY DEF FirstFactorInv, Enter
<1>1. source[s].failures \in Nat /\ source[s].age \in Nat /\ Threshold \in Nat /\ Window \in Nat /\ Patience \in Nat
  BY CounterAssumption DEF FirstFactorInv, Row, Oldest
<1>2. source[s].failures >= Threshold => source[s].age >= Window
  BY <1>1 DEF Enter, Locks, Forgotten
<1>3. req'[r].age = 0
  BY <1>0 DEF Enter, Free
<1>4. \A o \in Request : o # r => req'[o] = req[o]
  BY <1>0 DEF Enter
<1>5. ASSUME source[s].failures >= Threshold, NEW o \in Past(s)'
      PROVE Since(source[s], req'[o].age) \/ Overdue(source[s], req'[o].age)
  <2>1. CASE o = r
    BY <1>1, <1>2, <1>3, <1>5, <2>1 DEF Overdue
  <2>2. CASE o # r
    <3>1. o \in Past(s) /\ req'[o] = req[o]
      BY <1>4, <2>2 DEF Past
    <3> QED BY <1>5, <3>1 DEF Burst, Entered
  <2> QED BY <2>1, <2>2
<1>6. Entered(s)'
  BY <1>0, <1>5 DEF Entered
<1>7. RoomLeft(s)'
  BY <1>0, <1>1, <1>2 DEF RoomLeft
<1> QED BY <1>0, <1>6, <1>7 DEF Burst

\* A failure counts, and its request is gone.
LEMMA BurstCounts ==
  ASSUME FirstFactorInv, Burst, NEW r \in Request, NEW now \in 0 .. Patience, Refuse(r, now),
         NEW s \in Source, s = req[r].source
  PROVE  Entered(s)' /\ RoomLeft(s)' /\ source'[s].failures < Threshold + Cardinality(Request)
<1> DEFINE row == source[s]
           k == Cardinality(Past(s))
           m == Cardinality(Past(s)')
           R == Cardinality(Request)
<1>0. req \in [Request -> Requests] /\ source \in [Source -> Row] /\ req[r] \in Requests /\ row \in Row
  BY DEF FirstFactorInv
<1>1. /\ row.failures \in Nat /\ row.age \in Nat /\ now \in Nat /\ now <= Patience /\ now <= req[r].age
      /\ req[r].age \in Nat /\ req[r].age <= Life
      /\ Threshold \in Nat /\ Threshold >= 1 /\ Window \in Nat /\ Patience \in Nat /\ Life \in Nat
      /\ Patience < Window /\ Life + Patience < Window
  BY <1>0, CounterAssumption, FirstFactorAssumption DEF Row, Oldest, Requests, Refuse
<1>2. source'[s] = Count(row, now) /\ req' = [req EXCEPT ![r] = Free]
  BY <1>0 DEF Refuse, Answer
<1>3. Past(s)' = Past(s) \ {r} /\ r \in Past(s)
  BY <1>0, <1>2 DEF Past, Free, Refuse
<1>4. k \in Nat /\ R \in Nat /\ m \in Nat /\ m = k - 1 /\ k <= R
  <2>1. IsFiniteSet(Past(s)) /\ k \in Nat /\ R \in Nat /\ IsFiniteSet(Request) /\ Past(s) \in SUBSET Request
    BY PastSize DEF Past
  <2>2. m = k - 1 /\ m \in Nat
    BY <1>3, <2>1, PastSize, FS_RemoveElement
  <2>3. k <= R
    BY <2>1, FS_Subset
  <2> QED BY <2>1, <2>2, <2>3
<1>5. ASSUME NEW o \in Past(s)' PROVE Since(source'[s], req'[o].age)
  <2>1. req'[o].age = req[o].age /\ req[o].age \in Nat
    BY <1>0, <1>2, <1>3, <1>5, FirstFactorAssumption DEF Past, Requests
  <2>2. source'[s].age = now
    BY <1>2 DEF Count
  <2> QED BY <1>1, <2>1, <2>2 DEF Since
<1>6. Entered(s)'
  BY <1>5 DEF Entered
<1>7. \/ source'[s].failures = 1
      \/ source'[s].failures = row.failures + 1 /\ row.age < Window + now
  BY <1>1, <1>2 DEF Count, Forgotten
<1>8. row.failures >= Threshold /\ row.age < Window + now => row.failures + k < Threshold + R
  <2> SUFFICES ASSUME row.failures >= Threshold, row.age < Window + now PROVE row.failures + k < Threshold + R
    OBVIOUS
  <2>1. Since(row, req[r].age) \/ Overdue(row, req[r].age)
    BY <1>3 DEF Burst, Entered
  <2>2. ~Overdue(row, req[r].age)
    BY <1>1 DEF Overdue
  <2>3. row.age < Window
    BY <1>1, <2>1, <2>2 DEF Since
  <2> QED BY <2>3 DEF Burst, RoomLeft
<1> HIDE DEF row, k, m, R
<1>9. source'[s].failures + m < Threshold + R
  BY <1>1, <1>4, <1>7, <1>8
<1>10. source'[s].failures \in Nat
  BY <1>1, <1>7
<1>11. source'[s].failures < Threshold + R
  BY <1>1, <1>4, <1>9, <1>10
<1> QED BY <1>6, <1>9, <1>11 DEF RoomLeft, m, R

\* The window passes.
LEMMA BurstAges ==
  ASSUME FirstFactorInv, Burst, Tick, NEW s \in Source
  PROVE  Entered(s)' /\ RoomLeft(s)' /\ source'[s].failures < Threshold + Cardinality(Request)
<1> DEFINE row == source[s]
<1>0. row \in Row /\ \A r \in Request : req[r] \in Requests
  BY DEF FirstFactorInv
<1>1. row.failures \in Nat /\ row.age \in Nat /\ Window \in Nat /\ Patience \in Nat /\ Life \in Nat
  BY <1>0, CounterAssumption, FirstFactorAssumption DEF Row, Oldest
<1>2. source'[s] = Older(row)
  BY DEF Tick
<1>3. /\ Older(row).failures = row.failures /\ Older(row).age \in Nat
      /\ row.age <= Older(row).age /\ Older(row).age <= row.age + 1
      /\ Older(row).age = row.age + 1 \/ Older(row).age >= Window + Patience
  BY <1>0, <1>1 DEF Older, Row, Oldest
<1>4. \A r \in Request : req[r].at # "idle" =>
          /\ req'[r].at = req[r].at /\ req'[r].source = req[r].source
          /\ req[r].age \in Nat /\ req'[r].age = req[r].age + 1
  BY <1>0, <1>1 DEF Tick, Requests
<1>5. \A r \in Request : req[r].at = "idle" => req'[r] = req[r]
  BY DEF Tick
<1>6. Past(s)' = Past(s)
  BY <1>4, <1>5 DEF Past
<1>7. ASSUME row.failures >= Threshold, NEW r \in Past(s)
      PROVE Since(Older(row), req'[r].age) \/ Overdue(Older(row), req'[r].age)
  <2>1. Since(row, req[r].age) \/ Overdue(row, req[r].age)
    BY <1>7 DEF Burst, Entered
  <2>2. req[r].age \in Nat /\ req'[r].age = req[r].age + 1
    BY <1>4, <1>7 DEF Past
  <2> HIDE DEF row
  <2>3. CASE Since(row, req[r].age)
    BY <1>1, <1>3, <2>2, <2>3 DEF Since
  <2>4. CASE Overdue(row, req[r].age)
    BY <1>1, <1>3, <2>2, <2>4 DEF Overdue
  <2> QED BY <2>1, <2>3, <2>4
<1>8. Entered(s)'
  BY <1>2, <1>3, <1>6, <1>7 DEF Entered
<1>9. RoomLeft(s)'
  <2>1. RoomLeft(s)
    BY DEF Burst
  <2> QED BY <1>1, <1>2, <1>3, <1>6, <2>1 DEF RoomLeft
<1> QED BY <1>2, <1>3, <1>8, <1>9 DEF Burst

LEMMA BurstStep == FirstFactorInv /\ Burst /\ [Next]_vars => Burst'
<1> SUFFICES ASSUME FirstFactorInv, Burst, [Next]_vars, NEW s \in Source
             PROVE  Entered(s)' /\ RoomLeft(s)' /\ source'[s].failures < Threshold + Cardinality(Request)
  BY DEF Burst
<1> DEFINE Goal == Entered(s)' /\ RoomLeft(s)' /\ source'[s].failures < Threshold + Cardinality(Request)
<1>0. req \in [Request -> Requests]
  BY DEF FirstFactorInv
<1>1. CASE Tick
  BY <1>1, BurstAges
<1>2. ASSUME NEW r \in Request, Serve(r) PROVE Goal
  <2>1. \A o \in Request : o # r => req'[o] = req[o]
    BY <1>2, OthersStay
  <2>2. ASSUME NEW e \in Email, NEW t \in Source, Enter(r, e, t), t # s PROVE Goal
    <3>1. req'[r].source = t
      BY <1>0, <2>2 DEF Enter, Free
    <3> QED BY <2>1, <2>2, <3>1, BurstStays DEF Enter, Past
  <2>3. ASSUME NEW now \in 0 .. Patience, Refuse(r, now), s # req[r].source PROVE Goal
    <3>1. source'[s] = source[s] /\ req'[r].at = "idle"
      BY <1>0, <2>3 DEF Refuse, Answer, Free, FirstFactorInv
    <3> QED BY <2>1, <3>1, BurstStays DEF Past
  <2>4. ASSUME Answer(r), source' = source PROVE Goal
    <3>1. req'[r].at = "idle"
      BY <1>0, <2>4 DEF Answer, Free
    <3> QED BY <2>1, <2>4, <3>1, BurstStays DEF Past
  <2>5. ASSUME req[r].at # "idle", req'[r].source = req[r].source, req'[r].age = req[r].age, source' = source
        PROVE Goal
    BY <2>1, <2>5, BurstStays DEF Past
  <2>6. ASSUME NEW now \in 0 .. Patience, ReserveEmail(r, now) PROVE Goal
    <3>1. CASE Answer(r)
      BY <2>4, <2>6, <3>1 DEF ReserveEmail
    <3>2. CASE ~Answer(r)
      <4>1. req' = [req EXCEPT ![r].at = "looking", ![r].failures = Reserve(email[req[r].email], now).failures]
        BY <2>6, <3>2 DEF ReserveEmail
      <4>2. req'[r].source = req[r].source /\ req'[r].age = req[r].age
        BY <1>0, <4>1 DEF Requests
      <4> QED BY <2>5, <2>6, <4>2 DEF ReserveEmail
    <3> QED BY <3>1, <3>2
  <2>7. ASSUME Look(r) \/ (\E right \in BOOLEAN : Judge(r, right)) \/ Clear(r) PROVE Goal
    <3>1. req'[r].source = req[r].source /\ req'[r].age = req[r].age
      BY <1>0, <2>7 DEF Look, Judge, Clear, Goto, Requests
    <3>2. req[r].at # "idle" /\ source' = source
      BY <2>7 DEF Look, Judge, Clear
    <3> QED BY <2>5, <3>1, <3>2
  <2>8. ASSUME Challenge(r) \/ Drop(r) PROVE Goal
    BY <2>4, <2>8 DEF Challenge, Drop
  <2>9. ASSUME NEW e \in Email, Enter(r, e, s) PROVE Goal
    BY <2>9, BurstEnters
  <2>10. ASSUME NEW now \in 0 .. Patience, Refuse(r, now), s = req[r].source PROVE Goal
    BY <2>10, BurstCounts
  <2> HIDE DEF Goal
  <2>11. ASSUME NEW now \in 0 .. Patience, Refuse(r, now) PROVE Goal
    BY <2>3, <2>10, <2>11
  <2>12. ASSUME NEW e \in Email, NEW t \in Source, Enter(r, e, t) PROVE Goal
    BY <2>2, <2>9, <2>12
  <2> QED BY <1>2, <2>6, <2>7, <2>8, <2>11, <2>12 DEF Serve
<1>3. CASE (\E e \in Email : SetStatus(e)) \/ UNCHANGED vars
  <2>1. source' = source /\ req' = req
    BY <1>3 DEF SetStatus, vars
  <2> QED BY <2>1, BurstStays DEF Past
<1> QED BY <1>1, <1>2, <1>3 DEF Next

\* A burst overshoots the threshold of a source by the requests already past SourceLock,
\* never more (logins.go, RecordSourceFailure).
THEOREM SourceOvershootIsBounded == Spec => []SourceOvershootBounded
<1>1. Init => Burst
  <2> SUFFICES ASSUME Init, NEW s \in Source PROVE source[s].failures = 0
    BY PastSize, CounterAssumption DEF Burst, Entered, RoomLeft
  <2> QED BY DEF Init, NoRow
<1>2. Burst => SourceOvershootBounded
  BY DEF Burst, SourceOvershootBounded
<1> QED BY <1>1, <1>2, FirstFactorInvariant, BurstStep, PTL DEF Spec
===============================================================================
