---------------------------- MODULE PasskeysProofs ----------------------------
(***************************************************************************)
(* Proofs about Passkeys, for any number of requests, sessions, keys and   *)
(* ceremonies.                                                             *)
(***************************************************************************)
EXTENDS Passkeys, FiniteSetTheorems, TLAPS

Requests == [at : Places, kind : Kinds, purpose : Purpose \cup {None}, session : Session \cup {None},
             elevated : BOOLEAN, key : Key \cup {None}, sees : SUBSET Ceremony,
             answers : 0 .. MaxCeremonies, ceremony : 0 .. MaxCeremonies]

Ceremonies == [session : Session \cup {None}, purpose : Purpose \cup {None}, live : BOOLEAN]

\* An opening admitted, whose ceremony is still to come.
Waits(q) == q.at = "issuing" \/ (q.kind = "begin" /\ q.at \in {"checking", "reading"})
Pending == {r \in Request : Waits(req[r])}

\* Every ceremony was paid for.
Budget == issued + Cardinality(Pending) <= openings

\* What is about to be consumed was found, and who answers has a key.
Aims(q) ==
    /\ q.at = "consuming" => q.ceremony \in Ceremony
    /\ q.at \in {"registering", "counting"} => q.key \in Key

TypeInv ==
    /\ count \in [Key -> 0 .. MaxCount \cup {None}]
    /\ totp \in BOOLEAN /\ active \in BOOLEAN /\ row \in Request \cup {None}
    /\ session \in [Session -> {"closed", "open", "elevated"}]
    /\ ceremony \in [Ceremony -> Ceremonies]
    /\ openings \in 0 .. MaxCeremonies /\ issued \in Nat
    /\ req \in [Request -> Requests]
    /\ judged \subseteq Ceremony /\ reused \in BOOLEAN
    /\ shown \in [Key -> 0 .. MaxCount] /\ cloned \in BOOLEAN
    /\ Budget /\ \A r \in Request : Aims(req[r])

\* The record of a free request.
LEMMA FreeIsRequest == Free \in Requests
  BY PasskeysAssumption DEF Free, Requests, Places, Kinds

\* Adding or taking one element moves a count by one at most.
LEMMA CountMoves ==
  ASSUME NEW S, NEW T, NEW r, IsFiniteSet(S), T \subseteq S \cup {r}
  PROVE  /\ Cardinality(S) \in Nat /\ Cardinality(T) \in Nat
         /\ Cardinality(T) <= Cardinality(S) + 1
         /\ T \subseteq S => Cardinality(T) <= Cardinality(S)
         /\ r \in S /\ r \notin T => Cardinality(T) + 1 <= Cardinality(S)
<1>0. Cardinality(S) \in Nat
  BY FS_CardinalityType
<1>1. IsFiniteSet(S \cup {r}) /\ Cardinality(S \cup {r}) <= Cardinality(S) + 1
  <2>1. /\ IsFiniteSet(S \cup {r})
        /\ Cardinality(S \cup {r}) = IF r \in S THEN Cardinality(S) ELSE Cardinality(S) + 1
    BY FS_AddElement, Zenon
  <2> QED BY <1>0, <2>1
<1>2. Cardinality(T) \in Nat /\ Cardinality(T) <= Cardinality(S \cup {r})
  BY <1>1, FS_Subset, FS_CardinalityType
<1>3. Cardinality(S \cup {r}) \in Nat
  BY <1>1, FS_CardinalityType
<1>4. T \subseteq S => Cardinality(T) <= Cardinality(S)
  BY FS_Subset
<1>5. ASSUME r \in S, r \notin T PROVE Cardinality(T) + 1 <= Cardinality(S)
  <2>1. IsFiniteSet(S \ {r}) /\ Cardinality(S \ {r}) = Cardinality(S) - 1
    BY <1>5, FS_RemoveElement
  <2>2. Cardinality(T) <= Cardinality(S \ {r})
    BY <1>5, <2>1, FS_Subset
  <2> QED BY <1>0, <1>2, <2>1, <2>2
<1> QED BY <1>0, <1>1, <1>2, <1>3, <1>4, <1>5

\* The admitted openings can be counted: there are finitely many requests.
LEMMA PendingFinite == /\ IsFiniteSet(Pending)
                       /\ Cardinality(Pending) \in Nat
  BY PasskeysAssumption, FS_Subset, FS_CardinalityType DEF Pending

\* The types follow: no more ceremonies are numbered than were paid for.
LEMMA TypeInvTypes == TypeInv => TypeOK
<1> SUFFICES ASSUME TypeInv PROVE TypeOK
  OBVIOUS
<1>1. issued \in 0 .. openings
  BY PasskeysAssumption, PendingFinite DEF TypeInv, Budget
<1> QED
  BY <1>1, Zenon DEF TypeInv, TypeOK, Requests, Ceremonies

\* No ceremony is opened, and nobody asks.
LEMMA TypeInvInit == Init => TypeInv
<1> SUFFICES ASSUME Init PROVE TypeInv
  OBVIOUS
<1>1. req \in [Request -> Requests]
  BY FreeIsRequest DEF Init
<1>2. Unused \in Ceremonies
  BY Zenon DEF Unused, Ceremonies
<1>3. ceremony \in [Ceremony -> Ceremonies]
  BY <1>2 DEF Init
<1>4. Pending = {}
  BY DEF Init, Pending, Waits, Free
<1>5. Budget
  BY <1>4, FS_EmptySet DEF Init, Budget
<1>6. /\ count \in [Key -> 0 .. MaxCount \cup {None}]
      /\ shown \in [Key -> 0 .. MaxCount] /\ openings \in 0 .. MaxCeremonies /\ issued \in Nat
  BY PasskeysAssumption DEF Init
<1>7. session \in [Session -> {"closed", "open", "elevated"}]
  BY DEF Init
<1>8. \A r \in Request : Aims(req[r])
  BY DEF Init, Aims, Free
<1> QED
  BY <1>1, <1>3, <1>5, <1>6, <1>7, <1>8, Zenon DEF Init, TypeInv

\* A step of one request leaves the others where they were.
LEMMA RequestMoves ==
  ASSUME TypeInv, NEW r \in Request, NEW q \in Requests, req' = [req EXCEPT ![r] = q]
  PROVE  /\ req' \in [Request -> Requests]
         /\ Cardinality(Pending) \in Nat /\ Cardinality(Pending') \in Nat
         /\ Cardinality(Pending') <= Cardinality(Pending) + 1
         /\ ~Waits(q) \/ Waits(req[r]) => Cardinality(Pending') <= Cardinality(Pending)
         /\ ~Waits(q) /\ Waits(req[r]) => Cardinality(Pending') + 1 <= Cardinality(Pending)
<1>1. req \in [Request -> Requests]
  BY DEF TypeInv
<1>2. req' \in [Request -> Requests] /\ req'[r] = q /\ \A s \in Request \ {r} : req'[s] = req[s]
  BY <1>1
<1>3. /\ Pending' \subseteq Pending \cup {r}
      /\ ~Waits(q) => r \notin Pending' /\ Pending' \subseteq Pending
      /\ Waits(req[r]) => r \in Pending /\ Pending' \subseteq Pending
  BY <1>2 DEF Pending, Waits
<1> QED
  BY <1>2, <1>3, PendingFinite, CountMoves

\* What most steps do: they move one request, admit and number nothing.
LEMMA BudgetKept ==
  ASSUME TypeInv, NEW r \in Request, NEW q \in Requests, req' = [req EXCEPT ![r] = q],
         ~Waits(q) \/ Waits(req[r]), UNCHANGED <<openings, issued>>
  PROVE  req' \in [Request -> Requests] /\ Budget'
<1>1. openings \in Nat /\ issued \in Nat /\ issued + Cardinality(Pending) <= openings
  BY PasskeysAssumption DEF TypeInv, Budget
<1>2. /\ req' \in [Request -> Requests]
      /\ Cardinality(Pending) \in Nat /\ Cardinality(Pending') \in Nat
      /\ Cardinality(Pending') <= Cardinality(Pending)
  BY RequestMoves, Zenon
<1>3. openings' = openings /\ issued' = issued
  OBVIOUS
<1> QED
  BY <1>1, <1>2, <1>3 DEF Budget

Unmoved == UNCHANGED <<openings, issued, req>>

Kept == req \in [Request -> Requests] /\ Budget /\ \A r \in Request : Aims(req[r])

\* A step that moves no request keeps the count of openings.
LEMMA BudgetUnmoved == TypeInv /\ Unmoved => Kept'
<1> SUFFICES ASSUME TypeInv, Unmoved PROVE Kept'
  OBVIOUS
<1>1. Pending' = Pending
  BY DEF Unmoved, Pending
<1> QED
  BY <1>1 DEF Unmoved, TypeInv, Kept, Budget, Aims

\* The steps that no request makes keep the types.
LEMMA TypeInvElsewhere == TypeInv /\ Elsewhere => TypeInv'
<1> SUFFICES ASSUME TypeInv, Elsewhere PROVE TypeInv'
  OBVIOUS
<1>0. Unmoved => Kept'
  BY BudgetUnmoved
<1>1. ASSUME NEW s \in Session, Login(s) PROVE TypeInv'
  <2>1. \A c \in Ceremony : [ceremony[c] EXCEPT !.live = FALSE] \in Ceremonies
    <3> SUFFICES ASSUME NEW c \in Ceremony PROVE [ceremony[c] EXCEPT !.live = FALSE] \in Ceremonies
      OBVIOUS
    <3>1. ceremony[c] \in Ceremonies
      BY DEF TypeInv
    <3> QED BY <3>1, Zenon DEF Ceremonies
  <2>2. ceremony' \in [Ceremony -> Ceremonies]
    BY <1>1, <2>1 DEF Login, TypeInv
  <2> QED BY <1>1, <2>2, <1>0 DEF Login, Unmoved, Kept, TypeInv, history
<1>2. ASSUME NEW s \in Session, Logout(s) PROVE TypeInv'
  BY <1>2, <1>0 DEF Logout, Unmoved, Kept, TypeInv, history
<1>3. ASSUME NEW s \in Session, EnrollTotp(s) PROVE TypeInv'
  BY <1>3, <1>0 DEF EnrollTotp, Unmoved, Kept, TypeInv, history
<1>4. ASSUME NEW s \in Session, VerifyTotp(s) PROVE TypeInv'
  BY <1>4, <1>0 DEF VerifyTotp, Unmoved, Kept, TypeInv, history
<1>5. ASSUME NEW c \in Ceremony, Expire(c) PROVE TypeInv'
  <2>1. ceremony[c] \in Ceremonies
    BY DEF TypeInv
  <2>2. [ceremony[c] EXCEPT !.live = FALSE] \in Ceremonies
    BY <2>1, Zenon DEF Ceremonies
  <2>3. ceremony' \in [Ceremony -> Ceremonies]
    BY <1>5, <2>2 DEF Expire, TypeInv
  <2> QED BY <1>5, <2>3, <1>0 DEF Expire, Unmoved, Kept, TypeInv, history
<1>6. CASE UseResetLink
  <2>1. 0 \in 0 .. MaxCount
    BY PasskeysAssumption
  <2>2. /\ count' \in [Key -> 0 .. MaxCount \cup {None}]
        /\ session' \in [Session -> {"closed", "open", "elevated"}]
        /\ shown' \in [Key -> 0 .. MaxCount]
    BY <1>6, <2>1 DEF UseResetLink
  <2> QED BY <1>6, <1>0, <2>2 DEF UseResetLink, Unmoved, Kept, TypeInv
<1>7. CASE SetStatus
  BY <1>7, <1>0 DEF SetStatus, Unmoved, Kept, TypeInv, history
<1> QED
  BY <1>1, <1>2, <1>3, <1>4, <1>5, <1>6, <1>7 DEF Elsewhere

\* Types of everything a request does not hold.
RowsTyped ==
    /\ count \in [Key -> 0 .. MaxCount \cup {None}]
    /\ totp \in BOOLEAN /\ active \in BOOLEAN /\ row \in Request \cup {None}
    /\ session \in [Session -> {"closed", "open", "elevated"}]
    /\ ceremony \in [Ceremony -> Ceremonies]
    /\ openings \in 0 .. MaxCeremonies /\ issued \in Nat
    /\ judged \subseteq Ceremony /\ reused \in BOOLEAN
    /\ shown \in [Key -> 0 .. MaxCount] /\ cloned \in BOOLEAN

\* The steps of a request keep the types.
LEMMA TypeInvServe == TypeInv /\ (\E r \in Request : Serve(r)) => TypeInv'
<1> SUFFICES ASSUME TypeInv, NEW r \in Request, Serve(r) PROVE TypeInv'
  OBVIOUS
<1>1. req \in [Request -> Requests] /\ req[r] \in Requests /\ RowsTyped
  BY DEF TypeInv, RowsTyped
<1>a. ASSUME NEW q \in Requests, req' = [req EXCEPT ![r] = q], Aims(q)
      PROVE  \A s \in Request : Aims(req'[s])
  BY <1>a DEF TypeInv
<1>2. ASSUME NEW q \in Requests, req' = [req EXCEPT ![r] = q], ~Waits(q) \/ Waits(req[r]), Aims(q),
             UNCHANGED <<openings, issued>>, RowsTyped'
      PROVE  TypeInv'
  <2>1. req' \in [Request -> Requests] /\ Budget'
    BY <1>2, BudgetKept
  <2>2. \A s \in Request : Aims(req[s])'
    BY <1>2, <1>a DEF Aims
  <2> QED BY <1>2, <2>1, <2>2 DEF TypeInv, RowsTyped
<1>3. Free \in Requests /\ ~Waits(Free) /\ Aims(Free)
  BY FreeIsRequest DEF Free, Waits, Aims
<1>4. ASSUME Answer(r), UNCHANGED <<openings, issued>>, RowsTyped' PROVE TypeInv'
  BY <1>2, <1>3, <1>4 DEF Answer
<1>5. ASSUME NEW a \in Places, Goto(r, a), a \notin {"consuming", "registering", "counting"}, ~Waits([req[r] EXCEPT !.at = a]) \/ Waits(req[r]),
             UNCHANGED <<openings, issued>>, RowsTyped'
      PROVE  TypeInv'
  <2>1. [req[r] EXCEPT !.at = a] \in Requests
    BY <1>1, Zenon DEF Requests
  <2>2. req' = [req EXCEPT ![r] = [req[r] EXCEPT !.at = a]]
    BY <1>5 DEF Goto
  <2>3. Aims([req[r] EXCEPT !.at = a])
    BY <1>1, <1>5 DEF Aims, Requests
  <2> QED BY <1>2, <1>5, <2>1, <2>2, <2>3
<1>6. ASSUME NEW s \in Session, NEW kind \in Kinds, NEW a \in Places, NEW p \in Purpose \cup {None},
             NEW c \in 0 .. MaxCeremonies, NEW k \in Key \cup {None}, Start(r, s, kind, a, p, c, k),
             kind = "begin" => a = "admitting",
             a \notin {"issuing", "consuming", "registering", "counting"}
      PROVE  TypeInv'
  <2> DEFINE q == [Free EXCEPT !.at = a, !.kind = kind, !.purpose = p, !.session = s,
                      !.elevated = p = "registration" /\ session[s] = "elevated", !.answers = c, !.key = k]
  <2>1. (p = "registration" /\ session[s] = "elevated") \in BOOLEAN
    OBVIOUS
  <2>2. q \in Requests
    BY <1>3, <2>1, Zenon DEF Requests
  <2>3. ~Waits(q) /\ Aims(q)
    <3>1. q.at = a /\ q.kind = kind
      BY <1>3 DEF Requests
    <3>2. a \notin {"issuing", "consuming", "registering", "counting"} /\ (kind = "begin" => a = "admitting")
      BY <1>6
    <3> QED BY <3>1, <3>2 DEF Waits, Aims
  <2>4. req' = [req EXCEPT ![r] = q] /\ UNCHANGED <<openings, issued>>
    BY <1>6 DEF Start
  <2>5. RowsTyped'
    BY <1>6, <1>1 DEF Start, RowsTyped, rows, history
  <2> HIDE DEF q
  <2> QED BY <1>2, <2>2, <2>3, <2>4, <2>5
<1>7. ASSUME NEW s \in Session, NEW p \in Purpose, Begin(r, s, p) PROVE TypeInv'
  BY <1>7, <1>6, PasskeysAssumption DEF Begin, Kinds, Places
<1>8. ASSUME NEW s \in Session, NEW p \in Purpose, NEW c \in Ceremony, Finish(r, s, p, c) PROVE TypeInv'
  BY <1>8, <1>6 DEF Finish, Kinds, Places, Ceremony
<1>9. ASSUME NEW s \in Session, NEW k \in Key, Remove(r, s, k) PROVE TypeInv'
  BY <1>9, <1>6, PasskeysAssumption DEF Remove, Kinds, Places
<1>10. CASE AdmitCeremony(r)
  <2>1. CASE ~(openings < MaxCeremonies)
    BY <1>10, <2>1, <1>1, <1>4 DEF AdmitCeremony, rows, history, RowsTyped
  <2>2. CASE openings < MaxCeremonies
    <3> DEFINE a == IF req[r].purpose = "registration" THEN "checking" ELSE "reading"
               q == [req[r] EXCEPT !.at = a]
    <3>1. a \in Places
      BY DEF Places
    <3>2. q \in Requests
      <4> HIDE DEF a
      <4> QED BY <1>1, <3>1, Zenon DEF Requests
    <3>3. req' = [req EXCEPT ![r] = q] /\ openings' = openings + 1 /\ issued' = issued
      BY <1>10, <2>2 DEF AdmitCeremony, Goto
    <3>4. RowsTyped'
      BY <1>10, <1>1, <2>2, <3>3, PasskeysAssumption DEF AdmitCeremony, RowsTyped, rows, history
    <3>8. Aims(q)
      BY <1>1 DEF Aims, Requests
    <3> HIDE DEF q, a
    <3>9. \A s \in Request : Aims(req[s])'
      BY <3>2, <3>3, <3>8, <1>a DEF Aims
    <3>5. /\ req' \in [Request -> Requests]
          /\ Cardinality(Pending) \in Nat /\ Cardinality(Pending') \in Nat
          /\ Cardinality(Pending') <= Cardinality(Pending) + 1
      BY <3>2, <3>3, RequestMoves, Zenon
    <3>6. openings \in Nat /\ issued \in Nat /\ issued + Cardinality(Pending) <= openings
      BY PasskeysAssumption DEF TypeInv, Budget
    <3>7. Budget'
      BY <3>3, <3>5, <3>6 DEF Budget
    <3> QED BY <3>4, <3>5, <3>7, <3>9 DEF TypeInv, RowsTyped
  <2> QED BY <2>1, <2>2
<1>11. CASE CheckFactors(r)
  <2>1. "reading" \in Places
    BY DEF Places
  <2>2. Waits([req[r] EXCEPT !.at = "reading"]) => Waits(req[r])
    BY <1>11, <1>1 DEF CheckFactors, Waits, Requests
  <2>3. RowsTyped' /\ UNCHANGED <<openings, issued>>
    BY <1>11, <1>1 DEF CheckFactors, RowsTyped, rows, history
  <2> QED BY <1>11, <1>4, <1>5, <2>1, <2>2, <2>3 DEF CheckFactors
<1>12. ASSUME NEW k \in Key, ReadOwner(r, k) PROVE TypeInv'
  <2> DEFINE l == IF req[r].purpose = "assertion" /\ req[r].kind # "begin" /\ k \in Passkeys THEN k ELSE None
             a == IF req[r].kind = "begin" THEN "issuing" ELSE "looking"
             q == [req[r] EXCEPT !.at = a, !.key = l]
  <2>1. a \in Places /\ l \in Key \cup {None}
    BY DEF Places
  <2>2. q \in Requests
    <3> HIDE DEF a, l
    <3> QED BY <1>1, <2>1, Zenon DEF Requests
  <2>3. (Waits(q) => Waits(req[r])) /\ Aims(q)
    BY <1>12, <1>1 DEF ReadOwner, Waits, Aims, Requests
  <2>4. RowsTyped' /\ UNCHANGED <<openings, issued>>
    BY <1>12, <1>1 DEF ReadOwner, RowsTyped, rows, history
  <2>5. Answer(r) \/ req' = [req EXCEPT ![r] = q]
    BY <1>12 DEF ReadOwner
  <2> HIDE DEF q, a, l
  <2> QED BY <1>2, <1>4, <2>2, <2>3, <2>4, <2>5
<1>13. CASE IssueStarts(r)
  <2> DEFINE v == Live(req[r].session, req[r].purpose)
             q == [req[r] EXCEPT !.at = "inserting", !.ceremony = issued + 1, !.sees = v]
  <2>1. req[r].at = "issuing" /\ issued' = issued + 1 /\ openings' = openings
    BY <1>13 DEF IssueStarts
  <2>2. /\ Cardinality(Pending) \in Nat /\ issued \in Nat /\ openings \in 0 .. MaxCeremonies
        /\ issued + Cardinality(Pending) <= openings
    BY PendingFinite DEF TypeInv, Budget
  <2>3. Waits(req[r])
    BY <2>1 DEF Waits
  <2>4. Cardinality(Pending) # 0
    <3>1. Pending # {}
      BY <2>3 DEF Pending
    <3> QED BY <3>1, PendingFinite, FS_EmptySet
  <2>5. issued + 1 \in 0 .. MaxCeremonies
    BY <2>2, <2>4, PasskeysAssumption
  <2>6. q \in Requests
    <3>1. v \in SUBSET Ceremony /\ "inserting" \in Places
      BY DEF Live, Opened, Places
    <3> HIDE DEF v
    <3> QED BY <1>1, <2>5, <3>1, Zenon DEF Requests
  <2>7. q.at = "inserting" /\ ~Waits(q) /\ Aims(q)
    BY <1>1 DEF Waits, Aims, Requests
  <2>8. req' = [req EXCEPT ![r] = q]
    BY <1>13 DEF IssueStarts
  <2> HIDE DEF q
  <2>9. /\ req' \in [Request -> Requests] /\ Cardinality(Pending') \in Nat
        /\ Cardinality(Pending') + 1 <= Cardinality(Pending)
    BY <2>3, <2>6, <2>7, <2>8, RequestMoves, Zenon
  <2>10. Budget'
    BY <2>1, <2>2, <2>9, PasskeysAssumption DEF Budget
  <2>11. RowsTyped'
    BY <1>13, <1>1, <2>1, <2>2 DEF IssueStarts, RowsTyped, rows, history
  <2>12. \A s \in Request : Aims(req[s])'
    BY <2>6, <2>7, <2>8, <1>a DEF Aims
  <2> QED BY <2>9, <2>10, <2>11, <2>12 DEF TypeInv, RowsTyped
<1>14. CASE IssueCeremony(r)
  <2>1. \A c \in Ceremony : ceremony'[c] \in Ceremonies
    <3> SUFFICES ASSUME NEW c \in Ceremony PROVE ceremony'[c] \in Ceremonies
      OBVIOUS
    <3>1. [session |-> req[r].session, purpose |-> req[r].purpose, live |-> TRUE] \in Ceremonies
      BY <1>1, Zenon DEF Requests, Ceremonies
    <3>2. ceremony[c] \in Ceremonies /\ [ceremony[c] EXCEPT !.live = FALSE] \in Ceremonies
      BY <1>1, Zenon DEF RowsTyped, Ceremonies
    <3> QED BY <1>14, <3>1, <3>2 DEF IssueCeremony
  <2>2. ceremony' \in [Ceremony -> Ceremonies]
    BY <1>14, <2>1 DEF IssueCeremony
  <2>3. RowsTyped' /\ UNCHANGED <<openings, issued>>
    BY <1>14, <1>1, <2>2 DEF IssueCeremony, RowsTyped, history
  <2> QED BY <1>14, <1>4, <2>3 DEF IssueCeremony
<1>15. CASE LiveCeremony(r)
  <2>1. RowsTyped' /\ UNCHANGED <<openings, issued>>
    BY <1>15, <1>1 DEF LiveCeremony, RowsTyped, rows, history
  <2>2. ASSUME NEW c \in Ceremony, req' = [req EXCEPT ![r] = [req[r] EXCEPT !.at = "consuming", !.ceremony = c]]
        PROVE  TypeInv'
    <3> DEFINE q == [req[r] EXCEPT !.at = "consuming", !.ceremony = c]
    <3>1. c \in 0 .. MaxCeremonies /\ "consuming" \in Places
      BY DEF Places, Ceremony
    <3>2. q \in Requests
      BY <1>1, <3>1, Zenon DEF Requests
    <3>3. ~Waits(q) /\ Aims(q)
      BY <1>1 DEF Waits, Aims, Requests
    <3> QED BY <1>2, <2>1, <2>2, <3>2, <3>3
  <2> QED BY <1>15, <1>4, <2>1, <2>2 DEF LiveCeremony, Live, Opened
<1>16. CASE ConsumeCeremony(r)
  <2>1. CASE ~StillLive(req[r].ceremony)
    BY <1>16, <1>1, <1>4, <2>1 DEF ConsumeCeremony, RowsTyped
  <2>2. CASE StillLive(req[r].ceremony)
    <3>1. req[r].ceremony \in Ceremony
      BY <1>16 DEF TypeInv, Aims, ConsumeCeremony
    <3>2. ceremony[req[r].ceremony] \in Ceremonies
      BY <1>1, <3>1 DEF RowsTyped
    <3>3. [ceremony[req[r].ceremony] EXCEPT !.live = FALSE] \in Ceremonies
      BY <3>2, Zenon DEF Ceremonies
    <3>4. RowsTyped' /\ UNCHANGED <<openings, issued>>
      BY <1>16, <1>1, <2>2, <3>1, <3>3 DEF ConsumeCeremony, RowsTyped
    <3>5. "judging" \in Places /\ ~Waits([req[r] EXCEPT !.at = "judging"])
      BY <1>1 DEF Places, Waits, Requests
    <3> QED BY <1>16, <1>5, <2>2, <3>4, <3>5 DEF ConsumeCeremony
  <2> QED BY <2>1, <2>2
<1>17. ASSUME NEW k \in Key, Judge(r, k) PROVE TypeInv'
  <2> DEFINE a == IF req[r].purpose = "registration" THEN "registering" ELSE "counting"
             l == IF req[r].purpose = "registration" THEN k ELSE req[r].key
             q == [req[r] EXCEPT !.at = a, !.key = l, !.answers = 0, !.ceremony = 0]
  <2>1. a \in Places /\ l \in Key \cup {None} /\ 0 \in 0 .. MaxCeremonies
    BY <1>1, PasskeysAssumption DEF Places, Requests
  <2>2. q \in Requests
    <3> HIDE DEF a, l
    <3> QED BY <1>1, <2>1, Zenon DEF Requests
  <2>3. ~Waits(q) /\ q.at = a /\ q.key = l /\ a \in {"registering", "counting"}
    BY <1>1 DEF Waits, Requests
  <2>4. RowsTyped' /\ UNCHANGED <<openings, issued>>
    BY <1>17, <1>1 DEF Judge, RowsTyped, rows, history
  <2>5. Answer(r) \/ (req' = [req EXCEPT ![r] = q] /\ l # None)
    BY <1>17, PasskeysAssumption DEF Judge
  <2> HIDE DEF q, a, l
  <2>6. Answer(r) \/ (req' = [req EXCEPT ![r] = q] /\ Aims(q))
    BY <2>1, <2>3, <2>5 DEF Aims
  <2> QED BY <1>2, <1>4, <2>2, <2>3, <2>4, <2>6
<1>18. ASSUME NEW n \in 0 .. MaxCount, Register(r, n) PROVE TypeInv'
  <2>1. RowsTyped' /\ UNCHANGED <<openings, issued>>
    BY <1>18, <1>1 DEF Register, RowsTyped
  <2> QED BY <1>18, <1>4, <2>1 DEF Register
<1>19. ASSUME NEW n \in 0 .. MaxCount, ConsumeSignCount(r, n) PROVE TypeInv'
  <2>1. RowsTyped' /\ UNCHANGED <<openings, issued>>
    BY <1>19, <1>1 DEF ConsumeSignCount, RowsTyped
  <2>2. "elevating" \in Places /\ ~Waits([req[r] EXCEPT !.at = "elevating"])
    BY <1>1 DEF Places, Waits, Requests
  <2> QED BY <1>19, <1>4, <1>5, <2>1, <2>2 DEF ConsumeSignCount
<1>20. CASE Elevate(r)
  <2>1. RowsTyped' /\ UNCHANGED <<openings, issued>>
    BY <1>20, <1>1 DEF Elevate, RowsTyped, history
  <2> QED BY <1>20, <1>4, <2>1 DEF Elevate
<1>21. CASE LockOperator(r)
  <2>1. RowsTyped' /\ UNCHANGED <<openings, issued>>
    BY <1>21, <1>1 DEF LockOperator, RowsTyped, rows, history
  <2>2. "inventory" \in Places /\ ~Waits([req[r] EXCEPT !.at = "inventory"])
    BY <1>1 DEF Places, Waits, Requests
  <2> QED BY <1>21, <1>4, <1>5, <2>1, <2>2 DEF LockOperator
<1>22. CASE Inventory(r)
  <2>1. RowsTyped' /\ UNCHANGED <<openings, issued>>
    BY <1>22, <1>1 DEF Inventory, Unlocked, RowsTyped, rows, history
  <2>2. "deleting" \in Places /\ ~Waits([req[r] EXCEPT !.at = "deleting"])
    BY <1>1 DEF Places, Waits, Requests
  <2> QED BY <1>22, <1>4, <1>5, <2>1, <2>2 DEF Inventory
<1>23. CASE Delete(r)
  <2>1. 0 \in 0 .. MaxCount
    BY PasskeysAssumption
  <2>2. /\ count' \in [Key -> 0 .. MaxCount \cup {None}]
        /\ shown' \in [Key -> 0 .. MaxCount] /\ row' \in Request \cup {None}
    BY <1>23, <1>1, <2>1 DEF Delete, Unlocked, RowsTyped
  <2>3. RowsTyped' /\ UNCHANGED <<openings, issued>>
    BY <1>23, <1>1, <2>2 DEF Delete, RowsTyped
  <2> QED BY <1>23, <1>4, <2>3 DEF Delete
<1>24. CASE Drop(r)
  <2>1. RowsTyped' /\ UNCHANGED <<openings, issued>>
    BY <1>24, <1>1 DEF Drop, Unlocked, RowsTyped, rows, history
  <2> QED BY <1>24, <1>4, <2>1 DEF Drop
<1> QED
  BY <1>7, <1>8, <1>9, <1>10, <1>11, <1>12, <1>13, <1>14, <1>15, <1>16, <1>17, <1>18, <1>19,
     <1>20, <1>21, <1>22, <1>23, <1>24 DEF Serve

\* What the steps keep, every behaviour keeps.
LEMMA TypeInvariant == Spec => []TypeInv
<1>1. Init => TypeInv
  BY TypeInvInit
<1>2. TypeInv /\ [Next]_vars => TypeInv'
  <2>1. ASSUME TypeInv, UNCHANGED vars PROVE TypeInv'
    BY <2>1, BudgetUnmoved DEF vars, rows, history, Unmoved, Kept, TypeInv
  <2> QED BY <2>1, TypeInvElsewhere, TypeInvServe DEF Next
<1> QED
  BY <1>1, <1>2, PTL DEF Spec

\* Rows and requests keep their types, and no ceremony is numbered that was not admitted.
THEOREM PasskeyTypes == Spec => []TypeOK
<1> QED
  BY TypeInvariant, TypeInvTypes, PTL

----------------------------------------------------------------------------
(* The last factor: between the inventory and the deletion the row is locked, and
   nothing else that takes a factor away can commit. *)

Locked ==
    \A r \in Request :
        /\ req[r].at \in {"inventory", "deleting"} => row = r
        /\ req[r].at = "deleting" => totp \/ \E l \in Passkeys : l # req[r].key

\* The row of the operator has one holder, and what it read of the factors stays true.
LEMMA LockedStep == TypeInv /\ Locked /\ [Next]_vars => Locked'
<1> SUFFICES ASSUME TypeInv, Locked, [Next]_vars PROVE Locked'
  OBVIOUS
<1>1. req \in [Request -> Requests]
  BY DEF TypeInv
<1>2. ASSUME UNCHANGED <<count, totp, row, req>> PROVE Locked'
  BY <1>2 DEF Locked, Passkeys
<1>3. CASE UNCHANGED vars
  BY <1>2, <1>3 DEF vars, rows
<1>4. CASE Elsewhere
  <2>1. ASSUME NEW s \in Session, Login(s) \/ Logout(s) \/ VerifyTotp(s) PROVE Locked'
    BY <1>2, <2>1 DEF Login, Logout, VerifyTotp
  <2>2. ASSUME NEW c \in Ceremony, Expire(c) PROVE Locked'
    BY <1>2, <2>2 DEF Expire
  <2>3. ASSUME NEW s \in Session, EnrollTotp(s) PROVE Locked'
    BY <2>3 DEF EnrollTotp, Locked, history
  <2>4. CASE UseResetLink \/ SetStatus
    BY <2>4, PasskeysAssumption DEF UseResetLink, SetStatus, Locked, history
  <2> QED BY <1>4, <2>1, <2>2, <2>3, <2>4 DEF Elsewhere
<1>5. ASSUME NEW r \in Request, Serve(r) PROVE Locked'
  <2>1. \A s \in Request \ {r} : req'[s] = req[s]
    BY <1>5, <1>1 DEF Serve, Begin, Finish, Remove, Start, AdmitCeremony, CheckFactors, ReadOwner, IssueStarts,
         IssueCeremony, LiveCeremony, ConsumeCeremony, Judge, Register, ConsumeSignCount, Elevate, LockOperator,
         Inventory, Delete, Drop, Goto, Answer
  <2>2. ASSUME UNCHANGED <<count, totp, row>>, req'[r].at \notin {"inventory", "deleting"} PROVE Locked'
    BY <2>1, <2>2 DEF Locked, Passkeys
  <2>3. ASSUME NEW s \in Session, NEW p \in Purpose, Begin(r, s, p) PROVE Locked'
    BY <2>2, <2>3, <1>1 DEF Begin, Start, Free, rows
  <2>4. ASSUME NEW s \in Session, NEW p \in Purpose, NEW c \in Ceremony, Finish(r, s, p, c) PROVE Locked'
    BY <2>2, <2>4, <1>1 DEF Finish, Start, Free, rows
  <2>5. ASSUME NEW s \in Session, NEW k \in Key, Remove(r, s, k) PROVE Locked'
    BY <2>2, <2>5, <1>1 DEF Remove, Start, Free, rows
  <2>6. CASE AdmitCeremony(r) \/ CheckFactors(r)
    BY <2>2, <2>6, <1>1 DEF AdmitCeremony, CheckFactors, Goto, Answer, Free, rows, Requests
  <2>7. ASSUME NEW k \in Key, ReadOwner(r, k) \/ Judge(r, k) PROVE Locked'
    BY <2>2, <2>7, <1>1 DEF ReadOwner, Judge, Answer, Free, rows, Requests
  <2>8. CASE IssueStarts(r) \/ IssueCeremony(r)
    BY <2>2, <2>8, <1>1 DEF IssueStarts, IssueCeremony, Answer, Free, rows, Requests
  <2>9. CASE LiveCeremony(r) \/ ConsumeCeremony(r)
    BY <2>2, <2>9, <1>1 DEF LiveCeremony, ConsumeCeremony, Goto, Answer, Free, rows, Requests
  <2>10. CASE Elevate(r)
    BY <2>2, <2>10, <1>1 DEF Elevate, Answer, Free
  <2>11. ASSUME NEW n \in 0 .. MaxCount, Register(r, n) PROVE Locked'
    BY <2>1, <2>11, <1>1, PasskeysAssumption DEF Register, Answer, Free, Locked
  <2>12. ASSUME NEW n \in 0 .. MaxCount, ConsumeSignCount(r, n) PROVE Locked'
    <3>1. Passkeys \subseteq Passkeys'
      BY <2>12, PasskeysAssumption DEF ConsumeSignCount, Advances, Passkeys, TypeInv
    <3>2. UNCHANGED <<totp, row>> /\ req'[r].at \notin {"inventory", "deleting"}
      BY <2>12, <1>1 DEF ConsumeSignCount, Goto, Answer, Free, Requests
    <3> QED BY <2>1, <3>1, <3>2 DEF Locked
  <2>13. CASE LockOperator(r)
    <3>1. CASE UNCHANGED row /\ Answer(r)
      BY <2>2, <2>13, <3>1, <1>1 DEF LockOperator, Answer, Free, rows
    <3>2. CASE row = None /\ row' = r /\ Goto(r, "inventory")
      BY <2>1, <2>13, <3>2, <1>1, PasskeysAssumption DEF LockOperator, Goto, Locked, rows
    <3> QED BY <2>13, <3>1, <3>2 DEF LockOperator, RowIsFree
  <2>14. CASE Inventory(r)
    <3>1. CASE Answer(r) /\ row' = Unlocked(r)
      BY <2>1, <2>14, <3>1, <1>1 DEF Inventory, Answer, Free, Unlocked, Locked, Passkeys, rows
    <3>2. CASE Goto(r, "deleting") /\ ~IsLastFactor
      <4>1. row = r
        BY <2>14 DEF Inventory, Locked
      <4>2. totp \/ \E l \in Passkeys : l # req[r].key
        BY <3>2 DEF IsLastFactor
      <4>3. row' = row /\ totp' = totp /\ Passkeys' = Passkeys
        BY <2>14, <3>2, <1>1 DEF Inventory, Answer, Goto, Free, Passkeys, rows, Requests
      <4>4. req'[r].key = req[r].key /\ req'[r].at = "deleting"
        BY <3>2, <1>1 DEF Goto, Requests
      <4> QED BY <2>1, <4>1, <4>2, <4>3, <4>4 DEF Locked
    <3> QED BY <2>14, <3>1, <3>2 DEF Inventory
  <2>15. CASE Delete(r)
    <3>1. \A s \in Request \ {r} : req[s].at \notin {"inventory", "deleting"}
      BY <2>15 DEF Delete, Locked
    <3>2. req'[r].at = "idle"
      BY <2>15, <1>1 DEF Delete, Answer, Free
    <3> QED BY <2>1, <3>1, <3>2 DEF Locked
  <2>16. CASE Drop(r)
    BY <2>1, <2>16, <1>1 DEF Drop, Answer, Free, Unlocked, Locked, Passkeys, rows
  <2> QED
    BY <1>5, <2>3, <2>4, <2>5, <2>6, <2>7, <2>8, <2>9, <2>10, <2>11, <2>12, <2>13, <2>14, <2>15, <2>16
       DEF Serve
<1> QED
  BY <1>3, <1>4, <1>5 DEF Next

\* The steps that change the keys of the account, or its secret.
LEMMA FactorsChange ==
  ASSUME Next
  PROVE  \/ UseResetLink
         \/ \E r \in Request : Delete(r)
         \/ UNCHANGED <<count, shown, cloned, totp>>
         \/ \E r \in Request, n \in 0 .. MaxCount : Register(r, n) \/ ConsumeSignCount(r, n)
         \/ \E s \in Session : EnrollTotp(s)
<1>1. ASSUME Elsewhere, ~UseResetLink, \A s \in Session : ~EnrollTotp(s) PROVE UNCHANGED <<count, shown, cloned, totp>>
  BY <1>1, Zenon DEF Elsewhere, Login, Logout, VerifyTotp, SetStatus, Expire, history
<1>2. ASSUME NEW r \in Request, NEW s \in Session, NEW p \in Purpose,
             Begin(r, s, p) \/ \E c \in Ceremony : Finish(r, s, p, c)
      PROVE  UNCHANGED <<count, shown, cloned, totp>>
  BY <1>2 DEF Begin, Finish, Start, rows, history
<1>3. ASSUME NEW r \in Request, NEW s \in Session, NEW k \in Key, Remove(r, s, k)
      PROVE  UNCHANGED <<count, shown, cloned, totp>>
  BY <1>3 DEF Remove, Start, rows, history
<1>4. ASSUME NEW r \in Request, NEW k \in Key, ReadOwner(r, k) \/ Judge(r, k)
      PROVE  UNCHANGED <<count, shown, cloned, totp>>
  BY <1>4 DEF ReadOwner, Judge, rows, history
<1>5. ASSUME NEW r \in Request,
             \/ AdmitCeremony(r) \/ CheckFactors(r) \/ IssueStarts(r) \/ IssueCeremony(r) \/ LiveCeremony(r)
             \/ ConsumeCeremony(r) \/ Elevate(r) \/ LockOperator(r) \/ Inventory(r) \/ Drop(r)
      PROVE  UNCHANGED <<count, shown, cloned, totp>>
  BY <1>5 DEF AdmitCeremony, CheckFactors, IssueStarts, IssueCeremony, LiveCeremony, ConsumeCeremony,
              Elevate, LockOperator, Inventory, Drop, rows, history
<1> QED BY <1>1, <1>2, <1>3, <1>4, <1>5, Zenon DEF Next, Serve

\* No removal leaves an account that had a second factor without any, however many of
\* them overlap (store/webauthn.go, Remove).
THEOREM LastFactorIsKept == Spec => LastFactorStays
<1>1. Init => Locked
  BY DEF Init, Locked, Free
<1>2. TypeInv /\ Locked /\ [Next]_vars => [Held /\ ~Held' => UseResetLink]_vars
  <2> SUFFICES ASSUME TypeInv, Locked, Next, Held, ~Held' PROVE UseResetLink
    BY DEF vars, rows, Held, Passkeys
  <2>1. ~totp' /\ Passkeys' = {}
    BY DEF Held
  <2>3. ASSUME NEW r \in Request, Delete(r) PROVE FALSE
    <3>1. PICK l \in Passkeys : l # req[r].key
      BY <2>1, <2>3 DEF Delete, Locked
    <3>2. count'[l] = count[l]
      BY <2>3, <3>1 DEF Delete, Passkeys, TypeInv
    <3> QED BY <2>1, <3>1, <3>2 DEF Passkeys
  <2>4. ASSUME NEW r \in Request, NEW n \in 0 .. MaxCount, Register(r, n) \/ ConsumeSignCount(r, n) PROVE FALSE
    <3>1. \A k \in Key : count[k] # None => count'[k] # None
      BY <2>4, PasskeysAssumption DEF Register, ConsumeSignCount, TypeInv
    <3>2. totp' = totp
      BY <2>4 DEF Register, ConsumeSignCount
    <3> QED BY <2>1, <3>1, <3>2 DEF Held, Passkeys
  <2>5. ASSUME NEW s \in Session, EnrollTotp(s) PROVE FALSE
    BY <2>1, <2>5 DEF EnrollTotp
  <2>6. ASSUME UNCHANGED <<count, shown, cloned, totp>> PROVE FALSE
    BY <2>1, <2>6 DEF Held, Passkeys
  <2> QED BY <2>3, <2>4, <2>5, <2>6, FactorsChange
<1> QED
  BY <1>1, <1>2, LockedStep, TypeInvariant, PTL DEF Spec, LastFactorStays

----------------------------------------------------------------------------
(* The counters: the row of a key always holds the highest counter it showed. *)

Followed == ~cloned /\ \A k \in Key : count[k] # None => shown[k] = count[k]

\* The base holds the last counter a key showed, and no step accepts one that is not above it.
LEMMA FollowedStep == TypeInv /\ Followed /\ [Next]_vars => Followed'
<1> SUFFICES ASSUME TypeInv, Followed, [Next]_vars PROVE Followed'
  OBVIOUS
<1>1. ASSUME UNCHANGED <<count, shown, cloned>> PROVE Followed'
  BY <1>1 DEF Followed
<1>2. CASE UseResetLink
  BY <1>2 DEF UseResetLink, Followed
<1>3. ASSUME NEW r \in Request, Delete(r) PROVE Followed'
  BY <1>3 DEF Delete, Followed, TypeInv
<1>4. ASSUME NEW r \in Request, NEW n \in 0 .. MaxCount, Register(r, n) PROVE Followed'
  BY <1>4 DEF Register, Followed, TypeInv
<1>5. ASSUME NEW r \in Request, NEW n \in 0 .. MaxCount, ConsumeSignCount(r, n) PROVE Followed'
  <2>1. CASE UNCHANGED <<count, shown, cloned>>
    BY <1>1, <2>1
  <2>2. CASE Advances(req[r].key, n) /\ ~UNCHANGED <<count, shown, cloned>>
    <3> DEFINE k == req[r].key
    <3>1. /\ count' = [count EXCEPT ![k] = n]
          /\ shown' = [shown EXCEPT ![k] = IF n > @ THEN n ELSE @]
          /\ cloned' = (cloned \/ count[k] = None \/ (shown[k] # 0 /\ n <= shown[k]))
      BY <1>5, <2>2 DEF ConsumeSignCount
    <3>2. n \in Nat
      BY PasskeysAssumption
    <3>3. CASE k \in Key
      <4>1. count[k] # None /\ shown[k] = count[k] /\ shown[k] \in Nat /\ (n > count[k] \/ (n = 0 /\ count[k] = 0))
        BY <2>2, <3>3, PasskeysAssumption DEF Advances, Followed, TypeInv
      <4>2. ~cloned' /\ shown'[k] = n /\ count'[k] = n
        BY <3>1, <3>2, <3>3, <4>1 DEF Followed, TypeInv
      <4> QED BY <3>1, <4>2 DEF Followed, TypeInv
    <3>4. k \in Key
      BY <1>5 DEF ConsumeSignCount, TypeInv, Aims
    <3> QED BY <3>3, <3>4
  <2> QED BY <1>5, <2>1, <2>2 DEF ConsumeSignCount
<1> QED
  BY <1>1, <1>2, <1>3, <1>4, <1>5, FactorsChange DEF EnrollTotp, history, vars, rows

\* A copied key answers once at most before it is noticed, whichever answers first:
\* no counter a key showed is accepted twice (store/webauthn.go, ConsumeSignCount).
THEOREM NoCloneIsServed == Spec => []CloneRefused
<1>1. Init => Followed
  BY DEF Init, Followed
<1>2. Followed => CloneRefused
  BY DEF Followed, CloneRefused
<1> QED
  BY <1>1, <1>2, FollowedStep, TypeInvariant, PTL DEF Spec

----------------------------------------------------------------------------
(* The ceremonies: one that was judged, or is still to be inserted, is not live, and
   nobody else is about to insert it. *)

Inserting == {r \in Request : req[r].at = "inserting"}

Fresh ==
    /\ ~reused
    /\ \A c \in Ceremony : ceremony[c].live => c <= issued
    /\ \A c \in judged : c <= issued /\ ~ceremony[c].live
    /\ \A r \in Inserting :
         LET c == req[r].ceremony
         IN  c \in Ceremony /\ c <= issued /\ ~ceremony[c].live /\ c \notin judged
    /\ \A r, s \in Inserting : r # s => req[r].ceremony # req[s].ceremony

\* No step makes a consumed ceremony live again, or gives one to two requests.
LEMMA FreshStep == TypeInv /\ TypeInv' /\ Fresh /\ [Next]_vars => Fresh'
<1> SUFFICES ASSUME TypeInv, TypeInv', Fresh, [Next]_vars PROVE Fresh'
  OBVIOUS
<1>1. req \in [Request -> Requests] /\ ceremony \in [Ceremony -> Ceremonies] /\ judged \subseteq Ceremony
  BY DEF TypeInv
<1>2. ASSUME UNCHANGED <<ceremony, issued, judged, reused>>,
             \A r \in Request : req'[r] = req[r] \/ req'[r].at # "inserting"
      PROVE  Fresh'
  BY <1>2 DEF Fresh, Inserting
<1>3. CASE UNCHANGED vars
  BY <1>2, <1>3 DEF vars, rows, history
<1>4. CASE Elsewhere
  <2>1. ASSUME NEW s \in Session, Logout(s) \/ EnrollTotp(s) \/ VerifyTotp(s) PROVE Fresh'
    BY <1>2, <2>1 DEF Logout, EnrollTotp, VerifyTotp, history
  <2>2. CASE UseResetLink \/ SetStatus
    BY <1>2, <2>2 DEF UseResetLink, SetStatus, history
  <2>3. ASSUME UNCHANGED <<issued, judged, reused, req>>, \A c \in Ceremony : ceremony'[c].live => ceremony[c].live
        PROVE  Fresh'
    BY <1>1, <2>3 DEF Fresh, Inserting
  <2>4. ASSUME NEW s \in Session, Login(s) PROVE Fresh'
    BY <1>1, <2>3, <2>4 DEF Login, Ceremonies, history
  <2>5. ASSUME NEW c \in Ceremony, Expire(c) PROVE Fresh'
    BY <1>1, <2>3, <2>5 DEF Expire, Ceremonies, history
  <2> QED BY <1>4, <2>1, <2>2, <2>4, <2>5 DEF Elsewhere
<1>5. ASSUME NEW r \in Request, Serve(r) PROVE Fresh'
  <2>1. \A s \in Request \ {r} : req'[s] = req[s]
    BY <1>5, <1>1 DEF Serve, Begin, Finish, Remove, Start, AdmitCeremony, CheckFactors, ReadOwner, IssueStarts,
         IssueCeremony, LiveCeremony, ConsumeCeremony, Judge, Register, ConsumeSignCount, Elevate, LockOperator,
         Inventory, Delete, Drop, Goto, Answer
  <2>2. ASSUME UNCHANGED <<ceremony, issued, judged, reused>>, req'[r].at # "inserting" PROVE Fresh'
    BY <1>2, <2>1, <2>2
  <2>3. ASSUME NEW s \in Session, NEW p \in Purpose, Begin(r, s, p) PROVE Fresh'
    BY <2>2, <2>3, <1>1 DEF Begin, Start, Free, rows, history
  <2>4. ASSUME NEW s \in Session, NEW p \in Purpose, NEW c \in Ceremony, Finish(r, s, p, c) PROVE Fresh'
    BY <2>2, <2>4, <1>1 DEF Finish, Start, Free, rows, history
  <2>5. ASSUME NEW s \in Session, NEW k \in Key, Remove(r, s, k) PROVE Fresh'
    BY <2>2, <2>5, <1>1 DEF Remove, Start, Free, rows, history
  <2>6. CASE AdmitCeremony(r) \/ CheckFactors(r)
    BY <2>2, <2>6, <1>1 DEF AdmitCeremony, CheckFactors, Goto, Answer, Free, rows, history, Requests
  <2>7. ASSUME NEW k \in Key, ReadOwner(r, k) \/ Judge(r, k) PROVE Fresh'
    BY <2>2, <2>7, <1>1 DEF ReadOwner, Judge, Answer, Free, rows, history, Requests
  <2>8. CASE LiveCeremony(r) \/ Elevate(r)
    BY <2>2, <2>8, <1>1 DEF LiveCeremony, Elevate, Answer, Free, rows, history, Requests
  <2>9. ASSUME NEW n \in 0 .. MaxCount, Register(r, n) \/ ConsumeSignCount(r, n) PROVE Fresh'
    BY <2>2, <2>9, <1>1 DEF Register, ConsumeSignCount, Goto, Answer, Free, Requests
  <2>10. CASE LockOperator(r) \/ Inventory(r)
    BY <2>2, <2>10, <1>1 DEF LockOperator, Inventory, Goto, Answer, Free, rows, history, Requests
  <2>11. CASE Delete(r) \/ Drop(r)
    BY <2>2, <2>11, <1>1 DEF Delete, Drop, Answer, Free, rows, history
  <2>12. CASE IssueStarts(r)
    <3>1. issued' = issued + 1 /\ req'[r].ceremony = issued + 1 /\ UNCHANGED <<ceremony, judged, reused>>
      BY <2>12, <1>1 DEF IssueStarts, rows, history, Requests
    <3>2. issued \in Nat /\ issued + 1 \in Ceremony
      <4>1. req'[r] \in Requests /\ issued \in Nat
        BY DEF TypeInv
      <4>2. req'[r].ceremony \in 0 .. MaxCeremonies
        BY <4>1 DEF Requests
      <4> QED BY <3>1, <4>1, <4>2, PasskeysAssumption DEF Ceremony
    <3>3. ~ceremony[issued + 1].live /\ issued + 1 \notin judged
      BY <3>2 DEF Fresh
    <3>4. \A s \in Inserting' \ {r} : s \in Inserting /\ req'[s] = req[s] /\ req[s].ceremony # issued + 1
      <4>1. ASSUME NEW s \in Inserting', s # r
            PROVE  s \in Inserting /\ req'[s] = req[s] /\ req[s].ceremony # issued + 1
        <5>1. s \in Inserting /\ req'[s] = req[s]
          BY <2>1, <4>1 DEF Inserting
        <5>2. req[s].ceremony \in Ceremony /\ req[s].ceremony <= issued
          BY <5>1 DEF Fresh
        <5> QED BY <5>1, <5>2, <3>2 DEF Ceremony
      <4> QED BY <4>1
    <3>5. \A c \in Ceremony : c <= issued => c <= issued + 1
      BY <3>2 DEF Ceremony
    <3> QED BY <1>1, <3>1, <3>2, <3>3, <3>4, <3>5 DEF Fresh
  <2>13. CASE IssueCeremony(r)
    <3> DEFINE c == req[r].ceremony
    <3>1. r \in Inserting /\ UNCHANGED <<issued, judged, reused>> /\ req'[r].at = "idle"
      BY <2>13, <1>1 DEF IssueCeremony, Inserting, history, Answer, Free
    <3>2. c \in Ceremony /\ c <= issued /\ c \notin judged
      BY <3>1 DEF Fresh
    <3>3. \A d \in Ceremony \ {c} : ceremony'[d].live => ceremony[d].live
      BY <2>13, <1>1 DEF IssueCeremony, Ceremonies
    <3>4. \A s \in Inserting' : s \in Inserting /\ s # r /\ req'[s] = req[s] /\ req[s].ceremony # c
      BY <2>1, <3>1 DEF Fresh, Inserting
    <3> HIDE DEF c
    <3> QED BY <1>1, <3>1, <3>2, <3>3, <3>4 DEF Fresh
  <2>14. CASE ConsumeCeremony(r)
    <3> DEFINE c == req[r].ceremony
    <3>1. CASE UNCHANGED <<ceremony, judged, reused>> /\ Answer(r)
      BY <2>2, <2>14, <3>1, <1>1 DEF ConsumeCeremony, Answer, Free
    <3>2. CASE StillLive(c) /\ ceremony' = [ceremony EXCEPT ![c].live = FALSE]
               /\ Goto(r, "judging") /\ judged' = judged \cup {c} /\ reused' = (reused \/ c \in judged)
      <4>1. c \in Ceremony /\ issued' = issued
        BY <2>14 DEF ConsumeCeremony, TypeInv, Aims
      <4>2. c <= issued /\ c \notin judged
        BY <3>2, <4>1 DEF StillLive, Fresh
      <4>3. ~ceremony'[c].live /\ \A d \in Ceremony : ceremony'[d].live => ceremony[d].live
        BY <3>2, <4>1, <1>1 DEF Ceremonies
      <4>4. \A s \in Inserting' : s \in Inserting /\ req'[s] = req[s] /\ req[s].ceremony # c
        <5>1. req'[r].at = "judging"
          BY <3>2, <1>1 DEF Goto, Requests
        <5>2. \A s \in Inserting' : s \in Inserting /\ req'[s] = req[s]
          BY <2>1, <5>1 DEF Inserting
        <5>3. \A s \in Inserting : ~ceremony[req[s].ceremony].live
          BY DEF Fresh
        <5>4. ceremony[c].live
          BY <3>2 DEF StillLive
        <5>5. \A s \in Inserting : req[s].ceremony # c
          <6> HIDE DEF c
          <6> QED BY <5>3, <5>4
        <5> HIDE DEF c
        <5> QED BY <5>2, <5>5, Zenon
      <4> HIDE DEF c
      <4>5. ~reused' /\ judged' = judged \cup {c}
        BY <3>2, <4>2 DEF Fresh
      <4>6. \A d \in judged' : d <= issued' /\ ~ceremony'[d].live
        BY <1>1, <4>1, <4>2, <4>3, <4>5 DEF Fresh
      <4>7. \A s \in Inserting' :
              LET d == req'[s].ceremony
              IN  d \in Ceremony /\ d <= issued' /\ ~ceremony'[d].live /\ d \notin judged'
        BY <4>1, <4>3, <4>4, <4>5 DEF Fresh
      <4>8. \A s, t \in Inserting' : s # t => req'[s].ceremony # req'[t].ceremony
        BY <4>4 DEF Fresh
      <4>9. \A d \in Ceremony : ceremony'[d].live => d <= issued'
        BY <4>1, <4>3 DEF Fresh
      <4> QED BY <4>5, <4>6, <4>7, <4>8, <4>9, Zenon DEF Fresh
    <3> QED BY <2>14, <3>1, <3>2 DEF ConsumeCeremony
  <2> QED
    BY <1>5, <2>3, <2>4, <2>5, <2>6, <2>7, <2>8, <2>9, <2>10, <2>11, <2>12, <2>13, <2>14 DEF Serve
<1> QED
  BY <1>3, <1>4, <1>5 DEF Next

\* No ceremony ever serves two answers (mfa/webauthn.go, consumeCeremony).
THEOREM NoCeremonyServesTwice == Spec => []CeremonyServesOnce
<1>1. Init => Fresh
  BY DEF Init, Fresh, Inserting, Free, Unused
<1>2. Fresh => CeremonyServesOnce
  BY DEF Fresh, CeremonyServesOnce
<1> QED
  BY <1>1, <1>2, FreshStep, TypeInvariant, PTL DEF Spec
===============================================================================
