------------------------- MODULE AdministrationProofs -------------------------
(***************************************************************************)
(* Proofs about Administration, for any number of operators, of roles and  *)
(* of transactions.                                                        *)
(*                                                                         *)
(* The invariant says what the two locks protect: between the lock of its  *)
(* target and its end, what a transaction read of the target stays true;   *)
(* and a role whose assignment is being written carries a share that keeps *)
(* its deletion out.                                                       *)
(***************************************************************************)
EXTENDS Administration, TLAPS

Txs == [at : {"idle", "locking", "reading", "changing", "inserting", "checking", "committing"},
        gesture : Gesture, author : Operator \cup {None}, target : Operator \cup Role \cup {None},
        roles : SUBSET Role, keys : SUBSET Key, before : SUBSET Key, removed : SUBSET Role,
        written : BOOLEAN]

Inside == {"reading", "changing", "inserting", "checking", "committing"}

Types ==
    /\ existing \subseteq Role /\ Default \subseteq existing
    /\ perms \in [Role -> SUBSET Key] /\ holds \in [Operator -> SUBSET Role]
    /\ tx \in [Tx -> Txs]
    /\ lock \in [Operator \cup Role -> Tx \cup {None}] /\ share \in [Role -> SUBSET Tx]
    /\ asked \in [Operator -> SUBSET Role] /\ checked \subseteq Tx /\ refused \in BOOLEAN

\* Where a transaction stands, and the locks it has there.
Stands(t) ==
    /\ tx[t].at # "idle" =>
         /\ tx[t].author \in Operator
         /\ tx[t].target \in (IF tx[t].gesture = "roles" THEN Operator ELSE Role)
    /\ tx[t].at \in Inside => lock[tx[t].target] = t
    /\ tx[t].at = "inserting" => tx[t].gesture = "roles"
    /\ tx[t].at \in {"checking", "committing"} <=> tx[t].written
    /\ tx[t].written => tx[t].gesture # "delete"
    /\ \A r \in Role : t \in share[r] <=> Writes(t, "roles") /\ r \in tx[t].roles

\* Who holds the row of a role for its update shares it with nobody.
Excludes == \A r \in Role, t \in Tx, u \in Tx : lock[r] = t /\ u \in share[r] => u = t

\* What a transaction read, and what it writes, is true still.
Knows(t) ==
    /\ tx[t].gesture = "roles" /\ tx[t].at \in {"inserting", "checking", "committing"}
         => tx[t].removed = holds[tx[t].target]
    /\ Writes(t, "roles") => tx[t].roles \subseteq existing
    /\ tx[t].gesture = "delete" /\ tx[t].at = "changing" => tx[t].target \notin Default /\ ~Held(tx[t].target)

Granted ==
    /\ holds = asked /\ ~refused
    /\ \A o \in Operator : holds[o] \subseteq existing

Certain == \A t \in checked : tx[t].at = "committing" /\ Keeps(t)

AdminInv ==
    /\ Types /\ Excludes /\ Granted /\ Certain
    /\ \A t \in Tx : Stands(t) /\ Knows(t)

\* The record of a free transaction.
LEMMA IdleIsTx == Idle \in Txs
  BY ZenonT(30) DEF Idle, Txs, Gesture

\* The seed satisfies the invariant.
LEMMA AdminInvInit == Init => AdminInv
<1> SUFFICES ASSUME Init PROVE AdminInv
  OBVIOUS
<1>1. \A t \in Tx : tx[t] = Idle
  BY DEF Init
<1>2. holds \in [Operator -> SUBSET Role] /\ \A o \in Operator : holds[o] \subseteq existing
  <2>1. \A o \in Operator : holds[o] \in {{}, Default}
    BY DEF Init
  <2> QED
    BY <2>1 DEF Init, Role
<1>3. tx \in [Tx -> Txs]
  BY IdleIsTx DEF Init
<1>4. perms \in [Role -> SUBSET Key]
  BY DEF Init
<1>5. lock \in [Operator \cup Role -> Tx \cup {None}] /\ share \in [Role -> SUBSET Tx] /\ \A r \in Role : share[r] = {}
  BY DEF Init
<1>6. Types
  BY <1>2, <1>3, <1>4, <1>5 DEF Init, Types, Role
<1>7. Excludes /\ Granted /\ Certain
  BY <1>2, <1>5 DEF Excludes, Granted, Certain, Init
<1>8. \A t \in Tx : Stands(t) /\ Knows(t)
  BY <1>1, <1>5 DEF Stands, Knows, Writes, Idle, Inside
<1> QED
  BY <1>6, <1>7, <1>8 DEF AdminInv

\* One transaction moves: the others stand where they stood.
LEMMA OneMoves ==
  ASSUME AdminInv, NEW t \in Tx, NEW q \in Txs, tx' = [tx EXCEPT ![t] = q]
  PROVE  tx' \in [Tx -> Txs] /\ tx'[t] = q /\ \A u \in Tx : u # t => tx'[u] = tx[u]
<1> HIDE DEF Txs
<1> QED
  BY DEF AdminInv, Types

\* A transaction writes its own record, field by field.
LEMMA TxWrites ==
  ASSUME NEW q \in Txs
  PROVE  /\ [q EXCEPT !.at = "reading"] \in Txs
         /\ \A K \in SUBSET Key : [q EXCEPT !.at = "changing", !.before = K] \in Txs
         /\ \A R \in SUBSET Role : [q EXCEPT !.at = "inserting", !.removed = R] \in Txs
         /\ [q EXCEPT !.at = "checking", !.written = TRUE] \in Txs
         /\ [q EXCEPT !.at = "committing"] \in Txs
         /\ q.roles \subseteq Role /\ q.keys \subseteq Key /\ q.removed \subseteq Role /\ q.before \subseteq Key
         /\ q.gesture \in Gesture /\ q.written \in BOOLEAN /\ q.target \in Operator \cup Role \cup {None}
         /\ q.at \in {"idle", "locking"} \cup Inside
<1>1. [q EXCEPT !.at = "reading"] \in Txs /\ [q EXCEPT !.at = "committing"] \in Txs
  BY ZenonT(30) DEF Txs
<1>2. \A K \in SUBSET Key : [q EXCEPT !.at = "changing", !.before = K] \in Txs
  BY ZenonT(30) DEF Txs
<1>3. \A R \in SUBSET Role : [q EXCEPT !.at = "inserting", !.removed = R] \in Txs
  BY ZenonT(30) DEF Txs
<1>4. [q EXCEPT !.at = "checking", !.written = TRUE] \in Txs
  BY ZenonT(30) DEF Txs
<1>5. /\ q.roles \subseteq Role /\ q.keys \subseteq Key /\ q.removed \subseteq Role /\ q.before \subseteq Key
      /\ q.gesture \in Gesture /\ q.written \in BOOLEAN /\ q.target \in Operator \cup Role \cup {None}
      /\ q.at \in {"idle", "locking"} \cup Inside
  BY DEF Txs, Inside
<1> QED
  BY <1>1, <1>2, <1>3, <1>4, <1>5

\* What an end of transaction leaves of the locks.
LEMMA OverFrees ==
  ASSUME AdminInv, NEW t \in Tx, Over(t)
  PROVE  /\ tx' \in [Tx -> Txs] /\ tx'[t] = Idle /\ \A u \in Tx : u # t => tx'[u] = tx[u]
         /\ lock' \in [Operator \cup Role -> Tx \cup {None}] /\ share' \in [Role -> SUBSET Tx]
         /\ Excludes' /\ \A u \in Tx : Stands(u)'
<1> HIDE DEF Txs
<1>1. tx' = [tx EXCEPT ![t] = Idle]
  BY DEF Over
<1>2. tx' \in [Tx -> Txs] /\ tx'[t] = Idle /\ \A u \in Tx : u # t => tx'[u] = tx[u]
  BY <1>1, IdleIsTx, OneMoves
<1>3. /\ lock' \in [Operator \cup Role -> Tx \cup {None}]
      /\ \A x \in Operator \cup Role : lock'[x] = IF lock[x] = t THEN None ELSE lock[x]
  BY DEF Over, AdminInv, Types
<1>4. share' \in [Role -> SUBSET Tx] /\ \A r \in Role : share'[r] = share[r] \ {t}
  BY DEF Over, AdminInv, Types
<1>5. None \notin Tx
  BY AdministrationAssumption
<1>6. Excludes'
  <2>1. ASSUME NEW r \in Role, NEW u \in Tx, NEW v \in Tx, lock'[r] = u, v \in share'[r] PROVE v = u
    <3>1. lock[r] = u /\ v \in share[r]
      BY <2>1, <1>3, <1>4, <1>5
    <3> QED
      BY <3>1 DEF AdminInv, Excludes
  <2> QED
    BY <2>1 DEF Excludes
<1>7. ASSUME NEW u \in Tx PROVE Stands(u)'
  <2>1. CASE u = t
    BY <2>1, <1>2, <1>4 DEF Stands, Idle, Writes, Inside
  <2>2. CASE u # t
    <3>1. Stands(u) /\ tx'[u] = tx[u]
      BY <2>2, <1>2 DEF AdminInv
    <3>2. tx[u].at \in Inside => lock'[tx[u].target] = u
      BY <3>1, <2>2, <1>3 DEF Stands, Inside
    <3>3. \A r \in Role : u \in share'[r] <=> u \in share[r]
      BY <2>2, <1>4
    <3> QED
      BY <3>1, <3>2, <3>3 DEF Stands, Writes
  <2> QED
    BY <2>1, <2>2
<1> QED
  BY <1>2, <1>3, <1>4, <1>6, <1>7

\* A refused gesture leaves everything as it was.
LEMMA RollbackKeeps ==
  ASSUME AdminInv, NEW t \in Tx, Rollback(t), UNCHANGED refused
  PROVE  AdminInv'
<1>1. Over(t) /\ checked' = checked \ {t} /\ UNCHANGED <<existing, perms, holds, asked, refused>>
  BY DEF Rollback
<1>2. /\ tx' \in [Tx -> Txs] /\ tx'[t] = Idle /\ \A u \in Tx : u # t => tx'[u] = tx[u]
      /\ lock' \in [Operator \cup Role -> Tx \cup {None}] /\ share' \in [Role -> SUBSET Tx]
      /\ Excludes' /\ \A u \in Tx : Stands(u)'
  BY <1>1, OverFrees
<1>3. Types'
  BY <1>1, <1>2 DEF AdminInv, Types
<1>4. Granted'
  BY <1>1 DEF AdminInv, Granted
<1>5. ASSUME NEW u \in Tx PROVE Knows(u)'
  <2>1. CASE u = t
    BY <2>1, <1>2 DEF Knows, Idle, Writes
  <2>2. CASE u # t
    BY <2>2, <1>1, <1>2 DEF AdminInv, Knows, Writes, Held
  <2> QED
    BY <2>1, <2>2
<1>6. Certain'
  <2>1. ASSUME NEW u \in checked' PROVE tx'[u].at = "committing" /\ Keeps(u)'
    <3>1. u \in checked /\ u # t /\ u \in Tx
      BY <1>1 DEF AdminInv, Types
    <3>2. tx'[u] = tx[u] /\ tx[u].at = "committing" /\ Keeps(u)
      BY <3>1, <1>2 DEF AdminInv, Certain
    <3>3. Keeps(u)'
      BY <3>2, <1>1 DEF Keeps, KeysSeen, PermsSeen, RolesSeen, Writes
    <3> QED
      BY <3>2, <3>3
  <2> QED
    BY <2>1 DEF Certain
<1> QED
  BY <1>2, <1>3, <1>4, <1>5, <1>6 DEF AdminInv

\* The steps that only move one transaction: all there is to prove is of that one.
LEMMA MovesAlone ==
  ASSUME AdminInv, NEW t \in Tx, NEW q \in Txs, tx' = [tx EXCEPT ![t] = q],
         UNCHANGED <<existing, perms, holds, locks, history>>, tx[t].at # "committing"
  PROVE  /\ tx'[t] = q
         /\ Stands(t)' /\ Knows(t)' => AdminInv'
<1> HIDE DEF Txs
<1>1. tx' \in [Tx -> Txs] /\ tx'[t] = q /\ \A u \in Tx : u # t => tx'[u] = tx[u]
  BY OneMoves
<1>2. UNCHANGED <<existing, perms, holds, lock, share, asked, checked, refused>>
  BY DEF locks, history
<1>3. ASSUME NEW u \in Tx, u # t PROVE Stands(u)' /\ Knows(u)'
  BY <1>1, <1>2, <1>3 DEF AdminInv, Stands, Knows, Writes, Held
<1>4. Types' /\ Excludes' /\ Granted'
  BY <1>1, <1>2 DEF AdminInv, Types, Excludes, Granted
<1>5. Certain'
  <2>1. ASSUME NEW u \in checked' PROVE tx'[u].at = "committing" /\ Keeps(u)'
    <3>1. u \in checked /\ u # t /\ u \in Tx
      BY <1>2 DEF AdminInv, Types, Certain
    <3>2. tx'[u] = tx[u] /\ tx[u].at = "committing" /\ Keeps(u)
      BY <3>1, <1>1 DEF AdminInv, Certain
    <3>3. Keeps(u)'
      BY <3>2, <1>2 DEF Keeps, KeysSeen, PermsSeen, RolesSeen, Writes
    <3> QED
      BY <3>2, <3>3
  <2> QED
    BY <2>1 DEF Certain
<1> QED
  BY <1>1, <1>3, <1>4, <1>5 DEF AdminInv

\* A gesture is asked.
LEMMA AskKeeps ==
  ASSUME AdminInv, NEW t \in Tx, NEW o \in Operator, NEW gesture \in Gesture,
         NEW target \in (IF gesture = "roles" THEN Operator ELSE Role),
         NEW R \in SUBSET Role, NEW K \in SUBSET Key, Begin(t, o, gesture, target, R, K)
  PROVE  AdminInv'
<1> DEFINE q == [Idle EXCEPT !.at = "locking", !.gesture = gesture, !.author = o,
                             !.target = target, !.roles = R, !.keys = K]
<1>1. q \in Txs
  BY IdleIsTx, ZenonT(30) DEF Txs
<1>2. /\ q.at = "locking" /\ q.gesture = gesture /\ q.author = o /\ q.target = target /\ q.written = FALSE
  BY DEF Idle
<1>3. /\ tx' = [tx EXCEPT ![t] = q] /\ tx[t].at = "idle"
      /\ UNCHANGED <<existing, perms, holds, locks, history>>
  BY DEF Begin
<1> HIDE DEF q, Txs
<1>4. tx'[t] = q /\ (Stands(t)' /\ Knows(t)' => AdminInv')
  BY <1>1, <1>3, MovesAlone
<1>5. \A r \in Role : t \notin share[r]
  BY <1>3 DEF AdminInv, Stands, Writes
<1>6. Stands(t)' /\ Knows(t)'
  BY <1>2, <1>3, <1>4, <1>5 DEF Stands, Knows, Writes, Inside, locks
<1> QED
  BY <1>4, <1>6

\* The lock of the target.
LEMMA LockKeeps == ASSUME AdminInv, NEW t \in Tx, Lock(t) PROVE AdminInv'
<1> HIDE DEF Txs
<1>1. CASE tx[t].gesture # "roles" /\ tx[t].target \notin existing
  BY <1>1, RollbackKeeps DEF Lock
<1>2. CASE ~(tx[t].gesture # "roles" /\ tx[t].target \notin existing)
  <2> DEFINE x == tx[t].target
             q == [tx[t] EXCEPT !.at = "reading"]
  <2>0. tx[t] \in Txs
    BY DEF AdminInv, Types
  <2>1. q \in Txs
    BY <2>0, TxWrites
  <2>2. /\ q.at = "reading" /\ q.gesture = tx[t].gesture /\ q.author = tx[t].author /\ q.target = x
        /\ q.written = tx[t].written /\ q.roles = tx[t].roles
    BY <2>0 DEF Txs
  <2>3. /\ tx' = [tx EXCEPT ![t] = q] /\ UNCHANGED <<existing, perms, holds, share, asked, checked, refused>>
        /\ lock' = [lock EXCEPT ![x] = t] /\ lock[x] \in {None, t} /\ (x \in Role => share[x] \subseteq {t})
        /\ tx[t].at = "locking"
    BY <1>2, Zenon DEF Lock, LocksTarget, Locked, history, AdminInv, Types
  <2> HIDE DEF q
  <2>4. tx' \in [Tx -> Txs] /\ tx'[t] = q /\ \A u \in Tx : u # t => tx'[u] = tx[u]
    BY <2>1, <2>3, OneMoves
  <2>5. x \in Operator \cup Role
    BY <2>3 DEF AdminInv, Stands
  <2>6. /\ lock' \in [Operator \cup Role -> Tx \cup {None}]
        /\ \A y \in Operator \cup Role : lock'[y] = IF y = x THEN t ELSE lock[y]
    BY <2>3, <2>5 DEF AdminInv, Types
  <2>7. None \notin Tx
    BY AdministrationAssumption
  <2> HIDE DEF x
  <2>8. Types'
    BY <2>3, <2>4, <2>6 DEF AdminInv, Types
  <2>9. Excludes'
    <3>1. ASSUME NEW r \in Role, NEW u \in Tx, NEW v \in Tx, lock'[r] = u, v \in share'[r] PROVE v = u
      <4>1. CASE r = x
        BY <4>1, <3>1, <2>3, <2>6
      <4>2. CASE r # x
        BY <4>2, <3>1, <2>3, <2>6 DEF AdminInv, Excludes
      <4> QED
        BY <4>1, <4>2
    <3> QED
      BY <3>1 DEF Excludes
  <2>10. Granted' /\ \A u \in Tx : Knows(u)'
    <3>1. ASSUME NEW u \in Tx PROVE Knows(u)'
      <4>1. CASE u = t
        BY <4>1, <2>2, <2>3, <2>4 DEF Knows, Writes, AdminInv, Stands
      <4>2. CASE u # t
        BY <4>2, <2>3, <2>4 DEF Knows, Writes, AdminInv, Held
      <4> QED
        BY <4>1, <4>2
    <3> QED
      BY <3>1, <2>3 DEF AdminInv, Granted
  <2>11. ASSUME NEW u \in Tx PROVE Stands(u)'
    <3>1. CASE u = t
      <4>1. tx[t].author \in Operator /\ x \in (IF tx[t].gesture = "roles" THEN Operator ELSE Role)
        BY <2>3 DEF AdminInv, Stands, x
      <4>2. tx[t].written = FALSE /\ \A r \in Role : t \notin share[r]
        BY <2>3, <2>0, TxWrites DEF AdminInv, Stands, Writes
      <4>3. lock'[x] = t
        BY <2>5, <2>6
      <4> QED
        BY <3>1, <4>1, <4>2, <4>3, <2>2, <2>3, <2>4 DEF Stands, Writes, Inside
    <3>2. CASE u # t
      <4>1. Stands(u) /\ tx'[u] = tx[u] /\ UNCHANGED share
        BY <3>2, <2>3, <2>4 DEF AdminInv
      <4>2. ASSUME tx[u].at \in Inside PROVE lock'[tx[u].target] = u
        <5>1. lock[tx[u].target] = u /\ tx[u].target \in Operator \cup Role
          BY <4>1, <4>2 DEF Stands, Inside
        <5>2. tx[u].target # x
          BY <5>1, <3>2, <2>3, <2>7
        <5> QED
          BY <5>1, <5>2, <2>6
      <4> QED
        BY <4>1, <4>2 DEF Stands, Writes
    <3> QED
      BY <3>1, <3>2
  <2>12. Certain'
    <3>1. ASSUME NEW u \in checked' PROVE tx'[u].at = "committing" /\ Keeps(u)'
      <4>1. u \in checked /\ u # t /\ u \in Tx
        BY <2>3 DEF AdminInv, Types, Certain
      <4>2. tx'[u] = tx[u] /\ tx[u].at = "committing" /\ Keeps(u)
        BY <4>1, <2>4 DEF AdminInv, Certain
      <4>3. Keeps(u)'
        BY <4>2, <2>3 DEF Keeps, KeysSeen, PermsSeen, RolesSeen, Writes
      <4> QED
        BY <4>2, <4>3
    <3> QED
      BY <3>1 DEF Certain
  <2> QED
    BY <2>8, <2>9, <2>10, <2>11, <2>12 DEF AdminInv
<1> QED
  BY <1>1, <1>2

\* What a statement sees are roles and keys, and roles that exist.
LEMMA Seen ==
  ASSUME AdminInv, NEW t \in Tx, NEW o \in Operator
  PROVE  RolesSeen(t, o) \subseteq existing /\ KeysSeen(t, o) \subseteq Key
<1>1. RolesSeen(t, o) \subseteq existing
  BY DEF RolesSeen, AdminInv, Granted, Knows
<1>2. tx[t].keys \subseteq Key /\ existing \subseteq Role /\ perms \in [Role -> SUBSET Key]
  BY TxWrites DEF AdminInv, Types
<1>3. \A r \in Role : PermsSeen(t, r) \subseteq Key
  BY <1>2 DEF PermsSeen
<1> QED
  BY <1>1, <1>2, <1>3 DEF KeysSeen

\* The read under the lock: what it lets through is true until the end.
LEMMA ReadKeeps == ASSUME AdminInv, NEW t \in Tx, Read(t) PROVE AdminInv'
<1> HIDE DEF Txs
<1>1. CASE Untouchable(t)
  BY <1>1, RollbackKeeps DEF Read
<1>2. CASE ~Untouchable(t)
  <2> DEFINE K == IF tx[t].gesture = "delete" THEN {} ELSE KeysSeen(t, tx[t].author)
             q == [tx[t] EXCEPT !.at = "changing", !.before = K]
  <2>0. tx[t] \in Txs /\ tx[t].at = "reading"
    BY DEF AdminInv, Types, Read
  <2>1. q \in Txs
    <3>1. K \subseteq Key
      BY <2>0, Seen DEF AdminInv, Stands
    <3> HIDE DEF K
    <3> QED
      BY <3>1, <2>0, TxWrites
  <2>2. /\ q.at = "changing" /\ q.gesture = tx[t].gesture /\ q.author = tx[t].author
        /\ q.target = tx[t].target /\ q.written = tx[t].written /\ q.roles = tx[t].roles
    BY <2>0 DEF Txs
  <2>3. tx' = [tx EXCEPT ![t] = q] /\ UNCHANGED <<existing, perms, holds, locks, history>>
    <3>1. tx' = [tx EXCEPT ![t].at = "changing", ![t].before = K]
      BY <1>2 DEF Read
    <3>2. tx \in [Tx -> Txs]
      BY DEF AdminInv, Types
    <3> HIDE DEF K
    <3>3. tx' = [tx EXCEPT ![t] = q]
      BY <3>1, <3>2, Zenon
    <3> QED
      BY <3>3, <1>2 DEF Read
  <2> HIDE DEF q
  <2>4. tx'[t] = q /\ (Stands(t)' /\ Knows(t)' => AdminInv')
    BY <2>0, <2>1, <2>3, MovesAlone
  <2>5. Stands(t)'
    BY <2>0, <2>2, <2>3, <2>4 DEF AdminInv, Stands, Writes, Inside, locks
  <2>6. Knows(t)'
    BY <1>2, <2>0, <2>2, <2>3, <2>4 DEF AdminInv, Knows, Stands, Writes, Untouchable, Held
  <2> QED
    BY <2>4, <2>5, <2>6
<1> QED
  BY <1>1, <1>2

\* The roles taken off are those of the operator, which its lock keeps.
LEMMA RemoveKeeps == ASSUME AdminInv, NEW t \in Tx, RemoveRoles(t) PROVE AdminInv'
<1> DEFINE R == holds[tx[t].target]
           q == [tx[t] EXCEPT !.at = "inserting", !.removed = R]
<1>0. tx[t] \in Txs /\ tx[t].at = "changing" /\ tx[t].gesture = "roles"
  BY DEF AdminInv, Types, RemoveRoles
<1>1. q \in Txs
  <2>1. R \subseteq Role
    BY <1>0 DEF AdminInv, Types, Stands
  <2> HIDE DEF R
  <2> QED
    BY <2>1, <1>0, TxWrites
<1>2. /\ q.at = "inserting" /\ q.gesture = "roles" /\ q.author = tx[t].author /\ q.removed = R
      /\ q.target = tx[t].target /\ q.written = tx[t].written /\ q.roles = tx[t].roles
  BY <1>0 DEF Txs
<1> HIDE DEF Txs
<1>3. tx' = [tx EXCEPT ![t] = q] /\ UNCHANGED <<existing, perms, holds, locks, history>>
  BY Zenon DEF RemoveRoles, AdminInv, Types
<1> HIDE DEF q
<1>4. tx'[t] = q /\ (Stands(t)' /\ Knows(t)' => AdminInv')
  BY <1>0, <1>1, <1>3, MovesAlone
<1>5. Stands(t)'
  BY <1>0, <1>2, <1>3, <1>4 DEF AdminInv, Stands, Writes, Inside, locks
<1>6. Knows(t)'
  BY <1>0, <1>2, <1>3, <1>4 DEF AdminInv, Knows, Stands, Writes
<1> QED
  BY <1>4, <1>5, <1>6

\* The roles inserted exist, and are shared from then on.
LEMMA InsertKeeps == ASSUME AdminInv, NEW t \in Tx, InsertRoles(t) PROVE AdminInv'
<1>1. CASE ~(tx[t].roles \subseteq existing)
  BY <1>1, RollbackKeeps DEF InsertRoles
<1>2. CASE tx[t].roles \subseteq existing
  <2> DEFINE q == [tx[t] EXCEPT !.at = "checking", !.written = TRUE]
  <2>0. tx[t] \in Txs /\ tx[t].at = "inserting" /\ tx[t].gesture = "roles"
    BY DEF AdminInv, Types, InsertRoles, Stands
  <2>1. q \in Txs
    BY <2>0, TxWrites
  <2>2. /\ q.at = "checking" /\ q.gesture = "roles" /\ q.author = tx[t].author /\ q.removed = tx[t].removed
        /\ q.target = tx[t].target /\ q.written = TRUE /\ q.roles = tx[t].roles
    BY <2>0 DEF Txs
  <2> HIDE DEF Txs
  <2>3. tx' = [tx EXCEPT ![t] = q]
    BY <1>2, Zenon DEF InsertRoles, AdminInv, Types
  <2>4. /\ UNCHANGED <<existing, perms, holds, lock, asked, checked, refused>>
        /\ share' = [r \in Role |-> IF r \in tx[t].roles THEN share[r] \cup {t} ELSE share[r]]
        /\ \A r \in tx[t].roles : lock[r] \in {None, t}
    BY <1>2 DEF InsertRoles, history, Locked
  <2> HIDE DEF q
  <2>5. tx' \in [Tx -> Txs] /\ tx'[t] = q /\ \A u \in Tx : u # t => tx'[u] = tx[u]
    BY <2>1, <2>3, OneMoves
  <2>6. Types'
    BY <2>4, <2>5 DEF AdminInv, Types
  <2>7. Excludes'
    <3>1. ASSUME NEW r \in Role, NEW u \in Tx, NEW v \in Tx, lock'[r] = u, v \in share'[r] PROVE v = u
      <4>1. CASE v \in share[r]
        BY <4>1, <3>1, <2>4 DEF AdminInv, Excludes
      <4>2. CASE v \notin share[r]
        <5>1. v = t /\ r \in tx[t].roles
          BY <4>2, <3>1, <2>4
        <5> QED
          BY <5>1, <3>1, <2>4, AdministrationAssumption
      <4> QED
        BY <4>1, <4>2
    <3> QED
      BY <3>1 DEF Excludes
  <2>8. Granted'
    BY <2>4 DEF AdminInv, Granted
  <2>9. ASSUME NEW u \in Tx PROVE Stands(u)' /\ Knows(u)'
    <3>1. CASE u = t
      <4>1. \A r \in Role : t \notin share[r]
        BY <2>0 DEF AdminInv, Stands, Writes
      <4>2. \A r \in Role : t \in share'[r] <=> r \in tx[t].roles
        BY <4>1, <2>4
      <4>3. Stands(t)'
        BY <4>2, <2>0, <2>2, <2>4, <2>5 DEF AdminInv, Stands, Writes, Inside
      <4>4. Knows(t)'
        BY <1>2, <2>0, <2>2, <2>4, <2>5 DEF AdminInv, Knows, Writes
      <4> QED
        BY <3>1, <4>3, <4>4
    <3>2. CASE u # t
      <4>1. \A r \in Role : u \in share'[r] <=> u \in share[r]
        BY <3>2, <2>4
      <4>2. Stands(u) /\ Knows(u) /\ tx'[u] = tx[u]
        BY <3>2, <2>5 DEF AdminInv
      <4> QED
        BY <4>1, <4>2, <2>4 DEF Stands, Knows, Writes, Held
    <3> QED
      BY <3>1, <3>2
  <2>10. Certain'
    <3>1. ASSUME NEW u \in checked' PROVE tx'[u].at = "committing" /\ Keeps(u)'
      <4>1. u \in checked /\ u # t /\ u \in Tx
        BY <2>0, <2>4 DEF AdminInv, Types, Certain
      <4>2. tx'[u] = tx[u] /\ tx[u].at = "committing" /\ Keeps(u)
        BY <4>1, <2>5 DEF AdminInv, Certain
      <4>3. Keeps(u)'
        BY <4>2, <2>4 DEF Keeps, KeysSeen, PermsSeen, RolesSeen, Writes
      <4> QED
        BY <4>2, <4>3
    <3> QED
      BY <3>1 DEF Certain
  <2> QED
    BY <2>6, <2>7, <2>8, <2>9, <2>10 DEF AdminInv
<1> QED
  BY <1>1, <1>2

\* The permissions of a role are written, and seen by their own transaction only.
LEMMA ReplaceKeeps == ASSUME AdminInv, NEW t \in Tx, ReplacePermissions(t) PROVE AdminInv'
<1> DEFINE q == [tx[t] EXCEPT !.at = "checking", !.written = TRUE]
<1>0. tx[t] \in Txs /\ tx[t].at = "changing" /\ tx[t].gesture = "update"
  BY DEF AdminInv, Types, ReplacePermissions
<1>1. q \in Txs
  BY <1>0, TxWrites
<1>2. /\ q.at = "checking" /\ q.gesture = "update" /\ q.author = tx[t].author
      /\ q.target = tx[t].target /\ q.written = TRUE /\ q.roles = tx[t].roles
  BY <1>0 DEF Txs
<1> HIDE DEF Txs
<1>3. tx' = [tx EXCEPT ![t] = q] /\ UNCHANGED <<existing, perms, holds, locks, history>>
  BY Zenon DEF ReplacePermissions, AdminInv, Types
<1> HIDE DEF q
<1>4. tx'[t] = q /\ (Stands(t)' /\ Knows(t)' => AdminInv')
  BY <1>0, <1>1, <1>3, MovesAlone
<1>5. Stands(t)'
  BY <1>0, <1>2, <1>3, <1>4 DEF AdminInv, Stands, Writes, Inside, locks
<1>6. Knows(t)'
  BY <1>0, <1>2, <1>3, <1>4 DEF AdminInv, Knows, Stands, Writes
<1> QED
  BY <1>4, <1>5, <1>6

\* Nobody holds what is deleted, and nobody can be about to: the base has nothing to refuse.
LEMMA DeleteKeeps == ASSUME AdminInv, NEW t \in Tx, DeleteRole(t) PROVE AdminInv'
<1> DEFINE x == tx[t].target
<1> HIDE DEF Txs
<1>1. tx[t].at = "changing" /\ tx[t].gesture = "delete" /\ x \in Role /\ x \notin Default /\ ~Held(x) /\ lock[x] = t
  BY DEF DeleteRole, AdminInv, Stands, Knows, Inside
<1>2. share[x] = {}
  <2>1. ASSUME NEW u \in share[x] PROVE FALSE
    <3>1. u \in Tx /\ u = t
      BY <1>1, <2>1 DEF AdminInv, Types, Excludes
    <3> QED
      BY <3>1, <2>1, <1>1 DEF AdminInv, Stands, Writes
  <2> QED
    BY <2>1
<1>3. /\ Over(t) /\ existing' = existing \ {x} /\ perms' = [perms EXCEPT ![x] = {}]
      /\ checked' = {} /\ UNCHANGED <<holds, asked, refused>>
  BY <1>1, <1>2 DEF DeleteRole
<1>4. /\ tx' \in [Tx -> Txs] /\ tx'[t] = Idle /\ \A u \in Tx : u # t => tx'[u] = tx[u]
      /\ lock' \in [Operator \cup Role -> Tx \cup {None}] /\ share' \in [Role -> SUBSET Tx]
      /\ Excludes' /\ \A u \in Tx : Stands(u)'
  BY <1>3, OverFrees
<1> HIDE DEF x
<1>5. Types'
  <2>1. perms' \in [Role -> SUBSET Key]
    BY <1>3 DEF AdminInv, Types
  <2>2. existing' \subseteq Role /\ Default \subseteq existing'
    BY <1>1, <1>3 DEF AdminInv, Types
  <2> QED
    BY <2>1, <2>2, <1>3, <1>4 DEF AdminInv, Types
<1>6. Granted'
  BY <1>1, <1>3 DEF AdminInv, Granted, Held
<1>7. ASSUME NEW u \in Tx PROVE Knows(u)'
  <2>1. CASE u = t
    BY <2>1, <1>4 DEF Knows, Idle, Writes
  <2>2. CASE u # t
    <3>1. Knows(u) /\ Stands(u) /\ tx'[u] = tx[u]
      BY <2>2, <1>4 DEF AdminInv
    <3>2. Writes(u, "roles") => x \notin tx[u].roles
      BY <3>1, <1>1, <1>2 DEF Stands
    <3> QED
      BY <3>1, <3>2, <1>3 DEF Knows, Writes, Held
  <2> QED
    BY <2>1, <2>2
<1>8. Certain'
  BY <1>3 DEF Certain
<1> QED
  BY <1>4, <1>5, <1>6, <1>7, <1>8 DEF AdminInv

\* The check tells the truth when it is made.
LEMMA CheckKeeps == ASSUME AdminInv, NEW t \in Tx, Check(t) PROVE AdminInv'
<1>1. CASE ~Keeps(t)
  BY <1>1, RollbackKeeps DEF Check
<1>2. CASE Keeps(t)
  <2> DEFINE q == [tx[t] EXCEPT !.at = "committing"]
  <2>0. tx[t] \in Txs /\ tx[t].at = "checking"
    BY DEF AdminInv, Types, Check
  <2>1. q \in Txs
    BY <2>0, TxWrites
  <2>2. /\ q.at = "committing" /\ q.gesture = tx[t].gesture /\ q.author = tx[t].author /\ q.removed = tx[t].removed
        /\ q.target = tx[t].target /\ q.written = tx[t].written /\ q.roles = tx[t].roles
        /\ q.keys = tx[t].keys /\ q.before = tx[t].before
    BY <2>0 DEF Txs
  <2> HIDE DEF Txs
  <2>3. tx' = [tx EXCEPT ![t] = q]
    BY <1>2, Zenon DEF Check, AdminInv, Types
  <2>4. UNCHANGED <<existing, perms, holds, lock, share, asked, refused>> /\ checked' = checked \cup {t}
    BY <1>2 DEF Check, locks
  <2> HIDE DEF q
  <2>5. tx' \in [Tx -> Txs] /\ tx'[t] = q /\ \A u \in Tx : u # t => tx'[u] = tx[u]
    BY <2>1, <2>3, OneMoves
  <2>6. Types' /\ Excludes' /\ Granted'
    BY <2>4, <2>5 DEF AdminInv, Types, Excludes, Granted
  <2>7. ASSUME NEW u \in Tx PROVE Stands(u)' /\ Knows(u)'
    <3>1. CASE u = t
      BY <3>1, <2>0, <2>2, <2>4, <2>5 DEF AdminInv, Stands, Knows, Writes, Held, Inside
    <3>2. CASE u # t
      BY <3>2, <2>4, <2>5 DEF AdminInv, Stands, Knows, Writes, Held
    <3> QED
      BY <3>1, <3>2
  <2>8. Certain'
    <3>1. ASSUME NEW u \in checked' PROVE tx'[u].at = "committing" /\ Keeps(u)'
      <4>0. u \in Tx
        BY <2>4 DEF AdminInv, Types
      <4>1. Keeps(u) /\ tx'[u].at = "committing"
        BY <4>0, <1>2, <2>2, <2>4, <2>5 DEF AdminInv, Certain
      <4>2. /\ tx'[u].before = tx[u].before /\ tx'[u].author = tx[u].author /\ tx'[u].gesture = tx[u].gesture
            /\ tx'[u].written = tx[u].written /\ tx'[u].target = tx[u].target /\ tx'[u].roles = tx[u].roles
            /\ tx'[u].keys = tx[u].keys /\ tx'[u].removed = tx[u].removed
        BY <4>0, <2>2, <2>5
      <4> QED
        BY <4>1, <4>2, <2>4 DEF Keeps, KeysSeen, PermsSeen, RolesSeen, Writes
    <3> QED
      BY <3>1 DEF Certain
  <2> QED
    BY <2>6, <2>7, <2>8 DEF AdminInv
<1> QED
  BY <1>1, <1>2

\* The end: what is granted is what was asked, and nobody else knew otherwise.
LEMMA CommitKeeps == ASSUME AdminInv, NEW t \in Tx, Commit(t) PROVE AdminInv'
<1> DEFINE x == tx[t].target
<1> HIDE DEF Txs
<1>0. tx[t] \in Txs
  BY DEF AdminInv, Types
<1>1. tx[t].at = "committing" /\ tx[t].written /\ tx[t].gesture # "delete" /\ lock[x] = t
  BY DEF Commit, AdminInv, Stands, Inside
<1>2. Over(t) /\ checked' = {} /\ UNCHANGED <<existing, refused>>
  BY DEF Commit
<1>3. /\ tx' \in [Tx -> Txs] /\ tx'[t] = Idle /\ \A u \in Tx : u # t => tx'[u] = tx[u]
      /\ lock' \in [Operator \cup Role -> Tx \cup {None}] /\ share' \in [Role -> SUBSET Tx]
      /\ Excludes' /\ \A u \in Tx : Stands(u)'
  BY <1>2, OverFrees
<1>4. Certain' /\ Knows(t)'
  BY <1>2, <1>3 DEF Certain, Knows, Idle, Writes
<1>5. CASE tx[t].gesture # "roles"
  <2>1. perms' = [perms EXCEPT ![x] = tx[t].keys] /\ UNCHANGED <<holds, asked>>
    BY <1>5 DEF Commit
  <2>2. perms' \in [Role -> SUBSET Key]
    BY <2>1, <1>0, TxWrites DEF AdminInv, Types
  <2>3. Types' /\ Granted'
    BY <2>1, <2>2, <1>2, <1>3 DEF AdminInv, Types, Granted
  <2>4. \A u \in Tx : u # t => Knows(u)'
    BY <2>1, <1>2, <1>3 DEF AdminInv, Knows, Writes, Held
  <2> QED
    BY <2>3, <2>4, <1>3, <1>4 DEF AdminInv
<1>6. CASE tx[t].gesture = "roles"
  <2> DEFINE R == tx[t].roles
  <2>1. /\ holds' = [holds EXCEPT ![x] = (@ \ tx[t].removed) \cup R]
        /\ asked' = [asked EXCEPT ![x] = R] /\ UNCHANGED perms
    BY <1>6 DEF Commit
  <2>2. x \in Operator /\ tx[t].removed = holds[x] /\ R \subseteq existing /\ \A r \in R : t \in share[r]
    <3>1. R \subseteq existing
      BY <1>1, <1>6 DEF AdminInv, Knows, Writes
    <3>2. x \in Operator /\ tx[t].removed = holds[x]
      BY <1>1, <1>6 DEF AdminInv, Knows, Stands
    <3> QED
      BY <3>1, <3>2, <1>1, <1>6 DEF AdminInv, Types, Stands, Writes
  <2>3. /\ holds' \in [Operator -> SUBSET Role] /\ holds' = asked'
        /\ \A o \in Operator : holds'[o] = IF o = x THEN R ELSE holds[o]
    <3>1. R \subseteq Role /\ holds = asked
      BY <2>2 DEF AdminInv, Types, Granted
    <3>2. holds' = [holds EXCEPT ![x] = R]
      BY <2>1, <2>2
    <3> HIDE DEF R, x
    <3> QED
      BY <3>1, <3>2, <2>1, <2>2 DEF AdminInv, Types
  <2> HIDE DEF R, x
  <2>4. Types' /\ Granted'
    BY <2>1, <2>2, <2>3, <1>2, <1>3 DEF AdminInv, Types, Granted
  <2>5. ASSUME NEW u \in Tx, u # t PROVE Knows(u)'
    <3>1. Knows(u) /\ Stands(u) /\ tx'[u] = tx[u]
      BY <2>5, <1>3 DEF AdminInv
    <3>2. tx[u].at \in Inside => tx[u].target # x
      BY <3>1, <2>5, <1>1 DEF Stands
    <3>3. ASSUME tx[u].gesture = "roles", tx[u].at \in {"inserting", "checking", "committing"}
          PROVE  tx[u].removed = holds'[tx[u].target]
      BY <3>1, <3>2, <3>3, <2>3 DEF Knows, Stands, Inside
    <3>4. ASSUME tx[u].gesture = "delete", tx[u].at = "changing" PROVE ~Held(tx[u].target)'
      <4>1. lock[tx[u].target] = u /\ tx[u].target \in Role /\ ~Held(tx[u].target)
        BY <3>1, <3>4 DEF Stands, Knows, Inside
      <4>2. tx[u].target \notin R
        BY <4>1, <2>2, <2>5 DEF AdminInv, Excludes
      <4> QED
        BY <4>1, <4>2, <2>3, <3>1 DEF Held
    <3> QED
      BY <3>1, <3>3, <3>4, <1>2 DEF Knows, Writes
  <2> QED
    BY <2>4, <2>5, <1>3, <1>4 DEF AdminInv
<1> QED
  BY <1>5, <1>6

\* A role just created is held by nobody, and seen by nobody.
LEMMA CreateKeeps == ASSUME AdminInv, NEW r \in Role, NEW K \in SUBSET Key, CreateRole(r, K) PROVE AdminInv'
<1> HIDE DEF Txs
<1>1. /\ r \notin existing /\ r \notin Default /\ existing' = existing \cup {r} /\ perms' = [perms EXCEPT ![r] = K]
      /\ UNCHANGED <<holds, tx, lock, share, asked, checked, refused>>
  BY AdministrationAssumption DEF CreateRole, locks, history
<1>2. Types' /\ Excludes' /\ Granted'
  BY <1>1 DEF AdminInv, Types, Excludes, Granted
<1>3. ASSUME NEW t \in Tx PROVE Stands(t)' /\ Knows(t)'
  BY <1>1 DEF AdminInv, Stands, Knows, Writes, Held
<1>4. ASSUME NEW t \in checked' PROVE tx'[t].at = "committing" /\ Keeps(t)'
  <2>1. t \in Tx /\ tx[t].at = "committing" /\ Keeps(t) /\ tx[t].author \in Operator
    BY <1>1, <1>4 DEF AdminInv, Types, Certain, Stands
  <2>2. RolesSeen(t, tx[t].author)' = RolesSeen(t, tx[t].author) /\ RolesSeen(t, tx[t].author) \subseteq existing
    BY <2>1, <1>1, Seen DEF RolesSeen, Writes
  <2>3. \A o \in existing : PermsSeen(t, o)' = PermsSeen(t, o)
    BY <1>1 DEF PermsSeen, Writes, AdminInv, Types
  <2>4. KeysSeen(t, tx[t].author)' = KeysSeen(t, tx[t].author)
    BY <2>2, <2>3, <1>1 DEF KeysSeen
  <2> QED
    BY <2>1, <2>4, <1>1 DEF Keeps
<1> QED
  BY <1>2, <1>3, <1>4 DEF AdminInv, Certain

\* No step breaks the invariant.
LEMMA AdminInvStep == AdminInv /\ [Next]_vars => AdminInv'
<1> SUFFICES ASSUME AdminInv, [Next]_vars PROVE AdminInv'
  OBVIOUS
<1>1. ASSUME NEW t \in Tx, Ask(t) PROVE AdminInv'
  <2>1. ASSUME NEW o \in Operator, NEW p \in Operator, NEW R \in SUBSET Role, Begin(t, o, "roles", p, R, {})
        PROVE  AdminInv'
    BY <2>1, AskKeeps DEF Gesture
  <2>2. ASSUME NEW o \in Operator, NEW r \in Role, NEW K \in SUBSET Key, Begin(t, o, "update", r, {}, K)
        PROVE  AdminInv'
    BY <2>2, AskKeeps DEF Gesture
  <2>3. ASSUME NEW o \in Operator, NEW r \in Role, Begin(t, o, "delete", r, {}, {}) PROVE AdminInv'
    BY <2>3, AskKeeps DEF Gesture
  <2> QED
    BY <1>1, <2>1, <2>2, <2>3 DEF Ask
<1>2. CASE UNCHANGED vars
  <2>1. UNCHANGED <<existing, perms, holds, tx, lock, share, asked, checked, refused>>
    BY <1>2 DEF vars, locks, history
  <2>2. Types' /\ Excludes' /\ Granted'
    BY <2>1 DEF AdminInv, Types, Excludes, Granted
  <2>3. \A t \in Tx : Stands(t)' /\ Knows(t)'
    BY <2>1 DEF AdminInv, Stands, Knows, Writes, Held
  <2>4. Certain'
    BY <2>1 DEF AdminInv, Certain, Keeps, KeysSeen, PermsSeen, RolesSeen, Writes
  <2> QED
    BY <2>2, <2>3, <2>4 DEF AdminInv
<1> QED
  BY <1>1, <1>2, LockKeeps, ReadKeeps, RemoveKeeps, InsertKeeps, ReplaceKeeps, DeleteKeeps, CheckKeeps,
     CommitKeeps, CreateKeeps DEF Next, Step

\* What the steps keep, every behaviour keeps.
LEMMA AdminInvariant == Spec => []AdminInv
  BY AdminInvInit, AdminInvStep, PTL DEF Spec

\* Every variable keeps its type: in particular a default role is never deleted.
THEOREM AdministrationTypes == Spec => []TypeOK
<1>1. AdminInv => TypeOK
  BY DEF AdminInv, Types, TypeOK, Txs
<1> QED
  BY <1>1, AdminInvariant, PTL

\* The roles an operator holds are those of one accepted request, whole, however
\* requests about it interleave (admin.go, SetOperatorRoles).
THEOREM RolesDoNotAddUp == Spec => []RolesAreAsAsked
<1>1. AdminInv => RolesAreAsAsked
  BY DEF AdminInv, Granted, RolesAreAsAsked
<1> QED
  BY <1>1, AdminInvariant, PTL

\* A role held, or about to be, exists, and the base never has to refuse a deletion
\* (admin.go, DeleteRole).
THEOREM DeletionsQueue == Spec => []DeletionIsQueued
<1>1. AdminInv => DeletionIsQueued
  BY DEF AdminInv, Granted, Knows, DeletionIsQueued
<1> QED
  BY <1>1, AdminInvariant, PTL

\* A gesture whose check still tells the truth leaves its author the administration
\* keys it had (admin.go, withoutLockout).
THEOREM CheckedIsKept == Spec => CheckedGestureKeepsKeys
<1>1. AdminInv /\ [Next]_vars => [\A t \in checked : Commits(t) => AuthorKeeps(t)]_vars
  <2> SUFFICES ASSUME AdminInv, Next, NEW t \in checked, Commits(t), NEW o \in Operator, tx[t].author = o
               PROVE  tx[t].before \subseteq Keys(o)'
    BY DEF AuthorKeeps
  <2>1. t \in Tx /\ tx[t].at = "committing" /\ tx'[t].at = "idle" /\ Keeps(t)
    BY DEF AdminInv, Types, Certain, Commits
  <2>2. Commit(t)
    <3>1. ASSUME NEW u \in Tx, Step(u), u # t PROVE FALSE
      <4>1. tx'[t] = tx[t]
        BY <3>1 DEF Step, Ask, Begin, Lock, Read, RemoveRoles, InsertRoles, ReplacePermissions, DeleteRole,
                    Check, Commit, Rollback, Over, AdminInv, Types
      <4> QED
        BY <4>1, <2>1
    <3>2. ASSUME NEW r \in Role, NEW K \in SUBSET Key, CreateRole(r, K) PROVE FALSE
      BY <3>2, <2>1 DEF CreateRole
    <3>3. Step(t)
      BY <3>1, <3>2 DEF Next
    <3> QED
      BY <3>3, <2>1 DEF Step, Ask, Begin, Lock, Read, RemoveRoles, InsertRoles, ReplacePermissions, DeleteRole, Check
  <2>3. Keys(o)' = KeysSeen(t, o)
    <3>1. tx[t].written /\ tx[t].gesture \in {"roles", "update"} /\ tx[t].target \in Operator \cup Role
      BY <2>1, TxWrites DEF AdminInv, Types, Stands, Gesture
    <3>2. CASE tx[t].gesture = "roles"
      <4>1. holds'[o] = RolesSeen(t, o) /\ perms' = perms
        BY <3>1, <3>2, <2>2 DEF Commit, RolesSeen, Writes, AdminInv, Types
      <4> QED
        BY <4>1, <3>2 DEF Keys, KeysSeen, PermsSeen, Writes
    <3>3. CASE tx[t].gesture = "update"
      <4>1. holds'[o] = RolesSeen(t, o) /\ holds'[o] \subseteq Role
        BY <3>3, <2>2 DEF Commit, RolesSeen, Writes, AdminInv, Types
      <4>2. \A r \in Role : perms'[r] = PermsSeen(t, r)
        BY <3>1, <3>3, <2>2 DEF Commit, PermsSeen, Writes, AdminInv, Types
      <4> QED
        BY <4>1, <4>2 DEF Keys, KeysSeen
    <3> QED
      BY <3>1, <3>2, <3>3
  <2> QED
    BY <2>1, <2>3 DEF Keeps
<1> QED
  BY <1>1, AdminInvariant, PTL DEF Spec, CheckedGestureKeepsKeys
===============================================================================
