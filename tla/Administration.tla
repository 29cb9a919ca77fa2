--------------------------- MODULE Administration ---------------------------
(***************************************************************************)
(* The roles of operators and the permissions of roles                     *)
(* (internal/store/admin.go): transactions of administrators, interleaved  *)
(* statement by statement under READ COMMITTED.  A statement sees what is  *)
(* committed when it starts and what its own transaction wrote; FOR UPDATE *)
(* locks a row until the end, and the insertion of a role held takes FOR   *)
(* KEY SHARE on the row of the role.                                       *)
(***************************************************************************)
EXTENDS Naturals, FiniteSets

CONSTANTS
    Operator,
    Default,  \* the seeded roles that hold every administration key, which nobody edits
    Custom,   \* the roles administrators create
    Tx,       \* transactions in flight at once
    None

ASSUME AdministrationAssumption ==
    Default # {} /\ Default \cap Custom = {} /\ None \notin Operator \cup Default \cup Custom \cup Tx

Role == Default \cup Custom

Key == {"operators:manage", "roles:manage"}   \* lockoutKeys

VARIABLES
    existing, \* the rows of roles
    perms,    \* perms[r]: the keys of lockoutKeys that r grants (role_permissions)
    holds,    \* holds[o]: the roles of o (operator_roles)
    tx,       \* tx[t]: the transaction
    lock,     \* lock[x]: the transaction that holds FOR UPDATE on operator or role x
    share,    \* share[r]: the transactions that hold FOR KEY SHARE on role r
    asked,    \* history: asked[o]: the roles of the last request that was accepted
    checked,  \* history: the transactions whose last check still tells the truth
    refused   \* history: whether the base refused a deletion that the code let through

locks == <<lock, share>>
history == <<asked, checked, refused>>
vars == <<existing, perms, holds, tx, locks, history>>

Gesture == {"roles", "update", "delete"}
Idle == [at |-> "idle", gesture |-> "roles", author |-> None, target |-> None, roles |-> {}, keys |-> {},
         before |-> {}, removed |-> {}, written |-> FALSE]

TypeOK ==
    /\ existing \subseteq Role /\ Default \subseteq existing
    /\ perms \in [Role -> SUBSET Key] /\ holds \in [Operator -> SUBSET Role]
    /\ tx \in [Tx -> [at : {"idle", "locking", "reading", "changing", "inserting", "checking", "committing"},
                      gesture : Gesture, author : Operator \cup {None}, target : Operator \cup Role \cup {None},
                      roles : SUBSET Role, keys : SUBSET Key, before : SUBSET Key, removed : SUBSET Role,
                      written : BOOLEAN]]
    /\ lock \in [Operator \cup Role -> Tx \cup {None}] /\ share \in [Role -> SUBSET Tx]
    /\ asked \in [Operator -> SUBSET Role] /\ checked \subseteq Tx /\ refused \in BOOLEAN

\* The seed, and the first operator with a default role that holds both keys.
Init ==
    /\ existing = Default
    /\ perms = [r \in Role |-> IF r \in Default THEN Key ELSE {}]
    /\ holds \in [Operator -> {{}, Default}] /\ \E o \in Operator : holds[o] = Default
    /\ tx = [t \in Tx |-> Idle]
    /\ lock = [x \in Operator \cup Role |-> None] /\ share = [r \in Role |-> {}]
    /\ asked = holds /\ checked = {} /\ refused = FALSE

----------------------------------------------------------------------------
(* What a statement of a transaction sees. *)

Writes(t, gesture) == tx[t].gesture = gesture /\ tx[t].written

RolesSeen(t, o) ==
    IF Writes(t, "roles") /\ tx[t].target = o THEN (holds[o] \ tx[t].removed) \cup tx[t].roles ELSE holds[o]

PermsSeen(t, r) == IF Writes(t, "update") /\ tx[t].target = r THEN tx[t].keys ELSE perms[r]

\* lockoutKeysHeld.
KeysSeen(t, o) == UNION {PermsSeen(t, r) : r \in RolesSeen(t, o)}

Keys(o) == UNION {perms[r] : r \in holds[o]}

----------------------------------------------------------------------------
(* The gestures. *)

Needs(gesture) == IF gesture = "roles" THEN "operators:manage" ELSE "roles:manage"

\* The guard reads the permissions of the session before the transaction opens.
Begin(t, o, gesture, target, R, K) ==
    /\ tx[t].at = "idle" /\ Needs(gesture) \in Keys(o)
    /\ tx' = [tx EXCEPT ![t] = [Idle EXCEPT !.at = "locking", !.gesture = gesture, !.author = o,
                                            !.target = target, !.roles = R, !.keys = K]]
    /\ UNCHANGED <<existing, perms, holds, locks, history>>

Ask(t) ==
    \E o \in Operator :
        \/ \E p \in Operator, R \in SUBSET Role : Begin(t, o, "roles", p, R, {})
        \/ \E r \in Role, K \in SUBSET Key : Begin(t, o, "update", r, {}, K)
        \/ \E r \in Role : Begin(t, o, "delete", r, {}, {})

\* CreateRole: one transaction, and nothing that another gesture reads before the end.
CreateRole(r, K) ==
    /\ r \in Custom \ existing /\ \E o \in Operator : "roles:manage" \in Keys(o)
    /\ \A t \in Tx : lock[r] # t
    /\ existing' = existing \cup {r} /\ perms' = [perms EXCEPT ![r] = K]
    /\ UNCHANGED <<holds, tx, locks, history>>

\* Commit or rollback: the locks are released.
Over(t) ==
    /\ tx' = [tx EXCEPT ![t] = Idle]
    /\ lock' = [x \in DOMAIN lock |-> IF lock[x] = t THEN None ELSE lock[x]]
    /\ share' = [r \in Role |-> share[r] \ {t}]

Rollback(t) == Over(t) /\ checked' = checked \ {t} /\ UNCHANGED <<existing, perms, holds, asked>>

Locked(x, t) == lock[x] \notin {None, t}

\* Mutant of LocksTarget: the row is read without FOR UPDATE.
ReadsTarget(t) == UNCHANGED lock

LocksTarget(t) ==
    LET x == tx[t].target IN
    /\ ~Locked(x, t) /\ (x \in Role => share[x] \subseteq {t})
    /\ lock' = [lock EXCEPT ![x] = t]

\* SELECT ... FOR UPDATE on the operator, or customRoleForUpdate on the role.
Lock(t) ==
    /\ tx[t].at = "locking"
    /\ IF tx[t].gesture # "roles" /\ tx[t].target \notin existing
       THEN Rollback(t) /\ UNCHANGED refused
       ELSE /\ LocksTarget(t) /\ tx' = [tx EXCEPT ![t].at = "reading"]
            /\ UNCHANGED <<existing, perms, holds, share, history>>

Held(r) == \E o \in Operator : r \in holds[o]

Untouchable(t) == tx[t].target \in Default \/ (tx[t].gesture = "delete" /\ Held(tx[t].target))

\* The read under the lock: a default role, and a deletion of a role somebody holds, are
\* refused; withoutLockout reads the keys of the author, which a deletion does not change.
Read(t) ==
    /\ tx[t].at = "reading"
    /\ IF Untouchable(t)
       THEN Rollback(t) /\ UNCHANGED refused
       ELSE /\ tx' = [tx EXCEPT ![t].at = "changing",
                                 ![t].before = IF tx[t].gesture = "delete" THEN {} ELSE KeysSeen(t, tx[t].author)]
            /\ UNCHANGED <<existing, perms, holds, locks, history>>

\* DELETE FROM operator_roles: the rows its snapshot has.
RemoveRoles(t) ==
    /\ tx[t].at = "changing" /\ tx[t].gesture = "roles"
    /\ tx' = [tx EXCEPT ![t].at = "inserting", ![t].removed = holds[tx[t].target]]
    /\ UNCHANGED <<existing, perms, holds, locks, history>>

\* INSERT INTO operator_roles: waits for the rows of the roles, and fails on an unknown one.
InsertRoles(t) ==
    /\ tx[t].at = "inserting"
    /\ \A r \in tx[t].roles : ~Locked(r, t)
    /\ IF tx[t].roles \subseteq existing
       THEN /\ tx' = [tx EXCEPT ![t].at = "checking", ![t].written = TRUE]
            /\ share' = [r \in Role |-> IF r \in tx[t].roles THEN share[r] \cup {t} ELSE share[r]]
            /\ UNCHANGED <<existing, perms, holds, lock, history>>
       ELSE Rollback(t) /\ UNCHANGED refused

ReplacePermissions(t) ==
    /\ tx[t].at = "changing" /\ tx[t].gesture = "update"
    /\ tx' = [tx EXCEPT ![t].at = "checking", ![t].written = TRUE]
    /\ UNCHANGED <<existing, perms, holds, locks, history>>

\* ON DELETE RESTRICT: a role that somebody holds makes the statement fail.
DeleteRole(t) ==
    /\ tx[t].at = "changing" /\ tx[t].gesture = "delete"
    /\ IF Held(tx[t].target) \/ share[tx[t].target] # {}
       THEN Rollback(t) /\ refused' = TRUE
       ELSE /\ Over(t)
            /\ existing' = existing \ {tx[t].target} /\ perms' = [perms EXCEPT ![tx[t].target] = {}]
            /\ checked' = {} /\ UNCHANGED <<holds, asked, refused>>

\* Mutant of Keeps: the check reads what the author holds without this gesture.
KeptBefore(t) == tx[t].before \subseteq Keys(tx[t].author)

Keeps(t) == tx[t].before \subseteq KeysSeen(t, tx[t].author)

\* withoutLockout reads the keys again.
Check(t) ==
    /\ tx[t].at = "checking"
    /\ IF Keeps(t)
       THEN /\ tx' = [tx EXCEPT ![t].at = "committing"] /\ checked' = checked \cup {t}
            /\ UNCHANGED <<existing, perms, holds, locks, asked, refused>>
       ELSE Rollback(t) /\ UNCHANGED refused

Commit(t) ==
    /\ tx[t].at = "committing"
    /\ IF tx[t].gesture = "roles"
       THEN /\ holds' = [holds EXCEPT ![tx[t].target] = (@ \ tx[t].removed) \cup tx[t].roles]
            /\ asked' = [asked EXCEPT ![tx[t].target] = tx[t].roles] /\ UNCHANGED perms
       ELSE perms' = [perms EXCEPT ![tx[t].target] = tx[t].keys] /\ UNCHANGED <<holds, asked>>
    /\ Over(t) /\ checked' = {} /\ UNCHANGED <<existing, refused>>

Step(t) ==
    \/ Ask(t) \/ Lock(t) \/ Read(t)
    \/ RemoveRoles(t) \/ InsertRoles(t) \/ ReplacePermissions(t) \/ DeleteRole(t)
    \/ Check(t) \/ Commit(t)

Next == (\E t \in Tx : Step(t)) \/ (\E r \in Role, K \in SUBSET Key : CreateRole(r, K))

Spec == Init /\ [][Next]_vars

----------------------------------------------------------------------------
(* Properties. *)

\* Two requests about one operator do not add up: the roles an operator holds are those
\* of one request, whole (admin.go, SetOperatorRoles: the lock of the operator).
RolesAreAsAsked == holds = asked

\* A role that is held, or about to be, exists, and its deletion is refused by the code
\* with the names of its holders, never by the base (admin.go, DeleteRole: the lock
\* "met en file toute attribution concurrente").
DeletionIsQueued ==
    /\ ~refused
    /\ \A o \in Operator : holds[o] \subseteq existing
    /\ \A t \in Tx : Writes(t, "roles") => tx[t].roles \subseteq existing

Commits(t) == tx[t].at = "committing" /\ tx'[t].at = "idle"
AuthorKeeps(t) == \A o \in Operator : tx[t].author = o => tx[t].before \subseteq Keys(o)'

\* A gesture that nothing else came to disturb between its check and its commit leaves
\* its author the administration keys it had (admin.go, withoutLockout).
CheckedGestureKeepsKeys ==
    [][\A t \in checked : Commits(t) => AuthorKeeps(t)]_vars
==============================================================================
