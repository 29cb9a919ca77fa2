---------------------------- MODULE AttemptCounter ----------------------------
(***************************************************************************)
(* A row of login_attempt_counters and the statements of                   *)
(* internal/store/counters.go on it.  Time is relative: a row carries the  *)
(* age of last_failure_at, and a statement the age of its now(), which     *)
(* PostgreSQL freezes when the transaction starts: a statement that waited *)
(* for the row lock writes an instant of the past.                         *)
(***************************************************************************)
EXTENDS Naturals

CONSTANTS
    Window,     \* LockWindow: duration of the lock, and of the forgetting
    Threshold,  \* MaxFailures
    Patience    \* the longest a statement waits for the row lock

ASSUME CounterAssumption ==
    /\ Window \in Nat /\ Threshold \in Nat \ {0} /\ Patience \in Nat
    /\ Patience < Window

Oldest == Window + Patience   \* older than any statement can still see

\* An absent row and a row whose window has passed count the same.
NoRow == [failures |-> 0, age |-> Oldest]

Forgotten(row, now) == row.age >= Window + now
Locks(row, now) == row.failures >= Threshold /\ ~Forgotten(row, now)

\* Mutant of Refused: a refused attempt pushes the deadline.
RefusedPushes(row, now) == [row EXCEPT !.age = now]

Refused(row, now) == row

\* Mutant of Admits: one attempt too many.
AdmitsOneMore(row, now) == Forgotten(row, now) \/ row.failures <= Threshold

Admits(row, now) == Forgotten(row, now) \/ row.failures < Threshold

\* Mutant of Count: the forgetting window is left out.
CountForEver(row, now) == [failures |-> row.failures + 1, age |-> now]

Count(row, now) ==
    [failures |-> IF Forgotten(row, now) THEN 1 ELSE row.failures + 1, age |-> now]

Reserve(row, now) == IF Admits(row, now) THEN Count(row, now) ELSE Refused(row, now)

Release(row) == [row EXCEPT !.failures = IF @ = 0 THEN 0 ELSE @ - 1]

Older(row) == [row EXCEPT !.age = IF @ < Oldest THEN @ + 1 ELSE @]
===============================================================================
