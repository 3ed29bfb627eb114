----------------------------- MODULE ShowtimeTx ------------------------------
(***************************************************************************)
(* What the requests and the sweep loop of a replica share in the          *)
(* database, as InShowtimeTx (internal/store/tx.go) shows it to them: the  *)
(* advisory lock of each showtime, and how many of its claims have lapsed  *)
(* without being released yet.  Module Booking has the rows behind it.     *)
(***************************************************************************)
EXTENDS Naturals

CONSTANTS
    Showtimes,   \* showtime ids
    None         \* no owner

VARIABLES
    lock,        \* lock[s]: the owner of pg_advisory_xact_lock(s), or None
    lapsed       \* lapsed[s]: how many claims on seats of s are lapsed and unreleased

shared == <<lock, lapsed>>

ASSUME ShowtimesAssumption == Showtimes \subseteq Nat

InitShared == lock = [s \in Showtimes |-> None] /\ lapsed = [s \in Showtimes |-> 0]

\* Mutant: the lock is not waited for.
BadLockShowtime(p, s) == lock' = [lock EXCEPT ![s] = p]

\* LockShowtime: pg_advisory_xact_lock returns once the lock is free.
LockShowtime(p, s) == lock[s] = None /\ lock' = [lock EXCEPT ![s] = p]

\* COMMIT or ROLLBACK gives the lock back, and so does the end of the session.
EndTx(p) == lock' = [s \in Showtimes |-> IF lock[s] = p THEN None ELSE lock[s]]
=============================================================================
