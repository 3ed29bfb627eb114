------------------------------- MODULE Serving -------------------------------
(***************************************************************************)
(* A replica at work: the requests it serves (HttpApi) and its sweep loop  *)
(* (SweepLoop), which meet at the locks of the showtimes and in the lapsed *)
(* claims that either of them releases.                                    *)
(***************************************************************************)
EXTENDS HttpApi, SweepLoop

vars == <<shared, http, sweepVars>>

ASSUME OwnersAssumption == Sweeper \notin Requests

Init == InitShared /\ InitHttp /\ InitSweep

Next ==
    \/ /\ \E r \in Requests : Arrive(r) \/ Serve(r) \/ Panic(r) \/ Leave(r)
       /\ UNCHANGED sweepVars
    \/ /\ Sweep \/ Stop \/ \E s \in Showtimes : Lapse(s)
       /\ UNCHANGED http

\* A request goes on by itself, because Postgres carries out or fails every
\* statement and lock_timeout ends the wait for a lock; and so does the sweep
\* loop.  Nobody has to send a request, to leave or to panic.
Spec ==
    /\ Init /\ [][Next]_vars
    /\ \A r \in Requests : WF_vars(Serve(r) /\ UNCHANGED sweepVars)
    /\ WF_vars(Sweep /\ UNCHANGED http)

-----------------------------------------------------------------------------
(* Properties                                                              *)

\* Every variable has its type, and who is in a transaction owns the lock of
\* one showtime, and nobody else owns any.
TypeOK ==
    /\ HttpTypeOK /\ SweepTypeOK
    /\ lapsed \in [Showtimes -> Nat]
    /\ \A p \in Requests \cup {Sweeper} :
         Cardinality({s \in Showtimes : lock[s] = p}) =
           IF p = Sweeper THEN (IF sweep.at \in {"reclaim", "commit"} THEN 1 ELSE 0)
           ELSE IF http[p].at = "tx" THEN 1 ELSE 0

\* The showtimes that can fill a batch before s is reached: the earlier ones, if
\* there are enough of them.
Rivals(s) ==
    LET earlier == {t \in Showtimes : t < s}
    IN  IF Cardinality(earlier) < Batch THEN {} ELSE earlier

\* Once no request locks a showtime, the sweeper clears it, although it fails at
\* times and other showtimes are busy for ever, which it skips.  Only where the
\* earlier showtimes fill a batch must they be free as well: the list starts with
\* the same ones each time, and a busy one keeps its place in it.
QuietDrains ==
    \A s \in Showtimes :
        <>[](\A t \in {s} \cup Rivals(s) : lock[t] \notin Requests)
          => <>[](lapsed[s] = 0 \/ stopping)
=============================================================================
