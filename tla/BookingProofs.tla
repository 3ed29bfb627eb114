---------------------------- MODULE BookingProofs ----------------------------
(* Proofs about Booking, for every value of its constants. *)
EXTENDS BookingInv, FiniteSetTheorems, TLAPS

-----------------------------------------------------------------------------
(* Types                                                                   *)

\* The values a process starts from have their types.
LEMMA NullTypes ==
    /\ NoReq \in Requests
    /\ NoTx \in Txs
    /\ NoHold \in HoldRow
    /\ NoAnswer \in Answers
  BY ConfigAssumption DEF NoReq, Requests, Kinds, NoTx, Txs, NoHold, HoldRow, HoldStates,
     NoAnswer, AnswerTo, Answers, Replies

\* An answer to a typed request is typed.
LEMMA AnswerType ==
    ASSUME NEW q \in Requests, NEW r \in Replies
    PROVE  AnswerTo(q, r) \in Answers
  BY DEF AnswerTo, Answers, Requests

\* Rollback, the end of every refused or failed transaction, keeps the types.
LEMMA RollbackType ==
    ASSUME TypeOK, NEW p \in Procs, NEW r \in Replies, Rollback(p, r)
    PROVE  TypeOK'
  <1>1. answer' \in Answers
    BY AnswerType DEF TypeOK, Rollback, End
  <1>2. lock' \in [Showtimes -> Procs \cup {None}]
    BY DEF TypeOK, Rollback, End, Unlock
  <1>3. pc' \in [Procs -> Labels]
    BY DEF TypeOK, Rollback, End, After, Labels
  <1>4. QED
    BY <1>1, <1>2, <1>3, NullTypes DEF TypeOK, Rollback, End

\* An answer given before any transaction keeps the types.
LEMMA AnswerKeepsType ==
    ASSUME TypeOK, NEW q \in Requests, NEW r \in Replies, Answer(q, r)
    PROVE  TypeOK'
  BY AnswerType DEF TypeOK, Answer

\* So does BEGIN.
LEMMA BeginType ==
    ASSUME TypeOK, NEW p \in Procs, NEW q \in Requests, Begin(p, q),
           todo' \in [Procs -> SUBSET Showtimes]
    PROVE  TypeOK'
  <1>1. [NoTx EXCEPT !.now = now] \in Txs
    BY NullTypes DEF TypeOK, Txs
  <1>2. QED
    BY <1>1, NullTypes DEF TypeOK, Begin, Labels

\* And a step inside the transaction.
LEMMA ContinueType ==
    ASSUME TypeOK, NEW p \in Procs, NEW l \in Labels, NEW t \in Txs, Continue(p, l, t)
    PROVE  TypeOK'
  BY NullTypes DEF TypeOK, Continue

\* A transaction that writes down rows to release, to claim or to sell, or the
\* reference it drew, is still one.
LEMMA TxType ==
    ASSUME NEW t \in Txs
    PROVE  /\ \A F \in SUBSET (HoldIds \X SeatIds) : [t EXCEPT !.freed = F] \in Txs
           /\ \A S \in SUBSET SeatIds : [t EXCEPT !.claims = S] \in Txs
           /\ \A S \in SUBSET SeatIds, n \in Nat : [t EXCEPT !.sold = S, !.total = n] \in Txs
           /\ \A ref \in Refs : [t EXCEPT !.ref = ref] \in Txs
  <1>1. \A F \in SUBSET (HoldIds \X SeatIds) : [t EXCEPT !.freed = F] \in Txs
    BY DEF Txs
  <1>2. \A S \in SUBSET SeatIds : [t EXCEPT !.claims = S] \in Txs
    BY DEF Txs
  <1>3. \A S \in SUBSET SeatIds, n \in Nat : [t EXCEPT !.sold = S, !.total = n] \in Txs
    BY DEF Txs
  <1>4. \A ref \in Refs : [t EXCEPT !.ref = ref] \in Txs
    BY DEF Txs
  <1>5. QED
    BY <1>1, <1>2, <1>3, <1>4

\* Under the invariant every step keeps the types: a transaction that writes
\* has a hold token, a showtime of the catalogue and an attempt left.
LEMMA TypeStep ==
    ASSUME TypeOK, HoldRowsOK, \A p \in Procs : ProcOK(p), Next
    PROVE  TypeOK'
  <1>0. Labels = {"idle", "next", "begun", "body", "claim", "insert", "recheck", "commit"}
        /\ Refusals \subseteq Replies
    BY DEF Labels, Replies
  <1>1. CASE Tick
    BY <1>1, NullTypes DEF TypeOK, Tick
  <1>2. ASSUME NEW p \in Clients, StartHold(p) PROVE TypeOK'
    <2>0. p \in Procs BY DEF Procs
    <2>1. PICK st \in Showtimes, list \in SeatLists, cust \in Customers \cup {None} :
             \/ Answer(NoReq, "invalidSelection")
             \/ /\ \E h \in HoldIds : Begin(p, HoldRequest(st, h, list, cust))
                /\ UNCHANGED todo
      BY <1>2 DEF StartHold
    <2>2. CASE Answer(NoReq, "invalidSelection")
      BY <2>2, NullTypes, AnswerKeepsType DEF Replies, Refusals
    <2>3. ASSUME NEW h \in HoldIds, Begin(p, HoldRequest(st, h, list, cust)), UNCHANGED todo
          PROVE TypeOK'
      <3>1. {list[i] : i \in DOMAIN list} \subseteq Int
        BY InputAssumption
      <3>2. HoldRequest(st, h, list, cust) \in Requests
        BY <3>1, NullTypes DEF HoldRequest, Requests, NoReq, Kinds
      <3>3. QED
        BY <2>0, <2>3, <3>2, BeginType DEF TypeOK
    <2>4. QED
      BY <2>1, <2>2, <2>3
  <1>3. ASSUME NEW p \in Clients, StartConfirm(p) PROVE TypeOK'
    <2>0. p \in Procs BY DEF Procs
    <2>1. PICK h \in HoldIds, key \in Keys \cup {None} :
            LET q == [NoReq EXCEPT !.kind = "confirm", !.tok = h, !.key = key,
                                   !.show = holds[h].show]
            IN  \/ Answer(q, "invalidSelection")
                \/ Answer(q, "notFound")
                \/ Begin(p, q) /\ UNCHANGED todo
      BY <1>3 DEF StartConfirm
    <2> DEFINE q == [NoReq EXCEPT !.kind = "confirm", !.tok = h, !.key = key,
                                  !.show = holds[h].show]
    <2>2. q \in Requests
      BY DEF TypeOK, Requests, NoReq, Kinds, HoldRow
    <2> HIDE DEF q
    <2>3. \/ Answer(q, "invalidSelection")
          \/ Answer(q, "notFound")
          \/ Begin(p, q) /\ UNCHANGED todo
      BY <2>1 DEF q
    <2>4. "invalidSelection" \in Replies /\ "notFound" \in Replies
      BY DEF Replies, Refusals
    <2>5. QED
      BY <2>0, <2>2, <2>3, <2>4, BeginType, AnswerKeepsType DEF TypeOK
  <1>4. ASSUME NEW p \in Clients, StartRelease(p) PROVE TypeOK'
    <2>0. p \in Procs BY DEF Procs
    <2>1. PICK h \in HoldIds :
            LET q == [NoReq EXCEPT !.kind = "release", !.tok = h, !.show = holds[h].show]
            IN  \/ Answer(q, "notFound")
                \/ Begin(p, q) /\ UNCHANGED todo
      BY <1>4 DEF StartRelease
    <2> DEFINE q == [NoReq EXCEPT !.kind = "release", !.tok = h, !.show = holds[h].show]
    <2>2. q \in Requests
      BY DEF TypeOK, Requests, NoReq, Kinds, HoldRow
    <2> HIDE DEF q
    <2>3. \/ Answer(q, "notFound")
          \/ Begin(p, q) /\ UNCHANGED todo
      BY <2>1 DEF q
    <2>4. "notFound" \in Replies
      BY DEF Replies, Refusals
    <2>5. QED
      BY <2>0, <2>2, <2>3, <2>4, BeginType, AnswerKeepsType DEF TypeOK
  <1>5. ASSUME NEW p \in Sweepers, StartSweep(p) PROVE TypeOK'
    <2>1. [NoReq EXCEPT !.kind = "sweep"] \in Requests
      BY DEF Requests, NoReq, Kinds
    <2>2. ListShowtimesWithExpiredSeats \subseteq Showtimes
      BY DEF ListShowtimesWithExpiredSeats
    <2>3. QED
      BY <1>0, <1>5, <2>1, <2>2, NullTypes DEF TypeOK, StartSweep, Procs
  <1>6. ASSUME NEW p \in Procs, LockShowtime(p) PROVE TypeOK'
    BY <1>0, <1>6, NullTypes DEF TypeOK, LockShowtime
  <1>7. ASSUME NEW p \in Procs, LockTimeout(p) \/ Abort(p) PROVE TypeOK'
    BY <1>7, RollbackType DEF LockTimeout, Abort, Replies, Refusals
  <1>8. ASSUME NEW p \in Procs, HoldBody(p) PROVE TypeOK'
    <2> DEFINE freed == ReclaimExpiredSeats(req[p].show, req[p].want, tx[p].now)
               refusal == HoldRefusal(p, freed)
    <2>1. refusal \in Replies
      BY DEF HoldRefusal, Replies, Refusals
    <2>2. [tx[p] EXCEPT !.freed = freed] \in Txs
      <3>1. tx[p] \in Txs
        BY DEF TypeOK
      <3>2. freed \subseteq HoldIds \X SeatIds
        BY DEF ReclaimExpiredSeats
      <3> HIDE DEF freed
      <3>3. QED
        BY <3>1, <3>2, TxType
    <2> HIDE DEF freed, refusal
    <2>3. Rollback(p, refusal) \/ Continue(p, "claim", [tx[p] EXCEPT !.freed = freed])
      BY <1>8 DEF HoldBody, freed, refusal
    <2>4. QED
      BY <1>0, <2>1, <2>2, <2>3, RollbackType, ContinueType
  <1>9. ASSUME NEW p \in Procs, ClaimSeats(p) PROVE TypeOK'
    <2>1. CASE Rollback(p, "seatRaceLost")
      BY <2>1, RollbackType DEF Replies, Refusals
    <2>2. CASE Continue(p, "commit", [tx[p] EXCEPT !.claims = req[p].want])
      <3>1. req[p].want \subseteq SeatIds
        BY <1>9, CatalogAssumption DEF ClaimSeats, ProcOK, StageOK, CheckedOK
      <3>2. [tx[p] EXCEPT !.claims = req[p].want] \in Txs
        <4>1. tx[p] \in Txs
          BY DEF TypeOK
        <4>2. QED
          BY <3>1, <4>1, TxType
      <3>3. QED
        BY <1>0, <2>2, <3>2, ContinueType
    <2>3. QED
      BY <1>9, <2>1, <2>2 DEF ClaimSeats
  <1>10. ASSUME NEW p \in Procs, ReplayConfirm(p) PROVE TypeOK'
    <2>1. tx[p] \in Txs /\ "notFound" \in Replies
      BY DEF TypeOK, Replies, Refusals
    <2>2. QED
      BY <1>0, <1>10, <2>1, RollbackType, ContinueType DEF ReplayConfirm
  <1>11. ASSUME NEW p \in Procs, ConfirmBody(p) PROVE TypeOK'
    <2> DEFINE h == req[p].tok
               t == [tx[p] EXCEPT !.sold = ConfirmHoldSeats(h, tx[p].now),
                                  !.total = PriceMinor[req[p].show] * Cardinality(Unreleased(h))]
    <2>1. ConfirmRefusal(p) \in Replies
      BY DEF ConfirmRefusal, Replies, Refusals
    <2>2. req[p].show \in Catalog
      BY <1>11 DEF ConfirmBody, ProcOK, RequestOK, InTx, HoldRowsOK
    <2>3. Cardinality(Unreleased(h)) \in Nat
      BY FiniteAssumption, FS_CardinalityType, FS_Subset DEF Unreleased
    <2>4. PriceMinor[req[p].show] * Cardinality(Unreleased(h)) \in Nat
      <3>1. PriceMinor[req[p].show] \in Nat
        BY <2>2, CatalogAssumption
      <3>2. \A a, b \in Nat : a * b \in Nat
        OBVIOUS
      <3>3. QED
        BY <2>3, <3>1, <3>2
    <2>5. t \in Txs
      <3>1. tx[p] \in Txs
        BY DEF TypeOK
      <3>2. ConfirmHoldSeats(h, tx[p].now) \subseteq SeatIds
        BY DEF ConfirmHoldSeats
      <3>3. QED
        BY <2>4, <3>1, <3>2, TxType
    <2> HIDE DEF t
    <2>6. Rollback(p, ConfirmRefusal(p)) \/ Continue(p, "insert", t)
      BY <1>11 DEF ConfirmBody, t
    <2>7. QED
      BY <1>0, <2>1, <2>5, <2>6, RollbackType, ContinueType
  <1>12. ASSUME NEW p \in Procs, CreateBooking(p) PROVE TypeOK'
    <2>1. PICK ref \in Refs :
            \/ Continue(p, "recheck", [tx[p] EXCEPT !.tries = @ + 1])
            \/ Continue(p, "commit", [tx[p] EXCEPT !.ref = ref])
      BY <1>12 DEF CreateBooking
    <2>2. tx[p].tries < RefAttempts
      BY <1>12 DEF CreateBooking, ProcOK, StageOK
    <2>3. [tx[p] EXCEPT !.tries = @ + 1] \in Txs
      <3>1. tx[p] \in Txs /\ tx[p].tries + 1 \in 0 .. RefAttempts
        BY <2>2, ConfigAssumption DEF TypeOK, Txs
      <3>2. QED
        BY <3>1 DEF Txs
    <2>4. [tx[p] EXCEPT !.ref = ref] \in Txs
      <3>1. tx[p] \in Txs
        BY DEF TypeOK
      <3>2. QED
        BY <3>1, TxType
    <2>5. QED
      BY <1>0, <2>1, <2>3, <2>4, ContinueType
  <1>13. ASSUME NEW p \in Procs, RecheckKey(p) PROVE TypeOK'
    <2>1. tx[p] \in Txs /\ {"idempotencyKeyReused", "error"} \subseteq Replies
      BY DEF TypeOK, Replies, Refusals
    <2>2. QED
      BY <1>0, <1>13, <2>1, RollbackType, ContinueType DEF RecheckKey
  <1>14. ASSUME NEW p \in Procs, ReleaseBody(p) PROVE TypeOK'
    <2> DEFINE t == [tx[p] EXCEPT !.freed =
                       {req[p].tok} \X {s \in SeatIds : occ[req[p].tok][s] = "claimed"}]
    <2>1. t \in Txs
      <3>1. tx[p] \in Txs
        BY DEF TypeOK
      <3>2. req[p].tok \in HoldIds
        BY <1>14 DEF ReleaseBody, ProcOK, RequestOK, InTx
      <3>3. {req[p].tok} \X {s \in SeatIds : occ[req[p].tok][s] = "claimed"}
              \subseteq HoldIds \X SeatIds
        BY <3>2
      <3>4. QED
        BY <3>1, <3>3, TxType
    <2>2. "alreadyConfirmed" \in Replies
      BY DEF Replies, Refusals
    <2> HIDE DEF t
    <2>3. Rollback(p, "alreadyConfirmed") \/ Continue(p, "commit", t)
      BY <1>14 DEF ReleaseBody, ReleaseHoldSeats, t
    <2>4. QED
      BY <1>0, <2>1, <2>2, <2>3, RollbackType, ContinueType
  <1>15. ASSUME NEW p \in Procs, SweepNext(p) PROVE TypeOK'
    <2>1. CASE pc' = [pc EXCEPT ![p] = "idle"] /\ answer' = NoAnswer
               /\ UNCHANGED <<now, holds, occ, bookings, lock, req, tx, todo>>
      BY <1>0, <2>1, NullTypes DEF TypeOK
    <2>2. ASSUME NEW st \in todo[p], todo' = [todo EXCEPT ![p] = @ \ {st}],
                 Begin(p, [NoReq EXCEPT !.kind = "sweep", !.show = st])
          PROVE TypeOK'
      <3>1. [NoReq EXCEPT !.kind = "sweep", !.show = st] \in Requests
        BY DEF TypeOK, Requests, NoReq, Kinds
      <3>2. todo' \in [Procs -> SUBSET Showtimes]
        BY <2>2 DEF TypeOK
      <3>3. QED
        BY <2>2, <3>1, <3>2, BeginType
    <2>3. QED
      BY <1>15, <2>1, <2>2 DEF SweepNext
  <1>16. ASSUME NEW p \in Procs, SweepBody(p) PROVE TypeOK'
    <2> DEFINE t == [tx[p] EXCEPT !.freed =
                       ReclaimExpiredSeats(req[p].show, SeatIds, tx[p].now)]
    <2>1. t \in Txs
      <3>1. tx[p] \in Txs
        BY DEF TypeOK
      <3>2. ReclaimExpiredSeats(req[p].show, SeatIds, tx[p].now) \subseteq HoldIds \X SeatIds
        BY DEF ReclaimExpiredSeats
      <3>3. QED
        BY <3>1, <3>2, TxType
    <2>2. Continue(p, "commit", t)
      BY <1>16 DEF SweepBody
    <2>3. QED
      BY <1>0, <2>1, <2>2, ContinueType
  <1>17. ASSUME NEW p \in Procs, Commit(p) PROVE TypeOK'
    <2>1. occ' \in [HoldIds -> [SeatIds -> RowStates]]
      BY <1>17 DEF Commit, TypeOK, NewRow, RowStates
    <2>2. holds' \in [HoldIds -> HoldRow]
      <3>1. CASE req[p].kind = "sweep"
        BY <1>17, <3>1 DEF Commit, TypeOK
      <3>2. CASE req[p].kind # "sweep"
        <4>1. req[p].tok \in HoldIds /\ req[p].kind \in Kinds
          BY <1>17, <3>2 DEF Commit, TypeOK, Requests, ProcOK, RequestOK, InTx
        <4>2. NewHold(p) \in HoldRow
          <5>1. holds[req[p].tok] \in HoldRow /\ req[p] \in Requests /\ tx[p] \in Txs
            BY <4>1 DEF TypeOK
          <5>2. CASE req[p].kind = "hold"
            <6>1. tx[p].now + HoldTTL \in Nat
              BY <5>1, ConfigAssumption DEF Txs
            <6>2. req[p].show \in Showtimes \cup {None} /\ req[p].cust \in Customers \cup {None}
              BY <5>1 DEF Requests
            <6>3. QED
              BY <5>2, <6>1, <6>2 DEF NewHold, HoldRow, HoldStates
          <5>3. CASE req[p].kind = "confirm"
            BY <5>1, <5>3 DEF NewHold, HoldRow, HoldStates
          <5>4. CASE req[p].kind = "release"
            BY <5>1, <5>4 DEF NewHold, HoldRow, HoldStates
          <5>5. QED
            BY <3>2, <4>1, <5>2, <5>3, <5>4 DEF Kinds
        <4>3. QED
          BY <1>17, <3>2, <4>1, <4>2 DEF Commit, TypeOK
      <3>3. QED
        BY <3>1, <3>2
    <2>3. bookings' \subseteq Bookings
      <3>1. CASE tx[p].ref = None
        BY <1>17, <3>1 DEF Commit, TypeOK
      <3>2. CASE tx[p].ref # None
        <4>1. req[p].tok \in HoldIds /\ req[p].show \in Catalog
          BY <1>17, <3>2 DEF Commit, ProcOK, StageOK, RequestOK, InTx, HoldRowsOK
        <4>2. BookingOf(p, tx[p].ref) \in Bookings
          BY <3>2, <4>1 DEF BookingOf, Bookings, TypeOK, HoldRow, Requests, Txs
        <4>3. QED
          BY <1>17, <3>2, <4>2 DEF Commit, TypeOK
      <3>3. QED
        BY <3>1, <3>2
    <2>4. PICK r \in {Success(req[p].kind), "error"} : End(p, r)
      BY <1>17 DEF Commit
    <2>5. r \in Replies
      BY DEF Success, Replies, Refusals, TypeOK, Requests, Kinds
    <2>6. answer' \in Answers
      BY <2>4, <2>5, AnswerType DEF TypeOK, End
    <2>7. lock' \in [Showtimes -> Procs \cup {None}]
      BY <2>4 DEF TypeOK, End, Unlock
    <2>8. pc' \in [Procs -> Labels]
      BY <1>0, <2>4 DEF TypeOK, End, After
    <2>9. QED
      BY <1>17, <2>1, <2>2, <2>3, <2>4, <2>6, <2>7, <2>8, NullTypes DEF TypeOK, End, Commit
  <1>18. QED
    BY <1>1, <1>2, <1>3, <1>4, <1>5, <1>6, <1>7, <1>8, <1>9, <1>10, <1>11, <1>12,
       <1>13, <1>14, <1>15, <1>16, <1>17 DEF Next, Progress

-----------------------------------------------------------------------------
(* Steps that change no committed row                                      *)

\* If p moves, no row changes and no one else loses a lock, then only what
\* concerns p has to be shown again.
LEMMA QuietStep ==
    ASSUME Inv, TypeOK', NEW p \in Procs, UNCHANGED <<now, holds, occ>>,
           \A q \in Procs \ {p} : pc'[q] = pc[q] /\ req'[q] = req[q] /\ tx'[q] = tx[q],
           \A q \in Procs \ {p}, st \in Showtimes : lock[st] = q => lock'[st] = q,
           ProcOK(p)', TokensDiffer', NoSeatRaceLost'
    PROVE  Inv'
  <1>1. HoldRowsOK' /\ OneUnreleasedRow' /\ LiveHoldIsWhole'
    BY DEF Inv, HoldRowsOK, OneUnreleasedRow, LiveHoldIsWhole, Unreleased
  <1>2. ASSUME NEW q \in Procs \ {p} PROVE ProcOK(q)'
    <2>0. ProcOK(q) /\ pc'[q] = pc[q] /\ req'[q] = req[q] /\ tx'[q] = tx[q]
      BY DEF Inv
    <2>1. RequestOK(q)'
      BY <2>0 DEF ProcOK, RequestOK, InTx
    <2>2. StageOK(q)'
      BY <2>0 DEF ProcOK, StageOK
    <2>3. LockOK(q)'
      BY <2>0 DEF ProcOK, LockOK, RequestOK, InTx, Locked
    <2>4. FreedOK(q)' /\ SoldOK(q)'
      BY <2>0 DEF ProcOK, FreedOK, SoldOK
    <2>5. CheckedOK(q)'
      BY <2>0 DEF ProcOK, CheckedOK, HoldsOf, Unreleased
    <2>6. QED
      BY <2>1, <2>2, <2>3, <2>4, <2>5 DEF ProcOK
  <1>3. QED
    BY <1>1, <1>2 DEF Inv

\* A process that has left its transaction has nothing to keep.
LEMMA DoneOK ==
    ASSUME TypeOK, NEW p \in Procs, now' = now, NEW r, End(p, r)
    PROVE  ProcOK(p)' /\ ~InTx(p)'
  <1>1. pc'[p] \in {"idle", "next"} /\ tx'[p] = NoTx
    BY DEF TypeOK, End, After
  <1>2. RequestOK(p)' /\ LockOK(p)' /\ CheckedOK(p)' /\ ~InTx(p)'
    BY <1>1 DEF RequestOK, InTx, LockOK, Locked, CheckedOK
  <1>3. StageOK(p)'
    BY <1>1 DEF StageOK, NoTx, TypeOK
  <1>4. FreedOK(p)' /\ SoldOK(p)'
    BY <1>1 DEF FreedOK, SoldOK, NoTx
  <1>5. QED
    BY <1>2, <1>3, <1>4 DEF ProcOK

\* A rollback keeps the invariant.
LEMMA RollbackStep ==
    ASSUME Inv, NEW p \in Procs, NEW r \in Replies \ {"seatRaceLost"}, Rollback(p, r)
    PROVE  Inv'
  <1>1. TypeOK'
    BY RollbackType DEF Inv
  <1>2. ProcOK(p)' /\ ~InTx(p)'
    BY DoneOK DEF Inv, Rollback
  <1>3. \A q \in Procs \ {p} : pc'[q] = pc[q] /\ req'[q] = req[q] /\ tx'[q] = tx[q]
    BY DEF Inv, TypeOK, Rollback, End
  <1>4. TokensDiffer'
    BY <1>2, <1>3 DEF Inv, TokensDiffer, InTx
  <1>5. \A q \in Procs \ {p}, st \in Showtimes : lock[st] = q => lock'[st] = q
    BY DEF Rollback, End, Unlock
  <1>6. NoSeatRaceLost'
    BY DEF Rollback, End, AnswerTo, NoSeatRaceLost
  <1>7. UNCHANGED <<now, holds, occ>>
    BY DEF Rollback
  <1>8. QED
    BY <1>1, <1>2, <1>3, <1>4, <1>5, <1>6, <1>7, QuietStep

\* An answer before the transaction changes nothing but the answer.
LEMMA AnswerStep ==
    ASSUME Inv, NEW q \in Requests, NEW r \in Replies \ {"seatRaceLost"}, Answer(q, r)
    PROVE  Inv'
  <1>1. TypeOK' /\ NoSeatRaceLost'
    BY AnswerKeepsType DEF Inv, Answer, AnswerTo, NoSeatRaceLost
  <1>2. HoldRowsOK' /\ OneUnreleasedRow' /\ LiveHoldIsWhole' /\ TokensDiffer'
    BY DEF Inv, Answer, HoldRowsOK, OneUnreleasedRow, LiveHoldIsWhole, Unreleased,
       TokensDiffer, InTx
  <1>3. \A p \in Procs : ProcOK(p)'
    BY DEF Inv, Answer, ProcOK, RequestOK, InTx, StageOK, LockOK, Locked, FreedOK, SoldOK,
       CheckedOK, HoldsOf, Unreleased
  <1>4. QED
    BY <1>1, <1>2, <1>3 DEF Inv

\* BEGIN keeps it, given a request that fits the committed holds.
LEMMA BeginStep ==
    ASSUME Inv, NEW p \in Procs, ~InTx(p), NEW q \in Requests, Begin(p, q),
           todo' \in [Procs -> SUBSET Showtimes],
           q.show \in Showtimes,
           q.kind # "sweep" => q.tok \in HoldIds,
           q.kind \in {"confirm", "release"} =>
             holds[q.tok].state # "absent" /\ holds[q.tok].show = q.show,
           q.kind = "hold" => q.want # {} /\ FreshToken(q.tok)
    PROVE  Inv'
  <1>1. TypeOK'
    BY BeginType DEF Inv
  <1>2. \A x \in Procs \ {p} : pc'[x] = pc[x] /\ req'[x] = req[x] /\ tx'[x] = tx[x]
    BY DEF Inv, TypeOK, Begin
  <1>3. pc'[p] = "begun" /\ req'[p] = q /\ tx'[p] = [NoTx EXCEPT !.now = now]
    BY DEF Inv, TypeOK, Begin
  <1>4. ProcOK(p)'
    <2>1. RequestOK(p)'
      BY <1>3 DEF RequestOK, InTx, Begin, FreshToken
    <2>2. StageOK(p)'
      BY <1>3 DEF StageOK, NoTx, Begin, Inv, TypeOK
    <2>3. LockOK(p)' /\ CheckedOK(p)'
      BY <1>3 DEF LockOK, Locked, CheckedOK
    <2>4. FreedOK(p)' /\ SoldOK(p)'
      BY <1>3 DEF FreedOK, SoldOK, NoTx
    <2>5. QED
      BY <2>1, <2>2, <2>3, <2>4 DEF ProcOK
  <1>5. TokensDiffer'
    BY <1>2, <1>3 DEF Inv, TokensDiffer, InTx, FreshToken
  <1>6. NoSeatRaceLost'
    BY DEF Begin, NoAnswer, AnswerTo, NoSeatRaceLost
  <1>7. UNCHANGED <<now, holds, occ, lock>>
    BY DEF Begin
  <1>8. QED
    BY <1>1, <1>2, <1>4, <1>5, <1>6, <1>7, QuietStep

\* A step inside the critical section keeps it if its new private state is in
\* order.
LEMMA ContinueStep ==
    ASSUME Inv, NEW p \in Procs, pc[p] \in Locked, NEW l \in Locked, NEW t \in Txs,
           Continue(p, l, t),
           RequestOK(p)', StageOK(p)', FreedOK(p)', SoldOK(p)', CheckedOK(p)'
    PROVE  Inv'
  <1>1. TypeOK'
    BY ContinueType DEF Inv, Labels, Locked
  <1>2. \A x \in Procs \ {p} : pc'[x] = pc[x] /\ req'[x] = req[x] /\ tx'[x] = tx[x]
    BY DEF Inv, TypeOK, Continue
  <1>3. LockOK(p)'
    BY DEF Inv, ProcOK, LockOK, Continue, TypeOK
  <1>4. TokensDiffer'
    BY <1>2 DEF Inv, TokensDiffer, InTx, Locked, Continue
  <1>5. NoSeatRaceLost'
    BY DEF Continue, NoAnswer, AnswerTo, NoSeatRaceLost
  <1>6. UNCHANGED <<now, holds, occ, lock>>
    BY DEF Continue
  <1>7. ProcOK(p)'
    BY <1>3 DEF ProcOK
  <1>8. QED
    BY <1>1, <1>2, <1>4, <1>5, <1>6, <1>7, QuietStep

-----------------------------------------------------------------------------
(* The actions, one by one                                                 *)

\* The clock only moves the instant at which a hold stops being live.
LEMMA TickStep == ASSUME Inv, TypeOK', Tick PROVE Inv'
  <1>1. now \in Nat /\ now' = now + 1 /\ UNCHANGED <<holds, occ, lock, pc, req, tx>>
    BY DEF Inv, TypeOK, Tick
  <1>2. HoldRowsOK' /\ OneUnreleasedRow' /\ TokensDiffer'
    BY <1>1 DEF Inv, HoldRowsOK, OneUnreleasedRow, Unreleased, TokensDiffer, InTx
  <1>3. LiveHoldIsWhole'
    <2>1. \A h \in HoldIds : holds[h].expires \in Nat
      BY DEF Inv, TypeOK, HoldRow
    <2>2. QED
      BY <1>1, <2>1 DEF Inv, LiveHoldIsWhole, Unreleased
  <1>4. NoSeatRaceLost'
    BY DEF Tick, NoAnswer, AnswerTo, NoSeatRaceLost
  <1>5. ASSUME NEW p \in Procs PROVE ProcOK(p)'
    <2>1. ProcOK(p) /\ tx[p].now \in Nat
      BY DEF Inv, TypeOK, Txs
    <2>2. StageOK(p)'
      BY <1>1, <2>1 DEF ProcOK, StageOK
    <2>3. RequestOK(p)' /\ LockOK(p)' /\ FreedOK(p)' /\ SoldOK(p)' /\ CheckedOK(p)'
      BY <1>1, <2>1 DEF ProcOK, RequestOK, InTx, LockOK, FreedOK, SoldOK, CheckedOK,
         HoldsOf, Unreleased
    <2>4. QED
      BY <2>2, <2>3 DEF ProcOK
  <1>6. QED
    BY <1>2, <1>3, <1>4, <1>5 DEF Inv

\* A hold request starts with a token nobody uses and at least one seat.
LEMMA StartHoldStep == ASSUME Inv, NEW p \in Clients, StartHold(p) PROVE Inv'
  <1>0. p \in Procs /\ ~InTx(p)
    BY DEF Procs, StartHold, InTx
  <1>1. PICK st \in Showtimes, list \in SeatLists, cust \in Customers \cup {None} :
           \/ Answer(NoReq, "invalidSelection")
           \/ /\ cust # None /\ ValidSelection(list)
              /\ \E h \in HoldIds : FreshToken(h) /\ Begin(p, HoldRequest(st, h, list, cust))
              /\ UNCHANGED todo
    BY DEF StartHold
  <1>2. CASE Answer(NoReq, "invalidSelection")
    BY <1>2, NullTypes, AnswerStep DEF Replies, Refusals
  <1>3. ASSUME NEW h \in HoldIds, ValidSelection(list), FreshToken(h),
               Begin(p, HoldRequest(st, h, list, cust)), UNCHANGED todo
        PROVE Inv'
    <2> DEFINE q == HoldRequest(st, h, list, cust)
    <2>1. list \in Seq(Int) /\ {list[i] : i \in DOMAIN list} \subseteq Int
      BY InputAssumption
    <2>2. {list[i] : i \in DOMAIN list} # {}
      <3>1. 1 \in DOMAIN list
        BY <1>3, <2>1, ConfigAssumption DEF ValidSelection
      <3>2. QED
        BY <3>1
    <2>3. q \in Requests
      BY <2>1 DEF HoldRequest, Requests, NoReq, Kinds
    <2>4. q.kind = "hold" /\ q.show = st /\ q.tok = h /\ q.want # {}
      BY <2>2 DEF HoldRequest, NoReq
    <2>5. todo' \in [Procs -> SUBSET Showtimes]
      BY <1>3 DEF Inv, TypeOK
    <2> HIDE DEF q
    <2>6. Begin(p, q)
      BY <1>3 DEF q
    <2>7. QED
      BY <1>0, <1>3, <2>3, <2>4, <2>5, <2>6, BeginStep
  <1>4. QED
    BY <1>1, <1>2, <1>3

\* A confirm starts with the showtime of the hold it found.
LEMMA StartConfirmStep == ASSUME Inv, NEW p \in Clients, StartConfirm(p) PROVE Inv'
  <1>0. p \in Procs /\ ~InTx(p) /\ {"invalidSelection", "notFound"} \subseteq Replies \ {"seatRaceLost"}
    BY DEF Procs, StartConfirm, InTx, Replies, Refusals
  <1>1. PICK h \in HoldIds, key \in Keys \cup {None} :
          LET q == [NoReq EXCEPT !.kind = "confirm", !.tok = h, !.key = key,
                                 !.show = holds[h].show]
          IN  \/ Answer(q, "invalidSelection")
              \/ Answer(q, "notFound")
              \/ holds[h].state # "absent" /\ Begin(p, q) /\ UNCHANGED todo
    BY DEF StartConfirm
  <1> DEFINE q == [NoReq EXCEPT !.kind = "confirm", !.tok = h, !.key = key,
                                !.show = holds[h].show]
  <1>2. q \in Requests
    BY DEF Inv, TypeOK, Requests, NoReq, Kinds, HoldRow
  <1>3. q.kind = "confirm" /\ q.tok = h /\ q.show = holds[h].show
    BY DEF NoReq
  <1> HIDE DEF q
  <1>4. CASE Answer(q, "invalidSelection") \/ Answer(q, "notFound")
    BY <1>0, <1>2, <1>4, AnswerStep
  <1>5. CASE holds[h].state # "absent" /\ Begin(p, q) /\ UNCHANGED todo
    <2>1. holds[h].show \in Showtimes
      BY <1>5, CatalogAssumption DEF Inv, HoldRowsOK
    <2>2. todo' \in [Procs -> SUBSET Showtimes]
      BY <1>5 DEF Inv, TypeOK
    <2>3. QED
      BY <1>0, <1>2, <1>3, <1>5, <2>1, <2>2, BeginStep
  <1>6. QED
    BY <1>1, <1>4, <1>5 DEF q

\* So does a release.
LEMMA StartReleaseStep == ASSUME Inv, NEW p \in Clients, StartRelease(p) PROVE Inv'
  <1>0. p \in Procs /\ ~InTx(p) /\ "notFound" \in Replies \ {"seatRaceLost"}
    BY DEF Procs, StartRelease, InTx, Replies, Refusals
  <1>1. PICK h \in HoldIds :
          LET q == [NoReq EXCEPT !.kind = "release", !.tok = h, !.show = holds[h].show]
          IN  \/ Answer(q, "notFound")
              \/ holds[h].state # "absent" /\ Begin(p, q) /\ UNCHANGED todo
    BY DEF StartRelease
  <1> DEFINE q == [NoReq EXCEPT !.kind = "release", !.tok = h, !.show = holds[h].show]
  <1>2. q \in Requests
    BY DEF Inv, TypeOK, Requests, NoReq, Kinds, HoldRow
  <1>3. q.kind = "release" /\ q.tok = h /\ q.show = holds[h].show
    BY DEF NoReq
  <1> HIDE DEF q
  <1>4. CASE Answer(q, "notFound")
    BY <1>0, <1>2, <1>4, AnswerStep
  <1>5. CASE holds[h].state # "absent" /\ Begin(p, q) /\ UNCHANGED todo
    <2>1. holds[h].show \in Showtimes
      BY <1>5, CatalogAssumption DEF Inv, HoldRowsOK
    <2>2. todo' \in [Procs -> SUBSET Showtimes]
      BY <1>5 DEF Inv, TypeOK
    <2>3. QED
      BY <1>0, <1>2, <1>3, <1>5, <2>1, <2>2, BeginStep
  <1>6. QED
    BY <1>1, <1>4, <1>5 DEF q

\* Listing the showtimes to sweep takes no transaction.
LEMMA StartSweepStep == ASSUME Inv, TypeOK', NEW p \in Sweepers, StartSweep(p) PROVE Inv'
  <1>0. p \in Procs /\ pc[p] = "idle" /\ ~InTx(p)
    BY DEF Procs, StartSweep, InTx
  <1>1. \A x \in Procs \ {p} : pc'[x] = pc[x] /\ req'[x] = req[x] /\ tx'[x] = tx[x]
    BY DEF Inv, TypeOK, StartSweep
  <1>2. pc'[p] = "next" /\ tx'[p] = tx[p] /\ ~InTx(p)'
    BY <1>0 DEF Inv, TypeOK, StartSweep, InTx
  <1>3. UNCHANGED <<now, holds, occ, lock>>
    BY DEF StartSweep
  <1>4. ProcOK(p)'
    BY <1>0, <1>2, <1>3 DEF Inv, ProcOK, RequestOK, StageOK, LockOK, Locked, FreedOK, SoldOK,
       CheckedOK
  <1>5. TokensDiffer'
    BY <1>1, <1>2 DEF Inv, TokensDiffer, InTx
  <1>6. NoSeatRaceLost'
    BY DEF StartSweep, NoAnswer, AnswerTo, NoSeatRaceLost
  <1>7. QED
    BY <1>0, <1>1, <1>3, <1>4, <1>5, <1>6, QuietStep

\* A sweep is over, or begins a transaction for its next showtime.
LEMMA SweepNextStep == ASSUME Inv, TypeOK', NEW p \in Procs, SweepNext(p) PROVE Inv'
  <1>0. pc[p] = "next" /\ ~InTx(p)
    BY DEF SweepNext, InTx
  <1>1. CASE pc' = [pc EXCEPT ![p] = "idle"] /\ answer' = NoAnswer
             /\ UNCHANGED <<now, holds, occ, bookings, lock, req, tx, todo>>
    <2>1. \A x \in Procs \ {p} : pc'[x] = pc[x]
      BY <1>1 DEF Inv, TypeOK
    <2>2. pc'[p] = "idle" /\ ~InTx(p)'
      BY <1>1 DEF Inv, TypeOK, InTx
    <2>3. ProcOK(p)'
      BY <1>0, <1>1, <2>2 DEF Inv, ProcOK, RequestOK, StageOK, LockOK, Locked, FreedOK, SoldOK,
         CheckedOK
    <2>4. TokensDiffer'
      BY <1>1, <2>1, <2>2 DEF Inv, TokensDiffer, InTx
    <2>5. NoSeatRaceLost'
      BY <1>1 DEF NoAnswer, AnswerTo, NoSeatRaceLost
    <2>6. QED
      BY <1>1, <2>1, <2>3, <2>4, <2>5, QuietStep
  <1>2. ASSUME NEW st \in todo[p], todo' = [todo EXCEPT ![p] = @ \ {st}],
               Begin(p, [NoReq EXCEPT !.kind = "sweep", !.show = st])
        PROVE Inv'
    <2> DEFINE q == [NoReq EXCEPT !.kind = "sweep", !.show = st]
    <2>1. q \in Requests /\ q.kind = "sweep" /\ q.show = st /\ st \in Showtimes
      BY DEF Inv, TypeOK, Requests, NoReq, Kinds
    <2>2. todo' \in [Procs -> SUBSET Showtimes]
      BY DEF TypeOK
    <2> HIDE DEF q
    <2>3. Begin(p, q)
      BY <1>2 DEF q
    <2>4. QED
      BY <1>0, <2>1, <2>2, <2>3, BeginStep
  <1>3. QED
    BY <1>1, <1>2 DEF SweepNext

\* The lock is taken only when it is free, so that nobody loses it.
LEMMA LockShowtimeStep == ASSUME Inv, TypeOK', NEW p \in Procs, LockShowtime(p) PROVE Inv'
  <1>1. \A x \in Procs \ {p} : pc'[x] = pc[x] /\ req'[x] = req[x] /\ tx'[x] = tx[x]
    BY DEF Inv, TypeOK, LockShowtime
  <1>2. pc[p] = "begun" /\ pc'[p] = "body" /\ req' = req /\ tx' = tx /\ InTx(p)
    BY DEF Inv, TypeOK, LockShowtime, InTx
  <1>3. UNCHANGED <<now, holds, occ>>
    BY DEF LockShowtime
  <1>4. req[p].show \in Showtimes /\ lock[req[p].show] = None
        /\ lock' = [lock EXCEPT ![req[p].show] = p]
    BY <1>2 DEF Inv, ProcOK, RequestOK, LockShowtime
  <1>5. \A q \in Procs \ {p}, st \in Showtimes : lock[st] = q => lock'[st] = q
    BY <1>4, ProcsAssumption DEF Inv, TypeOK
  <1>6. ProcOK(p)'
    <2>0. ProcOK(p)
      BY DEF Inv
    <2>1. LockOK(p)'
      BY <1>2, <1>4 DEF Inv, TypeOK, LockOK
    <2>2. RequestOK(p)' /\ StageOK(p)'
      BY <1>2, <1>3, <2>0 DEF ProcOK, RequestOK, InTx, StageOK
    <2>3. FreedOK(p)' /\ SoldOK(p)' /\ CheckedOK(p)'
      BY <1>2, <1>3, <2>0 DEF ProcOK, FreedOK, SoldOK, CheckedOK
    <2>4. QED
      BY <2>1, <2>2, <2>3 DEF ProcOK
  <1>7. TokensDiffer'
    BY <1>1, <1>2 DEF Inv, TokensDiffer, InTx
  <1>8. NoSeatRaceLost'
    BY DEF LockShowtime, NoAnswer, AnswerTo, NoSeatRaceLost
  <1>9. QED
    BY <1>1, <1>3, <1>5, <1>6, <1>7, <1>8, QuietStep

\* A row that is neither reclaimed nor in the live view does not occupy its
\* seat: the two predicates are complements for every clock.
LEMMA LapsedOrLive ==
    ASSUME TypeOK, NEW h \in HoldIds, NEW s \in SeatIds, s \in Unreleased(h), NEW t \in Nat
    PROVE  Lapsed(h, s, t) \/ Live(h, s, t)
  BY DEF TypeOK, HoldRow, Unreleased, Lapsed, Live

\* After the checks of Hold every occupied seat it wants is one it reclaims.
LEMMA HoldBodyStep == ASSUME Inv, NEW p \in Procs, HoldBody(p) PROVE Inv'
  <1> DEFINE st == req[p].show
             freed == ReclaimExpiredSeats(st, req[p].want, tx[p].now)
             refusal == HoldRefusal(p, freed)
             t == [tx[p] EXCEPT !.freed = freed]
  <1>0. pc[p] = "body" /\ req[p].kind = "hold" /\ ProcOK(p) /\ InTx(p) /\ tx[p] \in Txs
    BY DEF HoldBody, Inv, InTx, TypeOK
  <1>1. CASE refusal # "none" /\ Rollback(p, refusal)
    <2>1. refusal \in Replies \ {"seatRaceLost"}
      BY DEF HoldRefusal, Replies, Refusals
    <2>2. QED
      BY <1>1, <2>1, RollbackStep
  <1>2. CASE refusal = "none" /\ Continue(p, "claim", t)
    <2>1. t \in Txs /\ t.freed = freed /\ t.claims = tx[p].claims /\ t.sold = tx[p].sold
          /\ t.now = tx[p].now /\ t.ref = tx[p].ref
      BY <1>0 DEF Txs, ReclaimExpiredSeats
    <2>2. st \in SalesOpen /\ req[p].want \subseteq SeatsOf[st]
          /\ FindSeatConflicts(st, req[p].want, tx[p].now, freed) = {}
      BY <1>2, CatalogAssumption DEF HoldRefusal, AllInShowtime
    <2>3. req[p].want \subseteq SeatIds
      BY <2>2, CatalogAssumption
    <2>4. pc'[p] = "claim" /\ tx'[p] = t /\ UNCHANGED <<now, holds, occ, req>>
      BY <1>2 DEF Continue, Inv, TypeOK
    <2>5. ASSUME NEW h \in HoldsOf(st), NEW s \in req[p].want, s \in Unreleased(h)
          PROVE  <<h, s>> \in freed
      <3>1. h \in HoldIds /\ s \in SeatIds /\ tx[p].now \in Nat /\ TypeOK
        BY <1>0, <2>3 DEF HoldsOf, Txs, Inv
      <3>2. ~(Live(h, s, tx[p].now) /\ <<h, s>> \notin freed)
        BY <2>2, <2>5, <3>1 DEF FindSeatConflicts
      <3>3. Lapsed(h, s, tx[p].now) \/ Live(h, s, tx[p].now)
        BY <2>5, <3>1, LapsedOrLive
      <3>4. Lapsed(h, s, tx[p].now) => <<h, s>> \in freed
        BY <2>5, <3>1 DEF ReclaimExpiredSeats
      <3>5. QED
        BY <3>2, <3>3, <3>4
    <2>6. CheckedOK(p)'
      <3>1. HoldsOf(st)' = HoldsOf(st) /\ \A h \in HoldIds : Unreleased(h)' = Unreleased(h)
        BY <2>4 DEF HoldsOf, Unreleased
      <3>2. \A h \in HoldsOf(st) : h \in HoldIds
        BY DEF HoldsOf
      <3>3. QED
        BY <2>1, <2>2, <2>4, <2>5, <3>1, <3>2 DEF CheckedOK, HoldsOf, Unreleased
    <2>7. FreedOK(p)'
      <3>1. \A r \in freed : /\ occ[r[1]][r[2]] = "claimed"
                             /\ holds[r[1]].show = st
                             /\ holds[r[1]].expires <= tx[p].now
        BY DEF ReclaimExpiredSeats, HoldsOf, Lapsed
      <3>2. QED
        BY <1>0, <2>1, <2>4, <3>1 DEF FreedOK
    <2>8. StageOK(p)'
      BY <1>0, <2>1, <2>4 DEF ProcOK, StageOK
    <2>9. RequestOK(p)' /\ SoldOK(p)'
      BY <1>0, <2>1, <2>4 DEF ProcOK, RequestOK, InTx, SoldOK, StageOK
    <2> HIDE DEF t
    <2>10. QED
      BY <1>0, <1>2, <2>1, <2>6, <2>7, <2>8, <2>9, ContinueStep DEF Locked
  <1>3. QED
    BY <1>1, <1>2 DEF HoldBody

\* The unique index finds nothing to object to: the check still holds.
LEMMA ClaimSeatsStep == ASSUME Inv, NEW p \in Procs, ClaimSeats(p) PROVE Inv'
  <1> DEFINE t == [tx[p] EXCEPT !.claims = req[p].want]
  <1>0. pc[p] = "claim" /\ req[p].kind = "hold" /\ ProcOK(p) /\ InTx(p) /\ tx[p] \in Txs
    BY DEF ClaimSeats, Inv, InTx, TypeOK, ProcOK, StageOK
  <1>1. req[p].want \subseteq SeatIds
    BY <1>0, CatalogAssumption DEF ProcOK, CheckedOK
  <1>2. ~SlotTaken(p)
    BY <1>0 DEF ProcOK, CheckedOK, SlotTaken
  <1>3. Continue(p, "commit", t)
    BY <1>2 DEF ClaimSeats
  <1>4. t \in Txs /\ t.claims = req[p].want /\ t.freed = tx[p].freed /\ t.sold = tx[p].sold
        /\ t.now = tx[p].now /\ t.ref = tx[p].ref
    BY <1>0, <1>1 DEF Txs
  <1>5. pc'[p] = "commit" /\ tx'[p] = t /\ UNCHANGED <<now, holds, occ, req>>
    BY <1>3 DEF Continue, Inv, TypeOK
  <1>6. StageOK(p)'
    BY <1>0, <1>4, <1>5 DEF ProcOK, StageOK
  <1>7. RequestOK(p)' /\ FreedOK(p)' /\ SoldOK(p)'
    BY <1>0, <1>4, <1>5 DEF ProcOK, RequestOK, InTx, FreedOK, SoldOK
  <1>8. CheckedOK(p)'
    BY <1>0, <1>4, <1>5 DEF ProcOK, CheckedOK, HoldsOf, Unreleased
  <1> HIDE DEF t
  <1>9. QED
    BY <1>0, <1>3, <1>4, <1>6, <1>7, <1>8, ContinueStep DEF Locked

\* A replay writes nothing.
LEMMA ReplayConfirmStep == ASSUME Inv, NEW p \in Procs, ReplayConfirm(p) PROVE Inv'
  <1>0. pc[p] = "body" /\ req[p].kind = "confirm" /\ ProcOK(p) /\ InTx(p) /\ tx[p] \in Txs
    BY DEF ReplayConfirm, Inv, InTx, TypeOK
  <1>1. CASE Rollback(p, "notFound")
    BY <1>1, RollbackStep DEF Replies, Refusals
  <1>2. CASE Continue(p, "commit", tx[p])
    <2>1. pc'[p] = "commit" /\ tx'[p] = tx[p] /\ UNCHANGED <<now, holds, occ, req>>
      BY <1>2 DEF Continue, Inv, TypeOK
    <2>2. RequestOK(p)' /\ StageOK(p)' /\ FreedOK(p)' /\ SoldOK(p)' /\ CheckedOK(p)'
      BY <1>0, <2>1 DEF ProcOK, RequestOK, InTx, StageOK, FreedOK, SoldOK, CheckedOK
    <2>3. QED
      BY <1>0, <1>2, <2>2, ContinueStep DEF Locked
  <1>3. QED
    BY <1>1, <1>2 DEF ReplayConfirm

\* A confirm is about to sell rows its hold still has.
LEMMA ConfirmBodyStep == ASSUME Inv, TypeOK', NEW p \in Procs, ConfirmBody(p) PROVE Inv'
  <1> DEFINE h == req[p].tok
             t == [tx[p] EXCEPT !.sold = ConfirmHoldSeats(h, tx[p].now),
                                !.total = PriceMinor[req[p].show] * Cardinality(Unreleased(h))]
  <1>0. pc[p] = "body" /\ req[p].kind = "confirm" /\ ProcOK(p) /\ InTx(p) /\ tx[p] \in Txs
    BY DEF ConfirmBody, Inv, InTx, TypeOK
  <1>1. CASE Rollback(p, ConfirmRefusal(p)) /\ ConfirmRefusal(p) # "none"
    <2>1. ConfirmRefusal(p) \in Replies \ {"seatRaceLost"}
      BY DEF ConfirmRefusal, Replies, Refusals
    <2>2. QED
      BY <1>1, <2>1, RollbackStep
  <1>2. CASE Continue(p, "insert", t)
    <2>1. pc'[p] = "insert" /\ tx'[p] = t /\ UNCHANGED <<now, holds, occ, req>>
      BY <1>2 DEF Continue, Inv, TypeOK
    <2>2. t \in Txs
      BY <2>1 DEF TypeOK
    <2>3. t.freed = tx[p].freed /\ t.claims = tx[p].claims /\ t.ref = tx[p].ref
          /\ t.tries = tx[p].tries /\ t.now = tx[p].now /\ t.sold = ConfirmHoldSeats(h, tx[p].now)
      BY <1>0 DEF Txs
    <2>4. StageOK(p)'
      BY <1>0, <2>1, <2>3, ConfigAssumption DEF ProcOK, StageOK
    <2>5. RequestOK(p)' /\ FreedOK(p)' /\ CheckedOK(p)'
      BY <1>0, <2>1, <2>3 DEF ProcOK, RequestOK, InTx, FreedOK, CheckedOK, StageOK
    <2>6. SoldOK(p)'
      BY <2>1, <2>3 DEF SoldOK, ConfirmHoldSeats
    <2> HIDE DEF t
    <2>7. QED
      BY <1>0, <1>2, <2>2, <2>4, <2>5, <2>6, ContinueStep DEF Locked
  <1>3. QED
    BY <1>1, <1>2 DEF ConfirmBody

\* The attempts to insert a booking touch no seat.
LEMMA CreateBookingStep == ASSUME Inv, TypeOK', NEW p \in Procs, CreateBooking(p) PROVE Inv'
  <1>0. pc[p] = "insert" /\ req[p].kind = "confirm" /\ ProcOK(p) /\ InTx(p) /\ tx[p] \in Txs
    BY DEF CreateBooking, Inv, InTx, TypeOK, ProcOK, StageOK
  <1>1. PICK ref \in Refs :
            \/ Continue(p, "recheck", [tx[p] EXCEPT !.tries = @ + 1])
            \/ Continue(p, "commit", [tx[p] EXCEPT !.ref = ref])
    BY DEF CreateBooking
  <1>2. ASSUME NEW l \in {"recheck", "commit"}, NEW t, Continue(p, l, t),
               t.freed = tx[p].freed, t.claims = tx[p].claims, t.sold = tx[p].sold,
               t.now = tx[p].now, l = "recheck" => t.ref = None
        PROVE  Inv'
    <2>1. pc'[p] = l /\ tx'[p] = t /\ UNCHANGED <<now, holds, occ, req>>
      BY <1>2 DEF Continue, Inv, TypeOK
    <2>2. t \in Txs
      BY <2>1 DEF TypeOK
    <2>3. StageOK(p)'
      BY <1>0, <1>2, <2>1 DEF ProcOK, StageOK
    <2>4. RequestOK(p)' /\ FreedOK(p)' /\ SoldOK(p)' /\ CheckedOK(p)'
      BY <1>0, <1>2, <2>1 DEF ProcOK, RequestOK, InTx, FreedOK, SoldOK, CheckedOK
    <2>5. QED
      BY <1>0, <1>2, <2>2, <2>3, <2>4, ContinueStep DEF Locked
  <1>3. CASE Continue(p, "recheck", [tx[p] EXCEPT !.tries = @ + 1])
    <2> DEFINE t == [tx[p] EXCEPT !.tries = @ + 1]
    <2>1. t.freed = tx[p].freed /\ t.claims = tx[p].claims /\ t.sold = tx[p].sold
          /\ t.now = tx[p].now /\ t.ref = None
      BY <1>0 DEF Txs, ProcOK, StageOK
    <2> HIDE DEF t
    <2>2. Continue(p, "recheck", t)
      BY <1>3 DEF t
    <2>3. QED
      BY <1>2, <2>1, <2>2
  <1>4. CASE Continue(p, "commit", [tx[p] EXCEPT !.ref = ref])
    <2> DEFINE t == [tx[p] EXCEPT !.ref = ref]
    <2>1. t.freed = tx[p].freed /\ t.claims = tx[p].claims /\ t.sold = tx[p].sold
          /\ t.now = tx[p].now
      BY <1>0 DEF Txs
    <2> HIDE DEF t
    <2>2. Continue(p, "commit", t)
      BY <1>4 DEF t
    <2>3. QED
      BY <1>2, <2>1, <2>2
  <1>5. QED
    BY <1>1, <1>3, <1>4

\* Nor does the look at the key after a suppressed insert.
LEMMA RecheckKeyStep == ASSUME Inv, NEW p \in Procs, RecheckKey(p) PROVE Inv'
  <1>0. pc[p] = "recheck" /\ req[p].kind = "confirm" /\ ProcOK(p) /\ InTx(p) /\ tx[p] \in Txs
    BY DEF RecheckKey, Inv, InTx, TypeOK, ProcOK, StageOK
  <1>1. CASE Rollback(p, "idempotencyKeyReused") \/ Rollback(p, "error")
    BY <1>1, RollbackStep DEF Replies, Refusals
  <1>2. CASE tx[p].tries # RefAttempts /\ Continue(p, "insert", tx[p])
    <2>1. pc'[p] = "insert" /\ tx'[p] = tx[p] /\ UNCHANGED <<now, holds, occ, req>>
      BY <1>2 DEF Continue, Inv, TypeOK
    <2>2. tx[p].tries < RefAttempts
      BY <1>0, <1>2, ConfigAssumption DEF Txs
    <2>3. RequestOK(p)' /\ StageOK(p)' /\ FreedOK(p)' /\ SoldOK(p)' /\ CheckedOK(p)'
      BY <1>0, <2>1, <2>2 DEF ProcOK, RequestOK, InTx, StageOK, FreedOK, SoldOK, CheckedOK
    <2>4. QED
      BY <1>0, <1>2, <2>3, ContinueStep DEF Locked
  <1>3. QED
    BY <1>1, <1>2 DEF RecheckKey

\* A release is about to give back rows of its own hold, none of them sold.
LEMMA ReleaseBodyStep == ASSUME Inv, TypeOK', NEW p \in Procs, ReleaseBody(p) PROVE Inv'
  <1> DEFINE h == req[p].tok
             t == [tx[p] EXCEPT !.freed = {h} \X {s \in SeatIds : occ[h][s] = "claimed"}]
  <1>0. pc[p] = "body" /\ req[p].kind = "release" /\ ProcOK(p) /\ InTx(p) /\ tx[p] \in Txs
    BY DEF ReleaseBody, Inv, InTx, TypeOK
  <1>1. CASE Rollback(p, "alreadyConfirmed")
    BY <1>1, RollbackStep DEF Replies, Refusals
  <1>2. CASE holds[h].state # "confirmed" /\ Continue(p, "commit", t)
    <2>1. pc'[p] = "commit" /\ tx'[p] = t /\ UNCHANGED <<now, holds, occ, req>>
      BY <1>2 DEF Continue, Inv, TypeOK
    <2>2. t \in Txs
      <3>1. tx'[p] \in Txs
        BY DEF TypeOK
      <3> HIDE DEF t
      <3>2. QED
        BY <2>1, <3>1
    <2>3. t.freed = {h} \X {s \in SeatIds : occ[h][s] = "claimed"} /\ t.claims = tx[p].claims
          /\ t.sold = tx[p].sold /\ t.ref = tx[p].ref /\ t.now = tx[p].now
      BY <1>0 DEF Txs
    <2>4. StageOK(p)'
      BY <1>0, <2>1, <2>3 DEF ProcOK, StageOK
    <2>5. FreedOK(p)'
      <3>1. holds[h].show = req[p].show
        BY <1>0 DEF ProcOK, RequestOK
      <3>2. \A r \in t.freed : r[1] = h /\ occ[r[1]][r[2]] = "claimed"
        BY <2>3
      <3>3. QED
        BY <1>0, <2>1, <3>1, <3>2 DEF FreedOK
    <2>6. RequestOK(p)' /\ SoldOK(p)' /\ CheckedOK(p)'
      BY <1>0, <1>2, <2>1, <2>3 DEF ProcOK, RequestOK, InTx, SoldOK, CheckedOK, StageOK
    <2> HIDE DEF t
    <2>7. QED
      BY <1>0, <1>2, <2>2, <2>4, <2>5, <2>6, ContinueStep DEF Locked
  <1>3. QED
    BY <1>1, <1>2 DEF ReleaseBody, ReleaseHoldSeats

\* A sweep is about to give back rows that have lapsed.
LEMMA SweepBodyStep == ASSUME Inv, TypeOK', NEW p \in Procs, SweepBody(p) PROVE Inv'
  <1> DEFINE freed == ReclaimExpiredSeats(req[p].show, SeatIds, tx[p].now)
             t == [tx[p] EXCEPT !.freed = freed]
  <1>0. pc[p] = "body" /\ req[p].kind = "sweep" /\ ProcOK(p) /\ InTx(p) /\ tx[p] \in Txs
    BY DEF SweepBody, Inv, InTx, TypeOK
  <1>1. Continue(p, "commit", t)
    BY DEF SweepBody
  <1>2. pc'[p] = "commit" /\ tx'[p] = t /\ UNCHANGED <<now, holds, occ, req>>
    BY <1>1 DEF Continue, Inv, TypeOK
  <1>3. t \in Txs
    BY <1>2 DEF TypeOK
  <1>4. t.freed = freed /\ t.claims = tx[p].claims /\ t.sold = tx[p].sold
        /\ t.ref = tx[p].ref /\ t.now = tx[p].now
    BY <1>0 DEF Txs
  <1>5. FreedOK(p)'
    <2>1. \A r \in freed : /\ occ[r[1]][r[2]] = "claimed"
                           /\ holds[r[1]].show = req[p].show
                           /\ holds[r[1]].expires <= tx[p].now
      BY DEF ReclaimExpiredSeats, HoldsOf, Lapsed
    <2>2. QED
      BY <1>0, <1>2, <1>4, <2>1 DEF FreedOK
  <1>6. StageOK(p)'
    BY <1>0, <1>2, <1>4 DEF ProcOK, StageOK
  <1>7. RequestOK(p)' /\ SoldOK(p)' /\ CheckedOK(p)'
    BY <1>0, <1>2, <1>4 DEF ProcOK, RequestOK, InTx, SoldOK, CheckedOK, StageOK
  <1> HIDE DEF t
  <1>8. QED
    BY <1>0, <1>1, <1>3, <1>5, <1>6, <1>7, ContinueStep DEF Locked

-----------------------------------------------------------------------------
(* COMMIT                                                                  *)

\* Which rows a COMMIT changes: those the transaction freed, claimed or sold,
\* all of them rows of its showtime.
LEMMA CommitRows ==
    ASSUME Inv, NEW p \in Procs, Commit(p), NEW h \in HoldIds
    PROVE  /\ \A s \in SeatIds :
                /\ \/ occ'[h][s] = occ[h][s]
                   \/ occ'[h][s] = "released" /\ <<h, s>> \in tx[p].freed
                   \/ occ'[h][s] = "claimed" /\ h = req[p].tok /\ s \in tx[p].claims
                   \/ occ'[h][s] = "confirmed" /\ h = req[p].tok /\ s \in tx[p].sold
                /\ <<h, s>> \in tx[p].freed => occ'[h][s] = "released"
                /\ h = req[p].tok /\ s \in tx[p].claims => occ'[h][s] \in {"claimed", "released"}
           /\ req[p].kind = "sweep" \/ h # req[p].tok => holds'[h] = holds[h]
           /\ req[p].kind # "sweep" /\ h = req[p].tok => holds'[h] = NewHold(p)
  <1>1. \A s \in SeatIds : occ'[h][s] = NewRow(p, h, s)
    BY DEF Commit
  <1>2. \A s \in SeatIds :
          /\ \/ occ'[h][s] = occ[h][s]
             \/ occ'[h][s] = "released" /\ <<h, s>> \in tx[p].freed
             \/ occ'[h][s] = "claimed" /\ h = req[p].tok /\ s \in tx[p].claims
             \/ occ'[h][s] = "confirmed" /\ h = req[p].tok /\ s \in tx[p].sold
          /\ <<h, s>> \in tx[p].freed => occ'[h][s] = "released"
          /\ h = req[p].tok /\ s \in tx[p].claims => occ'[h][s] \in {"claimed", "released"}
    BY <1>1 DEF NewRow
  <1>3. holds \in [HoldIds -> HoldRow]
    BY DEF Inv, TypeOK
  <1>4. req[p].kind = "sweep" \/ h # req[p].tok => holds'[h] = holds[h]
    BY <1>3 DEF Commit
  <1>5. req[p].kind # "sweep" /\ h = req[p].tok => holds'[h] = NewHold(p)
    BY <1>3 DEF Commit
  <1>6. QED
    BY <1>2, <1>4, <1>5

\* What a COMMIT does to the hold row of its token.
LEMMA CommitHold ==
    ASSUME Inv, NEW p \in Procs, Commit(p), req[p].kind # "sweep"
    PROVE  LET h == req[p].tok IN
           /\ h \in HoldIds
           /\ req[p].kind = "hold" =>
                /\ holds[h].state = "absent" /\ holds'[h].state = "open"
                /\ holds'[h].show = req[p].show
           /\ req[p].kind # "hold" =>
                /\ holds[h].state # "absent" /\ holds'[h].state # "absent"
                /\ holds[h].show = req[p].show /\ holds'[h].show = req[p].show
                /\ holds'[h].expires = holds[h].expires
           /\ req[p].kind = "confirm" => holds'[h].state = "confirmed"
           /\ req[p].kind = "release" => holds'[h].state # "open" /\ holds'[h].state # "confirmed"
  <1> DEFINE h == req[p].tok
  <1>1. pc[p] = "commit" /\ InTx(p) /\ ProcOK(p) /\ req[p].kind \in Kinds
    BY DEF Commit, Inv, InTx, TypeOK, Requests
  <1>2. h \in HoldIds /\ holds[h] \in HoldRow
    BY <1>1 DEF ProcOK, RequestOK, Inv, TypeOK
  <1>3. holds'[h] = NewHold(p)
    BY <1>2, CommitRows
  <1>4. CASE req[p].kind = "hold"
    BY <1>1, <1>2, <1>3, <1>4 DEF NewHold, ProcOK, RequestOK
  <1>5. CASE req[p].kind = "confirm"
    BY <1>1, <1>2, <1>3, <1>5 DEF NewHold, ProcOK, RequestOK, HoldRow
  <1>6. CASE req[p].kind = "release"
    BY <1>1, <1>2, <1>3, <1>6 DEF NewHold, ProcOK, RequestOK, HoldRow, HoldStates
  <1>7. QED
    BY <1>1, <1>2, <1>4, <1>5, <1>6 DEF Kinds

\* The rows of a hold that a COMMIT neither releases nor is about stay.
LEMMA RowsKept ==
    ASSUME Inv, NEW p \in Procs, Commit(p), NEW h \in HoldIds,
           \A s \in SeatIds : <<h, s>> \notin tx[p].freed,
           req[p].kind # "sweep" => h # req[p].tok,
           req[p].kind = "sweep" => tx[p].claims = {} /\ tx[p].sold = {}
    PROVE  \A s \in SeatIds : occ'[h][s] = occ[h][s]
  <1> SUFFICES ASSUME NEW s \in SeatIds PROVE occ'[h][s] = occ[h][s]
    OBVIOUS
  <1>1. occ'[h][s] = NewRow(p, h, s)
    BY DEF Commit
  <1>2. ~(h = req[p].tok /\ s \in tx[p].claims) /\ ~(h = req[p].tok /\ s \in tx[p].sold)
    OBVIOUS
  <1>3. QED
    BY <1>1, <1>2 DEF NewRow

\* No row of another showtime changes.
LEMMA CommitElsewhere ==
    ASSUME Inv, NEW p \in Procs, Commit(p),
           NEW h \in HoldIds, holds[h].show \in Showtimes, holds[h].show # req[p].show
    PROVE  holds'[h] = holds[h] /\ \A s \in SeatIds : occ'[h][s] = occ[h][s]
  <1>0. pc[p] = "commit" /\ InTx(p) /\ ProcOK(p) /\ None \notin Showtimes
    BY InputAssumption DEF Commit, Inv, InTx
  <1>1. req[p].kind # "sweep" => h # req[p].tok
    <2>1. req[p].kind = "hold" => holds[req[p].tok].show = None
      BY <1>0 DEF ProcOK, RequestOK, Inv, HoldRowsOK
    <2>2. QED
      BY <1>0, <2>1, CommitHold
  <1>2. \A s \in SeatIds : <<h, s>> \notin tx[p].freed
    BY <1>0 DEF ProcOK, FreedOK
  <1>3. req[p].kind = "sweep" => tx[p].claims = {} /\ tx[p].sold = {}
    BY <1>0 DEF ProcOK, StageOK
  <1>4. \A s \in SeatIds : occ'[h][s] = occ[h][s]
    BY <1>1, <1>2, <1>3, RowsKept
  <1>5. QED
    BY <1>1, <1>4, CommitRows

\* A COMMIT keeps the invariant of every other transaction: those that hold a
\* lock hold that of another showtime, the others have read nothing yet.
LEMMA CommitOthers ==
    ASSUME Inv, TypeOK', NEW p \in Procs, Commit(p), NEW q \in Procs \ {p}
    PROVE  ProcOK(q)'
  <1>0. /\ pc[p] = "commit" /\ InTx(p) /\ ProcOK(p) /\ ProcOK(q) /\ now' = now
        /\ pc'[q] = pc[q] /\ req'[q] = req[q] /\ tx'[q] = tx[q]
    BY DEF Commit, End, Inv, InTx, TypeOK
  <1>1. StageOK(q)'
    BY <1>0 DEF ProcOK, StageOK
  <1>2. LockOK(q)'
    <2>1. \A st \in Showtimes : lock[st] = q => lock'[st] = q
      BY DEF Commit, End, Unlock
    <2>2. QED
      BY <1>0, <2>1 DEF ProcOK, LockOK, RequestOK, InTx, Locked
  <1>3. CASE pc[q] \in Locked
    <2>1. InTx(q) /\ req[q].show \in Showtimes /\ req[q].show # req[p].show
      BY <1>0, <1>3 DEF ProcOK, LockOK, RequestOK, InTx, Locked
    <2>2. \A h \in HoldIds : holds[h].show = req[q].show =>
             holds'[h] = holds[h] /\ \A s \in SeatIds : occ'[h][s] = occ[h][s]
      BY <2>1, CommitElsewhere
    <2>3. HoldsOf(req[q].show)' = HoldsOf(req[q].show)
      <3>1. \A h \in HoldIds : holds'[h].show = req[q].show => holds[h].show = req[q].show
        BY <2>1, CommitHold, CommitRows
      <3>2. QED
        BY <1>0, <2>2, <3>1 DEF HoldsOf
    <2>4. RequestOK(q)'
      <3>1. req[q].kind # "sweep" => req[q].tok \in HoldIds
        BY <1>0, <2>1 DEF ProcOK, RequestOK
      <3>2. req[q].kind \in {"confirm", "release"} => holds'[req[q].tok] = holds[req[q].tok]
        BY <1>0, <2>1, <2>2, <3>1 DEF ProcOK, RequestOK
      <3>3. req[q].kind = "hold" => holds'[req[q].tok] = holds[req[q].tok]
        <4>1. req[q].kind = "hold" /\ req[p].kind # "sweep" => req[q].tok # req[p].tok
          BY <1>0, <2>1, CommitHold DEF Inv, TokensDiffer, ProcOK, RequestOK
        <4>2. QED
          BY <3>1, <4>1, CommitRows
      <3>4. QED
        BY <1>0, <2>1, <3>1, <3>2, <3>3 DEF ProcOK, RequestOK, InTx
    <2>5. FreedOK(q)'
      <3>1. tx[q].freed \subseteq HoldIds \X SeatIds
        BY DEF Inv, TypeOK, Txs
      <3>2. \A r \in tx[q].freed : r[1] \in HoldIds /\ r[2] \in SeatIds
                                   /\ holds[r[1]].show = req[q].show
        BY <1>0, <3>1 DEF ProcOK, FreedOK
      <3>3. \A r \in tx[q].freed : holds'[r[1]] = holds[r[1]] /\ occ'[r[1]][r[2]] = occ[r[1]][r[2]]
        BY <2>2, <3>2
      <3>4. QED
        BY <1>0, <3>3 DEF ProcOK, FreedOK
    <2>6. SoldOK(q)'
      <3>1. CASE tx[q].sold = {}
        BY <1>0, <3>1 DEF SoldOK
      <3>2. CASE tx[q].sold # {}
        <4>1. req[q].kind = "confirm" /\ req[q].tok \in HoldIds
              /\ holds[req[q].tok].show = req[q].show
          BY <1>0, <2>1, <3>2 DEF ProcOK, StageOK, RequestOK
        <4>2. tx[q].sold \subseteq SeatIds
          BY DEF Inv, TypeOK, Txs
        <4>3. \A s \in tx[q].sold : occ'[req[q].tok][s] = occ[req[q].tok][s]
          BY <2>2, <4>1, <4>2
        <4>4. QED
          BY <1>0, <4>3 DEF ProcOK, SoldOK
      <3>3. QED
        BY <3>1, <3>2
    <2>7. CheckedOK(q)'
      <3>1. \A h \in HoldsOf(req[q].show) : Unreleased(h)' = Unreleased(h)
        BY <2>2 DEF HoldsOf, Unreleased
      <3>2. QED
        BY <1>0, <2>3, <3>1 DEF ProcOK, CheckedOK
    <2>8. QED
      BY <1>1, <1>2, <2>4, <2>5, <2>6, <2>7 DEF ProcOK
  <1>4. CASE pc[q] \notin Locked
    <2>1. pc[q] \in {"idle", "next", "begun"}
      BY <1>4 DEF Inv, TypeOK, Labels, Locked
    <2>2. FreedOK(q)' /\ SoldOK(q)' /\ CheckedOK(q)'
      BY <1>0, <2>1 DEF ProcOK, StageOK, FreedOK, SoldOK, CheckedOK
    <2>3. RequestOK(q)'
      <3>1. CASE InTx(q)
        <4>1. req[q].kind # "sweep" => req[q].tok \in HoldIds
          BY <1>0, <3>1 DEF ProcOK, RequestOK
        <4>2. req[q].kind = "hold" => holds'[req[q].tok] = holds[req[q].tok]
          <5>1. req[q].kind = "hold" /\ req[p].kind # "sweep" => req[q].tok # req[p].tok
            BY <1>0, <3>1, CommitHold DEF Inv, TokensDiffer, ProcOK, RequestOK
          <5>2. QED
            BY <4>1, <5>1, CommitRows
        <4>3. req[q].kind \in {"confirm", "release"} =>
                holds'[req[q].tok].state # "absent" /\ holds'[req[q].tok].show = req[q].show
          <5>1. req[q].kind \in {"confirm", "release"} =>
                  holds[req[q].tok].state # "absent" /\ holds[req[q].tok].show = req[q].show
            BY <1>0, <3>1 DEF ProcOK, RequestOK
          <5>2. QED
            BY <4>1, <5>1, CommitRows, CommitHold
        <4>4. QED
          BY <1>0, <2>1, <3>1, <4>1, <4>2, <4>3 DEF ProcOK, RequestOK, InTx
      <3>2. CASE ~InTx(q)
        BY <1>0, <3>2 DEF RequestOK, InTx
      <3>3. QED
        BY <3>1, <3>2
    <2>4. QED
      BY <1>1, <1>2, <2>2, <2>3 DEF ProcOK
  <1>5. QED
    BY <1>3, <1>4

\* A COMMIT keeps the invariant.
LEMMA CommitStep == ASSUME Inv, TypeOK', NEW p \in Procs, Commit(p) PROVE Inv'
  <1>0. /\ pc[p] = "commit" /\ InTx(p) /\ ProcOK(p) /\ now' = now /\ now \in Nat
        /\ TypeOK /\ tx[p] \in Txs /\ None \notin Showtimes
    BY InputAssumption DEF Commit, Inv, InTx, TypeOK
  <1>1. PICK r \in {Success(req[p].kind), "error"} : End(p, r)
    BY DEF Commit
  <1>2. ProcOK(p)' /\ ~InTx(p)'
    BY <1>0, <1>1, DoneOK
  <1>3. TokensDiffer'
    <2>1. \A q \in Procs \ {p} : pc'[q] = pc[q] /\ req'[q] = req[q]
      BY <1>1 DEF Inv, TypeOK, End
    <2>2. QED
      BY <1>2, <2>1 DEF Inv, TokensDiffer, InTx
  <1>4. NoSeatRaceLost'
    BY <1>1 DEF End, AnswerTo, NoSeatRaceLost, Success, Inv, TypeOK, Requests, Kinds
  <1>5. HoldRowsOK'
    <2> SUFFICES ASSUME NEW h \in HoldIds
                 PROVE IF holds'[h].state = "absent"
                       THEN holds'[h].show = None /\ \A s \in SeatIds : occ'[h][s] = "none"
                       ELSE holds'[h].show \in Catalog
      BY DEF HoldRowsOK
    <2>1. CASE req[p].kind # "sweep" /\ h = req[p].tok
      <3>1. CASE req[p].kind = "hold"
        BY <1>0, <2>1, <3>1, CommitHold, CatalogAssumption DEF ProcOK, CheckedOK
      <3>2. CASE req[p].kind # "hold"
        BY <2>1, <3>2, CommitHold DEF Inv, HoldRowsOK
      <3>3. QED
        BY <3>1, <3>2
    <2>2. CASE req[p].kind = "sweep" \/ h # req[p].tok
      <3>1. holds'[h] = holds[h]
        BY <2>2, CommitRows
      <3>2. ASSUME NEW s \in SeatIds, occ[h][s] = "none" PROVE occ'[h][s] = "none"
        <4>1. <<h, s>> \notin tx[p].freed
          BY <1>0, <3>2 DEF ProcOK, FreedOK
        <4>2. req[p].kind = "sweep" => tx[p].claims = {} /\ tx[p].sold = {}
          BY <1>0 DEF ProcOK, StageOK
        <4>3. QED
          BY <1>1, <2>2, <3>2, <4>1, <4>2, CommitRows
      <3>3. QED
        BY <3>1, <3>2 DEF Inv, HoldRowsOK
    <2>3. QED
      BY <2>1, <2>2
  <1>6. ASSUME NEW h \in HoldIds, ~(req[p].kind = "hold" /\ h = req[p].tok)
        PROVE  Unreleased(h)' \subseteq Unreleased(h) /\ holds'[h].show = holds[h].show
               /\ \A s \in Unreleased(h)' : <<h, s>> \notin tx[p].freed
    <2>1. \A s \in SeatIds : occ'[h][s] \in {"claimed", "confirmed"} =>
            occ[h][s] \in {"claimed", "confirmed"} /\ <<h, s>> \notin tx[p].freed
      <3>1. req[p].kind # "hold" => tx[p].claims = {}
        BY <1>0 DEF ProcOK, StageOK
      <3>2. \A s \in tx[p].sold : occ[req[p].tok][s] = "claimed"
        BY <1>0 DEF ProcOK, SoldOK
      <3>3. QED
        BY <1>6, <3>1, <3>2, CommitRows
    <2>2. holds'[h].show = holds[h].show
      BY <1>6, CommitRows, CommitHold
    <2>3. QED
      BY <2>1, <2>2 DEF Unreleased
  <1>7. OneUnreleasedRow'
    <2>1. ASSUME NEW g \in HoldIds, NEW h \in HoldIds, g # h, holds'[g].show = holds'[h].show,
                 ~(req[p].kind = "hold" /\ g = req[p].tok)
          PROVE  Unreleased(g)' \cap Unreleased(h)' = {}
      <3>1. CASE req[p].kind = "hold" /\ h = req[p].tok
        <4>1. holds'[h].show = req[p].show /\ holds[h].state = "absent"
          BY <3>1, CommitHold
        <4>2. g \in HoldsOf(req[p].show)
          BY <1>6, <2>1, <4>1 DEF HoldsOf
        <4>3. Unreleased(h)' \subseteq req[p].want
          <5>1. \A s \in SeatIds : occ[h][s] = "none"
            BY <4>1 DEF Inv, HoldRowsOK
          <5>2. tx[p].claims = req[p].want /\ tx[p].sold = {}
            BY <1>0, <3>1 DEF ProcOK, StageOK
          <5>3. \A s \in SeatIds : occ'[h][s] \in {"claimed", "confirmed"} => s \in req[p].want
            BY <5>1, <5>2, CommitRows
          <5>4. QED
            BY <5>3 DEF Unreleased
        <4>4. \A s \in req[p].want : s \in Unreleased(g) => <<g, s>> \in tx[p].freed
          BY <1>0, <3>1, <4>2 DEF ProcOK, CheckedOK
        <4>5. Unreleased(g)' \subseteq Unreleased(g)
              /\ \A s \in Unreleased(g)' : <<g, s>> \notin tx[p].freed
          BY <1>6, <2>1
        <4>6. QED
          BY <4>3, <4>4, <4>5
      <3>2. CASE ~(req[p].kind = "hold" /\ h = req[p].tok)
        <4>1. holds[g].show = holds[h].show
          BY <1>6, <2>1, <3>2
        <4>2. Unreleased(g) \cap Unreleased(h) = {}
          BY <2>1, <4>1 DEF Inv, OneUnreleasedRow
        <4>3. Unreleased(g)' \subseteq Unreleased(g) /\ Unreleased(h)' \subseteq Unreleased(h)
          BY <1>6, <2>1, <3>2
        <4>4. QED
          BY <4>2, <4>3
      <3>3. QED
        BY <3>1, <3>2
    <2> SUFFICES ASSUME NEW g \in HoldIds, NEW h \in HoldIds, g # h,
                        holds'[g].show = holds'[h].show
                 PROVE  Unreleased(g)' \cap Unreleased(h)' = {}
      BY DEF OneUnreleasedRow
    <2>2. CASE req[p].kind = "hold" /\ g = req[p].tok
      <3>1. Unreleased(h)' \cap Unreleased(g)' = {}
        BY <2>1, <2>2
      <3>2. QED
        BY <3>1
    <2>3. CASE ~(req[p].kind = "hold" /\ g = req[p].tok)
      BY <2>1, <2>3
    <2>4. QED
      BY <2>2, <2>3
  <1>8. LiveHoldIsWhole'
    <2> SUFFICES ASSUME NEW h \in HoldIds, holds'[h].state = "open", now < holds'[h].expires
                 PROVE  /\ Unreleased(h)' # {}
                        /\ \A s \in SeatIds : occ'[h][s] # "released"
      BY <1>0 DEF LiveHoldIsWhole
    <2>1. CASE req[p].kind = "hold" /\ h = req[p].tok
      <3>1. holds[h].show = None /\ \A s \in SeatIds : occ[h][s] = "none"
        BY <2>1, CommitHold DEF Inv, HoldRowsOK
      <3>2. \A s \in SeatIds : <<h, s>> \notin tx[p].freed
        BY <1>0, <3>1 DEF ProcOK, FreedOK
      <3>3. \A s \in SeatIds : occ'[h][s] # "released"
        BY <3>1, <3>2, CommitRows
      <3>4. tx[p].claims = req[p].want /\ req[p].want # {} /\ tx[p].claims \subseteq SeatIds
        BY <1>0, <2>1 DEF ProcOK, StageOK, RequestOK, Txs
      <3>5. \A s \in tx[p].claims : s \in SeatIds /\ occ'[h][s] = "claimed"
        <4>1. ASSUME NEW s \in tx[p].claims PROVE s \in SeatIds /\ occ'[h][s] = "claimed"
          <5>1. s \in SeatIds
            BY <3>4
          <5>2. occ'[h][s] \in {"claimed", "released"}
            BY <2>1, <5>1, CommitRows
          <5>3. QED
            BY <3>3, <5>1, <5>2
        <4>2. QED
          BY <4>1
      <3>6. QED
        BY <3>3, <3>4, <3>5 DEF Unreleased
    <2>2. CASE ~(req[p].kind = "hold" /\ h = req[p].tok)
      <3>1. req[p].kind # "sweep" => h # req[p].tok
        BY <1>0, <2>2, CommitHold DEF Inv, TypeOK, Requests, Kinds
      <3>2. holds'[h] = holds[h]
        BY <3>1, CommitRows
      <3>3. ASSUME NEW s \in SeatIds PROVE <<h, s>> \notin tx[p].freed
        <4>1. SUFFICES ASSUME <<h, s>> \in tx[p].freed PROVE FALSE
          OBVIOUS
        <4>2. req[p].kind # "release" /\ holds[h].expires <= tx[p].now
          BY <1>0, <3>1, <4>1 DEF ProcOK, FreedOK
        <4>3. tx[p].now <= now /\ tx[p].now \in Nat /\ holds[h].expires \in Nat
          BY <1>0 DEF ProcOK, StageOK, Txs, TypeOK, HoldRow
        <4>4. QED
          BY <1>0, <3>2, <4>2, <4>3
      <3>4. req[p].kind = "sweep" => tx[p].claims = {} /\ tx[p].sold = {}
        BY <1>0 DEF ProcOK, StageOK
      <3>5. \A s \in SeatIds : occ'[h][s] = occ[h][s]
        BY <3>1, <3>3, <3>4, RowsKept
      <3>6. QED
        BY <3>2, <3>5 DEF Inv, LiveHoldIsWhole, Unreleased
    <2>3. QED
      BY <2>1, <2>2
  <1>9. \A q \in Procs : ProcOK(q)'
    BY <1>2, CommitOthers
  <1>10. QED
    BY <1>3, <1>4, <1>5, <1>7, <1>8, <1>9 DEF Inv

-----------------------------------------------------------------------------
(* The theorems                                                            *)

\* The empty database satisfies the invariant.
LEMMA InitInv == Init => Inv
  <1> SUFFICES ASSUME Init PROVE Inv
    OBVIOUS
  <1>1. TypeOK
    <2>1. now \in Nat /\ holds \in [HoldIds -> HoldRow] /\ bookings \subseteq Bookings
          /\ lock \in [Showtimes -> Procs \cup {None}] /\ answer \in Answers
          /\ req \in [Procs -> Requests] /\ tx \in [Procs -> Txs]
          /\ todo \in [Procs -> SUBSET Showtimes]
      BY NullTypes DEF Init
    <2>2. occ \in [HoldIds -> [SeatIds -> RowStates]] /\ pc \in [Procs -> Labels]
      BY DEF Init, RowStates, Labels
    <2>3. QED
      BY <2>1, <2>2 DEF TypeOK
  <1>2. HoldRowsOK /\ OneUnreleasedRow /\ LiveHoldIsWhole
    BY DEF Init, NoHold, HoldRowsOK, OneUnreleasedRow, LiveHoldIsWhole, Unreleased
  <1>3. TokensDiffer
    BY DEF Init, TokensDiffer, InTx
  <1>4. NoSeatRaceLost
    BY DEF Init, NoSeatRaceLost, NoAnswer, AnswerTo
  <1>5. ASSUME NEW p \in Procs PROVE ProcOK(p)
    <2>1. pc[p] = "idle" /\ tx[p] = NoTx /\ now = 0
      BY DEF Init
    <2>2. RequestOK(p) /\ LockOK(p) /\ CheckedOK(p)
      BY <2>1 DEF RequestOK, InTx, LockOK, Locked, CheckedOK
    <2>3. StageOK(p) /\ FreedOK(p) /\ SoldOK(p)
      BY <2>1 DEF StageOK, FreedOK, SoldOK, NoTx
    <2>4. QED
      BY <2>2, <2>3 DEF ProcOK
  <1>6. QED
    BY <1>1, <1>2, <1>3, <1>4, <1>5 DEF Inv

\* Every step keeps it.
LEMMA NextInv == Inv /\ [Next]_vars => Inv'
  <1> SUFFICES ASSUME Inv, [Next]_vars PROVE Inv'
    OBVIOUS
  <1>1. CASE UNCHANGED vars
    BY <1>1 DEF vars, Inv, TypeOK, HoldRowsOK, TokensDiffer, InTx, ProcOK, RequestOK, StageOK,
       LockOK, FreedOK, SoldOK, CheckedOK, HoldsOf, Unreleased, OneUnreleasedRow,
       NoSeatRaceLost, LiveHoldIsWhole
  <1>2. CASE Next
    <2>0. TypeOK'
      BY <1>2, TypeStep DEF Inv
    <2>1. CASE Tick
      BY <2>0, <2>1, TickStep
    <2>2. ASSUME NEW p \in Clients, StartHold(p) \/ StartConfirm(p) \/ StartRelease(p) PROVE Inv'
      BY <2>2, StartHoldStep, StartConfirmStep, StartReleaseStep
    <2>3. ASSUME NEW p \in Sweepers, StartSweep(p) PROVE Inv'
      BY <2>0, <2>3, StartSweepStep
    <2>4. ASSUME NEW p \in Procs, LockTimeout(p) \/ Abort(p) PROVE Inv'
      BY <2>4, RollbackStep DEF LockTimeout, Abort, Replies, Refusals
    <2>5. ASSUME NEW p \in Procs, Progress(p), ~LockTimeout(p) PROVE Inv'
      BY <2>0, <2>5, LockShowtimeStep, HoldBodyStep, ClaimSeatsStep, ReplayConfirmStep,
         ConfirmBodyStep, CreateBookingStep, RecheckKeyStep, ReleaseBodyStep, SweepNextStep,
         SweepBodyStep, CommitStep DEF Progress
    <2>6. QED
      BY <1>2, <2>1, <2>2, <2>3, <2>4, <2>5 DEF Next
  <1>3. QED
    BY <1>1, <1>2

\* The invariant holds in every reachable state.
LEMMA Invariance == Spec => []Inv
  BY InitInv, NextInv, PTL DEF Spec

\* Type correctness of the booking transactions, whatever the numbers of
\* clients, sweepers, showtimes, seats and tokens.
THEOREM TypeCorrect == Spec => []TypeOK
  <1>1. Inv => TypeOK
    BY DEF Inv
  <1>2. QED
    BY <1>1, Invariance, PTL

\* No double booking: no interleaving of Hold, Confirm, Release and Sweep, with
\* any timeouts, crashes and expiries, leaves two unreleased rows for a seat.
THEOREM SeatExclusivity == Spec => []OneUnreleasedRow
  <1>1. Inv => OneUnreleasedRow
    BY DEF Inv
  <1>2. QED
    BY <1>1, Invariance, PTL

\* The unique index never fires: ErrSeatRaceLost is unreachable.
THEOREM IndexNeverFires == Spec => []NoSeatRaceLost
  <1>1. Inv => NoSeatRaceLost
    BY DEF Inv
  <1>2. QED
    BY <1>1, Invariance, PTL

\* A hold keeps every seat it was granted until its expires_at has come.
THEOREM HoldHonoured == Spec => []LiveHoldIsWhole
  <1>1. Inv => LiveHoldIsWhole
    BY DEF Inv
  <1>2. QED
    BY <1>1, Invariance, PTL

\* Nothing but a COMMIT changes the seats and the bookings others can see.
LEMMA OnlyCommitWrites ==
    Next => (bookings' = bookings /\ occ' = occ) \/ \E p \in Procs : Commit(p)
  <1> DEFINE Same == bookings' = bookings /\ occ' = occ
  <1> SUFFICES ASSUME Next PROVE Same \/ \E p \in Procs : Commit(p)
    OBVIOUS
  <1>1. Tick => Same
    BY DEF Tick
  <1>2. ASSUME NEW p \in Clients, StartHold(p) \/ StartConfirm(p) \/ StartRelease(p) PROVE Same
    BY <1>2 DEF StartHold, StartConfirm, StartRelease, Answer, Begin
  <1>3. ASSUME NEW p \in Sweepers, StartSweep(p) PROVE Same
    BY <1>3 DEF StartSweep
  <1>4. ASSUME NEW p \in Procs, LockShowtime(p) \/ LockTimeout(p) \/ Abort(p) PROVE Same
    BY <1>4 DEF LockShowtime, LockTimeout, Abort, Rollback
  <1>5. ASSUME NEW p \in Procs, HoldBody(p) \/ ClaimSeats(p) \/ ReleaseBody(p) PROVE Same
    BY <1>5 DEF HoldBody, ClaimSeats, ReleaseBody, Rollback, Continue
  <1>6. ASSUME NEW p \in Procs, ReplayConfirm(p) \/ ConfirmBody(p) PROVE Same
    BY <1>6 DEF ReplayConfirm, ConfirmBody, Rollback, Continue
  <1>7. ASSUME NEW p \in Procs, CreateBooking(p) \/ RecheckKey(p) PROVE Same
    BY <1>7 DEF CreateBooking, RecheckKey, Rollback, Continue
  <1>8. ASSUME NEW p \in Procs, SweepNext(p) \/ SweepBody(p) PROVE Same
    BY <1>8 DEF SweepNext, SweepBody, Begin, Continue
  <1> HIDE DEF Same
  <1>9. QED
    BY <1>1, <1>2, <1>3, <1>4, <1>5, <1>6, <1>7, <1>8 DEF Next, Progress

\* A sold seat stays sold and a booking stays: a reclaim or release never
\* touches a confirmed row, not even with a clock read before the sale.
THEOREM SaleIsFinal == Spec => SoldForever
  <1> DEFINE Final == /\ bookings \subseteq bookings'
                      /\ \A h \in HoldIds, s \in SeatIds :
                           occ[h][s] = "confirmed" => occ'[h][s] = "confirmed"
  <1>1. ASSUME Inv, [Next]_vars PROVE [Final]_vars
    <2>1. CASE bookings' = bookings /\ occ' = occ
      BY <2>1
    <2>2. ASSUME NEW p \in Procs, Commit(p) PROVE Final
      <3>1. bookings \subseteq bookings'
        BY <2>2 DEF Commit
      <3>2. ASSUME NEW h \in HoldIds, NEW s \in SeatIds, occ[h][s] = "confirmed"
            PROVE occ'[h][s] = "confirmed"
        <4>0. ProcOK(p) /\ pc[p] = "commit" /\ InTx(p)
          BY <1>1, <2>2 DEF Inv, Commit, InTx
        <4>1. <<h, s>> \notin tx[p].freed
          BY <3>2, <4>0 DEF ProcOK, FreedOK
        <4>2. ~(h = req[p].tok /\ s \in tx[p].claims)
          <5>1. tx[p].claims # {} => holds[req[p].tok].state = "absent"
            BY <4>0 DEF ProcOK, StageOK, RequestOK
          <5>2. holds[h].state # "absent"
            BY <1>1, <3>2 DEF Inv, HoldRowsOK
          <5>3. QED
            BY <5>1, <5>2
        <4>3. QED
          BY <1>1, <2>2, <3>2, <4>1, <4>2, CommitRows
      <3>3. QED
        BY <3>1, <3>2
    <2>3. QED
      BY <1>1, <2>1, <2>2, OnlyCommitWrites DEF vars
  <1>2. QED
    BY <1>1, Invariance, PTL DEF Spec, SoldForever
=============================================================================
