-------------------------- MODULE SeatMapViewProofs --------------------------
(***************************************************************************)
(* Proofs about the seat map page: whatever refreshes, refusals and timers *)
(* come in whatever order, it never offers a seat it shows as taken, never *)
(* places a second hold, and its Hold button is off exactly as long as it  *)
(* has a reason to be.                                                     *)
(***************************************************************************)
EXTENDS SeatMapView, SequenceTheorems, TLAPS

-----------------------------------------------------------------------------
(* The inductive invariant                                                 *)

HoldAnswers == {"none", "ok", "lost", "seat-unavailable", "sales-closed", "retry", "error"}

HoldRecord == [seats: SUBSET Seats, ans: HoldAnswers, taken: SUBSET Seats]

MapTypeOK ==
    /\ shown \in [Seats -> {"free", "held"}] /\ selected \subseteq Seats
    /\ salesOpen \in BOOLEAN /\ holding \in BOOLEAN /\ off \in BOOLEAN /\ left \in BOOLEAN
    /\ now \in Nat /\ cool \in Nat /\ wakes \subseteq Nat
    /\ holds \in Seq(HoldRecord)

\* While the page is there, a hold is out exactly while holding is set, and
\* there is one; and its button is off.
HoldInside ==
    /\ OneHoldAtATime
    /\ ~left => (holding <=> holds # <<>>)
    /\ ~left => (holding => off)

\* A wait that is not over has its timer.
WaitInside == now < cool => \E due \in wakes : due >= cool

MapInv ==
    /\ MapTypeOK /\ SelectedAreFree /\ HoldInside /\ WaitInside
    /\ WaitIsHonoured /\ HoldButtonRecovers
-----------------------------------------------------------------------------
(* What the steps have in common                                           *)

\* The holds in flight are none, or one.
LEMMA AtMostOneHold ==
    ASSUME MapInv, NEW n, n \in DOMAIN holds
    PROVE  /\ n = 1 /\ Len(holds) = 1 /\ holds[n] \in HoldRecord /\ holds # <<>>
           /\ SubSeq(holds, 1, n - 1) \o SubSeq(holds, n + 1, Len(holds)) = <<>>
  <1>0. holds \in Seq(HoldRecord) /\ Len(holds) \in Nat /\ Len(holds) <= 1
    BY DEF MapInv, MapTypeOK, HoldInside, OneHoldAtATime
  <1>1. DOMAIN holds = 1 .. Len(holds)
    BY <1>0, LenProperties
  <1>2. n = 1 /\ Len(holds) = 1
    BY <1>0, <1>1
  <1>3. holds[n] \in HoldRecord /\ holds # <<>>
    <2>1. n \in 1 .. Len(holds)
      BY <1>2
    <2>2. holds[n] \in HoldRecord
      BY <1>0, <2>1, ElementOfSeq
    <2>3. QED
      BY <1>2, <2>2
  <1>4. /\ SubSeq(holds, 1, 0) \in Seq(HoldRecord) /\ Len(SubSeq(holds, 1, 0)) = 0
        /\ SubSeq(holds, 2, 1) \in Seq(HoldRecord) /\ Len(SubSeq(holds, 2, 1)) = 0
    BY <1>0, <1>2
  <1>5. SubSeq(holds, 1, 0) = <<>> /\ SubSeq(holds, 2, 1) = <<>>
    BY <1>4, EmptySeq
  <1>6. SubSeq(holds, 1, 0) \o SubSeq(holds, 2, 1) = <<>>
    BY <1>5
  <1>7. QED
    BY <1>2, <1>3, <1>6

\* updateSummary leaves a button that is on or off for a reason.
LEMMA Summed ==
    ASSUME UpdateSummary, WaitInside', now' = now,
           holding' \in BOOLEAN, salesOpen' \in BOOLEAN,
           ~left' => (holding' <=> holds' # <<>>)
    PROVE  /\ off' \in BOOLEAN /\ (holding' => off')
           /\ WaitIsHonoured' /\ HoldButtonRecovers'
  <1>1. off' \in BOOLEAN
    BY DEF UpdateSummary
  <1>2. off' <=> (holding' \/ selected' = {} \/ ~salesOpen' \/ now < cool')
    BY DEF UpdateSummary
  <1>3. holding' => off'
    BY <1>2
  <1>4. WaitIsHonoured'
    BY <1>2 DEF WaitIsHonoured
  <1>5. HoldButtonRecovers'
    BY <1>2 DEF HoldButtonRecovers, WaitInside
  <1>6. QED
    BY <1>1, <1>3, <1>4, <1>5

\* A step of the page that ends with updateSummary.
LEMMA PageMoves ==
    ASSUME MapInv, UpdateSummary, now' = now, left' = left,
           shown' \in [Seats -> {"free", "held"}], selected' \subseteq Seats, SelectedAreFree',
           salesOpen' \in BOOLEAN, holding' \in BOOLEAN,
           cool' \in Nat, wakes' \subseteq Nat, WaitInside',
           holds' \in Seq(HoldRecord), OneHoldAtATime',
           ~left => (holding' <=> holds' # <<>>)
    PROVE  MapInv'
  <1>1. left' \in BOOLEAN /\ now' \in Nat
    BY DEF MapInv, MapTypeOK
  <1>2. off' \in BOOLEAN /\ (holding' => off') /\ WaitIsHonoured' /\ HoldButtonRecovers'
    BY Summed
  <1>3. MapTypeOK'
    BY <1>1, <1>2 DEF MapTypeOK
  <1>4. HoldInside'
    BY <1>2 DEF HoldInside
  <1>5. QED
    BY <1>2, <1>3, <1>4 DEF MapInv

\* applyStatus: what it sets, it deselects.
LEMMA StatusApplied ==
    ASSUME MapInv, NEW taken, NEW free, ApplyStatus(taken, free)
    PROVE  /\ shown' \in [Seats -> {"free", "held"}] /\ selected' \subseteq Seats
           /\ SelectedAreFree'
  <1>1. shown \in [Seats -> {"free", "held"}] /\ selected \subseteq Seats
    BY DEF MapInv, MapTypeOK
  <1>2. shown' \in [Seats -> {"free", "held"}] /\ selected' \subseteq Seats
    BY <1>1 DEF ApplyStatus
  <1>3. ASSUME NEW s \in selected' PROVE shown'[s] = "free"
    <2>1. s \in selected /\ s \in Seats /\ s \notin taken /\ s \notin free
      BY <1>1, <1>3 DEF ApplyStatus
    <2>2. shown'[s] = shown[s]
      BY <2>1 DEF ApplyStatus
    <2>3. QED
      BY <2>1, <2>2 DEF MapInv, SelectedAreFree
  <1>4. QED
    BY <1>2, <1>3 DEF SelectedAreFree
-----------------------------------------------------------------------------
(* The steps                                                               *)

\* The service, the clock, and the refreshes on their way: the page stays.
LEMMA QuietStep ==
    ASSUME MapInv,
           \/ SalesClose \/ Clock \/ Refresh \/ UNCHANGED vars
           \/ \E s \in Seats : Elsewhere(s)
           \/ \E n \in 1 .. MaxCalls : RefreshReply(n)
    PROVE  MapInv'
  <1>1. UNCHANGED <<shown, selected, salesOpen, holding, off, cool, wakes, left, holds>>
    BY DEF SalesClose, Clock, Refresh, Elsewhere, RefreshReply, vars, view, timing
  <1>2. now \in Nat /\ now' \in Nat /\ now' >= now /\ cool \in Nat
    BY DEF MapInv, MapTypeOK, SalesClose, Clock, Refresh, Elsewhere, RefreshReply, vars, service
  <1>3. now' < cool' => now < cool
    BY <1>1, <1>2
  <1>4. MapTypeOK'
    BY <1>1, <1>2 DEF MapInv, MapTypeOK
  <1>5. SelectedAreFree' /\ HoldInside' /\ HoldButtonRecovers'
    BY <1>1 DEF MapInv, SelectedAreFree, HoldInside, OneHoldAtATime, HoldButtonRecovers
  <1>6. WaitInside' /\ WaitIsHonoured'
    BY <1>1, <1>3 DEF MapInv, WaitInside, WaitIsHonoured
  <1>7. QED
    BY <1>4, <1>5, <1>6 DEF MapInv

\* An answer on its way leaves the hold in flight.
LEMMA HoldReplyStep ==
    ASSUME MapInv, NEW n \in 1 .. MaxCalls, HoldReply(n)
    PROVE  MapInv'
  <1>0. /\ holds \in Seq(HoldRecord) /\ n \in DOMAIN holds
        /\ UNCHANGED <<shown, selected, salesOpen, holding, off, cool, wakes, left, now>>
    BY DEF MapInv, MapTypeOK, HoldReply, view, timing
  <1>1. n = 1 /\ Len(holds) = 1 /\ holds[n] \in HoldRecord /\ holds # <<>>
    BY <1>0, AtMostOneHold
  <1>2. PICK ans \in HoldAnswers, taken \in SUBSET Seats :
          holds' = [holds EXCEPT ![n].ans = ans, ![n].taken = taken]
    <2>1. holds[n].seats \in SUBSET Seats
      BY <1>1 DEF HoldRecord
    <2>2. Taken(holds[n].seats) \in SUBSET Seats
      BY <2>1 DEF Taken
    <2>3. \E ans \in HoldAnswers :
            holds' = [holds EXCEPT ![n].ans = ans, ![n].taken = Taken(holds[n].seats)]
      BY DEF HoldReply, HoldAnswers
    <2>4. QED
      BY <2>2, <2>3
  <1>3. PICK h \in HoldRecord : holds' = [holds EXCEPT ![n] = h]
    <2>1. PICK h : h = [holds[n] EXCEPT !.ans = ans, !.taken = taken]
      OBVIOUS
    <2>2. h \in HoldRecord
      BY <1>1, <2>1 DEF HoldRecord
    <2>3. holds' = [holds EXCEPT ![n] = h]
      BY <1>0, <1>1, <1>2, <2>1
    <2>4. QED
      BY <2>2, <2>3
  <1>4. holds' \in Seq(HoldRecord) /\ Len(holds') = 1
    BY <1>0, <1>1, <1>3, ExceptSeq
  <1>5. holds' # <<>>
    BY <1>4
  <1>6. MapTypeOK'
    BY <1>0, <1>4 DEF MapInv, MapTypeOK
  <1>7. SelectedAreFree' /\ HoldButtonRecovers'
    BY <1>0, <1>5 DEF MapInv, SelectedAreFree, HoldButtonRecovers
  <1>8. HoldInside'
    BY <1>0, <1>1, <1>4, <1>5 DEF MapInv, HoldInside, OneHoldAtATime
  <1>9. WaitInside' /\ WaitIsHonoured'
    BY <1>0 DEF MapInv, WaitInside, WaitIsHonoured
  <1>10. QED
    BY <1>6, <1>7, <1>8, <1>9 DEF MapInv

\* Only a seat that is shown free is chosen.
LEMMA ToggleStep ==
    ASSUME MapInv, NEW s \in Seats, Toggle(s)
    PROVE  MapInv'
  <1>1. /\ UNCHANGED <<shown, salesOpen, holding, cool, wakes, now, left, holds>>
        /\ UpdateSummary /\ shown[s] = "free" /\ MapTypeOK
    BY DEF Toggle, service, timing, MapInv
  <1>2. selected' \subseteq Seats /\ SelectedAreFree'
    BY <1>1 DEF Toggle, MapInv, MapTypeOK, SelectedAreFree
  <1>3. WaitInside' /\ OneHoldAtATime'
    BY <1>1 DEF MapInv, WaitInside, HoldInside, OneHoldAtATime
  <1>4. ~left => (holding' <=> holds' # <<>>)
    BY <1>1 DEF MapInv, HoldInside
  <1>5. /\ shown' \in [Seats -> {"free", "held"}] /\ cool' \in Nat /\ wakes' \subseteq Nat
        /\ holds' \in Seq(HoldRecord)
    BY <1>1 DEF MapTypeOK
  <1>6. salesOpen' \in BOOLEAN /\ holding' \in BOOLEAN
    BY <1>1 DEF MapTypeOK
  <1>7. QED
    BY <1>1, <1>2, <1>3, <1>4, <1>5, <1>6, PageMoves

\* A button that is on belongs to a page with no hold in flight.
LEMMA PlaceStep ==
    ASSUME MapInv, PlaceHold
    PROVE  MapInv'
  <1>0. /\ UNCHANGED <<shown, selected, salesOpen, cool, wakes, now, left>>
        /\ UpdateSummary /\ holding' = TRUE /\ ~left /\ ~off /\ MapTypeOK
    BY DEF PlaceHold, service, timing, MapInv
  <1>1. holds = <<>>
    BY <1>0 DEF MapInv, HoldInside, MapTypeOK
  <1>2. PICK h \in HoldRecord : holds' = Append(holds, h)
    <2>1. PICK h : h = [seats |-> selected, ans |-> "none", taken |-> {}]
      OBVIOUS
    <2>2. h \in HoldRecord
      BY <1>0, <2>1 DEF HoldRecord, HoldAnswers, MapTypeOK
    <2>3. QED
      BY <2>1, <2>2 DEF PlaceHold
  <1>3. holds' = <<h>>
    BY <1>1, <1>2
  <1>4. holds' \in Seq(HoldRecord) /\ Len(holds') = 1 /\ holds' # <<>>
    BY <1>3
  <1>5. SelectedAreFree' /\ WaitInside'
    BY <1>0 DEF MapInv, SelectedAreFree, WaitInside
  <1>6. OneHoldAtATime' /\ (holding' <=> holds' # <<>>)
    BY <1>0, <1>4 DEF OneHoldAtATime
  <1>7. /\ shown' \in [Seats -> {"free", "held"}] /\ cool' \in Nat /\ wakes' \subseteq Nat
        /\ selected' \subseteq Seats
    BY <1>0 DEF MapTypeOK
  <1>8. salesOpen' \in BOOLEAN /\ holding' \in BOOLEAN
    BY <1>0 DEF MapTypeOK
  <1>9. QED
    BY <1>0, <1>4, <1>5, <1>6, <1>7, <1>8, PageMoves

\* The answer to the hold, whatever it is.
LEMMA HoldAnsweredStep ==
    ASSUME MapInv, NEW n \in 1 .. MaxCalls, HoldAnswered(n)
    PROVE  MapInv'
  <1>0. n \in DOMAIN holds /\ ~left /\ now' = now /\ MapTypeOK
    BY DEF HoldAnswered, service, MapInv
  <1>1. holds[n] \in HoldRecord /\ holds' = <<>>
    BY <1>0, AtMostOneHold DEF HoldAnswered
  <1>2. holds' \in Seq(HoldRecord) /\ Len(holds') = 0 /\ OneHoldAtATime'
    BY <1>1 DEF OneHoldAtATime
  <1>3. CASE holds[n].ans = "ok"
    <2>1. left' = TRUE /\ UNCHANGED <<shown, selected, salesOpen, holding, off, cool, wakes>>
      BY <1>3 DEF HoldAnswered, timing
    <2>2. MapTypeOK'
      BY <1>0, <1>2, <2>1 DEF MapTypeOK
    <2>3. SelectedAreFree' /\ WaitInside' /\ HoldInside' /\ WaitIsHonoured' /\ HoldButtonRecovers'
      BY <1>0, <1>2, <2>1 DEF MapInv, SelectedAreFree, WaitInside, HoldInside,
                              WaitIsHonoured, HoldButtonRecovers
    <2>4. QED
      BY <2>2, <2>3 DEF MapInv
  <1>4. CASE holds[n].ans # "ok"
    <2>1. UpdateSummary /\ holding' = FALSE /\ left' = left
      BY <1>4 DEF HoldAnswered
    <2>2. salesOpen' \in BOOLEAN /\ holding' \in BOOLEAN
      BY <1>4, <2>1 DEF HoldAnswered
    <2>3. /\ shown' \in [Seats -> {"free", "held"}] /\ selected' \subseteq Seats
          /\ SelectedAreFree'
      <3>1. CASE holds[n].ans = "seat-unavailable"
        <4>1. PICK taken : taken = holds[n].taken
          OBVIOUS
        <4>2. ApplyStatus(taken, {})
          BY <1>4, <3>1, <4>1 DEF HoldAnswered
        <4>3. QED
          BY <4>2, StatusApplied
      <3>2. CASE holds[n].ans # "seat-unavailable"
        <4>1. UNCHANGED <<shown, selected>>
          BY <1>4, <3>2 DEF HoldAnswered
        <4>2. QED
          BY <4>1 DEF MapInv, MapTypeOK, SelectedAreFree
      <3>3. QED
        BY <3>1, <3>2
    <2>4. cool' \in Nat /\ wakes' \subseteq Nat /\ WaitInside'
      <3>1. CASE holds[n].ans = "retry"
        <4>1. PICK c \in Nat : c = now + RetryAfter
          BY <1>0, MapAssumption DEF MapTypeOK
        <4>2. cool' = c /\ wakes' = wakes \cup {c}
          BY <1>4, <3>1, <4>1 DEF HoldAnswered, Backoff
        <4>3. QED
          BY <1>0, <4>2 DEF MapTypeOK, WaitInside
      <3>2. CASE holds[n].ans # "retry"
        <4>1. UNCHANGED <<cool, wakes>>
          BY <1>4, <3>2 DEF HoldAnswered, timing
        <4>2. QED
          BY <1>0, <4>1 DEF MapInv, MapTypeOK, WaitInside
      <3>3. QED
        BY <3>1, <3>2
    <2>5. ~left => (holding' <=> holds' # <<>>)
      BY <1>1, <2>1
    <2>6. QED
      BY <1>0, <1>2, <2>1, <2>2, <2>3, <2>4, <2>5, PageMoves
  <1>5. QED
    BY <1>3, <1>4

\* A timer that fires early for a later wait leaves that one its own.
LEMMA WakeStep ==
    ASSUME MapInv, Wake
    PROVE  MapInv'
  <1>0. /\ UNCHANGED <<shown, selected, salesOpen, holding, cool, now, left, holds>>
        /\ UpdateSummary /\ MapTypeOK
    BY DEF Wake, service, MapInv
  <1>1. PICK due \in wakes : due <= now /\ wakes' = wakes \ {due}
    BY DEF Wake
  <1>2. now \in Nat /\ cool \in Nat /\ wakes \subseteq Nat
    BY <1>0 DEF MapTypeOK
  <1>3. WaitInside'
    <2>1. ASSUME now < cool PROVE \E d \in wakes' : d >= cool
      <3>1. PICK d \in wakes : d >= cool
        BY <2>1 DEF MapInv, WaitInside
      <3>2. d # due
        BY <1>1, <1>2, <2>1, <3>1
      <3>3. QED
        BY <1>1, <3>1, <3>2
    <2>2. QED
      BY <1>0, <2>1 DEF WaitInside
  <1>4. SelectedAreFree' /\ OneHoldAtATime' /\ (~left => (holding' <=> holds' # <<>>))
    BY <1>0 DEF MapInv, SelectedAreFree, HoldInside, OneHoldAtATime
  <1>5. /\ shown' \in [Seats -> {"free", "held"}] /\ cool' \in Nat /\ wakes' \subseteq Nat
        /\ selected' \subseteq Seats /\ holds' \in Seq(HoldRecord)
    BY <1>0, <1>1 DEF MapTypeOK
  <1>6. salesOpen' \in BOOLEAN /\ holding' \in BOOLEAN
    BY <1>0 DEF MapTypeOK
  <1>7. QED
    BY <1>0, <1>3, <1>4, <1>5, <1>6, PageMoves

\* A refresh, however old the map it read.
LEMMA RefreshedStep ==
    ASSUME MapInv, NEW n \in 1 .. MaxCalls, Refreshed(n)
    PROVE  MapInv'
  <1>0. now' = now /\ holds' = holds /\ MapTypeOK
    BY DEF Refreshed, service, MapInv
  <1>1. CASE ~(refreshes[n].read /\ MayApply)
    <2>1. UNCHANGED <<shown, selected, salesOpen, holding, off, cool, wakes, left>>
      BY <1>1 DEF Refreshed, view, timing
    <2>2. MapTypeOK'
      BY <1>0, <2>1 DEF MapTypeOK
    <2>3. SelectedAreFree' /\ WaitInside' /\ HoldInside' /\ WaitIsHonoured' /\ HoldButtonRecovers'
      BY <1>0, <2>1 DEF MapInv, SelectedAreFree, WaitInside, HoldInside, OneHoldAtATime,
                        WaitIsHonoured, HoldButtonRecovers
    <2>4. QED
      BY <2>2, <2>3 DEF MapInv
  <1>2. CASE refreshes[n].read /\ MayApply
    <2>1. PICK taken, free :
            /\ taken = {s \in refreshes[n].taken : shown[s] = "free"}
            /\ free = {s \in Seats \ refreshes[n].taken : shown[s] # "free"}
      OBVIOUS
    <2>2. /\ ApplyStatus(taken, free) /\ UpdateSummary
          /\ UNCHANGED <<salesOpen, holding, cool, wakes, left>>
      BY <1>2, <2>1 DEF Refreshed, timing
    <2>3. /\ shown' \in [Seats -> {"free", "held"}] /\ selected' \subseteq Seats
          /\ SelectedAreFree'
      BY <2>2, StatusApplied
    <2>4. WaitInside' /\ OneHoldAtATime' /\ (~left => (holding' <=> holds' # <<>>))
      BY <1>0, <2>2 DEF MapInv, WaitInside, HoldInside, OneHoldAtATime
    <2>5. cool' \in Nat /\ wakes' \subseteq Nat /\ holds' \in Seq(HoldRecord)
      BY <1>0, <2>2 DEF MapTypeOK
    <2>6. salesOpen' \in BOOLEAN /\ holding' \in BOOLEAN
      BY <1>0, <2>2 DEF MapTypeOK
    <2>7. QED
      BY <1>0, <2>2, <2>3, <2>4, <2>5, <2>6, PageMoves
  <1>3. QED
    BY <1>1, <1>2

LEMMA LeaveStep ==
    ASSUME MapInv, Leave
    PROVE  MapInv'
  <1>1. /\ left' = TRUE
        /\ UNCHANGED <<shown, selected, salesOpen, holding, off, cool, wakes, now, holds>>
    BY DEF Leave, service, timing
  <1>2. MapTypeOK'
    BY <1>1 DEF MapInv, MapTypeOK
  <1>3. SelectedAreFree' /\ WaitInside' /\ HoldInside' /\ WaitIsHonoured' /\ HoldButtonRecovers'
    BY <1>1 DEF MapInv, SelectedAreFree, WaitInside, HoldInside, OneHoldAtATime,
                WaitIsHonoured, HoldButtonRecovers
  <1>4. QED
    BY <1>2, <1>3 DEF MapInv

LEMMA MapInvariance == Spec => []MapInv
  <1>1. Init => MapInv
    <2> SUFFICES ASSUME Init PROVE MapInv
      OBVIOUS
    <2>1. /\ selected = {} /\ holding = FALSE /\ off = TRUE /\ cool = 0 /\ wakes = {}
          /\ left = FALSE /\ holds = <<>> /\ now = 0
      BY DEF Init
    <2>2. shown \in [Seats -> {"free", "held"}] /\ holds \in Seq(HoldRecord) /\ Len(holds) = 0
      BY <2>1 DEF Init
    <2>3. salesOpen \in BOOLEAN /\ holding \in BOOLEAN /\ off \in BOOLEAN /\ left \in BOOLEAN
      BY <2>1 DEF Init
    <2>4. MapTypeOK
      BY <2>1, <2>2, <2>3 DEF MapTypeOK
    <2>5. SelectedAreFree /\ HoldInside /\ WaitInside /\ WaitIsHonoured /\ HoldButtonRecovers
      BY <2>1, <2>2 DEF SelectedAreFree, HoldInside, OneHoldAtATime, WaitInside,
                        WaitIsHonoured, HoldButtonRecovers
    <2>6. QED
      BY <2>4, <2>5 DEF MapInv
  <1>2. MapInv /\ [Next]_vars => MapInv'
    BY QuietStep, HoldReplyStep, ToggleStep, PlaceStep, HoldAnsweredStep, WakeStep,
       RefreshedStep, LeaveStep DEF Next
  <1>3. QED
    BY <1>1, <1>2, PTL DEF Spec
-----------------------------------------------------------------------------
(* Theorems                                                                *)

\* Whatever order refreshes and refusals come in, applyStatus (seats.js) leaves
\* no seat selected that the page shows as taken.
THEOREM SelectionIsFree == Spec => []SelectedAreFree
  <1>1. MapInv => SelectedAreFree
    BY DEF MapInv
  <1>2. QED
    BY <1>1, MapInvariance, PTL

\* No toggle, timer or refresh re-enables the Hold button while placeHold
\* (seats.js) waits for its answer.
THEOREM OneHold == Spec => []OneHoldAtATime
  <1>1. MapInv => OneHoldAtATime
    BY DEF MapInv, HoldInside
  <1>2. QED
    BY <1>1, MapInvariance, PTL

\* The wait of a 429 or a 503 outlasts everything else that repaints the
\* button, however many waits overlap.
THEOREM WaitHonoured == Spec => []WaitIsHonoured
  <1>1. MapInv => WaitIsHonoured
    BY DEF MapInv
  <1>2. QED
    BY <1>1, MapInvariance, PTL

\* And when it is over a timer is still to come: the button is not left off.
THEOREM HoldRecovers == Spec => []HoldButtonRecovers
  <1>1. MapInv => HoldButtonRecovers
    BY DEF MapInv
  <1>2. QED
    BY <1>1, MapInvariance, PTL

\* A refresh that was asked for before the hold looks at holding again after
\* its await, and so does not repaint the map under it.
THEOREM Undisturbed == Spec => HoldIsUndisturbed
  <1>1. ASSUME Next, holding, holding' PROVE UNCHANGED shown
    <2>1. CASE SalesClose \/ Clock \/ PlaceHold \/ Wake \/ Refresh \/ Leave
      BY <2>1 DEF SalesClose, Clock, PlaceHold, Wake, Refresh, Leave, view
    <2>2. CASE \E s \in Seats : Elsewhere(s) \/ Toggle(s)
      BY <2>2 DEF Elsewhere, Toggle, view
    <2>3. CASE \E n \in 1 .. MaxCalls : HoldReply(n) \/ RefreshReply(n)
      BY <2>3 DEF HoldReply, RefreshReply, view
    <2>4. ASSUME NEW n \in 1 .. MaxCalls, HoldAnswered(n) PROVE UNCHANGED shown
      BY <1>1, <2>4 DEF HoldAnswered
    <2>5. ASSUME NEW n \in 1 .. MaxCalls, Refreshed(n) PROVE UNCHANGED shown
      BY <1>1, <2>5 DEF Refreshed, MayApply, view
    <2>6. QED
      BY <1>1, <2>1, <2>2, <2>3, <2>4, <2>5 DEF Next
  <1>2. [Next]_vars => [holding /\ holding' => UNCHANGED shown]_vars
    BY <1>1
  <1>3. QED
    BY <1>2, PTL DEF Spec, HoldIsUndisturbed
=============================================================================
