---------------------------- MODULE HoldViewProofs ----------------------------
(***************************************************************************)
(* Proofs about the page of a hold: however late answers and timers come,  *)
(* it has one action out at a time, and its Confirm button is never left   *)
(* disabled for good.                                                      *)
(***************************************************************************)
EXTENDS HoldView, TLAPS

-----------------------------------------------------------------------------
(* The inductive invariant                                                 *)

Pages == {"away", "loading", "replaying", "open", "expired", "released", "booked",
          "failed", "seats"}

Answers == {"none", "sent", "ok", "retry", "error", "lost", "held", "expired", "released",
            "confirmed", "hold-expired", "hold-confirmed"}

ViewTypeOK ==
    /\ row \in {"held", "confirmed", "released"}
    /\ now \in Nat /\ cool \in Nat /\ wakes \subseteq Nat
    /\ page \in Pages /\ call \in [Ops -> Answers]
    /\ busy \in BOOLEAN /\ off \in BOOLEAN

\* busy is set while an action is out, and Confirm is off while busy is set.
BusyInside ==
    /\ busy => off
    /\ page \in {"away", "loading", "replaying"} => ~busy
    /\ page = "open" => (busy => InFlight("confirm") \/ InFlight("release"))
    /\ page \in {"open", "expired"} => (InFlight("confirm") \/ InFlight("release") => busy)

\* Only the page that made a call waits for it.
CallsInside ==
    /\ InFlight("confirm") => page \in {"open", "expired", "replaying"}
    /\ InFlight("release") => page \in {"open", "expired"}
    /\ OneActionAtATime

\* A wait that is not over has its timer, and so has a button that a wait left
\* disabled.
TimersInside ==
    /\ now < cool => \E due \in wakes : due >= cool
    /\ off => busy \/ \E due \in wakes : due >= cool

ViewInv == ViewTypeOK /\ BusyInside /\ CallsInside /\ TimersInside
-----------------------------------------------------------------------------
(* The service and the clock                                               *)

LEMMA AnswerType ==
    ASSUME ViewTypeOK, NEW op \in Ops
    PROVE  /\ AnswerTo(op) \in Answers \ {"none"}
           /\ After(op) \in {"held", "confirmed", "released"}
  BY DEF ViewTypeOK, Ops, AnswerTo, After, Status, Answers

\* An answer on its way does not change that the call is out.
LEMMA ReplyStep ==
    ASSUME ViewInv, NEW op \in Ops, Reply(op)
    PROVE  ViewInv'
  <1>1. PICK ans \in Answers \ {"none"} : call' = [call EXCEPT ![op] = ans]
    BY AnswerType DEF ViewInv, Reply, Answers
  <1>2. row' \in {"held", "confirmed", "released"}
    BY AnswerType DEF ViewInv, ViewTypeOK, Reply
  <1>3. UNCHANGED <<now, page, busy, off, cool, wakes>>
    BY DEF Reply, buttons
  <1>4. call' \in [Ops -> Answers] /\ \A o \in Ops : call'[o] # "none" <=> call[o] # "none"
    BY <1>1 DEF ViewInv, ViewTypeOK, Reply
  <1>5. ViewTypeOK'
    BY <1>2, <1>3, <1>4 DEF ViewInv, ViewTypeOK
  <1>6. (InFlight("confirm")' <=> InFlight("confirm")) /\ (InFlight("release")' <=> InFlight("release"))
    BY <1>4 DEF InFlight, Ops
  <1>7. BusyInside'
    BY <1>3, <1>6 DEF ViewInv, BusyInside
  <1>8. CallsInside'
    BY <1>3, <1>6 DEF ViewInv, CallsInside, OneActionAtATime
  <1>9. TimersInside'
    BY <1>3 DEF ViewInv, TimersInside
  <1>10. QED
    BY <1>5, <1>7, <1>8, <1>9 DEF ViewInv

\* Other tabs, late calls and the clock leave the tab alone.
LEMMA AroundStep ==
    ASSUME ViewInv,
           Clock \/ (\E op \in Ops : Late(op) \/ Elsewhere(op)) \/ UNCHANGED vars
    PROVE  ViewInv'
  <1>1. UNCHANGED <<page, call, busy, off, cool, wakes>>
    BY DEF Clock, Late, Elsewhere, buttons, vars
  <1>2. now' \in Nat /\ now' >= now /\ now \in Nat /\ cool \in Nat
    BY DEF ViewInv, ViewTypeOK, Clock, Late, Elsewhere, vars
  <1>3. row' \in {"held", "confirmed", "released"}
    BY AnswerType DEF ViewInv, ViewTypeOK, Clock, Late, Elsewhere, vars
  <1>4. ViewTypeOK'
    BY <1>1, <1>2, <1>3 DEF ViewInv, ViewTypeOK
  <1>5. BusyInside' /\ CallsInside'
    BY <1>1 DEF ViewInv, BusyInside, CallsInside, OneActionAtATime, InFlight
  <1>6. now' < cool' => now < cool
    BY <1>1, <1>2
  <1>7. TimersInside'
    BY <1>1, <1>6 DEF ViewInv, TimersInside
  <1>8. QED
    BY <1>4, <1>5, <1>7 DEF ViewInv
-----------------------------------------------------------------------------
(* The page                                                                *)

\* Opening a page starts from nothing.
LEMMA VisitStep ==
    ASSUME ViewInv, Visit \/ Leave
    PROVE  ViewInv'
  <1>1. PICK to \in {"loading", "seats"}, sent \in {{}, {"load"}} : Abort(to, sent)
    BY DEF Visit, Leave
  <1>2. /\ page' = to /\ busy' = FALSE /\ off' = FALSE /\ cool' = 0 /\ wakes' = {}
        /\ UNCHANGED <<row, now>>
    BY <1>1 DEF Abort
  <1>3. call' = [op \in Ops |-> IF op \in sent THEN "sent" ELSE "none"]
    BY <1>1 DEF Abort
  <1>4. ~InFlight("confirm")' /\ ~InFlight("release")'
    BY <1>3 DEF InFlight, Ops
  <1>5. call' \in [Ops -> Answers]
    BY <1>3 DEF Answers
  <1>6. ViewTypeOK'
    BY <1>2, <1>5 DEF ViewInv, ViewTypeOK, Pages
  <1>7. BusyInside' /\ CallsInside'
    BY <1>2, <1>4 DEF BusyInside, CallsInside, OneActionAtATime
  <1>8. TimersInside'
    BY <1>2 DEF ViewInv, ViewTypeOK, TimersInside
  <1>9. QED
    BY <1>6, <1>7, <1>8 DEF ViewInv

\* What was loaded is shown; a confirmed hold is confirmed again.
LEMMA LoadStep ==
    ASSUME ViewInv, Load
    PROVE  ViewInv'
  <1>0. page = "loading" /\ UNCHANGED <<row, now, busy, off, cool, wakes>> /\ ~busy
        /\ call \in [Ops -> Answers] /\ ~InFlight("confirm") /\ ~InFlight("release")
    BY DEF Load, server, buttons, ViewInv, ViewTypeOK, BusyInside, CallsInside
  <1>t. TimersInside'
    BY <1>0 DEF ViewInv, TimersInside
  <1>1. CASE call["load"] = "confirmed" /\ page' = "replaying"
             /\ call' = [call EXCEPT !["load"] = "none", !["confirm"] = "sent"]
    <2>1. call' \in [Ops -> Answers] /\ call'["release"] = call["release"]
      BY <1>0, <1>1 DEF Answers, Ops
    <2>2. ViewTypeOK'
      BY <1>0, <1>1, <2>1 DEF ViewInv, ViewTypeOK, Pages
    <2>3. BusyInside' /\ CallsInside'
      BY <1>0, <1>1, <2>1 DEF BusyInside, CallsInside, OneActionAtATime, InFlight, ViewInv
    <2>4. QED
      BY <1>t, <2>2, <2>3 DEF ViewInv
  <1>2. CASE \E to \in {"open", "expired", "released", "failed"} : Settled("load", to)
    <2>1. PICK to \in {"open", "expired", "released", "failed"} :
            page' = to /\ call' = [call EXCEPT !["load"] = "none"]
      BY <1>2 DEF Settled
    <2>2. /\ call' \in [Ops -> Answers] /\ call'["release"] = call["release"]
          /\ call'["confirm"] = call["confirm"]
      BY <1>0, <2>1 DEF Answers, Ops
    <2>3. ViewTypeOK'
      BY <1>0, <2>1, <2>2 DEF ViewInv, ViewTypeOK, Pages
    <2>4. BusyInside' /\ CallsInside'
      BY <1>0, <2>1, <2>2 DEF BusyInside, CallsInside, OneActionAtATime, InFlight, ViewInv
    <2>5. QED
      BY <1>t, <2>3, <2>4 DEF ViewInv
  <1>3. QED
    <2>1. \/ call["load"] = "confirmed" /\ page' = "replaying"
             /\ call' = [call EXCEPT !["load"] = "none", !["confirm"] = "sent"]
          \/ \E to \in {"open", "expired", "released", "failed"} : Settled("load", to)
      BY DEF Load
    <2>2. QED
      BY <1>1, <1>2, <2>1

\* A confirm that was repeated for its reference; and the countdown.
LEMMA PageStep ==
    ASSUME ViewInv, Replayed \/ Tick
    PROVE  ViewInv'
  <1>0. UNCHANGED <<row, now, busy, off, cool, wakes>> /\ call \in [Ops -> Answers]
    BY DEF Replayed, Tick, server, buttons, ViewInv, ViewTypeOK
  <1>t. TimersInside'
    BY <1>0 DEF ViewInv, TimersInside
  <1>1. CASE Replayed
    <2>1. PICK to \in {"booked", "failed"} :
            page' = to /\ call' = [call EXCEPT !["confirm"] = "none"]
      BY <1>1 DEF Replayed, Settled
    <2>2. /\ call' \in [Ops -> Answers] /\ call'["release"] = call["release"]
          /\ call'["confirm"] = "none" /\ page = "replaying"
      BY <1>0, <1>1, <2>1 DEF Answers, Ops, Replayed
    <2>3. ViewTypeOK'
      BY <1>0, <2>1, <2>2 DEF ViewInv, ViewTypeOK, Pages
    <2>4. BusyInside' /\ CallsInside'
      BY <1>0, <2>1, <2>2 DEF BusyInside, CallsInside, OneActionAtATime, InFlight, ViewInv
    <2>5. QED
      BY <1>t, <2>3, <2>4 DEF ViewInv
  <1>2. CASE Tick
    <2>1. page = "open" /\ page' = "expired" /\ call' = call
      BY <1>2 DEF Tick
    <2>2. ViewTypeOK'
      BY <1>0, <2>1 DEF ViewInv, ViewTypeOK, Pages
    <2>3. BusyInside' /\ CallsInside'
      BY <1>0, <2>1 DEF BusyInside, CallsInside, OneActionAtATime, InFlight, ViewInv
    <2>4. QED
      BY <1>t, <2>2, <2>3 DEF ViewInv
  <1>3. QED
    BY <1>1, <1>2

\* A button that can be clicked belongs to a page with nothing out.
LEMMA ClickStep ==
    ASSUME ViewInv, NEW op \in {"confirm", "release"}, Click(op)
    PROVE  ViewInv'
  <1>1. /\ page = "open" /\ page' = page /\ busy' = TRUE /\ off' = TRUE
        /\ UNCHANGED <<row, now, cool, wakes>>
    BY DEF Click, SetBusy, server
  <1>2. ~busy
    BY DEF Click, Disabled, ViewInv, BusyInside
  <1>3. ~InFlight("confirm") /\ ~InFlight("release")
    BY <1>1, <1>2 DEF ViewInv, BusyInside
  <1>4. call' = [call EXCEPT ![op] = "sent"] /\ call \in [Ops -> Answers]
    BY DEF Click, ViewInv, ViewTypeOK
  <1>5. call' \in [Ops -> Answers] /\ call'[op] = "sent"
        /\ \A o \in {"confirm", "release"} \ {op} : call'[o] = "none"
    BY <1>3, <1>4 DEF Answers, Ops, InFlight
  <1>6. ViewTypeOK'
    BY <1>1, <1>5 DEF ViewInv, ViewTypeOK
  <1>7. BusyInside' /\ CallsInside'
    BY <1>1, <1>5 DEF BusyInside, CallsInside, OneActionAtATime, InFlight
  <1>8. TimersInside'
    BY <1>1 DEF ViewInv, TimersInside
  <1>9. QED
    BY <1>6, <1>7, <1>8 DEF ViewInv

\* A wait that starts now brings its timer.
LEMMA BackoffTimes ==
    ASSUME ViewTypeOK, Backoff
    PROVE  cool' \in Nat /\ wakes' \subseteq Nat /\ \E due \in wakes' : due >= cool'
  <1>1. PICK c \in Nat : c = now + RetryAfter
    BY ViewAssumption DEF ViewTypeOK
  <1>2. cool' = c /\ wakes' = wakes \cup {c}
    BY <1>1 DEF Backoff
  <1>3. QED
    BY <1>2 DEF ViewTypeOK

\* Whatever an action is answered with, the buttons are in order after it.
LEMMA AnsweredStep ==
    ASSUME ViewInv, NEW op \in {"confirm", "release"}, Answered(op)
    PROVE  ViewInv'
  <1>0. /\ page \in {"open", "expired"} /\ InFlight(op) /\ UNCHANGED <<row, now>>
        /\ call \in [Ops -> Answers] /\ ViewTypeOK
    BY DEF Answered, server, ViewInv, ViewTypeOK, InFlight
  <1>1. PICK to \in {"booked", "seats", "open", "expired"} :
          page' = to /\ call' = [call EXCEPT ![op] = "none"]
    BY <1>0 DEF Answered, Settled
  <1>2. call' \in [Ops -> Answers]
    BY <1>0, <1>1 DEF Answers, Ops
  <1>3. ~InFlight("confirm")' /\ ~InFlight("release")'
    BY <1>0, <1>1 DEF ViewInv, CallsInside, OneActionAtATime, InFlight, Ops
  <1>4. CallsInside'
    BY <1>3 DEF CallsInside, OneActionAtATime
  <1>5. CASE UNCHANGED buttons /\ to \in {"booked", "seats"}
    <2>1. UNCHANGED <<busy, off, cool, wakes>>
      BY <1>5 DEF buttons
    <2>2. ViewTypeOK'
      BY <1>0, <1>1, <1>2, <2>1 DEF ViewTypeOK, Pages
    <2>3. BusyInside'
      BY <1>1, <1>5, <2>1 DEF ViewInv, BusyInside
    <2>4. TimersInside'
      BY <1>0, <2>1 DEF ViewInv, TimersInside
    <2>5. QED
      BY <1>4, <2>2, <2>3, <2>4 DEF ViewInv
  <1>6. CASE SetBusy(FALSE) /\ (Backoff \/ UNCHANGED <<cool, wakes>>)
    <2>1. busy' = FALSE /\ off' \in BOOLEAN /\ (off' => now < cool)
      BY <1>6 DEF SetBusy
    <2>2. cool' \in Nat /\ wakes' \subseteq Nat
      BY <1>0, <1>6, BackoffTimes DEF ViewTypeOK
    <2>3. (off' \/ now' < cool') => \E due \in wakes' : due >= cool'
      <3>1. CASE Backoff
        BY <1>0, <3>1, BackoffTimes
      <3>2. CASE UNCHANGED <<cool, wakes>>
        BY <1>0, <2>1, <3>2 DEF ViewInv, TimersInside
      <3>3. QED
        BY <1>6, <3>1, <3>2
    <2>4. ViewTypeOK'
      BY <1>0, <1>1, <1>2, <2>1, <2>2 DEF ViewTypeOK, Pages
    <2>5. BusyInside'
      BY <1>3, <2>1 DEF BusyInside
    <2>6. TimersInside'
      BY <2>3 DEF TimersInside
    <2>7. QED
      BY <1>4, <2>4, <2>5, <2>6 DEF ViewInv
  <1>7. QED
    <2>1. \/ UNCHANGED buttons /\ to \in {"booked", "seats"}
          \/ SetBusy(FALSE) /\ (Backoff \/ UNCHANGED <<cool, wakes>>)
      BY <1>1 DEF Answered, Settled
    <2>2. QED
      BY <1>5, <1>6, <2>1

\* A timer that fires early for a later wait leaves that one its own.
LEMMA WakeStep ==
    ASSUME ViewInv, Wake
    PROVE  ViewInv'
  <1>0. UNCHANGED <<row, now, page, call, cool>>
    BY DEF Wake, server
  <1>1. PICK due \in wakes : due <= now /\ wakes' = wakes \ {due}
    BY DEF Wake
  <1>2. busy \in BOOLEAN /\ busy' = busy /\ off' \in BOOLEAN /\ (off' <=> busy \/ now < cool)
    BY DEF Wake, SetBusy, ViewInv, ViewTypeOK
  <1>3. now \in Nat /\ cool \in Nat /\ wakes \subseteq Nat
    BY DEF ViewInv, ViewTypeOK
  <1>4. now < cool => \E d \in wakes' : d >= cool
    <2>1. ASSUME now < cool PROVE \E d \in wakes' : d >= cool
      <3>1. PICK d \in wakes : d >= cool
        BY <2>1 DEF ViewInv, TimersInside
      <3>2. d # due
        BY <1>1, <1>3, <2>1, <3>1
      <3>3. QED
        BY <1>1, <3>1, <3>2
    <2>2. QED
      BY <2>1
  <1>5. ViewTypeOK'
    BY <1>0, <1>1, <1>2, <1>3 DEF ViewInv, ViewTypeOK
  <1>6. BusyInside' /\ CallsInside'
    BY <1>0, <1>2 DEF ViewInv, BusyInside, CallsInside, OneActionAtATime, InFlight
  <1>7. TimersInside'
    BY <1>0, <1>2, <1>4 DEF TimersInside
  <1>8. QED
    BY <1>5, <1>6, <1>7 DEF ViewInv

LEMMA ViewInvariance == Spec => []ViewInv
  <1>1. Init => ViewInv
    <2> SUFFICES ASSUME Init PROVE ViewInv
      OBVIOUS
    <2>1. /\ row = "held" /\ now = 0 /\ page = "away" /\ call = [op \in Ops |-> "none"]
          /\ busy = FALSE /\ off = FALSE /\ cool = 0 /\ wakes = {}
      BY DEF Init
    <2>2. call \in [Ops -> Answers]
      BY <2>1 DEF Answers
    <2>3. busy \in BOOLEAN /\ off \in BOOLEAN
      BY <2>1
    <2>4. ViewTypeOK
      BY <2>1, <2>2, <2>3 DEF ViewTypeOK, Pages
    <2>5. BusyInside /\ CallsInside /\ TimersInside
      BY <2>1 DEF BusyInside, CallsInside, OneActionAtATime, TimersInside, InFlight, Ops
    <2>6. QED
      BY <2>4, <2>5 DEF ViewInv
  <1>2. ViewInv /\ [Next]_vars => ViewInv'
    BY ReplyStep, AroundStep, VisitStep, LoadStep, PageStep, ClickStep, AnsweredStep, WakeStep
       DEF Next
  <1>3. QED
    BY <1>1, <1>2, PTL DEF Spec
-----------------------------------------------------------------------------
(* Theorems                                                                *)

\* Whenever a customer clicks and whichever timers of backoff (hold.js) fire
\* while an answer is out, confirm and release are never out together.
THEOREM OneAction == Spec => []OneActionAtATime
  <1>1. ViewInv => OneActionAtATime
    BY DEF ViewInv, CallsInside
  <1>2. QED
    BY <1>1, ViewInvariance, PTL

\* On the open page a disabled Confirm is waiting for something that is going
\* to happen: an answer, or a timer that is due no earlier than the wait ends.
THEOREM ConfirmRecovers == Spec => []ConfirmButtonRecovers
  <1>1. ViewInv => ConfirmButtonRecovers
    BY DEF ViewInv, BusyInside, TimersInside, ConfirmButtonRecovers
  <1>2. QED
    BY <1>1, ViewInvariance, PTL
=============================================================================
