------------------------------- MODULE HoldView -------------------------------
(***************************************************************************)
(* The page of one hold in one browser tab (internal/web/static/js/views/  *)
(* hold.js): loading it, the countdown, the Confirm and Release buttons,   *)
(* and what is shown as answers come back late, lost, or not at all.  The  *)
(* service is reduced to what the page can tell apart: where the hold is   *)
(* and what each call answers.                                             *)
(***************************************************************************)
EXTENDS Integers

CONSTANTS
    Expiry,      \* expires_at, on the database clock
    MaxTime,     \* bound on the clock
    RetryAfter,  \* the wait of a 503, as a number of clock steps
    Slack,       \* how far serverNow() may be from the database clock
    OtherTab     \* what another tab with the same link may do

ASSUME ViewAssumption ==
    /\ Expiry \in Nat /\ MaxTime \in Nat /\ RetryAfter \in Nat \ {0}
    /\ Slack \in Nat /\ OtherTab \subseteq {"confirm", "release"}

VARIABLES
    row,     \* the hold in the database
    now,     \* the database clock, and Date.now()
    strays,  \* calls on their way to the service that nobody waits for
    page,    \* what the tab shows
    call,    \* call[op]: none, sent, or its answer
    busy,
    off,     \* confirmButton.disabled
    cool,    \* coolUntil
    wakes,   \* when the pending setTimeouts of backoff are due
    offset   \* clockOffsetMs

vars == <<row, now, strays, page, call, busy, off, cool, wakes, offset>>

server == <<row, now, strays>>
buttons == <<busy, off, cool, wakes>>

Ops == {"load", "confirm", "release"}

\* noteServerClock: what is left of a clock difference after the correction.
Offsets == -Slack..Slack

InFlight(op) == call[op] # "none"

-----------------------------------------------------------------------------
(* The service                                                             *)

Status == IF row = "held" /\ now >= Expiry THEN "expired" ELSE row

\* The hold after the call, and the answer to it.
After(op) ==
    CASE op = "confirm" /\ Status = "held" -> "confirmed"
      [] op = "release" /\ row = "held"    -> "released"
      [] OTHER -> row

AnswerTo(op) ==
    CASE op = "load" -> Status
      [] op = "confirm" -> IF Status \in {"held", "confirmed"} THEN "ok" ELSE "hold-expired"
      [] op = "release" -> IF row = "confirmed" THEN "hold-confirmed" ELSE "ok"

\* request: the call is handled and answered, its answer is lost on the way
\* back, or it fails without having done anything.
Reply(op) ==
    /\ call[op] = "sent"
    /\ \/ \E ans \in {AnswerTo(op), "lost"} :
            row' = After(op) /\ call' = [call EXCEPT ![op] = ans]
       \/ \E ans \in {"retry", "error", "lost"} :
            UNCHANGED row /\ call' = [call EXCEPT ![op] = ans]
    /\ offset' \in IF call'[op] = "lost" THEN {offset} ELSE Offsets
    /\ UNCHANGED <<now, strays, page, buttons>>

\* A call whose page is gone, or that of another tab, arrives.
Late(op) ==
    /\ op \in strays
    /\ strays' = strays \ {op}
    /\ row' = After(op)
    /\ UNCHANGED <<now, page, call, buttons, offset>>

Elsewhere(op) ==
    /\ op \in OtherTab
    /\ strays' = strays \cup {op}
    /\ UNCHANGED <<row, now, page, call, buttons, offset>>

Clock ==
    /\ now < MaxTime
    /\ now' = now + 1
    /\ UNCHANGED <<row, strays, page, call, buttons, offset>>

-----------------------------------------------------------------------------
(* Routing                                                                 *)

\* The route changes: the signal aborts what is in flight, which the service
\* may still receive.
Abort(to, sent) ==
    /\ strays' = strays \cup {op \in {"confirm", "release"} : call[op] = "sent"}
    /\ call' = [op \in Ops |-> IF op \in sent THEN "sent" ELSE "none"]
    /\ page' = to
    /\ busy' = FALSE /\ off' = FALSE /\ cool' = 0 /\ wakes' = {}
    /\ UNCHANGED <<row, now, offset>>

\* The page is opened, reloaded or tried again; another one is opened.
Visit == Abort("loading", {"load"})
Leave == page \in {"open", "expired", "released"} /\ Abort("seats", {})

Settled(op, to) ==
    /\ page' = to
    /\ call' = [call EXCEPT ![op] = "none"]

\* hold: a confirmed hold is confirmed again for its reference, any other is
\* shown; a live one is looked at by tick at once.
Load ==
    /\ page = "loading" /\ call["load"] \notin {"none", "sent"}
    /\ \/ call["load"] = "confirmed" /\ page' = "replaying"
          /\ call' = [call EXCEPT !["load"] = "none", !["confirm"] = "sent"]
       \/ call["load"] \in {"held", "expired", "released"}
          /\ Settled("load",
                     IF call["load"] # "held" THEN call["load"]
                     ELSE IF now + offset >= Expiry THEN "expired" ELSE "open")
       \* getHold failed, or the showtime that is read next did.
       \/ call["load"] # "confirmed" /\ Settled("load", "failed")
    /\ UNCHANGED <<server, buttons, offset>>

Replayed ==
    /\ page = "replaying" /\ call["confirm"] \notin {"none", "sent"}
    /\ Settled("confirm", IF call["confirm"] = "ok" THEN "booked" ELSE "failed")
    /\ UNCHANGED <<server, buttons, offset>>

-----------------------------------------------------------------------------
(* The open page                                                           *)

\* Mutant: only an exact zero ends the countdown.
BadTick ==
    /\ page = "open"
    /\ now + offset = Expiry
    /\ page' = "expired"
    /\ UNCHANGED <<server, call, buttons, offset>>

Tick ==
    /\ page = "open"
    /\ now + offset >= Expiry
    /\ page' = "expired"
    /\ UNCHANGED <<server, call, buttons, offset>>

\* setBusy
SetBusy(value) ==
    /\ busy' = value
    /\ off' = (value \/ now < cool)

Disabled(op) == IF op = "confirm" THEN off ELSE busy

\* confirm and release, up to their await.
Click(op) ==
    /\ page = "open" /\ ~Disabled(op)
    /\ SetBusy(TRUE)
    /\ call' = [call EXCEPT ![op] = "sent"]
    /\ UNCHANGED <<server, page, cool, wakes, offset>>

\* Mutant: no timer.
BadBackoff ==
    /\ cool' = now + RetryAfter
    /\ UNCHANGED wakes

\* backoff: the wait is noted and a timer set.
Backoff ==
    /\ cool' = now + RetryAfter
    /\ wakes' = wakes \cup {now + RetryAfter}

\* The rest of confirm and release.
Answered(op) ==
    /\ page \in {"open", "expired"} /\ call[op] \notin {"none", "sent"}
    /\ \/ call[op] = "ok" /\ UNCHANGED buttons
          /\ Settled(op, IF op = "confirm" THEN "booked" ELSE "seats")
       \/ call[op] = "hold-expired" /\ SetBusy(FALSE) /\ UNCHANGED <<cool, wakes>>
          /\ Settled(op, "expired")
       \/ call[op] = "retry" /\ SetBusy(FALSE) /\ Backoff
          /\ Settled(op, page)
       \/ call[op] \in {"lost", "error", "hold-confirmed"} /\ SetBusy(FALSE)
          /\ UNCHANGED <<cool, wakes>> /\ Settled(op, page)
    /\ UNCHANGED <<server, offset>>

\* Mutant: the timer forgets that a call is out.
BadWake ==
    /\ \E due \in wakes :
         /\ due <= now
         /\ wakes' = wakes \ {due}
    /\ SetBusy(FALSE)
    /\ UNCHANGED <<server, page, call, cool, offset>>

\* The timer of backoff.
Wake ==
    /\ \E due \in wakes :
         /\ due <= now
         /\ wakes' = wakes \ {due}
    /\ SetBusy(busy)
    /\ UNCHANGED <<server, page, call, cool, offset>>

-----------------------------------------------------------------------------
Init ==
    /\ row = "held" /\ now = 0 /\ strays = {}
    /\ page = "away" /\ call = [op \in Ops |-> "none"]
    /\ busy = FALSE /\ off = FALSE /\ cool = 0 /\ wakes = {}
    /\ offset \in Offsets

Next ==
    \/ Clock \/ Visit \/ Leave \/ Load \/ Replayed \/ Tick \/ Wake
    \/ \E op \in Ops : Reply(op) \/ Late(op) \/ Elsewhere(op)
    \/ \E op \in {"confirm", "release"} : Click(op) \/ Answered(op)

Spec == Init /\ [][Next]_vars

\* Time passes, and the interval keeps calling tick.
FairSpec == Spec /\ WF_vars(Clock) /\ WF_vars(Tick)

-----------------------------------------------------------------------------
(* Properties                                                              *)

\* The page never has a confirm and a release out together, whatever timers
\* fire while one of them is out (setBusy).
OneActionAtATime == ~(InFlight("confirm") /\ InFlight("release"))

\* A button is not left disabled: on the open page a disabled Confirm has a
\* call out whose answer will enable it, or a timer that will (backoff).
ConfirmButtonRecovers ==
    page = "open" =>
        /\ busy => InFlight("confirm") \/ InFlight("release")
        /\ off => busy \/ \E due \in wakes : due >= cool

\* The countdown ends: an open page does not outlive its hold (tick).
CountdownEnds == page = "open" ~> page # "open"

\* hold.js: "The seats are back on sale, so choose again if you still want
\* them."  A page that says so and waits for no answer shows a hold that was
\* not booked.
ExpiredIsNotBooked == page = "expired" /\ ~InFlight("confirm") => row # "confirmed"

\* hold.js: "Try again in N seconds".  Until then Confirm is disabled.
HonoursRetryAfter == page = "open" /\ now < cool => off
=============================================================================
