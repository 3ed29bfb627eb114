----------------------------- MODULE SeatMapView -----------------------------
(***************************************************************************)
(* The seat map page of one showtime in one browser tab                    *)
(* (internal/web/static/js/views/seats.js), from its first paint until it  *)
(* is left: choosing seats, placing the hold, and the refreshes that run   *)
(* on a timer and whenever the tab becomes visible, so that several may be *)
(* out at once and be answered in any order.  The service is reduced to    *)
(* who has each seat and whether sales are open; the page treats held and  *)
(* sold alike.                                                             *)
(***************************************************************************)
EXTENDS Integers, Sequences

CONSTANTS
    Seats,
    MaxTime,      \* bound on the clock
    RetryAfter,   \* the wait of a 429 or 503, as a number of clock steps
    MaxCalls      \* bound on the refreshes, and on the holds, in flight

ASSUME MapAssumption ==
    MaxTime \in Nat /\ RetryAfter \in Nat \ {0} /\ MaxCalls \in Nat

VARIABLES
    owner,      \* owner[s]: nobody, this customer, or someone else
    selling,    \* the service sells this showtime
    now,
    shown,      \* entry.status
    selected,
    salesOpen,
    holding,
    off,        \* holdButton.disabled
    cool,       \* coolUntil
    wakes,      \* when the pending setTimeouts are due
    blamed,     \* seats the message says someone else has just taken
    left,       \* the page has been left
    holds,      \* the holds in flight: the seats asked for, and the answer
    refreshes   \* the refreshes in flight: unanswered, or the map they read

service == <<owner, selling, now>>
timing == <<cool, wakes>>
view == <<shown, selected, salesOpen, holding, off, timing, blamed, left>>
vars == <<service, view, holds, refreshes>>

-----------------------------------------------------------------------------
(* The service                                                             *)

\* Someone else takes a seat, or a hold on it lapses.
Elsewhere(s) ==
    /\ owner' = [owner EXCEPT ![s] = IF @ = "nobody" THEN "other" ELSE "nobody"]
    /\ UNCHANGED <<selling, now, view, holds, refreshes>>

SalesClose ==
    /\ selling
    /\ selling' = FALSE
    /\ UNCHANGED <<owner, now, view, holds, refreshes>>

Clock ==
    /\ now < MaxTime
    /\ now' = now + 1
    /\ UNCHANGED <<owner, selling, view, holds, refreshes>>

Taken(seats) == {s \in seats : owner[s] # "nobody"}

\* The hold is granted, its answer perhaps lost; it is refused; or it fails.
HoldReply(n) ==
    /\ n \in DOMAIN holds /\ holds[n].ans = "none"
    /\ LET seats == holds[n].seats
           Answer(set) == \E ans \in set :
               holds' = [holds EXCEPT ![n].ans = ans, ![n].taken = Taken(seats)]
       IN \/ /\ selling /\ Taken(seats) = {}
             /\ owner' = [s \in Seats |-> IF s \in seats THEN "me" ELSE owner[s]]
             /\ Answer({"ok", "lost"})
          \/ selling /\ Taken(seats) # {} /\ UNCHANGED owner /\ Answer({"seat-unavailable"})
          \/ ~selling /\ UNCHANGED owner /\ Answer({"sales-closed"})
          \/ UNCHANGED owner /\ Answer({"retry", "error", "lost"})
    /\ UNCHANGED <<selling, now, view, refreshes>>

\* A refresh reads the map as it is now.
RefreshReply(n) ==
    /\ n \in DOMAIN refreshes /\ ~refreshes[n].read
    /\ refreshes' = [refreshes EXCEPT ![n] = [read |-> TRUE, taken |-> Taken(Seats)]]
    /\ UNCHANGED <<service, view, holds>>

-----------------------------------------------------------------------------
(* The page                                                                *)

\* Mutant: the button is painted before the wait is noted.
EarlySummary == off' = (holding' \/ selected' = {} \/ ~salesOpen' \/ now < cool)

\* Mutant: only the selection decides.
BadSummary == off' = (selected' = {} \/ ~salesOpen' \/ now < cool')

\* updateSummary
UpdateSummary == off' = (holding' \/ selected' = {} \/ ~salesOpen' \/ now < cool')

\* toggle, on a button that paint left enabled.
Toggle(s) ==
    /\ ~left /\ shown[s] = "free" /\ salesOpen
    /\ selected' = IF s \in selected THEN selected \ {s} ELSE selected \cup {s}
    /\ blamed' = {}
    /\ UNCHANGED <<service, shown, salesOpen, holding, timing, left, holds, refreshes>>
    /\ UpdateSummary

\* Mutant: the selection is left alone.
BadApplyStatus(taken, free) ==
    /\ shown' = [s \in Seats |-> IF s \in taken THEN "held"
                                 ELSE IF s \in free THEN "free" ELSE shown[s]]
    /\ UNCHANGED selected

\* applyStatus: a seat whose status is set leaves the selection.
ApplyStatus(taken, free) ==
    /\ shown' = [s \in Seats |-> IF s \in taken THEN "held"
                                 ELSE IF s \in free THEN "free" ELSE shown[s]]
    /\ selected' = selected \ (taken \cup free)

\* placeHold, up to its await.
PlaceHold ==
    /\ ~left /\ ~off /\ Len(holds) < MaxCalls
    /\ holds' = Append(holds, [seats |-> selected, ans |-> "none", taken |-> {}])
    /\ holding' = TRUE
    /\ UNCHANGED <<service, shown, selected, salesOpen, timing, blamed, left, refreshes>>
    /\ UpdateSummary

\* Mutant: no timer.
BadBackoff == cool' = now + RetryAfter /\ UNCHANGED wakes

\* The wait is noted and a timer set.
Backoff ==
    /\ cool' = now + RetryAfter
    /\ wakes' = wakes \cup {now + RetryAfter}

\* The rest of placeHold.
HoldAnswered(n) ==
    /\ ~left /\ n \in DOMAIN holds /\ holds[n].ans # "none"
    /\ holds' = SubSeq(holds, 1, n - 1) \o SubSeq(holds, n + 1, Len(holds))
    /\ \/ /\ holds[n].ans = "ok"
          /\ left' = TRUE
          /\ UNCHANGED <<shown, selected, salesOpen, holding, off, timing, blamed>>
       \/ /\ holds[n].ans # "ok"
          /\ holding' = FALSE
          /\ IF holds[n].ans = "seat-unavailable"
             THEN ApplyStatus(holds[n].taken, {}) /\ blamed' = selected \cap holds[n].taken
             ELSE UNCHANGED <<shown, selected>> /\ blamed' = {}
          /\ salesOpen' = (salesOpen /\ holds[n].ans # "sales-closed")
          /\ IF holds[n].ans = "retry" THEN Backoff ELSE UNCHANGED timing
          /\ UNCHANGED left
          /\ UpdateSummary
    /\ UNCHANGED <<service, refreshes>>

Wake ==
    /\ ~left
    /\ \E due \in wakes : due <= now /\ wakes' = wakes \ {due}
    /\ UNCHANGED <<service, shown, selected, salesOpen, holding, cool, blamed, left,
                   holds, refreshes>>
    /\ UpdateSummary

\* refresh, up to its await.
Refresh ==
    /\ ~left /\ ~holding /\ Len(refreshes) < MaxCalls
    /\ refreshes' = Append(refreshes, [read |-> FALSE, taken |-> {}])
    /\ UNCHANGED <<service, view, holds>>

\* Mutant: holding is not looked at again after the await.
BadMayApply == TRUE

MayApply == ~holding

\* The rest of refresh: the seats whose status changed get the one that was
\* read.  A refresh that failed changes nothing.
Refreshed(n) ==
    /\ ~left /\ n \in DOMAIN refreshes
    /\ refreshes' = SubSeq(refreshes, 1, n - 1) \o SubSeq(refreshes, n + 1, Len(refreshes))
    /\ IF refreshes[n].read /\ MayApply
       THEN LET taken == {s \in refreshes[n].taken : shown[s] = "free"}
                free == {s \in Seats \ refreshes[n].taken : shown[s] # "free"}
                lost == selected \cap (taken \cup free)
            IN /\ ApplyStatus(taken, free)
               /\ blamed' = IF lost # {} THEN lost ELSE blamed
               /\ UNCHANGED <<salesOpen, holding, timing, left>>
               /\ UpdateSummary
       ELSE UNCHANGED view
    /\ UNCHANGED <<service, holds>>

\* Another page is opened: what is in flight is aborted.
Leave ==
    /\ ~left
    /\ left' = TRUE
    /\ UNCHANGED <<service, shown, selected, salesOpen, holding, off, timing, blamed,
                   holds, refreshes>>

-----------------------------------------------------------------------------
Init ==
    /\ owner \in [Seats -> {"nobody", "other"}]
    /\ selling \in BOOLEAN
    /\ now = 0
    /\ shown = [s \in Seats |-> IF owner[s] = "nobody" THEN "free" ELSE "held"]
    /\ selected = {} /\ salesOpen = selling
    /\ holding = FALSE /\ off = TRUE /\ cool = 0 /\ wakes = {}
    /\ blamed = {} /\ left = FALSE
    /\ holds = <<>> /\ refreshes = <<>>

Next ==
    \/ SalesClose \/ Clock \/ PlaceHold \/ Wake \/ Refresh \/ Leave
    \/ \E s \in Seats : Elsewhere(s) \/ Toggle(s)
    \/ \E n \in 1..MaxCalls :
         HoldReply(n) \/ HoldAnswered(n) \/ RefreshReply(n) \/ Refreshed(n)

Spec == Init /\ [][Next]_vars

-----------------------------------------------------------------------------
(* Properties                                                              *)

\* What the customer has selected is shown free, however late or out of order
\* refreshes and refusals arrive (applyStatus).
SelectedAreFree == \A s \in selected : shown[s] = "free"

\* Toggling seats, timers and refreshes while a hold is out do not let the
\* customer place a second one.
OneHoldAtATime == Len(holds) <= 1

\* Until the announced wait is over the Hold button stays disabled.
WaitIsHonoured == ~left /\ now < cool => off

\* A disabled Hold button has a reason that will pass or that the customer
\* sees: a hold is out, nothing is chosen, sales are closed, or a timer runs.
HoldButtonRecovers ==
    ~left /\ off =>
        \/ holding /\ holds # <<>>
        \/ selected = {} \/ ~salesOpen
        \/ \E due \in wakes : due >= cool

\* A refresh asked for before the hold does not repaint the map under it.
HoldIsUndisturbed == [][holding /\ holding' => UNCHANGED shown]_vars

\* seats.js: "... was just taken by someone else".  No seat so announced is
\* held by this customer.
SomeoneElseTookIt == ~left => \A s \in blamed : owner[s] # "me"
=============================================================================
