------------------------------ MODULE SeatLedger ------------------------------
(***************************************************************************)
(* What the booking service promises about seats, without transactions,    *)
(* locks or rows: a slot (a seat of a showtime) is granted to one hold at  *)
(* a time, all slots of a hold at once; it can be taken from a hold only   *)
(* by the hold itself or once the hold is overdue; and a sale is of        *)
(* everything the hold still has, for good.                                *)
(***************************************************************************)
EXTENDS Naturals

CONSTANTS Slots, Holds

VARIABLES clock,   \* the time
          grant,   \* grant[h]: the slots hold h has
          due,     \* due[h]: when they may be taken from it
          sold     \* the holds that were sold

ledger == <<clock, grant, due, sold>>

Init ==
    /\ clock = 0
    /\ grant = [h \in Holds |-> {}]
    /\ due = [h \in Holds |-> 0]
    /\ sold = {}

Pass == clock' = clock + 1 /\ UNCHANGED <<grant, due, sold>>

\* The slots that may be taken from hold h now.
Overdue(h) == IF h \notin sold /\ due[h] <= clock THEN grant[h] ELSE {}

\* Slots S go to a hold that has none; who has them now must be overdue.
Grant(h, S) ==
    /\ grant[h] = {} /\ h \notin sold
    /\ \A g \in Holds : grant[g] \cap S \subseteq Overdue(g)
    /\ due' \in [Holds -> Nat]
    /\ \A g \in Holds \ {h} : due'[g] = due[g]
    /\ grant' = [g \in Holds |-> IF g = h THEN S ELSE grant[g] \ S]
    /\ UNCHANGED <<clock, sold>>

\* Overdue slots become free.
Reclaim ==
    /\ \E take \in [Holds -> SUBSET Slots] :
         /\ \A g \in Holds : take[g] \subseteq Overdue(g)
         /\ grant' = [g \in Holds |-> grant[g] \ take[g]]
    /\ UNCHANGED <<clock, due, sold>>

\* A hold gives back everything it has.
Return(h) ==
    /\ h \notin sold
    /\ grant' = [grant EXCEPT ![h] = {}]
    /\ UNCHANGED <<clock, due, sold>>

Sell(h) ==
    /\ grant[h] # {}
    /\ sold' = sold \cup {h}
    /\ UNCHANGED <<clock, grant, due>>

Next ==
    \/ Pass
    \/ Reclaim
    \/ \E h \in Holds :
         \/ \E S \in SUBSET Slots : S # {} /\ Grant(h, S)
         \/ Return(h)
         \/ Sell(h)

Spec == Init /\ [][Next]_ledger
=============================================================================
