------------------------------ MODULE MCServing ------------------------------
(* Constants for model checking Serving. *)
EXTENDS Serving, TLC

TwoShowtimes == 1 .. 2

Plain(route) == [route |-> route, customer |-> "named", wrong |-> {}]

\* The three writes, the two kinds of reads (with and without a row to find) and
\* the unmatched requests, one request that names no customer, one whose customer
\* is malformed, and for each problem a check answers with, a request that fails
\* this check and everything after it.
MCInputs ==
    {Plain(route) : route \in Writes \cup {"getHold", "listShowtimes"} \cup Unmatched}
      \cup {[Plain("createHold") EXCEPT !.customer = c] : c \in {"absent", "malformed"}}
      \cup {[Plain("createHold") EXCEPT !.wrong = w] :
              w \in {{"path", "body"}, {"media type", "body size", "body"},
                     {"body size", "body"}}}
      \cup {[Plain("listShowtimes") EXCEPT !.wrong = {"from", "to"}],
            [Plain("confirmHold") EXCEPT !.wrong = {"key"}]}
=============================================================================
