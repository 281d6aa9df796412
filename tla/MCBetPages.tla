----------------------------- MODULE MCBetPages -----------------------------
(* Small instances of BetPages for TLC. *)
EXTENDS BetPages

CONSTANT a1

\* A bet of 99 points: with one of the page, exactly 1000.
MCEarlier == <<[id |-> 11, address |-> a1, amount |-> 99999]>>

=============================================================================
