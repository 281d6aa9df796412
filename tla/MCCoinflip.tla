----------------------------- MODULE MCCoinflip -----------------------------
(* Small instances of Coinflip for TLC. *)
EXTENDS Coinflip

CONSTANTS a1, a2

\* The first wallet covers bet and fee with one box, the second holds the
\* bet of 50 exactly in its first box, the third starts with a box of another address.
MCPlayerWallets == {
    <<[value |-> 160, addr |-> a1]>>,
    <<[value |-> 50, addr |-> a1], [value |-> 10, addr |-> a1]>>,
    <<[value |-> 5, addr |-> a2], [value |-> 160, addr |-> a1]>>}

\* One box of the house covers a win of the smaller bet, or only the fee.
MCHouseWallets == {
    <<[value |-> 60, addr |-> House]>>,
    <<[value |-> 3, addr |-> House], [value |-> 200, addr |-> House]>>}

=============================================================================
