----------------------------- MODULE TxBuilder ------------------------------
(***************************************************************************)
(* The SDK's TransactionBuilder and the BetManager that shares one: a      *)
(* caller sets the fee and the change address and has transactions built,  *)
(* any number of them by one builder.  Values are BigInts; a transaction   *)
(* is what build returns, counted by the sums of its boxes.                *)
(***************************************************************************)
EXTENDS Integers

CONSTANTS
    Fees,         \* arguments of setFee, the default of the constructor first
    DefaultFee,   \* the constructor's 1000000n
    MinBoxValue,  \* the constructor's 100000n
    Amounts,      \* amounts of bets
    Funds,        \* sums of resolved input boxes
    MaxDust       \* bound: dust absorbed since the fee was set

ASSUME TxBuilderAssumption ==
    /\ Fees \subseteq Nat /\ DefaultFee \in Fees
    /\ MinBoxValue \in Nat \ {0} /\ MaxDust \in Nat
    /\ Amounts \subseteq Nat \ {0} /\ Funds \subseteq Nat

VARIABLES
    fee,            \* this.fee
    changeAddress,  \* whether this.changeAddress is set
    asked,          \* the fee the caller set last (history)
    dust,           \* the dust absorbed since (history)
    returned        \* what the last call returned: a transaction or Thrown

builder == <<fee, changeAddress, asked, dust, returned>>

Thrown == [built |-> FALSE]

BuilderInit ==
    /\ fee = DefaultFee /\ asked = DefaultFee /\ dust = 0
    /\ changeAddress = FALSE
    /\ returned = Thrown

setFee(f) ==
    /\ fee' = f /\ asked' = f /\ dust' = 0
    /\ UNCHANGED <<changeAddress, returned>>

setChangeAddress ==
    /\ changeAddress' = TRUE
    /\ UNCHANGED <<fee, asked, dust, returned>>

Throw == returned' = Thrown /\ UNCHANGED <<fee, changeAddress, asked, dust>>

\* Mutant: the fee is left out of the total cost.
build_FreeFee(in, out) ==
    /\ in >= out
    /\ returned' = [built |-> TRUE, in |-> in, out |-> out, change |-> in - out, fee |-> fee]
    /\ UNCHANGED <<fee, changeAddress, asked, dust>>

\* build of inputs and outputs of these sums: what is left becomes a change
\* box, or part of the builder's fee when it is too little for a box.
build(in, out) ==
    LET change == in - (out + fee) IN
    \/ /\ change < 0 \/ (change > 0 /\ ~changeAddress)
       /\ Throw
    \/ /\ change = 0 \/ (change >= MinBoxValue /\ changeAddress)
       /\ returned' = [built |-> TRUE, in |-> in, out |-> out, change |-> change, fee |-> fee]
       /\ UNCHANGED <<fee, changeAddress, asked, dust>>
    \/ /\ change \in 1..(MinBoxValue - 1) /\ changeAddress
       /\ dust + change <= MaxDust
       /\ fee' = fee + change /\ dust' = dust + change
       /\ returned' = [built |-> TRUE, in |-> in, out |-> out, change |-> 0, fee |-> fee']
       /\ UNCHANGED <<changeAddress, asked>>

-----------------------------------------------------------------------------
(* The transactions of a bet, each with one input.                         *)

\* 2 * (1 - houseEdge) of the default edge of 3%, in ten-thousandths.
winPayout(amount) == (amount * 19400) \div 10000

payout(result, amount) == IF result = "win" THEN winPayout(amount) ELSE amount

buildPlaceBetTransaction(amount, inputBoxValue) == build(inputBoxValue, amount)

buildRevealTransaction(betBoxValue, amount, result) == build(betBoxValue, payout(result, amount))

buildRefundTransaction(betBoxValue, amount) == build(betBoxValue, amount)

-----------------------------------------------------------------------------
(* BetManager, on a node whose boxes carry the registers of coinflip_v2.es *)
(* and whose values are numbers of JSON.                                   *)

\* placeBet builds with the input "to be filled by the wallet", of value 0.
placeBet(amount) == buildPlaceBetTransaction(amount, 0)

\* revealBet compares the serialized R5, the player's key, with the commitment.
revealBet == Throw

\* refundBet reads the serialized R9, the player's secret, as the timeout:
\* not a number, which no height is below; build then adds a number to a BigInt.
refundBet == Throw

Call ==
    \/ \E f \in Fees : setFee(f)
    \/ setChangeAddress
    \/ \E in \in Funds, amount \in Amounts :
          \/ buildPlaceBetTransaction(amount, in)
          \/ \E result \in {"win", "lose"} : buildRevealTransaction(in, amount, result)
          \/ buildRefundTransaction(in, amount)
    \/ \E amount \in Amounts : placeBet(amount)
    \/ revealBet
    \/ refundBet

\* A builder and a manager by themselves.
BuilderSpec == BuilderInit /\ [][Call]_builder

-----------------------------------------------------------------------------
(* Properties.                                                             *)

BuilderTypeOK ==
    /\ fee \in Nat /\ asked \in Fees /\ dust \in 0..MaxDust /\ changeAddress \in BOOLEAN
    /\ returned = Thrown \/ returned \in [built : {TRUE}, in : Nat, out : Nat, change : Nat, fee : Nat]

\* A transaction spends exactly what it takes in, makes no box below the
\* minimum, and costs what the caller asked for and the dust the builder has
\* absorbed since, however many transactions it built before.
TransactionsBalance ==
    /\ fee = asked + dust
    /\ returned.built =>
          /\ returned.in = returned.out + returned.change + returned.fee
          /\ returned.change = 0 \/ returned.change >= MinBoxValue

Contract == INSTANCE CoinflipContract

\* The reveal the SDK builds pays a winner what the contract asks for, to the
\* nanoERG: floating point gives the multiplier, BigInt the amount, and
\* coinflip_v2.es computes betAmount * 97 / 50.
PayoutsAgree == \A amount \in Nat : winPayout(amount) = Contract!winPayout(amount)

=============================================================================
