-------------------------- MODULE CoinflipContract --------------------------
(***************************************************************************)
(* The spending condition of smart-contracts/coinflip_v2.es as operators.  *)
(*                                                                         *)
(* A bet box carries the registers R4..R9 and its value as a record        *)
(*   [housePk, playerPk, commitmentHash, playerChoice, timeoutHeight,      *)
(*    playerSecret, value];                                                *)
(* a spending transaction is the part of it the contract looks at:         *)
(*   [keys, to, value]  -- the keys it carries a proof for, and the        *)
(*                         recipient and value of OUTPUTS(0);              *)
(* and the block context is the HEIGHT of the block being mined and the    *)
(* byte rngHash(0) = blake2b256(parentId || secret)(0), in 0..255.         *)
(*                                                                         *)
(* blake2b256(secret ++ choiceByte) is the pair <<secret, choiceByte>>: a  *)
(* hash without collisions.                                                *)
(***************************************************************************)
EXTENDS Integers

\* if (playerChoice == 0) (0.toByte) else (1.toByte)
choiceByte(choice) == IF choice = 0 THEN 0 ELSE 1

blake2b256(secret, byte) == <<secret, byte>>

commitmentOk(box) ==
    box.commitmentHash = blake2b256(box.playerSecret, choiceByte(box.playerChoice))

\* A Byte of ErgoScript is signed, and % on it is the remainder of the JVM,
\* which takes the sign of the dividend: an odd negative byte leaves -1.
SignedByte(u) == IF u < 128 THEN u ELSE u - 256

flipResult(u) ==
    LET i == SignedByte(u)
    IN  IF i >= 0 THEN i % 2 ELSE -((-i) % 2)

playerWins(box, u) == flipResult(u) = box.playerChoice

winPayout(betAmount) == (betAmount * 97) \div 50

\* Mutant: the refund keeps a hundredth.
refundAmount_OnePercent(betAmount) == betAmount - (betAmount \div 100)

refundAmount(betAmount) == betAmount - (betAmount \div 50)

\* Mutant: the recipient is checked, the flip is not.
canReveal_AnySide(box, tx, u) ==
    /\ box.housePk \in tx.keys
    /\ commitmentOk(box)
    /\ \/ tx.to = box.playerPk /\ tx.value >= winPayout(box.value)
       \/ tx.to = box.housePk /\ tx.value >= box.value

\* REVEAL path: the house spends, OUTPUTS(0) follows the flip.
canReveal(box, tx, u) ==
    /\ box.housePk \in tx.keys
    /\ commitmentOk(box)
    /\ \/ /\ playerWins(box, u)
          /\ tx.to = box.playerPk
          /\ tx.value >= winPayout(box.value)
       \/ /\ ~playerWins(box, u)
          /\ tx.to = box.housePk
          /\ tx.value >= box.value

\* Mutant: HEIGHT is not compared.
canRefund_AnyHeight(box, tx, h) ==
    /\ box.playerPk \in tx.keys
    /\ tx.to = box.playerPk
    /\ tx.value >= refundAmount(box.value)

\* REFUND path: the player spends, from the timeout height on.
canRefund(box, tx, h) ==
    /\ h >= box.timeoutHeight
    /\ box.playerPk \in tx.keys
    /\ tx.to = box.playerPk
    /\ tx.value >= refundAmount(box.value)

\* canReveal || canRefund
canSpend(box, tx, u, h) == canReveal(box, tx, u) \/ canRefund(box, tx, h)

=============================================================================
