--------------------------- MODULE CoinflipProofs ---------------------------
(***************************************************************************)
(* What TLC checks of Coinflip on one bet, proved for every set of bets,   *)
(* amounts, addresses and wallets and for every delta, fee and height.     *)
(*                                                                         *)
(* The argument: IInv is inductive.  What a block includes was allowed by  *)
(* the contract when it was included (SettlementIsAllowed), the builders   *)
(* fix what a transaction pays before anyone knows the including block     *)
(* (SpendsFitTheirBet), and a bet box exists once (BetIsInOnePlace).  The  *)
(* safety properties are consequences of these three.                      *)
(***************************************************************************)
EXTENDS Coinflip, SequenceTheorems, TLAPS

(* The contract's arithmetic: both payouts are amounts, and a win is worth *)
(* no less than a refund.                                                  *)
LEMMA Payouts ==
    ASSUME NEW v \in Nat
    PROVE  /\ winPayout(v) \in Nat
           /\ refundAmount(v) \in Nat
           /\ winPayout(v) >= refundAmount(v)
  BY DEF winPayout, refundAmount

(* The bet box of buildPlaceBetTx has the registers and the deadline it    *)
(* should.                                                                 *)
LEMMA BetBoxType ==
    ASSUME NEW b \in Bets, NEW amount \in Amounts, NEW choice \in {0, 1},
           NEW utxos \in PlayerWallets, utxos # <<>>, height \in Nat
    PROVE  /\ BetBox(b, amount, choice, utxos, height) \in Box
           /\ BetBox(b, amount, choice, utxos, height).timeoutHeight = height + TIMEOUT_DELTA
<1>1. utxos \in Seq([value : Nat, addr : PlayerAddrs])
  BY CoinflipAssumption
<1>2. 1 \in 1..Len(utxos)
  BY <1>1
<1>3. utxos[1] \in [value : Nat, addr : PlayerAddrs]
  BY <1>1, <1>2, ElementOfSeq
<1> QED
  BY <1>3, CoinflipAssumption DEF BetBox, Box, blake2b256

(* A reveal and a refund of an open bet are transactions, and pay what the *)
(* bet asks.                                                               *)
LEMMA RevealTxFits ==
    ASSUME NEW b \in Bets, NEW addr \in PlayerAddrs, NEW byte, box[b] \in Box
    PROVE  LET tx == RevealTx(b, addr, byte)
           IN  /\ tx \in SpendTx /\ tx.bet = b /\ tx.signer = "house" /\ tx.keys = {House}
               /\ tx.playerWins => tx.to = addr /\ tx.value = winPayout(box[b].value)
               /\ ~tx.playerWins => tx.to = House /\ tx.value = box[b].value
<1>1. box[b].value \in Nat
  BY CoinflipAssumption DEF Box
<1>2. winPayout(box[b].value) \in Nat
  BY <1>1, Payouts
<1> QED
  BY <1>1, <1>2 DEF RevealTx, SpendTx

LEMMA RefundTxFits ==
    ASSUME NEW b \in Bets, box[b] \in Box
    PROVE  LET tx == RefundTx(b)
           IN  /\ tx \in SpendTx /\ tx.bet = b /\ tx.signer = "player" /\ tx.keys = PlayerAddrs
               /\ tx.to = ChangeAddr /\ tx.value = refundAmount(box[b].value)
<1>1. box[b].value \in Nat
  BY CoinflipAssumption DEF Box
<1>2. refundAmount(box[b].value) \in Nat
  BY <1>1, Payouts
<1> QED
  BY <1>2, CoinflipAssumption DEF RefundTx, SpendTx

(* What Include records is a settlement.                                   *)
NewSettlement(tx) ==
    [box |-> box[tx.bet], tx |-> tx, byte |-> tipByte[tx.bet], height |-> height + 1]

LEMMA NewSettlementType ==
    ASSUME TypeOK, NEW tx \in spends, Include(tx)
    PROVE  NewSettlement(tx) \in Settlement /\ NewSettlement(tx) # Unsettled
<1> USE DEF TypeOK
<1>1. tx \in SpendTx /\ tx.bet \in Bets
  BY DEF SpendTx
<1>2. box[tx.bet] \in Box
  BY <1>1 DEF Include
<1>3. tipByte[tx.bet] \in EntropyBytes
  BY <1>1
<1>4. EntropyBytes \subseteq 0..255
  BY CoinflipAssumption
<1>5. tipByte[tx.bet] \in 0..255
  BY <1>3, <1>4
<1>6. height + 1 \in Nat
  BY CoinflipAssumption
<1>7. NewSettlement(tx) \in Settlement
  BY <1>1, <1>2, <1>5, <1>6 DEF Settlement, NewSettlement
<1> QED
  BY <1>7, CoinflipAssumption

-----------------------------------------------------------------------------

(* Nothing is placed, pending or settled at the start.                     *)
LEMMA InitIInv == Init => IInv
  BY CoinflipAssumption
  DEF Init, IInv, TypeOK, FormState, BetIsInOnePlace, SpendsFitTheirBet,
      SettlementIsAllowed, LockIsBounded

(* Every variable keeps its type.                                          *)
LEMMA StepTypeOK == IInv /\ [Next]_vars => TypeOK'
<1> SUFFICES ASSUME IInv, [Next]_vars PROVE TypeOK'
  OBVIOUS
<1> USE DEF IInv, TypeOK
<1>0. height \in Nat
  BY CoinflipAssumption
<1>1. CASE UNCHANGED vars
  BY <1>1 DEF vars
<1>2. ASSUME NEW b \in Bets, NEW amount \in Amounts, NEW choice \in {0, 1},
             NEW utxos \in PlayerWallets, PlaceBet(b, amount, choice, utxos)
      PROVE  TypeOK'
  BY <1>0, <1>2, BetBoxType DEF PlaceBet, FormState
<1>3. ASSUME NEW b \in Bets, SubmitBet(b) PROVE TypeOK'
  BY <1>3 DEF SubmitBet, FormState
<1>4. ASSUME NEW b \in Bets, SignBet(b) PROVE TypeOK'
  BY <1>4 DEF SignBet, FormState
<1>5. ASSUME NEW b \in Bets, NEW utxos \in PlayerWallets, BuildRefund(b, utxos)
      PROVE  TypeOK'
  <2>1. box[b] \in Box
    BY <1>5 DEF BuildRefund
  <2>2. RefundTx(b) \in SpendTx
    BY <2>1, RefundTxFits
  <2> QED
    BY <2>2, <1>5 DEF BuildRefund
<1>6. ASSUME NEW b \in Bets, NEW addr \in PlayerAddrs, NEW utxos \in HouseWallets,
             BuildReveal(b, addr, utxos)
      PROVE  TypeOK'
  <2>1. box[b] \in Box
    BY <1>6 DEF BuildReveal
  <2>2. RevealTx(b, addr, prevByte[b]) \in SpendTx
    BY <2>1, RevealTxFits
  <2> QED
    BY <2>2, <1>6 DEF BuildReveal
<1>7. CASE NewBlock
  BY <1>7, CoinflipAssumption DEF NewBlock
<1>8. ASSUME NEW b \in Bets, MineBet(b) PROVE TypeOK'
  BY <1>8 DEF MineBet, Submitted
<1>9. ASSUME NEW b \in Bets, DropBet(b) PROVE TypeOK'
  BY <1>9 DEF DropBet
<1>10. ASSUME NEW tx \in spends, Include(tx) PROVE TypeOK'
  <2>1. tx.bet \in Bets
    BY DEF SpendTx
  <2>2. NewSettlement(tx) \in Settlement
    BY <1>10, NewSettlementType
  <2> QED
    BY <1>10, <2>1, <2>2 DEF Include, NewSettlement
<1>11. ASSUME NEW tx \in spends, DropSpend(tx) PROVE TypeOK'
  BY <1>11 DEF DropSpend
<1> QED
  BY <1>1, <1>2, <1>3, <1>4, <1>5, <1>6, <1>7, <1>8, <1>9, <1>10, <1>11
  DEF Next, Chain, Player, HouseReveals

(* Only Include settles a bet, and nothing else takes a box away.          *)
LEMMA OnlyIncludeSettles ==
    ASSUME [Next]_vars
    PROVE  UNCHANGED settled \/ \E tx \in spends : Include(tx)
  BY DEF Next, Chain, Player, HouseReveals, PlaceBet, SubmitBet, SignBet, BuildRefund,
         BuildReveal, NewBlock, MineBet, DropBet, DropSpend, vars

LEMMA StepBetIsInOnePlace == IInv /\ [Next]_vars => BetIsInOnePlace'
<1> SUFFICES ASSUME IInv, [Next]_vars PROVE BetIsInOnePlace'
  OBVIOUS
<1> USE DEF IInv, TypeOK, BetIsInOnePlace
<1>1. CASE UNCHANGED vars
  BY <1>1 DEF vars
<1>2. ASSUME NEW b \in Bets, NEW amount \in Amounts, NEW choice \in {0, 1},
             NEW utxos \in PlayerWallets, PlaceBet(b, amount, choice, utxos)
      PROVE  BetIsInOnePlace'
  BY <1>2 DEF PlaceBet, Submitted, FormState
<1>3. ASSUME NEW b \in Bets, SubmitBet(b) PROVE BetIsInOnePlace'
  BY <1>3 DEF SubmitBet, Submitted
<1>4. ASSUME NEW b \in Bets, SignBet(b) PROVE BetIsInOnePlace'
  BY <1>4 DEF SignBet, Submitted
<1>5. ASSUME NEW b \in Bets, NEW utxos \in PlayerWallets, BuildRefund(b, utxos)
      PROVE  BetIsInOnePlace'
  BY <1>5 DEF BuildRefund
<1>6. ASSUME NEW b \in Bets, NEW addr \in PlayerAddrs, NEW utxos \in HouseWallets,
             BuildReveal(b, addr, utxos)
      PROVE  BetIsInOnePlace'
  BY <1>6 DEF BuildReveal
<1>7. CASE NewBlock
  BY <1>7 DEF NewBlock
<1>8. ASSUME NEW b \in Bets, MineBet(b) PROVE BetIsInOnePlace'
  BY <1>8 DEF MineBet, Submitted
<1>9. ASSUME NEW b \in Bets, DropBet(b) PROVE BetIsInOnePlace'
  BY <1>9 DEF DropBet
<1>10. ASSUME NEW tx \in spends, Include(tx) PROVE BetIsInOnePlace'
  <2> tx.bet \in Bets
    BY DEF SpendTx
  <2> QED
    BY <1>10 DEF Include
<1>11. ASSUME NEW tx \in spends, DropSpend(tx) PROVE BetIsInOnePlace'
  BY <1>11 DEF DropSpend
<1> QED
  BY <1>1, <1>2, <1>3, <1>4, <1>5, <1>6, <1>7, <1>8, <1>9, <1>10, <1>11
  DEF Next, Chain, Player, HouseReveals

(* The builders add transactions that fit; no other step changes a pending *)
(* transaction or the value of its box.                                    *)
LEMMA StepSpendsFitTheirBet == IInv /\ [Next]_vars => SpendsFitTheirBet'
<1> SUFFICES ASSUME IInv, [Next]_vars PROVE SpendsFitTheirBet'
  OBVIOUS
<1> USE DEF IInv, TypeOK, SpendsFitTheirBet
<1>0. \A tx \in spends : tx.bet \in Bets
  BY DEF SpendTx
<1>1. CASE UNCHANGED <<box, spends, settled>>
  BY <1>1
<1>2. ASSUME NEW b \in Bets, NEW utxos \in PlayerWallets, BuildRefund(b, utxos)
      PROVE  SpendsFitTheirBet'
  <2>1. box[b] \in Box /\ box[b] # NoBox
    BY <1>2 DEF BuildRefund
  <2>2. UNCHANGED <<box, settled>> /\ spends' = spends \cup {RefundTx(b)}
    BY <1>2 DEF BuildRefund
  <2> QED
    BY <2>1, <2>2, RefundTxFits
<1>3. ASSUME NEW b \in Bets, NEW addr \in PlayerAddrs, NEW utxos \in HouseWallets,
             BuildReveal(b, addr, utxos)
      PROVE  SpendsFitTheirBet'
  <2>1. box[b] \in Box /\ box[b] # NoBox
    BY <1>3 DEF BuildReveal
  <2>2. UNCHANGED <<box, settled>> /\ spends' = spends \cup {RevealTx(b, addr, prevByte[b])}
    BY <1>3 DEF BuildReveal
  <2> QED
    BY <2>1, <2>2, RevealTxFits
<1>4. ASSUME NEW b \in Bets, MineBet(b) PROVE SpendsFitTheirBet'
  <2>1. \A tx \in spends : tx.bet # b
    BY <1>4 DEF MineBet, BetIsInOnePlace
  <2> QED
    BY <1>0, <1>4, <2>1 DEF MineBet
<1>5. ASSUME NEW t \in spends, Include(t) PROVE SpendsFitTheirBet'
  <2>1. t.bet \in Bets
    BY <1>0
  <2>2. settled'[t.bet] # Unsettled
    BY <1>5, <2>1, NewSettlementType DEF Include, NewSettlement
  <2>3. \A b \in Bets : b # t.bet => box'[b] = box[b] /\ settled'[b] = settled[b]
    BY <1>5, <2>1 DEF Include
  <2>4. box'[t.bet] = NoBox /\ spends' \subseteq spends
    BY <1>5, <2>1 DEF Include
  <2> QED
    BY <1>0, <2>2, <2>3, <2>4
<1>6. ASSUME NEW tx \in spends, DropSpend(tx) PROVE SpendsFitTheirBet'
  BY <1>6 DEF DropSpend
<1> QED
  BY <1>1, <1>2, <1>3, <1>4, <1>5, <1>6
  DEF Next, Chain, Player, HouseReveals, PlaceBet, SubmitBet, SignBet, NewBlock, DropBet, vars

(* A settlement is recorded by Include, whose guard is the contract.       *)
LEMMA StepSettlementIsAllowed == IInv /\ [Next]_vars => SettlementIsAllowed'
<1> SUFFICES ASSUME IInv, [Next]_vars PROVE SettlementIsAllowed'
  OBVIOUS
<1> USE DEF IInv, TypeOK
<1>1. CASE UNCHANGED settled
  BY <1>1 DEF SettlementIsAllowed
<1>2. ASSUME NEW t \in spends, Include(t) PROVE SettlementIsAllowed'
  <2>1. t \in SpendTx /\ t.bet \in Bets
    BY DEF SpendTx
  <2> DEFINE s == NewSettlement(t)
  <2>2. settled' = [settled EXCEPT ![t.bet] = s]
    BY <1>2 DEF Include, NewSettlement
  <2>3. canSpend(s.box, s.tx, s.byte, s.height)
    BY <1>2 DEF Include, NewSettlement
  <2>4. /\ t.keys = IF t.signer = "house" THEN {House} ELSE PlayerAddrs
        /\ t.signer = "house" => t.to \in IF t.playerWins THEN PlayerAddrs ELSE {House}
    BY <2>1 DEF SpendsFitTheirBet, SpendTx
  <2>5. ASSUME NEW b \in Bets, b # t.bet PROVE settled'[b] = settled[b]
    BY <2>2, <2>5
  <2>6. settled'[t.bet] = s
    BY <2>1, <2>2
  <2> HIDE DEF s
  <2>7. s.tx = t
    BY DEF s, NewSettlement
  <2> QED
    BY <2>3, <2>4, <2>5, <2>6, <2>7 DEF SettlementIsAllowed
<1> QED
  BY <1>1, <1>2, OnlyIncludeSettles

(* The timeout height is fixed when the bet is built, and the chain only   *)
(* grows.                                                                  *)
LEMMA StepLockIsBounded == IInv /\ [Next]_vars => LockIsBounded'
<1> SUFFICES ASSUME IInv, [Next]_vars PROVE LockIsBounded'
  OBVIOUS
<1> USE DEF IInv, TypeOK, LockIsBounded
<1>0. height \in Nat /\ TIMEOUT_DELTA \in Nat
  BY CoinflipAssumption
<1>1. CASE UNCHANGED <<height, commitTx, box>>
  BY <1>1
<1>2. ASSUME NEW b \in Bets, NEW amount \in Amounts, NEW choice \in {0, 1},
             NEW utxos \in PlayerWallets, PlaceBet(b, amount, choice, utxos)
      PROVE  LockIsBounded'
  BY <1>0, <1>2, BetBoxType DEF PlaceBet
<1>3. ASSUME NEW b \in Bets, SignBet(b) PROVE LockIsBounded'
  BY <1>3 DEF SignBet
<1>4. CASE NewBlock
  <2>1. \A b \in Bets : \A x \in {commitTx[b], box[b]} \ {NoBox} : x \in Box
    OBVIOUS
  <2>2. \A x \in Box : x.timeoutHeight \in Nat
    BY DEF Box
  <2> QED
    BY <1>0, <1>4, <2>1, <2>2 DEF NewBlock
<1>5. ASSUME NEW b \in Bets, MineBet(b) PROVE LockIsBounded'
  BY <1>5 DEF MineBet
<1>6. ASSUME NEW b \in Bets, DropBet(b) PROVE LockIsBounded'
  BY <1>6 DEF DropBet
<1>7. ASSUME NEW tx \in spends, Include(tx) PROVE LockIsBounded'
  <2> tx.bet \in Bets
    BY DEF SpendTx
  <2> QED
    BY <1>7 DEF Include
<1> QED
  BY <1>1, <1>2, <1>3, <1>4, <1>5, <1>6, <1>7
  DEF Next, Chain, Player, HouseReveals, SubmitBet, BuildRefund, BuildReveal, DropSpend, vars

(* IInv holds of every reachable state.                                    *)
THEOREM Invariance == Spec => []IInv
<1>1. IInv /\ [Next]_vars => IInv'
  BY StepTypeOK, StepBetIsInOnePlace, StepSpendsFitTheirBet, StepSettlementIsAllowed,
     StepLockIsBounded DEF IInv
<1> QED
  BY InitIInv, <1>1, PTL DEF Spec

(* Every variable stays in its type.                                       *)
THEOREM TypeCorrect == Spec => []TypeOK
<1>1. IInv => TypeOK
  BY DEF IInv
<1> QED
  BY <1>1, Invariance, PTL

(* No bet is locked for longer than TIMEOUT_DELTA blocks from now.         *)
THEOREM LockBounded == Spec => []LockIsBounded
<1>1. IInv => LockIsBounded
  BY DEF IInv
<1> QED
  BY <1>1, Invariance, PTL

-----------------------------------------------------------------------------

(* Who signed tells which path of the contract let the box be spent: the   *)
(* house has no key of the player and the player none of the house.        *)
LEMMA PathOfSettlement ==
    ASSUME IInv, NEW b \in Bets, settled[b] # Unsettled
    PROVE  LET s == settled[b]
           IN  /\ s \in Settlement
               /\ s.tx.signer = "house" => canReveal(s.box, s.tx, s.byte)
               /\ s.tx.signer = "player" => canRefund(s.box, s.tx, s.height)
               /\ s.tx.signer \in {"house", "player"}
               /\ s.box.housePk = House /\ s.box.playerPk \in PlayerAddrs /\ s.box.value \in Nat
               /\ s.tx.value \in Nat /\ s.height \in Nat /\ s.box.timeoutHeight \in Nat
<1> DEFINE s == settled[b]
<1>1. s \in Settlement
  BY DEF IInv, TypeOK
<1>2. /\ s.tx.keys = IF s.tx.signer = "house" THEN {House} ELSE PlayerAddrs
      /\ canSpend(s.box, s.tx, s.byte, s.height)
  BY DEF IInv, SettlementIsAllowed
<1>3. s.box \in Box /\ s.tx \in SpendTx /\ s.height \in Nat
  BY <1>1 DEF Settlement
<1>4. /\ s.box.housePk = House /\ s.box.playerPk \in PlayerAddrs
      /\ s.box.value \in Nat /\ s.box.timeoutHeight \in Nat
  BY <1>3, CoinflipAssumption DEF Box
<1>5. s.tx.signer \in {"house", "player"} /\ s.tx.value \in Nat
  BY <1>3 DEF SpendTx
<1>6. House \notin PlayerAddrs
  BY CoinflipAssumption
<1> HIDE DEF s
<1>7. s.tx.signer = "house" => canReveal(s.box, s.tx, s.byte)
  BY <1>2, <1>4, <1>6 DEF canSpend, canRefund
<1>8. s.tx.signer = "player" => canRefund(s.box, s.tx, s.height)
  BY <1>2, <1>4, <1>6 DEF canSpend, canReveal
<1> QED
  BY <1>1, <1>3, <1>4, <1>5, <1>7, <1>8 DEF s

(* The contract's signed flip and the unsigned one agree except on the     *)
(* bytes without a side, where the contract's names nobody.                *)
LEMMA FlipBySide ==
    ASSUME NEW u \in 0..255, NEW x, x.playerChoice \in {0, 1}
    PROVE  playerWins(x, u) <=> Side(u) = x.playerChoice /\ ~Sideless(u)
<1>1. CASE u < 128
  <2>1. flipResult(u) = u % 2
    BY <1>1 DEF flipResult, SignedByte
  <2> QED
    BY <1>1, <2>1 DEF playerWins, Side, Sideless
<1>2. CASE u >= 128
  <2>1. flipResult(u) = -((256 - u) % 2)
    BY <1>2 DEF flipResult, SignedByte
  <2>2. (256 - u) % 2 = u % 2 /\ u % 2 \in {0, 1}
    OBVIOUS
  <2> QED
    BY <1>2, <2>1, <2>2 DEF playerWins, Side, Sideless
<1> QED
  BY <1>1, <1>2

(* An included reveal pays in full the side that the byte of its block     *)
(* names, although it was built against another block; a byte of no side   *)
(* is the house's.                                                         *)
THEOREM RevealIsFair == Spec => []RevealPaysTheFlip
<1>1. IInv => RevealPaysTheFlip
  <2> SUFFICES ASSUME IInv, NEW b \in Bets, settled[b] # Unsettled,
                      settled[b].tx.signer = "house"
               PROVE  LET s == settled[b]
                      IN  IF Side(s.byte) = s.box.playerChoice /\ ~Sideless(s.byte)
                          THEN s.tx.to = s.box.playerPk /\ ToPlayer(s) >= winPayout(s.box.value)
                          ELSE ToHouse(s) >= s.box.value
    BY DEF RevealPaysTheFlip
  <2> DEFINE s == settled[b]
             x == s.box
             u == s.byte
  <2>1. u \in 0..255 /\ x.playerChoice \in {0, 1}
    BY DEF IInv, TypeOK, Settlement, Box
  <2>2. playerWins(x, u) <=> Side(u) = x.playerChoice /\ ~Sideless(u)
    <3> HIDE DEF x, u
    <3> QED
      BY <2>1, FlipBySide
  <2>3. canReveal(s.box, s.tx, s.byte)
    BY PathOfSettlement
  <2>4. s.box.playerPk \in PlayerAddrs
    BY PathOfSettlement
  <2> QED
    BY <2>2, <2>3, <2>4, PathOfSettlement DEF canReveal, ToPlayer, ToHouse
<1> QED
  BY <1>1, Invariance, PTL

(* A player who did not lose the flip never ends with less than a refund.  *)
THEOREM PlayerIsSafe == Spec => []PlayerFloor
<1>1. IInv => PlayerFloor
  <2> SUFFICES ASSUME IInv, NEW b \in Bets, settled[b] # Unsettled,
                      playerWins(settled[b].box, settled[b].byte)
               PROVE  ToPlayer(settled[b]) >= refundAmount(settled[b].box.value)
    BY DEF PlayerFloor
  <2> DEFINE s == settled[b]
  <2>1. s.box.value \in Nat /\ s.tx.value \in Nat /\ s.box.playerPk \in PlayerAddrs
    BY PathOfSettlement
  <2>2. /\ winPayout(s.box.value) \in Nat /\ refundAmount(s.box.value) \in Nat
        /\ winPayout(s.box.value) >= refundAmount(s.box.value)
    BY <2>1, Payouts
  <2>3. \/ canReveal(s.box, s.tx, s.byte)
        \/ canRefund(s.box, s.tx, s.height)
    BY PathOfSettlement
  <2>4. s.tx.to = s.box.playerPk /\ s.tx.value >= refundAmount(s.box.value)
    BY <2>1, <2>2, <2>3 DEF canReveal, canRefund
  <2> QED
    BY <2>1, <2>4 DEF ToPlayer
<1> QED
  BY <1>1, Invariance, PTL

(* Before the timeout height the house keeps every bet the flip gave it.   *)
THEOREM HouseIsSafe == Spec => []HouseFloor
<1>1. IInv => HouseFloor
  <2> SUFFICES ASSUME IInv, NEW b \in Bets, settled[b] # Unsettled,
                      ~playerWins(settled[b].box, settled[b].byte),
                      settled[b].height < settled[b].box.timeoutHeight
               PROVE  ToHouse(settled[b]) >= settled[b].box.value
    BY DEF HouseFloor
  <2>1. canReveal(settled[b].box, settled[b].tx, settled[b].byte)
    BY PathOfSettlement DEF canRefund
  <2> QED
    BY <2>1, PathOfSettlement DEF canReveal, ToHouse
<1> QED
  BY <1>1, Invariance, PTL

(* The outcome the reveal builder returned is the outcome on chain.        *)
THEOREM RevealResultIsRight == Spec => []RevealResultIsTheOutcome
<1>1. IInv => RevealResultIsTheOutcome
  <2> SUFFICES ASSUME IInv, NEW b \in Bets, settled[b] # Unsettled,
                      settled[b].tx.signer = "house"
               PROVE  settled[b].tx.playerWins <=> playerWins(settled[b].box, settled[b].byte)
    BY DEF RevealResultIsTheOutcome
  <2>1. canReveal(settled[b].box, settled[b].tx, settled[b].byte)
    BY PathOfSettlement
  <2>2. settled[b].tx.to \in IF settled[b].tx.playerWins THEN PlayerAddrs ELSE {House}
    BY DEF IInv, SettlementIsAllowed
  <2>3. settled[b].tx.playerWins \in BOOLEAN
    BY PathOfSettlement DEF Settlement, SpendTx
  <2> QED
    BY <2>1, <2>2, <2>3, PathOfSettlement, CoinflipAssumption DEF canReveal
<1> QED
  BY <1>1, Invariance, PTL

(* A settled bet is never settled again, nor its box brought back.         *)
THEOREM SettledForGood == Spec => SettledOnce
<1>1. IInv /\ [Next]_vars
      => [\A b \in Bets : settled[b] # Unsettled => settled'[b] = settled[b] /\ box'[b] = NoBox]_vars
  <2> SUFFICES ASSUME IInv, [Next]_vars, NEW b \in Bets, settled[b] # Unsettled
               PROVE  settled'[b] = settled[b] /\ box'[b] = NoBox
    OBVIOUS
  <2>1. box[b] = NoBox /\ commitTx[b] = NoBox
    BY DEF IInv, BetIsInOnePlace
  <2>2. settled'[b] = settled[b]
    <3>1. ASSUME NEW tx \in spends, Include(tx) PROVE settled'[b] = settled[b]
      <4>1. tx.bet # b
        BY <2>1, <3>1 DEF Include
      <4> QED
        BY <3>1, <4>1 DEF Include, IInv, TypeOK
    <3> QED
      BY <3>1, OnlyIncludeSettles
  <2>3. BetIsInOnePlace'
    BY StepBetIsInOnePlace
  <2>4. box'[b] = NoBox
    BY <2>2, <2>3 DEF BetIsInOnePlace
  <2> QED
    BY <2>2, <2>4
<1> QED
  BY <1>1, Invariance, PTL DEF Spec, SettledOnce

-----------------------------------------------------------------------------
(* The refinement: one lemma per kind of step.                             *)

(* Initially no bet is open.                                               *)
LEMMA InitRefines == Init => Escrow!Init
  BY DEF Init, Escrow!Init, Phase, Stake, Overdue

(* A step that leaves the height, the boxes and the settlements alone is   *)
(* invisible.                                                              *)
LEMMA HiddenStep ==
    ASSUME UNCHANGED <<height, box, settled>>
    PROVE  UNCHANGED Escrow!vars
  BY DEF Escrow!vars, Phase, Stake, Overdue, ToPlayer, ToHouse

(* A new block makes bets overdue, or nothing.                             *)
LEMMA NewBlockExpires ==
    ASSUME IInv, NewBlock
    PROVE  Escrow!Expire \/ UNCHANGED Escrow!vars
<1> DEFINE over == {b \in Bets : Overdue(b)}
           new == {b \in Bets : Overdue(b)' /\ ~Overdue(b)}
<1>1. UNCHANGED <<box, settled>> /\ height' = height + 1 /\ height \in Nat
  BY CoinflipAssumption DEF NewBlock, IInv, TypeOK
<1>2. UNCHANGED <<[b \in Bets |-> Phase(b)], [b \in Bets |-> Stake(b)],
                  [b \in Bets |-> IF settled[b] = Unsettled THEN 0 ELSE ToPlayer(settled[b])],
                  [b \in Bets |-> IF settled[b] = Unsettled THEN 0 ELSE ToHouse(settled[b])]>>
  BY <1>1 DEF Phase, Stake, ToPlayer, ToHouse
<1>3. ASSUME NEW b \in Bets, Overdue(b) PROVE Overdue(b)'
  <2>1. box[b] # NoBox => box[b].timeoutHeight \in Nat
    BY DEF IInv, TypeOK, Box
  <2> QED
    BY <1>1, <1>3, <2>1 DEF Overdue
<1>4. ASSUME NEW b \in Bets, Overdue(b)', ~Overdue(b) PROVE Phase(b) = "open"
  BY <1>1, <1>4 DEF Overdue, Phase, IInv, BetIsInOnePlace
<1>5. over' = over \cup new
  BY <1>3
<1>6. new \subseteq {b \in Bets : [c \in Bets |-> Phase(c)][b] = "open"}
  BY <1>4
<1>7. CASE new = {}
  BY <1>2, <1>5, <1>7 DEF Escrow!vars
<1>8. CASE new # {}
  BY <1>2, <1>5, <1>6, <1>8 DEF Escrow!Expire
<1> QED
  BY <1>7, <1>8

(* Including the bet transaction opens the bet.                            *)
LEMMA MineBetOpens ==
    ASSUME IInv, NEW b \in Bets, MineBet(b)
    PROVE  Escrow!Open(b)
<1>1. /\ commitTx[b] # NoBox /\ commitTx[b] \in Box
      /\ box[b] = NoBox /\ settled[b] = Unsettled
  BY DEF MineBet, IInv, TypeOK, BetIsInOnePlace
<1>2. /\ UNCHANGED <<settled, height>>
      /\ box' = [box EXCEPT ![b] = commitTx[b]]
      /\ box \in [Bets -> Box \cup {NoBox}]
  BY DEF MineBet, IInv, TypeOK
<1>3. Phase(b) = "none" /\ Phase(b)' = "open"
  BY <1>1, <1>2 DEF Phase
<1>4. Stake(b)' = commitTx[b].value /\ commitTx[b].value \in Amounts
  BY <1>1, <1>2 DEF Stake, Box
<1>5. ASSUME NEW c \in Bets, c # b
      PROVE  Phase(c)' = Phase(c) /\ Stake(c)' = Stake(c) /\ Overdue(c)' = Overdue(c)
  BY <1>2, <1>5 DEF Phase, Stake, Overdue
<1>6. ~Overdue(b)
  BY <1>1 DEF Overdue
<1>7. [c \in Bets |-> Phase(c)]' = [[c \in Bets |-> Phase(c)] EXCEPT ![b] = "open"]
  BY <1>3, <1>5
<1>8. [c \in Bets |-> Stake(c)]' = [[c \in Bets |-> Stake(c)] EXCEPT ![b] = commitTx[b].value]
  BY <1>4, <1>5
<1>9. {c \in Bets : Overdue(c)}' \in
        {{c \in Bets : Overdue(c)}, {c \in Bets : Overdue(c)} \cup {b}}
  <2>1. CASE Overdue(b)'
    <3>1. {c \in Bets : Overdue(c)}' = {c \in Bets : Overdue(c)} \cup {b}
      BY <1>5, <2>1
    <3> QED
      BY <3>1
  <2>2. CASE ~Overdue(b)'
    <3>1. {c \in Bets : Overdue(c)}' = {c \in Bets : Overdue(c)}
      BY <1>5, <1>6, <2>2
    <3> QED
      BY <3>1
  <2> QED
    BY <2>1, <2>2
<1>10. UNCHANGED <<[c \in Bets |-> IF settled[c] = Unsettled THEN 0 ELSE ToPlayer(settled[c])],
                   [c \in Bets |-> IF settled[c] = Unsettled THEN 0 ELSE ToHouse(settled[c])]>>
  BY <1>2 DEF ToPlayer, ToHouse
<1> QED
  BY <1>3, <1>4, <1>7, <1>8, <1>9, <1>10 DEF Escrow!Open

(* Including a spending transaction wins, loses or refunds the bet.        *)
LEMMA IncludeSettles ==
    ASSUME IInv, NEW tx \in spends, Include(tx)
    PROVE  LET b == tx.bet IN b \in Bets /\ (Escrow!Win(b) \/ Escrow!Lose(b) \/ Escrow!Refund(b))
<1> DEFINE b == tx.bet
           s == NewSettlement(tx)
           player == [c \in Bets |-> IF settled[c] = Unsettled THEN 0 ELSE ToPlayer(settled[c])]
           house == [c \in Bets |-> IF settled[c] = Unsettled THEN 0 ELSE ToHouse(settled[c])]
<1>1. tx \in SpendTx /\ b \in Bets
  BY DEF IInv, TypeOK, SpendTx
<1>2. box[b] # NoBox /\ box[b] \in Box /\ settled[b] = Unsettled
  BY <1>1 DEF Include, IInv, TypeOK, BetIsInOnePlace
<1>3. s \in Settlement /\ s # Unsettled
  BY NewSettlementType DEF IInv
<1>4. /\ UNCHANGED height /\ height \in Nat
      /\ settled' = [settled EXCEPT ![b] = s]
      /\ box' = [box EXCEPT ![b] = NoBox]
      /\ box \in [Bets -> Box \cup {NoBox}]
      /\ settled \in [Bets -> Settlement \cup {Unsettled}]
  BY CoinflipAssumption DEF Include, IInv, TypeOK, NewSettlement
<1>5. settled'[b] = s /\ box'[b] = NoBox
  BY <1>1, <1>4
<1>6. ASSUME NEW c \in Bets, c # b PROVE settled'[c] = settled[c] /\ box'[c] = box[c]
  BY <1>4, <1>6
<1>7. s.tx = tx /\ s.box = box[b] /\ s.height = height + 1
  BY DEF NewSettlement
<1> HIDE DEF s
<1>8. /\ IInv' /\ settled'[b] # Unsettled
  BY <1>3, <1>5, StepTypeOK, StepBetIsInOnePlace, StepSpendsFitTheirBet,
     StepSettlementIsAllowed, StepLockIsBounded DEF IInv, Next, Chain
<1>9. /\ tx.signer = "house" => canReveal(s.box, tx, s.byte)
      /\ tx.signer = "player" => canRefund(s.box, tx, s.height)
      /\ tx.signer \in {"house", "player"}
      /\ s.box.housePk = House /\ s.box.playerPk \in PlayerAddrs
  <2>1. canSpend(s.box, tx, s.byte, s.height)
    BY DEF Include, s, NewSettlement
  <2>2. /\ tx.keys = IF tx.signer = "house" THEN {House} ELSE PlayerAddrs
        /\ tx.signer \in {"house", "player"}
    BY <1>1 DEF IInv, SpendsFitTheirBet, SpendTx
  <2>3. s.box.housePk = House /\ s.box.playerPk \in PlayerAddrs
    BY <1>2, <1>7 DEF Box
  <2> QED
    BY <2>1, <2>2, <2>3, CoinflipAssumption DEF canSpend, canReveal, canRefund
<1>10. /\ tx.signer = "house" => tx.to \in IF tx.playerWins THEN PlayerAddrs ELSE {House}
       /\ tx.value = IF tx.signer = "player" THEN refundAmount(s.box.value)
                     ELSE IF tx.playerWins THEN winPayout(s.box.value) ELSE s.box.value
       /\ tx.playerWins \in BOOLEAN
  BY <1>1, <1>2, <1>7 DEF IInv, SpendsFitTheirBet, SpendTx
<1>11. Phase(b) = "open" /\ Stake(b) = s.box.value
  BY <1>2, <1>7 DEF Phase, Stake
<1>12. Phase(b)' = IF tx.signer = "player" THEN "refunded"
                   ELSE IF playerWins(s.box, s.byte) THEN "won" ELSE "lost"
  BY <1>5, <1>7, <1>8 DEF Phase
<1>13. UNCHANGED [c \in Bets |-> Stake(c)]
  <2>1. Stake(b)' = Stake(b)
    BY <1>5, <1>7, <1>8, <1>11 DEF Stake
  <2>2. ASSUME NEW c \in Bets, c # b PROVE Stake(c)' = Stake(c)
    BY <1>6, <2>2 DEF Stake
  <2> QED
    BY <2>1, <2>2
<1>14. UNCHANGED {c \in Bets : Overdue(c)}
  <2>1. Overdue(b)' <=> Overdue(b)
    BY <1>2, <1>5, <1>7, <1>8 DEF Overdue
  <2>2. ASSUME NEW c \in Bets, c # b PROVE Overdue(c)' <=> Overdue(c)
    BY <1>4, <1>6, <2>2 DEF Overdue
  <2> QED
    BY <2>1, <2>2
<1>15. [c \in Bets |-> Phase(c)]' = [[c \in Bets |-> Phase(c)] EXCEPT ![b] = Phase(b)']
  BY <1>6 DEF Phase
<1>16. /\ player' = [player EXCEPT ![b] = ToPlayer(s)]
       /\ house' = [house EXCEPT ![b] = ToHouse(s)]
  BY <1>1, <1>5, <1>6, <1>8 DEF ToPlayer, ToHouse
<1>17. player[b] = 0 /\ house[b] = 0 /\ player = [player EXCEPT ![b] = 0]
       /\ house = [house EXCEPT ![b] = 0]
  BY <1>1, <1>2
<1>18. House \notin PlayerAddrs
  BY CoinflipAssumption
<1>19. CASE tx.signer = "player"
  <2>1. tx.to \in PlayerAddrs /\ b \in {c \in Bets : Overdue(c)}
    BY <1>1, <1>2, <1>7, <1>9, <1>19 DEF canRefund, Overdue
  <2>2. ToPlayer(s) = s.box.value - (s.box.value \div 50) /\ ToHouse(s) = 0
    BY <1>7, <1>10, <1>18, <1>19, <2>1 DEF ToPlayer, ToHouse, refundAmount
  <2> QED
    BY <1>1, <1>11, <1>12, <1>13, <1>14, <1>15, <1>16, <1>17, <1>19, <2>1, <2>2 DEF Escrow!Refund
<1>20. CASE tx.signer = "house" /\ playerWins(s.box, s.byte)
  <2>1. tx.to \in PlayerAddrs /\ tx.playerWins
    BY <1>9, <1>10, <1>18, <1>20 DEF canReveal
  <2>2. ToPlayer(s) = (s.box.value * 97) \div 50 /\ ToHouse(s) = 0
    BY <1>7, <1>10, <1>18, <1>20, <2>1 DEF ToPlayer, ToHouse, winPayout
  <2> QED
    BY <1>1, <1>11, <1>12, <1>13, <1>14, <1>15, <1>16, <1>17, <1>20, <2>2 DEF Escrow!Win
<1>21. CASE tx.signer = "house" /\ ~playerWins(s.box, s.byte)
  <2>1. tx.to = House /\ ~tx.playerWins
    BY <1>9, <1>10, <1>18, <1>21 DEF canReveal
  <2>2. ToPlayer(s) = 0 /\ ToHouse(s) = s.box.value
    BY <1>7, <1>10, <1>18, <1>21, <2>1 DEF ToPlayer, ToHouse
  <2> QED
    BY <1>1, <1>11, <1>12, <1>13, <1>14, <1>15, <1>16, <1>17, <1>21, <2>2 DEF Escrow!Lose
<1> QED
  BY <1>1, <1>9, <1>19, <1>20, <1>21

(* The coinflip implements the escrow it promises.                         *)
THEOREM Refinement == Spec => EscrowSpec
<1>1. IInv /\ [Next]_vars => [Escrow!Next]_Escrow!vars
  <2> SUFFICES ASSUME IInv, [Next]_vars PROVE [Escrow!Next]_Escrow!vars
    OBVIOUS
  <2>1. CASE UNCHANGED <<height, box, settled>>
    BY <2>1, HiddenStep
  <2>2. CASE NewBlock
    BY <2>2, NewBlockExpires DEF Escrow!Next
  <2>3. ASSUME NEW b \in Bets, MineBet(b) PROVE Escrow!Next
    BY <2>3, MineBetOpens DEF Escrow!Next
  <2>4. ASSUME NEW tx \in spends, Include(tx) PROVE Escrow!Next
    BY <2>4, IncludeSettles DEF Escrow!Next
  <2> QED
    BY <2>1, <2>2, <2>3, <2>4
    DEF Next, Chain, Player, HouseReveals, PlaceBet, SubmitBet, SignBet, BuildRefund,
        BuildReveal, DropBet, DropSpend, vars
<1> QED
  BY InitRefines, <1>1, Invariance, PTL DEF Spec, EscrowSpec, Escrow!Spec

=============================================================================
