------------------------------ MODULE Coinflip ------------------------------
(***************************************************************************)
(* The on-chain coinflip: frontend/src/services/coinflipService.ts and     *)
(* CoinFlipGame.handleSubmit build the transactions, the wallet signs      *)
(* them, the node keeps them in its mempool, and a block includes them     *)
(* when coinflip_v2.es lets the bet box be spent.                          *)
(*                                                                         *)
(* The house and the player act at any time and do not see each other: a   *)
(* reveal and a refund of one bet may both wait in the mempool, and a      *)
(* transaction built against one tip may be included many blocks later.    *)
(*                                                                         *)
(* A bet is one handleSubmit, which draws a secret of its own, so its      *)
(* identifier doubles as that secret.  The random oracle                   *)
(* blake2b256(blockId || secret)(0) is a byte chosen per block and bet.    *)
(***************************************************************************)
EXTENDS CoinflipContract, Sequences

CONSTANTS
    Bets,           \* bets (and their secrets)
    Amounts,        \* bet amounts the player may enter
    EntropyBytes,   \* values of rngHash(0), a subset of 0..255
    PlayerAddrs,    \* addresses (public keys) of the player's wallet
    ChangeAddr,     \* the one the wallet gives as its change address
    House,          \* HOUSE_PUB_KEY / HOUSE_ADDRESS
    NoBox,          \* no box: absent from the UTXO set or the mempool
    Unsettled,      \* no spending transaction of the bet is on chain
    PlayerWallets,  \* lists of P2PK UTXOs [value, addr] the player may hold
    KeySource,      \* "form": extractPubKeyFromUtxo; "caller": a caller of
                    \* buildPlaceBetTx that knows the key of the first UTXO
    HouseWallets,   \* lists of UTXOs [value, addr] the house may hold
    TIMEOUT_DELTA,  \* config/contract.ts
    MinFee,         \* what Fleet's payMinFee() adds
    FeeTarget,      \* the 1_000_000n of buildRevealTx and buildRefundTx
    MaxHeight       \* bound on the height of the chain

FormState == {"idle", "signing", "submitting", "placed", "error"}

Box == [housePk : {House}, playerPk : PlayerAddrs,
        commitmentHash : Bets \X {0, 1}, playerChoice : {0, 1},
        timeoutHeight : Nat, playerSecret : Bets, value : Amounts]

\* RevealResult.playerWins is kept with a reveal; a refund has none.
SpendTx == [bet : Bets, signer : {"house", "player"}, keys : SUBSET (PlayerAddrs \cup {House}),
            to : PlayerAddrs \cup {House}, value : Nat, playerWins : BOOLEAN]

Settlement == [box : Box, tx : SpendTx, byte : 0..255, height : Nat]

ASSUME CoinflipAssumption ==
    /\ Amounts \subseteq Nat \ {0}
    /\ EntropyBytes \subseteq 0..255 /\ EntropyBytes # {}
    /\ ChangeAddr \in PlayerAddrs
    /\ House \notin PlayerAddrs
    /\ PlayerWallets \subseteq Seq([value : Nat, addr : PlayerAddrs])
    /\ HouseWallets \subseteq Seq([value : Nat, addr : {House}])
    /\ KeySource \in {"form", "caller"}
    /\ NoBox \notin Box /\ Unsettled \notin Settlement
    /\ TIMEOUT_DELTA \in Nat /\ MinFee \in Nat /\ FeeTarget \in Nat /\ MaxHeight \in Nat

VARIABLES
    height,    \* height of the tip; the next block is height + 1
    tipByte,   \* [Bets -> byte]: rngHash(0) with the id of the tip as seed
    prevByte,  \* the same for the block at height - 1
    form,      \* [Bets -> FormState]: what the game component shows
    commitTx,  \* [Bets -> Box]: a bet transaction not yet mined
    box,       \* [Bets -> Box]: the bet boxes in the UTXO set
    spends,    \* mempool: transactions that spend bet boxes
    settled    \* [Bets -> Settlement]: how the chain spent a bet box

vars == <<height, tipByte, prevByte, form, commitTx, box, spends, settled>>

Init ==
    /\ height = 0
    /\ tipByte \in [Bets -> EntropyBytes]
    /\ prevByte \in [Bets -> EntropyBytes]
    /\ form = [b \in Bets |-> "idle"]
    /\ commitTx = [b \in Bets |-> NoBox]
    /\ box = [b \in Bets |-> NoBox]
    /\ spends = {}
    /\ settled = [b \in Bets |-> Unsettled]

-----------------------------------------------------------------------------
(* Fleet's BoxSelector and TransactionBuilder (external).                  *)

\* The value of the first n boxes of a list.
PrefixValue(utxos) ==
    LET sum[n \in Nat] == IF n = 0 THEN 0 ELSE sum[n - 1] + utxos[n].value
    IN  sum

\* BoxSelector.select(target) takes boxes in order until they cover the
\* target and throws when they never do: the lengths it can return.
Selected(utxos, target) ==
    {n \in 1..Len(utxos) : /\ PrefixValue(utxos)[n] >= target
                           /\ \A m \in 1..(n - 1) : PrefixValue(utxos)[m] < target}

\* TransactionBuilder.build() throws unless its inputs, the boxes selected
\* for the target and the bet box if there is one, cover the output and the fee.
Funded(utxos, target, betValue, outputValue) ==
    \E n \in Selected(utxos, target) :
        PrefixValue(utxos)[n] + betValue >= outputValue + MinFee

-----------------------------------------------------------------------------
(* Placing a bet.                                                          *)

\* buildPlaceBetTx selects for the amount alone.
PlaceBetFunded(utxos, amount) == Funded(utxos, amount, 0, amount)

\* extractPubKeyFromUtxo gives up on an ergoTree of fewer than 74 digits; that
\* of a P2PK box, 0008cd and a key of 33 bytes, has 72.
P2PKTreeLength == 6 + 2 * 33
KeyIsRead == KeySource = "form" => P2PKTreeLength >= 74

\* Mutant: the timeout height is one block late.
BetBox_LateTimeout(b, amount, choice, utxos, currentHeight) ==
    [housePk |-> House, playerPk |-> utxos[1].addr,
     commitmentHash |-> blake2b256(b, choice), playerChoice |-> choice,
     timeoutHeight |-> currentHeight + TIMEOUT_DELTA + 1,
     playerSecret |-> b, value |-> amount]

\* The box of buildPlaceBetTx, with the key of the first UTXO as R5.
BetBox(b, amount, choice, utxos, currentHeight) ==
    [housePk |-> House, playerPk |-> utxos[1].addr,
     commitmentHash |-> blake2b256(b, choice), playerChoice |-> choice,
     timeoutHeight |-> currentHeight + TIMEOUT_DELTA,
     playerSecret |-> b, value |-> amount]

\* handleSubmit up to the wallet popup: read the wallet and the height, find
\* the key, build the transaction; an empty wallet, no key or a throwing
\* builder is an error.
PlaceBet(b, amount, choice, utxos) ==
    /\ form[b] = "idle"
    /\ height + TIMEOUT_DELTA <= MaxHeight
    /\ \/ /\ utxos # <<>> /\ KeyIsRead
          /\ PlaceBetFunded(utxos, amount)
          /\ form' = [form EXCEPT ![b] = "signing"]
          /\ commitTx' = [commitTx EXCEPT ![b] = BetBox(b, amount, choice, utxos, height)]
       \/ /\ utxos = <<>> \/ ~KeyIsRead \/ ~PlaceBetFunded(utxos, amount)
          /\ form' = [form EXCEPT ![b] = "error"]
          /\ UNCHANGED commitTx
    /\ UNCHANGED <<height, tipByte, prevByte, box, spends, settled>>

\* The wallet popup: the player signs or refuses.
SignBet(b) ==
    /\ form[b] = "signing"
    /\ \/ form' = [form EXCEPT ![b] = "submitting"] /\ UNCHANGED commitTx
       \/ /\ form' = [form EXCEPT ![b] = "error"]
          /\ commitTx' = [commitTx EXCEPT ![b] = NoBox]
    /\ UNCHANGED <<height, tipByte, prevByte, box, spends, settled>>

\* submitTransaction returns the id, "Bet Placed", or fails.  The answer may
\* be lost: the node may have the transaction, and even have mined it, when
\* the form shows an error.
SubmitBet(b) ==
    /\ form[b] = "submitting"
    /\ form' \in {[form EXCEPT ![b] = "placed"], [form EXCEPT ![b] = "error"]}
    /\ UNCHANGED <<height, tipByte, prevByte, commitTx, box, spends, settled>>

-----------------------------------------------------------------------------
(* Settling a bet.                                                         *)

\* buildRevealTx simulates the flip on the block at currentHeight - 1, with
\* the unsigned byte of a Uint8Array, and pays the side that simulation names.
RevealTx(b, playerAddress, currentByte) ==
    LET wins == currentByte % 2 = box[b].playerChoice
    IN  [bet |-> b, signer |-> "house", keys |-> {House},
         to |-> IF wins THEN playerAddress ELSE House,
         value |-> IF wins THEN winPayout(box[b].value) ELSE box[b].value,
         playerWins |-> wins]

\* The house's inputs are selected for the fee alone.
BuildReveal(b, playerAddress, utxos) ==
    /\ box[b] # NoBox
    /\ LET tx == RevealTx(b, playerAddress, prevByte[b])
       IN  /\ Funded(utxos, FeeTarget, box[b].value, tx.value)
           /\ spends' = spends \cup {tx}
    /\ UNCHANGED <<height, tipByte, prevByte, form, commitTx, box, settled>>

\* Mutant: the builder keeps a twenty-fifth, more than the contract lets it.
RefundTx_Short(b) ==
    [bet |-> b, signer |-> "player", keys |-> PlayerAddrs, to |-> ChangeAddr,
     value |-> box[b].value - (box[b].value \div 25), playerWins |-> FALSE]

\* buildRefundTx pays the change address; the wallet signs with all its keys.
RefundTx(b) ==
    [bet |-> b, signer |-> "player", keys |-> PlayerAddrs,
     to |-> ChangeAddr, value |-> refundAmount(box[b].value), playerWins |-> FALSE]

BuildRefund(b, utxos) ==
    /\ box[b] # NoBox
    /\ Funded(utxos, FeeTarget, box[b].value, refundAmount(box[b].value))
    /\ spends' = spends \cup {RefundTx(b)}
    /\ UNCHANGED <<height, tipByte, prevByte, form, commitTx, box, settled>>

-----------------------------------------------------------------------------
(* The chain (external): what a block includes, and the mempool.           *)

\* The forms of a bet whose signed transaction was handed to the node.
Submitted == {"submitting", "placed", "error"}

\* The bet transaction is included and its box enters the UTXO set.
MineBet(b) ==
    /\ form[b] \in Submitted
    /\ commitTx[b] # NoBox
    /\ box' = [box EXCEPT ![b] = commitTx[b]]
    /\ commitTx' = [commitTx EXCEPT ![b] = NoBox]
    /\ UNCHANGED <<height, tipByte, prevByte, form, spends, settled>>

\* A spending transaction is included in block height + 1, whose parent is the tip.
Include(tx) ==
    LET b == tx.bet IN
    /\ box[b] # NoBox
    /\ canSpend(box[b], tx, tipByte[b], height + 1)
    /\ settled' = [settled EXCEPT ![b] = [box |-> box[b], tx |-> tx,
                                          byte |-> tipByte[b], height |-> height + 1]]
    /\ box' = [box EXCEPT ![b] = NoBox]
    /\ spends' = spends \ {tx}
    /\ UNCHANGED <<height, tipByte, prevByte, form, commitTx>>

\* The block is sealed and its id becomes the next seed.
NewBlock ==
    /\ height < MaxHeight
    /\ height' = height + 1
    /\ prevByte' = tipByte
    /\ tipByte' \in [Bets -> EntropyBytes]
    /\ UNCHANGED <<form, commitTx, box, spends, settled>>

\* The node rejects or forgets a transaction.
DropBet(b) ==
    /\ form[b] \in Submitted
    /\ commitTx[b] # NoBox
    /\ commitTx' = [commitTx EXCEPT ![b] = NoBox]
    /\ UNCHANGED <<height, tipByte, prevByte, form, box, spends, settled>>

DropSpend(tx) ==
    /\ spends' = spends \ {tx}
    /\ UNCHANGED <<height, tipByte, prevByte, form, commitTx, box, settled>>

-----------------------------------------------------------------------------

Player(b) ==
    \/ \E amount \in Amounts, choice \in {0, 1}, utxos \in PlayerWallets :
          PlaceBet(b, amount, choice, utxos)
    \/ SignBet(b)
    \/ SubmitBet(b)
    \/ \E utxos \in PlayerWallets : BuildRefund(b, utxos)

HouseReveals(b) ==
    \E playerAddress \in PlayerAddrs, utxos \in HouseWallets :
        BuildReveal(b, playerAddress, utxos)

Chain ==
    \/ NewBlock
    \/ \E b \in Bets : MineBet(b) \/ DropBet(b)
    \/ \E tx \in spends : Include(tx) \/ DropSpend(tx)

Next == Chain \/ \E b \in Bets : Player(b) \/ HouseReveals(b)

Spec == Init /\ [][Next]_vars

\* Blocks keep coming, a player with an open bet keeps asking for the refund,
\* and a refund the node is offered again and again is included.  Nothing is
\* assumed of the house.
Fairness ==
    /\ WF_vars(NewBlock)
    /\ \A b \in Bets :
          /\ WF_vars(\E utxos \in PlayerWallets : BuildRefund(b, utxos))
          /\ SF_vars(\E tx \in spends : tx.bet = b /\ tx.signer = "player" /\ Include(tx))

FairSpec == Spec /\ Fairness

-----------------------------------------------------------------------------
(* Properties.                                                             *)

TypeOK ==
    /\ height \in 0..MaxHeight
    /\ tipByte \in [Bets -> EntropyBytes]
    /\ prevByte \in [Bets -> EntropyBytes]
    /\ form \in [Bets -> FormState]
    /\ commitTx \in [Bets -> Box \cup {NoBox}]
    /\ box \in [Bets -> Box \cup {NoBox}]
    /\ spends \subseteq SpendTx
    /\ settled \in [Bets -> Settlement \cup {Unsettled}]

\* What the player and the house got of a settled bet.
ToPlayer(s) == IF s.tx.to \in PlayerAddrs THEN s.tx.value ELSE 0
ToHouse(s) == IF s.tx.to = House THEN s.tx.value ELSE 0

\* The side a byte names: even is heads, odd is tails, of the byte as the
\* frontend reads it (coinflipService.ts:372) and the contract's comment says
\* it ("0 = heads, 1 = tails").
Side(byte) == byte % 2

\* The contract reads these as -1, which is neither side.
Sideless(byte) == byte >= 128 /\ byte % 2 = 1

\* Whatever tip the house built its reveal against, a reveal that is included
\* pays in full the side that the byte of the including block names; only a
\* byte without a side is the house's, whatever the player chose.
RevealPaysTheFlip ==
    \A b \in Bets : settled[b] # Unsettled /\ settled[b].tx.signer = "house" =>
        LET s == settled[b]
        IN  IF Side(s.byte) = s.box.playerChoice /\ ~Sideless(s.byte)
            THEN s.tx.to = s.box.playerPk /\ ToPlayer(s) >= winPayout(s.box.value)
            ELSE ToHouse(s) >= s.box.value

\* Whoever spends the box and whenever, a player who did not lose the flip
\* of that block has at least 98% of the bet.
PlayerFloor ==
    \A b \in Bets : settled[b] # Unsettled =>
        LET s == settled[b]
        IN  playerWins(s.box, s.byte) => ToPlayer(s) >= refundAmount(s.box.value)

\* Before the timeout height the house cannot lose a bet the flip did not
\* give the player: a refund that was built early and waited in the mempool
\* does not jump the deadline.
HouseFloor ==
    \A b \in Bets : settled[b] # Unsettled =>
        LET s == settled[b]
        IN  /\ ~playerWins(s.box, s.byte)
            /\ s.height < s.box.timeoutHeight
            => ToHouse(s) >= s.box.value

\* RevealResult.playerWins, "determined by on-chain RNG": computed on another
\* block than the one that includes the reveal, it still is the outcome of
\* every reveal that is included.
RevealResultIsTheOutcome ==
    \A b \in Bets : settled[b] # Unsettled /\ settled[b].tx.signer = "house" =>
        (settled[b].tx.playerWins <=> playerWins(settled[b].box, settled[b].byte))

\* No bet is locked for longer than TIMEOUT_DELTA blocks from any moment:
\* the timeout height of a bet in the mempool or in the UTXO set is never
\* further ahead than that.
LockIsBounded ==
    \A b \in Bets : \A x \in {commitTx[b], box[b]} \ {NoBox} :
        x.timeoutHeight <= height + TIMEOUT_DELTA

\* A bet is in one place at a time -- waiting to be mined, in the UTXO set or
\* settled -- whatever its form shows, and in none of them before it is sent.
BetIsInOnePlace ==
    \A b \in Bets :
        /\ commitTx[b] # NoBox => /\ form[b] # "idle"
                                 /\ box[b] = NoBox /\ settled[b] = Unsettled
        /\ box[b] # NoBox => form[b] \in Submitted /\ settled[b] = Unsettled
        /\ settled[b] # Unsettled => form[b] \in Submitted

\* A transaction in the mempool pays what the bet it was built for asks, and
\* no bet has one before its box exists.
SpendsFitTheirBet ==
    \A tx \in spends :
        /\ box[tx.bet] # NoBox \/ settled[tx.bet] # Unsettled
        /\ tx.signer = "house" =>
              /\ tx.keys = {House}
              /\ tx.playerWins => tx.to \in PlayerAddrs
              /\ ~tx.playerWins => tx.to = House
        /\ tx.signer = "player" => tx.keys = PlayerAddrs /\ tx.to = ChangeAddr
        /\ box[tx.bet] # NoBox =>
              tx.value = IF tx.signer = "player" THEN refundAmount(box[tx.bet].value)
                         ELSE IF tx.playerWins THEN winPayout(box[tx.bet].value)
                         ELSE box[tx.bet].value

\* A settlement is the spend the contract allowed, for the bet it settles.
SettlementIsAllowed ==
    \A b \in Bets : settled[b] # Unsettled =>
        LET s == settled[b]
        IN  /\ s.tx.keys = IF s.tx.signer = "house" THEN {House} ELSE PlayerAddrs
            /\ s.tx.signer = "house" =>
                  s.tx.to \in IF s.tx.playerWins THEN PlayerAddrs ELSE {House}
            /\ canSpend(s.box, s.tx, s.byte, s.height)

\* The inductive invariant: the safety properties above follow from it.
IInv == /\ TypeOK /\ BetIsInOnePlace /\ SpendsFitTheirBet
        /\ SettlementIsAllowed /\ LockIsBounded

\* A settled bet stays settled as it is and its box never comes back, however
\* many transactions of the bet still wait in the mempool.
SettledOnce ==
    [][\A b \in Bets : settled[b] # Unsettled =>
          settled'[b] = settled[b] /\ box'[b] = NoBox]_vars

\* Every bet whose refund key is that of the change address is settled, even
\* when the house never reveals.  A bet of another key is not: buildRefundTx
\* pays the change address, and the contract refuses that at any height.
EveryBetSettles ==
    \A b \in Bets :
        box[b] # NoBox /\ box[b].playerPk = ChangeAddr ~> settled[b] # Unsettled

-----------------------------------------------------------------------------
(* Coinflip implements BetEscrow.                                          *)

Phase(b) ==
    IF settled[b] # Unsettled
    THEN IF settled[b].tx.signer = "player" THEN "refunded"
         ELSE IF playerWins(settled[b].box, settled[b].byte) THEN "won" ELSE "lost"
    ELSE IF box[b] # NoBox THEN "open" ELSE "none"

Stake(b) ==
    IF settled[b] # Unsettled THEN settled[b].box.value
    ELSE IF box[b] # NoBox THEN box[b].value ELSE 0

Overdue(b) ==
    \/ box[b] # NoBox /\ box[b].timeoutHeight <= height + 1
    \/ settled[b] # Unsettled /\ settled[b].box.timeoutHeight <= settled[b].height

Escrow == INSTANCE BetEscrow WITH
    Stakes <- Amounts,
    phase <- [b \in Bets |-> Phase(b)],
    stake <- [b \in Bets |-> Stake(b)],
    overdue <- {b \in Bets : Overdue(b)},
    toPlayer <- [b \in Bets |-> IF settled[b] = Unsettled THEN 0 ELSE ToPlayer(settled[b])],
    toHouse <- [b \in Bets |-> IF settled[b] = Unsettled THEN 0 ELSE ToHouse(settled[b])]

\* The chain and the builders keep the promise of BetEscrow.
EscrowSpec == Escrow!Spec

-----------------------------------------------------------------------------
(* What comments of the code say and it does not do.                       *)

\* "Extract the 33-byte compressed public key from a P2PK UTXO's ergoTree": a
\* player whose wallet holds P2PK boxes that cover the bet gets to sign it.
P2PKWalletCanBet ==
    [][\A b \in Bets, amount \in Amounts, choice \in {0, 1}, utxos \in PlayerWallets :
          PlaceBet(b, amount, choice, utxos) /\ utxos # <<>> /\ PlaceBetFunded(utxos, amount)
             => form'[b] = "signing"]_vars

\* "Result = hash[0] % 2 (0 = heads, 1 = tails)": a reveal never pays the
\* house when the byte names the side the player chose.
EveryByteHasASide ==
    \A b \in Bets : settled[b] # Unsettled /\ settled[b].tx.signer = "house" =>
        (Side(settled[b].byte) = settled[b].box.playerChoice => settled[b].tx.to # House)

=============================================================================
