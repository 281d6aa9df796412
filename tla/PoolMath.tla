------------------------------ MODULE PoolMath ------------------------------
(***************************************************************************)
(* The share arithmetic of the liquidity pool, as the SDK                  *)
(* (sdk/src/pool/BankrollPool.ts, bigint division) and the backend         *)
(* (pool_manager.py, Decimal rounded down) compute it: both truncate, and  *)
(* all quantities are non-negative, so both are \div.                      *)
(***************************************************************************)
EXTENDS Integers

\* Variant: rounds in favour of the depositor.
calculateDepositShares_Up(depositAmount, totalValue, totalSupply) ==
    IF totalSupply = 0 \/ totalValue = 0
    THEN depositAmount
    ELSE (depositAmount * totalSupply + totalValue - 1) \div totalValue

\* Deposit: newShares = depositAmount * totalSupply / totalValue, and one
\* share per nanoERG while there is no value or no share.
calculateDepositShares(depositAmount, totalValue, totalSupply) ==
    IF totalSupply = 0 \/ totalValue = 0
    THEN depositAmount
    ELSE (depositAmount * totalSupply) \div totalValue

\* Variant: rounds in favour of the holder.
calculateWithdrawErg_Up(burnAmount, totalValue, totalSupply) ==
    IF totalSupply = 0 THEN 0
    ELSE (burnAmount * totalValue + totalSupply - 1) \div totalSupply

\* Withdrawal: ERG = burnAmount * totalValue / totalSupply.
calculateWithdrawErg(burnAmount, totalValue, totalSupply) ==
    IF totalSupply = 0 THEN 0 ELSE (burnAmount * totalValue) \div totalSupply

\* The inverse the backend uses to burn for a desired amount.
calculateSharesToBurn(desiredErg, totalValue, totalSupply) ==
    IF totalValue = 0 \/ totalSupply = 0
    THEN 0
    ELSE (desiredErg * totalSupply) \div totalValue

\* Variant: the floor is forgotten.
Capped_ByBankroll(erg, bankroll, minPoolValue) == IF erg < bankroll THEN erg ELSE bankroll

\* What a withdrawal may take of the bankroll: the rest is the anti-drain floor.
Capped(erg, bankroll, minPoolValue) ==
    LET room == IF bankroll > minPoolValue THEN bankroll - minPoolValue ELSE 0
    IN  IF erg < room THEN erg ELSE room

=============================================================================
