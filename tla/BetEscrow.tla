----------------------------- MODULE BetEscrow ------------------------------
(***************************************************************************)
(* What the coinflip promises about one bet, without blocks, transactions  *)
(* or registers: a stake put in escrow leaves it once, and in one of three *)
(* ways -- the player is paid the win, the house takes the stake, or, only *)
(* when the bet is overdue, the player is refunded.  It is the lifecycle   *)
(* placed -> revealed / refunded of backend/game_events.py and the "two    *)
(* spending paths" of coinflip_v2.es, and Coinflip implements it.          *)
(***************************************************************************)
EXTENDS Integers

CONSTANTS Bets,      \* bet identifiers
          Stakes     \* the values a bet may have

VARIABLES phase,     \* [Bets -> Phases]
          stake,     \* [Bets -> Stakes \cup {0}], 0 before the bet is open
          overdue,   \* bets whose timeout height has come
          toPlayer,  \* [Bets -> Nat], what the player has received
          toHouse    \* [Bets -> Nat], what the house has received

vars == <<phase, stake, overdue, toPlayer, toHouse>>

Phases == {"none", "open", "won", "lost", "refunded"}

Init ==
    /\ phase = [b \in Bets |-> "none"]
    /\ stake = [b \in Bets |-> 0]
    /\ overdue = {}
    /\ toPlayer = [b \in Bets |-> 0]
    /\ toHouse = [b \in Bets |-> 0]

\* The stake enters escrow; a bet that waited long to be mined may be
\* overdue the moment it opens.
Open(b) ==
    /\ phase[b] = "none"
    /\ phase' = [phase EXCEPT ![b] = "open"]
    /\ \E s \in Stakes : stake' = [stake EXCEPT ![b] = s]
    /\ overdue' \in {overdue, overdue \cup {b}}
    /\ UNCHANGED <<toPlayer, toHouse>>

Expire ==
    /\ \E S \in SUBSET {b \in Bets : phase[b] = "open"} :
          S # {} /\ overdue' = overdue \cup S
    /\ UNCHANGED <<phase, stake, toPlayer, toHouse>>

\* The player is paid 97/50 of the stake, rounded down.
Win(b) ==
    /\ phase[b] = "open"
    /\ phase' = [phase EXCEPT ![b] = "won"]
    /\ toPlayer' = [toPlayer EXCEPT ![b] = (stake[b] * 97) \div 50]
    /\ UNCHANGED <<stake, overdue, toHouse>>

Lose(b) ==
    /\ phase[b] = "open"
    /\ phase' = [phase EXCEPT ![b] = "lost"]
    /\ toHouse' = [toHouse EXCEPT ![b] = stake[b]]
    /\ UNCHANGED <<stake, overdue, toPlayer>>

\* Only an overdue bet is refunded, less a fiftieth of the stake.
Refund(b) ==
    /\ phase[b] = "open"
    /\ b \in overdue
    /\ phase' = [phase EXCEPT ![b] = "refunded"]
    /\ toPlayer' = [toPlayer EXCEPT ![b] = stake[b] - (stake[b] \div 50)]
    /\ UNCHANGED <<stake, overdue, toHouse>>

Next ==
    \/ Expire
    \/ \E b \in Bets : Open(b) \/ Win(b) \/ Lose(b) \/ Refund(b)

Spec == Init /\ [][Next]_vars

=============================================================================
