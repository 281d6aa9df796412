---------------------------- MODULE MCErgoWallet ----------------------------
(* Small instances of ErgoWallet for TLC. *)
EXTENDS ErgoWallet, TLC

\* Wallets, connects and restores are told apart by nothing but their state.
Symmetry == Permutations(Wallets) \cup Permutations(Connects) \cup Permutations(Restores)

=============================================================================
