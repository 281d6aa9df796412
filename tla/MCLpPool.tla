------------------------------ MODULE MCLpPool ------------------------------
(***************************************************************************)
(* A pool of 4 nanoERG and 4 shares.  The provider who holds them asks for *)
(* one or two withdrawals, or a second one deposits; two more calls        *)
(* execute both requests, or execute or cancel one of them twice.          *)
(***************************************************************************)
EXTENDS LpPool, TLC

CONSTANTS l1, l2, c1, c2, c3, c4

MCPool == [value |-> 4, supply |-> 4, minDeposit |-> 1, cooldown |-> 1]
MCWallets == (l1 :> 4) @@ (l2 :> 0)
MCParams == {<<2, 1>>}
Ask(l, n) == [kind |-> "request", lp |-> l, amount |-> n]
Pay(l, n) == [kind |-> "deposit", lp |-> l, amount |-> n]
Execute(c) == [kind |-> "execute", id |-> c]
Cancel(c) == [kind |-> "cancel", id |-> c]
MCBodies(c) ==
    CASE c = c1 -> {Ask(l1, 2)}
      [] c = c2 -> {Ask(l1, 1), Pay(l2, 2)}
      [] c = c3 -> {Execute(c1)}
      [] c = c4 -> {Execute(c1), Execute(c2), Cancel(c1)}
=============================================================================
