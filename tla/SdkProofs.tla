----------------------------- MODULE SdkProofs ------------------------------
(***************************************************************************)
(* Proofs about the parts the SDK has in common with the backends: the     *)
(* bankroll pool, the transaction builder, and the registers of boxes that *)
(* every part writes and reads.                                            *)
(*                                                                         *)
(* The pool: the rounding of the share arithmetic favours those who stay,  *)
(* hence a share loses value only to a quote whose pool has moved.  The    *)
(* registers: what the SDK reads of a register is the value that was       *)
(* written, part by part from its end.                                     *)
(***************************************************************************)
EXTENDS LpPool, Interop, TxBuilder, DataProofs, SequenceTheorems

-----------------------------------------------------------------------------
(* The share arithmetic.                                                   *)

LEMMA DivFloor ==
    ASSUME NEW a \in Nat, NEW b \in Nat, b > 0
    PROVE  /\ a \div b \in Nat
           /\ (a \div b) * b <= a
           /\ a < (a \div b) * b + b
OBVIOUS

LEMMA MulMonotone ==
    ASSUME NEW a \in Nat, NEW b \in Nat, NEW k \in Nat, a <= b
    PROVE  /\ a * k \in Nat /\ b * k \in Nat
           /\ a * k <= b * k
OBVIOUS

LEMMA MulCancel ==
    ASSUME NEW a \in Nat, NEW b \in Nat, NEW k \in Nat, k > 0, a * k <= b * k
    PROVE  a <= b
OBVIOUS

\* Rates compose: if v/s is at most p/q and p/q at most x/y, v/s is at most x/y.
LEMMA RateTransitive ==
    ASSUME NEW v \in Nat, NEW s \in Nat, NEW p \in Nat, NEW q \in Nat, q > 0,
           NEW x \in Nat, NEW y \in Nat, v * q <= p * s, p * y <= x * q
    PROVE  v * y <= x * s
<1>1. v * q \in Nat /\ p * s \in Nat /\ p * y \in Nat /\ x * q \in Nat /\ v * y \in Nat /\ x * s \in Nat
  OBVIOUS
<1>2. (v * q) * y <= (p * s) * y
  BY <1>1, MulMonotone
<1>3. (p * y) * s <= (x * q) * s
  BY <1>1, MulMonotone
<1>4. (v * q) * y = (v * y) * q /\ (p * s) * y = (p * y) * s /\ (x * q) * s = (x * s) * q
  OBVIOUS
<1>5. (v * y) * q <= (x * s) * q
  <2>1. (v * y) * q \in Nat /\ (p * y) * s \in Nat /\ (x * s) * q \in Nat
    BY <1>1
  <2> QED BY <2>1, <1>2, <1>3, <1>4
<1> QED BY <1>1, <1>5, MulCancel

\* A deposit mints no more shares than it is worth.
THEOREM DepositMintsAtMostItsWorth ==
    ASSUME NEW a \in Nat, NEW V \in Nat \ {0}, NEW S \in Nat \ {0}
    PROVE  /\ calculateDepositShares(a, V, S) \in Nat
           /\ calculateDepositShares(a, V, S) * V <= a * S
<1>1. a * S \in Nat
  OBVIOUS
<1>2. calculateDepositShares(a, V, S) = (a * S) \div V
  BY DEF calculateDepositShares
<1> QED BY <1>1, <1>2, DivFloor

\* A withdrawal pays no more than the burned shares are worth.
THEOREM WithdrawalPaysAtMostItsWorth ==
    ASSUME NEW b \in Nat, NEW V \in Nat, NEW S \in Nat \ {0}
    PROVE  /\ calculateWithdrawErg(b, V, S) \in Nat
           /\ calculateWithdrawErg(b, V, S) * S <= b * V
<1>1. b * V \in Nat
  OBVIOUS
<1>2. calculateWithdrawErg(b, V, S) = (b * V) \div S
  BY DEF calculateWithdrawErg
<1> QED BY <1>1, <1>2, DivFloor

\* Burning the shares computed for an amount never pays more than the amount:
\* estimate_withdraw_for_erg cannot overpay.
THEOREM BurningForAnAmountPaysAtMostIt ==
    ASSUME NEW d \in Nat, NEW V \in Nat \ {0}, NEW S \in Nat \ {0}
    PROVE  calculateWithdrawErg(calculateSharesToBurn(d, V, S), V, S) <= d
<1> DEFINE b == calculateSharesToBurn(d, V, S)
           e == calculateWithdrawErg(b, V, S)
<1>1. b \in Nat /\ b * V <= d * S
  <2>1. b = (d * S) \div V /\ d * S \in Nat
    BY DEF calculateSharesToBurn
  <2> QED BY <2>1, DivFloor
<1>2. e \in Nat /\ e * S <= b * V
  BY <1>1, WithdrawalPaysAtMostItsWorth
<1>3. e * S <= d * S
  BY <1>1, <1>2
<1> HIDE DEF b, e
<1>4. e <= d
  BY <1>2, <1>3, MulCancel
<1> QED BY <1>4 DEF e, b

\* Depositing and withdrawing at once gains nothing: the depositor gets back
\* at most what was paid.
THEOREM RoundTripGainsNothing ==
    ASSUME NEW a \in Nat, NEW V \in Nat \ {0}, NEW S \in Nat \ {0}
    PROVE  LET s == calculateDepositShares(a, V, S)
           IN  calculateWithdrawErg(s, V + a, S + s) <= a
<1> DEFINE s == calculateDepositShares(a, V, S)
           e == calculateWithdrawErg(s, V + a, S + s)
<1>1. s \in Nat /\ s * V <= a * S
  BY DepositMintsAtMostItsWorth
<1> HIDE DEF s
<1>2. e \in Nat /\ e * (S + s) <= s * (V + a)
  <2>1. V + a \in Nat /\ S + s \in Nat \ {0}
    BY <1>1
  <2> QED BY <1>1, <2>1, WithdrawalPaysAtMostItsWorth
<1>3. s * (V + a) <= a * (S + s)
  <2>1. s * (V + a) = s * V + s * a /\ a * (S + s) = a * S + a * s /\ s * a = a * s
    BY <1>1
  <2>2. s * V \in Nat /\ a * S \in Nat /\ a * s \in Nat
    BY <1>1
  <2> QED BY <1>1, <2>1, <2>2
<1> HIDE DEF e
<1>4. e * (S + s) <= a * (S + s)
  BY <1>1, <1>2, <1>3
<1>5. e <= a
  BY <1>1, <1>2, <1>4, MulCancel
<1> QED BY <1>5 DEF e, s

LEMMA CappedBound ==
    ASSUME NEW e \in Nat, NEW b \in Nat, NEW m \in Nat
    PROVE  /\ Capped(e, b, m) \in Nat
           /\ Capped(e, b, m) <= e
           /\ Capped(e, b, m) > 0 => b - Capped(e, b, m) >= m
BY DEF Capped

-----------------------------------------------------------------------------
(* What the steps of the pool keep.                                        *)

Pools == [value : Nat \ {0}, supply : Nat \ {0}, minDeposit : Nat, cooldown : Nat]

\* The invariant of a call the step does not touch.
LEMMA CallKept ==
    ASSUME TypeOK,
           \A c \in Calls : request[c] # None => request'[c] = request[c],
           NEW c \in Calls, CallInv(c), pc'[c] = pc[c], op'[c] = op[c], seen'[c] = seen[c],
           tx'[c] = tx[c], request'[c] = request[c]
    PROVE  CallInv(c)'
<1>1. ASSUME NEW t \in Txs, CoveredTx(t, request) PROVE CoveredTx(t, request')
  <2>1. t.kind \in {"execute", "cancel"} => t.id \in Calls
    BY DEF Txs
  <2> QED BY <1>1, <2>1 DEF CoveredTx, Txs
<1> QED BY <1>1 DEF CallInv

-----------------------------------------------------------------------------
(* The steps.                                                              *)

LEMMA InitIInv == Init => IInv
<1> SUFFICES ASSUME Init PROVE IInv
  OBVIOUS
<1>1. TypeOK
  BY LpPoolAssumption DEF Init, TypeOK
<1>2. ASSUME NEW c \in Calls PROVE CallInv(c)
  BY DEF Init, CallInv
<1> QED BY <1>1, <1>2 DEF Init, IInv

\* A call is served from the cache or asks the node.
LEMMA EnterIInv ==
    ASSUME IInv, NEW c \in Calls, NEW o \in Bodies(c), Enter(c, o)
    PROVE  IInv' /\ pool' = pool
<1> USE DEF chain
<1>1. o \in Ops
  BY BodiesAssumption
<1>2. pool' = pool /\ request' = request /\ cache' = cache /\ tx' = tx
  BY DEF Enter
<1>3. TypeOK'
  BY <1>1 DEF IInv, TypeOK, Enter, Cached
<1>4. CallInv(c)'
  BY <1>1, <1>2 DEF IInv, TypeOK, Enter, Cached, CallInv
<1>5. ASSUME NEW d \in Calls, d # c PROVE CallInv(d)'
  <2>1. pc'[d] = pc[d] /\ op'[d] = op[d] /\ seen'[d] = seen[d]
    BY <1>5 DEF IInv, TypeOK, Enter
  <2> QED BY <1>2, <2>1, CallKept DEF IInv
<1> QED BY <1>2, <1>3, <1>4, <1>5 DEF IInv

\* What the node answers is the pool of now.
LEMMA NodeAnswersIInv ==
    ASSUME IInv, NEW c \in Calls, NodeAnswers(c)
    PROVE  IInv' /\ pool' = pool
<1> USE DEF chain
<1>1. pool' = pool /\ request' = request /\ cache' = cache /\ tx' = tx /\ op' = op
  BY DEF NodeAnswers
<1>2. seen'[c] \in States
  BY DEF IInv, TypeOK, NodeAnswers, States
<1>3. TypeOK'
  BY <1>2 DEF IInv, TypeOK, NodeAnswers, States
<1>4. CallInv(c)'
  BY <1>1, <1>2 DEF IInv, TypeOK, NodeAnswers, CallInv
<1>5. ASSUME NEW d \in Calls, d # c PROVE CallInv(d)'
  <2>1. pc'[d] = pc[d] /\ seen'[d] = seen[d]
    BY <1>5 DEF IInv, TypeOK, NodeAnswers
  <2> QED BY <1>1, <2>1, CallKept DEF IInv
<1> QED BY <1>1, <1>3, <1>4, <1>5 DEF IInv

LEMMA StoreIInv ==
    ASSUME IInv, NEW c \in Calls, Store(c)
    PROVE  IInv' /\ pool' = pool
<1> USE DEF chain
<1>1. pool' = pool /\ request' = request /\ tx' = tx /\ op' = op /\ seen' = seen
  BY DEF Store
<1>2. seen[c] \in States
  BY DEF IInv, CallInv, Store
<1>3. TypeOK'
  BY <1>2 DEF IInv, TypeOK, Store
<1>4. CallInv(c)'
  BY <1>1, <1>2 DEF IInv, TypeOK, Store, CallInv
<1>5. ASSUME NEW d \in Calls, d # c PROVE CallInv(d)'
  <2>1. pc'[d] = pc[d]
    BY <1>5 DEF IInv, TypeOK, Store
  <2> QED BY <1>1, <2>1, CallKept DEF IInv
<1> QED BY <1>1, <1>3, <1>4, <1>5 DEF IInv

\* A call that ends: what is built must be covered.
LEMMA EndIInv ==
    ASSUME IInv, NEW c \in Calls, NEW stage \in {"built", "done"}, End(c, stage),
           pc[c] \in {"fetch", "ready"},
           tx' \in [Calls -> Txs \cup {None}],
           \A d \in Calls : d # c => tx'[d] = tx[d],
           stage = "built" => tx'[c] \in Txs /\ CoveredTx(tx'[c], request)
    PROVE  IInv' /\ pool' = pool
<1> USE DEF chain
<1>1. pool' = pool /\ request' = request /\ cache' = cache
  BY DEF End
<1>2. TypeOK'
  BY DEF IInv, TypeOK, End
<1>3. CallInv(c)'
  <2>1. pc'[c] = stage
    BY DEF IInv, TypeOK, End
  <2>2. request[c] = None
    BY DEF IInv, CallInv
  <2> QED BY <1>1, <2>1, <2>2 DEF CallInv
<1>4. ASSUME NEW d \in Calls, d # c PROVE CallInv(d)'
  <2>1. pc'[d] = pc[d] /\ op'[d] = op[d] /\ seen'[d] = seen[d] /\ tx'[d] = tx[d]
    BY <1>4 DEF IInv, TypeOK, End
  <2> QED BY <1>1, <2>1, CallKept DEF IInv
<1> QED BY <1>1, <1>2, <1>3, <1>4 DEF IInv

LEMMA AnswerIInv ==
    ASSUME IInv, NEW c \in Calls, NEW t \in Txs, CoveredTx(t, request),
           pc[c] = "ready", tx' = [tx EXCEPT ![c] = t], End(c, "built")
    PROVE  IInv' /\ pool' = pool
<1>1. tx' \in [Calls -> Txs \cup {None}]
  BY DEF IInv, TypeOK
<1>2. tx'[c] = t /\ \A d \in Calls : d # c => tx'[d] = tx[d]
  BY DEF IInv, TypeOK
<1> QED BY <1>1, <1>2, EndIInv

\* What the routes quote is covered by the state they saw.
LEMMA BuildIInv ==
    ASSUME IInv, NEW c \in Calls,
           BuildDeposit(c) \/ BuildRequest(c) \/ BuildExecute(c) \/ BuildCancel(c)
    PROVE  IInv' /\ pool' = pool
<1> DEFINE s == seen[c]
           o == op[c]
           m == MIN_POOL_VALUE_NANOERG
<1>1. m \in Nat
  BY LpPoolAssumption
<1>2. o \in Ops /\ pc[c] = "ready"
  BY DEF IInv, CallInv, BuildDeposit, BuildRequest, BuildExecute, BuildCancel
<1>3. o.kind # "cancel" =>
        /\ s.value \in Nat \ {0} /\ s.supply \in Nat \ {0} /\ s.cooldown \in Nat
        /\ Basis(s) \in Bases /\ Basis(s).value = s.value /\ Basis(s).supply = s.supply
  <2>1. o.kind # "cancel" => s \in States
    BY <1>2 DEF IInv, CallInv
  <2> QED BY <2>1 DEF States, Basis, Bases
<1>4. CASE BuildDeposit(c)
  <2> DEFINE shares == calculateDepositShares(o.amount, s.value, s.supply)
             t == [kind |-> "deposit", lp |-> o.lp, amount |-> o.amount, shares |-> shares,
                   basis |-> Basis(s)]
  <2>1. o.kind = "deposit" /\ tx' = [tx EXCEPT ![c] = t] /\ End(c, "built")
    BY <1>4 DEF BuildDeposit, Answer
  <2>2. o.lp \in Lps /\ o.amount \in Nat
    BY <1>2, <2>1 DEF Ops
  <2>3. shares \in Nat /\ shares * s.value <= o.amount * s.supply
    BY <1>3, <2>1, <2>2, DepositMintsAtMostItsWorth
  <2> HIDE DEF shares
  <2>4. t \in Txs
    BY <1>3, <2>1, <2>2, <2>3 DEF Txs
  <2>5. CoveredTx(t, request)
    BY <1>3, <2>1, <2>3 DEF CoveredTx
  <2> QED BY <1>2, <2>1, <2>4, <2>5, AnswerIInv
<1>5. CASE BuildRequest(c)
  <2> DEFINE full == calculateWithdrawErg(o.amount, s.value, s.supply)
             erg == Capped(full, s.value, m)
             t == [kind |-> "request", lp |-> o.lp, amount |-> o.amount, erg |-> erg,
                   at |-> height, cooldown |-> s.cooldown, basis |-> Basis(s)]
  <2>1. o.kind = "request" /\ tx' = [tx EXCEPT ![c] = t] /\ End(c, "built")
    BY <1>5 DEF BuildRequest, Answer
  <2>2. o.lp \in Lps /\ o.amount \in Nat \ {0} /\ height \in Nat
    BY <1>2, <2>1 DEF Ops, IInv, TypeOK
  <2>3. full \in Nat /\ full * s.supply <= o.amount * s.value
    BY <1>3, <2>1, <2>2, WithdrawalPaysAtMostItsWorth
  <2>4. erg \in Nat /\ erg <= full
    BY <1>1, <1>3, <2>1, <2>3, CappedBound
  <2> HIDE DEF full, erg
  <2>5. t \in Txs
    BY <1>3, <2>1, <2>2, <2>4 DEF Txs
  <2>6. erg * s.supply <= o.amount * s.value
    <3>1. erg * s.supply <= full * s.supply
      BY <1>3, <2>1, <2>3, <2>4, MulMonotone
    <3>2. erg * s.supply \in Nat /\ full * s.supply \in Nat /\ o.amount * s.value \in Nat
      BY <1>3, <2>1, <2>2, <2>3, <2>4
    <3> QED BY <2>3, <3>1, <3>2
  <2>7. CoveredTx(t, request)
    BY <1>3, <2>1, <2>6 DEF CoveredTx
  <2> QED BY <1>2, <2>1, <2>5, <2>7, AnswerIInv
<1>6. CASE BuildExecute(c)
  <2> DEFINE r == request[o.id]
             erg == Capped(r.erg, s.value, m)
             t == [kind |-> "execute", id |-> o.id, basis |-> Basis(s), erg |-> erg]
  <2>1. o.kind = "execute" /\ tx' = [tx EXCEPT ![c] = t] /\ End(c, "built") /\ r # None
    BY <1>6 DEF BuildExecute, Answer
  <2>2. o.id \in Calls
    BY <1>2, <2>1 DEF Ops
  <2>3. r.erg \in Nat
    BY <2>1, <2>2 DEF IInv, TypeOK, Requests
  <2>4. erg \in Nat /\ erg <= r.erg /\ (erg > 0 => s.value - erg >= m)
    BY <1>1, <1>3, <2>1, <2>3, CappedBound
  <2> HIDE DEF erg
  <2>5. t \in Txs
    BY <1>3, <2>1, <2>2, <2>4 DEF Txs
  <2>6. CoveredTx(t, request)
    BY <1>3, <2>1, <2>4 DEF CoveredTx
  <2> QED BY <1>2, <2>1, <2>5, <2>6, AnswerIInv
<1>7. CASE BuildCancel(c)
  <2> DEFINE t == [kind |-> "cancel", id |-> o.id]
  <2>1. o.kind = "cancel" /\ tx' = [tx EXCEPT ![c] = t] /\ End(c, "built") /\ request[o.id] # None
    BY <1>7 DEF BuildCancel, Answer
  <2>2. t \in Txs
    BY <1>2, <2>1 DEF Txs, Ops
  <2>3. CoveredTx(t, request)
    BY <2>1 DEF CoveredTx
  <2> QED BY <1>2, <2>1, <2>2, <2>3, AnswerIInv
<1> QED BY <1>4, <1>5, <1>6, <1>7

-----------------------------------------------------------------------------
(* The steps of the chain.                                                 *)

LEMMA NextBoxType ==
    ASSUME pool \in Pools, NEW v, NEW s
    PROVE  /\ v \in Nat \ {0} /\ s \in Nat \ {0} => NextBox(v, s) \in Pools
           /\ NextBox(v, s).value = v /\ NextBox(v, s).supply = s
BY DEF NextBox, Pools

\* A transaction is included: the rest of the invariant follows for every
\* call the step leaves alone.
LEMMA IncludedIInv ==
    ASSUME IInv, NEW c \in Calls, pc[c] = "built", Included(c),
           pool' \in Pools, wallet' \in [Lps -> Nat], reserve' \in Nat,
           request' \in [Calls -> Requests \cup {None}], spent' \in SUBSET Calls,
           \A d \in Calls \ {c} : request'[d] = request[d],
           request'[c] # None =>
              request'[c].erg * request'[c].basis.supply <= request'[c].lp * request'[c].basis.value
    PROVE  IInv'
<1>1. /\ cache' = cache /\ op' = op /\ seen' = seen /\ since' = since
      /\ height' = height /\ clock' = clock
      /\ pc' = [pc EXCEPT ![c] = "done"] /\ tx' = [tx EXCEPT ![c] = None]
  BY DEF Included, backend
<1>2. TypeOK'
  BY <1>1 DEF IInv, TypeOK, Pools
<1>3. pc'[c] = "done" /\ \A d \in Calls \ {c} : pc'[d] = pc[d] /\ tx'[d] = tx[d]
  BY <1>1 DEF IInv, TypeOK
<1>4. request[c] = None
  BY DEF IInv, CallInv
<1>5. ASSUME NEW d \in Calls PROVE CallInv(d)'
  <2>1. CASE d = c
    BY <1>3, <2>1 DEF CallInv
  <2>2. CASE d # c
    <3>1. \A e \in Calls : request[e] # None => request'[e] = request[e]
      BY <1>4
    <3> QED BY <1>1, <1>3, <2>2, <3>1, CallKept DEF IInv
  <2> QED BY <2>1, <2>2
<1> QED BY <1>2, <1>5 DEF IInv

\* What an included deposit does.
LEMMA DepositStep ==
    ASSUME IInv, NEW c \in Calls, IncludeDeposit(c)
    PROVE  LET t == tx[c]
           IN  /\ t \in Txs /\ t.amount \in Nat /\ t.shares \in Nat /\ t.lp \in Lps
               /\ t.basis \in Bases /\ t.shares * t.basis.value <= t.amount * t.basis.supply
               /\ pool \in Pools /\ pool' \in Pools
               /\ pool'.value = pool.value + t.amount /\ pool'.supply = pool.supply + t.shares
               /\ IsIncluded(c, "deposit")
<1> DEFINE t == tx[c]
<1>1. pc[c] = "built" /\ t.kind = "deposit" /\ Included(c)
      /\ pool' = NextBox(pool.value + t.amount, pool.supply + t.shares)
  BY DEF IncludeDeposit
<1>2. t \in Txs /\ CoveredTx(t, request)
  BY <1>1 DEF IInv, CallInv
<1>3. t.amount \in Nat /\ t.shares \in Nat /\ t.lp \in Lps /\ t.basis \in Bases
  BY <1>1, <1>2 DEF Txs
<1>4. pool \in Pools /\ pool.value \in Nat \ {0} /\ pool.supply \in Nat \ {0}
  BY DEF IInv, TypeOK, Pools
<1>5. pool.value + t.amount \in Nat \ {0} /\ pool.supply + t.shares \in Nat \ {0}
  BY <1>3, <1>4
<1>6. pc'[c] = "done"
  BY <1>1 DEF Included, IInv, TypeOK
<1> QED BY <1>1, <1>2, <1>3, <1>4, <1>5, <1>6, NextBoxType DEF CoveredTx, IsIncluded

LEMMA IncludeDepositIInv ==
    ASSUME IInv, NEW c \in Calls, IncludeDeposit(c)
    PROVE  IInv'
<1>1. /\ pc[c] = "built" /\ Included(c) /\ request' = request /\ spent' = spent
      /\ wallet' = [wallet EXCEPT ![tx[c].lp] = @ + tx[c].shares]
      /\ 2 * tx[c].shares <= reserve /\ reserve' = reserve - 2 * tx[c].shares
  BY DEF IncludeDeposit
<1>2. tx[c].shares \in Nat /\ tx[c].lp \in Lps /\ pool' \in Pools
  BY DepositStep
<1>3. wallet' \in [Lps -> Nat] /\ reserve' \in Nat
  BY <1>1, <1>2 DEF IInv, TypeOK
<1>4. request[c] = None
  BY <1>1 DEF IInv, CallInv
<1> QED BY <1>1, <1>2, <1>3, <1>4, IncludedIInv DEF IInv, TypeOK

\* What an included execution does.
LEMMA ExecuteStep ==
    ASSUME IInv, NEW c \in Calls, IncludeExecute(c)
    PROVE  LET t == tx[c]
               r == request[t.id]
           IN  /\ t.erg \in Nat \ {0} /\ t.id \in Calls /\ t.basis \in Bases
               /\ r \in Requests /\ t.erg <= r.erg
               /\ r.erg * r.basis.supply <= r.lp * r.basis.value
               /\ t.basis.value - t.erg >= MIN_POOL_VALUE_NANOERG
               /\ pool \in Pools /\ pool' \in Pools
               /\ pool'.value = pool.value - t.erg /\ pool'.supply = pool.supply - r.lp
               /\ IsIncluded(c, "execute")
<1> DEFINE t == tx[c]
           r == request[t.id]
<1>1. /\ pc[c] = "built" /\ t.kind = "execute" /\ Included(c) /\ isWithdraw(pool', {t.id})
      /\ pool' = NextBox(pool.value - t.erg, pool.supply - r.lp)
  BY DEF IncludeExecute
<1>2. t \in Txs /\ CoveredTx(t, request)
  BY <1>1 DEF IInv, CallInv
<1>3. t.erg \in Nat /\ t.id \in Calls /\ t.basis \in Bases
  BY <1>1, <1>2 DEF Txs
<1>4. /\ r # None /\ t.erg <= r.erg
      /\ t.erg > 0 => t.basis.value - t.erg >= MIN_POOL_VALUE_NANOERG
  BY <1>1, <1>2 DEF CoveredTx
<1>5. r \in Requests /\ r.erg * r.basis.supply <= r.lp * r.basis.value
  BY <1>3, <1>4 DEF IInv, TypeOK, CallInv
<1>6. r.lp \in Nat
  BY <1>5 DEF Requests
<1>7. pool \in Pools /\ pool.value \in Nat \ {0} /\ pool.supply \in Nat \ {0}
  BY DEF IInv, TypeOK, Pools
<1>8. pool'.value = pool.value - t.erg /\ pool'.supply = pool.supply - r.lp
  BY <1>1, <1>7, NextBoxType
<1>9. t.erg > 0 /\ pool.value - t.erg \in Nat \ {0} /\ pool.supply - r.lp \in Nat \ {0}
  BY <1>1, <1>3, <1>6, <1>7, <1>8 DEF isWithdraw
<1>10. pool' \in Pools
  BY <1>1, <1>7, <1>9, NextBoxType
<1>11. pc'[c] = "done"
  BY <1>1 DEF Included, IInv, TypeOK
<1> QED BY <1>1, <1>3, <1>4, <1>5, <1>7, <1>8, <1>9, <1>10, <1>11 DEF IsIncluded

LEMMA IncludeExecuteIInv ==
    ASSUME IInv, NEW c \in Calls, IncludeExecute(c)
    PROVE  IInv'
<1>1. /\ pc[c] = "built" /\ Included(c) /\ request' = request /\ spent' = spent \cup {tx[c].id}
      /\ wallet' = wallet /\ reserve' = reserve
  BY DEF IncludeExecute
<1>2. tx[c].id \in Calls /\ pool' \in Pools
  BY ExecuteStep
<1>3. request[c] = None
  BY <1>1 DEF IInv, CallInv
<1> QED BY <1>1, <1>2, <1>3, IncludedIInv DEF IInv, TypeOK

LEMMA IncludeRequestIInv ==
    ASSUME IInv, NEW c \in Calls, IncludeRequest(c)
    PROVE  IInv'
<1> DEFINE t == tx[c]
           r == [holder |-> t.lp, lp |-> t.amount, erg |-> t.erg, at |-> t.at,
                 cooldown |-> t.cooldown, basis |-> t.basis]
<1>1. /\ pc[c] = "built" /\ t.kind = "request" /\ t.amount <= wallet[t.lp]
      /\ wallet' = [wallet EXCEPT ![t.lp] = @ - t.amount]
      /\ request' = [request EXCEPT ![c] = r]
      /\ Included(c) /\ pool' = pool /\ reserve' = reserve /\ spent' = spent
  BY DEF IncludeRequest
<1>2. t \in Txs /\ CoveredTx(t, request)
  BY <1>1 DEF IInv, CallInv
<1>3. r \in Requests /\ t.lp \in Lps /\ t.amount \in Nat
  BY <1>1, <1>2 DEF Txs, Requests
<1>4. r.erg * r.basis.supply <= r.lp * r.basis.value
  BY <1>1, <1>2 DEF CoveredTx
<1>5. wallet' \in [Lps -> Nat]
  BY <1>1, <1>3 DEF IInv, TypeOK
<1>6. /\ request' \in [Calls -> Requests \cup {None}] /\ request'[c] = r
      /\ \A d \in Calls \ {c} : request'[d] = request[d]
  BY <1>1, <1>3 DEF IInv, TypeOK
<1> HIDE DEF r
<1> QED BY <1>1, <1>4, <1>5, <1>6, IncludedIInv DEF IInv, TypeOK, Pools

LEMMA IncludeCancelIInv ==
    ASSUME IInv, NEW c \in Calls, IncludeCancel(c)
    PROVE  IInv'
<1> DEFINE t == tx[c]
           r == request[t.id]
<1>1. /\ pc[c] = "built" /\ t.id \in Open /\ Included(c)
      /\ wallet' = [wallet EXCEPT ![r.holder] = @ + r.lp]
      /\ spent' = spent \cup {t.id} /\ request' = request /\ pool' = pool /\ reserve' = reserve
  BY DEF IncludeCancel
<1>2. t.id \in Calls /\ r \in Requests
  BY <1>1 DEF Open, IInv, TypeOK
<1>3. wallet' \in [Lps -> Nat]
  BY <1>1, <1>2 DEF IInv, TypeOK, Requests
<1>4. request[c] = None
  BY <1>1 DEF IInv, CallInv
<1> QED BY <1>1, <1>2, <1>3, <1>4, IncludedIInv DEF IInv, TypeOK, Pools

\* The house adds to the pool or leaves its value as it is.
LEMMA HouseStep ==
    ASSUME IInv, HouseSpends
    PROVE  /\ pool \in Pools /\ pool' \in Pools
           /\ pool'.supply = pool.supply /\ pool'.value >= pool.value
<1>1. pool \in Pools /\ pool.value \in Nat \ {0} /\ pool.supply \in Nat \ {0}
  BY DEF IInv, TypeOK, Pools
<1>2. CASE \E p \in Profits : pool' = NextBox(pool.value + p, pool.supply)
  <2>1. PICK p \in Profits : pool' = NextBox(pool.value + p, pool.supply)
    BY <1>2
  <2>2. p \in Nat
    BY LpPoolAssumption
  <2>3. pool.value + p \in Nat \ {0} /\ pool.value + p >= pool.value
    BY <1>1, <2>2
  <2> QED BY <1>1, <2>1, <2>3, NextBoxType
<1>3. CASE \E p \in Params : pool' = [pool EXCEPT !.minDeposit = p[1], !.cooldown = p[2]]
  <2>1. PICK p \in Params : pool' = [pool EXCEPT !.minDeposit = p[1], !.cooldown = p[2]]
    BY <1>3
  <2>2. p[1] \in Nat /\ p[2] \in Nat
    BY LpPoolAssumption
  <2> DEFINE q == [pool EXCEPT !.minDeposit = p[1], !.cooldown = p[2]]
  <2>3. q \in Pools
    BY <1>1, <2>2 DEF Pools
  <2>4. q.value = pool.value /\ q.supply = pool.supply
    BY <1>1 DEF Pools
  <2> HIDE DEF q
  <2> QED BY <1>1, <2>1, <2>3, <2>4 DEF q
<1> QED BY <1>2, <1>3 DEF HouseSpends

-----------------------------------------------------------------------------
(* The theorems.                                                           *)

\* Nothing the calls know changes.
LEMMA StutterIInv ==
    ASSUME IInv, request' = request, op' = op, seen' = seen, pc' = pc, tx' = tx, TypeOK'
    PROVE  IInv'
BY DEF IInv, CallInv

LEMMA RouteIInv ==
    ASSUME IInv, NEW c \in Calls, Route(c)
    PROVE  IInv' /\ pool' = pool
<1>1. CASE \E o \in Bodies(c) : Enter(c, o)
  BY <1>1, EnterIInv
<1>2. CASE NodeAnswers(c)
  BY <1>2, NodeAnswersIInv
<1>3. CASE Store(c)
  BY <1>3, StoreIInv
<1>4. CASE Fail(c)
  <2>1. End(c, "done") /\ tx' = tx /\ pc[c] \in {"fetch", "ready"}
    BY <1>4 DEF Fail
  <2>2. tx' \in [Calls -> Txs \cup {None}]
    BY <2>1 DEF IInv, TypeOK
  <2> QED BY <2>1, <2>2, EndIInv
<1>5. CASE BuildDeposit(c) \/ BuildRequest(c) \/ BuildExecute(c) \/ BuildCancel(c)
  BY <1>5, BuildIInv
<1> QED BY <1>1, <1>2, <1>3, <1>4, <1>5 DEF Route

LEMMA NextIInv ==
    ASSUME IInv, [Next]_vars
    PROVE  IInv'
<1> USE DEF chain, backend
<1>1. ASSUME NEW c \in Calls, Include(c) PROVE IInv'
  BY <1>1, IncludeDepositIInv, IncludeRequestIInv, IncludeExecuteIInv, IncludeCancelIInv DEF Include
<1>2. CASE HouseSpends
  <2>1. pool' \in Pools
    BY <1>2, HouseStep
  <2>2. TypeOK'
    BY <1>2, <2>1 DEF HouseSpends, IInv, TypeOK, Pools
  <2> QED BY <1>2, <2>2, StutterIInv DEF HouseSpends
<1>3. CASE NewBlock
  <2>1. TypeOK'
    BY <1>3 DEF NewBlock, IInv, TypeOK
  <2> QED BY <1>3, <2>1, StutterIInv DEF NewBlock
<1>4. CASE Tick
  <2>1. TypeOK'
    BY <1>4 DEF Tick, IInv, TypeOK
  <2> QED BY <1>4, <2>1, StutterIInv DEF Tick
<1>5. CASE UNCHANGED vars
  <2>1. TypeOK'
    BY <1>5 DEF vars, IInv, TypeOK
  <2> QED BY <1>5, <2>1, StutterIInv DEF vars
<1> QED BY <1>1, <1>2, <1>3, <1>4, <1>5, RouteIInv DEF Next

\* Every quote, from the route to the box that asks for it, stays covered by
\* the pool it was computed from.
THEOREM LpPoolInvariant == Spec => []IInv
<1>1. IInv /\ [Next]_vars => IInv'
  BY NextIInv
<1> QED BY <1>1, InitIInv, PTL DEF Spec

\* The types, for any pool, providers and parameters: the pool box never
\* runs out of value or shares.
THEOREM LpPoolTypes == Spec => []TypeOK
<1>1. IInv => TypeOK
  BY DEF IInv
<1> QED BY <1>1, LpPoolInvariant, PTL

\* The steps that spend the pool box.
LEMMA PoolChanges ==
    ASSUME IInv, [Next]_vars
    PROVE  \/ pool' = pool
           \/ HouseSpends
           \/ \E c \in Calls : IncludeDeposit(c) \/ IncludeExecute(c)
<1> USE DEF chain
<1>1. ASSUME NEW c \in Calls, Include(c), ~IncludeDeposit(c), ~IncludeExecute(c) PROVE pool' = pool
  BY <1>1 DEF Include, IncludeRequest, IncludeCancel
<1>2. CASE NewBlock \/ Tick \/ UNCHANGED vars
  BY <1>2 DEF NewBlock, Tick, vars
<1> QED BY <1>1, <1>2, RouteIInv DEF Next

\* A deposit of `a` for `n` shares quoted at bv / bs lowers the price V / S
\* only if the quote is below it, and never below the quote.
LEMMA DepositPrice ==
    ASSUME NEW V \in Nat, NEW S \in Nat, NEW a \in Nat, NEW n \in Nat,
           NEW bv \in Nat, NEW bs \in Nat \ {0},
           n * bv <= a * bs, (V + a) * S < V * (S + n)
    PROVE  bv * S < V * bs /\ bv * (S + n) <= (V + a) * bs
<1>1. /\ V * S \in Nat /\ a * S \in Nat /\ V * n \in Nat /\ bv * S \in Nat /\ V * bs \in Nat
      /\ n * bv \in Nat /\ a * bs \in Nat /\ bv * n \in Nat
  OBVIOUS
<1>2. (V + a) * S = V * S + a * S /\ V * (S + n) = V * S + V * n
  OBVIOUS
<1>3. a * S < V * n
  BY <1>1, <1>2
<1>4. bv * n = n * bv
  OBVIOUS
<1>5. bv * S < V * bs
  <2>1. CASE V * bs <= bv * S
    <3>1. V * n <= a * S
      BY <1>4, <2>1, RateTransitive
    <3> QED BY <1>1, <1>3, <3>1
  <2> QED BY <1>1, <2>1
<1>6. bv * (S + n) = bv * S + bv * n /\ (V + a) * bs = V * bs + a * bs
  OBVIOUS
<1> QED BY <1>1, <1>4, <1>5, <1>6

\* Paying `e` for `n` shares asked for at bv / bs lowers the price V / S only
\* if the quote is above it.
LEMMA ExecutePrice ==
    ASSUME NEW V \in Nat, NEW S \in Nat \ {0}, NEW e \in Nat, NEW r \in Nat, NEW n \in Nat,
           NEW bv \in Nat, NEW bs \in Nat \ {0},
           e <= r, r * bs <= n * bv, (V - e) * S < V * (S - n)
    PROVE  V * bs < bv * S
<1>1. /\ V * S \in Nat /\ e * S \in Nat /\ V * n \in Nat /\ bv * S \in Nat /\ V * bs \in Nat
      /\ n * bv \in Nat /\ e * bs \in Nat /\ bv * n \in Nat /\ r * bs \in Nat
  OBVIOUS
<1>2. (V - e) * S = V * S - e * S /\ V * (S - n) = V * S - V * n
  OBVIOUS
<1>3. V * n < e * S
  BY <1>1, <1>2
<1>4. e * bs <= bv * n
  <2>1. e * bs <= r * bs
    BY MulMonotone
  <2>2. bv * n = n * bv
    OBVIOUS
  <2> QED BY <1>1, <2>1, <2>2
<1>5. CASE bv * S <= V * bs
  <2>1. e * S <= V * n
    BY <1>4, <1>5, RateTransitive
  <2> QED BY <1>1, <1>3, <2>1
<1> QED BY <1>1, <1>5

\* A share loses value only to a quote the pool has moved away from, and a
\* deposit never brings it below its quote: for any providers, calls, floors,
\* cache times and profits.
THEOREM OnlyStaleQuotesEverCost == Spec => OnlyStaleQuotesCost
<1> DEFINE Cost == \E c \in Calls :
             \/ /\ IsIncluded(c, "deposit")
                /\ Cheaper(tx[c].basis, pool) /\ ~Cheaper(pool', tx[c].basis)
             \/ /\ IsIncluded(c, "execute")
                /\ Cheaper(pool, request[tx[c].id].basis)
<1>1. ASSUME IInv, [Next]_vars, Cheaper(pool', pool) PROVE Cost
  <2>1. pool.value \in Nat \ {0} /\ pool.supply \in Nat \ {0}
    BY <1>1 DEF IInv, TypeOK
  <2>2. pool'.value * pool.supply < pool.value * pool'.supply
    BY <1>1 DEF Cheaper
  <2>3. CASE pool' = pool
    <3>1. pool.value * pool.supply \in Nat
      BY <2>1
    <3> QED BY <2>2, <2>3, <3>1
  <2>4. CASE HouseSpends
    <3>1. pool'.supply = pool.supply /\ pool.value <= pool'.value /\ pool'.value \in Nat
      BY <1>1, <2>4, HouseStep DEF Pools
    <3>2. pool.value * pool.supply <= pool'.value * pool.supply
      BY <2>1, <3>1, MulMonotone
    <3>3. pool.value * pool.supply \in Nat /\ pool'.value * pool.supply \in Nat
      BY <2>1, <3>1
    <3> QED BY <2>2, <3>1, <3>2, <3>3
  <2>5. ASSUME NEW c \in Calls, IncludeDeposit(c) PROVE Cost
    <3> DEFINE t == tx[c]
    <3>1. /\ t.amount \in Nat /\ t.shares \in Nat
          /\ t.basis \in Bases /\ t.shares * t.basis.value <= t.amount * t.basis.supply
          /\ pool'.value = pool.value + t.amount /\ pool'.supply = pool.supply + t.shares
          /\ IsIncluded(c, "deposit")
      BY <1>1, <2>5, DepositStep
    <3>2. t.basis.value \in Nat /\ t.basis.supply \in Nat \ {0}
      BY <3>1 DEF Bases
    <3> HIDE DEF t
    <3>3. (pool.value + t.amount) * pool.supply < pool.value * (pool.supply + t.shares)
      BY <2>2, <3>1
    <3>4. /\ t.basis.value * pool.supply < pool.value * t.basis.supply
          /\ t.basis.value * (pool.supply + t.shares) <= (pool.value + t.amount) * t.basis.supply
      BY <2>1, <3>1, <3>2, <3>3, DepositPrice
    <3>5. Cheaper(t.basis, pool)
      BY <3>4 DEF Cheaper
    <3>6. ~Cheaper(pool', t.basis)
      <4>1. /\ t.basis.value * (pool.supply + t.shares) \in Nat
            /\ (pool.value + t.amount) * t.basis.supply \in Nat
        BY <2>1, <3>1, <3>2
      <4> QED BY <3>1, <3>4, <4>1 DEF Cheaper
    <3> QED BY <3>1, <3>5, <3>6 DEF t
  <2>6. ASSUME NEW c \in Calls, IncludeExecute(c) PROVE Cost
    <3> DEFINE t == tx[c]
               r == request[t.id]
    <3>1. /\ t.erg \in Nat /\ r \in Requests /\ t.erg <= r.erg
          /\ r.erg * r.basis.supply <= r.lp * r.basis.value
          /\ pool'.value = pool.value - t.erg /\ pool'.supply = pool.supply - r.lp
          /\ IsIncluded(c, "execute")
      BY <1>1, <2>6, ExecuteStep
    <3>2. r.erg \in Nat /\ r.lp \in Nat /\ r.basis.value \in Nat /\ r.basis.supply \in Nat \ {0}
      BY <3>1 DEF Requests, Bases
    <3> HIDE DEF r, t
    <3>3. (pool.value - t.erg) * pool.supply < pool.value * (pool.supply - r.lp)
      BY <2>2, <3>1
    <3>4. pool.value * r.basis.supply < r.basis.value * pool.supply
      BY <2>1, <3>1, <3>2, <3>3, ExecutePrice
    <3> QED BY <3>1, <3>4 DEF Cheaper, r, t
  <2> QED BY <1>1, <2>3, <2>4, <2>5, <2>6, PoolChanges
<1>2. IInv /\ [Next]_vars => [Cheaper(pool', pool) => Cost]_vars
  BY <1>1
<1> QED BY <1>2, LpPoolInvariant, PTL DEF Spec, OnlyStaleQuotesCost

\* A withdrawal goes below the anti-drain floor by at most what has left the
\* pool since its cap was computed.
THEOREM OnlyOverlapsPassTheFloor == Spec => FloorGivesWayToOverlapsOnly
<1> DEFINE Low == \E c \in Calls :
             /\ IsIncluded(c, "execute")
             /\ \/ pool'.value >= MIN_POOL_VALUE_NANOERG
                \/ /\ tx[c].basis.value > pool.value
                   /\ pool'.value + (tx[c].basis.value - pool.value) >= MIN_POOL_VALUE_NANOERG
<1>1. ASSUME IInv, [Next]_vars, pool'.value < pool.value PROVE Low
  <2>1. pool.value \in Nat \ {0} /\ pool.supply \in Nat \ {0} /\ MIN_POOL_VALUE_NANOERG \in Nat
    BY <1>1, LpPoolAssumption DEF IInv, TypeOK
  <2>2. CASE pool' = pool
    BY <1>1, <2>1, <2>2
  <2>3. CASE HouseSpends
    <3>1. pool.value <= pool'.value /\ pool'.value \in Nat
      BY <1>1, <2>3, HouseStep DEF Pools
    <3> QED BY <1>1, <2>1, <3>1
  <2>4. ASSUME NEW c \in Calls, IncludeDeposit(c) PROVE Low
    <3>1. tx[c].amount \in Nat /\ pool'.value = pool.value + tx[c].amount
      BY <1>1, <2>4, DepositStep
    <3> QED BY <1>1, <2>1, <3>1
  <2>5. ASSUME NEW c \in Calls, IncludeExecute(c) PROVE Low
    <3> DEFINE e == tx[c].erg
               b == tx[c].basis.value
    <3>1. /\ e \in Nat /\ tx[c].basis \in Bases /\ b - e >= MIN_POOL_VALUE_NANOERG
          /\ pool'.value = pool.value - e /\ IsIncluded(c, "execute")
      BY <1>1, <2>5, ExecuteStep
    <3>2. b \in Nat
      BY <3>1 DEF Bases
    <3> HIDE DEF e, b
    <3>3. \/ pool'.value >= MIN_POOL_VALUE_NANOERG
          \/ b > pool.value /\ pool'.value + (b - pool.value) >= MIN_POOL_VALUE_NANOERG
      BY <2>1, <3>1, <3>2
    <3> QED BY <3>1, <3>3 DEF b
  <2> QED BY <1>1, <2>2, <2>3, <2>4, <2>5, PoolChanges
<1>2. IInv /\ [Next]_vars => [pool'.value < pool.value => Low]_vars
  BY <1>1
<1> QED BY <1>2, LpPoolInvariant, PTL DEF Spec, FloorGivesWayToOverlapsOnly

-----------------------------------------------------------------------------
(* Where the shares are.                                                   *)

\* The shares are counted, and only what was asked for is spent.
Ledger == SharesAreCounted /\ spent \subseteq {c \in Calls : request[c] # None}

\* What the wallets hold, when one of them changes.
LEMMA WalletChange ==
    ASSUME NEW w \in [Lps -> Nat], NEW l \in Lps, NEW n \in Nat
    PROVE  /\ SumFunctionOnSet(w, Lps) \in Int
           /\ SumFunctionOnSet([w EXCEPT ![l] = n], Lps)
                = SumFunctionOnSet(w, Lps) - w[l] + n
<1> DEFINE v == [w EXCEPT ![l] = n]
<1>1. /\ \A k \in Lps : w[k] \in Int /\ v[k] \in Int
      /\ \A k \in Lps \ {l} : w[k] = v[k]
      /\ v[l] = n
  OBVIOUS
<1> HIDE DEF v
<1>2. SumFunctionOnSet(v, Lps) = SumFunctionOnSet(w, Lps) - w[l] + v[l]
  BY <1>1, LpPoolAssumption, SumChange
<1>3. SumFunctionOnSet(w, Lps) \in Int
  BY <1>1, LpPoolAssumption, SumType
<1> QED BY <1>1, <1>2, <1>3 DEF v

LEMMA LockedType ==
    ASSUME TypeOK
    PROVE  Locked \in [Calls -> Nat] /\ SumFunctionOnSet(Locked, Calls) \in Int
<1>1. Locked \in [Calls -> Nat]
  BY DEF TypeOK, Locked, Open, Requests
<1> QED BY <1>1, LpPoolAssumption, SumType

\* What the requests hold, when one of them changes.
LEMMA LockedChange ==
    ASSUME TypeOK, TypeOK', NEW c \in Calls, \A d \in Calls \ {c} : Locked'[d] = Locked[d]
    PROVE  SumFunctionOnSet(Locked', Calls)
             = SumFunctionOnSet(Locked, Calls) - Locked[c] + Locked'[c]
<1>1. Locked \in [Calls -> Nat]
  BY LockedType
<1>2. Locked' \in [Calls -> Nat]
  BY DEF TypeOK, Locked, Open, Requests
<1> QED BY <1>1, <1>2, LpPoolAssumption, SumChange

\* A step that leaves the requests alone.
LEMMA LockedKept ==
    ASSUME request' = request, spent' = spent PROVE Locked' = Locked
BY DEF Locked, Open

LEMMA InitLedger == Init => Ledger
<1> SUFFICES ASSUME Init PROVE Ledger
  OBVIOUS
<1>1. Locked \in [Calls -> Nat] /\ \A c \in Calls : Locked[c] = 0
  BY DEF Init, Locked, Open
<1>2. SumFunctionOnSet(Locked, Calls) = 0
  <2> DEFINE T == {s \in SUBSET Calls : SumFunctionOnSet(Locked, s) = 0}
  <2>1. {} \in T
    BY SumEmpty
  <2>2. ASSUME NEW s \in SUBSET Calls, NEW c \in Calls \ s, s \in T PROVE s \cup {c} \in T
    <3>1. IsFiniteSet(s) /\ \A d \in s \cup {c} : Locked[d] \in Int
      BY <1>1, FS_Subset, LpPoolAssumption
    <3>2. SumFunctionOnSet(Locked, s \cup {c}) = Locked[c] + SumFunctionOnSet(Locked, s)
      BY <3>1, SumAdd
    <3> QED BY <1>1, <2>2, <3>2
  <2>3. SUBSET Calls \subseteq T
    <3> HIDE DEF T
    <3> QED BY <2>1, <2>2, SubsetInduction, LpPoolAssumption
  <2> QED BY <2>3
<1>3. pool.supply = SumFunctionOnSet(wallet, Lps) /\ pool.supply \in Nat
  BY LpPoolAssumption DEF Init
<1>4. pool.supply = PoolAtStart.supply /\ reserve = ReserveAtStart /\ reserve \in Nat
  BY LpPoolAssumption DEF Init
<1> QED BY <1>2, <1>3, <1>4 DEF Ledger, SharesAreCounted, Outstanding, Init

\* Nothing the ledger speaks of changes.
LEMMA LedgerKept ==
    ASSUME Ledger, pool'.supply = pool.supply, wallet' = wallet, reserve' = reserve,
           request' = request, spent' = spent
    PROVE  Ledger'
BY LockedKept DEF Ledger, SharesAreCounted, Outstanding

LEMMA MoveSum ==
    ASSUME NEW r \in Nat, NEW q \in Nat, NEW s \in Nat, NEW n \in Int, NEW b \in Int,
           q + 2 * n <= r, r + s + s <= b
    PROVE  q + (s + n) + (s + n) <= b
OBVIOUS

\* The pool box and the outstanding shares change by the same number, and the
\* reserve gives for both: nothing else need be known of a step.
LEMMA LedgerMoves ==
    ASSUME IInv, Ledger, NEW n \in Int, Outstanding \in Int,
           pool'.supply = pool.supply + n, Outstanding' = Outstanding + n,
           reserve' \in Nat, reserve' + 2 * n <= reserve
    PROVE  SharesAreCounted'
<1>1. reserve \in Nat /\ pool.supply \in Nat /\ ReserveAtStart \in Nat /\ PoolAtStart.supply \in Nat
  BY LpPoolAssumption DEF IInv, TypeOK
<1>2. pool.supply = Outstanding
      /\ reserve + pool.supply + Outstanding <= ReserveAtStart + 2 * PoolAtStart.supply
  BY DEF Ledger, SharesAreCounted
<1>3. pool'.supply = Outstanding'
  BY <1>2
<1>4. reserve' + pool'.supply + Outstanding' <= ReserveAtStart + 2 * PoolAtStart.supply
  <2> DEFINE b == ReserveAtStart + 2 * PoolAtStart.supply
  <2>1. b \in Int
    BY <1>1
  <2>2. reserve + pool.supply + pool.supply <= b
    BY <1>2
  <2> HIDE DEF b
  <2>3. reserve' + (pool.supply + n) + (pool.supply + n) <= b
    BY <1>1, <2>1, <2>2, MoveSum
  <2>4. pool'.supply = pool.supply + n /\ Outstanding' = pool.supply + n
    BY <1>2
  <2> QED BY <2>3, <2>4 DEF b
<1> QED BY <1>3, <1>4 DEF SharesAreCounted

LEMMA DepositLedger ==
    ASSUME IInv, IInv', Ledger, NEW c \in Calls, IncludeDeposit(c)
    PROVE  Ledger'
<1> DEFINE t == tx[c]
<1>1. /\ wallet' = [wallet EXCEPT ![t.lp] = @ + t.shares]
      /\ 2 * t.shares <= reserve /\ reserve' = reserve - 2 * t.shares
      /\ request' = request /\ spent' = spent
  BY DEF IncludeDeposit
<1>2. t.shares \in Nat /\ t.lp \in Lps /\ pool'.supply = pool.supply + t.shares
  BY DepositStep
<1>3. reserve \in Nat /\ reserve' \in Nat
  BY <1>1, <1>2 DEF IInv, TypeOK
<1>4. wallet \in [Lps -> Nat] /\ wallet[t.lp] + t.shares \in Nat /\ pool.supply \in Nat
  BY <1>2 DEF IInv, TypeOK
<1> HIDE DEF t
<1>5. /\ SumFunctionOnSet(wallet, Lps) \in Int
      /\ SumFunctionOnSet(wallet', Lps) = SumFunctionOnSet(wallet, Lps) + t.shares
  <2>1. SumFunctionOnSet(wallet', Lps)
          = SumFunctionOnSet(wallet, Lps) - wallet[t.lp] + (wallet[t.lp] + t.shares)
    BY <1>1, <1>2, <1>4, WalletChange
  <2>2. wallet[t.lp] \in Int
    BY <1>2, <1>4
  <2> QED BY <1>2, <1>4, <2>1, <2>2, WalletChange
<1>6. Locked' = Locked /\ SumFunctionOnSet(Locked, Calls) \in Int
  BY <1>1, LockedKept, LockedType DEF IInv
<1>7. Outstanding \in Int /\ Outstanding' = Outstanding + t.shares
  BY <1>2, <1>5, <1>6 DEF Outstanding
<1>8. SharesAreCounted'
  BY <1>1, <1>2, <1>3, <1>7, LedgerMoves
<1> QED BY <1>1, <1>8 DEF Ledger

LEMMA RequestLedger ==
    ASSUME IInv, IInv', Ledger, NEW c \in Calls, IncludeRequest(c)
    PROVE  Ledger'
<1> DEFINE t == tx[c]
           r == [holder |-> t.lp, lp |-> t.amount, erg |-> t.erg, at |-> t.at,
                 cooldown |-> t.cooldown, basis |-> t.basis]
<1>1. /\ pc[c] = "built" /\ t.kind = "request" /\ t.amount <= wallet[t.lp]
      /\ wallet' = [wallet EXCEPT ![t.lp] = @ - t.amount]
      /\ request' = [request EXCEPT ![c] = r]
      /\ pool' = pool /\ reserve' = reserve /\ spent' = spent
  BY DEF IncludeRequest
<1>2. t.amount \in Nat /\ t.lp \in Lps /\ request[c] = None
  <2>1. t \in Txs /\ request[c] = None
    BY <1>1 DEF IInv, CallInv
  <2> QED BY <1>1, <2>1 DEF Txs
<1>3. request'[c] # None /\ request'[c].lp = t.amount
  <2>1. request'[c] = r
    BY <1>1 DEF IInv, TypeOK
  <2>2. r \in Requests
    <3>1. t \in Txs
      BY <1>1 DEF IInv, CallInv
    <3> QED BY <1>1, <3>1 DEF Txs, Requests
  <2> QED BY <2>1, <2>2, NoneAssumption
<1>4. Locked[c] = 0 /\ Locked'[c] = t.amount /\ \A d \in Calls \ {c} : Locked'[d] = Locked[d]
  <2>1. c \notin spent /\ c \notin Open
    BY <1>2 DEF Ledger, Open
  <2>2. c \in Open'
    BY <1>1, <1>3, <2>1 DEF Open
  <2>3. \A d \in Calls \ {c} : request'[d] = request[d] /\ (d \in Open' <=> d \in Open)
    BY <1>1 DEF IInv, TypeOK, Open
  <2> QED BY <1>3, <2>1, <2>2, <2>3 DEF Locked
<1>5. SumFunctionOnSet(Locked', Calls) = SumFunctionOnSet(Locked, Calls) + t.amount
      /\ SumFunctionOnSet(Locked, Calls) \in Int
  BY <1>2, <1>4, LockedChange, LockedType DEF IInv
<1>6. wallet \in [Lps -> Nat] /\ wallet[t.lp] - t.amount \in Nat /\ pool.supply \in Nat
  BY <1>1, <1>2 DEF IInv, TypeOK
<1> HIDE DEF t, r
<1>7. /\ SumFunctionOnSet(wallet, Lps) \in Int
      /\ SumFunctionOnSet(wallet', Lps) = SumFunctionOnSet(wallet, Lps) - t.amount
  <2>1. SumFunctionOnSet(wallet', Lps)
          = SumFunctionOnSet(wallet, Lps) - wallet[t.lp] + (wallet[t.lp] - t.amount)
    BY <1>1, <1>2, <1>6, WalletChange
  <2> QED BY <1>2, <1>6, <2>1, WalletChange
<1>8. SharesAreCounted'
  <2>1. Outstanding \in Int /\ Outstanding' = Outstanding
    BY <1>2, <1>5, <1>7 DEF Outstanding
  <2> QED BY <1>1, <2>1 DEF Ledger, SharesAreCounted
<1>9. \A d \in spent : request'[d] # None
  BY <1>1, <1>3 DEF Ledger, IInv, TypeOK
<1> QED BY <1>1, <1>8, <1>9 DEF Ledger

\* A request is spent: what it held is released.
LEMMA Released ==
    ASSUME IInv, IInv', NEW id \in Open, spent' = spent \cup {id}, request' = request
    PROVE  /\ request[id].lp \in Nat
           /\ SumFunctionOnSet(Locked, Calls) \in Int
           /\ SumFunctionOnSet(Locked', Calls) = SumFunctionOnSet(Locked, Calls) - request[id].lp
<1>1. id \in Calls /\ request[id].lp \in Nat
  BY DEF IInv, TypeOK, Open, Requests
<1>2. id \notin Open' /\ \A d \in Calls \ {id} : d \in Open' <=> d \in Open
  BY DEF Open
<1>3. Locked[id] = request[id].lp /\ Locked'[id] = 0 /\ \A d \in Calls \ {id} : Locked'[d] = Locked[d]
  BY <1>1, <1>2 DEF Locked
<1>4. SumFunctionOnSet(Locked, Calls) \in Int
  BY LockedType DEF IInv
<1>5. SumFunctionOnSet(Locked', Calls) = SumFunctionOnSet(Locked, Calls) - Locked[id] + Locked'[id]
  BY <1>1, <1>3, LockedChange DEF IInv
<1> QED BY <1>1, <1>3, <1>4, <1>5

LEMMA ExecuteLedger ==
    ASSUME IInv, IInv', Ledger, NEW c \in Calls, IncludeExecute(c)
    PROVE  Ledger'
<1> DEFINE id == tx[c].id
<1>1. /\ wallet' = wallet /\ reserve' = reserve /\ request' = request
      /\ id \in Open /\ spent' = spent \cup {id}
  BY DEF IncludeExecute
<1>2. pool'.supply = pool.supply - request[id].lp /\ request[id].lp \in Nat
  BY ExecuteStep DEF Requests
<1> HIDE DEF id
<1>3. SumFunctionOnSet(wallet, Lps) \in Int
  BY LpPoolAssumption, SumType DEF IInv, TypeOK
<1>4. Outstanding \in Int /\ Outstanding' = Outstanding + (0 - request[id].lp)
  <2>1. /\ SumFunctionOnSet(Locked, Calls) \in Int
        /\ SumFunctionOnSet(Locked', Calls) = SumFunctionOnSet(Locked, Calls) - request[id].lp
    BY <1>1, Released
  <2> QED BY <1>1, <1>2, <1>3, <2>1 DEF Outstanding
<1>5. reserve \in Nat /\ pool.supply \in Nat
  BY DEF IInv, TypeOK
<1>6. SharesAreCounted'
  <2>1. /\ 0 - request[id].lp \in Int /\ pool'.supply = pool.supply + (0 - request[id].lp)
        /\ reserve' + 2 * (0 - request[id].lp) <= reserve /\ reserve' \in Nat
    BY <1>1, <1>2, <1>5
  <2> QED BY <1>4, <2>1, LedgerMoves
<1> QED BY <1>1, <1>6 DEF Ledger, Open

LEMMA CancelLedger ==
    ASSUME IInv, IInv', Ledger, NEW c \in Calls, IncludeCancel(c)
    PROVE  Ledger'
<1> DEFINE id == tx[c].id
           r == request[id]
<1>1. /\ wallet' = [wallet EXCEPT ![r.holder] = @ + r.lp]
      /\ pool' = pool /\ reserve' = reserve /\ request' = request
      /\ id \in Open /\ spent' = spent \cup {id}
  BY DEF IncludeCancel
<1>2. r.holder \in Lps /\ r.lp \in Nat
  BY <1>1 DEF IInv, TypeOK, Open, Requests
<1>3. wallet \in [Lps -> Nat] /\ wallet[r.holder] + r.lp \in Nat /\ pool.supply \in Nat
  BY <1>2 DEF IInv, TypeOK
<1> HIDE DEF id
<1>4. /\ SumFunctionOnSet(wallet, Lps) \in Int
      /\ SumFunctionOnSet(wallet', Lps)
           = SumFunctionOnSet(wallet, Lps) - wallet[r.holder] + (wallet[r.holder] + r.lp)
  BY <1>1, <1>2, <1>3, WalletChange
<1>5. /\ SumFunctionOnSet(Locked, Calls) \in Int
      /\ SumFunctionOnSet(Locked', Calls) = SumFunctionOnSet(Locked, Calls) - r.lp
  BY <1>1, Released
<1>6. SharesAreCounted'
  <2>1. Outstanding' = Outstanding
    <3>1. wallet[r.holder] \in Int
      BY <1>2, <1>3
    <3> QED BY <1>2, <1>4, <1>5, <3>1 DEF Outstanding
  <2> QED BY <1>1, <2>1 DEF Ledger, SharesAreCounted
<1> QED BY <1>1, <1>6 DEF Ledger, Open

LEMMA NextLedger ==
    ASSUME IInv, IInv', Ledger, [Next]_vars
    PROVE  Ledger'
<1> USE DEF chain, backend
<1>1. CASE \E c \in Calls : Route(c)
  <2>1. pool' = pool /\ wallet' = wallet /\ reserve' = reserve /\ request' = request /\ spent' = spent
    BY <1>1 DEF Route, Enter, NodeAnswers, Store, Fail, BuildDeposit, BuildRequest,
                BuildExecute, BuildCancel, Answer, End
  <2> QED BY <2>1, LedgerKept
<1>2. CASE \E c \in Calls : Include(c)
  BY <1>2, DepositLedger, RequestLedger, ExecuteLedger, CancelLedger DEF Include
<1>3. CASE HouseSpends
  <2>1. pool'.supply = pool.supply
    BY <1>3 DEF HouseSpends, isCollect, isUpdate
  <2> QED BY <1>3, <2>1, LedgerKept DEF HouseSpends
<1>4. CASE NewBlock \/ Tick \/ UNCHANGED vars
  BY <1>4, LedgerKept DEF NewBlock, Tick, vars
<1> QED BY <1>1, <1>2, <1>3, <1>4 DEF Next

\* The tokens of the pool box are as many as the outstanding shares and none
\* comes from nowhere, for any number of providers, calls and requests, in
\* whatever order their deposits, executions and cancellations are included.
THEOREM SharesStayCounted == Spec => []SharesAreCounted
<1>1. IInv /\ IInv' /\ Ledger /\ [Next]_vars => Ledger'
  BY NextLedger
<1>2. Ledger => SharesAreCounted
  BY DEF Ledger
<1> QED BY <1>1, <1>2, InitLedger, LpPoolInvariant, PTL DEF Spec

-----------------------------------------------------------------------------
(* The cache.                                                              *)

\* An answer was read after its call had looked at the clock.
ReadInTime ==
    /\ cache # None => cache.time <= cache.state.readAt
    /\ \A c \in Calls : /\ pc[c] = "fetch" => since[c] <= clock
                        /\ pc[c] = "answered" => since[c] <= seen[c].readAt

LEMMA InitReadInTime == Init => ReadInTime
BY DEF Init, ReadInTime

LEMMA NextReadInTime ==
    ASSUME IInv, ReadInTime, [Next]_vars
    PROVE  ReadInTime'
<1> USE DEF chain, backend
<1>1. ASSUME NEW c \in Calls, NEW o \in Bodies(c), Enter(c, o) PROVE ReadInTime'
  BY <1>1 DEF Enter, IInv, TypeOK, ReadInTime
<1>2. ASSUME NEW c \in Calls, NodeAnswers(c) PROVE ReadInTime'
  BY <1>2 DEF NodeAnswers, IInv, TypeOK, ReadInTime
<1>3. ASSUME NEW c \in Calls, Store(c) PROVE ReadInTime'
  BY <1>3 DEF Store, IInv, TypeOK, ReadInTime
<1>4. ASSUME NEW c \in Calls, NEW stage \in {"built", "done"}, End(c, stage) PROVE ReadInTime'
  BY <1>4 DEF End, IInv, TypeOK, ReadInTime
<1>5. ASSUME NEW c \in Calls, Route(c) PROVE ReadInTime'
  BY <1>1, <1>2, <1>3, <1>4, <1>5
     DEF Route, Fail, BuildDeposit, BuildRequest, BuildExecute, BuildCancel, Answer
<1>6. ASSUME NEW c \in Calls, Included(c) PROVE ReadInTime'
  BY <1>6 DEF Included, IInv, TypeOK, ReadInTime
<1>7. ASSUME NEW c \in Calls, Include(c) PROVE ReadInTime'
  BY <1>6, <1>7 DEF Include, IncludeDeposit, IncludeRequest, IncludeExecute, IncludeCancel
<1>8. CASE Tick
  BY <1>8 DEF Tick, IInv, TypeOK, ReadInTime
<1>9. CASE HouseSpends \/ NewBlock \/ UNCHANGED vars
  BY <1>9 DEF HouseSpends, NewBlock, vars, ReadInTime
<1> QED BY <1>5, <1>7, <1>8, <1>9 DEF Next

\* Only the cache makes a call ready at once.
LEMMA ServedFromCache ==
    ASSUME IInv, ReadInTime, [Next]_vars, NEW c \in Calls,
           pc[c] = "idle", pc'[c] = "ready", seen'[c] # seen[c]
    PROVE  clock - seen'[c].readAt < CACHE_TTL
<1>1. PICK o \in Bodies(c) : Enter(c, o)
  BY DEF Next, Route, Include, Enter, NodeAnswers, Store, Fail, BuildDeposit, BuildRequest,
         BuildExecute, BuildCancel, Answer, End, IncludeDeposit, IncludeRequest, IncludeExecute,
         IncludeCancel, Included, HouseSpends, NewBlock, Tick, vars, IInv, TypeOK
<1>2. Cached /\ seen'[c] = cache.state
  BY <1>1 DEF Enter, IInv, TypeOK
<1>3. cache.time \in Nat /\ cache.state.readAt \in Nat /\ clock \in Nat
  BY <1>2 DEF Cached, IInv, TypeOK, States
<1> QED BY <1>2, <1>3, LpPoolAssumption DEF Cached, ReadInTime

\* What a call is served from the cache was the pool of less than CACHE_TTL
\* ago, however many fetches are under way and in whatever order they end.
THEOREM TheCacheIsFresh == Spec => CacheIsFresh
<1>1. IInv /\ ReadInTime /\ [Next]_vars
      => [\A c \in Calls : pc[c] = "idle" /\ pc'[c] = "ready" /\ seen'[c] # seen[c] =>
             clock - seen'[c].readAt < CACHE_TTL]_vars
  BY ServedFromCache
<1>2. IInv /\ ReadInTime /\ [Next]_vars => ReadInTime'
  BY NextReadInTime
<1> QED BY <1>1, <1>2, InitReadInTime, LpPoolInvariant, PTL DEF Spec, CacheIsFresh

-----------------------------------------------------------------------------
(* The transaction builder.                                                *)

(* Conjuncts of the invariant in the order they are proved.                 *)
BuilderInv == BuilderTypeOK /\ TransactionsBalance

(* What a bet pays is a natural number.                                     *)
LEMMA PayoutIsNat ==
    ASSUME NEW amount \in Amounts, NEW result \in {"win", "lose"}
    PROVE  payout(result, amount) \in Nat
<1>1. amount \in Nat
  BY TxBuilderAssumption
<1>2. winPayout(amount) \in Nat
  BY <1>1 DEF winPayout
<1> QED
  BY <1>1, <1>2 DEF payout

(* build keeps the books: the three ways it can end.                        *)
LEMMA BuildBalances ==
    ASSUME BuilderInv, NEW in \in Nat, NEW out \in Nat, build(in, out)
    PROVE  BuilderInv'
<1> DEFINE change == in - (out + fee)
<1>0. /\ fee \in Nat /\ MinBoxValue \in Nat \ {0} /\ MaxDust \in Nat /\ Fees \subseteq Nat
      /\ asked \in Fees /\ dust \in 0..MaxDust /\ changeAddress \in BOOLEAN
      /\ fee = asked + dust /\ change \in Int
  BY TxBuilderAssumption DEF BuilderInv, BuilderTypeOK, TransactionsBalance
<1>1. CASE Throw
  BY <1>1 DEF Throw, Thrown, BuilderInv, BuilderTypeOK, TransactionsBalance
<1>2. CASE /\ change = 0 \/ (change >= MinBoxValue /\ changeAddress)
           /\ returned' = [built |-> TRUE, in |-> in, out |-> out, change |-> change, fee |-> fee]
           /\ UNCHANGED <<fee, changeAddress, asked, dust>>
  <2>1. change \in Nat /\ (change = 0 \/ change >= MinBoxValue)
    BY <1>0, <1>2
  <2>2. in = out + change + fee
    BY <1>0
  <2> HIDE DEF change
  <2>3. BuilderTypeOK'
    BY <1>0, <1>2, <2>1 DEF BuilderTypeOK
  <2>4. TransactionsBalance'
    BY <1>0, <1>2, <2>1, <2>2 DEF TransactionsBalance
  <2> QED
    BY <2>3, <2>4 DEF BuilderInv
<1>3. CASE /\ change \in 1..(MinBoxValue - 1) /\ changeAddress
           /\ dust + change <= MaxDust
           /\ fee' = fee + change /\ dust' = dust + change
           /\ returned' = [built |-> TRUE, in |-> in, out |-> out, change |-> 0, fee |-> fee']
           /\ UNCHANGED <<changeAddress, asked>>
  <2>1. change \in Nat
    BY <1>0, <1>3
  <2>2. in = out + (fee + change)
    BY <1>0
  <2> HIDE DEF change
  <2>3. fee' \in Nat /\ dust' \in 0..MaxDust /\ fee' = asked' + dust' /\ in = out + 0 + fee'
    BY <1>0, <1>3, <2>1, <2>2
  <2>4. BuilderTypeOK'
    BY <1>0, <1>3, <2>3 DEF BuilderTypeOK
  <2>5. TransactionsBalance'
    BY <1>3, <2>3 DEF TransactionsBalance
  <2> QED
    BY <2>4, <2>5 DEF BuilderInv
<1>4. \/ Throw
      \/ /\ change = 0 \/ (change >= MinBoxValue /\ changeAddress)
         /\ returned' = [built |-> TRUE, in |-> in, out |-> out, change |-> change, fee |-> fee]
         /\ UNCHANGED <<fee, changeAddress, asked, dust>>
      \/ /\ change \in 1..(MinBoxValue - 1) /\ changeAddress
         /\ dust + change <= MaxDust
         /\ fee' = fee + change /\ dust' = dust + change
         /\ returned' = [built |-> TRUE, in |-> in, out |-> out, change |-> 0, fee |-> fee']
         /\ UNCHANGED <<changeAddress, asked>>
  BY Zenon DEF build
<1> QED
  BY <1>1, <1>2, <1>3, <1>4, Zenon

LEMMA BuilderStart == BuilderInit => BuilderInv
<1> SUFFICES ASSUME BuilderInit PROVE BuilderInv
  OBVIOUS
<1>1. DefaultFee \in Fees /\ DefaultFee \in Nat /\ MaxDust \in Nat
  BY TxBuilderAssumption
<1>2. BuilderTypeOK
  <2>1. fee \in Nat /\ asked \in Fees /\ dust \in 0..MaxDust
    BY <1>1 DEF BuilderInit
  <2>2. changeAddress \in BOOLEAN /\ returned = Thrown
    BY Zenon DEF BuilderInit
  <2> QED
    BY <2>1, <2>2, Zenon DEF BuilderTypeOK
<1>3. ~returned.built
  BY DEF BuilderInit, Thrown
<1>4. fee = asked + dust
  BY <1>1 DEF BuilderInit
<1> QED
  BY <1>2, <1>3, <1>4 DEF BuilderInv, TransactionsBalance

\* A call keeps the invariant.
LEMMA BuilderStep == BuilderInv /\ [Call]_builder => BuilderInv'
<1> SUFFICES ASSUME BuilderInv, [Call]_builder PROVE BuilderInv'
  OBVIOUS
<1>0. Fees \subseteq Nat /\ Funds \subseteq Nat /\ Amounts \subseteq Nat /\ MaxDust \in Nat
  BY TxBuilderAssumption
<1>1. CASE UNCHANGED builder
  BY <1>1 DEF builder, BuilderInv, BuilderTypeOK, TransactionsBalance
<1>2. ASSUME NEW f \in Fees, setFee(f) PROVE BuilderInv'
  <2>1. fee' \in Nat /\ asked' \in Fees /\ dust' \in 0..MaxDust /\ fee' = asked' + dust'
    BY <1>0, <1>2 DEF setFee
  <2>2. changeAddress' = changeAddress /\ returned' = returned
    BY <1>2, Zenon DEF setFee
  <2>3. BuilderTypeOK'
    BY <2>1, <2>2, Zenon DEF BuilderInv, BuilderTypeOK
  <2>4. TransactionsBalance'
    BY <2>1, <2>2, Zenon DEF BuilderInv, TransactionsBalance
  <2> QED
    BY <2>3, <2>4 DEF BuilderInv
<1>3. CASE setChangeAddress
  BY <1>3 DEF setChangeAddress, BuilderInv, BuilderTypeOK, TransactionsBalance
<1>4. CASE Throw
  BY <1>4 DEF Throw, Thrown, BuilderInv, BuilderTypeOK, TransactionsBalance
<1>5. ASSUME NEW in \in Funds, NEW amount \in Amounts, NEW result \in {"win", "lose"},
             \/ buildPlaceBetTransaction(amount, in)
             \/ buildRevealTransaction(in, amount, result)
             \/ buildRefundTransaction(in, amount)
      PROVE  BuilderInv'
  <2>1. in \in Nat /\ amount \in Nat /\ payout(result, amount) \in Nat
    BY <1>0, PayoutIsNat
  <2> QED
    BY <1>5, <2>1, BuildBalances
    DEF buildPlaceBetTransaction, buildRevealTransaction, buildRefundTransaction
<1>6. ASSUME NEW amount \in Amounts, placeBet(amount) PROVE BuilderInv'
  BY <1>0, <1>6, BuildBalances DEF placeBet, buildPlaceBetTransaction
<1> QED
  BY <1>1, <1>2, <1>3, <1>4, <1>5, <1>6 DEF Call, revealBet, refundBet

(* A builder's transactions always balance, and its fee is what was asked   *)
(* for and the dust absorbed since, after any sequence of calls.            *)
THEOREM BuilderBalances == BuilderSpec => []TransactionsBalance
<1>1. BuilderInv => TransactionsBalance
  BY DEF BuilderInv
<1> QED
  BY <1>1, BuilderStart, BuilderStep, PTL DEF BuilderSpec

(* 2 * (1 - houseEdge) of the SDK in ten-thousandths and the contract's     *)
(* 97 / 50 round to the same nanoERG for every amount.                      *)
THEOREM PayoutsOfSdkAndContract == PayoutsAgree
<1> SUFFICES ASSUME NEW amount \in Nat
             PROVE  (amount * 19400) \div 10000 = (amount * 97) \div 50
  BY DEF PayoutsAgree, winPayout, Contract!winPayout
<1> DEFINE q == (amount * 97) \div 50
           r == (amount * 97) % 50
<1>1. q \in Nat /\ r \in 0..49 /\ amount * 97 = 50 * q + r
  OBVIOUS
<1>2. amount * 19400 = 10000 * q + 200 * r
  BY <1>1
<1> HIDE DEF q, r
<1>3. (10000 * q + 200 * r) \div 10000 = q
  BY <1>1
<1> QED
  BY <1>2, <1>3 DEF q

(* placeBet never gets a transaction: its input is worth nothing.           *)
THEOREM PlaceBetNeverBuilds ==
    ASSUME BuilderTypeOK, NEW amount \in Amounts, placeBet(amount)
    PROVE  returned' = Thrown
<1>1. amount \in Nat \ {0} /\ fee \in Nat
  BY TxBuilderAssumption DEF BuilderTypeOK
<1> DEFINE change == 0 - (amount + fee)
<1>2. change \in Int /\ change < 0 /\ MinBoxValue \in Nat \ {0}
  BY <1>1, TxBuilderAssumption
<1>3. Throw \/ change = 0 \/ change >= MinBoxValue \/ change \in 1..(MinBoxValue - 1)
  BY Zenon DEF placeBet, buildPlaceBetTransaction, build
<1> HIDE DEF change
<1>4. ~(change = 0 \/ change >= MinBoxValue \/ change \in 1..(MinBoxValue - 1))
  BY <1>2
<1>5. Throw
  BY <1>3, <1>4, Zenon
<1> QED
  BY <1>5, Zenon DEF Throw

-----------------------------------------------------------------------------
(* The zigzag numbers of machine integers, for words of every width.       *)

\* The sign word of a number in range.
LEMMA SignWord ==
    ASSUME NEW half \in Nat \ {0}, NEW v \in Int, InRange(v, half)
    PROVE  v \div half = IF v < 0 THEN -1 ELSE 0
BY DEF InRange

(* The zigzag number of a number in range, in closed form.                  *)
LEMMA Encoded ==
    ASSUME NEW half \in Nat \ {0}, NEW v \in Int, InRange(v, half)
    PROVE  zigZagEncode(v, half) = IF v < 0 THEN -2 * v - 1 ELSE 2 * v
<1>1. CASE v < 0
  <2>1. v \div half = -1
    BY <1>1, SignWord
  <2>2. XorSign(2 * v, -1) = -(2 * v) - 1
    BY DEF XorSign
  <2> QED
    BY <1>1, <2>1, <2>2 DEF zigZagEncode
<1>2. CASE v >= 0
  <2>1. v \div half = 0
    BY <1>2, SignWord
  <2>2. XorSign(2 * v, 0) = 2 * v
    BY DEF XorSign
  <2> QED
    BY <1>2, <2>1, <2>2 DEF zigZagEncode
<1> QED
  BY <1>1, <1>2

(* Whatever the width, the zigzag number of a number in range is an unsigned *)
(* word (so no serializer drops a bit of it), and decoding gives the number  *)
(* back: the pairs zigZagEncode and deserializeInt/Long of the SDK, and      *)
(* _zigzag_encode and _zigzag_decode of the backend, are inverse.            *)
THEOREM ZigZagRoundTrip ==
    ASSUME NEW half \in Nat \ {0}, NEW v \in Int, InRange(v, half)
    PROVE  /\ zigZagEncode(v, half) \in 0 .. 2 * half - 1
           /\ zigZagDecode(zigZagEncode(v, half)) = v
<1>1. CASE v < 0
  <2>1. zigZagEncode(v, half) = 2 * (-v - 1) + 1
    BY <1>1, Encoded
  <2>2. (2 * (-v - 1) + 1) % 2 = 1 /\ (2 * (-v - 1) + 1) \div 2 = -v - 1
    OBVIOUS
  <2> QED
    BY <1>1, <2>1, <2>2 DEF zigZagDecode, InRange
<1>2. CASE v >= 0
  <2>1. zigZagEncode(v, half) = 2 * v
    BY <1>2, Encoded
  <2>2. (2 * v) % 2 = 0 /\ (2 * v) \div 2 = v
    OBVIOUS
  <2> QED
    BY <1>2, <2>1, <2>2 DEF zigZagDecode, InRange
<1> QED
  BY <1>1, <1>2

(* In range the three arithmetics agree: numbers that wrap (JavaScript's     *)
(* shifts), that are masked (asUintN, & 0xFFFFFFFF) and that have no limit   *)
(* (BigInt, Python) give the VLQ the same word.                              *)
THEOREM WritersAgree ==
    ASSUME NEW half \in Nat \ {0}, NEW v \in Int, InRange(v, half)
    PROVE  /\ Wrap(v, half) = v
           /\ Unsigned(zigZagEncode(v, half), half) = zigZagEncode(v, half)
<1> DEFINE z == zigZagEncode(v, half)
           w == 2 * half
<1>1. z \in 0 .. w - 1
  BY ZigZagRoundTrip
<1>2. v + half \in 0 .. w - 1
  BY DEF InRange
<1>3. \A x \in 0 .. w - 1 : x % w = x
  OBVIOUS
<1>4. (v + half) % w = v + half /\ z % w = z
  BY <1>1, <1>2, <1>3
<1> QED
  BY <1>4 DEF Wrap, Unsigned

(* No two numbers share a register: the words of different numbers differ.   *)
THEOREM ZigZagInjective ==
    ASSUME NEW half \in Nat \ {0}, NEW v \in Int, NEW u \in Int,
           InRange(v, half), InRange(u, half),
           zigZagEncode(v, half) = zigZagEncode(u, half)
    PROVE  v = u
BY ZigZagRoundTrip

-----------------------------------------------------------------------------
(* VLQ.                                                                    *)

\* The equations by which the groups of a number, and the number of the groups
\* that start at a position, are defined, and the functions they define.
GroupsStep(v, g) == IF v < 128 THEN <<v>> ELSE <<128 + (v % 128)>> \o g[v \div 128]
NumberStep(buf, i, f) ==
    IF i > Len(buf) THEN [value |-> 0, next |-> i]
    ELSE IF buf[i] < 128 THEN [value |-> buf[i], next |-> i + 1]
    ELSE [value |-> buf[i] - 128 + 128 * f[i + 1].value, next |-> f[i + 1].next]
NumberTable(buf) == CHOOSE f : f = [i \in Nat \ {0} |-> NumberStep(buf, i, f)]

LEMMA DivMod128 ==
    ASSUME NEW v \in Nat
    PROVE  /\ v \div 128 \in Nat /\ v % 128 \in 0..127
           /\ v = 128 * (v \div 128) + (v % 128)
           /\ v >= 128 => v \div 128 < v /\ v \div 128 # 0
OBVIOUS

LEMMA GroupsUnfolded ==
    \A v \in Nat : Groups[v] = GroupsStep(v, Groups)
<1> DEFINE T == Seq(Byte)
           m == [v \in Nat |-> v]
           F == [x \in Nat \X [Nat -> T] |-> GroupsStep(x[1], x[2])]
<1>1. \A v \in Nat, f \in [Nat -> T] : GroupsStep(v, f) \in T
  <2> SUFFICES ASSUME NEW v \in Nat, NEW f \in [Nat -> T] PROVE GroupsStep(v, f) \in Seq(Byte)
    OBVIOUS
  <2>1. CASE v < 128
    BY <2>1 DEF GroupsStep, Byte
  <2>2. CASE v >= 128
    <3>1. 128 + (v % 128) \in Byte /\ f[v \div 128] \in Seq(Byte)
      BY <2>2, DivMod128 DEF Byte
    <3>2. <<128 + (v % 128)>> \in Seq(Byte)
      BY <3>1
    <3>3. <<128 + (v % 128)>> \o f[v \div 128] \in Seq(Byte)
      BY <3>1, <3>2, ConcatProperties
    <3> QED BY <2>2, <3>3 DEF GroupsStep
  <2> QED BY <2>1, <2>2
<1>2. F \in [Nat \X [Nat -> T] -> T]
  BY <1>1
<1>3. \A v \in Nat, f \in [Nat -> T] : F[<<v, f>>] = GroupsStep(v, f)
  OBVIOUS
<1>4. m \in [Nat -> Nat] /\ \A v \in Nat : m[v] = v
  OBVIOUS
<1>5. T # {}
  BY EmptySeq
<1> HIDE DEF F, m, T
<1>6. Descends(F, m, Nat, T)
  <2> SUFFICES ASSUME NEW v \in Nat, NEW f \in [Nat -> T], NEW g \in [Nat -> T],
                      \A u \in Nat : m[u] < m[v] => f[u] = g[u]
               PROVE  F[<<v, f>>] = F[<<v, g>>]
    BY DEF Descends
  <2>1. v >= 128 => f[v \div 128] = g[v \div 128]
    BY <1>4, DivMod128
  <2>2. GroupsStep(v, f) = GroupsStep(v, g)
    BY <2>1 DEF GroupsStep
  <2> QED BY <1>3, <2>2
<1>7. PICK f : Solves(f, F, Nat, T)
  BY <1>2, <1>4, <1>5, <1>6, RecursionByMeasure
<1>8. f = [v \in Nat |-> GroupsStep(v, f)]
  BY <1>3, <1>7 DEF Solves
<1> DEFINE G == CHOOSE g : g = [v \in Nat |-> GroupsStep(v, g)]
<1>9. G = [v \in Nat |-> GroupsStep(v, G)]
  BY <1>8
<1>10. Groups = G
  BY DEF Groups, GroupsStep
<1> QED BY <1>9, <1>10

\* A number that was read and the position after it.
Got(v, n) == [value |-> v, next |-> n]
Numbers == [value : Nat, next : Nat \ {0}]
LEMMA GotFacts ==
    ASSUME NEW v, NEW n
    PROVE  /\ Got(v, n).value = v /\ Got(v, n).next = n
           /\ v \in Nat /\ n \in Nat \ {0} => Got(v, n) \in Numbers
BY DEF Got, Numbers
LEMMA NumberFields ==
    ASSUME NEW x \in Numbers PROVE x.value \in Nat /\ x.next \in Nat \ {0}
BY DEF Numbers

LEMMA ByteAt ==
    ASSUME NEW buf \in Seq(Byte), NEW i \in Nat \ {0}, i <= Len(buf) PROVE buf[i] \in 0..255
<1>1. i \in 1..Len(buf)
  OBVIOUS
<1>2. buf[i] \in Byte
  BY <1>1
<1> QED BY <1>2 DEF Byte

LEMMA NumberSteps ==
    ASSUME NEW buf \in Seq(Byte), NEW i \in Nat \ {0}, NEW f
    PROVE  /\ i > Len(buf) => NumberStep(buf, i, f) = Got(0, i)
           /\ i <= Len(buf) /\ buf[i] < 128 =>
                buf[i] \in 0..127 /\ NumberStep(buf, i, f) = Got(buf[i], i + 1)
           /\ i <= Len(buf) /\ ~(buf[i] < 128) =>
                /\ buf[i] \in 128..255
                /\ NumberStep(buf, i, f) = Got(buf[i] - 128 + 128 * f[i + 1].value, f[i + 1].next)
<1>1. CASE i > Len(buf)
  BY <1>1 DEF NumberStep, Got
<1>2. CASE i <= Len(buf)
  <2> DEFINE b == buf[i]
             more == Got(b - 128 + 128 * f[i + 1].value, f[i + 1].next)
             one == Got(b, i + 1)
  <2>1. ~(i > Len(buf)) /\ b \in 0..255
    BY <1>2, ByteAt
  <2>2. NumberStep(buf, i, f) = IF b < 128 THEN one ELSE more
    BY <2>1 DEF NumberStep, Got
  <2> HIDE DEF b, more, one
  <2>3. b < 128 => b \in 0..127 /\ NumberStep(buf, i, f) = one
    BY <2>1, <2>2
  <2>4. ~(b < 128) => b \in 128..255 /\ NumberStep(buf, i, f) = more
    BY <2>1, <2>2
  <2> QED BY <2>1, <2>3, <2>4, Zenon DEF b, more, one
<1> QED BY <1>1, <1>2

LEMMA MoreBytes ==
    ASSUME NEW b \in 128..255, NEW y \in Nat PROVE b - 128 + 128 * y \in Nat
OBVIOUS

LEMMA NumberStepType ==
    ASSUME NEW buf \in Seq(Byte), NEW i \in Nat \ {0}, NEW f, i <= Len(buf) => f[i + 1] \in Numbers
    PROVE  NumberStep(buf, i, f) \in Numbers
<1>0. i \in Nat \ {0} /\ i + 1 \in Nat \ {0} /\ 0 \in Nat
  OBVIOUS
<1>1. CASE i > Len(buf)
  <2>1. NumberStep(buf, i, f) = Got(0, i)
    BY <1>1, NumberSteps
  <2> QED BY <1>0, <2>1, GotFacts
<1>2. CASE i <= Len(buf) /\ buf[i] < 128
  <2>1. buf[i] \in 0..127 /\ NumberStep(buf, i, f) = Got(buf[i], i + 1)
    BY <1>2, NumberSteps
  <2>2. \A b \in 0..127 : b \in Nat
    OBVIOUS
  <2>3. buf[i] \in Nat
    BY <2>1, <2>2, Zenon
  <2>4. Got(buf[i], i + 1) \in Numbers
    BY <1>0, <2>3, GotFacts
  <2> QED BY <2>1, <2>4, Zenon
<1>3. CASE i <= Len(buf) /\ ~(buf[i] < 128)
  <2> DEFINE v == buf[i] - 128 + 128 * f[i + 1].value
             n == f[i + 1].next
  <2>1. buf[i] \in 128..255 /\ NumberStep(buf, i, f) = Got(v, n)
    BY <1>3, NumberSteps
  <2>2. f[i + 1].value \in Nat /\ n \in Nat \ {0}
    BY <1>3, NumberFields
  <2>3. v \in Nat
    BY <2>1, <2>2, MoreBytes
  <2> HIDE DEF v, n
  <2>4. Got(v, n) \in Numbers
    BY <2>2, <2>3, GotFacts
  <2> QED BY <2>1, <2>4, Zenon
<1>4. i > Len(buf) \/ i <= Len(buf)
  OBVIOUS
<1> QED BY <1>1, <1>2, <1>3, <1>4, Zenon

LEMMA NumberUnfolded ==
    ASSUME NEW buf \in Seq(Byte)
    PROVE  \A i \in Nat \ {0} : decodeVLQ(buf, i) = NumberStep(buf, i, NumberTable(buf))
                             /\ NumberTable(buf)[i] = decodeVLQ(buf, i)
<1> DEFINE S == Nat \ {0}
           T == Numbers
           m == [i \in S |-> IF i > Len(buf) THEN 0 ELSE Len(buf) + 1 - i]
           F == [x \in S \X [S -> T] |-> NumberStep(buf, x[1], x[2])]
<1>1. \A i \in S, f \in [S -> T] : NumberStep(buf, i, f) \in T
  <2> SUFFICES ASSUME NEW i \in S, NEW f \in [S -> T] PROVE NumberStep(buf, i, f) \in T
    OBVIOUS
  <2>1. i + 1 \in S
    OBVIOUS
  <2>2. f[i + 1] \in T
    BY <2>1
  <2> QED BY <2>2, NumberStepType
<1>2. F \in [S \X [S -> T] -> T]
  BY <1>1
<1>3. \A i \in S, f \in [S -> T] : F[<<i, f>>] = NumberStep(buf, i, f)
  OBVIOUS
<1>4. m \in [S -> Nat] /\ \A i \in S : i <= Len(buf) => m[i + 1] < m[i]
  OBVIOUS
<1>5. T # {}
  <2>1. Got(0, 1) \in T
    BY GotFacts
  <2> QED BY <2>1
<1> HIDE DEF F, m, T
<1>6. Descends(F, m, S, T)
  <2> SUFFICES ASSUME NEW i \in S, NEW f \in [S -> T], NEW g \in [S -> T],
                      \A u \in S : m[u] < m[i] => f[u] = g[u]
               PROVE  F[<<i, f>>] = F[<<i, g>>]
    BY DEF Descends
  <2>1. i <= Len(buf) => f[i + 1] = g[i + 1]
    BY <1>4
  <2>2. NumberStep(buf, i, f) = NumberStep(buf, i, g)
    BY <2>1 DEF NumberStep
  <2> QED BY <1>3, <2>2
<1>7. PICK f : Solves(f, F, S, T)
  BY <1>2, <1>4, <1>5, <1>6, RecursionByMeasure
<1>8. f = [i \in S |-> NumberStep(buf, i, f)]
  BY <1>3, <1>7 DEF Solves
<1>9. NumberTable(buf) = [i \in S |-> NumberStep(buf, i, NumberTable(buf))]
  BY <1>8 DEF NumberTable
<1>10. \A i \in S : decodeVLQ(buf, i) = NumberTable(buf)[i]
  BY DEF decodeVLQ, NumberTable, NumberStep
<1> QED BY <1>9, <1>10

LEMMA NumberType ==
    ASSUME NEW buf \in Seq(Byte), NEW i \in Nat \ {0}
    PROVE  decodeVLQ(buf, i).value \in Nat /\ decodeVLQ(buf, i).next \in Nat \ {0}
<1> DEFINE S == Nat \ {0}
           t == NumberTable(buf)
           Typed(j) == t[j] \in Numbers
           P == {n \in Nat : \A j \in S : Len(buf) - j < n => Typed(j)}
<1>0. \A j \in S : t[j] = NumberStep(buf, j, t)
  BY NumberUnfolded
<1> HIDE DEF t
<1>1. ASSUME NEW j \in S, j <= Len(buf) => Typed(j + 1) PROVE Typed(j)
  <2>1. NumberStep(buf, j, t) \in Numbers
    BY <1>1, NumberStepType
  <2> QED BY <1>0, <2>1
<1> HIDE DEF Typed
<1>2. 0 \in P
  <2> SUFFICES ASSUME NEW j \in S, Len(buf) - j < 0 PROVE Typed(j)
    OBVIOUS
  <2>1. ~(j <= Len(buf))
    OBVIOUS
  <2> QED BY <1>1, <2>1
<1>3. ASSUME NEW n \in Nat, n \in P PROVE n + 1 \in P
  <2> SUFFICES ASSUME NEW j \in S, Len(buf) - j < n + 1 PROVE Typed(j)
    OBVIOUS
  <2>1. j + 1 \in S /\ Len(buf) - (j + 1) < n
    OBVIOUS
  <2>2. Typed(j + 1)
    BY <1>3, <2>1
  <2> QED BY <1>1, <2>2
<1>4. Nat \subseteq P
  <2> HIDE DEF P
  <2> QED BY <1>2, <1>3, NaturalInduction
<1>5. Len(buf) + 1 \in P /\ Len(buf) - i < Len(buf) + 1
  <2>1. Len(buf) + 1 \in Nat /\ Len(buf) - i < Len(buf) + 1
    OBVIOUS
  <2> HIDE DEF P
  <2> QED BY <1>4, <2>1
<1>6. Typed(i)
  BY <1>5
<1>7. decodeVLQ(buf, i) = t[i]
  BY NumberUnfolded DEF t
<1> QED BY <1>6, <1>7, NumberFields DEF Typed

-----------------------------------------------------------------------------
(* What stands in a buffer.                                                *)

\* The bytes s stand in buf from position i on.
Holds(buf, i, s) ==
    i + Len(s) - 1 <= Len(buf) /\ \A k \in 1..Len(s) : buf[i + k - 1] = s[k]

LEMMA ConcatBytes ==
    \A s, t \in Seq(Byte) : s \o t \in Seq(Byte) /\ Len(s \o t) = Len(s) + Len(t) /\ Len(s) \in Nat
<1> SUFFICES ASSUME NEW s \in Seq(Byte), NEW t \in Seq(Byte)
             PROVE  s \o t \in Seq(Byte) /\ Len(s \o t) = Len(s) + Len(t) /\ Len(s) \in Nat
  OBVIOUS
<1> QED BY ConcatProperties

LEMMA AssociateBytes ==
    \A s, t, u \in Seq(Byte) : (s \o t) \o u = s \o (t \o u)
<1> SUFFICES ASSUME NEW s \in Seq(Byte), NEW t \in Seq(Byte), NEW u \in Seq(Byte)
             PROVE  (s \o t) \o u = s \o (t \o u)
  OBVIOUS
<1> QED BY ConcatAssociative

LEMMA HoldsParts ==
    ASSUME NEW buf \in Seq(Byte), NEW i \in Nat \ {0}, NEW s \in Seq(Byte), NEW t \in Seq(Byte),
           Holds(buf, i, s \o t), NEW j, j = i + Len(s)
    PROVE  Holds(buf, i, s) /\ Holds(buf, j, t)
<1> DEFINE u == s \o t
<1>1. /\ u \in Seq(Byte) /\ Len(u) = Len(s) + Len(t)
      /\ \A k \in 1..Len(s) : u[k] = s[k]
      /\ \A k \in 1..Len(t) : u[Len(s) + k] = t[k]
  BY ConcatProperties
<1>2. i + Len(u) - 1 <= Len(buf) /\ \A k \in 1..Len(u) : buf[i + k - 1] = u[k]
  BY DEF Holds
<1> HIDE DEF u
<1>3. Holds(buf, i, s)
  BY <1>1, <1>2 DEF Holds
<1>4. ASSUME NEW k \in 1..Len(t) PROVE buf[i + Len(s) + k - 1] = t[k]
  <2>1. Len(s) + k \in 1..Len(u) /\ i + Len(s) + k - 1 = i + (Len(s) + k) - 1
    BY <1>1
  <2> QED BY <1>1, <1>2, <2>1
<1>5. Holds(buf, i + Len(s), t)
  BY <1>1, <1>2, <1>4 DEF Holds
<1> QED BY <1>3, <1>5

LEMMA HoldsFirst ==
    \A buf, s, t \in Seq(Byte) :
       Holds(buf, 1, s \o t) =>
         Holds(buf, 1, s) /\ Holds(buf, 1 + Len(s), t)
<1> SUFFICES ASSUME NEW buf \in Seq(Byte), NEW s \in Seq(Byte), NEW t \in Seq(Byte), Holds(buf, 1, s \o t)
             PROVE  Holds(buf, 1, s) /\ Holds(buf, 1 + Len(s), t)
  OBVIOUS
<1> DEFINE one == 1
<1>1. one \in Nat \ {0} /\ Holds(buf, one, s \o t) /\ one = 1
  OBVIOUS
<1> HIDE DEF one
<1>2. Holds(buf, one, s) /\ \A j \in Nat \ {0} : j = one + Len(s) => Holds(buf, j, t)
  BY <1>1, HoldsParts
<1>3. 1 + Len(s) \in Nat \ {0}
  OBVIOUS
<1> QED BY <1>1, <1>2, <1>3

(* Whatever follows, the bytes of a number are read as the number, up to the *)
(* position after them.                                                      *)
THEOREM VlqRoundTrip ==
    \A w \in Nat : /\ encodeVLQ(w) \in Seq(Byte) /\ encodeVLQ(w) # <<>>
                   /\ w # 1 => encodeVLQ(w)[1] # 1
                   /\ \A buf \in Seq(Byte), i \in Nat \ {0} :
                        Holds(buf, i, encodeVLQ(w)) =>
                          /\ decodeVLQ(buf, i).value = w
                          /\ decodeVLQ(buf, i).next = i + Len(encodeVLQ(w))
<1> DEFINE Back(w) == \A buf \in Seq(Byte), i \in Nat \ {0} :
                        Holds(buf, i, encodeVLQ(w)) =>
                          /\ decodeVLQ(buf, i).value = w
                          /\ decodeVLQ(buf, i).next = i + Len(encodeVLQ(w))
           P == {w \in Nat : /\ encodeVLQ(w) \in Seq(Byte) /\ encodeVLQ(w) # <<>>
                             /\ w # 1 => encodeVLQ(w)[1] # 1
                             /\ Back(w)}
<1>1. \A w \in Nat : encodeVLQ(w) = IF w < 128 THEN <<w>> ELSE <<128 + (w % 128)>> \o encodeVLQ(w \div 128)
  <2> SUFFICES ASSUME NEW w \in Nat
               PROVE  encodeVLQ(w) = IF w < 128 THEN <<w>> ELSE <<128 + (w % 128)>> \o encodeVLQ(w \div 128)
    OBVIOUS
  <2>1. ~(w < 0) /\ ~(w \div 128 < 0) /\ w \div 128 \in Nat
    BY DivMod128
  <2>2. encodeVLQ(w) = Groups[w] /\ encodeVLQ(w \div 128) = Groups[w \div 128]
    BY <2>1 DEF encodeVLQ
  <2> QED BY <2>2, GroupsUnfolded DEF GroupsStep
<1>2. ASSUME NEW w \in Nat, \A k \in 0..(w - 1) : k \in P PROVE w \in P
  <2>1. CASE w < 128
    <3>1. encodeVLQ(w) = <<w>>
      BY <1>1, <2>1
    <3>2. <<w>> \in Seq(Byte) /\ Len(<<w>>) = 1 /\ <<w>>[1] = w
      BY <2>1 DEF Byte
    <3>3. ASSUME NEW buf \in Seq(Byte), NEW i \in Nat \ {0}, Holds(buf, i, <<w>>)
          PROVE  decodeVLQ(buf, i).value = w /\ decodeVLQ(buf, i).next = i + 1
      <4>1. i <= Len(buf) /\ buf[i] = w
        BY <3>2, <3>3 DEF Holds
      <4>2. NumberStep(buf, i, NumberTable(buf)) = [value |-> w, next |-> i + 1]
        BY <2>1, <4>1 DEF NumberStep
      <4> QED BY <4>2, NumberUnfolded
    <3>4. Back(w)
      BY <3>1, <3>2, <3>3
    <3> HIDE DEF Back
    <3>5. encodeVLQ(w) \in Seq(Byte) /\ encodeVLQ(w) # <<>> /\ (w # 1 => encodeVLQ(w)[1] # 1)
      BY <3>1, <3>2
    <3> QED BY <3>4, <3>5
  <2>2. CASE w >= 128
    <3> DEFINE q == w \div 128
               r == w % 128
               rest == encodeVLQ(q)
               b == <<128 + r>>
    <3>1. q \in Nat /\ r \in 0..127 /\ w = 128 * q + r /\ q \in 0..(w - 1) /\ ~(w < 128)
      BY <2>2, DivMod128
    <3>2. encodeVLQ(w) = b \o rest
      BY <1>1, <3>1
    <3>3. rest \in Seq(Byte) /\ rest # <<>> /\ Back(q)
      BY <1>2, <3>1
    <3>4. b \in Seq(Byte) /\ Len(b) = 1 /\ b[1] = 128 + r
      BY <3>1 DEF Byte
    <3>5. /\ b \o rest \in Seq(Byte) /\ Len(b \o rest) = 1 + Len(rest)
          /\ (b \o rest)[1] = 128 + r
      BY <3>3, <3>4, ConcatProperties
    <3> HIDE DEF q, r, b, Back
    <3>6. ASSUME NEW buf \in Seq(Byte), NEW i \in Nat \ {0}, Holds(buf, i, b \o rest)
          PROVE  decodeVLQ(buf, i).value = w /\ decodeVLQ(buf, i).next = i + (1 + Len(rest))
      <4>1. Holds(buf, i, b) /\ Holds(buf, i + 1, rest)
        BY <3>3, <3>4, <3>6, HoldsParts
      <4>2. i <= Len(buf) /\ buf[i] = 128 + r
        BY <3>4, <4>1 DEF Holds
      <4>3. decodeVLQ(buf, i + 1).value = q /\ decodeVLQ(buf, i + 1).next = i + 1 + Len(rest)
        BY <3>3, <4>1 DEF Back
      <4> HIDE DEF rest
      <4> DEFINE t == NumberTable(buf)
      <4>4. t[i + 1] = decodeVLQ(buf, i + 1)
        BY NumberUnfolded
      <4>5. NumberStep(buf, i, t) = [value |-> buf[i] - 128 + 128 * t[i + 1].value,
                                     next |-> t[i + 1].next]
        BY <3>1, <4>2 DEF NumberStep
      <4>6. decodeVLQ(buf, i) = NumberStep(buf, i, t)
        BY NumberUnfolded
      <4> HIDE DEF t
      <4>7. buf[i] - 128 + 128 * t[i + 1].value = w
        BY <3>1, <4>2, <4>3, <4>4
      <4>8. Len(rest) \in Nat
        BY <3>3
      <4> QED BY <4>3, <4>4, <4>5, <4>6, <4>7, <4>8
    <3>7. Back(w)
      BY <3>2, <3>5, <3>6 DEF Back
    <3>8. encodeVLQ(w) # <<>> /\ encodeVLQ(w)[1] # 1
      BY <3>1, <3>2, <3>5, <3>3
    <3> QED BY <3>2, <3>5, <3>7, <3>8
  <2> QED BY <2>1, <2>2
<1>3. Nat \subseteq P
  <2> HIDE DEF P
  <2> QED BY <1>2, StrongInduction
<1> QED BY <1>3

-----------------------------------------------------------------------------
(* Numbers, bytes and Booleans in a register.                              *)

\* A part that holds no other value, and that every reader has to give back.
PlainLeaf(p) ==
    \/ p[1] = "Int" /\ p = <<"Int", p[2]>> /\ p[2] \in Int /\ InRange(p[2], IntHalf)
    \/ p[1] = "Long" /\ p = <<"Long", p[2]>> /\ p[2] \in Int /\ InRange(p[2], LongHalf)
    \/ p[1] = "Coll" /\ p = <<"Coll", p[2]>> /\ p[2] \in Seq(Byte)
    \/ p[1] = "Boolean" /\ p = <<"Boolean", p[2]>> /\ p[2] \in BOOLEAN

\* In range every writer gives the VLQ the same number.
LEMMA Words ==
    /\ \A n \in Int : InRange(n, IntHalf) =>
          /\ zigZagEncode(n, IntHalf) \in Nat
          /\ \A w \in Writers : IntWord(w, n) = zigZagEncode(n, IntHalf)
          /\ Unsigned(zigZagEncode(n, IntHalf), IntHalf) = zigZagEncode(n, IntHalf)
          /\ zigZagDecode(zigZagEncode(n, IntHalf)) = n
    /\ \A n \in Int : InRange(n, LongHalf) =>
          /\ zigZagEncode(n, LongHalf) \in Nat
          /\ \A w \in Writers : LongWord(w, n) = zigZagEncode(n, LongHalf)
          /\ zigZagDecode(zigZagEncode(n, LongHalf)) = n
<1>0. IntHalf \in Nat \ {0} /\ LongHalf \in Nat \ {0}
  BY RegistersAssumption
<1>1. ASSUME NEW n \in Int, InRange(n, IntHalf)
      PROVE  /\ zigZagEncode(n, IntHalf) \in Nat
             /\ \A w \in Writers : IntWord(w, n) = zigZagEncode(n, IntHalf)
             /\ Unsigned(zigZagEncode(n, IntHalf), IntHalf) = zigZagEncode(n, IntHalf)
             /\ zigZagDecode(zigZagEncode(n, IntHalf)) = n
  <2>1. /\ Wrap(n, IntHalf) = n
        /\ Unsigned(zigZagEncode(n, IntHalf), IntHalf) = zigZagEncode(n, IntHalf)
    BY <1>0, <1>1, WritersAgree
  <2>2. /\ zigZagEncode(n, IntHalf) \in 0 .. 2 * IntHalf - 1
        /\ zigZagDecode(zigZagEncode(n, IntHalf)) = n
    BY <1>0, <1>1, ZigZagRoundTrip
  <2>3. zigZagEncode(n, IntHalf) \in Nat
    BY <1>0, <2>2
  <2>4. \A w \in Writers : IntWord(w, n) = zigZagEncode(n, IntHalf)
    BY <2>1 DEF IntWord, Writers
  <2> QED BY <2>1, <2>2, <2>3, <2>4
<1>2. ASSUME NEW n \in Int, InRange(n, LongHalf)
      PROVE  /\ zigZagEncode(n, LongHalf) \in Nat
             /\ \A w \in Writers : LongWord(w, n) = zigZagEncode(n, LongHalf)
             /\ zigZagDecode(zigZagEncode(n, LongHalf)) = n
  <2>1. Unsigned(zigZagEncode(n, LongHalf), LongHalf) = zigZagEncode(n, LongHalf)
    BY <1>0, <1>2, WritersAgree
  <2>2. /\ zigZagEncode(n, LongHalf) \in 0 .. 2 * LongHalf - 1
        /\ zigZagDecode(zigZagEncode(n, LongHalf)) = n
    BY <1>0, <1>2, ZigZagRoundTrip
  <2>3. zigZagEncode(n, LongHalf) \in Nat
    BY <1>0, <2>2
  <2>4. \A w \in Writers : LongWord(w, n) = zigZagEncode(n, LongHalf)
    BY <2>1 DEF LongWord, Writers
  <2> QED BY <2>1, <2>2, <2>3, <2>4
<1> QED BY <1>1, <1>2

\* A tag and a number, whatever follows.
LEMMA NumberRead ==
    ASSUME NEW buf \in Seq(Byte), NEW t \in Byte, NEW z \in Nat,
           Holds(buf, 1, <<t>> \o encodeVLQ(z))
    PROVE  /\ buf[1] = t /\ buf # <<>>
           /\ decodeVLQ(buf, 2).value = z
           /\ decodeVLQ(buf, 2).next - 1 = Len(<<t>> \o encodeVLQ(z))
<1> DEFINE tag == <<t>>
           e == encodeVLQ(z)
<1>1. tag \in Seq(Byte) /\ Len(tag) = 1 /\ tag[1] = t
  OBVIOUS
<1>2. e \in Seq(Byte)
  BY VlqRoundTrip
<1> HIDE DEF tag, e
<1>3. Holds(buf, 1, tag \o e)
  BY DEF tag, e
<1>4. Holds(buf, 1, tag) /\ Holds(buf, 2, e)
  <2>1. Holds(buf, 1, tag) /\ Holds(buf, 1 + Len(tag), e)
    BY <1>1, <1>2, <1>3, HoldsFirst
  <2> QED BY <1>1, <2>1
<1>5. 1 <= Len(buf) /\ buf[1] = t
  BY <1>1, <1>4 DEF Holds
<1>6. decodeVLQ(buf, 2).value = z /\ decodeVLQ(buf, 2).next = 2 + Len(e)
  BY <1>1, <1>4, VlqRoundTrip DEF e
<1>7. Len(tag \o e) = 1 + Len(e) /\ Len(e) \in Nat
  BY <1>1, <1>2, ConcatBytes
<1> QED BY <1>5, <1>6, <1>7 DEF tag, e

\* A length and as many bytes, whatever follows.
LEMMA BytesRead ==
    ASSUME NEW buf \in Seq(Byte), NEW data \in Seq(Byte), NEW k \in Nat \ {0}, LengthAt(buf) = k,
           Holds(buf, k, encodeVLQ(Len(data)) \o data)
    PROVE  /\ CollBytes(buf) = data
           /\ decodeVLQ(buf, k).value = Len(data)
           /\ decodeVLQ(buf, k).next = k + Len(encodeVLQ(Len(data)))
<1> DEFINE e == encodeVLQ(Len(data))
           next == k + Len(e)
<1>1. Len(data) \in Nat /\ e \in Seq(Byte) /\ Len(e) \in Nat
  BY VlqRoundTrip
<1>2. Holds(buf, k, e) /\ Holds(buf, next, data)
  BY <1>1, HoldsParts
<1>3. decodeVLQ(buf, k).value = Len(data) /\ decodeVLQ(buf, k).next = next
  BY <1>1, <1>2, VlqRoundTrip
<1>4. next \in Nat \ {0} /\ ~(next + Len(data) - 1 > Len(buf))
  BY <1>1, <1>2 DEF Holds
<1> HIDE DEF next, e
<1>5. CollBytes(buf) = SubSeq(buf, next, next + Len(data) - 1)
  BY <1>3, <1>4 DEF CollBytes
<1>6. \A j \in 1..Len(data) : buf[next + j - 1] = data[j]
  BY <1>2 DEF Holds
<1>7. SubSeq(buf, next, next + Len(data) - 1) = data
  <2> DEFINE s == SubSeq(buf, next, next + Len(data) - 1)
  <2>1. next + Len(data) - 1 <= Len(buf) /\ next + Len(data) - 1 >= next - 1
    BY <1>4
  <2>2. /\ s \in Seq(Byte) /\ Len(s) = Len(data)
        /\ \A j \in 1..Len(data) : s[j] = buf[next + j - 1]
    BY <1>4, <2>1
  <2>3. \A j \in 1..Len(s) : s[j] = data[j]
    BY <1>6, <2>2
  <2> HIDE DEF s
  <2>4. s = data
    BY <2>2, <2>3, SeqEqual
  <2> QED BY <2>4 DEF s
<1> QED BY <1>3, <1>5, <1>7 DEF next, e

\* The two formats of a collection.
LEMMA CollRead ==
    ASSUME NEW buf \in Seq(Byte), NEW data \in Seq(Byte),
           \/ Holds(buf, 1, serializeCollByte(data))
           \/ Holds(buf, 1, <<TColl>> \o encodeVLQ(Len(data)) \o data) /\ Len(data) # 1
    PROVE  /\ buf[1] = TColl /\ buf # <<>>
           /\ CollBytes(buf) = data
           /\ decodeVLQ(buf, LengthAt(buf)).value = Len(data)
           /\ decodeVLQ(buf, LengthAt(buf)).next = LengthAt(buf) + Len(encodeVLQ(Len(data)))
           /\ Holds(buf, 1, serializeCollByte(data)) => LengthAt(buf) = 3
           /\ ~Holds(buf, 1, serializeCollByte(data)) => LengthAt(buf) = 2
<1> DEFINE e == encodeVLQ(Len(data))
           tags == <<TColl, TSByte>>
           tag == <<TColl>>
           body == e \o data
<1>1. /\ tags \in Seq(Byte) /\ Len(tags) = 2 /\ tags[1] = 14 /\ tags[2] = 1
      /\ tag \in Seq(Byte) /\ Len(tag) = 1 /\ tag[1] = 14
  BY DEF TColl, TSByte, Byte
<1>2. Len(data) \in Nat /\ e \in Seq(Byte) /\ e # <<>> /\ (Len(data) # 1 => e[1] # 1)
  <2>1. Len(data) \in Nat
    OBVIOUS
  <2> QED BY <2>1, VlqRoundTrip
<1>3. Len(e) \in Nat \ {0}
  BY <1>2
<1>4. body \in Seq(Byte) /\ Len(body) = Len(e) + Len(data) /\ body[1] = e[1]
  BY <1>2, <1>3, ConcatProperties
<1>0. body = e \o data
  OBVIOUS
<1> HIDE DEF e, tags, tag, body
<1>5. serializeCollByte(data) = tags \o body /\ tag \o e \o data = tag \o body
  <2>1. serializeCollByte(data) = (tags \o e) \o data
    BY DEF serializeCollByte, tags, e
  <2>2. (tags \o e) \o data = tags \o (e \o data) /\ (tag \o e) \o data = tag \o (e \o data)
    BY <1>1, <1>2, AssociateBytes
  <2> QED BY <2>1, <2>2 DEF body
<1>6. CASE Holds(buf, 1, serializeCollByte(data))
  <2>1. Holds(buf, 1, tags) /\ Holds(buf, 3, body)
    <3>1. Holds(buf, 1, tags) /\ Holds(buf, 1 + Len(tags), body)
      BY <1>1, <1>4, <1>5, <1>6, HoldsFirst
    <3> QED BY <1>1, <3>1
  <2>2. 2 <= Len(buf) /\ buf[1] = 14 /\ buf[2] = 1
    BY <1>1, <2>1 DEF Holds
  <2>3. LengthAt(buf) = 3
    BY <2>2 DEF LengthAt, TSByte
  <2>4. Holds(buf, 3, e \o data)
    BY <1>1, <2>1 DEF body
  <2>5. /\ CollBytes(buf) = data
        /\ decodeVLQ(buf, 3).value = Len(data)
        /\ decodeVLQ(buf, 3).next = 3 + Len(e)
    BY <2>3, <2>4, BytesRead DEF e
  <2> QED BY <1>6, <2>2, <2>3, <2>5 DEF TColl, e
<1>7. CASE Holds(buf, 1, <<TColl>> \o encodeVLQ(Len(data)) \o data) /\ Len(data) # 1
  <2>1. Holds(buf, 1, tag \o body)
    BY <1>5, <1>7 DEF tag, e
  <2>2. Holds(buf, 1, tag) /\ Holds(buf, 2, body)
    <3>1. Holds(buf, 1, tag) /\ Holds(buf, 1 + Len(tag), body)
      BY <1>1, <1>4, <2>1, HoldsFirst
    <3> QED BY <1>1, <3>1
  <2>3. 2 <= Len(buf) /\ buf[1] = 14 /\ buf[2] = e[1]
    BY <1>1, <1>2, <1>3, <1>4, <2>2 DEF Holds
  <2>4. LengthAt(buf) = 2
    BY <1>2, <1>7, <2>3 DEF LengthAt, TSByte
  <2>5. Holds(buf, 2, e \o data)
    BY <1>1, <2>2 DEF body
  <2>6. /\ CollBytes(buf) = data
        /\ decodeVLQ(buf, 2).value = Len(data)
        /\ decodeVLQ(buf, 2).next = 2 + Len(e)
    BY <2>4, <2>5, BytesRead DEF e
  <2>7. ~Holds(buf, 1, serializeCollByte(data))
    <3> SUFFICES ASSUME Holds(buf, 1, serializeCollByte(data)) PROVE FALSE
      OBVIOUS
    <3>1. Holds(buf, 1, tags)
      BY <1>1, <1>4, <1>5, HoldsFirst
    <3>2. buf[2] = 1
      BY <1>1, <3>1 DEF Holds
    <3> QED BY <1>2, <1>7, <2>3, <3>2
  <2> QED BY <2>3, <2>4, <2>6, <2>7 DEF TColl, e
<1> QED BY <1>6, <1>7

\* What the SDK's readers do is told by the tag.
LEMMA LeafByTag ==
    ASSUME NEW buf
    PROVE  /\ buf[1] = 2 => deserializeLeaf(buf) =
                                Int_(zigZagDecode(Unsigned(decodeVLQ(buf, 2).value, IntHalf)))
           /\ buf[1] = 4 => deserializeLeaf(buf) = Long(Number(buf))
           /\ buf[1] = 14 => deserializeLeaf(buf) = Coll(CollBytes(buf))
           /\ buf[1] \in {6, 7} => deserializeLeaf(buf) = Boolean(buf[1] = 7)
BY DEF deserializeLeaf, TInt, TLong, TColl, TSigmaProp, TFalse, TTrue

LEMMA LengthByTag ==
    ASSUME NEW buf
    PROVE  /\ buf[1] \in {2, 4} => getSerializedValueLength(buf) = decodeVLQ(buf, 2).next - 1
           /\ buf[1] = 14 => getSerializedValueLength(buf) =
                decodeVLQ(buf, LengthAt(buf)).next - 1 + decodeVLQ(buf, LengthAt(buf)).value
           /\ buf[1] \in {6, 7} => getSerializedValueLength(buf) = 1
BY DEF getSerializedValueLength, TInt, TLong, TColl, TFalse, TTrue, TOption

(* A plain leaf is written, read and measured by the SDK, whatever follows.  *)
LEMMA LeafRead ==
    ASSUME NEW p, PlainLeaf(p)
    PROVE  /\ serializePart(p) \in Seq(Byte) /\ serializePart(p) # <<>>
           /\ \A buf \in Seq(Byte) :
                Holds(buf, 1, serializePart(p)) =>
                  /\ buf # <<>> /\ buf[1] \notin {TOption, TPair}
                  /\ deserializeLeaf(buf) = <<p>>
                  /\ getSerializedValueLength(buf) = Len(serializePart(p))
<1> DEFINE s == serializePart(p)
           Back(buf) == /\ buf # <<>> /\ buf[1] \notin {TOption, TPair}
                        /\ deserializeLeaf(buf) = <<p>>
                        /\ getSerializedValueLength(buf) = Len(s)
<1>0. "sdk" \in Writers /\ Byte = 0..255
  BY DEF Writers, Byte
<1>1. CASE p[1] = "Int"
  <2> DEFINE n == p[2]
             z == zigZagEncode(n, IntHalf)
  <2>1. p = <<"Int", n>> /\ n \in Int /\ InRange(n, IntHalf)
    BY <1>1 DEF PlainLeaf
  <2>2. /\ z \in Nat /\ IntWord("sdk", n) = z /\ Unsigned(z, IntHalf) = z
        /\ zigZagDecode(z) = n
    BY <1>0, <2>1, Words
  <2>3. s = <<TInt>> \o encodeVLQ(z)
    BY <1>1, <2>2 DEF serializePart
  <2>4. TInt \in Byte /\ TInt = 2 /\ encodeVLQ(z) \in Seq(Byte)
    BY <1>0, <2>2, VlqRoundTrip DEF TInt
  <2> HIDE DEF z
  <2>5. s \in Seq(Byte) /\ s # <<>>
    <3>1. <<TInt>> \in Seq(Byte) /\ <<TInt>> # <<>>
      BY <2>4
    <3> QED BY <2>3, <2>4, <3>1, ConcatProperties, ConcatEqualIffEmpty
  <2> HIDE DEF s
  <2>6. ASSUME NEW buf \in Seq(Byte), Holds(buf, 1, s) PROVE Back(buf)
    <3>1. /\ buf[1] = 2 /\ buf # <<>> /\ decodeVLQ(buf, 2).value = z
          /\ decodeVLQ(buf, 2).next - 1 = Len(s)
      BY <2>2, <2>3, <2>4, <2>6, NumberRead
    <3>2. deserializeLeaf(buf) = Int_(n)
      BY <2>2, <3>1, LeafByTag
    <3>3. getSerializedValueLength(buf) = Len(s)
      BY <3>1, LengthByTag
    <3>4. Int_(n) = <<p>>
      BY <2>1, Zenon DEF Int_
    <3> QED BY <3>1, <3>2, <3>3, <3>4 DEF TOption, TPair
  <2> QED BY <2>5, <2>6 DEF s
<1>2. CASE p[1] = "Long"
  <2> DEFINE n == p[2]
             z == zigZagEncode(n, LongHalf)
  <2>1. p = <<"Long", n>> /\ n \in Int /\ InRange(n, LongHalf)
    BY <1>2 DEF PlainLeaf
  <2>2. z \in Nat /\ LongWord("sdk", n) = z /\ zigZagDecode(z) = n
    BY <1>0, <2>1, Words
  <2>3. s = <<TLong>> \o encodeVLQ(z)
    BY <1>2, <2>2 DEF serializePart
  <2>4. TLong \in Byte /\ TLong = 4 /\ encodeVLQ(z) \in Seq(Byte)
    BY <1>0, <2>2, VlqRoundTrip DEF TLong
  <2> HIDE DEF z
  <2>5. s \in Seq(Byte) /\ s # <<>>
    <3>1. <<TLong>> \in Seq(Byte) /\ <<TLong>> # <<>>
      BY <2>4
    <3> QED BY <2>3, <2>4, <3>1, ConcatProperties, ConcatEqualIffEmpty
  <2> HIDE DEF s
  <2>6. ASSUME NEW buf \in Seq(Byte), Holds(buf, 1, s) PROVE Back(buf)
    <3>1. /\ buf[1] = 4 /\ buf # <<>> /\ decodeVLQ(buf, 2).value = z
          /\ decodeVLQ(buf, 2).next - 1 = Len(s)
      BY <2>2, <2>3, <2>4, <2>6, NumberRead
    <3>2. deserializeLeaf(buf) = Long(n)
      BY <2>2, <3>1, LeafByTag DEF Number
    <3>3. getSerializedValueLength(buf) = Len(s)
      BY <3>1, LengthByTag
    <3>4. Long(n) = <<p>>
      BY <2>1, Zenon DEF Long
    <3> QED BY <3>1, <3>2, <3>3, <3>4 DEF TOption, TPair
  <2> QED BY <2>5, <2>6 DEF s
<1>3. CASE p[1] = "Coll"
  <2> DEFINE data == p[2]
             e == encodeVLQ(Len(data))
  <2>1. p = <<"Coll", data>> /\ data \in Seq(Byte)
    BY <1>3 DEF PlainLeaf
  <2>2. s = serializeCollByte(data)
    BY <1>3 DEF serializePart
  <2>3. Len(data) \in Nat /\ e \in Seq(Byte) /\ Len(e) \in Nat
    BY <2>1, VlqRoundTrip
  <2>4. s \in Seq(Byte) /\ s # <<>> /\ Len(s) = 2 + Len(e) + Len(data)
    <3> DEFINE tags == <<TColl, TSByte>>
    <3>1. tags \in Seq(Byte) /\ Len(tags) = 2
      BY <1>0 DEF TColl, TSByte
    <3> HIDE DEF tags, e, data
    <3>2. s = tags \o e \o data
      BY <2>2 DEF serializeCollByte, tags, e
    <3> HIDE DEF s
    <3>3. tags \o e \in Seq(Byte) /\ Len(tags \o e) = 2 + Len(e)
      BY <2>3, <3>1, ConcatBytes
    <3>4. s \in Seq(Byte) /\ Len(s) = 2 + Len(e) + Len(data)
      BY <2>1, <2>3, <3>2, <3>3, ConcatBytes
    <3> QED BY <2>3, <3>4
  <2>5. ASSUME NEW buf \in Seq(Byte), Holds(buf, 1, s) PROVE Back(buf)
    <3>0. Holds(buf, 1, serializeCollByte(data))
      BY <2>2, <2>5
    <3>1. /\ buf[1] = TColl /\ buf # <<>> /\ CollBytes(buf) = data /\ LengthAt(buf) = 3
          /\ decodeVLQ(buf, 3).value = Len(data) /\ decodeVLQ(buf, 3).next = 3 + Len(e)
      BY <2>1, <3>0, CollRead
    <3> HIDE DEF s, e, data
    <3>2. deserializeLeaf(buf) = Coll(data)
      BY <3>1, LeafByTag DEF TColl
    <3>3. getSerializedValueLength(buf) = Len(s)
      <4>1. getSerializedValueLength(buf) = decodeVLQ(buf, 3).next - 1 + decodeVLQ(buf, 3).value
        BY <3>1, LengthByTag DEF TColl
      <4>2. Len(data) \in Nat /\ Len(e) \in Nat
        BY <2>3
      <4>3. getSerializedValueLength(buf) = 3 + Len(e) - 1 + Len(data)
        BY <3>1, <4>1
      <4>4. Len(s) = 2 + Len(e) + Len(data)
        BY <2>4
      <4> QED BY <4>2, <4>3, <4>4
    <3>4. Coll(data) = <<p>>
      BY <2>1, Zenon DEF Coll
    <3>5. buf[1] \notin {TOption, TPair}
      BY <3>1 DEF TOption, TPair, TColl
    <3> QED BY <3>1, <3>2, <3>3, <3>4, <3>5
  <2> QED BY <2>4, <2>5
<1>4. CASE p[1] = "Boolean"
  <2> DEFINE v == p[2]
             t == IF v THEN TTrue ELSE TFalse
  <2>1. p = <<"Boolean", v>> /\ v \in BOOLEAN
    BY <1>4, Zenon DEF PlainLeaf
  <2>2. s = <<t>>
    BY <1>4 DEF serializePart
  <2>3. t \in {6, 7} /\ t \in Byte
    BY <1>0 DEF TTrue, TFalse
  <2>4. (t = 7) <=> v
    BY <2>1 DEF TTrue, TFalse
  <2>5. Boolean(t = 7) = <<p>>
    BY <2>1, <2>4 DEF Boolean
  <2> HIDE DEF t, v
  <2>6. s \in Seq(Byte) /\ Len(s) = 1 /\ s[1] = t
    BY <2>2, <2>3
  <2> HIDE DEF s
  <2>7. ASSUME NEW buf \in Seq(Byte), Holds(buf, 1, s) PROVE Back(buf)
    <3>1. buf # <<>> /\ buf[1] = t
      BY <2>6, <2>7 DEF Holds
    <3>2. deserializeLeaf(buf) = Boolean(buf[1] = 7)
      BY <2>3, <3>1, LeafByTag
    <3>3. getSerializedValueLength(buf) = 1
      BY <2>3, <3>1, LengthByTag
    <3>4. deserializeLeaf(buf) = <<p>>
      BY <2>5, <3>1, <3>2
    <3> QED BY <2>3, <2>6, <3>1, <3>3, <3>4 DEF TOption, TPair
  <2> QED BY <2>6, <2>7 DEF s
<1>5. p[1] \in {"Int", "Long", "Coll", "Boolean"}
  BY DEF PlainLeaf
<1> QED BY <1>1, <1>2, <1>3, <1>4, <1>5, Zenon

-----------------------------------------------------------------------------
(* Values as sequences of parts.                                           *)

LEMMA PartCases ==
    ASSUME NEW p \in SPart
    PROVE  \/ p[1] = "Int" /\ p = <<"Int", p[2]>> /\ p[2] \in Int
           \/ p[1] = "Long" /\ p = <<"Long", p[2]>> /\ p[2] \in Int
           \/ p[1] = "Coll" /\ p = <<"Coll", p[2]>> /\ p[2] \in Seq(Byte)
           \/ p[1] = "SigmaProp"
           \/ p[1] = "Boolean" /\ p = <<"Boolean", p[2]>> /\ p[2] \in BOOLEAN
           \/ p[1] = "None" /\ p = <<"None">>
           \/ p[1] = "Some" /\ p = <<"Some">>
           \/ p[1] = "Pair" /\ p = <<"Pair">>
<1>1. CASE p \in {"Int", "Long"} \X Int
  BY <1>1
<1>2. CASE p \in {"Coll", "SigmaProp"} \X Seq(Byte)
  BY <1>2
<1>3. CASE p \in {"Boolean"} \X BOOLEAN
  BY <1>3
<1>4. CASE p \in {<<"None">>, <<"Some">>, <<"Pair">>}
  BY <1>4
<1> QED BY <1>1, <1>2, <1>3, <1>4 DEF SPart

PlainPart(p) ==
    PlainLeaf(p) \/ p = <<"None">> \/ p = <<"Some">> \/ p = <<"Pair">>

LEMMA PlainParts ==
    ASSUME NEW v \in SValue, Plain(v)
    PROVE  /\ v \in Seq(SPart)
           /\ \A i \in 1..Len(v) : PlainPart(v[i])
           /\ \A i \in 1..(Len(v) - 1) : v[i] = <<"Pair">> => PlainLeaf(v[i + 1])
<1>1. v \in Seq(SPart)
  BY DEF SValue
<1>2. ASSUME NEW i \in 1..Len(v)
      PROVE  /\ v[i] \in SPart
             /\ v[i][1] # "SigmaProp"
             /\ v[i][1] = "Pair" => v[i + 1][1] \notin {"Some", "None", "Pair"}
             /\ v[i][1] = "Int" => InRange(v[i][2], IntHalf)
             /\ v[i][1] = "Long" => InRange(v[i][2], LongHalf)
  <2>1. v[i] \in SPart /\ i \in DOMAIN v
    BY <1>1
  <2> QED BY <2>1 DEF Plain
<1>3. ASSUME NEW i \in 1..Len(v) PROVE PlainPart(v[i])
  <2>1. v[i] \in SPart
    BY <1>2
  <2> QED BY <1>2, <2>1, PartCases DEF PlainPart, PlainLeaf
<1>4. ASSUME NEW i \in 1..(Len(v) - 1), v[i] = <<"Pair">> PROVE PlainLeaf(v[i + 1])
  <2>1. i \in 1..Len(v) /\ i + 1 \in 1..Len(v)
    BY <1>1
  <2>2. v[i][1] = "Pair"
    BY <1>4
  <2>3. v[i + 1][1] \notin {"Some", "None", "Pair"}
    BY <1>2, <2>1, <2>2
  <2> QED BY <1>3, <2>1, <2>3 DEF PlainPart
<1> QED BY <1>1, <1>3, <1>4

\* What a part adds to the values still to come.
LEMMA ToComeStep ==
    ASSUME NEW v \in Seq(SPart)
    PROVE  /\ ToCome(v, 0) = 1
           /\ \A n \in 0..(Len(v) - 1) :
                  ToCome(v, n + 1) = ToCome(v, n) +
                      (IF v[n + 1][1] = "Pair" THEN 1 ELSE IF v[n + 1][1] = "Some" THEN 0 ELSE -1)
<1> DEFINE pairs(n) == {i \in 1..n : v[i][1] = "Pair"}
           leaves(n) == {i \in 1..n : v[i][1] \notin {"Pair", "Some"}}
<1>1. \A n \in Nat : /\ IsFiniteSet(pairs(n)) /\ Cardinality(pairs(n)) \in Nat
                     /\ IsFiniteSet(leaves(n)) /\ Cardinality(leaves(n)) \in Nat
  <2> SUFFICES ASSUME NEW n \in Nat
               PROVE  /\ IsFiniteSet(pairs(n)) /\ Cardinality(pairs(n)) \in Nat
                      /\ IsFiniteSet(leaves(n)) /\ Cardinality(leaves(n)) \in Nat
    OBVIOUS
  <2>1. IsFiniteSet(1..n)
    BY FS_Interval
  <2>2. pairs(n) \subseteq 1..n /\ leaves(n) \subseteq 1..n
    OBVIOUS
  <2> QED BY <2>1, <2>2, FS_Subset, FS_CardinalityType
<1>2. \A n : ToCome(v, n) = 1 + Cardinality(pairs(n)) - Cardinality(leaves(n))
  BY DEF ToCome
<1>3. ToCome(v, 0) = 1
  <2>1. pairs(0) = {} /\ leaves(0) = {}
    OBVIOUS
  <2>2. Cardinality({}) = 0
    BY FS_EmptySet
  <2> QED BY <1>2, <2>1, <2>2
<1>4. ASSUME NEW n \in 0..(Len(v) - 1)
      PROVE  ToCome(v, n + 1) = ToCome(v, n) +
                (IF v[n + 1][1] = "Pair" THEN 1 ELSE IF v[n + 1][1] = "Some" THEN 0 ELSE -1)
  <2>0. n \in Nat /\ n + 1 \in Nat
    OBVIOUS
  <2>1. CASE v[n + 1][1] = "Pair"
    <3>1. pairs(n + 1) = pairs(n) \cup {n + 1} /\ leaves(n + 1) = leaves(n) /\ n + 1 \notin pairs(n)
      BY <2>1
    <3>2. Cardinality(pairs(n + 1)) = Cardinality(pairs(n)) + 1
      BY <1>1, <2>0, <3>1, FS_AddElement
    <3> HIDE DEF pairs, leaves
    <3> QED BY <1>1, <1>2, <2>0, <2>1, <3>1, <3>2
  <2>2. CASE v[n + 1][1] = "Some"
    <3>1. pairs(n + 1) = pairs(n) /\ leaves(n + 1) = leaves(n)
      BY <2>2
    <3> HIDE DEF pairs, leaves
    <3>2. ToCome(v, n + 1) = ToCome(v, n) /\ ToCome(v, n) \in Int
      BY <1>1, <1>2, <2>0, <3>1
    <3>3. ToCome(v, n + 1) = ToCome(v, n) + 0
      BY <3>2
    <3>4. v[n + 1][1] # "Pair"
      BY <2>2
    <3> QED BY <2>2, <3>3, <3>4, Zenon
  <2>3. CASE v[n + 1][1] \notin {"Pair", "Some"}
    <3>1. leaves(n + 1) = leaves(n) \cup {n + 1} /\ pairs(n + 1) = pairs(n) /\ n + 1 \notin leaves(n)
      BY <2>3
    <3>2. Cardinality(leaves(n + 1)) = Cardinality(leaves(n)) + 1
      BY <1>1, <2>0, <3>1, FS_AddElement
    <3> HIDE DEF pairs, leaves
    <3>3. ToCome(v, n + 1) = ToCome(v, n) + (-1)
      BY <1>1, <1>2, <2>0, <3>1, <3>2
    <3>4. v[n + 1][1] # "Pair" /\ v[n + 1][1] # "Some"
      BY <2>3
    <3> QED BY <3>3, <3>4, Zenon
  <2> QED BY <2>1, <2>2, <2>3
<1> QED BY <1>3, <1>4

\* Where a value stands that nothing is to follow, and where it ends.
LEMMA Spine ==
    ASSUME NEW v \in SValue, Plain(v), NEW j \in 1..Len(v), ToCome(v, j - 1) = 1
    PROVE  /\ v[j] \notin {<<"Some">>, <<"Pair">>} => j = Len(v)
           /\ v[j] = <<"Some">> => j + 1 \in 1..Len(v) /\ ToCome(v, j) = 1
           /\ v[j] = <<"Pair">> => j + 1 \in 1..Len(v) /\ j + 2 \in 1..Len(v) /\ ToCome(v, j + 1) = 1
<1>0. v \in Seq(SPart) /\ \A n \in 0..Len(v) : ToCome(v, n) = 0 <=> n = Len(v)
  BY DEF SValue
<1>1. j - 1 \in 0..(Len(v) - 1) /\ j - 1 + 1 = j /\ j \in 0..Len(v) /\ v[j] \in SPart
  BY <1>0
<1>2. ToCome(v, j) = 1 + (IF v[j][1] = "Pair" THEN 1 ELSE IF v[j][1] = "Some" THEN 0 ELSE -1)
  <2> DEFINE n == j - 1
  <2>1. n \in 0..(Len(v) - 1) /\ n + 1 = j /\ ToCome(v, n) = 1
    BY <1>1
  <2> HIDE DEF n
  <2> QED BY <1>0, <2>1, ToComeStep
<1>3. CASE v[j] \notin {<<"Some">>, <<"Pair">>}
  <2>1. v[j][1] \notin {"Pair", "Some"}
    BY <1>1, <1>3, PartCases
  <2> QED BY <1>0, <1>1, <1>2, <1>3, <2>1
<1>4. CASE v[j] = <<"Some">>
  <2>1. v[j][1] = "Some"
    BY <1>4
  <2>2. ToCome(v, j) = 1 /\ j # Len(v)
    BY <1>0, <1>1, <1>2, <2>1
  <2> QED BY <1>1, <1>4, <2>2
<1>5. CASE v[j] = <<"Pair">>
  <2>1. v[j][1] = "Pair"
    BY <1>5
  <2>2. ToCome(v, j) = 2 /\ j # Len(v)
    BY <1>0, <1>1, <1>2, <2>1
  <2>3. j \in 0..(Len(v) - 1) /\ j \in 1..(Len(v) - 1) /\ j + 1 \in 0..Len(v)
    BY <1>1, <2>2
  <2>4. PlainLeaf(v[j + 1])
    BY <1>5, <2>3, PlainParts
  <2>5. v[j + 1][1] \notin {"Pair", "Some"}
    BY <2>4 DEF PlainLeaf
  <2>6. ToCome(v, j + 1) = 1
    BY <1>0, <2>2, <2>3, <2>5, ToComeStep
  <2>7. j + 1 # Len(v)
    BY <1>0, <2>3, <2>6
  <2> QED BY <1>5, <2>3, <2>6, <2>7
<1> QED BY <1>3, <1>4, <1>5

-----------------------------------------------------------------------------
(* The SDK's writer.                                                       *)

FromStep(v, f, i) == IF i > Len(v) THEN <<>> ELSE serializePart(v[i]) \o f[i + 1]
FromTable(v) == CHOOSE f : f = [i \in Nat \ {0} |-> FromStep(v, f, i)]

LEMMA PartBytes ==
    ASSUME NEW p, PlainPart(p)
    PROVE  serializePart(p) \in Seq(Byte) /\ serializePart(p) # <<>>
<1>1. CASE PlainLeaf(p)
  BY <1>1, LeafRead
<1>2. ASSUME NEW name \in {"None", "Some", "Pair"}, p = <<name>>
      PROVE  serializePart(p) \in Seq(Byte) /\ serializePart(p) # <<>>
  <2>1. p[1] = name
    BY <1>2
  <2>2. serializePart(p) \in {<<TOption>>, <<TPair>>}
    BY <2>1 DEF serializePart
  <2>3. <<11>> \in Seq(Byte) /\ <<11>> # <<>> /\ <<13>> \in Seq(Byte) /\ <<13>> # <<>>
    BY DEF Byte
  <2> QED BY <2>2, <2>3 DEF TOption, TPair
<1> QED BY <1>1, <1>2 DEF PlainPart

LEMMA Written ==
    ASSUME NEW v \in SValue, Plain(v)
    PROVE  /\ \A i \in 1..Len(v) : /\ FromTable(v)[i] = serializePart(v[i]) \o FromTable(v)[i + 1]
                                   /\ FromTable(v)[i] \in Seq(Byte)
                                   /\ FromTable(v)[i + 1] \in Seq(Byte)
           /\ FromTable(v)[Len(v) + 1] = <<>>
           /\ serializeSValue(v) = FromTable(v)[1]
<1> DEFINE S == Nat \ {0}
           T == Seq(Byte)
           m == [i \in S |-> IF i > Len(v) THEN 0 ELSE Len(v) + 1 - i]
           F == [x \in S \X [S -> T] |-> FromStep(v, x[2], x[1])]
           t == FromTable(v)
<1>0. v \in Seq(SPart) /\ \A i \in 1..Len(v) : serializePart(v[i]) \in Seq(Byte) /\ serializePart(v[i]) # <<>>
  BY PlainParts, PartBytes
<1>1. \A f : \A i \in S : (i <= Len(v) => f[i + 1] \in T) => FromStep(v, f, i) \in T
  <2> SUFFICES ASSUME NEW i \in S, NEW f, i <= Len(v) => f[i + 1] \in Seq(Byte)
               PROVE  FromStep(v, f, i) \in Seq(Byte)
    OBVIOUS
  <2>1. CASE i > Len(v)
    <3>1. FromStep(v, f, i) = <<>>
      BY <2>1 DEF FromStep
    <3> QED BY <3>1, EmptySeq
  <2>2. CASE i <= Len(v)
    <3>1. i \in 1..Len(v) /\ ~(i > Len(v))
      BY <1>0, <2>2
    <3>2. FromStep(v, f, i) = serializePart(v[i]) \o f[i + 1]
      BY <3>1 DEF FromStep
    <3>3. serializePart(v[i]) \in Seq(Byte) /\ f[i + 1] \in Seq(Byte)
      BY <1>0, <2>2, <3>1
    <3> QED BY <3>2, <3>3, ConcatBytes
  <2> QED BY <1>0, <2>1, <2>2
<1>2. F \in [S \X [S -> T] -> T]
  <2> SUFFICES ASSUME NEW i \in S, NEW f \in [S -> T] PROVE FromStep(v, f, i) \in T
    OBVIOUS
  <2>1. i + 1 \in S
    OBVIOUS
  <2>2. f[i + 1] \in T
    BY <2>1
  <2> QED BY <1>1, <2>2
<1>3. \A i \in S, f \in [S -> T] : F[<<i, f>>] = FromStep(v, f, i)
  OBVIOUS
<1>4. m \in [S -> Nat] /\ \A i \in S : i <= Len(v) => m[i + 1] < m[i]
  BY <1>0
<1>5. T # {}
  BY EmptySeq
<1> HIDE DEF F, m, T
<1>6. Descends(F, m, S, T)
  <2> SUFFICES ASSUME NEW i \in S, NEW f \in [S -> T], NEW g \in [S -> T],
                      \A u \in S : m[u] < m[i] => f[u] = g[u]
               PROVE  F[<<i, f>>] = F[<<i, g>>]
    BY DEF Descends
  <2>1. i <= Len(v) => f[i + 1] = g[i + 1]
    BY <1>4
  <2>2. FromStep(v, f, i) = FromStep(v, g, i)
    BY <1>0, <2>1 DEF FromStep
  <2> QED BY <1>3, <2>2
<1>7. PICK f : Solves(f, F, S, T)
  BY <1>2, <1>4, <1>5, <1>6, RecursionByMeasure
<1>8. f = [i \in S |-> FromStep(v, f, i)]
  BY <1>3, <1>7 DEF Solves
<1>9. t = [i \in S |-> FromStep(v, t, i)]
  BY <1>8 DEF FromTable
<1>10. serializeSValue(v) = t[1]
  <2>1. ~ \E i \in DOMAIN v : serializePart(v[i]) = NoBytes
    BY <1>0 DEF NoBytes
  <2> QED BY <2>1 DEF serializeSValue, FromTable, FromStep
<1> HIDE DEF t
<1>11. \A i \in S : t[i] = FromStep(v, t, i)
  BY <1>9
<1>12. Len(v) \in Nat /\ t[Len(v) + 1] = <<>>
  <2>1. Len(v) \in Nat /\ Len(v) + 1 \in S /\ Len(v) + 1 > Len(v)
    BY <1>0
  <2> QED BY <1>11, <2>1 DEF FromStep
<1> DEFINE P == {n \in Nat : \A i \in S : Len(v) - i < n => t[i] \in T}
<1>13. 0 \in P
  <2> SUFFICES ASSUME NEW i \in S, Len(v) - i < 0 PROVE t[i] \in T
    OBVIOUS
  <2>1. ~(i <= Len(v))
    BY <1>12
  <2> QED BY <1>1, <1>11, <2>1
<1>14. ASSUME NEW n \in Nat, n \in P PROVE n + 1 \in P
  <2> SUFFICES ASSUME NEW i \in S, Len(v) - i < n + 1 PROVE t[i] \in T
    OBVIOUS
  <2>1. i + 1 \in S /\ Len(v) - (i + 1) < n
    BY <1>12
  <2>2. t[i + 1] \in T
    BY <1>14, <2>1
  <2> QED BY <1>1, <1>11, <2>2
<1>15. Nat \subseteq P
  <2> HIDE DEF P
  <2> QED BY <1>13, <1>14, NaturalInduction
<1>16. ASSUME NEW i \in S PROVE t[i] \in T
  <2>1. Len(v) + 1 \in Nat /\ Len(v) - i < Len(v) + 1
    BY <1>12
  <2>2. Len(v) + 1 \in P
    <3> HIDE DEF P
    <3> QED BY <1>15, <2>1
  <2> QED BY <2>1, <2>2
<1>17. ASSUME NEW i \in 1..Len(v)
       PROVE  t[i] = serializePart(v[i]) \o t[i + 1] /\ t[i] \in T /\ t[i + 1] \in T
  <2>1. i \in S /\ i + 1 \in S /\ ~(i > Len(v))
    BY <1>12
  <2> QED BY <1>11, <1>16, <2>1 DEF FromStep
<1> QED BY <1>10, <1>12, <1>17 DEF t, T

-----------------------------------------------------------------------------
(* The SDK's reader.                                                       *)

\* What is left of a register from position i on.
Rest(buf, i) == SubSeq(buf, i, Len(buf))

LEMMA RestFacts ==
    ASSUME NEW buf \in Seq(Byte), NEW i \in Nat \ {0}
    PROVE  /\ Rest(buf, i) \in Seq(Byte)
           /\ Len(Rest(buf, i)) = IF i <= Len(buf) THEN Len(buf) - i + 1 ELSE 0
           /\ \A k \in 1..(Len(buf) - i + 1) : Rest(buf, i)[k] = buf[i + k - 1]
<1>1. i \in Int /\ Len(buf) \in Int /\ \A k \in i..Len(buf) : buf[k] \in Byte
  OBVIOUS
<1> QED BY <1>1, SubSeqProperties DEF Rest

\* What stands behind s.
Drops(buf, i, s, r, j) == Len(s) # 0 /\ Rest(buf, i) = s \o r /\ j = i + Len(s)
LEMMA RestDrops ==
    \A buf, s, r \in Seq(Byte), i \in Nat \ {0}, j \in Nat :
        Drops(buf, i, s, r, j) => j \in Nat \ {0} /\ Rest(buf, j) = r
<1> SUFFICES ASSUME NEW buf \in Seq(Byte), NEW s \in Seq(Byte), NEW r \in Seq(Byte),
                    NEW i \in Nat \ {0}, NEW j \in Nat, Drops(buf, i, s, r, j)
             PROVE  j \in Nat \ {0} /\ Rest(buf, j) = r
  OBVIOUS
<1>8. Len(s) # 0 /\ Rest(buf, i) = s \o r /\ j = i + Len(s)
  BY DEF Drops
<1> DEFINE u == s \o r
<1>1. /\ u \in Seq(Byte) /\ Len(u) = Len(s) + Len(r) /\ Len(s) \in Nat \ {0} /\ Len(r) \in Nat
      /\ \A k \in 1..Len(r) : u[Len(s) + k] = r[k]
  <2>1. Len(s) \in Nat \ {0} /\ Len(r) \in Nat
    BY <1>8
  <2> QED BY <2>1, ConcatProperties
<1>2. Rest(buf, i) = u /\ j = i + Len(s)
  BY <1>8
<1> HIDE DEF u
<1>0. Len(buf) \in Nat /\ i \in Nat \ {0}
  OBVIOUS
<1>3. i <= Len(buf) /\ Len(buf) - i + 1 = Len(s) + Len(r)
  <2>1. Len(Rest(buf, i)) = IF i <= Len(buf) THEN Len(buf) - i + 1 ELSE 0
    BY RestFacts
  <2>2. Len(Rest(buf, i)) = Len(s) + Len(r)
    BY <1>1, <1>2
  <2>3. i <= Len(buf)
    BY <1>1, <2>1, <2>2
  <2> QED BY <2>1, <2>2, <2>3
<1>4. j \in Nat \ {0} /\ Len(buf) - j + 1 = Len(r) /\ Len(buf) \in Nat
  BY <1>0, <1>1, <1>2, <1>3
<1>5. Rest(buf, j) \in Seq(Byte) /\ Len(Rest(buf, j)) = Len(r)
  <2>1. j \in Nat \ {0}
    BY <1>4
  <2>2. /\ Rest(buf, j) \in Seq(Byte)
        /\ Len(Rest(buf, j)) = IF j <= Len(buf) THEN Len(buf) - j + 1 ELSE 0
    BY <2>1, RestFacts
  <2>3. j <= Len(buf) <=> Len(r) # 0
    BY <1>0, <1>1, <1>4
  <2> QED BY <1>4, <2>2, <2>3
<1>6. ASSUME NEW k \in 1..Len(r) PROVE Rest(buf, j)[k] = r[k]
  <2>1. k \in 1..(Len(buf) - j + 1) /\ Len(s) + k \in 1..(Len(buf) - i + 1)
    BY <1>1, <1>3, <1>4
  <2>2. Rest(buf, j)[k] = buf[j + k - 1]
    BY <1>4, <2>1, RestFacts
  <2>3. u[Len(s) + k] = buf[i + (Len(s) + k) - 1]
    BY <1>2, <2>1, RestFacts
  <2>4. i + (Len(s) + k) - 1 = j + k - 1
    BY <1>1, <1>2
  <2> QED BY <1>1, <2>2, <2>3, <2>4
<1>7. Rest(buf, j) = r
  <2> DEFINE x == Rest(buf, j)
  <2>1. x \in Seq(Byte) /\ Len(x) = Len(r) /\ \A k \in 1..Len(x) : x[k] = r[k]
    BY <1>5, <1>6
  <2> HIDE DEF x
  <2>2. x = r
    BY <2>1, SeqEqual
  <2> QED BY <2>2 DEF x
<1> QED BY <1>4, <1>7

\* A register that starts with s holds it.
LEMMA StartHolds ==
    ASSUME NEW s \in Seq(Byte), NEW r \in Seq(Byte)
    PROVE  Holds(s \o r, 1, s)
<1>1. Len(s) \in Nat /\ Len(r) \in Nat
  OBVIOUS
<1> QED BY <1>1, ConcatProperties DEF Holds

ReadStep(buf, f, i) ==
    LET rest == Rest(buf, i)
        inner == f[i + 1]
        right == f[i + 1 + getSerializedValueLength(Tail(rest))]
    IN  CASE rest = <<>> -> Refused
          [] rest # <<>> /\ rest[1] = TOption ->
               IF Len(rest) = 1 THEN Nothing
               ELSE IF inner = Refused THEN Refused ELSE Some(inner)
          [] rest # <<>> /\ rest[1] = TPair ->
               IF inner = Refused THEN Refused
               ELSE IF right = Refused THEN Refused ELSE Pair(inner, right)
          [] rest # <<>> /\ rest[1] \notin {TOption, TPair} -> deserializeLeaf(rest)
ReadTable(buf) == CHOOSE f : f = [i \in Nat \ {0} |-> ReadStep(buf, f, i)]

LEMMA ReadSteps ==
    ASSUME NEW buf, NEW f, NEW i
    PROVE  /\ Rest(buf, i) = <<>> => ReadStep(buf, f, i) = Refused
           /\ Rest(buf, i) # <<>> /\ Rest(buf, i)[1] = 11 =>
                ReadStep(buf, f, i) = IF Len(Rest(buf, i)) = 1 THEN Nothing
                                      ELSE IF f[i + 1] = Refused THEN Refused ELSE Some(f[i + 1])
           /\ Rest(buf, i) # <<>> /\ Rest(buf, i)[1] = 13 =>
                ReadStep(buf, f, i) =
                  IF f[i + 1] = Refused THEN Refused
                  ELSE IF f[i + 1 + getSerializedValueLength(Tail(Rest(buf, i)))] = Refused THEN Refused
                  ELSE Pair(f[i + 1], f[i + 1 + getSerializedValueLength(Tail(Rest(buf, i)))])
           /\ Rest(buf, i) # <<>> /\ Rest(buf, i)[1] \notin {11, 13} =>
                ReadStep(buf, f, i) = deserializeLeaf(Rest(buf, i))
<1> DEFINE rest == Rest(buf, i)
<1> HIDE DEF rest
<1>1. rest = <<>> => ReadStep(buf, f, i) = Refused
  BY DEF ReadStep, rest, TOption, TPair
<1>2. rest # <<>> /\ rest[1] = 11 =>
                ReadStep(buf, f, i) = IF Len(rest) = 1 THEN Nothing
                                      ELSE IF f[i + 1] = Refused THEN Refused ELSE Some(f[i + 1])
  BY DEF ReadStep, rest, TOption, TPair
<1>3. rest # <<>> /\ rest[1] = 13 =>
                ReadStep(buf, f, i) =
                  IF f[i + 1] = Refused THEN Refused
                  ELSE IF f[i + 1 + getSerializedValueLength(Tail(rest))] = Refused THEN Refused
                  ELSE Pair(f[i + 1], f[i + 1 + getSerializedValueLength(Tail(rest))])
  BY DEF ReadStep, rest, TOption, TPair
<1>4. rest # <<>> /\ rest[1] \notin {11, 13} => ReadStep(buf, f, i) = deserializeLeaf(rest)
  BY DEF ReadStep, rest, TOption, TPair
<1> QED BY <1>1, <1>2, <1>3, <1>4 DEF rest

LEMMA LengthType ==
    ASSUME NEW buf \in Seq(Byte)
    PROVE  getSerializedValueLength(buf) \in Nat
<1> DEFINE at == LengthAt(buf)
<1>1. at \in Nat \ {0}
  BY DEF LengthAt
<1>2. /\ decodeVLQ(buf, 2).next \in Nat \ {0}
      /\ decodeVLQ(buf, at).next \in Nat \ {0} /\ decodeVLQ(buf, at).value \in Nat
  <2>1. \A k \in Nat \ {0} : decodeVLQ(buf, k).next \in Nat \ {0} /\ decodeVLQ(buf, k).value \in Nat
    BY NumberType
  <2>2. 2 \in Nat \ {0}
    OBVIOUS
  <2> HIDE DEF at
  <2> QED BY <1>1, <2>1, <2>2
<1>3. Len(buf) \in Nat
  OBVIOUS
<1> HIDE DEF at
<1> DEFINE x == decodeVLQ(buf, 2).next
           y == decodeVLQ(buf, at).next
           z == decodeVLQ(buf, at).value
<1>4. x - 1 \in Nat /\ y - 1 + z \in Nat
  <2> HIDE DEF x, y, z
  <2>1. x \in Nat \ {0} /\ y \in Nat \ {0} /\ z \in Nat
    BY <1>2 DEF x, y, z
  <2> QED BY <2>1
<1>5. getSerializedValueLength(buf) \in {1, x - 1, y - 1 + z, Len(buf)}
  BY DEF getSerializedValueLength, at
<1> HIDE DEF x, y, z
<1> QED BY <1>3, <1>4, <1>5

LEMMA LeafShape ==
    ASSUME NEW buf
    PROVE  deserializeLeaf(buf) = <<deserializeLeaf(buf)[1]>>
<1>1. \E x : deserializeLeaf(buf) = <<x>>
  BY DEF deserializeLeaf, Int_, Long, Coll, SigmaProp, Boolean, Refused
<1> QED BY <1>1

\* What a step makes of the values at later positions.
LEMMA ReadStepType ==
    ASSUME NEW buf \in Seq(Byte), NEW V,
           <<"None">> \in V, <<"Some">> \in V, <<"Pair">> \in V, <<"Refused">> \in V,
           \A k \in Nat \ {0} : deserializeLeaf(Rest(buf, k))[1] \in V,
           NEW f, \A k \in Nat \ {0} : f[k] \in Seq(V),
           NEW i \in Nat \ {0}
    PROVE  ReadStep(buf, f, i) \in Seq(V)
<1> DEFINE rest == Rest(buf, i)
           k == i + 1 + getSerializedValueLength(Tail(rest))
<1>1. rest \in Seq(Byte)
  BY RestFacts
<1>2. f[i + 1] \in Seq(V)
  OBVIOUS
<1>3. ASSUME NEW x \in Seq(V), NEW y \in Seq(V)
      PROVE  Refused \in Seq(V) /\ Nothing \in Seq(V) /\ Some(x) \in Seq(V) /\ Pair(x, y) \in Seq(V)
  BY <1>3 DEF Refused, Nothing, Some, Pair
<1>4. CASE rest = <<>>
  BY <1>2, <1>3, <1>4, ReadSteps
<1>5. CASE rest # <<>> /\ rest[1] = 11
  <2>1. ReadStep(buf, f, i) \in {Nothing, Refused, Some(f[i + 1])}
    BY <1>5, ReadSteps
  <2> HIDE DEF rest
  <2> QED BY <1>2, <1>3, <2>1
<1>6. CASE rest # <<>> /\ rest[1] = 13
  <2>1. Tail(rest) \in Seq(Byte)
    BY <1>1, <1>6
  <2>2. getSerializedValueLength(Tail(rest)) \in Nat
    BY <2>1, LengthType
  <2>3. k \in Nat \ {0}
    BY <2>2
  <2>4. f[k] \in Seq(V)
    BY <2>3
  <2>5. ReadStep(buf, f, i) \in {Refused, Pair(f[i + 1], f[k])}
    BY <1>6, ReadSteps
  <2> HIDE DEF rest, k
  <2> QED BY <1>2, <1>3, <2>4, <2>5
<1>7. CASE rest # <<>> /\ rest[1] \notin {11, 13}
  <2>1. ReadStep(buf, f, i) = deserializeLeaf(rest)
    BY <1>7, ReadSteps
  <2>2. deserializeLeaf(rest)[1] \in V
    OBVIOUS
  <2>3. deserializeLeaf(rest) = <<deserializeLeaf(rest)[1]>>
    BY LeafShape
  <2> DEFINE d == deserializeLeaf(rest)[1]
  <2>4. ReadStep(buf, f, i) = <<d>> /\ d \in V
    BY <2>1, <2>2, <2>3
  <2> HIDE DEF d
  <2> QED BY <2>4
<1> QED BY <1>4, <1>5, <1>6, <1>7

\* A step looks at later positions only.
LEMMA ReadStepLocal ==
    ASSUME NEW buf \in Seq(Byte), NEW f, NEW g, NEW i \in Nat \ {0},
           i <= Len(buf) => \A k \in Nat \ {0} : k > i => f[k] = g[k]
    PROVE  ReadStep(buf, f, i) = ReadStep(buf, g, i)
<1> DEFINE rest == Rest(buf, i)
           k == i + 1 + getSerializedValueLength(Tail(rest))
<1>1. rest \in Seq(Byte)
  BY RestFacts
<1>2. CASE rest = <<>>
  BY <1>2, ReadSteps
<1>3. CASE rest # <<>>
  <2>1. i <= Len(buf)
    <3>1. Len(rest) # 0
      BY <1>1, <1>3
    <3>2. Len(rest) = IF i <= Len(buf) THEN Len(buf) - i + 1 ELSE 0
      BY RestFacts
    <3> QED BY <3>1, <3>2
  <2>2. Tail(rest) \in Seq(Byte)
    BY <1>1, <1>3
  <2>3. getSerializedValueLength(Tail(rest)) \in Nat
    BY <2>2, LengthType
  <2>4. i + 1 \in Nat \ {0} /\ k \in Nat \ {0} /\ i + 1 > i /\ k > i
    BY <2>3
  <2>5. f[i + 1] = g[i + 1] /\ f[k] = g[k]
    <3> HIDE DEF k
    <3> QED BY <2>1, <2>4
  <2> HIDE DEF rest
  <2> QED BY <2>5 DEF ReadStep, rest
<1> QED BY <1>2, <1>3

LEMMA ReadUnfolded ==
    ASSUME NEW buf \in Seq(Byte)
    PROVE  /\ \A i \in Nat \ {0} : ReadTable(buf)[i] = ReadStep(buf, ReadTable(buf), i)
           /\ deserializeSValue(buf) = ReadTable(buf)[1]
<1> DEFINE S == Nat \ {0}
           V == {<<"None">>, <<"Some">>, <<"Pair">>, <<"Refused">>}
                \cup {deserializeLeaf(Rest(buf, k))[1] : k \in S}
           T == Seq(V)
           m == [i \in S |-> IF i > Len(buf) THEN 0 ELSE Len(buf) + 1 - i]
           F == [x \in S \X [S -> T] |-> ReadStep(buf, x[2], x[1])]
           t == ReadTable(buf)
<1>0. Len(buf) \in Nat
  OBVIOUS
<1>1. /\ <<"None">> \in V /\ <<"Some">> \in V /\ <<"Pair">> \in V /\ <<"Refused">> \in V
      /\ \A k \in S : deserializeLeaf(Rest(buf, k))[1] \in V
  OBVIOUS
<1> HIDE DEF V
<1>2. F \in [S \X [S -> T] -> T]
  <2> SUFFICES ASSUME NEW i \in S, NEW f \in [S -> T] PROVE ReadStep(buf, f, i) \in T
    OBVIOUS
  <2>1. \A k \in S : f[k] \in T
    OBVIOUS
  <2> QED BY <1>1, <2>1, ReadStepType
<1>3. \A i \in S, f \in [S -> T] : F[<<i, f>>] = ReadStep(buf, f, i)
  OBVIOUS
<1>4. m \in [S -> Nat] /\ \A i, k \in S : i <= Len(buf) /\ k > i => m[k] < m[i]
  BY <1>0
<1>5. T # {}
  BY EmptySeq
<1> HIDE DEF F, m, T
<1>6. Descends(F, m, S, T)
  <2> SUFFICES ASSUME NEW i \in S, NEW f \in [S -> T], NEW g \in [S -> T],
                      \A u \in S : m[u] < m[i] => f[u] = g[u]
               PROVE  F[<<i, f>>] = F[<<i, g>>]
    BY DEF Descends
  <2>1. i <= Len(buf) => \A k \in S : k > i => f[k] = g[k]
    BY <1>4
  <2>2. ReadStep(buf, f, i) = ReadStep(buf, g, i)
    BY <2>1, ReadStepLocal
  <2> QED BY <1>3, <2>2
<1>7. PICK f : Solves(f, F, S, T)
  BY <1>2, <1>4, <1>5, <1>6, RecursionByMeasure
<1>8. f = [i \in S |-> ReadStep(buf, f, i)]
  BY <1>3, <1>7 DEF Solves
<1>9. t = [i \in S |-> ReadStep(buf, t, i)]
  BY <1>8 DEF ReadTable
<1>10. deserializeSValue(buf) = t[1]
  BY DEF deserializeSValue, ReadTable, ReadStep, Rest
<1> HIDE DEF t
<1> QED BY <1>9, <1>10 DEF t

-----------------------------------------------------------------------------
(* What is written is read.                                                *)

\* A sequence from a position on.
LEMMA FromPosition ==
    ASSUME NEW v \in Seq(SPart), NEW j \in 1..Len(v)
    PROVE  /\ SubSeq(v, j, Len(v)) = <<v[j]>> \o SubSeq(v, j + 1, Len(v))
           /\ SubSeq(v, j + 1, Len(v)) \in Seq(SPart)
           /\ j = Len(v) => SubSeq(v, j, Len(v)) = <<v[j]>>
           /\ j < Len(v) => /\ SubSeq(v, j + 1, Len(v)) # <<>>
                            /\ SubSeq(v, j + 1, Len(v))[1] \in SPart
<1>0. Len(v) \in Nat /\ j \in Nat /\ \A k \in 1..Len(v) : v[k] \in SPart
  OBVIOUS
<1> DEFINE a == SubSeq(v, j, Len(v))
           b == SubSeq(v, j + 1, Len(v))
           one == <<v[j]>>
<1>1. a \in Seq(SPart) /\ Len(a) = Len(v) - j + 1 /\ \A k \in 1..Len(a) : a[k] = v[j + k - 1]
  BY <1>0
<1>2. b \in Seq(SPart) /\ Len(b) = Len(v) - j /\ \A k \in 1..Len(b) : b[k] = v[j + k]
  BY <1>0
<1>3. one \in Seq(SPart) /\ Len(one) = 1 /\ one[1] = v[j]
  BY <1>0
<1> HIDE DEF a, b, one
<1>4. a = one \o b
  <2> DEFINE c == one \o b
  <2>1. /\ c \in Seq(SPart) /\ Len(c) = Len(one) + Len(b)
        /\ \A k \in 1..(Len(one) + Len(b)) : c[k] = IF k <= Len(one) THEN one[k] ELSE b[k - Len(one)]
    BY <1>2, <1>3, ConcatProperties
  <2> HIDE DEF c
  <2>2. ASSUME NEW k \in 1..Len(c) PROVE c[k] = a[k]
    <3>0. k \in 1..Len(a)
      BY <1>0, <1>1, <1>2, <1>3, <2>1
    <3>5. Len(c) = 1 + Len(b) /\ k \in 1..(1 + Len(b)) /\ c[k] = IF k <= 1 THEN one[k] ELSE b[k - 1]
      BY <1>3, <2>1
    <3>1. CASE k = 1
      <4>1. c[k] = v[j]
        BY <1>3, <3>5, <3>1
      <4>2. a[k] = v[j + 1 - 1] /\ j + 1 - 1 = j
        BY <1>0, <1>1, <3>0, <3>1
      <4> QED BY <4>1, <4>2
    <3>2. CASE k # 1
      <4>1. k - 1 \in 1..Len(b) /\ ~(k <= 1)
        BY <1>0, <1>2, <3>5, <3>2
      <4>2. c[k] = b[k - 1]
        BY <3>5, <4>1
      <4>3. b[k - 1] = v[j + (k - 1)] /\ j + (k - 1) = j + k - 1
        BY <1>0, <1>2, <4>1
      <4> QED BY <1>1, <3>0, <4>2, <4>3
    <3> QED BY <3>1, <3>2
  <2>3. Len(c) = Len(a)
    BY <1>0, <1>1, <1>2, <1>3, <2>1
  <2>4. c = a
    BY <1>1, <2>1, <2>2, <2>3, SeqEqual
  <2> QED BY <2>4 DEF c
<1>5. ASSUME j = Len(v) PROVE a = one
  <2>1. Len(b) = 0
    BY <1>0, <1>2, <1>5
  <2>2. b = <<>>
    BY <1>2, <2>1
  <2> QED BY <1>3, <1>4, <2>2
<1>6. ASSUME j < Len(v) PROVE b # <<>> /\ b[1] \in SPart
  <2>1. 1 \in 1..Len(b)
    BY <1>0, <1>2, <1>6
  <2> QED BY <1>2, <2>1
<1> QED BY <1>2, <1>4, <1>5, <1>6 DEF a, b, one

\* A tag and what follows it.
Tagged(t, r) == <<t>> \o r

LEMMA TagFirst ==
    ASSUME NEW t \in Byte, NEW r \in Seq(Byte), NEW b, b = Tagged(t, r)
    PROVE  b # <<>> /\ b[1] = t /\ Tail(b) = r /\ (Len(b) = 1 <=> Len(r) = 0)
BY DEF Tagged

\* What stands behind a tag.
LEMMA BehindTag ==
    ASSUME NEW buf \in Seq(Byte), NEW i \in Nat \ {0}, NEW t \in Byte, NEW r \in Seq(Byte),
           Rest(buf, i) = Tagged(t, r), NEW k, k = i + 1
    PROVE  k \in Nat \ {0} /\ Rest(buf, k) = r
<1> DEFINE tag == <<t>>
<1>1. tag \in Seq(Byte) /\ Len(tag) = 1 /\ Len(tag) # 0
  OBVIOUS
<1>2. Rest(buf, i) = tag \o r
  BY DEF Tagged
<1> HIDE DEF tag
<1>3. k \in Nat /\ Drops(buf, i, tag, r, k)
  BY <1>1, <1>2 DEF Drops
<1> QED BY <1>1, <1>3, RestDrops

\* The parts that are a tag.
LEMMA TagParts ==
    ASSUME NEW p, NEW r, NEW b, b = serializePart(p) \o r
    PROVE  /\ p \in {<<"None">>, <<"Some">>} => b = Tagged(TOption, r)
           /\ p = <<"Pair">> => b = Tagged(TPair, r)
<1>1. CASE p \in {<<"None">>, <<"Some">>}
  <2>1. p[1] \in {"None", "Some"} /\ p # <<"Pair">>
    BY <1>1
  <2>2. serializePart(p) = <<TOption>>
    BY <2>1 DEF serializePart
  <2> QED BY <2>1, <2>2 DEF Tagged
<1>2. CASE p = <<"Pair">>
  <2>1. p[1] = "Pair" /\ p \notin {<<"None">>, <<"Some">>}
    BY <1>2
  <2>2. serializePart(p) = <<TPair>>
    BY <2>1 DEF serializePart
  <2> QED BY <2>1, <2>2 DEF Tagged
<1> QED BY <1>1, <1>2

LEMMA LeafAt ==
    ASSUME NEW buf \in Seq(Byte), NEW i \in Nat \ {0}, NEW p, PlainLeaf(p), NEW r \in Seq(Byte),
           Rest(buf, i) = serializePart(p) \o r
    PROVE  ReadTable(buf)[i] = <<p>>
<1> DEFINE rest == Rest(buf, i)
<1>1. rest \in Seq(Byte)
  BY RestFacts
<1>2. Holds(rest, 1, serializePart(p))
  BY LeafRead, StartHolds
<1> HIDE DEF rest
<1>3. rest # <<>> /\ rest[1] \notin {11, 13} /\ deserializeLeaf(rest) = <<p>>
  BY <1>1, <1>2, LeafRead DEF TOption, TPair
<1>4. ReadStep(buf, ReadTable(buf), i) = <<p>>
  BY <1>3, ReadSteps DEF rest
<1> QED BY <1>4, ReadUnfolded

LEMMA NotRefused ==
    ASSUME NEW s, s # <<>>, s[1] \in SPart PROVE s # Refused
<1>1. Refused[1] = <<"Refused">>
  BY DEF Refused
<1>2. <<"Refused">> \notin SPart
  <2> SUFFICES ASSUME <<"Refused">> \in SPart PROVE FALSE
    OBVIOUS
  <2> DEFINE p == <<"Refused">>
  <2>1. p[1] = "Refused"
    OBVIOUS
  <2>2. p \in SPart
    OBVIOUS
  <2> HIDE DEF p
  <2> QED BY <2>1, <2>2, PartCases
<1> QED BY <1>1, <1>2

LEMMA NoneAt ==
    ASSUME NEW buf \in Seq(Byte), NEW i \in Nat \ {0}, Rest(buf, i) = Tagged(TOption, <<>>)
    PROVE  ReadTable(buf)[i] = Nothing
<1> DEFINE rest == Rest(buf, i)
<1>1. rest = <<11>> \o <<>>
  BY DEF TOption, Tagged
<1>2. rest # <<>> /\ rest[1] = 11 /\ Len(rest) = 1
  BY <1>1
<1> HIDE DEF rest
<1>3. ReadStep(buf, ReadTable(buf), i) = Nothing
  BY <1>2, ReadSteps DEF rest
<1> QED BY <1>3, ReadUnfolded

LEMMA SomeAt ==
    ASSUME NEW buf \in Seq(Byte), NEW i \in Nat \ {0}, NEW r \in Seq(Byte), r # <<>>,
           Rest(buf, i) = Tagged(TOption, r), NEW k, k = i + 1
    PROVE  /\ k \in Nat \ {0} /\ Rest(buf, k) = r
           /\ ReadTable(buf)[k] # Refused => ReadTable(buf)[i] = Some(ReadTable(buf)[k])
<1> DEFINE rest == Rest(buf, i)
           a == ReadTable(buf)
<1>1. TOption \in Byte /\ TOption = 11 /\ rest = Tagged(TOption, r) /\ Len(r) # 0
  BY DEF TOption, Byte
<1>2. k \in Nat \ {0} /\ Rest(buf, k) = r
  BY <1>1, BehindTag
<1>3. rest # <<>> /\ rest[1] = 11 /\ Len(rest) # 1
  <2> HIDE DEF rest
  <2> QED BY <1>1, TagFirst
<1>4. ReadStep(buf, a, i) = IF a[k] = Refused THEN Refused ELSE Some(a[k])
  <2> HIDE DEF a
  <2> QED BY <1>3, ReadSteps
<1>5. a[i] = ReadStep(buf, a, i)
  BY ReadUnfolded
<1> QED BY <1>2, <1>4, <1>5

LEMMA PairAt ==
    ASSUME NEW buf \in Seq(Byte), NEW i \in Nat \ {0}, NEW p \in SPart, PlainLeaf(p),
           NEW s, s = serializePart(p), NEW r \in Seq(Byte),
           Rest(buf, i) = Tagged(TPair, s \o r), NEW k, k = i + 1 + Len(s)
    PROVE  /\ k \in Nat \ {0} /\ Rest(buf, k) = r
           /\ ReadTable(buf)[k] # Refused => ReadTable(buf)[i] = Pair(<<p>>, ReadTable(buf)[k])
<1> DEFINE rest == Rest(buf, i)
           a == ReadTable(buf)
           u == s \o r
           j == i + 1
           one == <<p>>
<1>1. s \in Seq(Byte) /\ Len(s) # 0 /\ u \in Seq(Byte) /\ Len(s) \in Nat /\ Holds(u, 1, s)
  <2>1. s \in Seq(Byte) /\ s # <<>>
    BY LeafRead
  <2>2. Len(s) # 0
    BY <2>1
  <2> QED BY <2>1, <2>2, ConcatBytes, StartHolds
<1>2. TPair \in Byte /\ TPair = 13 /\ rest = Tagged(TPair, u) /\ j = i + 1
  BY DEF TPair, Byte
<1>3. one # <<>> /\ one[1] \in SPart
  OBVIOUS
<1>4. u = s \o r /\ k = j + Len(s)
  BY <1>1
<1> HIDE DEF u, j, one
<1>5. j \in Nat \ {0} /\ Rest(buf, j) = u
  BY <1>1, <1>2, BehindTag
<1>6. k \in Nat \ {0} /\ Rest(buf, k) = r
  <2>1. k \in Nat /\ Drops(buf, j, s, r, k)
    BY <1>1, <1>4, <1>5 DEF Drops
  <2> QED BY <1>1, <1>5, <2>1, RestDrops
<1>7. a[j] = one
  BY <1>1, <1>4, <1>5, LeafAt DEF one
<1>8. getSerializedValueLength(u) = Len(s)
  BY <1>1, LeafRead
<1>9. rest # <<>> /\ rest[1] = 13 /\ Tail(rest) = u
  <2> HIDE DEF rest
  <2> QED BY <1>1, <1>2, TagFirst
<1>10. ReadStep(buf, a, i) = IF a[j] = Refused THEN Refused
                             ELSE IF a[k] = Refused THEN Refused ELSE Pair(a[j], a[k])
  <2> HIDE DEF a
  <2> DEFINE l == i + 1 + getSerializedValueLength(Tail(rest))
  <2>1. i + 1 = j /\ l = k
    BY <1>2, <1>8, <1>9
  <2>2. ReadStep(buf, a, i) = IF a[i + 1] = Refused THEN Refused
                              ELSE IF a[l] = Refused THEN Refused ELSE Pair(a[i + 1], a[l])
    BY <1>9, ReadSteps
  <2> HIDE DEF l
  <2> QED BY <2>1, <2>2
<1>11. a[i] = ReadStep(buf, a, i)
  BY ReadUnfolded
<1>12. one # Refused
  BY <1>3, NotRefused
<1> QED BY <1>6, <1>7, <1>10, <1>11, <1>12 DEF one

(* What the SDK has written it reads back, however deep the value is nested.  *)
THEOREM SdkReadsWhatItWrote ==
    ASSUME NEW v \in SValue, Plain(v)
    PROVE  /\ serializeSValue(v) \in Seq(Byte) /\ serializeSValue(v) # NoBytes
           /\ deserializeSValue(serializeSValue(v)) = v
<1> DEFINE buf == serializeSValue(v)
           t == FromTable(v)
           a == ReadTable(buf)
           S == Nat \ {0}
<1>0. /\ v \in Seq(SPart) /\ Len(v) \in Nat /\ Len(v) >= 1 /\ ToCome(v, 0) = 1
      /\ \A i \in 1..Len(v) : PlainPart(v[i])
  <2>1. v \in Seq(SPart) /\ \A n \in 0..Len(v) : ToCome(v, n) = 0 <=> n = Len(v)
    BY DEF SValue
  <2>2. ToCome(v, 0) = 1
    BY <2>1, ToComeStep
  <2>3. Len(v) \in Nat
    BY <2>1
  <2>4. 0 \in 0..Len(v) /\ Len(v) # 0
    BY <2>1, <2>2, <2>3
  <2> QED BY <2>1, <2>2, <2>3, <2>4, PlainParts
<1>1. \A i \in 1..Len(v) : /\ t[i] = serializePart(v[i]) \o t[i + 1]
                           /\ t[i] \in Seq(Byte) /\ t[i + 1] \in Seq(Byte)
                           /\ serializePart(v[i]) \in Seq(Byte) /\ serializePart(v[i]) # <<>>
                           /\ t[i] # <<>>
  <2> SUFFICES ASSUME NEW i \in 1..Len(v)
               PROVE  /\ t[i] = serializePart(v[i]) \o t[i + 1]
                      /\ t[i] \in Seq(Byte) /\ t[i + 1] \in Seq(Byte)
                      /\ serializePart(v[i]) \in Seq(Byte) /\ serializePart(v[i]) # <<>>
                      /\ t[i] # <<>>
    OBVIOUS
  <2>1. t[i] = serializePart(v[i]) \o t[i + 1] /\ t[i] \in Seq(Byte) /\ t[i + 1] \in Seq(Byte)
    BY Written
  <2>2. serializePart(v[i]) \in Seq(Byte) /\ serializePart(v[i]) # <<>>
    BY <1>0, PartBytes
  <2> HIDE DEF t
  <2> QED BY <2>1, <2>2, ConcatEqualIffEmpty
<1>2. t[Len(v) + 1] = <<>> /\ buf = t[1]
  BY Written
<1>3. buf \in Seq(Byte) /\ buf # <<>>
  <2>1. 1 \in 1..Len(v)
    BY <1>0
  <2>2. t[1] \in Seq(Byte) /\ t[1] # <<>>
    <3> HIDE DEF t
    <3> QED BY <1>1, <2>1
  <2> QED BY <1>2, <2>2
<1> HIDE DEF buf, t
<1>4. (\A i \in S : a[i] = ReadStep(buf, a, i)) /\ deserializeSValue(buf) = a[1]
  BY <1>3, ReadUnfolded
<1> DEFINE From(j) == SubSeq(v, j, Len(v))
           Good(j) == \A i \in S : ToCome(v, j - 1) = 1 /\ Rest(buf, i) = t[j] => a[i] = From(j)
           P == {n \in Nat : \A j \in 1..Len(v) : Len(v) - j < n => Good(j)}
<1>5. 0 \in P
  BY <1>0
<1>6. ASSUME NEW n \in Nat, n \in P PROVE n + 1 \in P
  <2> SUFFICES ASSUME NEW j \in 1..Len(v), Len(v) - j < n + 1,
                      NEW i \in S, ToCome(v, j - 1) = 1, Rest(buf, i) = t[j]
               PROVE  a[i] = From(j)
    OBVIOUS
  <2>0. j \in Nat /\ \A k \in 1..Len(v) : k > j => Good(k)
    <3>1. \A k \in 1..Len(v) : Len(v) - k < n => Good(k)
      BY <1>6
    <3>2. \A k \in 1..Len(v) : k > j => Len(v) - k < n
      BY <1>0
    <3> QED BY <3>1, <3>2
  <2> HIDE DEF a, From, Good
  <2>1. /\ t[j] = serializePart(v[j]) \o t[j + 1] /\ t[j + 1] \in Seq(Byte)
        /\ serializePart(v[j]) \in Seq(Byte) /\ serializePart(v[j]) # <<>>
    BY <1>1
  <2>2. CASE PlainLeaf(v[j])
    <3>1. a[i] = <<v[j]>>
      <4>1. PICK r : r = t[j + 1]
        OBVIOUS
      <4>2. PICK p : p = v[j]
        OBVIOUS
      <4>3. r \in Seq(Byte) /\ PlainLeaf(p) /\ Rest(buf, i) = serializePart(p) \o r /\ i \in Nat \ {0}
        BY <2>1, <2>2, <4>1, <4>2
      <4>4. a[i] = <<p>>
        BY <1>3, <4>3, LeafAt DEF a
      <4> QED BY <4>2, <4>4
    <3>2. v[j] \notin {<<"Some">>, <<"Pair">>}
      BY <2>2 DEF PlainLeaf
    <3>3. j = Len(v)
      BY <3>2, Spine
    <3> QED BY <1>0, <3>1, <3>3, FromPosition DEF From
  <2>3. CASE v[j] = <<"None">>
    <3>1. j = Len(v)
      BY <2>3, Spine
    <3>2. Rest(buf, i) = Tagged(TOption, <<>>)
      <4>1. Rest(buf, i) = Tagged(TOption, t[j + 1])
        BY <2>1, <2>3, TagParts
      <4> QED BY <1>2, <3>1, <4>1
    <3>3. a[i] = Nothing
      BY <1>3, <3>2, NoneAt DEF a
    <3> QED BY <1>0, <2>3, <3>1, <3>3, FromPosition DEF From, Nothing
  <2>4. CASE v[j] = <<"Some">>
    <3>1. Rest(buf, i) = Tagged(TOption, t[j + 1])
      BY <2>1, <2>4, TagParts
    <3>2. /\ j + 1 \in 1..Len(v) /\ j + 1 > j /\ ToCome(v, j + 1 - 1) = 1
          /\ From(j) = Some(From(j + 1)) /\ From(j + 1) # <<>> /\ From(j + 1)[1] \in SPart
      <4>1. j + 1 \in 1..Len(v) /\ ToCome(v, j) = 1 /\ j + 1 - 1 = j /\ j + 1 > j /\ j < Len(v)
        BY <1>0, <2>0, <2>4, Spine
      <4> QED BY <1>0, <2>4, <4>1, FromPosition DEF From, Some
    <3>3. PICK i1 : i1 = i + 1
      OBVIOUS
    <3>4. PICK j1 : j1 = j + 1
      OBVIOUS
    <3>5. /\ j1 \in 1..Len(v) /\ Good(j1) /\ ToCome(v, j1 - 1) = 1 /\ Rest(buf, i) = Tagged(TOption, t[j1])
          /\ From(j) = Some(From(j1)) /\ From(j1) # <<>> /\ From(j1)[1] \in SPart
      BY <2>0, <3>1, <3>2, <3>4
    <3>6. t[j1] \in Seq(Byte) /\ t[j1] # <<>>
      BY <1>1, <3>5
    <3>7. i1 \in S /\ Rest(buf, i1) = t[j1] /\ (a[i1] # Refused => a[i] = Some(a[i1]))
      BY <1>3, <3>3, <3>5, <3>6, SomeAt DEF a
    <3>8. a[i1] = From(j1) /\ From(j1) # Refused
      BY <3>5, <3>7, NotRefused DEF Good
    <3> QED BY <3>5, <3>7, <3>8
  <2>5. CASE v[j] = <<"Pair">>
    <3>1. Rest(buf, i) = Tagged(TPair, t[j + 1])
      BY <2>1, <2>5, TagParts
    <3>2. /\ j + 1 \in 1..Len(v) /\ j + 2 \in 1..Len(v) /\ j + 1 + 1 = j + 2
          /\ j + 2 > j /\ ToCome(v, j + 2 - 1) = 1 /\ j < Len(v) /\ j + 1 < Len(v)
          /\ j \in 1..(Len(v) - 1)
      <4>1. j + 1 \in 1..Len(v) /\ j + 2 \in 1..Len(v) /\ ToCome(v, j + 1) = 1 /\ j + 2 - 1 = j + 1
        BY <2>0, <2>5, Spine
      <4> QED BY <1>0, <2>0, <4>1
    <3>3. PlainLeaf(v[j + 1])
      BY <2>5, <3>2, PlainParts
    <3>4. PICK j1 : j1 = j + 1
      OBVIOUS
    <3>5. PICK j2 : j2 = j + 2
      OBVIOUS
    <3>6. /\ j1 \in 1..Len(v) /\ j2 \in 1..Len(v) /\ Good(j2) /\ ToCome(v, j2 - 1) = 1
          /\ Rest(buf, i) = Tagged(TPair, t[j1]) /\ PlainLeaf(v[j1]) /\ v[j1] \in SPart
          /\ t[j1] = serializePart(v[j1]) \o t[j2] /\ t[j2] \in Seq(Byte)
      <4>1. j1 \in 1..Len(v) /\ j2 \in 1..Len(v) /\ Good(j2) /\ ToCome(v, j2 - 1) = 1
        BY <2>0, <3>2, <3>4, <3>5
      <4>2. j1 + 1 = j2 /\ Rest(buf, i) = Tagged(TPair, t[j1]) /\ PlainLeaf(v[j1])
        BY <3>1, <3>2, <3>3, <3>4, <3>5
      <4>3. v[j1] \in SPart
        BY <1>0, <4>1
      <4>4. t[j1] = serializePart(v[j1]) \o t[j2] /\ t[j2] \in Seq(Byte)
        BY <1>1, <4>1, <4>2
      <4> QED BY <4>1, <4>2, <4>3, <4>4
    <3>7. /\ From(j) = <<v[j]>> \o From(j1) /\ From(j1) = <<v[j1]>> \o From(j2)
          /\ From(j2) # <<>> /\ From(j2)[1] \in SPart /\ From(j2) \in Seq(SPart)
      <4>1. SubSeq(v, j + 1, Len(v)) = From(j1) /\ SubSeq(v, j1 + 1, Len(v)) = From(j2) /\ j1 < Len(v)
        BY <3>2, <3>4, <3>5 DEF From
      <4>2. From(j) = <<v[j]>> \o From(j1)
        BY <1>0, <4>1, FromPosition DEF From
      <4>3. /\ From(j1) = <<v[j1]>> \o From(j2)
            /\ From(j2) # <<>> /\ From(j2)[1] \in SPart /\ From(j2) \in Seq(SPart)
        BY <1>0, <3>6, <4>1, FromPosition DEF From
      <4> QED BY <4>2, <4>3
    <3>8. PICK k : k = i + 1 + Len(serializePart(v[j1]))
      OBVIOUS
    <3>9. k \in S /\ Rest(buf, k) = t[j2] /\ (a[k] # Refused => a[i] = Pair(<<v[j1]>>, a[k]))
      BY <1>3, <3>6, <3>8, PairAt DEF a
    <3>10. a[k] = From(j2) /\ From(j2) # Refused
      BY <3>6, <3>7, <3>9, NotRefused DEF Good
    <3>11. (<<v[j]>> \o <<v[j1]>>) \o From(j2) = <<v[j]>> \o (<<v[j1]>> \o From(j2))
      <4>1. <<v[j]>> \in Seq(SPart) /\ <<v[j1]>> \in Seq(SPart)
        BY <1>0, <3>6
      <4> QED BY <3>7, <4>1, ConcatAssociative
    <3> QED BY <2>5, <3>7, <3>9, <3>10, <3>11 DEF Pair
  <2> QED BY <1>0, <2>2, <2>3, <2>4, <2>5 DEF PlainPart
<1>7. Nat \subseteq P
  <2> HIDE DEF P
  <2> QED BY <1>5, <1>6, NaturalInduction
<1>8. Good(1)
  <2>1. Len(v) \in P
    <3> HIDE DEF P
    <3> QED BY <1>0, <1>7
  <2>2. 1 \in 1..Len(v) /\ Len(v) - 1 < Len(v)
    BY <1>0
  <2> HIDE DEF Good
  <2> QED BY <2>1, <2>2
<1>9. Rest(buf, 1) = buf /\ From(1) = v
  BY <1>0, <1>3 DEF Rest
<1>10. a[1] = v
  <2> HIDE DEF From, a
  <2>1. 1 \in S /\ 1 - 1 = 0
    OBVIOUS
  <2> QED BY <1>0, <1>2, <1>8, <1>9, <2>1
<1> QED BY <1>3, <1>4, <1>10 DEF buf, NoBytes

-----------------------------------------------------------------------------
(* The other writers and readers, and the node's format.                   *)

\* A value that starts with neither an option nor a pair is one part.
LEMMA OnePart ==
    ASSUME NEW v \in SValue, v[1][1] \notin {"Pair", "Some"}
    PROVE  v \in Seq(SPart) /\ Len(v) = 1 /\ v[1] \in SPart /\ v = <<v[1]>>
<1>1. v \in Seq(SPart) /\ Len(v) \in Nat /\ \A n \in 0..Len(v) : ToCome(v, n) = 0 <=> n = Len(v)
  BY DEF SValue
<1>2. ToCome(v, 0) = 1
  BY <1>1, ToComeStep
<1>3. 0 \in 0..(Len(v) - 1) /\ 1 \in 0..Len(v)
  BY <1>1, <1>2
<1>4. ToCome(v, 0 + 1) = ToCome(v, 0) +
        (IF v[0 + 1][1] = "Pair" THEN 1 ELSE IF v[0 + 1][1] = "Some" THEN 0 ELSE -1)
  <2> DEFINE n == 0
  <2>1. n \in 0..(Len(v) - 1)
    BY <1>3
  <2> HIDE DEF n
  <2>2. ToCome(v, n + 1) = ToCome(v, n) +
          (IF v[n + 1][1] = "Pair" THEN 1 ELSE IF v[n + 1][1] = "Some" THEN 0 ELSE -1)
    BY <1>1, <2>1, ToComeStep
  <2> QED BY <2>2 DEF n
<1>5. ToCome(v, 1) = 0
  <2>1. 0 + 1 = 1
    OBVIOUS
  <2>2. ToCome(v, 1) = 1 + (-1)
    BY <1>2, <1>4, <2>1, Zenon
  <2> QED BY <2>2
<1>6. Len(v) = 1
  BY <1>1, <1>3, <1>5
<1> QED BY <1>1, <1>6

\* A value of one part is written as that part.
LEMMA OnePartWritten ==
    ASSUME NEW v \in SValue, Plain(v), Len(v) = 1
    PROVE  serializeSValue(v) = serializePart(v[1]) /\ PlainPart(v[1])
<1> DEFINE t == FromTable(v)
           s == serializePart(v[1])
<1>1. 1 \in 1..Len(v)
  OBVIOUS
<1>2. PlainPart(v[1]) /\ s \in Seq(Byte)
  BY <1>1, PlainParts, PartBytes
<1>3. t[1] = s \o t[1 + 1] /\ t[Len(v) + 1] = <<>> /\ serializeSValue(v) = t[1]
  BY <1>1, Written
<1>4. t[1] = s \o <<>>
  BY <1>3
<1>5. s \o <<>> = s
  BY <1>2, ConcatEmptySeq
<1> QED BY <1>2, <1>3, <1>4, <1>5

\* The numbers and the bytes that every reader has to give back.
Exact(v) ==
    \/ Type(v) = "Int" /\ InRange(Datum(v), IntHalf)
    \/ Type(v) = "Long" /\ InRange(Datum(v), LongHalf)
    \/ Type(v) = "Coll"

LEMMA ExactIsPlain ==
    ASSUME NEW v \in SValue, Type(v) \in {"Int", "Long", "Coll"}
    PROVE  Exact(v) <=> Plain(v)
<1>1. v \in Seq(SPart) /\ Len(v) = 1 /\ DOMAIN v = {1}
  BY OnePart DEF Type
<1> QED BY <1>1 DEF Exact, Plain, Type, Datum

LEMMA ExactLeaf ==
    ASSUME NEW v \in SValue, Exact(v)
    PROVE  /\ Plain(v) /\ Len(v) = 1 /\ PlainLeaf(v[1]) /\ v = <<v[1]>>
           /\ v[1] = <<Type(v), Datum(v)>>
           /\ Type(v) \in {"Int", "Long"} => Datum(v) \in Int
           /\ Type(v) = "Coll" => Datum(v) \in Seq(Byte)
<1>1. Type(v) \in {"Int", "Long", "Coll"}
  BY DEF Exact
<1>2. Plain(v) /\ Len(v) = 1 /\ v = <<v[1]>> /\ v[1] \in SPart
  BY <1>1, ExactIsPlain, OnePart DEF Type
<1>3. v[1] = <<Type(v), Datum(v)>>
      /\ (Type(v) \in {"Int", "Long"} => Datum(v) \in Int)
      /\ (Type(v) = "Coll" => Datum(v) \in Seq(Byte))
  BY <1>1, <1>2, PartCases DEF Type, Datum
<1>4. PlainLeaf(v[1])
  BY <1>1, <1>2, <1>3 DEF PlainLeaf, Exact, Type, Datum
<1> QED BY <1>2, <1>3, <1>4

\* A writer writes a plain value as the SDK does, or refuses it; numbers and
\* bytes none refuses.
LEMMA WritersWriteAlike ==
    ASSUME NEW v \in SValue, Plain(v), NEW w \in Writers
    PROVE  /\ Write(w, v) \in {NoBytes, serializeSValue(v)}
           /\ Exact(v) => Write(w, v) = serializeSValue(v)
<1>1. ASSUME Exact(v) PROVE Write(w, v) = serializeSValue(v)
  <2>0. /\ Len(v) = 1 /\ v[1] = <<Type(v), Datum(v)>> /\ v[1][1] = Type(v) /\ v[1][2] = Datum(v)
        /\ Type(v) \in {"Int", "Long", "Coll"}
    BY <1>1, ExactLeaf DEF Type, Datum, Exact
  <2>1. serializeSValue(v) = serializePart(v[1])
    BY <2>0, OnePartWritten
  <2>2. "sdk" \in Writers
    BY DEF Writers
  <2>3. CASE Type(v) = "Int"
    <3>1. Datum(v) \in Int /\ InRange(Datum(v), IntHalf)
      BY <1>1, <2>3, ExactLeaf DEF Exact
    <3>2. IntWord(w, Datum(v)) = IntWord("sdk", Datum(v))
      BY <2>2, <3>1, Words
    <3>3. serializePart(v[1]) = <<TInt>> \o encodeVLQ(IntWord(w, Datum(v)))
      BY <2>0, <2>3, <3>2 DEF serializePart
    <3> HIDE DEF Writers
    <3> QED BY <2>1, <2>3, <3>1, <3>3 DEF Write, serialize_value, encodeConstant, Writers
  <2>4. CASE Type(v) = "Long"
    <3>1. Datum(v) \in Int /\ InRange(Datum(v), LongHalf)
      BY <1>1, <2>4, ExactLeaf DEF Exact
    <3>2. LongWord(w, Datum(v)) = LongWord("sdk", Datum(v))
      BY <2>2, <3>1, Words
    <3>3. serializePart(v[1]) = <<TLong>> \o encodeVLQ(LongWord(w, Datum(v)))
      BY <2>0, <2>4, <3>2 DEF serializePart
    <3> QED BY <2>1, <2>4, <3>1, <3>3 DEF Write, serialize_value, encodeConstant, Writers
  <2>5. CASE Type(v) = "Coll"
    <3>1. serializePart(v[1]) = serializeCollByte(Datum(v))
      BY <2>0, <2>5 DEF serializePart
    <3> QED BY <2>1, <2>5, <3>1 DEF Write, serialize_value, encodeConstant, Writers
  <2> QED BY <2>0, <2>3, <2>4, <2>5
<1>2. ASSUME ~Exact(v) PROVE Write(w, v) \in {NoBytes, serializeSValue(v)}
  <2>1. Type(v) \notin {"Int", "Long", "Coll"}
    BY <1>2, ExactIsPlain
  <2>2. Type(v) # "SigmaProp"
    <3>1. v \in Seq(SPart) /\ 1 \in DOMAIN v
      <4>1. v \in Seq(SPart) /\ Len(v) \in Nat /\ \A n \in 0..Len(v) : ToCome(v, n) = 0 <=> n = Len(v)
        BY DEF SValue
      <4>2. ToCome(v, 0) = 1
        BY <4>1, ToComeStep
      <4>3. 0 \in 0..Len(v) /\ Len(v) # 0
        BY <4>1, <4>2
      <4> QED BY <4>1, <4>3
    <3> QED BY <3>1 DEF Plain, Type
  <2> QED BY <2>1, <2>2 DEF Write, serialize_value, encodeConstant, Writers
<1> QED BY <1>1, <1>2

\* The tag of a part.
LEMMA PartStarts ==
    ASSUME NEW p, PlainPart(p), p[1] # "Coll"
    PROVE  serializePart(p)[1] # TColl
<1>1. p[1] \in {"Int", "Long", "Boolean", "None", "Some", "Pair"}
  BY DEF PlainPart, PlainLeaf
<1>2. CASE p[1] = "Int"
  <2> DEFINE z == IntWord("sdk", p[2])
  <2>1. p[2] \in Int /\ InRange(p[2], IntHalf) /\ "sdk" \in Writers
    BY <1>2 DEF PlainPart, PlainLeaf, Writers
  <2>2. z \in Nat
    BY <2>1, Words
  <2>3. encodeVLQ(z) \in Seq(Byte)
    BY <2>2, VlqRoundTrip
  <2>4. serializePart(p) = <<2>> \o encodeVLQ(z)
    BY <1>2 DEF serializePart, TInt
  <2> HIDE DEF z
  <2>5. (<<2>> \o encodeVLQ(z))[1] = 2
    BY <2>3
  <2> QED BY <2>4, <2>5 DEF TColl
<1>3. CASE p[1] = "Long"
  <2> DEFINE z == LongWord("sdk", p[2])
  <2>1. p[2] \in Int /\ InRange(p[2], LongHalf) /\ "sdk" \in Writers
    BY <1>3 DEF PlainPart, PlainLeaf, Writers
  <2>2. z \in Nat
    BY <2>1, Words
  <2>3. encodeVLQ(z) \in Seq(Byte)
    BY <2>2, VlqRoundTrip
  <2>4. serializePart(p) = <<4>> \o encodeVLQ(z)
    BY <1>3 DEF serializePart, TLong
  <2> HIDE DEF z
  <2>5. (<<4>> \o encodeVLQ(z))[1] = 4
    BY <2>3
  <2> QED BY <2>4, <2>5 DEF TColl
<1>4. CASE p[1] \in {"Boolean", "None", "Some", "Pair"}
  <2>1. serializePart(p) \in {<<TTrue>>, <<TFalse>>, <<TOption>>, <<TPair>>}
    BY <1>4 DEF serializePart
  <2> QED BY <2>1 DEF TTrue, TFalse, TOption, TPair, TColl
<1> QED BY <1>1, <1>2, <1>3, <1>4

\* The node changes nothing but collections.
LEMMA NodeFormats ==
    ASSUME NEW v \in SValue, Plain(v)
    PROVE  \/ NodeFormat(serializeSValue(v)) = serializeSValue(v)
           \/ /\ Exact(v) /\ Type(v) = "Coll"
              /\ NodeFormat(serializeSValue(v)) = <<TColl>> \o encodeVLQ(Len(Datum(v))) \o Datum(v)
<1> DEFINE buf == serializeSValue(v)
<1>1. buf \in Seq(Byte) /\ buf # <<>>
  BY SdkReadsWhatItWrote DEF NoBytes
<1>2. CASE Exact(v) /\ Type(v) = "Coll"
  <2> DEFINE data == Datum(v)
             e == encodeVLQ(Len(data))
             tags == <<TColl, TSByte>>
             tag == <<TColl>>
             body == e \o data
  <2>1. data \in Seq(Byte) /\ v[1] = <<"Coll", data>> /\ Len(v) = 1
    BY <1>2, ExactLeaf
  <2>2. buf = serializeCollByte(data)
    <3>1. buf = serializePart(v[1])
      BY <1>2, <2>1, ExactLeaf, OnePartWritten
    <3>2. v[1][1] = "Coll" /\ v[1][2] = data
      BY <2>1
    <3> QED BY <3>1, <3>2 DEF serializePart
  <2>3. Len(data) \in Nat /\ e \in Seq(Byte)
    BY <2>1, VlqRoundTrip
  <2>4. /\ tags \in Seq(Byte) /\ Len(tags) = 2 /\ tags[1] = 14
        /\ tag \in Seq(Byte)
    BY DEF TColl, TSByte, Byte
  <2>5. buf = (tags \o e) \o data
    BY <2>2 DEF serializeCollByte
  <2> HIDE DEF buf, e, tags, tag, data
  <2>6. (tags \o e) \o data = tags \o body /\ (tag \o e) \o data = tag \o body /\ body \in Seq(Byte)
    <3>1. data \in Seq(Byte) /\ e \in Seq(Byte) /\ tags \in Seq(Byte) /\ tag \in Seq(Byte)
      BY <2>1, <2>3, <2>4
    <3>2. (tags \o e) \o data = tags \o (e \o data) /\ (tag \o e) \o data = tag \o (e \o data)
      BY <3>1, AssociateBytes
    <3>3. e \o data \in Seq(Byte)
      BY <3>1, ConcatBytes
    <3> QED BY <3>2, <3>3
  <2> HIDE DEF body
  <2>7. /\ Len(buf) = 2 + Len(body) /\ Len(body) \in Nat /\ buf[1] = 14
        /\ \A k \in 1..Len(body) : buf[2 + k] = body[k]
    <3> DEFINE c == tags \o body
    <3>1. /\ Len(c) = Len(tags) + Len(body)
          /\ \A k \in 1..(Len(tags) + Len(body)) : c[k] = IF k <= Len(tags) THEN tags[k] ELSE body[k - Len(tags)]
      BY <2>4, <2>6, ConcatProperties
    <3>2. buf = c /\ Len(body) \in Nat
      BY <2>5, <2>6
    <3> HIDE DEF c
    <3>3. Len(c) = 2 + Len(body) /\ c[1] = tags[1]
      BY <2>4, <3>1, <3>2
    <3>4. ASSUME NEW k \in 1..Len(body) PROVE c[2 + k] = body[k]
      <4>1. 2 + k \in 1..(Len(tags) + Len(body)) /\ ~(2 + k <= Len(tags)) /\ 2 + k - Len(tags) = k
        BY <2>4, <3>2
      <4>2. c[2 + k] = body[2 + k - Len(tags)]
        BY <3>1, <4>1
      <4> QED BY <4>1, <4>2
    <3> QED BY <2>4, <3>2, <3>3, <3>4
  <2>8. SubSeq(buf, 3, Len(buf)) = body
    <3> DEFINE s == SubSeq(buf, 3, Len(buf))
    <3>1. s \in Seq(Byte) /\ Len(s) = Len(body) /\ \A k \in 1..Len(body) : s[k] = buf[2 + k]
      <4>1. /\ Rest(buf, 3) \in Seq(Byte)
            /\ Len(Rest(buf, 3)) = IF 3 <= Len(buf) THEN Len(buf) - 3 + 1 ELSE 0
            /\ \A k \in 1..(Len(buf) - 3 + 1) : Rest(buf, 3)[k] = buf[3 + k - 1]
        <5>1. PICK i \in Nat \ {0} : i = 3
          OBVIOUS
        <5>2. /\ Rest(buf, i) \in Seq(Byte)
              /\ Len(Rest(buf, i)) = IF i <= Len(buf) THEN Len(buf) - i + 1 ELSE 0
              /\ \A k \in 1..(Len(buf) - i + 1) : Rest(buf, i)[k] = buf[i + k - 1]
          BY <1>1, RestFacts DEF buf
        <5> QED BY <5>1, <5>2
      <4>2. Len(buf) - 3 + 1 = Len(body) /\ (3 <= Len(buf) <=> Len(body) # 0)
        BY <2>7
      <4>3. \A k \in 1..Len(body) : 3 + k - 1 = 2 + k
        BY <2>7
      <4> QED BY <2>7, <4>1, <4>2, <4>3 DEF Rest
    <3> HIDE DEF s
    <3>2. \A k \in 1..Len(s) : s[k] = body[k]
      BY <2>7, <3>1
    <3>3. s = body
      BY <2>6, <3>1, <3>2, SeqEqual
    <3> QED BY <3>3 DEF s
  <2>9. NodeFormat(buf) = tag \o body
    BY <2>7, <2>8 DEF NodeFormat, TColl, tag
  <2> QED BY <1>2, <2>6, <2>9 DEF buf, e, tag, data
<1>3. CASE ~(Exact(v) /\ Type(v) = "Coll")
  <2>1. Type(v) # "Coll"
    BY <1>3, ExactIsPlain
  <2>2. 1 \in 1..Len(v) /\ PlainPart(v[1])
    <3>1. v \in Seq(SPart) /\ Len(v) \in Nat /\ \A n \in 0..Len(v) : ToCome(v, n) = 0 <=> n = Len(v)
      BY DEF SValue
    <3>2. ToCome(v, 0) = 1
      BY <3>1, ToComeStep
    <3>3. 0 \in 0..Len(v) /\ Len(v) # 0
      BY <3>1, <3>2
    <3>4. 1 \in 1..Len(v)
      BY <3>1, <3>3
    <3> QED BY <3>4, PlainParts
  <2> DEFINE s == serializePart(v[1])
             r == FromTable(v)[1 + 1]
  <2>3. buf = s \o r /\ r \in Seq(Byte) /\ s \in Seq(Byte) /\ s # <<>>
    BY <2>2, Written, PartBytes
  <2>4. s[1] # TColl
    <3> QED BY <2>1, <2>2, PartStarts DEF Type
  <2>5. buf[1] = s[1]
    <3> HIDE DEF s, r, buf
    <3>1. Len(s) >= 1 /\ Len(s) \in Nat /\ Len(r) \in Nat
      BY <2>3
    <3>2. (s \o r)[1] = s[1]
      BY <2>3, <3>1
    <3> QED BY <2>3, <3>2
  <2> QED BY <2>4, <2>5 DEF NodeFormat
<1> QED BY <1>2, <1>3

\* The other readers do as the tag says.
LEMMA OthersByTag ==
    ASSUME NEW buf, buf # NoBytes
    PROVE  /\ buf[1] = 2 => /\ deserialize_value(buf) = Int_(Number(buf))
                            /\ extract_int(buf) = Int_(Number(buf))
                            /\ poolRegister("Int", buf) = decodeRegister("Int", buf)
           /\ buf[1] = 4 => /\ deserialize_value(buf) = Long(Number(buf))
                            /\ extract_int(buf) = Long(Number(buf))
                            /\ poolRegister("Long", buf) = Long(Number(buf))
           /\ buf[1] = 14 /\ Len(buf) - decodeVLQ(buf, LengthAt(buf)).next + 1 =
                               decodeVLQ(buf, LengthAt(buf)).value =>
                deserialize_value(buf) = Coll(CollBytes(buf))
           /\ decodeRegister("Int", buf) = Int_(zigZagDecode(Unsigned(decodeVLQ(buf, 2).value, IntHalf)))
           /\ decodeRegister("Coll", buf) = Coll(CollBytes(buf))
<1>1. buf[1] = 2 => /\ deserialize_value(buf) = Int_(Number(buf))
                    /\ extract_int(buf) = Int_(Number(buf))
                    /\ poolRegister("Int", buf) = decodeRegister("Int", buf)
  BY DEF deserialize_value, extract_int, poolRegister, TInt, TLong, TColl, TSigmaProp
<1>2. buf[1] = 4 => /\ deserialize_value(buf) = Long(Number(buf))
                    /\ extract_int(buf) = Long(Number(buf))
                    /\ poolRegister("Long", buf) = Long(Number(buf))
  BY DEF deserialize_value, extract_int, poolRegister, TInt, TLong, TColl, TSigmaProp
<1>3. buf[1] = 14 /\ Len(buf) - decodeVLQ(buf, LengthAt(buf)).next + 1 =
                       decodeVLQ(buf, LengthAt(buf)).value =>
                deserialize_value(buf) = Coll(CollBytes(buf))
  BY DEF deserialize_value, TInt, TLong, TColl, TSigmaProp
<1>4. /\ decodeRegister("Int", buf) = Int_(zigZagDecode(Unsigned(decodeVLQ(buf, 2).value, IntHalf)))
      /\ decodeRegister("Coll", buf) = Coll(CollBytes(buf))
  BY DEF decodeRegister
<1> QED BY <1>1, <1>2, <1>3, <1>4

LEMMA HoldsItself ==
    \A buf \in Seq(Byte) : Holds(buf, 1, buf)
BY DEF Holds

LEMMA IntsAreRead ==
    ASSUME NEW v \in SValue, Exact(v), Type(v) = "Int", NEW b, b = serializeSValue(v)
    PROVE  /\ deserialize_value(b) = v /\ extract_int(b) = v /\ poolRegister("Int", b) = v
           /\ decodeRegister("Int", b) = v
<1> DEFINE n == Datum(v)
           z == zigZagEncode(n, IntHalf)
<1>1. /\ Plain(v) /\ Len(v) = 1 /\ v = <<v[1]>> /\ v[1] = <<"Int", n>> /\ n \in Int
      /\ InRange(n, IntHalf) /\ "sdk" \in Writers
  BY ExactLeaf DEF Exact, Writers
<1>2. z \in Nat /\ IntWord("sdk", n) = z /\ Unsigned(z, IntHalf) = z /\ zigZagDecode(z) = n
  BY <1>1, Words
<1>3. b = <<TInt>> \o encodeVLQ(z)
  <2>1. b = serializePart(v[1])
    BY <1>1, OnePartWritten
  <2>2. v[1][1] = "Int" /\ v[1][2] = n
    BY <1>1
  <2> QED BY <1>2, <2>1, <2>2 DEF serializePart
<1>4. b \in Seq(Byte)
  BY <1>1, SdkReadsWhatItWrote
<1>5. Int_(n) = v
  BY <1>1 DEF Int_
<1> HIDE DEF z, n
<1>6. b[1] = 2 /\ decodeVLQ(b, 2).value = z
  <2>1. Holds(b, 1, <<TInt>> \o encodeVLQ(z))
    BY <1>3, <1>4, HoldsItself
  <2>2. TInt \in Byte /\ TInt = 2
    BY DEF TInt, Byte
  <2> QED BY <1>2, <1>4, <2>1, <2>2, NumberRead
<1>7. Number(b) = n /\ zigZagDecode(Unsigned(decodeVLQ(b, 2).value, IntHalf)) = n
  BY <1>2, <1>6 DEF Number
<1>8. b # NoBytes
  BY <1>1, SdkReadsWhatItWrote
<1> QED BY <1>5, <1>6, <1>7, <1>8, OthersByTag

LEMMA LongsAreRead ==
    ASSUME NEW v \in SValue, Exact(v), Type(v) = "Long", NEW b, b = serializeSValue(v)
    PROVE  deserialize_value(b) = v /\ extract_int(b) = v /\ poolRegister("Long", b) = v
<1> DEFINE n == Datum(v)
           z == zigZagEncode(n, LongHalf)
<1>1. /\ Plain(v) /\ Len(v) = 1 /\ v = <<v[1]>> /\ v[1] = <<"Long", n>> /\ n \in Int
      /\ InRange(n, LongHalf) /\ "sdk" \in Writers
  BY ExactLeaf DEF Exact, Writers
<1>2. z \in Nat /\ LongWord("sdk", n) = z /\ zigZagDecode(z) = n
  BY <1>1, Words
<1>3. b = <<TLong>> \o encodeVLQ(z)
  <2>1. b = serializePart(v[1])
    BY <1>1, OnePartWritten
  <2>2. v[1][1] = "Long" /\ v[1][2] = n
    BY <1>1
  <2> QED BY <1>2, <2>1, <2>2 DEF serializePart
<1>4. b \in Seq(Byte)
  BY <1>1, SdkReadsWhatItWrote
<1>5. Long(n) = v
  BY <1>1 DEF Long
<1> HIDE DEF z, n
<1>6. b[1] = 4 /\ decodeVLQ(b, 2).value = z
  <2>1. Holds(b, 1, <<TLong>> \o encodeVLQ(z))
    BY <1>3, <1>4, HoldsItself
  <2>2. TLong \in Byte /\ TLong = 4
    BY DEF TLong, Byte
  <2> QED BY <1>2, <1>4, <2>1, <2>2, NumberRead
<1>7. Number(b) = n
  BY <1>2, <1>6 DEF Number
<1>8. b # NoBytes
  BY <1>1, SdkReadsWhatItWrote
<1> QED BY <1>5, <1>6, <1>7, <1>8, OthersByTag

LEMMA CollsAreRead ==
    ASSUME NEW v \in SValue, Exact(v), Type(v) = "Coll",
           NEW b \in {serializeSValue(v), <<TColl>> \o encodeVLQ(Len(Datum(v))) \o Datum(v)},
           b = serializeSValue(v) \/ Len(Datum(v)) # 1
    PROVE  /\ deserialize_value(b) = v /\ decodeRegister("Coll", b) = v
           /\ deserializeSValue(b) = v
<1> DEFINE data == Datum(v)
           e == encodeVLQ(Len(data))
           tags == <<TColl, TSByte>>
           tag == <<TColl>>
           node == tag \o e \o data
           k == LengthAt(b)
<1>1. /\ Plain(v) /\ Len(v) = 1 /\ v = <<v[1]>> /\ v[1] = <<"Coll", data>> /\ data \in Seq(Byte)
  BY ExactLeaf DEF Exact
<1>2. serializeSValue(v) = serializeCollByte(data)
  <2>1. serializeSValue(v) = serializePart(v[1])
    BY <1>1, OnePartWritten
  <2>2. v[1][1] = "Coll" /\ v[1][2] = data
    BY <1>1
  <2> QED BY <2>1, <2>2 DEF serializePart
<1>3. Len(data) \in Nat /\ e \in Seq(Byte) /\ Len(e) \in Nat
  BY <1>1, VlqRoundTrip
<1>4. tags \in Seq(Byte) /\ Len(tags) = 2 /\ tag \in Seq(Byte) /\ Len(tag) = 1
  BY DEF TColl, TSByte, Byte
<1>5. Coll(data) = v
  BY <1>1 DEF Coll
<1>6. serializeCollByte(data) = tags \o e \o data
  BY DEF serializeCollByte
<1>7. b = serializeCollByte(data) \/ (b = node /\ Len(data) # 1)
  BY <1>2
<1>8. /\ serializeCollByte(data) \in Seq(Byte) /\ Len(serializeCollByte(data)) = 2 + Len(e) + Len(data)
      /\ node \in Seq(Byte) /\ Len(node) = 1 + Len(e) + Len(data)
  <2> HIDE DEF tags, tag, e, data
  <2>1. tags \o e \in Seq(Byte) /\ Len(tags \o e) = 2 + Len(e) /\ tag \o e \in Seq(Byte) /\ Len(tag \o e) = 1 + Len(e)
    BY <1>3, <1>4, ConcatBytes
  <2>2. data \in Seq(Byte)
    BY <1>1
  <2> QED BY <1>6, <2>1, <2>2, ConcatBytes
<1>9. /\ b[1] = TColl /\ b # <<>> /\ CollBytes(b) = data /\ decodeVLQ(b, k).value = Len(data)
      /\ Len(b) - decodeVLQ(b, k).next + 1 = Len(data)
  <2> DEFINE x == decodeVLQ(b, k).next
  <2>0. b \in Seq(Byte) /\ Holds(b, 1, b)
    BY <1>7, <1>8, HoldsItself
  <2>1. \/ Holds(b, 1, serializeCollByte(data))
        \/ Holds(b, 1, <<TColl>> \o encodeVLQ(Len(data)) \o data) /\ Len(data) # 1
    BY <1>1, <1>7, <2>0
  <2>2. /\ b[1] = TColl /\ b # <<>> /\ CollBytes(b) = data /\ decodeVLQ(b, k).value = Len(data)
        /\ x = k + Len(e)
        /\ Holds(b, 1, serializeCollByte(data)) => k = 3
        /\ ~Holds(b, 1, serializeCollByte(data)) => k = 2
    <3> HIDE DEF data
    <3> QED BY <1>1, <2>0, <2>1, CollRead
  <2>3. k = 3 => Len(b) = 2 + Len(e) + Len(data)
    <3>1. CASE b = serializeCollByte(data)
      BY <1>8, <3>1
    <3>2. CASE b = node
      <4>1. k = 3 => Holds(b, 1, serializeCollByte(data))
        BY <2>2
      <4>2. Holds(b, 1, serializeCollByte(data)) => 2 + Len(e) + Len(data) <= Len(b)
        BY <1>8 DEF Holds
      <4>3. Len(b) = 1 + Len(e) + Len(data)
        BY <1>8, <3>2
      <4> HIDE DEF k, e, data
      <4> QED BY <1>3, <4>1, <4>2, <4>3
    <3> QED BY <1>7, <3>1, <3>2
  <2>4. k = 2 => Len(b) = 1 + Len(e) + Len(data)
    <3>1. CASE b = serializeCollByte(data)
      <4>1. Holds(b, 1, serializeCollByte(data))
        BY <2>0, <3>1
      <4> QED BY <2>2, <4>1
    <3>2. CASE b = node
      BY <1>8, <3>2
    <3> QED BY <1>7, <3>1, <3>2
  <2> HIDE DEF k, e, data, x
  <2>5. k \in {2, 3}
    BY <2>2
  <2>6. Len(b) - x + 1 = Len(data)
    BY <1>3, <2>2, <2>3, <2>4, <2>5
  <2> QED BY <2>2, <2>6 DEF x
<1>10. b \in Seq(Byte) /\ b[1] = 14
  BY <1>7, <1>8, <1>9 DEF TColl
<1> HIDE DEF data, node
<1>11. deserialize_value(b) = v /\ decodeRegister("Coll", b) = v
  BY <1>5, <1>9, <1>10, OthersByTag DEF NoBytes
<1>12. deserializeSValue(b) = v
  <2> DEFINE a == ReadTable(b)
             one == 1
  <2>1. one \in Nat \ {0} /\ Rest(b, one) = b
    BY <1>10 DEF Rest
  <2> HIDE DEF a, one
  <2>2. ReadStep(b, a, one) = deserializeLeaf(b)
    BY <1>9, <1>10, <2>1, ReadSteps
  <2>3. a[one] = ReadStep(b, a, one)
    BY <1>10, <2>1, ReadUnfolded DEF a
  <2>4. deserializeSValue(b) = a[1]
    BY <1>10, ReadUnfolded DEF a
  <2>5. deserializeLeaf(b) = Coll(CollBytes(b))
    BY <1>10, LeafByTag
  <2> QED BY <1>5, <1>9, <2>2, <2>3, <2>4, <2>5 DEF one
<1> QED BY <1>11, <1>12

\* The two forms of a register.
Forms(v) == {serializeSValue(v), NodeFormat(serializeSValue(v))}

(* Every part reads what another has written, as it was written and as the   *)
(* node hands it out.                                                        *)
LEMMA ReadersRead ==
    ASSUME NEW v \in SValue, Plain(v), NEW b \in Forms(v),
           b = serializeSValue(v) \/ ~(Type(v) = "Coll" /\ Len(Datum(v)) = 1)
    PROVE  /\ deserializeSValue(b) = v
           /\ Exact(v) /\ Type(v) \in {"Int", "Long"} =>
                deserialize_value(b) = v /\ extract_int(b) = v /\ poolRegister(Type(v), b) = v
           /\ Exact(v) /\ Type(v) = "Int" => decodeRegister("Int", b) = v
           /\ Exact(v) /\ Type(v) = "Coll" =>
                deserialize_value(b) = v /\ decodeRegister("Coll", b) = v
<1>1. CASE Exact(v) /\ Type(v) = "Coll"
  <2>1. b \in {serializeSValue(v), <<TColl>> \o encodeVLQ(Len(Datum(v))) \o Datum(v)}
    BY NodeFormats DEF Forms
  <2>2. b = serializeSValue(v) \/ Len(Datum(v)) # 1
    BY <1>1
  <2> QED BY <1>1, <2>1, <2>2, CollsAreRead
<1>2. CASE ~(Exact(v) /\ Type(v) = "Coll")
  <2>1. b = serializeSValue(v)
    BY <1>2, NodeFormats DEF Forms
  <2>2. deserializeSValue(b) = v
    BY <2>1, SdkReadsWhatItWrote
  <2> QED BY <1>2, <2>1, <2>2, IntsAreRead, LongsAreRead
<1> QED BY <1>1, <1>2

-----------------------------------------------------------------------------
(* The register on its way.                                                *)

\* Before anybody writes.
Blank == value = <<>> /\ bytes = NoBytes /\ ~fromNode /\ results = Unread

\* A plain value: what stands in the register is what its writer made of it,
\* in one of the two formats, and whoever has read it has read the value,
\* unless it is a single byte in the node's format.
Faithful ==
    /\ bytes = IF fromNode THEN NodeFormat(Write(writer, value)) ELSE Write(writer, value)
    /\ ~OneByteFromNode => results["sdk"] \in {<<>>, value}
    /\ Exact(value) /\ Type(value) \in {"Int", "Long"} =>
         \A r \in {"backend", "poolSdk", "pool"} : results[r] \in {<<>>, value}
    /\ Exact(value) /\ Type(value) = "Int" => results["service"] \in {<<>>, value}
    /\ Exact(value) /\ Type(value) = "Coll" /\ ~OneByteFromNode =>
         \A r \in {"backend", "service"} : results[r] \in {<<>>, value}

RegisterInv ==
    /\ results = [r \in Readers |-> results[r]]
    /\ writer = "" => Blank
    /\ writer # "" => writer \in Writers /\ value \in Values /\ (Plain(value) => Faithful)

\* A register that can be read holds the value in one of its two forms.
LEMMA HeldForms ==
    ASSUME RegisterInv, Readable, Plain(value)
    PROVE  /\ value \in SValue /\ bytes \in Forms(value) /\ Faithful
           /\ Write(writer, value) = serializeSValue(value)
           /\ ~fromNode => bytes = serializeSValue(value)
<1>1. value \in SValue /\ writer \in Writers /\ Faithful /\ bytes # NoBytes
  BY InteropAssumption DEF RegisterInv, Readable
<1>2. Write(writer, value) \in {NoBytes, serializeSValue(value)}
  BY <1>1, WritersWriteAlike
<1>3. NodeFormat(NoBytes) = NoBytes
  BY DEF NodeFormat, NoBytes
<1>4. Write(writer, value) = serializeSValue(value)
  BY <1>1, <1>2, <1>3 DEF Faithful
<1> QED BY <1>1, <1>4 DEF Faithful, Forms

LEMMA UnreadResults ==
    \A r \in Readers : Unread[r] = <<>>
BY DEF Unread

LEMMA ReaderNames ==
    "sdk" \in Readers /\ "backend" \in Readers /\ "service" \in Readers
    /\ "poolSdk" \in Readers /\ "pool" \in Readers
BY DEF Readers

LEMMA RegisterStart == RegisterInit => RegisterInv
BY DEF RegisterInit, RegisterInv, Blank, Unread, NoBytes

LEMMA WriteKeeps ==
    ASSUME RegisterInv, NEW w \in Writers, NEW v \in Values, WriteRegister(w, v)
    PROVE  RegisterInv'
<1>1. /\ writer' = w /\ value' = v /\ bytes' = Write(w, v) /\ ~fromNode'
      /\ results' = results /\ results = Unread
  BY DEF RegisterInv, Blank, WriteRegister
<1>2. w # ""
  BY DEF Writers
<1>3. Faithful'
  BY <1>1, UnreadResults, ReaderNames DEF Faithful
<1> QED BY <1>1, <1>2, <1>3 DEF RegisterInv

\* What a reader makes of a plain value.
LEMMA ResultOf ==
    ASSUME RegisterInv, Readable, Plain(value), ~OneByteFromNode, NEW r \in Readers
    PROVE  /\ Read("sdk", Type(value), bytes) = value
           /\ Exact(value) /\ Type(value) \in {"Int", "Long"} /\ r \in {"backend", "poolSdk", "pool"} =>
                Read(r, Type(value), bytes) = value
           /\ Exact(value) /\ Type(value) = "Int" => Read("service", Type(value), bytes) = value
           /\ Exact(value) /\ Type(value) = "Coll" /\ r \in {"backend", "service"} =>
                Read(r, Type(value), bytes) = value
<1>1. /\ value \in SValue /\ bytes \in Forms(value)
      /\ bytes = serializeSValue(value) \/ ~(Type(value) = "Coll" /\ Len(Datum(value)) = 1)
  BY HeldForms DEF OneByteFromNode
<1>2. /\ deserializeSValue(bytes) = value
      /\ Exact(value) /\ Type(value) \in {"Int", "Long"} =>
           /\ deserialize_value(bytes) = value /\ extract_int(bytes) = value
           /\ poolRegister(Type(value), bytes) = value
      /\ Exact(value) /\ Type(value) = "Int" => decodeRegister("Int", bytes) = value
      /\ Exact(value) /\ Type(value) = "Coll" =>
           deserialize_value(bytes) = value /\ decodeRegister("Coll", bytes) = value
  BY <1>1, ReadersRead
<1> QED BY <1>2 DEF Read

LEMMA ReadKeeps ==
    ASSUME RegisterInv, NEW r \in Readers, ReadRegister(r)
    PROVE  RegisterInv'
<1> DEFINE x == Read(r, Type(value), bytes)
<1>1. /\ writer # "" /\ writer' = writer /\ value' = value /\ bytes' = bytes /\ fromNode' = fromNode
      /\ results' = [results EXCEPT ![r] = x] /\ Readable
  BY DEF ReadRegister, Readable
<1>2. ASSUME Plain(value), ~OneByteFromNode
      PROVE  /\ r = "sdk" => x = value
             /\ Exact(value) /\ Type(value) \in {"Int", "Long"} /\ r \in {"backend", "poolSdk", "pool"} =>
                  x = value
             /\ Exact(value) /\ Type(value) = "Int" /\ r = "service" => x = value
             /\ Exact(value) /\ Type(value) = "Coll" /\ r \in {"backend", "service"} => x = value
  BY <1>1, <1>2, ResultOf
<1> HIDE DEF x
<1>3. /\ results' = [q \in Readers |-> results'[q]]
      /\ \A q \in Readers : results'[q] = IF q = r THEN x ELSE results[q]
  <2>1. results = [q \in Readers |-> results[q]]
    BY DEF RegisterInv
  <2>2. results' = [q \in Readers |-> IF q = r THEN x ELSE results[q]]
    BY <1>1, <2>1
  <2> QED BY <2>2
<1>4. ASSUME Plain(value) PROVE Faithful'
  <2>1. Faithful
    BY <1>1, <1>4 DEF RegisterInv
  <2>2. OneByteFromNode' <=> OneByteFromNode
    BY <1>1 DEF OneByteFromNode
  <2>3. Type(value) # "Coll" => ~OneByteFromNode
    BY DEF OneByteFromNode
  <2> QED BY <1>1, <1>2, <1>3, <1>4, <2>1, <2>2, <2>3, ReaderNames DEF Faithful
<1> QED BY <1>1, <1>3, <1>4 DEF RegisterInv

LEMMA ReformatKeeps ==
    ASSUME RegisterInv, NodeReformats
    PROVE  RegisterInv'
<1>1. /\ writer # "" /\ writer' = writer /\ value' = value /\ bytes' = NodeFormat(bytes)
      /\ ~fromNode /\ fromNode' /\ results' = Unread /\ Readable
  BY DEF NodeReformats, Readable
<1>2. ASSUME Plain(value) PROVE Faithful'
  <2>1. bytes = Write(writer, value)
    BY <1>1, <1>2, HeldForms DEF Faithful
  <2> QED BY <1>1, <2>1, UnreadResults, ReaderNames DEF Faithful
<1> QED BY <1>1, <1>2 DEF RegisterInv, Unread

LEMMA RegisterKept ==
    ASSUME RegisterInv, UNCHANGED registerVars
    PROVE  RegisterInv'
<1>1. value' = value /\ writer' = writer /\ bytes' = bytes /\ fromNode' = fromNode /\ results' = results
  BY DEF registerVars
<1> QED BY <1>1 DEF RegisterInv, Blank, Faithful, OneByteFromNode

(* The invariant of the registers holds in every state.                      *)
LEMMA RegistersAreFaithful == RegisterSpec => []RegisterInv
<1>1. RegisterInv /\ [RegisterNext]_registerVars => RegisterInv'
  BY WriteKeeps, ReadKeeps, ReformatKeeps, RegisterKept DEF RegisterNext
<1> QED BY <1>1, RegisterStart, PTL DEF RegisterSpec

(* An Int of 32 bits and a Long of 64 is the number every part reads, whoever *)
(* wrote it and in whichever format it is handed out: the six zigzag and VLQ  *)
(* codes agree on all of them, at every width.                                *)
THEOREM NumbersAlwaysSurvive == RegisterSpec => []NumbersSurvive
<1>1. RegisterInv => NumbersSurvive
  <2> SUFFICES ASSUME RegisterInv, value # <<>>, Type(value) \in {"Int", "Long"},
                      InRange(Datum(value), IF Type(value) = "Int" THEN IntHalf ELSE LongHalf)
               PROVE  /\ bytes # NoBytes
                      /\ \A r \in Readers \ {"service"} :
                            Reads(r, {"Int", "Long"}) => results[r] = value
                      /\ Reads("service", {"Int"}) => results["service"] = value
    BY DEF NumbersSurvive
  <2>1. writer \in Writers /\ value \in SValue /\ (Plain(value) => Faithful)
    BY InteropAssumption DEF RegisterInv, Blank
  <2>2. Exact(value)
    BY DEF Exact
  <2>3. Plain(value) /\ Faithful
    BY <2>1, <2>2, ExactLeaf
  <2>4. Write(writer, value) = serializeSValue(value) /\ serializeSValue(value) # NoBytes
    BY <2>1, <2>2, <2>3, WritersWriteAlike, SdkReadsWhatItWrote
  <2>5. NodeFormat(serializeSValue(value)) = serializeSValue(value)
    BY <2>1, <2>3, NodeFormats
  <2>6. ~OneByteFromNode
    BY DEF OneByteFromNode
  <2> QED BY <2>2, <2>3, <2>4, <2>5, <2>6 DEF Faithful, Readers, Reads
<1> QED BY <1>1, RegistersAreFaithful, PTL

(* Bytes come back whole from either format, but for a single byte in the     *)
(* node's: for every length of the bytes and so for every length of the VLQ.  *)
THEOREM BytesAlwaysSurvive == RegisterSpec => []BytesSurvive
<1>1. RegisterInv => BytesSurvive
  <2> SUFFICES ASSUME RegisterInv, value # <<>>, Type(value) = "Coll", ~OneByteFromNode,
                      NEW r \in {"sdk", "backend", "service"}, Reads(r, {"Coll"})
               PROVE  results[r] = value
    BY DEF BytesSurvive
  <2>1. value \in SValue /\ (Plain(value) => Faithful)
    BY InteropAssumption DEF RegisterInv, Blank
  <2>2. Exact(value)
    BY DEF Exact
  <2>3. Faithful
    BY <2>1, <2>2, ExactLeaf
  <2> QED BY <2>2, <2>3 DEF Faithful, Reads
<1> QED BY <1>1, RegistersAreFaithful, PTL

(* The SDK reads back what it wrote of options and pairs, however deep the    *)
(* value is nested.                                                           *)
THEOREM ValuesAlwaysSurvive == RegisterSpec => []ValuesSurvive
<1>1. RegisterInv => ValuesSurvive
  BY DEF RegisterInv, Blank, Faithful, ValuesSurvive
<1> QED BY <1>1, RegistersAreFaithful, PTL

=============================================================================
