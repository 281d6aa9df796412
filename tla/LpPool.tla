------------------------------- MODULE LpPool -------------------------------
(***************************************************************************)
(* The tokenized bankroll: the singleton pool box and the withdrawal       *)
(* requests on the chain (sdk/src/pool/BankrollPool.ts), the queries of    *)
(* the SDK (PoolManager.ts), and the backend that quotes deposits and      *)
(* withdrawals from a pool state it caches (pool_manager.py, lp_routes.py  *)
(* of the worktree).  Calls of the routes interleave at every await.       *)
(*                                                                         *)
(* The routes answer with amounts and name no pool box.  Wallet or house   *)
(* complete the transaction, which no code of the repository does, so the  *)
(* completion is external: it spends whatever pool box there is then, with *)
(* the amounts of the quote, and the contract asks only what is written    *)
(* below.  A quote may have been computed from a pool that has moved since.*)
(***************************************************************************)
EXTENDS PoolMath, FiniteSetsExt

CONSTANTS
    Lps,                     \* the liquidity providers
    Calls,                   \* calls of the /lp routes, each made once
    None,
    MIN_DEPOSIT_NANOERG,     \* config.min_deposit
    MIN_POOL_VALUE_NANOERG,  \* config.min_pool_value, the anti-drain floor
    CACHE_TTL,               \* _cache_ttl, in units of the clock
    PoolAtStart,             \* the pool box: value, supply, minDeposit, cooldown
    WalletsAtStart,          \* LP tokens of each provider
    ReserveAtStart,          \* LP tokens of the node's wallet, not issued yet
    Bodies(_),               \* the requests a call may be
    Profits,                 \* what the house adds at once
    Params,                  \* pairs <<minDeposit, cooldown>> the house may set
    MaxHeight, MaxClock, MaxValue \* bounds: blocks, clock ticks, value with profits

ASSUME LpPoolAssumption ==
    /\ MIN_DEPOSIT_NANOERG \in Nat \ {0} /\ MIN_POOL_VALUE_NANOERG \in Nat
    /\ CACHE_TTL \in Nat \ {0}
    /\ Profits \subseteq Nat \ {0} /\ Params \subseteq Nat \X Nat
    /\ IsFiniteSet(Lps) /\ IsFiniteSet(Calls)
    /\ PoolAtStart \in [value : Nat \ {0}, supply : Nat \ {0}, minDeposit : Nat, cooldown : Nat]
    /\ WalletsAtStart \in [Lps -> Nat] /\ ReserveAtStart \in Nat
    \* the pool box starts with as many tokens as there are shares
    /\ PoolAtStart.supply = SumFunctionOnSet(WalletsAtStart, Lps)
    /\ MaxHeight \in Nat /\ MaxClock \in Nat /\ MaxValue \in Nat

VARIABLES
    height, clock,
    pool,       \* the unspent pool box: value, supply (its LP tokens), minDeposit, cooldown
    wallet,     \* LP tokens in the wallets of the providers
    reserve,    \* LP tokens in the node's wallet
    request,    \* the withdrawal request box each call created, or None
    spent,      \* the requests whose box is spent
    cache,      \* _cached_state and _cache_time, or None
    pc,         \* idle, fetch, answered, ready, built, done
    op,         \* the route called and its body, while the call runs
    seen,       \* the PoolState the call works with
    since,      \* now: when get_pool_state looked at the clock
    tx          \* the transaction of the answer, until it is included

chain == <<height, pool, wallet, reserve, request, spent>>
backend == <<cache, op, seen, since>>
vars == <<height, clock, pool, wallet, reserve, request, spent, cache, pc, op, seen, since, tx>>

Ops == [kind : {"deposit", "request"}, lp : Lps, amount : Nat \ {0}]
       \cup [kind : {"execute", "cancel"}, id : Calls]

ASSUME BodiesAssumption == \A c \in Calls : Bodies(c) \subseteq Ops

Init ==
    /\ height = 0 /\ clock = 0
    /\ pool = PoolAtStart
    /\ wallet = WalletsAtStart /\ reserve = ReserveAtStart
    /\ request = [c \in Calls |-> None] /\ spent = {}
    /\ cache = None
    /\ pc = [c \in Calls |-> "idle"]
    /\ op = [c \in Calls |-> None] /\ seen = [c \in Calls |-> None]
    /\ since = [c \in Calls |-> 0] /\ tx = [c \in Calls |-> None]

-----------------------------------------------------------------------------
(* The contracts. `out` is the pool box a transaction creates, `used` the  *)
(* requests it spends.                                                     *)

SameRegisters(out) == out.minDeposit = pool.minDeposit /\ out.cooldown = pool.cooldown

\* An open request whose cooldown is over; its terms are its own registers.
Mature(c, h) == h >= request[c].at + request[c].cooldown
hasValidWithdrawRequest(used) == \E c \in used : Mature(c, height)

isDeposit(out) ==
    out.supply > pool.supply /\ out.value > pool.value /\ SameRegisters(out)

\* A box holds some value and a positive number of a token: neither the last
\* nanoERG nor the last share can leave it.
isWithdraw(out, used) ==
    /\ out.supply < pool.supply /\ out.supply > 0
    /\ out.value < pool.value /\ out.value > 0 /\ out.value >= pool.minDeposit
    /\ SameRegisters(out) /\ hasValidWithdrawRequest(used)

isCollect(out) ==
    out.supply = pool.supply /\ out.value > pool.value /\ SameRegisters(out)

isUpdate(out) == out.supply = pool.supply /\ out.value = pool.value

\* The pool box a transaction of a route creates.
NextBox(value, supply) == [pool EXCEPT !.value = value, !.supply = supply]

\* The requests that are neither executed nor cancelled.
Open == {c \in Calls : request[c] # None /\ c \notin spent}

-----------------------------------------------------------------------------
(* The backend: get_pool_state, shared by the routes, and the routes.      *)

Cached == cache # None /\ clock - cache.time < CACHE_TTL

\* A route is called. Cancelling needs no pool state; the others take the
\* cached one or ask the node.
Enter(c, o) ==
    /\ pc[c] = "idle"
    /\ op' = [op EXCEPT ![c] = o]
    /\ \/ o.kind = "cancel" /\ pc' = [pc EXCEPT ![c] = "ready"] /\ UNCHANGED <<seen, since>>
       \/ /\ o.kind # "cancel" /\ Cached
          /\ seen' = [seen EXCEPT ![c] = cache.state]
          /\ pc' = [pc EXCEPT ![c] = "ready"] /\ UNCHANGED since
       \/ /\ o.kind # "cancel" /\ ~Cached
          /\ since' = [since EXCEPT ![c] = clock]
          /\ pc' = [pc EXCEPT ![c] = "fetch"] /\ UNCHANGED seen
    /\ UNCHANGED <<chain, clock, cache, tx>>

\* The node answers with the pool box of now; its answer travels on.
NodeAnswers(c) ==
    /\ pc[c] = "fetch"
    /\ seen' = [seen EXCEPT ![c] = [value |-> pool.value, supply |-> pool.supply,
                                    cooldown |-> pool.cooldown, readAt |-> clock]]
    /\ pc' = [pc EXCEPT ![c] = "answered"]
    /\ UNCHANGED <<chain, clock, cache, op, since, tx>>

\* Variant: the answer counts as new when it arrives.
Store_ByArrival(c) ==
    /\ pc[c] = "answered"
    /\ cache' = [state |-> seen[c], time |-> clock]
    /\ since' = [since EXCEPT ![c] = 0]
    /\ pc' = [pc EXCEPT ![c] = "ready"]
    /\ UNCHANGED <<chain, clock, op, seen, tx>>

\* The answer arrives: it is cached under the time the call began, whatever
\* another call cached meanwhile.
Store(c) ==
    /\ pc[c] = "answered"
    /\ cache' = [state |-> seen[c], time |-> since[c]]
    /\ since' = [since EXCEPT ![c] = 0]
    /\ pc' = [pc EXCEPT ![c] = "ready"]
    /\ UNCHANGED <<chain, clock, op, seen, tx>>

\* The call ends, and its locals with it.
End(c, stage) ==
    /\ pc' = [pc EXCEPT ![c] = stage]
    /\ op' = [op EXCEPT ![c] = None] /\ seen' = [seen EXCEPT ![c] = None]
    /\ since' = [since EXCEPT ![c] = 0]
    /\ UNCHANGED <<chain, clock, cache>>

\* The node does not answer, or the route answers with an error.
Fail(c) ==
    /\ pc[c] \in {"fetch", "ready"}
    /\ End(c, "done") /\ UNCHANGED tx

Answer(c, t) == End(c, "built") /\ tx' = [tx EXCEPT ![c] = t]

\* What a quote was computed from. No answer carries it: history for the
\* properties.
Basis(s) == [value |-> s.value, supply |-> s.supply]

\* POST /lp/deposit
BuildDeposit(c) ==
    LET o == op[c]  s == seen[c]
        shares == calculateDepositShares(o.amount, s.value, s.supply)
    IN  /\ pc[c] = "ready" /\ o.kind = "deposit"
        /\ o.amount >= MIN_DEPOSIT_NANOERG /\ shares # 0
        /\ Answer(c, [kind |-> "deposit", lp |-> o.lp, amount |-> o.amount,
                      shares |-> shares, basis |-> Basis(s)])

\* POST /lp/request-withdraw: the amount is fixed now, the height is the
\* node's, the cooldown that of the pool state.
BuildRequest(c) ==
    LET o == op[c]  s == seen[c]
    IN  /\ pc[c] = "ready" /\ o.kind = "request" /\ o.amount <= s.supply
        /\ Answer(c, [kind |-> "request", lp |-> o.lp, amount |-> o.amount,
                      erg |-> Capped(calculateWithdrawErg(o.amount, s.value, s.supply),
                                     s.value, MIN_POOL_VALUE_NANOERG),
                      at |-> height, cooldown |-> s.cooldown, basis |-> Basis(s)])

\* POST /lp/execute-withdraw: byId also finds a request already spent.
BuildExecute(c) ==
    LET o == op[c]  s == seen[c]
    IN  /\ pc[c] = "ready" /\ o.kind = "execute" /\ request[o.id] # None
        /\ Mature(o.id, height)
        /\ Answer(c, [kind |-> "execute", id |-> o.id, basis |-> Basis(s),
                      erg |-> Capped(request[o.id].erg, s.value, MIN_POOL_VALUE_NANOERG)])

\* POST /lp/cancel-withdraw
BuildCancel(c) ==
    /\ pc[c] = "ready" /\ op[c].kind = "cancel" /\ request[op[c].id] # None
    /\ Answer(c, [kind |-> "cancel", id |-> op[c].id])

-----------------------------------------------------------------------------
(* The chain.                                                              *)

Included(c) ==
    /\ pc' = [pc EXCEPT ![c] = "done"]
    /\ tx' = [tx EXCEPT ![c] = None]
    /\ UNCHANGED <<height, clock, backend>>

\* The pool box gains the amount and the shares, the depositor's wallet the
\* shares. A token cannot be minted later than its first transaction, so both
\* come from the node's wallet, which submits the transaction.
IncludeDeposit(c) ==
    LET t == tx[c]  out == NextBox(pool.value + t.amount, pool.supply + t.shares)
    IN  /\ pc[c] = "built" /\ t.kind = "deposit"
        /\ isDeposit(out) /\ pool' = out
        /\ 2 * t.shares <= reserve /\ reserve' = reserve - 2 * t.shares
        /\ wallet' = [wallet EXCEPT ![t.lp] = @ + t.shares]
        /\ Included(c) /\ UNCHANGED <<request, spent>>

IncludeRequest(c) ==
    LET t == tx[c]
    IN  /\ pc[c] = "built" /\ t.kind = "request" /\ t.amount <= wallet[t.lp]
        /\ wallet' = [wallet EXCEPT ![t.lp] = @ - t.amount]
        /\ request' = [request EXCEPT ![c] = [holder |-> t.lp, lp |-> t.amount, erg |-> t.erg,
                                              at |-> t.at, cooldown |-> t.cooldown,
                                              basis |-> t.basis]]
        /\ Included(c) /\ UNCHANGED <<pool, reserve, spent>>

\* Variant: burns the shares the payment is worth now.
IncludeExecute_ByValue(c) ==
    LET t == tx[c]
        out == NextBox(pool.value - t.erg,
                       pool.supply - calculateSharesToBurn(t.erg, pool.value, pool.supply))
    IN  /\ pc[c] = "built" /\ t.kind = "execute" /\ t.id \in Open
        /\ isWithdraw(out, {t.id}) /\ pool' = out
        /\ spent' = spent \cup {t.id}
        /\ Included(c) /\ UNCHANGED <<wallet, reserve, request>>

\* The request's shares are burned, as many leave the pool box, and its
\* holder is paid from the pool.
IncludeExecute(c) ==
    LET t == tx[c]  out == NextBox(pool.value - t.erg, pool.supply - request[t.id].lp)
    IN  /\ pc[c] = "built" /\ t.kind = "execute" /\ t.id \in Open
        /\ isWithdraw(out, {t.id}) /\ pool' = out
        /\ spent' = spent \cup {t.id}
        /\ Included(c) /\ UNCHANGED <<wallet, reserve, request>>

\* A request may be cancelled at any time, to its holder.
IncludeCancel(c) ==
    LET r == request[tx[c].id]
    IN  /\ pc[c] = "built" /\ tx[c].kind = "cancel" /\ tx[c].id \in Open
        /\ wallet' = [wallet EXCEPT ![r.holder] = @ + r.lp]
        /\ spent' = spent \cup {tx[c].id}
        /\ Included(c) /\ UNCHANGED <<pool, reserve, request>>

\* The house adds profit, or changes the parameters.
HouseSpends ==
    /\ \/ \E p \in Profits :
             /\ pool.value + p <= MaxValue
             /\ pool' = NextBox(pool.value + p, pool.supply) /\ isCollect(pool')
       \/ \E p \in Params :
             /\ pool' = [pool EXCEPT !.minDeposit = p[1], !.cooldown = p[2]]
             /\ isUpdate(pool')
    /\ UNCHANGED <<height, clock, wallet, reserve, request, spent, pc, backend, tx>>

NewBlock ==
    /\ height < MaxHeight /\ height' = height + 1
    /\ UNCHANGED <<clock, pool, wallet, reserve, request, spent, pc, backend, tx>>

Tick ==
    /\ clock < MaxClock /\ clock' = clock + 1
    /\ UNCHANGED <<chain, pc, backend, tx>>

Route(c) ==
    \/ \E o \in Bodies(c) : Enter(c, o)
    \/ NodeAnswers(c) \/ Store(c) \/ Fail(c)
    \/ BuildDeposit(c) \/ BuildRequest(c) \/ BuildExecute(c) \/ BuildCancel(c)

Include(c) == IncludeDeposit(c) \/ IncludeRequest(c) \/ IncludeExecute(c) \/ IncludeCancel(c)

Next == (\E c \in Calls : Route(c) \/ Include(c)) \/ HouseSpends \/ NewBlock \/ Tick

Spec == Init /\ [][Next]_vars

-----------------------------------------------------------------------------
(* Properties.                                                             *)

Bases == [value : Nat \ {0}, supply : Nat \ {0}]
States == [value : Nat \ {0}, supply : Nat \ {0}, cooldown : Nat, readAt : Nat]
Txs == [kind : {"deposit"}, lp : Lps, amount : Nat, shares : Nat, basis : Bases]
       \cup [kind : {"request"}, lp : Lps, amount : Nat \ {0}, erg : Nat, at : Nat,
             cooldown : Nat, basis : Bases]
       \cup [kind : {"execute"}, id : Calls, basis : Bases, erg : Nat]
       \cup [kind : {"cancel"}, id : Calls]
Requests == [holder : Lps, lp : Nat \ {0}, erg : Nat, at : Nat, cooldown : Nat, basis : Bases]

ASSUME NoneAssumption == None \notin Requests

\* Type invariant; the pool box always holds a share and some value.
TypeOK ==
    /\ height \in Nat /\ clock \in Nat
    /\ pool \in [value : Nat \ {0}, supply : Nat \ {0}, minDeposit : Nat, cooldown : Nat]
    /\ wallet \in [Lps -> Nat] /\ reserve \in Nat
    /\ request \in [Calls -> Requests \cup {None}] /\ spent \in SUBSET Calls
    /\ cache = None \/ cache \in [state : States, time : Nat]
    /\ pc \in [Calls -> {"idle", "fetch", "answered", "ready", "built", "done"}]
    /\ op \in [Calls -> Ops \cup {None}]
    /\ seen \in [Calls -> States \cup {None}]
    /\ since \in [Calls -> Nat]
    /\ tx \in [Calls -> Txs \cup {None}]

\* A share of `p` is worth less than a share of `q`.
Cheaper(p, q) == p.value * q.supply < q.value * p.supply

\* The call's transaction of this kind is included in this step.
IsIncluded(c, kind) == pc[c] = "built" /\ pc'[c] = "done" /\ tx[c].kind = kind

\* A share loses value only to a quote the pool has moved away from: to a
\* deposit priced when shares were cheaper, and then no further than down to
\* the quoted price, or to a request priced when shares were dearer. Profits,
\* cancellations, all roundings and every quote that is still the price leave
\* value / supply, the price of a share, where it is or above.
OnlyStaleQuotesCost ==
    [][Cheaper(pool', pool) => \E c \in Calls :
          \/ /\ IsIncluded(c, "deposit")
             /\ Cheaper(tx[c].basis, pool) /\ ~Cheaper(pool', tx[c].basis)
          \/ /\ IsIncluded(c, "execute")
             /\ Cheaper(pool, request[tx[c].id].basis)]_vars

\* The shares in each call's request, while it is open.
Locked == [c \in Calls |-> IF c \in Open THEN request[c].lp ELSE 0]

\* Tokens that are somebody's share: in a wallet or in an open request.
Outstanding == SumFunctionOnSet(wallet, Lps) + SumFunctionOnSet(Locked, Calls)

\* The tokens of the pool box, which every quote divides by, are as many as
\* the outstanding shares, and no token comes from nowhere: no order of
\* deposits, executions and cancellations of one request, in the mempool
\* together, burns or returns a share twice or strands one.
SharesAreCounted ==
    /\ pool.supply = Outstanding
    /\ reserve + pool.supply + Outstanding <= ReserveAtStart + 2 * PoolAtStart.supply

\* A withdrawal leaves the anti-drain floor in the pool, except for what has
\* left the pool since its cap was computed: a pool that has not shrunk
\* meanwhile keeps the whole floor.
FloorGivesWayToOverlapsOnly ==
    [][pool'.value < pool.value => \E c \in Calls :
          /\ IsIncluded(c, "execute")
          /\ \/ pool'.value >= MIN_POOL_VALUE_NANOERG
             \/ /\ tx[c].basis.value > pool.value
                /\ pool'.value + (tx[c].basis.value - pool.value) >= MIN_POOL_VALUE_NANOERG]_vars

\* A call served from the cache works with the pool of less than CACHE_TTL
\* ago, although slower calls overwrite what faster ones cached.
CacheIsFresh ==
    [][\A c \in Calls : pc[c] = "idle" /\ pc'[c] = "ready" /\ seen'[c] # seen[c] =>
          clock - seen'[c].readAt < CACHE_TTL]_vars

-----------------------------------------------------------------------------
(* The inductive invariant: what was quoted or asked is worth no more than *)
(* its basis, and an execution takes no more than its request asks for and *)
(* its basis has above the floor; `asked` are the requests.                *)

CoveredTx(t, asked) ==
    CASE t.kind = "deposit" -> t.shares * t.basis.value <= t.amount * t.basis.supply
      [] t.kind = "request" -> t.erg * t.basis.supply <= t.amount * t.basis.value
      [] t.kind = "execute" ->
           /\ asked[t.id] # None /\ t.erg <= asked[t.id].erg
           /\ t.erg > 0 => t.basis.value - t.erg >= MIN_POOL_VALUE_NANOERG
      [] t.kind = "cancel" -> asked[t.id] # None

CallInv(c) ==
    /\ pc[c] \in {"fetch", "answered", "ready"} => op[c] \in Ops
    /\ pc[c] \in {"fetch", "answered"} => op[c].kind # "cancel"
    /\ \/ pc[c] = "answered"
       \/ pc[c] = "ready" /\ op[c].kind # "cancel"
       => seen[c] \in States
    /\ pc[c] = "built" => tx[c] \in Txs /\ CoveredTx(tx[c], request)
    /\ request[c] # None =>
         /\ pc[c] = "done"
         /\ request[c].erg * request[c].basis.supply <= request[c].lp * request[c].basis.value

\* Every quote, from the route to the box that asks for it, is covered by the
\* pool it was computed from: the strengthening the other properties are
\* proved from.
IInv == TypeOK /\ \A c \in Calls : CallInv(c)

=============================================================================
