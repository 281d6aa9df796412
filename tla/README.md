# DuckPools Coinflip: a formal model

TLA+ modules, TLC configurations and TLAPS proofs for the coinflip dApp in this
repository: an ErgoScript contract that holds a bet, the TypeScript that builds
its transactions, the FastAPI backend that records bets and pushes events to
browsers, the tokenized bankroll, the oracle service, the SDK, the wallet code
and the off-chain bot.

Run a model with `tlc -config <cfg> <module>` and the proofs of a `...Proofs`
module with `tlapm <module>.tla` (section 12 says which is about what). `PROJECT.json` lists the runs, the mutants, the
source lines behind every definition, the findings, the hazards and the theorems.

## 1. Inventory

| Component | Source | State | Operations | Module |
|---|---|---|---|---|
| Coinflip contract | `smart-contracts/coinflip_v2.es` | the bet box: value, registers R4..R9 | REVEAL path (house), REFUND path (player) | `CoinflipContract` |
| On-chain service and game form | `frontend/src/services/coinflipService.ts`, `CoinFlipGame.tsx`, `config/contract.ts` | the form, transactions at the node | place, sign, submit, reveal, refund; decoders; the off-chain fallback | `Coinflip`, `Registers`, `BetPages` |
| WebSocket manager, routes, events | `backend/ws_manager.py`, `ws_routes.py`, `game_events.py` | five dictionaries behind one `asyncio.Lock`; one handler per WebSocket | connect, subscribe, unsubscribe, disconnect, set_owner, two broadcasts | `WsManager` |
| Wallet hook | `frontend/src/wallet/useErgoWallet.ts`, `useWalletManager.ts`, `useWalletSessionPersistence.ts`, `WalletConnector.tsx` | wallet state, context, connect guard and timer, stored sessions | select, connect, restore, reconnect, disconnect, refresh | `ErgoWallet` |
| Bankroll pool | `sdk/src/pool`, `pool_manager.py` and `lp_routes.py` of the worktree `MAT-157-docker-setup` | pool box, withdrawal requests, LP tokens, cached pool state | deposit, request, execute, cancel, collect profit, set parameters | `PoolMath`, `LpPool` |
| Oracle service | `oracle_service.py`, `oracle_routes.py` of the same worktree | current endpoint, health, age of the feed, a lock | get data with failover, health loop, switch, stop | `OracleService` |
| Serializers | `sdk/src/serialization`, `backend/vlq_serializer.py`, `frontend/src/utils/sigmaSerializer.ts`, decoders of the service and of the pool managers | none | zigzag, VLQ, constants, pairs, options | `ZigZag`, `Registers`, `Interop` |
| SDK transaction builder, bet manager | `sdk/src/transaction`, `sdk/src/bet` | the builder's fee and change address | setFee, setChangeAddress, build, the three bet transactions | `TxBuilder` |
| Off-chain bot | `off-chain-bot/main.py`, `health_server.py`, `ecosystem.config.js` | shutdown flag, heartbeat task and file, health server | start, round, retry, signal, stop, kill | `OffChainBot` |
| Game routes and views | `backend/game_routes.py`, `GameHistory.tsx`, `StatsDashboard.tsx` | `_bets`, `_pool_stats` in memory; list, statistics, spinners of the page | place-bet, history, player stats, comp points; fetch, poll, change of address | `BetPages` |
| RNG module, legacy contract, database models, HTTP clients, oracle client, scripts, UI stores | see `PROJECT.json` | | | not modelled, section 11 |

### How they interact

The **player's browser** reads UTXOs, change address and height from the wallet,
builds a bet transaction (`buildPlaceBetTx`), has the wallet sign it and submits
it. The **chain** turns it into a box guarded by the **contract**. The **house**
builds a reveal (`buildRevealTx`), the player a refund (`buildRefundTx`); both
only reach the box by being included in a block, and neither sees the other's.
No code in the repository calls the reveal and refund builders yet; they are
modelled as the operations they offer. When on-chain mode is off the form posts
the bet to `POST /place-bet`, which records it in memory; the history and
statistics views of the same page read it back.

The **backend** keeps one `ConnectionManager`. Each WebSocket has a handler
coroutine that registers, subscribes its authenticated address, loops on client
messages and unregisters. A broadcast is a coroutine that takes a snapshot of
subscribers under the manager's lock, sends without it and takes it again to
drop the clients that raised. The **/lp routes** quote deposits and withdrawals
from a pool state cached by the **pool manager**; the amounts of a quote reach
the chain later, in a transaction with the pool box. The **oracle service**
answers one request at a time, under a lock, while its health loop and the
operator's switch write the same fields without it.

Every part that puts a value into a **register** of a box has an encoder of its
own, every part that reads one a decoder, and the node returns collections in a
second format. The **SDK's builder** and bet manager share one fee field over all
the transactions they build.

The **bot** runs under a process manager that signals it, kills it and starts it
again; what is left of it between two lives is its heartbeat file.

### What is hard, and what makes each part correct

* **Coinflip.** Time passes between reading the chain, building, signing and
  inclusion. The reveal is computed on one block's id and judged on another's;
  a refund may be built early and wait; either may sit in the mempool when the
  other is included; the answer of a submission may be lost; the random byte is
  signed in ErgoScript and unsigned in TypeScript. Correct means: the side that
  the including block's byte names decides who is paid, and in full; the house loses nothing
  else before the deadline; the player is never locked in; a bet is settled once.
* **WebSocket manager.** Everything between two awaits may interleave: the caps
  are checked before `accept()` is awaited and used after it; a broadcast sends
  to a snapshot whose members leave meanwhile, and cleans up after them later.
  Correct means: the five dictionaries agree, the caps hold, events reach only
  the owner of an address, a dead client costs nobody else the event or the
  subscription, and a client that leaves frees its slot.
* **Wallet hook.** Three effects and three calls write one React state after
  awaits of their own: the guard is set long after it is checked, all connects
  share one timer reference, nothing cancels a connect in flight, and the 30 s
  timeout races the extension's late approval. Correct means: the spinner and the
  guard never outlive the connect they belong to, a restore installs the selected
  wallet only, and the page of a user who waits belongs to the selected wallet.
* **Bankroll pool.** Quotes are made from a pool state that may be old, and paid
  blocks later; slow fetches overwrite what faster ones cached; everything
  rounds, and no answer names the pool box it was computed from. Correct means:
  only a quote the pool has moved away from may cost the others, no share is lost or
  doubled, and the anti-drain floor gives way to nothing but overlapping withdrawals.
* **Oracle service.** Failover walks the endpoints by a shared index; the health
  loop writes "healthy" before it looks at ages. Correct means: nobody gives up
  before every endpoint has failed, every request ends, a dead endpoint and a
  stale feed are noticed.
* **Registers.** Numbers wrap at 32 bits in one implementation, are masked in
  another and refused in a third; lengths look like tags. Correct means: what one
  part writes another reads.
* **Bot.** Signals come at any moment, also while a request is being retried, and
  the heartbeat runs beside the shutdown. Correct means: a heartbeat that is
  fresh while the bot works and gone when it left, and a shutdown that ends and
  begins no second round.
* **Pages.** Answers overtake each other, are lost, or outlive the address they
  were asked for; the backend forgets everything at a restart. Correct means:
  what is shown as placed was recorded, once; the two computations of the tier
  agree; spinners end; the list comes to be that of the current address.

The hazards, each at its line with the properties about it, are in `PROJECT.json`.

## 2. Plan

| # | Modules | Composes | Reference | Run and bounds | Theorems |
|---|---|---|---|---|---|
| 1 | `CoinflipContract`, `Coinflip`, `BetEscrow` | contract + builders + chain | `BetEscrow` (refinement) | one bet, two amounts, a block per step of the deadline | invariant, five safety properties, refinement |
| 2 | `WsManager` | manager + handlers + broadcasts | | three connections, one broadcast | invariant, caps, owners, feed |
| 3 | `ErgoWallet` | hook, session store, wallet manager, buttons | | two or three wallets, two overlapping connects and restores | invariant, spinner, restore, patient page |
| 4 | `PoolMath`, `LpPool` | contracts + routes + cache + chain | the price of a share | four calls, a pool of 4 nanoERG and 4 shares | invariant, price, floor, round trip, ledger of shares, age of the cache |
| 5 | `OracleService` | requests + health loop + operator | | two endpoints, two requests | invariant, thoroughness |
| 6 | `ZigZag`, `Registers`, `Interop`; `TxBuilder` | every writer with every reader; builder and bet manager | the value that was written | the limits of both widths, nested pairs and options | zigzag bijection, VLQ and register round trips, numbers, bytes, nested values, balance of transactions |
| 7 | `OffChainBot` | bot + process manager + clock | | two lives, seconds scaled down | invariant, heartbeat, shutdown |
| 8 | `BetPages` | routes + form + two views | the bets that were recorded | two submits, a restart, two addresses | invariant, recorded once, routes agree, spinners |

No module has a RECURSIVE operator (recursion is by recursive functions and folds);
modules name the assumptions on
their constants and state invariants as conjunctions of named parts. What the
plan leaves is in section 11.

## 3. Coinflip

### Modules

`CoinflipContract` is the spending condition as operators: `canReveal`,
`canRefund`, `canSpend`, `flipResult`, the two payouts. Hashing is
collision-free (a pair), a public key is a name. `SignedByte` and the remainder
that takes the dividend's sign are ErgoScript's; `rngHash(0)` ranges over bytes.

`Coinflip` is the life of bets:

| Variable | In the code |
|---|---|
| `form` | `CoinFlipGame`: idle, in the wallet popup (`signing`), waiting for the node (`submitting`), `placed`, `error` |
| `commitTx` | the bet transaction from `buildPlaceBetTx` until it is mined |
| `box` | the bet box in the UTXO set |
| `spends` | mempool: transactions of `buildRevealTx` and `buildRefundTx` |
| `settled` | the transaction that spent the box, with the byte and height of its block |
| `height`, `tipByte`, `prevByte` | the tip, and `rngHash(0)` for each bet seeded by the tip and by the block below it |

| Action | In the code |
|---|---|
| `PlaceBet` | `handleSubmit` to the signature request: empty wallet and throwing builder show an error |
| `SignBet`, `SubmitBet` | the popup, and the submission, whose answer may be lost after the node took the transaction |
| `BuildReveal` | `buildRevealTx`: simulates the flip on the block at `currentHeight - 1` and fixes recipient and amount |
| `BuildRefund` | `buildRefundTx`: pays the change address, at any height |
| `Include`, `MineBet`, `NewBlock`, `DropBet`, `DropSpend` | the node (external): a spend is included only if `canSpend` holds in the next block |

Fleet's `BoxSelector` (take boxes in order until the target is covered) and
`TransactionBuilder.build` (throw unless inputs cover outputs and fee) are
external and modelled from how the service uses them; `Funded` combines them.

`BetEscrow` is what is promised about a bet without blocks or transactions:
opened once, then won, lost, or, only when overdue, refunded, with exact
amounts. `Coinflip!EscrowSpec` states the refinement.

### Runs

| Run | What it asks |
|---|---|
| `coinflip` | `RevealPaysTheFlip` (a reveal built on a stale block is included only if it is still right: the side is that of the byte read without a sign, as the frontend reads it, and the bytes the contract cannot read so are named, `Sideless`); `PlayerFloor`, `HouseFloor` (what each side keeps whoever spends the box and when); the inductive invariant `IInv`, which includes the types and `LockIsBounded`; `EscrowSpec`; `EveryBetSettles` without a cooperating house |
| `p2pk_wallet_can_bet`, `every_byte_has_a_side` | violated, see below |

Bounds of `MCCoinflip`: one bet, since bets share nothing but the tip (the
proofs are for any set of bets); amounts 50 and 149, one with and one without rounding in
`* 97 / 50` and `/ 50`; bytes 0, 1 and 255, the three residues of the signed
remainder; `TIMEOUT_DELTA = 2` with `MaxHeight = 4`, so a bet can be mined early,
at and after its deadline and a refund can wait across it; wallets whose first
box covers both bet and fee, the bet only, or belongs to a second address.

`KeySource` says where the player's key comes from. "form" is
`extractPubKeyFromUtxo`, which finds none in any P2PK box, so that no bet of the form
ever reaches the chain (the finding below). "caller" is a caller of
`buildPlaceBetTx` that knows the key of its first UTXO, as the signature of that
function allows; the passing run takes it, or nothing after the form would be
reached. The proofs hold for both.

Fairness: blocks keep coming (weak); a player with an open bet
keeps asking for the refund (weak); a refund offered again and again is
eventually included (strong, since the node may drop it from the mempool).
Nothing is assumed of the house. `EveryBetSettles` speaks of bets whose key in R5
is that of the change address: the others may be locked for ever, see below.

### Where the code disagrees with what it says

`p2pk_wallet_can_bet`: `CoinFlipGame.tsx:535` says "Extract the 33-byte
compressed public key from a P2PK UTXO's ergoTree", but line 544 gives up below 74 hex
digits while the tree of a P2PK box (`0008cd` and a key) has 72, so `handleSubmit` throws before
the popup. For a longer tree `slice(4, 70)` would cut the key at the wrong place.
`BetForm.tsx:411` has the same function.

`every_byte_has_a_side`: `coinflip_v2.es:62` says "Result  = hash[0] % 2  (0 = heads, 1 =
tails)", and `coinflipService.ts:372` computes that of an unsigned byte. The contract's byte is
signed (line 65): an odd one above 127 gives -1, neither heads nor tails, so tails wins
one flip in four and the reveal that the service builds for its player is refused.
`RevealPaysTheFlip` holds for all other bytes.

These are visible in the actions and have no run of their own:

* A refund pays the change address while R5 holds the key of the first UTXO
  (`coinflipService.ts:471`): in a wallet of several addresses the contract may
  refuse it at every height (`RefundTx`, `canRefund`).
* The reveal simulates the flip on the block below the tip, which is not the
  parent of the next block as `coinflipService.ts:259` says (`BuildReveal` reads
  `prevByte`, `Include` reads `tipByte`; `RevealPaysTheFlip` shows that the contract
  catches it).
* `buildRefundTx` never throws before the timeout as line 441 says (`BuildRefund`
  has no guard on the height; `HouseFloor` shows that the contract catches it).
* Coins are selected for the bet without the fee (`coinflipService.ts:141`,
  `PlaceBetFunded`): a first box of exactly the bet makes `build()` throw. Coins of
  the house are selected for the fee alone (line 404), while a win needs 94% of the
  bet from it (`FeeTarget` in `BuildReveal`).

## 4. WebSocket feed

### Module

`WsManager` has one handler per connection and any number of broadcasts. Its
actions are the code between two awaits. Critical sections of the manager without
an await are one action; `connect`, which holds the lock over
`websocket.accept()`, is `Connect` then `Accept`.

| Variable | In the code |
|---|---|
| `lock` | `_lock` when its holder awaits |
| `conns`, `connAddresses`, `ipConnections`, `connOwner`, `subscriptions` | `_conn_ips`, `_conn_addresses`, `_ip_connections`, `_conn_owner`, `_subscriptions` |
| `handler`, `mine` | where `ws_bet_subscription` stands, its `subscribed_addresses` |
| `open` | whether the client is there |
| `stage`, `target`, `todo`, `dead` | a broadcast: progress, address or all, the rest of its snapshot, connections whose send raised |
| `received` | events the client was sent |

| Action | In the code |
|---|---|
| `Connect`, `Accept` | `connect` (caps under the lock, await accept, register) and `set_owner` |
| `SubscribeFirst`, `Reject`, `Confirm` | the automatic subscription, its refusal, the confirmation that is sent outside the `try` |
| `ReceiveSubscribe`, `ReceiveUnsubscribe`, `ReceiveOther`, `ReceiveMalformed`, `Reply` | one message of the loop and its answer |
| `ReceiveDisconnect`, `Unsubscribe`, `Disconnect` | the end of the loop and the `finally` block, one critical section per action |
| `Snapshot`, `Send`, `Cleanup` | `broadcast_to_address`, `broadcast_global` |
| `ClientLeaves` | the client (external) |

### Runs

| Run | What it asks |
|---|---|
| `ws_manager` | under every interleaving of three handlers and a broadcast: `CapsHold`, `OnlyTheOwnerIsTold`, `FeedSurvivesTheDead`, the inductive invariant `IInv` with `IndexesAgree`; `SubscribersAreServed`: a client of the snapshot gets the event or has left, whoever else died; `GoneClientsAreReleased`: once in the loop, a client that leaves is forgotten |

`GoneClientsAreReleased` starts in the loop for a reason: the confirmation is sent
after the registration and before the `try` block (`ws_routes.py:249`), so a client
that leaves before it is never unregistered, and keeps its slot (`Confirm`).
`broadcast_global` takes the union of the subscriptions for "ALL connected
clients" (`ws_manager.py:220`): `Subscribers` leaves out a client without one.

Bounds of `MCWsManager`: three connections, two sharing an address and two an
IP, under caps of 2, 1, 1 and 2, so that each of the global, per-IP and
per-address cap is met by two handlers at once; one broadcast, whose target is
any address or all, since broadcasts do not read each other's state.

Fairness: the event loop runs every ready coroutine and `asyncio.Lock` is first
come, first served, hence weak fairness of a handler's steps, of each send and of the
clean-up. Reading the disconnect is strongly fair: the messages a client left
behind are finitely many, so the disconnect after them is read. Clients need
not talk or leave.

Not in the model: an `x-forwarded-for` that starts with a comma gives the empty
IP, which `disconnect` takes for none and does not count down (`ws_manager.py:154`);
two broadcasts to one client whose sends overtake each other (line 196), since an event
is not told from another.

## 5. Wallet hook

### Module

`ErgoWallet` is `useErgoWallet` with the selection of `useWalletManager`, the
sessions in localStorage and the buttons of `WalletConnector`. A call (of
`connect`, `disconnect`, `refreshBalance`, a restore effect or a tick of the
reconnect interval) is a record of where it stands and of the wallet key of the
render that started it; an action is its code between two awaits. Reading
address, balance and boxes from one context is one await.

| Variable | In the code |
|---|---|
| `selected` | `walletKey`, the `selectedWallet` of `useWalletManager` |
| `shown` | the React state; `wallet` stands for the wallet whose address and balance are displayed |
| `ergo` | the EIP-12 context, by the wallet it came from |
| `guard`, `timer`, `lastError` | `connectGuard`, `connectTimer`, `lastError` |
| `armed` | the 30 s timeouts that are running, also those no reference holds |
| `sessions` | the wallets with a stored session that has not expired |
| `call`, `restore`, `tick`, `leave`, `refresh` | the asynchronous calls under way |

| Action | In the code |
|---|---|
| `Select`, `SelectAndConnect` | `selectWallet`, `handleSelectWallet`, with the effects of a new key (`Effects`: cancel the running restore, reset, start a restore) |
| `Click`, `Scheduled`, `Found`, `Reset`, `Preflight`, `Check` | `connect` up to the fast path |
| `FastGet`, `FastRead`, `FastRefuse` | the fast path, its network check and its fall-back to the popup |
| `Approve`, `Decline`, `LoseRace`, `Get`, `Read`, `Refuse` | the popup and what follows it; `LoseRace` is the timeout or an error of the extension |
| `ShowSession`, `CheckSession`, `GetContext`, `ReadContext` | the restore effect |
| `StartTick`, `TickStep`, `StartLeave`, `FinishLeave`, `StartRefresh`, `FinishRefresh` | the interval, `disconnect`, `refreshBalance` |
| `Expire` | 24 hours pass (external) |

What an extension answers is open at every await: yes, no, an error, another
network, another answer the next time. `Next` lets the user act at any moment;
`PatientNext` only when no connect, restore, tick or disconnect is under way, and
never through `handleSelectWallet`. Effects, ticks and refreshes run by
themselves in both.

### Runs

| Run | What it asks |
|---|---|
| `wallet` | for any user: `ConnectingIsBacked` and `IInv` (the spinner, the guard and the timer reference always belong to a connect that will give them back); `ConnectsEnd`: although a connect overwrites and clears the timeout of another, the spinner ends and the guard is released |
| `wallet_effects` | for any user: `RestoreInstallsTheSelected`, with two restores that overlap beside the interval, a disconnect and a refresh |
| `context_is_of_the_selected` | violated: `useErgoWallet.ts:128` says a switch disconnects the old wallet first, but a connect that is awaiting installs its context afterwards (a restore is stopped, line 228) |

Bounds: two wallets suffice to tell the selected one from another, two connects
and two restores to overlap; `wallet` leaves out ticks, disconnects and
refreshes, which never touch the guard, the timer or a restore, and has one restore, so
that a switch waits for the one before it; `wallet_effects` leaves out connects, which
never touch a restore, and has two. The sets of
calls bound how many overlap, not how many are made. What a user who waits sees
(`PageIsOfTheSelected`) is proved and has no run: it says nothing of overlaps.

Fairness of `wallet`: a connect that waits for the extension is answered,
in one way or another, and a timeout that was armed and not cleared fires. The
answer is assumed for calls which the extension serves without its user; the code
itself bounds only the first of them (`PREFLIGHT_TIMEOUT`). Nothing is assumed of the
popup, the user or the restores.

Disagreements that are visible in the actions and have no run of their own:
`handleSelectWallet` calls the `connect` of the old render, so choosing a wallet
connects the one selected before ("Connect immediately after selecting",
`WalletConnector.tsx:81`; `SelectAndConnect`). No path of `connect` clears a session on
an error (`SESSION_PERSISTENCE.md:28`; `Fail`). A stored session stays displayed when
asking the wallet raises (`SESSION_PERSISTENCE.md:19`; third disjunct of
`CheckSession`). A wallet found locked stays connected, so the interval that should
reconnect it does not start (`useErgoWallet.ts:143`; `Polling`); it does start when
a refresh fails after a disconnect, and then reconnects a wallet the user has
left. The fast path saves no session (`SESSION_PERSISTENCE.md:12`; `FastRead`).
A tick of the interval that is in flight when the user switches or disconnects is not stopped
either (`TickStep`). A restore that is cancelled while it asks the wallet takes back what it showed, which by then may be
the page and the session of another wallet (line 210; `CheckSession`).

## 6. Bankroll pool

`PoolMath` is the share arithmetic that SDK and backend both have. `LpPool` has
the pool box and the withdrawal requests, the contracts of `BankrollPool.ts` as
predicates on the next pool box (`isDeposit`, `isWithdraw`, `isCollect`,
`isUpdate`), and calls of the four /lp routes that build transactions.

| Variable | In the code |
|---|---|
| `pool`, `request`, `spent`, `wallet`, `reserve` | the pool box, the request boxes and which of them are spent, LP tokens of the providers and of the node's wallet |
| `cache` | `_cached_state` with `_cache_time` |
| `pc`, `op`, `seen`, `since` | a call: its stage, route and body, the `PoolState` it has, the `now` of `get_pool_state` |
| `tx` | the transaction it answered with, until it is included |

`Enter`, `NodeAnswers`, `Store` and `Fail` are `get_pool_state` at its awaits;
`BuildDeposit`, `BuildRequest`, `BuildExecute`, `BuildCancel` the rest of each
route; `Include...` the chain. External: the routes answer with amounts and name no
pool box, and nothing in the repository completes the transaction. The model's completion
spends whatever pool box there is by then and moves exactly the amounts quoted, as long
as the contract allows it. `basis`, what a quote was computed from, is history that no
action reads; the properties use it to tell stale quotes from others.

The supply is the LP tokens in the pool box, as code and contract read it. A
deposit must make it grow while the depositor gets as many tokens, and no token can
be minted after its first transaction: `IncludeDeposit` takes both from the wallet of the
node (`reserve`), which the routes name as the builder of the transaction (`lp_routes.py:329`).
An execution takes the request's shares out of the pool box.

Run `lp_pool`: `OnlyStaleQuotesCost`: a share loses value only to a quote whose pool has
moved, a deposit quoted when shares were cheaper or a request asked when they were
dearer, and a deposit never takes the price below its quote. `SharesAreCounted`: the tokens of
the pool are as many as the shares in wallets and open requests, although a
request is executed twice, executed and cancelled, or cancelled while its execution
waits. `FloorGivesWayToOverlapsOnly`: a withdrawal leaves the anti-drain floor,
except for what left the pool since its cap was computed. `CacheIsFresh`: a call served
from the cache gets a state younger than the TTL, although slow fetches overwrite it. And
the inductive invariant.

Bounds: a pool of 4 nanoERG and 4 shares with a floor of 3; a provider who holds them
and asks for one or two withdrawals, or a second one who deposits; two more calls that
execute both requests, or execute or cancel one of them twice; one block, one
clock tick, one profit and one change of parameters (of the minimum deposit only;
the cooldown stays), so that a quote can be made before and used after another spend, a
profit, a maturing cooldown and an expired cache. Calls and values are few; the
proofs are for any number.

Where the code disagrees with what it says, without a run; the properties above say how far:

* `docs/LP_POOL_DESIGN.md:65` demands "Minted LP tokens =
  deposited * totalSupply / totalValue (before deposit)". The contract
  (`BankrollPool.ts:55-62`) asks only that value and tokens grow; a deposit quoted
  from a state up to 10 s old (`pool_manager.py:348`) mints more once the pool has gained
  value: the first case of `OnlyStaleQuotesCost`.
* "Minimum pool value (anti-drain)" (`BankrollPool.ts:182`): two executions
  capped by the same cached bankroll leave less, and the contract demands only `minDeposit`:
  the second case of `FloorGivesWayToOverlapsOnly`.

Visible in the model, without a run: a capped execution burns all shares of the
request for less ERG; the last share cannot be burned, since a box holds a
positive number of a token, so the first-deposit branch, and that of a pool without
value, are dead once there is a pool.
Read in the code and outside the model: `getLpBalance` ignores its address, the
serialized R4 is used as an ergoTree, the filter at `PoolManager.ts:124` lists the
pool box itself as a matured request.

## 7. Oracle service

`OracleService` has `get_oracle_data` at its awaits (`Ask`, `Acquire`, `Answer`,
`Fail`, with `queue` for the first-come-first-served lock), the health loop
(`StartRound`, `CheckAnswers`, `EndRound`), `Stop`, and the operator's `Switch`.
Endpoints go up and down at any moment (`GoesUpOrDown`); `age` counts ticks since the
last answer and is not told apart above `StaleAge`. The routes obtain the service
through `Depends(get_oracle_service())`, which passes a coroutine; the model takes
the service that is meant.

Run `oracle_service`: `NoneMeansAllFailed`, `EveryCallEnds`, `StaleFeedIsNoticed`,
`ReportsFollow`. Bounds: two endpoints (one to fail over to), two requests (one
that waits for the lock), one switch, `StaleAge = 1`. Nothing else is bounded:
requests, rounds and failures repeat for ever. Fairness: a request or a check ends
in an answer or a timeout, the lock is handed on, the loop's sleep ends and time
passes; nobody has to ask, and no endpoint has to be up.

Visible in the model: a switch during a request makes it ask one endpoint twice and
another never before it returns None (`oracle_service.py:180` says "None if all
endpoints fail"; `NoneMeansAllFailed` leaves such requests out), and a failure of
the old endpoint moves the index off the one the operator chose. The
report flaps between "healthy" and "stale" within every round, and only
`get_oracle_data` makes a feed fresh, so a service nobody asks is stale.
The service never returns to the primary endpoint by itself (`docs/oracle.md:29`).

## 8. Registers and the SDK

`ZigZag` is the arithmetic, with the width of a word as a parameter. `Registers` has
every encoder and decoder of the repository, byte by byte: a value is the sequence
of its parts in the order they are written (an option or a pair before what it
holds; `SValue` says which sequences are one value), a register a sequence of
bytes, an exception `Refused`. `Interop` sends one
register through the system: `WriteRegister` by any of four writers,
`NodeReformats` to format (B), `ReadRegister` by any of five readers, in any order.
`TxBuilder` is the builder and the bet manager, counting boxes by their sums.

Run `sdk` (`MCSdk`: one register and one builder side by side, which share no state):
`NumbersSurvive`, `BytesSurvive`, `ValuesSurvive` (options and
pairs, whose two halves a second parser tells apart) and `TransactionsBalance`. Widths are 16 and 29 bits instead of
32 and 64: TLC's own
integers have 32. They are kept apart, and large enough for every length of a
VLQ from one byte to four. Values: both sides of the limits of
both widths and of every VLQ length, collections of the lengths around 1, 2, 127
and 128, and pairs and options of each kind in each place.

The amounts make change of zero, of dust and of a box. setFee is to "Set fee for
transaction" (`TransactionBuilder.ts:38`), but the dust that one build absorbs stays
in the field (line 106), and later transactions pay it too: `TransactionsBalance` says that
the fee is then what was asked and all the dust since, and nothing else.

The SDK's tests disagree with its code. `sdk/test/serialization.test.ts:120-123`
expects `deserializeCollByte('0e0104deadbeef')` to be 4, its length, while the function
returns the bytes, as `BytesSurvive` says. Lines 73-81 and 90-93 expect '0410a5d4e800' for
a Long of 1000000000 and '04c0e4b73900' for 1000000000000: the zigzag VLQ of the
encoder gives other bytes, and the decoder reads other numbers from these. The model follows the
code, whose encoders and decoders agree with each other.

What the properties leave out is what the code gets wrong: integers outside the
range of their type wrap in the SDK and the frontend, are masked in the pool
manager and refused in the backend; a collection of one byte is ambiguous in
format (B) for all three decoders (`OneByteFromNode`; no register of a bet or of the
pool holds one); a pair with an option, a
pair or a key on its left is split at the wrong place (`index.ts:354`;
`Plain`); a key is read back with its tag, which the SDK refuses to write again;
`PoolManager` reads 0 from a Long where it expects an Int. Every operation of
`BetManager` throws: `placeBet` builds with an input of value 0 (proved,
section 12), `revealBet` compares the serialized R5 with the commitment, `refundBet`
(`BetManager.ts:218`) reads the timeout from the secret's register. A reveal or a
refund of a box worth exactly the bet cannot pay its fee.

## 9. Off-chain bot

`OffChainBot` is the process under its manager, in seconds. `pc` is where `run()`
stands: binding the health server, a request (`get`), the pause before the next
attempt, the sleep of the loop, and the steps of the `finally` block. What is due
happens before the next `Tick`. `httpx.Timeout(30.0)` (`main.py:236`) limits each operation of a
request, to connect, to write, each read, and not their sum: an attempt begins its next
operation when the node takes or sends some bytes (`NodeProgresses`), at most
`MoreOps` times in the model and without a limit in the code. It may be answered,
refused or fail at any second and times out at the last of an operation. The heartbeat task
writes when it is `due`, and again after a second if that fails; the shutdown cancels it
(`CancelHeartbeat`), waits for it and then removes the file (`RemoveFile`), so that a beat may
come between. `Signal` sets the flag between the
installation of the handlers and their restoration, and ends the process
outside; the manager's `Stop` is followed by a kill. `process_bets` is what the
code has of it, a placeholder with one GET.

Run `bot`: `HeartbeatIsFresh`, `GoneLeavesNoFile`, `StopTakesOneRound`, `StopEnds`.
Bounds: two lives, two heartbeats in a row that fail, an operation of 3 s, two of them in an
attempt, against a
sleep of 2 s, an interval of 4 s, a cleanup of 1 s and a kill after 2 s, so that
each can end before and after each other. The proofs are for all values.
Fairness: the event loop runs what is due, time passes, the manager keeps its time.
That requests end is the bound on the operations: a node that sends a byte every 29 s
for ever keeps the code from ending, and `StopTakesOneRound` and `StopEnds` say nothing of it.

A shutdown takes at most three attempts of `MoreOps + 1` timeouts of 30 s, 3 s of pauses, 5 s
of sleep and the cleanup; no number of seconds follows from the code alone. The manager
kills after 5 (`ecosystem.config.js:77`), so the bot that
"will finish processing current bet" (`main.py:131`) is killed (`Kill`) whenever what is left of
the request, its pauses and the sleep takes longer, and its heartbeat file outlives it.
`PatientManagerNeverKills` says which `kill_timeout` would do for a given
`MoreOps`; none does for every node. The health server is
started before the `try` that stops it. Cancellation of `main` from outside and
the POST requests of the client, which nothing makes, are left out.

## 10. Pages and game routes

`BetPages` has the lists in memory (`bets`, `poolStats`), the form's off-chain
submit with its request on the way (`posts`), and both views with the requests in
flight (`fetches`). A request is sent, served or refused, and answered, lost or
given up, in steps of their own.

| Action | In the code |
|---|---|
| `Submit`, `AnswerPost`, `GiveUp` | `handleSubmit` to its fetch, after it, and its `catch` |
| `Record`, `RefuseBet` | `place_bet`, and the validators |
| `Restart` | the process starts again with empty lists |
| `Switch` | the effects of both views when the address changes or goes |
| `Poll`, `Serve`, `Arrive`, `FetchFails` | the interval and the refresh button; the routes that read; the end of a fetch |
| `LosePost` | the network (external) |

Run `pages`: `PlacedIsRecordedOnce`, `RoutesAgree`, `SpinnerIsBacked`,
`HistoryCatchesUp` and the inductive invariant `IInv`, which adds to the types that a
request in flight is recorded at most once (`PostsAreRecordedOnce`) and that the
statistics are those of the bets (`Counted`). Bounds: two overlapping fetches of each view; two
submits and two changes of the address, three together, so that a bet can be
submitted again after a lost answer and under either address; one restart;
an amount one unit below the minimum, and one that together with the bet held
before reaches the boundary of a tier exactly. Fairness: the interval fires, every
fetch ends, and of the list's fetches, which are made again and again, not all fail (strong).

Visible in the model: a late answer of a previous address stays under "Your
Stats" for good, since the dashboard has no interval (`StatsDashboard.tsx:24`); a
submit whose answer was lost and that is repeated has a new identifier, so
one intent may be recorded twice; nothing resolves a bet, so wins, losses and
streaks stay 0 and are not modelled beyond that.

## 11. Bounds and what is not modelled

* `MaxHeight` bounds the chain in the guards of `PlaceBet` and `NewBlock` and is
  the only bound in a guard of the coinflip; the proofs hold for every value of it.
* The chain does not reorganise; a mined block stays.
* The wallet signs what it is asked to unless the player refuses. The reveal and
  refund builders hand Fleet the bet box with empty registers; whether a wallet
  then signs depends on the wallet.
* All UTXOs of the player are P2PK boxes of the wallet's addresses and on-chain
  mode is enabled; the game NFT is not minted or checked.
* Extensions inject themselves into the page within the three seconds of
  `waitForConnector` or not at all; localStorage is available.
* Token signing and expiry, the ping loop, JSON schemas and logging are left
  out. Client IPs are non-empty strings. `MAX_SUBS_PER_CONN_GLOBAL` is declared
  by the code and never enforced, so it is not in the model.
* A reply or an event is sent or it is not; its text is not modelled. A send to
  a client that left may raise or pass unnoticed, both are explored.
* `LpPool` bounds blocks, clock ticks and the value up to which the house adds profits, `OracleService`
  switches, `OffChainBot` launches, failures in a row and (`MoreOps`) operations of an
  attempt, `TxBuilder` dust, `BetPages` submits, switches and restarts,
  all by constants in guards that the proofs leave arbitrary. `Max...` names each.

Components left out, with reasons:

* `sdk/src/oracle/OracleClient.ts` is excluded from the SDK's compilation
  (`sdk/tsconfig.json:21`) and nothing imports it. `stop` called while a poll is in flight would not
  stop it (line 241).
* `fetchContractBoxes`, the queries of `PoolManager`, balances, APY and the
  leaderboard (always empty) only read and keep no state.
* `rng_module.py`, the odds and plinko utilities, the accessibility and load-test
  scripts are computations and tools nothing in the running system calls.
* `BetForm.tsx` repeats the flow of `CoinFlipGame.tsx`; `betStore.ts` is not used by it.
* The UI of the worktree (`PoolUI.tsx` and the copies of wallet hook and connector)
  displays what the routes of section 6 return, or is an older copy of section 5.
* `coinflip_v1.es` is superseded; the database models and migrations are on no code path.
* `NodeClient.ts`, `DuckPoolsClient.ts` and `crypto/index.ts` wrap requests and
  hashes. One thing about them matters to whoever uses them: the SDK's
  `blake2b256` truncates blake2b512 (`crypto/index.ts:46`), which is another
  function than the contract's.

## 12. What is proved

The proofs hold for every value of the constants that meets the module's named
assumption (`CoinflipAssumption`, `WsAssumption`, `WalletAssumption`,
`LpPoolAssumption` with `BodiesAssumption` and `NoneAssumption`, `OracleAssumption`,
`RegistersAssumption`, `InteropAssumption`, `TxBuilderAssumption`, `BotAssumption`,
`BetPagesAssumption`): any set of bets, amounts, addresses and wallets, any timeout,
fee and height; any set of connections and addresses and any caps; any number of
wallets and of overlapping calls of each kind; any width of words and any set of
values in registers.

| Proofs | About |
|---|---|
| `CoinflipProofs`, `WsManagerProofs`, `ErgoWalletProofs`, `OracleServiceProofs`, `OffChainBotProofs`, `BetPagesProofs` | the module of the same name |
| `SdkProofs` | `PoolMath` and `LpPool`, `TxBuilder`, `ZigZag`, `Registers`, `Interop` |
| `DataProofs` | the lemmas about data that the proofs share |

**Data.** The backends cannot apply an induction theorem to a predicate, but they can
apply one to a set: `NaturalInduction`, `StrongInduction` and `SubsetInduction` say that a
set with the base and the step is everything, and each use defines the set of the
numbers (or subsets) for which its claim holds. On these rest the lemmas on
`SumFunctionOnSet` (`SumTakeOut`, `SumChange`, `SumGrouped`: what one term
contributes, and sums of the parts of a partition) and the two existence lemmas for recursive functions
(`RecursionExists` along the naturals, `RecursionByMeasure` along any measure): TLA+
gives `f[x] == ... f[y] ...` by CHOOSE, so its equation holds only once a solution is known to exist.

**Coinflip.** `IInv` is inductive (`Invariance`). Its parts: a bet is in one place
at a time (`BetIsInOnePlace`); a waiting transaction already pays what the bet asks,
fixed before the including block exists (`SpendsFitTheirBet`); a settlement is
a spend the contract allowed in its block (`SettlementIsAllowed`); and
`LockIsBounded`. None of the safety properties is inductive: they say nothing of
a transaction before it is included. From `IInv` follow `RevealIsFair`,
`PlayerIsSafe`, `HouseIsSafe`, `RevealResultIsRight`, `LockBounded`, and, with the
lemma that a bet box once spent cannot return, `SettledForGood`. The lemma
`PathOfSettlement` says which path the contract took: a house transaction can
only satisfy `canReveal`, a player's only `canRefund`. `Refinement` proves that
the initial state and every step map to `BetEscrow`: `MineBet` opens, `Include`
wins, loses or refunds, `NewBlock` makes bets overdue, all else stutters.

**WebSocket feed.** `IInv` adds to the properties that the lock is held across
an await only for a connection whose caps were checked (`LockIsForAccept`, why the
caps survive), that a handler registers and unregisters once
(`RegisteredWhileHandled`, why the indexes agree), that subscriptions and
snapshots hold only owners (`SnapshotsAreOwned`), and that only clients that left
are taken for dead (`DeadHaveLeft`). `FeedSurvives` proves the action property
from it: a broadcast never unsubscribes a client that is there.

**Wallet hook.** `IInv` ties each shared flag to a call: `ConnectingIsBacked`,
`GuardIsBacked`, `TimerIsOfAPopup`, `RestoreIsCurrent`, and `WorkIsOfAWallet`, which
the types of the stored sessions need. The lemma `ConnectKeeps` says for all
fifteen steps of `connect` that a step which leaves the stages that owe the end of
the spinner takes it away, and likewise for the guard and the timer; the other
steps light no spinner (`FrameInv`). `RestoreSafe` follows from `RestoreIsCurrent`.
`PatientPage` rests on a second invariant, `PatientInv`, inductive together with
`IInv` for `PatientNext` only: for an impatient user it is false, which is the
finding of section 5.

**Bankroll pool.** None of the safety properties is inductive: a quote is on its
way before it is a request, and the pool moves under it. `IInv` says of every quote that it is
covered by the pool it was computed from, its `basis`, whatever the pool is now
(`CoveredTx`, `CallInv`): a deposit's shares are worth no more than its amount there, a request asks no
more than its shares, an execution no more than its request and than its basis has
above the floor. The price properties compare that basis with the pool at inclusion:
`OnlyStaleQuotesEverCost` by a lemma on cross-multiplied fractions for each kind of
transaction, `OnlyOverlapsPassTheFloor` from the cap. No clause assumes that the
pool has not moved. `SharesStayCounted` needs `Ledger` beside it: what the
wallets and the open requests hold are two sums, of which each inclusion moves one
term, and a box is spent only if it was made and only once.
`TheCacheIsFresh` follows from `ReadInTime`, inductive beside `IInv`: an answer on its
way was read after its call had looked at the clock, so the time it is stored with is
no later than its reading. The lemmas about `PoolMath` bound each division by its
product; `RoundTripGainsNothing` follows from them alone. The proofs take cap, age
and order of the quotes as they come: no bound of the run is used.

**Oracle service.** `Invariance`: the lock has one holder and no one queues twice
(`LockIsFair`), and an undisturbed request has tried exactly the endpoints before the
current one (`TriedInOrder`), from which `GivingUpIsThorough` follows by counting to `N`.

**Registers.** `ZigZagRoundTrip`, `WritersAgree`, `ZigZagInjective` for every width.
`VlqRoundTrip`, by strong induction on the number: wherever its bytes stand in a
register, and whatever follows them, they are read as the number and the position
behind them. `Holds(buf, i, s)`, the bytes `s` stand in `buf` at `i`, is what carries
the facts about parts to the whole. `SdkReadsWhatItWrote`: the writer and the
reader are two recursions in opposite terms, one over parts and one over byte
positions; the proof runs over the last positions first, along the spine of a plain
value (`Spine`: where one value is still to come, a leaf or None ends the
sequence, an option or a pair leaves one more to read), and uses for the left of a pair
that the SDK's length helper measures exactly what was written (`LeafRead`).
`ReadersRead` and `WritersWriteAlike` carry it to the other parts and to the
node's format. `RegisterInv` then says that the register of a plain value is what its
writer made of it, in one format or the other as `fromNode` says, and that whoever
has read it has read the value; it is inductive, and `NumbersAlwaysSurvive`,
`BytesAlwaysSurvive` and `ValuesAlwaysSurvive` follow.

**SDK.** `BuilderBalances` for every sequence of calls of builder and manager;
`PayoutsOfSdkAndContract`: two floors, of `* 19400 / 10000` and `* 97 / 50`, are
equal; `PlaceBetNeverBuilds`.

**Bot.** `Invariance`: the time already spent since the signal and the longest time
that remains never exceed the bound together (`LeavesInTime`), the file's age and the
time to the next beat never exceed the interval and the failures (`HeartBeats`). From
it follow `HeartbeatFresh`, `NoFileIsLeft`, `ShutdownTakesOneRound`, `NoRoundAfterSignal`
and `PatientManagerNeverKills`, for every `MoreOps`: the bound is one of operations, the
seconds follow from the node.

**Pages.** `PagesInvariant`: `IInv` is inductive. `PlacedBetsAreRecordedOnce` needs
`PostsAreRecordedOnce`, since a post whose answer was lost is still on its way when the
player submits again; `SpinnersAreBacked` is inductive with the types. `RoutesAlwaysAgree`
is about computations over the list of bets: the statistics are sums over one
player's bets, the pool's over all, and `SumGrouped` says that the former add up to
the latter; the tiers are compared for every amount of points.

Some theorems state facts that follow from an invariant a run checks and have no
run of their own: the types, `SettledForGood`, `LockBounded`, `RevealResultIsRight`,
`IndexesAlwaysAgree`, `NoRoundAfterSignal`, `PatientPage`. `PatientInv` and the invariants `IInv` of
`OracleService` and `OffChainBot` are defined beside their properties and can be
added to a cfg as they are; no run lists them.

Only model-checked: the liveness properties (`EveryBetSettles`,
`SubscribersAreServed`, `GoneClientsAreReleased`, `ConnectsEnd`, `EveryCallEnds`,
`StaleFeedIsNoticed`, `ReportsFollow`, `StopEnds`, `HistoryCatchesUp`), which rest on
fairness and ENABLED, and the counterexamples of the findings. Every safety invariant and
action property that a passing run checks is also proved.
