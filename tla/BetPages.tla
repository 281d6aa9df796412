------------------------------ MODULE BetPages ------------------------------
(***************************************************************************)
(* The off-chain side of the game: backend/game_routes.py keeps bets and   *)
(* pool statistics in memory; CoinFlipGame.handleSubmit posts a bet;       *)
(* GameHistory fetches a list every 30 s and StatsDashboard once per       *)
(* address.  App.tsx mounts the three components together, and the wallet  *)
(* may change the address under all of them at any moment.                 *)
(*                                                                         *)
(* A request is served, answered and given up in steps of their own: an    *)
(* answer may be late, overtaken or lost, and the server may restart.      *)
(***************************************************************************)
EXTENDS Integers, Sequences, FiniteSetsExt

CONSTANTS
    Addresses,     \* addresses of the player's wallets
    None,          \* not connected, no statistics, no bet
    Amounts,       \* amounts the player may enter, in units of 10^4 nanoERG
    Earlier,       \* the bets the backend holds when the page is opened
    Slots,         \* bound (numbers): requests of one view in flight
    MaxBets,       \* bound: bets submitted
    MaxSwitches,   \* bound: changes of the connected address
    MaxActs,       \* bound: both together
    MaxRestarts    \* bound: restarts of the backend

Views == {"history", "stats"}

MinBet == 100            \* 0.001 ERG
MaxBet == 10000000       \* 100 ERG
PointPrice == 1000       \* 0.01 ERG

Bet == [id : Nat, address : Addresses, amount : Nat]

ASSUME BetPagesAssumption ==
    /\ None \notin Addresses
    /\ Amounts \subseteq Nat \ {0}
    /\ Earlier \in Seq(Bet) /\ \A i \in DOMAIN Earlier : Earlier[i].id > MaxBets
    /\ \A i, j \in DOMAIN Earlier : Earlier[i].id = Earlier[j].id => i = j
    /\ IsFiniteSet(Addresses)
    /\ IsFiniteSet(Slots) /\ MaxBets \in Nat /\ MaxSwitches \in Nat /\ MaxActs \in Nat /\ MaxRestarts \in Nat

Tiers == <<"Bronze", "Silver", "Gold", "Diamond">>

PlayerStatsType == [address : Addresses, totalBets : Nat, wagered : Nat,
                    points : Nat, tier : Range(Tiers)]

VARIABLES
    bets,        \* _bets
    poolStats,   \* totalBets and totalFees of _pool_stats
    forgotten,   \* identifiers of bets that a restart took (history)
    address,     \* isConnected ? walletAddress : None
    posts,       \* POST /place-bet on their way: the bet, and how far it is
    submitting,  \* the bet handleSubmit waits for, or None
    betPlaced,   \* the identifier in the "Bet Placed" panel, or None
    fetches,     \* [Views -> [Slots -> a request, its answer, or NoFetch]]
    shown,       \* [Views -> bets of the list, stats of the dashboard]
    loading,     \* [Views -> BOOLEAN]
    refreshing,  \* the refresh button of the list spins
    drawn, switches, restarts   \* counters of the bounds

server == <<bets, poolStats, forgotten, restarts>>
formVars == <<posts, submitting, betPlaced, drawn>>
viewVars == <<fetches, shown, loading, refreshing>>
vars == <<server, address, formVars, viewVars, switches>>

\* validate_amount.
AmountOk(amount) == amount >= MinBet /\ amount <= MaxBet

Fee(amount) == (amount * 3) \div 100

\* The fees that _pool_stats adds up, over the bets `s`.
Fees(s) == SumFunction([i \in DOMAIN s |-> Fee(s[i].amount)])

NoFetch == [at |-> "free"]

\* What a view shows without data: setBets([]), setStats(null).
Empty(v) == IF v = "history" THEN <<>> ELSE None

Init ==
    /\ bets = Earlier
    /\ poolStats = [totalBets |-> Len(Earlier), totalFees |-> Fees(Earlier)]
    /\ forgotten = {}
    /\ address = None
    /\ posts = {} /\ submitting = None /\ betPlaced = None
    /\ fetches = [v \in Views |-> [i \in Slots |-> NoFetch]]
    /\ shown = [v \in Views |-> Empty(v)]
    /\ loading = [v \in Views |-> FALSE]
    /\ refreshing = FALSE
    /\ drawn = 0 /\ switches = 0 /\ restarts = 0

-----------------------------------------------------------------------------
(* The routes that read.                                                   *)

\* get_history: the bets of an address, in the order of _bets.
History(a) ==
    LET upto[n \in 0..Len(bets)] ==
            IF n = 0 THEN <<>>
            ELSE IF bets[n].address = a THEN Append(upto[n - 1], bets[n]) ELSE upto[n - 1]
    IN  upto[Len(bets)]

\* The positions of a player's bets, and what they add up to.
Of(a) == {i \in DOMAIN bets : bets[i].address = a}
Wagered(a) == SumFunctionOnSet([i \in DOMAIN bets |-> bets[i].amount], Of(a))

\* get_player_stats: a chain of comparisons from the top.
StatsTier(points) ==
    CASE points >= 10000 -> "Diamond"
      [] points < 10000 /\ points >= 1000 -> "Gold"
      [] points < 1000 /\ points >= 100 -> "Silver"
      [] points < 100 -> "Bronze"

\* Nothing ever resolves a bet, so every count but pending, and every streak, is 0.
PlayerStats(a) ==
    LET points == Wagered(a) \div PointPrice
    IN  [address |-> a, totalBets |-> Cardinality(Of(a)), wagered |-> Wagered(a),
         points |-> points, tier |-> StatsTier(points)]

Thresholds == <<0, 100, 1000, 10000>>

\* Mutant: a threshold belongs to the tier below it.
CompTier_Above(points) == Max({1} \cup {t \in 1..4 : points > Thresholds[t]})

\* get_player_comp: the last tier of the table whose threshold is reached.
CompTier(points) == Max({t \in 1..4 : points >= Thresholds[t]})

\* The points to the next tier, and the progress towards it as a fraction.
PlayerComp(a) ==
    LET points == Wagered(a) \div PointPrice
        t == CompTier(points)
    IN  IF t = 4 THEN [tier |-> Tiers[t], toNext |-> 0, done |-> 1, of |-> 1]
        ELSE [tier |-> Tiers[t], toNext |-> Thresholds[t + 1] - points,
              done |-> points - Thresholds[t], of |-> Thresholds[t + 1] - Thresholds[t]]

-----------------------------------------------------------------------------
(* Placing a bet.                                                          *)

\* handleSubmit to the fetch: the button is off while a submit is under way,
\* and generateBetId draws a new identifier each time.
Submit(amount) ==
    /\ address # None /\ submitting = None
    /\ drawn < MaxBets /\ drawn + switches < MaxActs
    /\ drawn' = drawn + 1
    /\ submitting' = drawn'
    /\ posts' = posts \cup {[id |-> drawn', address |-> address, amount |-> amount, at |-> "sent"]}
    /\ UNCHANGED <<server, address, betPlaced, viewVars, switches>>

\* The server is done with a request; nobody reads the answer after GiveUp.
Answered(p, at) == (posts \ {p}) \cup (IF submitting = p.id THEN {[p EXCEPT !.at = at]} ELSE {})

\* place_bet: a valid request is appended and counted.
Record(p) ==
    /\ p.at = "sent" /\ AmountOk(p.amount)
    /\ bets' = Append(bets, [id |-> p.id, address |-> p.address, amount |-> p.amount])
    /\ poolStats' = [totalBets |-> poolStats.totalBets + 1,
                     totalFees |-> poolStats.totalFees + Fee(p.amount)]
    /\ posts' = Answered(p, "recorded")
    /\ UNCHANGED <<forgotten, restarts, address, submitting, betPlaced, drawn, viewVars, switches>>

\* A request the validators refuse is answered with an error status.
RefuseBet(p) ==
    /\ p.at = "sent" /\ ~AmountOk(p.amount)
    /\ posts' = Answered(p, "refused")
    /\ UNCHANGED <<server, address, submitting, betPlaced, drawn, viewVars, switches>>

\* Mutant: the status of the answer is not looked at.
Accepted_AnyAnswer(p) == p.at # "sent"

\* res.ok and data.success.
Accepted(p) == p.at = "recorded"

\* The answer arrives: the bet panel, or an error.
AnswerPost(p) ==
    /\ p.at # "sent"
    /\ posts' = posts \ {p}
    /\ submitting' = None
    /\ betPlaced' = IF Accepted(p) THEN p.id ELSE betPlaced
    /\ UNCHANGED <<server, address, drawn, viewVars, switches>>

\* The request fails at the form, which shows an error: the answer is lost, or
\* the server has yet to get the request and may still get it.
GiveUp ==
    /\ submitting # None
    /\ submitting' = None
    /\ posts' = {p \in posts : p.at = "sent"}
    /\ UNCHANGED <<server, address, betPlaced, drawn, viewVars, switches>>

\* A request the form has given up on is lost.
LosePost(p) ==
    /\ submitting # p.id
    /\ posts' = posts \ {p}
    /\ UNCHANGED <<server, address, submitting, betPlaced, drawn, viewVars, switches>>

\* Mutant: the pool statistics are loaded again, the bets are not.
Restart_KeepsStats ==
    /\ restarts < MaxRestarts
    /\ restarts' = restarts + 1
    /\ forgotten' = forgotten \cup {bets[i].id : i \in DOMAIN bets}
    /\ bets' = <<>>
    /\ UNCHANGED <<poolStats, address, formVars, viewVars, switches>>

\* The backend is restarted: the lists in memory start empty.
Restart ==
    /\ restarts < MaxRestarts
    /\ restarts' = restarts + 1
    /\ forgotten' = forgotten \cup {bets[i].id : i \in DOMAIN bets}
    /\ bets' = <<>> /\ poolStats' = [totalBets |-> 0, totalFees |-> 0]
    /\ UNCHANGED <<address, formVars, viewVars, switches>>

-----------------------------------------------------------------------------
(* The views.                                                              *)

Free(v) == {i \in Slots : fetches[v][i].at = "free"}

Asked(a) == [at |-> "asked", address |-> a]

\* The effects of both views run when the address changes: they forget what
\* they show when it is gone, and start a fetch with a spinner otherwise.  The
\* list also starts its interval, see Poll.
Switch(a) ==
    /\ a # address /\ switches < MaxSwitches /\ drawn + switches < MaxActs
    /\ address' = a /\ switches' = switches + 1
    /\ IF a = None
       THEN /\ shown' = [v \in Views |-> Empty(v)]
            /\ UNCHANGED <<fetches, loading>>
       ELSE \E slot \in [Views -> Slots] :
               /\ \A v \in Views : Free(v) # {} /\ slot[v] = Min(Free(v))
               /\ fetches' = [v \in Views |-> [fetches[v] EXCEPT ![slot[v]] = Asked(a)]]
               /\ loading' = [v \in Views |-> TRUE]
               /\ UNCHANGED shown
    /\ UNCHANGED <<server, formVars, refreshing>>

\* Mutant: the interval of the list was left out.
Poll_Never(i) == FALSE /\ UNCHANGED vars

\* fetchHistory(false): the interval of the current address, which runs beside
\* whatever is in flight, or the refresh button.
Poll(i) ==
    /\ address # None
    /\ Free("history") # {} /\ i = Min(Free("history"))
    /\ fetches' = [fetches EXCEPT !["history"][i] = Asked(address)]
    /\ refreshing' = TRUE
    /\ UNCHANGED <<server, address, formVars, shown, loading, switches>>

\* The route reads the lists as they are now.
Serve(v, i) ==
    /\ fetches[v][i].at = "asked"
    /\ LET a == fetches[v][i].address
       IN  fetches' = [fetches EXCEPT ![v][i] =
              [at |-> "served", data |-> IF v = "history" THEN History(a) ELSE PlayerStats(a)]]
    /\ UNCHANGED <<server, address, formVars, shown, loading, refreshing, switches>>

\* The finally block: both spinners end, whichever fetch they were started by.
StopSpinning(v) ==
    /\ loading' = [loading EXCEPT ![v] = FALSE]
    /\ refreshing' = (v # "history" /\ refreshing)

\* The answer is shown, whatever the current address is.
Arrive(v, i) ==
    /\ fetches[v][i].at = "served"
    /\ shown' = [shown EXCEPT ![v] = fetches[v][i].data]
    /\ fetches' = [fetches EXCEPT ![v][i] = NoFetch]
    /\ StopSpinning(v)
    /\ UNCHANGED <<server, address, formVars, switches>>

\* Mutant: a failed fetch leaves the spinner on.
FetchFails_Spins(v, i) ==
    /\ fetches[v][i].at # "free"
    /\ fetches' = [fetches EXCEPT ![v][i] = NoFetch]
    /\ UNCHANGED <<server, address, formVars, shown, loading, refreshing, switches>>

\* The request or its answer is lost, or has an error status: an error, and
\* what was shown stays.
FetchFails(v, i) ==
    /\ fetches[v][i].at # "free"
    /\ fetches' = [fetches EXCEPT ![v][i] = NoFetch]
    /\ StopSpinning(v)
    /\ UNCHANGED <<server, address, formVars, shown, switches>>

-----------------------------------------------------------------------------

Form ==
    \/ \E amount \in Amounts : Submit(amount)
    \/ \E p \in posts : Record(p) \/ RefuseBet(p) \/ AnswerPost(p) \/ LosePost(p)
    \/ GiveUp

Viewing ==
    \/ \E a \in Addresses \cup {None} : Switch(a)
    \/ \E i \in Slots : Poll(i)
    \/ \E v \in Views, i \in Slots : Serve(v, i) \/ Arrive(v, i) \/ FetchFails(v, i)

Next == Form \/ Viewing \/ Restart

Spec == Init /\ [][Next]_vars

\* The interval keeps firing; every request ends, answered or not, and of the
\* list's requests, which are made again and again, not all fail.
Fairness ==
    /\ WF_vars(\E i \in Slots : Poll(i))
    /\ SF_vars(\E i \in Slots : Serve("history", i))
    /\ SF_vars(\E i \in Slots : Arrive("history", i))
    /\ \A v \in Views, i \in Slots :
          WF_vars(Serve(v, i) \/ Arrive(v, i) \/ FetchFails(v, i))

FairSpec == Spec /\ Fairness

-----------------------------------------------------------------------------
(* Properties.                                                             *)

Ids(s) == {s[i].id : i \in DOMAIN s}

Data(v) == IF v = "history" THEN Seq(Bet) ELSE {None} \cup PlayerStatsType
Fetch(v) == {NoFetch} \cup {Asked(a) : a \in Addresses} \cup [at : {"served"}, data : Data(v)]
Posts == [id : 1..MaxBets, address : Addresses, amount : Amounts,
          at : {"sent", "recorded", "refused"}]

TypeOK ==
    /\ bets \in Seq(Bet)
    /\ poolStats \in [totalBets : Nat, totalFees : Nat]
    /\ forgotten \subseteq Nat
    /\ address \in Addresses \cup {None}
    /\ posts \subseteq Posts
    /\ submitting \in 1..MaxBets \cup {None} /\ betPlaced \in 1..MaxBets \cup {None}
    /\ DOMAIN shown = Views /\ DOMAIN fetches = Views
    /\ \A v \in Views : shown[v] \in Data(v) /\ fetches[v] \in [Slots -> Fetch(v)]
    /\ loading \in [Views -> BOOLEAN] /\ refreshing \in BOOLEAN
    /\ drawn \in 0..MaxBets

\* place_bet answers "Bet placed": the bet in the panel was recorded, whatever
\* was lost before, and no bet is recorded twice, also when an answer is lost
\* and the player submits again.
PlacedIsRecordedOnce ==
    /\ betPlaced # None => betPlaced \in Ids(bets) \cup forgotten
    /\ \A i, j \in DOMAIN bets : bets[i].id = bets[j].id => i = j
    /\ Ids(bets) \cap forgotten = {}

\* The routes agree about one set of bets: the two computations of a player's
\* tier, the progress within it, the list and the count, and the pool's count
\* and fee of all players.  Each fee is rounded down, by less than one.
RoutesAgree ==
    /\ \A a \in Addresses :
          LET stats == PlayerStats(a)
              comp == PlayerComp(a)
          IN  /\ stats.tier = comp.tier
              /\ stats.totalBets = Len(History(a))
              /\ 0 <= comp.done /\ comp.done <= comp.of
              /\ comp.tier # "Diamond" => comp.toNext > 0 /\ comp.done < comp.of
    /\ poolStats.totalBets = SumFunction([a \in Addresses |-> PlayerStats(a).totalBets])
    /\ LET edge == (SumFunction([a \in Addresses |-> Wagered(a)]) * 3) \div 100
       IN  poolStats.totalFees \in (edge - poolStats.totalBets)..edge

\* A spinner never outlives its request: while one turns, a request that will
\* stop it is in flight, although any request of the view stops both.
SpinnerIsBacked ==
    /\ \A v \in Views : loading[v] => Free(v) # Slots
    /\ refreshing => Free("history") # Slots

\* A request is on its way at most once, and its bet recorded only after it.
PostsAreRecordedOnce ==
    /\ \A p \in posts : /\ p.id <= drawn
                        /\ \A q \in posts : q.id = p.id => q = p
                        /\ p.at = "sent" => p.id \notin Ids(bets) \cup forgotten
                        /\ p.at = "recorded" => p.id \in Ids(bets) \cup forgotten
    /\ \A id \in Ids(bets) \cup forgotten : id <= drawn \/ id > MaxBets

\* The statistics are those of the bets.
Counted == poolStats = [totalBets |-> Len(bets), totalFees |-> Fees(bets)]

\* The inductive invariant: what the properties of the pages are proved from.
IInv == TypeOK /\ PlacedIsRecordedOnce /\ PostsAreRecordedOnce /\ Counted /\ SpinnerIsBacked

\* Once the player stays with an address and stops betting, and the backend
\* stays up, the list comes to be that of the address and stays so: late
\* answers for other addresses, overtaken answers and failures are repaired.
HistoryCatchesUp ==
    \A a \in Addresses : <>[](address = a) => <>[](shown["history"] = History(a))

=============================================================================
