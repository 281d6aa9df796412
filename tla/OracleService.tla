--------------------------- MODULE OracleService ----------------------------
(***************************************************************************)
(* backend/oracle_service.py with the routes of backend/oracle_routes.py   *)
(* that reach it: requests for data that fail over from endpoint to        *)
(* endpoint under a lock, a loop that checks the health of every endpoint  *)
(* without the lock, and an operator who writes the index of the current   *)
(* endpoint without the lock.                                              *)
(*                                                                         *)
(* Requests and checks are coroutines: an action is the code between two   *)
(* awaits.  Failover is enabled, as it is by default.                      *)
(***************************************************************************)
EXTENDS Integers, Sequences, FiniteSets

CONSTANTS
    N,               \* the number of endpoints; 0 is the primary
    Calls,           \* handlers of POST /data, each used again and again
    StaleAge,        \* the age at which a feed is stale, in ticks
    MaxSwitches      \* how often the operator switches

ASSUME OracleAssumption ==
    /\ N \in Nat \ {0} /\ IsFiniteSet(Calls)
    /\ StaleAge \in Nat \ {0} /\ MaxSwitches \in Nat

Endpoints == 0..(N - 1)

VARIABLES
    current,         \* _current_endpoint_index
    health,          \* [Endpoints -> Status]: _health_status
    age,             \* the time since _last_feed_update, or -1 for None
    queue,           \* _lock: its holder, then those who wait, first come first served
    call,            \* [Calls -> CallState]: get_oracle_data
    checks,          \* endpoints whose _check_endpoint awaits an answer
    loop,            \* _health_check_task: "checking", "sleeping" or "stopped"
    up,              \* [Endpoints -> BOOLEAN]: would the endpoint answer now
    switches         \* how often the operator has switched

service == <<current, health, age, queue, call>>
vars == <<service, checks, loop, up, switches>>

Status == {"unknown", "healthy", "stale", "unreachable"}

\* endpoint: the one asked last; attempts: how many have failed; failed: which;
\* switched: whether the operator interfered while the call held the lock.
CallState == [pc : {"idle", "waiting", "asking", "none"},
              endpoint : Endpoints, attempts : 0..N,
              failed : SUBSET Endpoints, switched : BOOLEAN]

\* A handler that has not begun to ask, or has returned data.
At(pc, e) == [pc |-> pc, endpoint |-> e, attempts |-> 0, failed |-> {}, switched |-> FALSE]

\* start, before the server takes requests: the loop begins with a round.
Init ==
    /\ current = 0
    /\ health = [e \in Endpoints |-> "unknown"]
    /\ age = -1
    /\ queue = <<>>
    /\ call = [c \in Calls |-> At("idle", 0)]
    /\ checks = Endpoints
    /\ loop = "checking"
    /\ up \in [Endpoints -> BOOLEAN]
    /\ switches = 0

-----------------------------------------------------------------------------
(* get_oracle_data                                                         *)

Ask(c) ==
    /\ call[c].pc \in {"idle", "none"}
    /\ loop # "stopped"
    /\ queue' = Append(queue, c)
    /\ call' = [call EXCEPT ![c] = At("waiting", 0)]
    /\ UNCHANGED <<current, health, age, checks, loop, up, switches>>

\* A variant to be told from Acquire: the lock is left out.
Acquire_Unlocked(c) ==
    /\ call[c].pc = "waiting"
    /\ call' = [call EXCEPT ![c] = At("asking", current)]
    /\ UNCHANGED <<current, health, age, queue, checks, loop, up, switches>>

\* async with self._lock, and the first request.
Acquire(c) ==
    /\ call[c].pc = "waiting"
    /\ queue[1] = c
    /\ call' = [call EXCEPT ![c] = At("asking", current)]
    /\ UNCHANGED <<current, health, age, queue, checks, loop, up, switches>>

\* return data
Answer(c) ==
    /\ call[c].pc = "asking"
    /\ up[call[c].endpoint]
    /\ age' = 0
    /\ call' = [call EXCEPT ![c] = At("idle", 0)]
    /\ queue' = Tail(queue)
    /\ UNCHANGED <<current, health, checks, loop, up, switches>>

\* Variant: a failure is not counted.
Fail_Uncounted(c) ==
    LET k == call[c]
    IN  /\ k.pc = "asking"
        /\ ~up[k.endpoint]
        /\ health' = [health EXCEPT ![k.endpoint] = "unreachable"]
        /\ current' = (current + 1) % N
        /\ call' = [call EXCEPT ![c] = [k EXCEPT !.endpoint = current',
                                                !.failed = @ \cup {k.endpoint}]]
        /\ UNCHANGED <<age, queue, checks, loop, up, switches>>

NextEndpoint(i) == (i + 1) % N

\* A timeout, an error status or an answer that is no JSON: the endpoint is
\* marked, the index moves on from wherever it is by now, and the next
\* request goes out unless as many have failed as there are endpoints.
Fail(c) ==
    LET k == call[c]
    IN  /\ k.pc = "asking"
        /\ ~up[k.endpoint]
        /\ health' = [health EXCEPT ![k.endpoint] = "unreachable"]
        /\ current' = NextEndpoint(current)
        /\ call' = [call EXCEPT ![c] =
              [k EXCEPT !.pc = IF k.attempts + 1 < N THEN "asking" ELSE "none",
                        !.endpoint = IF k.attempts + 1 < N THEN current' ELSE 0,
                        !.attempts = @ + 1,
                        !.failed = @ \cup {k.endpoint}]]
        /\ queue' = IF k.attempts + 1 < N THEN queue ELSE Tail(queue)
        /\ UNCHANGED <<age, checks, loop, up, switches>>

-----------------------------------------------------------------------------
(* _health_check_loop                                                      *)

\* Variant of _check_endpoint: a failure is swallowed by gather.
CheckAnswers_Swallows(e) ==
    /\ e \in checks
    /\ checks' = checks \ {e}
    /\ health' = [health EXCEPT ![e] = IF up[e] THEN "healthy" ELSE @]
    /\ UNCHANGED <<current, age, queue, call, loop, up, switches>>

\* _check_endpoint has its answer.
CheckAnswers(e) ==
    /\ e \in checks
    /\ checks' = checks \ {e}
    /\ health' = [health EXCEPT ![e] = IF up[e] THEN "healthy" ELSE "unreachable"]
    /\ UNCHANGED <<current, age, queue, call, loop, up, switches>>

\* What the age of the feed says of the endpoint that is current by now.
Freshness == IF age > StaleAge THEN "stale" ELSE "healthy"

\* A variant of EndRound: what the check has just written is kept.
EndRound_KeepsHealthy ==
    /\ loop = "checking" /\ checks = {}
    /\ health' = IF age = -1 \/ health[current] = "healthy" THEN health
                 ELSE [health EXCEPT ![current] = Freshness]
    /\ loop' = "sleeping"
    /\ UNCHANGED <<current, age, queue, call, checks, up, switches>>

\* The end of a round: gather has returned.
EndRound ==
    /\ loop = "checking" /\ checks = {}
    /\ health' = IF age = -1 THEN health ELSE [health EXCEPT ![current] = Freshness]
    /\ loop' = "sleeping"
    /\ UNCHANGED <<current, age, queue, call, checks, up, switches>>

\* The interval is over: _check_all_endpoints starts a check of each endpoint.
StartRound ==
    /\ loop = "sleeping"
    /\ loop' = "checking"
    /\ checks' = Endpoints
    /\ UNCHANGED <<service, up, switches>>

\* stop, which the server calls once every request has ended.
Stop ==
    /\ loop # "stopped" /\ queue = <<>>
    /\ loop' = "stopped"
    /\ checks' = {}
    /\ UNCHANGED <<service, up, switches>>

\* POST /switch
Switch(i) ==
    /\ loop # "stopped"
    /\ switches < MaxSwitches
    /\ switches' = switches + 1
    /\ current' = i
    /\ call' = [c \in Calls |-> IF call[c].pc = "asking"
                                THEN [call[c] EXCEPT !.switched = TRUE] ELSE call[c]]
    /\ UNCHANGED <<health, age, queue, checks, loop, up>>

-----------------------------------------------------------------------------
(* Time and the endpoints.                                                 *)

\* Ages above the threshold are not told apart.
Tick ==
    /\ age \in 0..StaleAge
    /\ age' = age + 1
    /\ UNCHANGED <<current, health, queue, call, checks, loop, up, switches>>

GoesUpOrDown(e) ==
    /\ up' = [up EXCEPT ![e] = ~@]
    /\ UNCHANGED <<service, checks, loop, switches>>

Serve == \E c \in Calls : Ask(c) \/ Acquire(c) \/ Answer(c) \/ Fail(c)

Watch == EndRound \/ StartRound \/ \E e \in Endpoints : CheckAnswers(e)

Next == \/ Serve \/ Watch \/ Stop \/ Tick
        \/ \E e \in Endpoints : Switch(e) \/ GoesUpOrDown(e)

Spec == Init /\ [][Next]_vars

\* Every request is answered or times out, so is every check; the loop comes
\* back and time passes.  Nobody has to ask, and no endpoint has to be up.
Fairness ==
    /\ WF_vars(EndRound) /\ WF_vars(StartRound) /\ WF_vars(Tick)
    /\ \A e \in Endpoints : WF_vars(CheckAnswers(e))
    /\ \A c \in Calls : WF_vars(Acquire(c)) /\ WF_vars(Answer(c) \/ Fail(c))

FairSpec == Spec /\ Fairness

-----------------------------------------------------------------------------
(* get_service_status, and the oracle's part of GET /health.               *)

ServiceStatus ==
    CASE health[current] = "stale" -> "stale"
      [] health[current] = "unreachable" -> "degraded"
      [] OTHER -> "ok"

ServerIsOk == ServiceStatus \notin {"stale", "degraded"}

-----------------------------------------------------------------------------
(* Properties.                                                             *)

TypeOK ==
    /\ current \in Endpoints
    /\ health \in [Endpoints -> Status]
    /\ age \in -1..(StaleAge + 1)
    /\ queue \in Seq(Calls)
    /\ call \in [Calls -> CallState]
    /\ checks \subseteq Endpoints
    /\ loop \in {"checking", "sleeping", "stopped"}
    /\ up \in [Endpoints -> BOOLEAN]
    /\ switches \in 0..MaxSwitches

\* "None if all endpoints fail": other requests and health checks do not make
\* a request skip an endpoint.  When the operator did not interfere, it has
\* asked every one of them before it gives up.
NoneMeansAllFailed ==
    \A c \in Calls : call[c].pc = "none" /\ ~call[c].switched => call[c].failed = Endpoints

\* The lock has one holder, which alone asks; who waits is in its queue once.
LockIsFair ==
    /\ \A i, j \in 1..Len(queue) : queue[i] = queue[j] => i = j
    /\ \A c \in Calls :
          /\ call[c].pc \in {"waiting", "asking"} <=> \E i \in 1..Len(queue) : queue[i] = c
          /\ call[c].pc = "asking" => queue[1] = c

\* How many failures it takes to get from an endpoint to another.
Distance(e, i) == IF e < i THEN i - e ELSE i - e + N

\* What a request has tried are the endpoints just before the current one.
TriedInOrder ==
    \A c \in Calls : call[c].pc = "asking" =>
        /\ call[c].attempts < N
        /\ ~call[c].switched =>
              /\ call[c].endpoint = current
              /\ call[c].failed = {e \in Endpoints : Distance(e, current) <= call[c].attempts}

\* The inductive invariant.
IInv == TypeOK /\ LockIsFair /\ TriedInOrder /\ NoneMeansAllFailed

\* Every request for data ends, whatever the endpoints do and however many
\* requests wait for the lock before it.
EveryCallEnds == \A c \in Calls : call[c].pc = "waiting" ~> call[c].pc \in {"idle", "none"}

\* A stale feed is noticed, although the checks of each round first write
\* "healthy" over what the last round said of it.
StaleFeedIsNoticed ==
    age > StaleAge ~> ~ServerIsOk \/ age = 0 \/ loop = "stopped"

\* The report follows the endpoints: one that stays up is not unreachable for
\* ever, and a single one that stays down is not healthy for ever, nor again
\* and again, although a fresh feed makes the current endpoint healthy.
ReportsFollow ==
    \A e \in Endpoints :
        /\ <>[](up[e] /\ loop # "stopped") => <>[](health[e] # "unreachable")
        /\ <>[](~up[e] /\ loop # "stopped" /\ \A f \in Endpoints \ {e} : up[f])
           => <>[](health[e] # "healthy")

=============================================================================
