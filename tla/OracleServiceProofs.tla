------------------------ MODULE OracleServiceProofs -------------------------
(***************************************************************************)
(* A request for oracle data that gives up has asked every endpoint, for   *)
(* any number of endpoints and of requests, unless the operator switched   *)
(* under it.  What the argument needs: the lock has one holder, which      *)
(* alone moves the index; and the endpoints a request has tried are those  *)
(* at most "attempts" failures before the current one, which is all of     *)
(* them when N have failed.                                                *)
(***************************************************************************)
EXTENDS OracleService, TLAPS

-----------------------------------------------------------------------------
(* The ring of endpoints.                                                  *)

LEMMA NextWraps ==
    ASSUME NEW i \in Endpoints
    PROVE  NextEndpoint(i) = IF i + 1 = N THEN 0 ELSE i + 1
<1>1. N \in Nat \ {0} /\ i \in 0..(N - 1)
  BY OracleAssumption DEF Endpoints
<1>2. CASE i + 1 = N
  BY <1>1, <1>2, N % N = 0 DEF NextEndpoint
<1>3. CASE i + 1 < N
  BY <1>1, <1>3 DEF NextEndpoint
<1> QED BY <1>1, <1>2, <1>3

\* A failure moves every endpoint one further from the current one, and the
\* endpoint that failed is then the nearest.
LEMMA DistanceGrows ==
    ASSUME NEW i \in Endpoints, NEW e \in Endpoints
    PROVE  /\ Distance(e, i) \in 1..N
           /\ Distance(e, NextEndpoint(i)) = IF e = i THEN 1 ELSE Distance(e, i) + 1
<1>1. N \in Nat \ {0} /\ i \in 0..(N - 1) /\ e \in 0..(N - 1)
  BY OracleAssumption DEF Endpoints
<1> QED BY <1>1, NextWraps DEF Distance

LEMMA NextIsEndpoint ==
    ASSUME NEW i \in Endpoints PROVE NextEndpoint(i) \in Endpoints
<1>1. N \in Nat \ {0} /\ i \in 0..(N - 1)
  BY OracleAssumption DEF Endpoints
<1> QED BY <1>1, NextWraps DEF Endpoints

\* The endpoints tried so far, with the one that has just failed.
LEMMA TriedGrows ==
    ASSUME NEW i \in Endpoints, NEW k \in Nat
    PROVE  {e \in Endpoints : Distance(e, i) <= k} \cup {i}
              = {e \in Endpoints : Distance(e, NextEndpoint(i)) <= k + 1}
<1>1. ASSUME NEW e \in Endpoints
      PROVE  (Distance(e, i) <= k \/ e = i) <=> Distance(e, NextEndpoint(i)) <= k + 1
  <2>1. /\ Distance(e, i) \in 1..N
        /\ Distance(e, NextEndpoint(i)) = IF e = i THEN 1 ELSE Distance(e, i) + 1
    BY DistanceGrows
  <2>2. N \in Nat
    BY OracleAssumption
  <2> QED BY <2>1, <2>2
<1> QED BY <1>1

LEMMA NothingTried ==
    ASSUME NEW i \in Endpoints
    PROVE  {e \in Endpoints : Distance(e, i) <= 0} = {}
<1>1. ASSUME NEW e \in Endpoints PROVE ~(Distance(e, i) <= 0)
  BY DistanceGrows, OracleAssumption
<1> QED BY <1>1

LEMMA AllTried ==
    ASSUME NEW i \in Endpoints
    PROVE  {e \in Endpoints : Distance(e, i) <= N} = Endpoints
<1>1. ASSUME NEW e \in Endpoints PROVE Distance(e, i) <= N
  BY DistanceGrows, OracleAssumption
<1> QED BY <1>1

-----------------------------------------------------------------------------
(* The queue of the lock.                                                  *)

\* LockIsFair as an operator of the two variables it is about.
Fair(q, k) ==
    /\ \A i, j \in 1..Len(q) : q[i] = q[j] => i = j
    /\ \A c \in Calls :
          /\ k[c].pc \in {"waiting", "asking"} <=> \E i \in 1..Len(q) : q[i] = c
          /\ k[c].pc = "asking" => q[1] = c

LEMMA FairIsLockIsFair == LockIsFair <=> Fair(queue, call)
BY DEF LockIsFair, Fair

\* A call that joins waits behind the others.
LEMMA JoinKeepsFair ==
    ASSUME NEW q \in Seq(Calls), NEW k \in [Calls -> CallState], Fair(q, k),
           NEW c \in Calls, k[c].pc \notin {"waiting", "asking"},
           NEW r, r.pc = "waiting"
    PROVE  Fair(Append(q, c), [k EXCEPT ![c] = r])
<1> DEFINE p == Append(q, c)
           m == [k EXCEPT ![c] = r]
<1>1. /\ Len(p) = Len(q) + 1 /\ p[Len(q) + 1] = c
      /\ \A i \in 1..Len(q) : p[i] = q[i]
      /\ Len(q) \in Nat
  OBVIOUS
<1>2. \A i \in 1..Len(q) : q[i] # c
  BY DEF Fair
<1>3. /\ m[c] = r
      /\ \A d \in Calls : d # c => m[d] = k[d]
  OBVIOUS
<1> HIDE DEF p, m
<1>4. \A i, j \in 1..Len(p) : p[i] = p[j] => i = j
  BY <1>1, <1>2 DEF Fair
<1>5. ASSUME NEW d \in Calls
      PROVE  /\ m[d].pc \in {"waiting", "asking"} <=> \E i \in 1..Len(p) : p[i] = d
             /\ m[d].pc = "asking" => p[1] = d
  <2>1. CASE d = c
    <3>1. Len(q) + 1 \in 1..Len(p)
      BY <1>1
    <3> QED BY <1>1, <1>3, <2>1, <3>1
  <2>2. CASE d # c
    <3>1. m[d] = k[d]
      BY <1>3, <2>2
    <3>2. (\E i \in 1..Len(p) : p[i] = d) <=> (\E i \in 1..Len(q) : q[i] = d)
      BY <1>1, <2>2
    <3>3. ASSUME k[d].pc = "asking" PROVE p[1] = d
      <4>1. PICK i \in 1..Len(q) : q[i] = d
        BY <3>3 DEF Fair
      <4>2. q[1] = d /\ 1 \in 1..Len(q)
        BY <1>1, <3>3, <4>1 DEF Fair
      <4> QED BY <1>1, <4>2
    <3> QED BY <3>1, <3>2, <3>3 DEF Fair
  <2> QED BY <2>1, <2>2
<1> QED BY <1>4, <1>5 DEF Fair, p, m

\* The holder may go on or begin to ask; nobody else does.
LEMMA HolderKeepsFair ==
    ASSUME NEW q \in Seq(Calls), NEW k \in [Calls -> CallState], Fair(q, k),
           NEW c \in Calls, k[c].pc \in {"waiting", "asking"}, q[1] = c,
           NEW r, r.pc = "asking"
    PROVE  Fair(q, [k EXCEPT ![c] = r])
BY DEF Fair

\* The holder leaves and the next in the queue holds the lock.
LEMMA LeaveKeepsFair ==
    ASSUME NEW q \in Seq(Calls), NEW k, Fair(q, k),
           NEW c \in Calls, k[c].pc = "asking",
           NEW p \in Seq(Calls), Len(p) = Len(q) - 1, \A i \in 1..Len(p) : p[i] = q[i + 1],
           NEW m, m[c].pc \in {"idle", "none"}, \A d \in Calls \ {c} : m[d] = k[d]
    PROVE  Fair(p, m)
<1>1. q[1] = c /\ Len(q) \in Nat /\ Len(q) > 0
  <2>1. PICK i \in 1..Len(q) : q[i] = c
    BY DEF Fair
  <2> QED BY <2>1 DEF Fair
<1>2. Len(p) \in Nat
  OBVIOUS
<1>4. \A i, j \in 1..Len(p) : p[i] = p[j] => i = j
  <2> SUFFICES ASSUME NEW i \in 1..Len(p), NEW j \in 1..Len(p), p[i] = p[j] PROVE i = j
    OBVIOUS
  <2>1. i + 1 \in 1..Len(q) /\ j + 1 \in 1..Len(q) /\ q[i + 1] = q[j + 1]
    BY <1>2
  <2>2. i + 1 = j + 1
    BY <2>1 DEF Fair
  <2> QED BY <1>2, <2>2
<1>5. ASSUME NEW d \in Calls
      PROVE  /\ m[d].pc \in {"waiting", "asking"} <=> \E i \in 1..Len(p) : p[i] = d
             /\ m[d].pc = "asking" => p[1] = d
  <2>1. CASE d = c
    <3>1. \A i \in 1..Len(p) : p[i] # c
      <4> SUFFICES ASSUME NEW i \in 1..Len(p), p[i] = c PROVE FALSE
        OBVIOUS
      <4>1. i + 1 \in 1..Len(q) /\ 1 \in 1..Len(q) /\ q[i + 1] = q[1]
        BY <1>1, <1>2
      <4>2. i + 1 = 1
        BY <4>1 DEF Fair
      <4> QED BY <1>2, <4>2
    <3> QED BY <2>1, <3>1
  <2>2. CASE d # c
    <3>1. m[d] = k[d] /\ m[d].pc # "asking"
      BY <1>1, <2>2 DEF Fair
    <3>2. ASSUME NEW i \in 1..Len(q), q[i] = d PROVE i - 1 \in 1..Len(p) /\ p[i - 1] = d
      BY <1>1, <1>2, <2>2, <3>2
    <3>3. ASSUME NEW i \in 1..Len(p), p[i] = d PROVE i + 1 \in 1..Len(q) /\ q[i + 1] = d
      BY <1>2, <3>3
    <3> QED BY <3>1, <3>2, <3>3 DEF Fair
  <2> QED BY <2>1, <2>2
<1> QED BY <1>4, <1>5 DEF Fair

\* The queue without its head.
LEMMA TailOfQueue ==
    ASSUME LockIsFair, TypeOK, NEW c \in Calls, call[c].pc = "asking"
    PROVE  /\ Tail(queue) \in Seq(Calls) /\ Len(Tail(queue)) = Len(queue) - 1
           /\ \A i \in 1..Len(Tail(queue)) : Tail(queue)[i] = queue[i + 1]
<1>1. PICK i \in 1..Len(queue) : queue[i] = c
  BY DEF LockIsFair
<1>2. queue \in Seq(Calls) /\ queue # <<>>
  BY <1>1 DEF TypeOK
<1> QED BY <1>2

-----------------------------------------------------------------------------
(* The steps.                                                              *)

LEMMA AtType ==
    ASSUME NEW pc \in {"idle", "waiting", "asking", "none"}, NEW e \in Endpoints
    PROVE  /\ At(pc, e) \in CallState
           /\ At(pc, e).pc = pc /\ At(pc, e).endpoint = e /\ At(pc, e).attempts = 0
           /\ At(pc, e).failed = {} /\ At(pc, e).switched = FALSE
BY OracleAssumption DEF At, CallState

\* The record of a request after a failure.
LEMMA FailedType ==
    ASSUME NEW k \in CallState, NEW pc \in {"asking", "none"}, NEW e \in Endpoints,
           k.attempts < N
    PROVE  LET r == [k EXCEPT !.pc = pc, !.endpoint = e, !.attempts = @ + 1,
                              !.failed = @ \cup {k.endpoint}]
           IN  /\ r \in CallState
               /\ r.pc = pc /\ r.endpoint = e /\ r.attempts = k.attempts + 1
               /\ r.failed = k.failed \cup {k.endpoint} /\ r.switched = k.switched
<1>1. k.attempts + 1 \in 0..N /\ k.failed \cup {k.endpoint} \in SUBSET Endpoints
  BY OracleAssumption DEF CallState
<1> QED BY <1>1 DEF CallState

LEMMA ZeroIsEndpoint == 0 \in Endpoints
BY OracleAssumption DEF Endpoints

\* TriedInOrder and NoneMeansAllFailed for one call.
Tried(k, i) ==
    /\ k.pc = "asking" =>
        /\ k.attempts < N
        /\ ~k.switched =>
              /\ k.endpoint = i
              /\ k.failed = {e \in Endpoints : Distance(e, i) <= k.attempts}
    /\ k.pc = "none" /\ ~k.switched => k.failed = Endpoints

LEMMA TriedIsTried ==
    TriedInOrder /\ NoneMeansAllFailed <=> \A c \in Calls : Tried(call[c], current)
BY DEF TriedInOrder, NoneMeansAllFailed, Tried

LEMMA AskStep ==
    ASSUME IInv, NEW c \in Calls, Ask(c) PROVE IInv'
<1>1. /\ call' = [call EXCEPT ![c] = At("waiting", 0)]
      /\ queue' = Append(queue, c) /\ current' = current
      /\ UNCHANGED <<health, age, checks, loop, up, switches>>
  BY DEF Ask
<1>2. At("waiting", 0) \in CallState /\ At("waiting", 0).pc = "waiting"
  BY AtType, ZeroIsEndpoint
<1>3. TypeOK'
  BY <1>1, <1>2 DEF IInv, TypeOK
<1>4. LockIsFair'
  <2>1. Fair(queue, call) /\ call[c].pc \notin {"waiting", "asking"}
    BY FairIsLockIsFair DEF IInv, Ask
  <2>2. Fair(queue', call')
    BY <1>1, <1>2, <2>1, JoinKeepsFair DEF IInv, TypeOK
  <2> QED BY <2>2 DEF Fair, LockIsFair
<1>5. \A d \in Calls : Tried(call'[d], current')
  <2> SUFFICES ASSUME NEW d \in Calls PROVE Tried(call'[d], current')
    OBVIOUS
  <2>1. CASE d = c
    BY <1>1, <1>2, <2>1 DEF Tried, IInv, TypeOK
  <2>2. CASE d # c
    BY <1>1, <2>2, TriedIsTried DEF IInv, TypeOK
  <2> QED BY <2>1, <2>2
<1> QED BY <1>3, <1>4, <1>5 DEF IInv, TriedInOrder, NoneMeansAllFailed, Tried

LEMMA AcquireStep ==
    ASSUME IInv, NEW c \in Calls, Acquire(c) PROVE IInv'
<1>1. /\ call' = [call EXCEPT ![c] = At("asking", current)]
      /\ queue' = queue /\ current' = current
      /\ UNCHANGED <<health, age, checks, loop, up, switches>>
  BY DEF Acquire
<1> DEFINE r == At("asking", current)
<1>2. /\ r \in CallState /\ r.pc = "asking" /\ r.endpoint = current
      /\ r.attempts = 0 /\ r.failed = {}
  BY AtType DEF IInv, TypeOK
<1> HIDE DEF r
<1>3. TypeOK'
  BY <1>1, <1>2 DEF IInv, TypeOK, r
<1>4. LockIsFair'
  <2>1. Fair(queue, call) /\ call[c].pc \in {"waiting", "asking"} /\ queue[1] = c
    BY FairIsLockIsFair DEF IInv, Acquire
  <2>2. Fair(queue', call')
    BY <1>1, <1>2, <2>1, HolderKeepsFair DEF IInv, TypeOK, r
  <2> QED BY <2>2 DEF Fair, LockIsFair
<1>5. \A d \in Calls : Tried(call'[d], current')
  <2> SUFFICES ASSUME NEW d \in Calls PROVE Tried(call'[d], current')
    OBVIOUS
  <2>1. CASE d = c
    <3>1. call'[d] = r /\ current \in Endpoints
      BY <1>1, <2>1 DEF IInv, TypeOK, r
    <3> QED BY <1>1, <1>2, <3>1, NothingTried, OracleAssumption DEF Tried
  <2>2. CASE d # c
    BY <1>1, <2>2, TriedIsTried DEF IInv, TypeOK
  <2> QED BY <2>1, <2>2
<1> QED BY <1>3, <1>4, <1>5 DEF IInv, TriedInOrder, NoneMeansAllFailed, Tried

LEMMA AnswerStep ==
    ASSUME IInv, NEW c \in Calls, Answer(c) PROVE IInv'
<1>1. /\ call' = [call EXCEPT ![c] = At("idle", 0)]
      /\ queue' = Tail(queue) /\ current' = current /\ age' = 0
      /\ UNCHANGED <<health, checks, loop, up, switches>>
  BY DEF Answer
<1>2. At("idle", 0) \in CallState /\ At("idle", 0).pc = "idle"
  BY AtType, ZeroIsEndpoint
<1>3. Fair(queue', call') /\ queue' \in Seq(Calls)
  <2>1. Fair(queue, call) /\ call[c].pc = "asking"
    BY FairIsLockIsFair DEF IInv, Answer
  <2>2. /\ queue \in Seq(Calls) /\ call \in [Calls -> CallState]
        /\ At("idle", 0).pc \in {"idle", "none"}
    BY <1>2 DEF IInv, TypeOK
  <2>3. /\ call'[c].pc \in {"idle", "none"}
        /\ \A d \in Calls \ {c} : call'[d] = call[d]
    BY <1>1, <2>2
  <2>4. /\ queue' \in Seq(Calls) /\ Len(queue') = Len(queue) - 1
        /\ \A i \in 1..Len(queue') : queue'[i] = queue[i + 1]
    BY <1>1, <2>1, TailOfQueue DEF IInv
  <2> QED BY <2>1, <2>2, <2>3, <2>4, LeaveKeepsFair
<1>4. TypeOK'
  <2>1. 0 \in -1..(StaleAge + 1)
    BY OracleAssumption
  <2> QED BY <1>1, <1>2, <1>3, <2>1 DEF IInv, TypeOK
<1>5. \A d \in Calls : Tried(call'[d], current')
  <2> SUFFICES ASSUME NEW d \in Calls PROVE Tried(call'[d], current')
    OBVIOUS
  <2>1. CASE d = c
    BY <1>1, <1>2, <2>1 DEF Tried, IInv, TypeOK
  <2>2. CASE d # c
    BY <1>1, <2>2, TriedIsTried DEF IInv, TypeOK
  <2> QED BY <2>1, <2>2
<1> QED BY <1>3, <1>4, <1>5 DEF IInv, TriedInOrder, NoneMeansAllFailed, Tried, Fair, LockIsFair

LEMMA FailStep ==
    ASSUME IInv, NEW c \in Calls, Fail(c) PROVE IInv'
<1> DEFINE k == call[c]
           go == k.attempts + 1 < N
           r == [k EXCEPT !.pc = IF go THEN "asking" ELSE "none",
                          !.endpoint = IF go THEN current' ELSE 0,
                          !.attempts = @ + 1,
                          !.failed = @ \cup {k.endpoint}]
<1>1. /\ k.pc = "asking" /\ current' = NextEndpoint(current)
      /\ call' = [call EXCEPT ![c] = r]
      /\ queue' = IF go THEN queue ELSE Tail(queue)
      /\ health' = [health EXCEPT ![k.endpoint] = "unreachable"]
      /\ UNCHANGED <<age, checks, loop, up, switches>>
  BY DEF Fail
<1>2. /\ k \in CallState /\ k.attempts < N /\ k.attempts \in Nat /\ N \in Nat
      /\ current \in Endpoints /\ current' \in Endpoints /\ k.endpoint \in Endpoints
  BY <1>1, NextIsEndpoint, OracleAssumption DEF IInv, TypeOK, CallState, TriedInOrder
<1>3. /\ r.pc = IF go THEN "asking" ELSE "none"
      /\ r.endpoint = IF go THEN current' ELSE 0
      /\ r.attempts = k.attempts + 1 /\ r.failed = k.failed \cup {k.endpoint}
      /\ r.switched = k.switched
  BY <1>2 DEF CallState
<1>4. r \in CallState
  <2>1. (IF go THEN "asking" ELSE "none") \in {"asking", "none"}
    OBVIOUS
  <2>2. (IF go THEN current' ELSE 0) \in Endpoints
    BY <1>2, ZeroIsEndpoint
  <2> HIDE DEF go
  <2> QED BY <1>2, <2>1, <2>2, FailedType
<1> HIDE DEF r
<1>5. Fair(queue', call') /\ queue' \in Seq(Calls)
  <2>1. Fair(queue, call)
    BY FairIsLockIsFair DEF IInv
  <2>2. CASE go
    <3>1. queue[1] = c
      BY <1>1 DEF IInv, LockIsFair
    <3>2. r.pc = "asking"
      BY <1>3, <2>2
    <3>3. queue' = queue /\ k.pc \in {"waiting", "asking"}
      BY <1>1, <2>2
    <3> QED BY <1>1, <2>1, <3>1, <3>2, <3>3, HolderKeepsFair DEF IInv, TypeOK
  <2>3. CASE ~go
    <3>1. r.pc \in {"idle", "none"}
      BY <1>3, <2>3
    <3>2. queue' = Tail(queue)
      BY <1>1, <2>3
    <3>3. queue \in Seq(Calls) /\ call \in [Calls -> CallState] /\ call[c].pc = "asking"
      BY <1>1 DEF IInv, TypeOK
    <3>4. /\ call'[c].pc \in {"idle", "none"}
          /\ \A d \in Calls \ {c} : call'[d] = call[d]
      BY <1>1, <3>1, <3>3
    <3>5. /\ queue' \in Seq(Calls) /\ Len(queue') = Len(queue) - 1
          /\ \A i \in 1..Len(queue') : queue'[i] = queue[i + 1]
      BY <3>2, <3>3, TailOfQueue DEF IInv
    <3> QED BY <2>1, <3>3, <3>4, <3>5, LeaveKeepsFair
  <2> QED BY <2>2, <2>3
<1>6. TypeOK'
  BY <1>1, <1>2, <1>4, <1>5 DEF IInv, TypeOK, Status
<1>7. Tried(r, current')
  <2>1. ASSUME ~k.switched
        PROVE  r.failed = {e \in Endpoints : Distance(e, current') <= k.attempts + 1}
    <3>1. k.endpoint = current
          /\ k.failed = {e \in Endpoints : Distance(e, current) <= k.attempts}
      BY <1>1, <2>1 DEF IInv, TriedInOrder
    <3> QED BY <1>1, <1>2, <1>3, <3>1, TriedGrows
  <2>2. CASE go
    BY <1>2, <1>3, <2>1, <2>2 DEF Tried
  <2>3. CASE ~go
    <3>1. k.attempts + 1 = N
      BY <1>2, <2>3
    <3> QED BY <1>2, <1>3, <2>1, <2>3, <3>1, AllTried DEF Tried
  <2> QED BY <2>2, <2>3
<1>8. \A d \in Calls : Tried(call'[d], current')
  <2> SUFFICES ASSUME NEW d \in Calls PROVE Tried(call'[d], current')
    OBVIOUS
  <2>1. CASE d = c
    BY <1>1, <1>7, <2>1 DEF IInv, TypeOK
  <2>2. CASE d # c
    \* nobody else asks, so the index that moves is nobody else's
    <3>1. call'[d] = call[d]
      BY <1>1, <2>2 DEF IInv, TypeOK
    <3>2. call[d].pc # "asking"
      BY <1>1, <2>2 DEF IInv, LockIsFair
    <3>3. Tried(call[d], current)
      BY TriedIsTried DEF IInv
    <3> QED BY <3>1, <3>2, <3>3 DEF Tried
  <2> QED BY <2>1, <2>2
<1> QED BY <1>5, <1>6, <1>8 DEF IInv, TriedInOrder, NoneMeansAllFailed, Tried, Fair, LockIsFair

LEMMA SwitchStep ==
    ASSUME IInv, NEW i \in Endpoints, Switch(i) PROVE IInv'
<1>1. /\ current' = i /\ switches' = switches + 1 /\ switches < MaxSwitches
      /\ call' = [c \in Calls |-> IF call[c].pc = "asking"
                                  THEN [call[c] EXCEPT !.switched = TRUE] ELSE call[c]]
      /\ UNCHANGED <<health, age, queue, checks, loop, up>>
  BY DEF Switch
<1>2. ASSUME NEW c \in Calls
      PROVE  /\ call'[c] \in CallState /\ call'[c].pc = call[c].pc
             /\ call'[c].attempts = call[c].attempts
             /\ call[c].pc = "asking" => call'[c].switched
             /\ call[c].pc # "asking" => call'[c] = call[c]
  <2>1. call[c] \in CallState
    BY DEF IInv, TypeOK
  <2> QED BY <1>1, <2>1 DEF CallState
<1>3. TypeOK'
  <2>1. call' \in [Calls -> CallState]
    BY <1>1, <1>2
  <2>2. switches' \in 0..MaxSwitches
    BY <1>1, OracleAssumption DEF IInv, TypeOK
  <2> QED BY <1>1, <2>1, <2>2 DEF IInv, TypeOK
<1>4. LockIsFair'
  BY <1>1, <1>2 DEF IInv, LockIsFair
<1>5. TriedInOrder'
  BY <1>2 DEF IInv, TriedInOrder
<1>6. NoneMeansAllFailed'
  <2> SUFFICES ASSUME NEW c \in Calls, call'[c].pc = "none", ~call'[c].switched
               PROVE  call'[c].failed = Endpoints
    BY DEF NoneMeansAllFailed
  <2>1. call'[c] = call[c]
    BY <1>2
  <2> QED BY <2>1 DEF IInv, NoneMeansAllFailed
<1> QED BY <1>3, <1>4, <1>5, <1>6 DEF IInv

\* What leaves the requests, the lock and the index alone.
LEMMA OtherStep ==
    ASSUME IInv, UNCHANGED <<current, queue, call>>,
           health' \in [Endpoints -> Status], age' \in -1..(StaleAge + 1),
           checks' \subseteq Endpoints, loop' \in {"checking", "sleeping", "stopped"},
           up' \in [Endpoints -> BOOLEAN], switches' = switches
    PROVE  IInv'
<1>1. TypeOK'
  BY DEF IInv, TypeOK
<1>2. LockIsFair' /\ TriedInOrder' /\ NoneMeansAllFailed'
  BY DEF IInv, LockIsFair, TriedInOrder, NoneMeansAllFailed
<1> QED BY <1>1, <1>2 DEF IInv

LEMMA WatchStep ==
    ASSUME IInv, Watch \/ Stop \/ Tick \/ \E e \in Endpoints : GoesUpOrDown(e)
    PROVE  IInv'
<1>1. TypeOK
  BY DEF IInv
<1>2. CASE EndRound
  <2>1. health' \in [Endpoints -> Status]
    BY <1>1, <1>2 DEF EndRound, TypeOK, Freshness, Status
  <2> QED BY <1>1, <1>2, <2>1, OtherStep DEF EndRound, TypeOK
<1>3. CASE StartRound
  BY <1>1, <1>3, OtherStep DEF StartRound, service, TypeOK
<1>4. ASSUME NEW e \in Endpoints, CheckAnswers(e) PROVE IInv'
  <2>1. health' \in [Endpoints -> Status]
    BY <1>1, <1>4 DEF CheckAnswers, TypeOK, Status
  <2> QED BY <1>1, <1>4, <2>1, OtherStep DEF CheckAnswers, TypeOK
<1>5. CASE Stop
  BY <1>1, <1>5, OtherStep DEF Stop, service, TypeOK
<1>6. CASE Tick
  <2>1. age' \in -1..(StaleAge + 1)
    BY <1>6, OracleAssumption DEF Tick
  <2> QED BY <1>1, <1>6, <2>1, OtherStep DEF Tick, TypeOK
<1>7. ASSUME NEW e \in Endpoints, GoesUpOrDown(e) PROVE IInv'
  <2>1. up' \in [Endpoints -> BOOLEAN]
    BY <1>1, <1>7 DEF GoesUpOrDown, TypeOK
  <2> QED BY <1>1, <1>7, <2>1, OtherStep DEF GoesUpOrDown, service, TypeOK
<1> QED BY <1>2, <1>3, <1>4, <1>5, <1>6, <1>7 DEF Watch

LEMMA InitIInv == Init => IInv
<1> SUFFICES ASSUME Init PROVE IInv
  OBVIOUS
<1>1. At("idle", 0) \in CallState /\ At("idle", 0).pc = "idle"
  BY AtType, ZeroIsEndpoint
<1>2. call \in [Calls -> CallState] /\ \A c \in Calls : call[c].pc = "idle"
  BY <1>1 DEF Init
<1>3. TypeOK
  BY <1>2, ZeroIsEndpoint, OracleAssumption DEF Init, TypeOK, Status
<1>4. LockIsFair
  BY <1>2 DEF Init, LockIsFair
<1>5. TriedInOrder /\ NoneMeansAllFailed
  BY <1>2 DEF TriedInOrder, NoneMeansAllFailed
<1> QED BY <1>3, <1>4, <1>5 DEF IInv

LEMMA StepIInv == IInv /\ [Next]_vars => IInv'
<1> SUFFICES ASSUME IInv, [Next]_vars PROVE IInv'
  OBVIOUS
<1>1. CASE Serve
  BY <1>1, AskStep, AcquireStep, AnswerStep, FailStep DEF Serve
<1>2. CASE Watch \/ Stop \/ Tick
  BY <1>2, WatchStep
<1>3. CASE \E e \in Endpoints : Switch(e) \/ GoesUpOrDown(e)
  BY <1>3, SwitchStep, WatchStep
<1>4. CASE UNCHANGED vars
  BY <1>4, OtherStep DEF vars, service, IInv, TypeOK
<1> QED BY <1>1, <1>2, <1>3, <1>4 DEF Next

-----------------------------------------------------------------------------

\* The inductive invariant of the service holds for any number of endpoints
\* and of requests.
THEOREM Invariance == Spec => []IInv
BY InitIInv, StepIInv, PTL DEF Spec

\* Types of the index, the lock, the requests and the health records.
THEOREM TypeCorrect == Spec => []TypeOK
<1>1. IInv => TypeOK
  BY DEF IInv
<1> QED BY <1>1, Invariance, PTL

\* A request that gives up has asked every endpoint, unless the operator
\* switched while it held the lock.
THEOREM GivingUpIsThorough == Spec => []NoneMeansAllFailed
<1>1. IInv => NoneMeansAllFailed
  BY DEF IInv
<1> QED BY <1>1, Invariance, PTL

=============================================================================
