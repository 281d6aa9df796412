-------------------------- MODULE OffChainBotProofs -------------------------
(***************************************************************************)
(* The bot's invariants, for every timeout, interval and bound.            *)
(***************************************************************************)
EXTENDS OffChainBot, TLAPS

USE DEF Never, NoFile, Off, Attempts, RetryWait

\* What the time of n operations is told by, here and below.
LEMMA RestOfAttempt ==
    ASSUME NEW n \in 0..MoreOps
    PROVE  /\ Rest(n) \in Nat /\ Request \in Nat
           /\ Rest(n) <= Rest(MoreOps) /\ Request = NodeTimeout + Rest(MoreOps)
           /\ Rest(0) = 0
           /\ n > 0 => Rest(n) = NodeTimeout + Rest(n - 1)
<1>1. \A i, t \in Nat : i * t \in Nat /\ i * t <= (i + 1) * t /\ (i + 1) * t = t + i * t
  OBVIOUS
<1>2. MoreOps = n + (MoreOps - n) /\ MoreOps - n \in Nat
  BY BotAssumption
<1>3. \A i, j, t \in Nat : (i + j) * t = i * t + j * t /\ j * t \in Nat /\ i * t \in Nat
  OBVIOUS
<1>4. /\ n * NodeTimeout \in Nat /\ (MoreOps - n) * NodeTimeout \in Nat
      /\ MoreOps * NodeTimeout = n * NodeTimeout + (MoreOps - n) * NodeTimeout
  BY <1>2, <1>3, BotAssumption
<1>5. n > 0 => n * NodeTimeout = NodeTimeout + (n - 1) * NodeTimeout
  <2> SUFFICES ASSUME n > 0 PROVE n * NodeTimeout = NodeTimeout + (n - 1) * NodeTimeout
    OBVIOUS
  <2>1. n - 1 \in Nat /\ n = (n - 1) + 1
    OBVIOUS
  <2> QED
    BY <1>1, <2>1, BotAssumption
<1>6. 0 * NodeTimeout = 0
  BY BotAssumption
<1> QED
  BY <1>4, <1>5, <1>6, BotAssumption DEF Rest, Request

LEMMA InitInvariant == Init => IInv
<1> SUFFICES ASSUME Init PROVE IInv
  OBVIOUS
<1>1. FlagTypes
  BY DEF Init, FlagTypes
<1>2. NumberTypes
  BY BotAssumption DEF Init, NumberTypes, Stages
<1>3. LeftIsBounded /\ LeavesInTime
  BY DEF Init, LeftIsBounded, LeavesInTime
<1>4. HeartBeats /\ GoneLeavesNoFile
  BY DEF Init, HeartBeats, GoneLeavesNoFile
<1> QED
  BY <1>1, <1>2, <1>3, <1>4 DEF IInv, TypeOK

\* A process that ends leaves the invariant, whatever it was doing.
LEMMA EndKeeps ==
    ASSUME IInv, NEW h \in {"clean", "error", "killed"}, End(h), UNCHANGED file,
           h = "clean" => file = NoFile
    PROVE  IInv'
<1>1. FlagTypes'
  BY DEF End, IInv, TypeOK, FlagTypes
<1>2. NumberTypes'
  BY BotAssumption DEF End, IInv, TypeOK, NumberTypes, Stages
<1>3. LeftIsBounded' /\ LeavesInTime'
  BY DEF End, LeftIsBounded, LeavesInTime
<1>4. HeartBeats' /\ GoneLeavesNoFile'
  BY DEF End, HeartBeats, GoneLeavesNoFile
<1> QED
  BY <1>1, <1>2, <1>3, <1>4 DEF IInv, TypeOK

LEMMA ExitKeeps ==
    ASSUME IInv, Exit
    PROVE  IInv'
BY EndKeeps DEF Exit, IInv, GoneLeavesNoFile

\* The steps of run that do not end it, one conjunct of the invariant each.
Stays == Run /\ ~Exit /\ ~BindFails

LEMMA RunKeepsTypes ==
    ASSUME IInv, Stays
    PROVE  TypeOK' /\ LeftIsBounded'
<1> USE DEF Stays, Run, Bound, ToLoop, Get, Leave, NodeProgresses, NodeAnswers, Nap, NodeIsDown,
        NodeTimesOut, NodeRefuses, Retry, TryAgain, Wake, CancelHeartbeat, RemoveFile, UnlinkFails,
        StopHealth, flags, heart, manager
<1>1. FlagTypes'
  BY DEF IInv, TypeOK, FlagTypes
<1>2. NumberTypes' /\ LeftIsBounded'
  BY BotAssumption DEF IInv, TypeOK, NumberTypes, LeftIsBounded, Stages
<1> QED
  BY <1>1, <1>2 DEF TypeOK

LEMMA RunKeepsTime ==
    ASSUME IInv, Stays
    PROVE  LeavesInTime'
<1>a. /\ Rest(ops) \in Nat /\ Rest(MoreOps) \in Nat /\ Request \in Nat /\ Rest(0) = 0
      /\ Request = NodeTimeout + Rest(MoreOps) /\ Rest(ops) <= Rest(MoreOps)
      /\ ops > 0 => Rest(ops) = NodeTimeout + Rest(ops - 1)
  <2>1. ops \in 0..MoreOps /\ MoreOps \in 0..MoreOps
    BY BotAssumption DEF IInv, TypeOK, NumberTypes
  <2> QED
    BY <2>1, RestOfAttempt
<1> USE BotAssumption, <1>a DEF IInv, TypeOK, NumberTypes, LeftIsBounded, LeavesInTime, Remaining,
        LongestLeave, After, Get, Leave, Nap, flags, heart, manager
<1>1. CASE Bound
  BY <1>1 DEF Bound, ToLoop
<1>2. CASE NodeAnswers
  BY <1>2 DEF NodeAnswers
<1>3. CASE NodeRefuses
  BY <1>3 DEF NodeRefuses
<1>4. CASE pc = "get" /\ Retry
  <2>1. CASE attempt = 1
    BY <1>4, <2>1 DEF Retry
  <2>2. CASE attempt = 2
    BY <1>4, <2>2 DEF Retry
  <2>3. CASE attempt = 3
    BY <1>4, <2>3 DEF Retry
  <2>4. attempt \in {1, 2, 3}
    OBVIOUS
  <2> QED
    BY <2>1, <2>2, <2>3, <2>4
<1>5. CASE TryAgain
  <2>1. CASE attempt = 1
    BY <1>5, <2>1 DEF TryAgain
  <2>2. CASE attempt = 2
    BY <1>5, <2>2 DEF TryAgain
  <2> QED
    BY <1>5, <2>1, <2>2 DEF TryAgain
<1>6. CASE Wake
  BY <1>6 DEF Wake, ToLoop
<1>7. CASE NodeProgresses
  <2>1. left' + Rest(ops') <= left + Rest(ops) /\ pc' = pc /\ attempt' = attempt
    BY <1>7 DEF NodeProgresses
  <2>2. left' + Rest(ops') \in Nat
    BY <1>7 DEF NodeProgresses
  <2> QED
    BY <1>7, <2>1, <2>2 DEF NodeProgresses
<1>8. CASE CancelHeartbeat \/ RemoveFile \/ UnlinkFails
  BY <1>8 DEF CancelHeartbeat, RemoveFile, UnlinkFails
<1>9. CASE StopHealth
  BY <1>9 DEF StopHealth
<1> QED
  BY <1>1, <1>2, <1>3, <1>4, <1>5, <1>6, <1>7, <1>8, <1>9 DEF Stays, Run, NodeIsDown, NodeTimesOut

LEMMA RunKeepsHeart ==
    ASSUME IInv, Stays
    PROVE  HeartBeats' /\ GoneLeavesNoFile'
BY BotAssumption DEF Stays, Run, IInv, TypeOK, NumberTypes, HeartBeats, GoneLeavesNoFile, Bound,
   ToLoop, Get, Leave, NodeProgresses, NodeAnswers, Nap, NodeIsDown, NodeTimesOut, NodeRefuses, Retry,
   TryAgain, Wake, CancelHeartbeat, RemoveFile, UnlinkFails, StopHealth, flags, heart, manager

LEMMA HeartKeeps ==
    ASSUME IInv, Beat \/ BeatFails
    PROVE  IInv'
<1> USE DEF Beat, BeatFails, flags, manager
<1>1. FlagTypes'
  BY DEF IInv, TypeOK, FlagTypes
<1>2. NumberTypes' /\ LeftIsBounded'
  BY BotAssumption DEF IInv, TypeOK, NumberTypes, LeftIsBounded, Stages
<1>3. LeavesInTime'
  BY DEF IInv, LeavesInTime, Remaining
<1>4. HeartBeats' /\ GoneLeavesNoFile'
  BY BotAssumption DEF IInv, TypeOK, NumberTypes, HeartBeats, GoneLeavesNoFile, Stages
<1> QED
  BY <1>1, <1>2, <1>3, <1>4 DEF IInv, TypeOK

LEMMA LaunchKeeps ==
    ASSUME IInv, Launch
    PROVE  IInv'
<1> USE DEF Launch, flags, heart
<1>1. FlagTypes'
  BY DEF IInv, TypeOK, FlagTypes
<1>2. NumberTypes' /\ LeftIsBounded'
  BY DEF IInv, TypeOK, NumberTypes, LeftIsBounded, Stages
<1>3. LeavesInTime'
  BY DEF IInv, LeavesInTime
<1>4. HeartBeats' /\ GoneLeavesNoFile'
  BY DEF IInv, HeartBeats, GoneLeavesNoFile
<1> QED
  BY <1>1, <1>2, <1>3, <1>4 DEF IInv, TypeOK

LEMMA SignalKeeps ==
    ASSUME IInv, NEW kill \in BOOLEAN, Signal(kill), stopped' \in BOOLEAN
    PROVE  IInv'
<1>1. CASE ours
  <2> USE <1>1 DEF Signal, heart
  <2>1. FlagTypes'
    BY DEF IInv, TypeOK, FlagTypes
  <2>2. NumberTypes' /\ LeftIsBounded'
    BY BotAssumption DEF IInv, TypeOK, NumberTypes, LeftIsBounded, Stages
  <2>3. LeavesInTime'
    BY BotAssumption DEF IInv, TypeOK, NumberTypes, LeavesInTime, Remaining
  <2>4. HeartBeats' /\ GoneLeavesNoFile'
    BY DEF IInv, HeartBeats, GoneLeavesNoFile
  <2> QED
    BY <2>1, <2>2, <2>3, <2>4 DEF IInv, TypeOK
<1>2. CASE ~ours
  <2>1. FlagTypes'
    BY <1>2 DEF Signal, End, IInv, TypeOK, FlagTypes
  <2>2. NumberTypes'
    BY <1>2, BotAssumption DEF Signal, End, IInv, TypeOK, NumberTypes, Stages
  <2>3. LeftIsBounded' /\ LeavesInTime'
    BY <1>2 DEF Signal, End, LeftIsBounded, LeavesInTime
  <2>4. HeartBeats' /\ GoneLeavesNoFile'
    BY <1>2 DEF Signal, End, HeartBeats, GoneLeavesNoFile
  <2> QED
    BY <2>1, <2>2, <2>3, <2>4 DEF IInv, TypeOK
<1> QED
  BY <1>1, <1>2

LEMMA TickKeeps ==
    ASSUME IInv, Tick
    PROVE  IInv'
<1> USE BotAssumption DEF Tick, Due, Older
<1>1. FlagTypes'
  BY DEF IInv, TypeOK, FlagTypes
<1> USE DEF IInv, TypeOK, NumberTypes
<1>2. NumberTypes' /\ LeftIsBounded'
  BY DEF LeftIsBounded, Stages, HeartBeats
<1>3. HeartBeats' /\ GoneLeavesNoFile'
  BY DEF HeartBeats, GoneLeavesNoFile, Stages
<1>4. pc \in {"get", "backoff", "nap", "cleanup"} /\ left' = left - 1
  BY DEF Stages
<1>a. /\ Rest(ops) \in Nat /\ Rest(MoreOps) \in Nat /\ Request \in Nat
      /\ Request = NodeTimeout + Rest(MoreOps) /\ Rest(ops) <= Rest(MoreOps)
  <2>1. ops \in 0..MoreOps /\ MoreOps \in 0..MoreOps
    BY BotAssumption DEF IInv, TypeOK, NumberTypes
  <2> QED
    BY <2>1, RestOfAttempt
<1>5. LeavesInTime'
  <2>1. ASSUME since = 0 PROVE since' + Remaining' <= LongestLeave
    <3>1. CASE pc = "get"
      BY <1>a, <1>4, <2>1, <3>1 DEF LeftIsBounded, Remaining, LongestLeave, After
    <3>2. CASE pc = "backoff"
      BY <1>a, <1>4, <2>1, <3>2 DEF LeftIsBounded, Remaining, LongestLeave, After
    <3>3. CASE pc \in {"nap", "cleanup"}
      BY <1>a, <1>4, <2>1, <3>3 DEF LeftIsBounded, Remaining, LongestLeave, After
    <3> QED
      BY <1>4, <3>1, <3>2, <3>3
  <2>2. ASSUME since # 0 PROVE since' + Remaining' <= LongestLeave
    <3>1. since + Remaining <= LongestLeave
      BY <2>2 DEF LeavesInTime
    <3>2. CASE pc = "get"
      BY <1>a, <1>4, <3>1, <3>2 DEF Remaining, LongestLeave, After
    <3>3. CASE pc = "backoff"
      BY <1>a, <1>4, <3>1, <3>3 DEF LeftIsBounded, Remaining, LongestLeave, After
    <3>4. CASE pc \in {"nap", "cleanup"}
      BY <1>a, <1>4, <3>1, <3>4 DEF Remaining, LongestLeave, After
    <3> QED
      BY <1>4, <3>2, <3>3, <3>4
  <2>3. since' + Remaining' <= LongestLeave
    BY <2>1, <2>2
  <2> QED
    BY <1>4, <2>3 DEF LeavesInTime
<1> QED
  BY <1>1, <1>2, <1>3, <1>5

LEMMA StepKeeps ==
    ASSUME IInv, [Next]_vars
    PROVE  IInv'
<1>1. CASE Run
  <2>1. CASE Exit
    BY <2>1, ExitKeeps
  <2>2. CASE BindFails
    BY <2>2, EndKeeps DEF BindFails
  <2>3. CASE Stays
    BY <2>3, RunKeepsTypes, RunKeepsTime, RunKeepsHeart DEF IInv
  <2> QED
    BY <1>1, <2>1, <2>2, <2>3 DEF Stays
<1>2. CASE Beat \/ BeatFails
  BY <1>2, HeartKeeps
<1>3. CASE Launch
  BY <1>3, LaunchKeeps
<1>4. CASE Stop
  BY <1>4, SignalKeeps DEF Stop
<1>5. ASSUME NEW kill \in BOOLEAN, Interrupt(kill) PROVE IInv'
  BY <1>5, SignalKeeps DEF Interrupt, IInv, TypeOK, FlagTypes
<1>6. CASE Kill
  BY <1>6, EndKeeps DEF Kill
<1>7. CASE Tick
  BY <1>7, TickKeeps
<1>8. CASE UNCHANGED vars
  BY <1>8 DEF vars, IInv, TypeOK, FlagTypes, NumberTypes, LeftIsBounded, LeavesInTime, HeartBeats,
     GoneLeavesNoFile, Remaining
<1> QED
  BY <1>1, <1>2, <1>3, <1>4, <1>5, <1>6, <1>7, <1>8 DEF Next

(* The inductive invariant.                                                  *)
THEOREM Invariance == Spec => []IInv
<1>1. Init => IInv
  BY InitInvariant
<1>2. IInv /\ [Next]_vars => IInv'
  BY StepKeeps
<1> QED
  BY <1>1, <1>2, PTL DEF Spec

(* Types of the process, its tasks and its manager.                          *)
THEOREM TypeCorrect == Spec => []TypeOK
<1>1. IInv => TypeOK
  BY DEF IInv
<1> QED
  BY <1>1, Invariance, PTL

(* While the loop runs, the heartbeat file is no older than the interval and *)
(* the failed writes.                                                        *)
THEOREM HeartbeatFresh == Spec => []HeartbeatIsFresh
<1>1. IInv => HeartbeatIsFresh
  BY BotAssumption DEF IInv, TypeOK, NumberTypes, HeartBeats, HeartbeatIsFresh
<1> QED
  BY <1>1, Invariance, PTL

(* A bot that is gone is not reported alive.                                 *)
THEOREM NoFileIsLeft == Spec => []GoneLeavesNoFile
<1>1. IInv => GoneLeavesNoFile
  BY DEF IInv
<1> QED
  BY <1>1, Invariance, PTL

LEMMA RemainingIsNat ==
    ASSUME IInv
    PROVE  Remaining \in Nat /\ LongestLeave \in Nat
<1>a. /\ Rest(ops) \in Nat /\ Rest(MoreOps) \in Nat /\ Request \in Nat
      /\ Request = NodeTimeout + Rest(MoreOps) /\ Rest(ops) <= Rest(MoreOps)
  <2>1. ops \in 0..MoreOps /\ MoreOps \in 0..MoreOps
    BY BotAssumption DEF IInv, TypeOK, NumberTypes
  <2> QED
    BY <2>1, RestOfAttempt
<1>1. LongestLeave \in Nat
  BY <1>a, BotAssumption DEF LongestLeave, After
<1>2. Remaining \in Nat
  BY <1>a, BotAssumption DEF IInv, TypeOK, NumberTypes, LeftIsBounded, Remaining, After
<1> QED
  BY <1>1, <1>2

LEMMA SinceIsBounded == IInv => StopTakesOneRound
BY RemainingIsNat DEF IInv, TypeOK, NumberTypes, LeavesInTime, StopTakesOneRound

(* From a signal to the end no more passes than one request of as many       *)
(* operations as the node begins, its pauses, one sleep and the cleanup, for *)
(* every timeout and every MoreOps.                                          *)
THEOREM ShutdownTakesOneRound == Spec => []StopTakesOneRound
BY SinceIsBounded, Invariance, PTL

(* No round begins after the signal.                                         *)
THEOREM NoRoundAfterSignal == Spec => NoNewRound
<1>1. IInv /\ [Next]_vars => [(shutdown /\ pc' = "get" /\ pc # "get") => pc = "backoff"]_vars
  BY DEF Next, vars, Run, Bound, BindFails, NodeAnswers, Nap, NodeIsDown, NodeTimesOut, NodeRefuses,
     NodeProgresses, Get, Leave, Retry, TryAgain, Wake, ToLoop, CancelHeartbeat, RemoveFile, UnlinkFails, StopHealth, Exit, End, Beat, BeatFails,
     Launch, Stop, Interrupt, Signal, Kill, Tick, IInv, LeavesInTime
<1> QED
  BY <1>1, Invariance, PTL DEF Spec, NoNewRound

(* A process manager that waits longer than that bound never kills.  No      *)
(* waiting is long enough for every node, as the bound grows with MoreOps.   *)
THEOREM PatientManagerNeverKills ==
    ASSUME KillTimeout > LongestLeave
    PROVE  Spec => [][~Kill]_vars
<1>1. IInv => killIn # 0
  BY SinceIsBounded, RemainingIsNat, BotAssumption DEF IInv, TypeOK, NumberTypes, LeavesInTime, StopTakesOneRound
<1>2. IInv /\ [Next]_vars => [~Kill]_vars
  BY <1>1 DEF Kill
<1> QED
  BY <1>2, Invariance, PTL DEF Spec

=============================================================================
