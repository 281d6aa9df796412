---------------------------- MODULE OffChainBot -----------------------------
(***************************************************************************)
(* The process of the off-chain bot (off-chain-bot/main.py) under its      *)
(* process manager (ecosystem.config.js): the main loop with its retried   *)
(* request to the node, the heartbeat task, the health server, and the     *)
(* signals that end it.  Time is counted in seconds; what is due happens   *)
(* before the next second.  process_bets is what the repository has of it: *)
(* one GET.                                                                *)
(***************************************************************************)
EXTENDS Integers

CONSTANTS NodeTimeout,  \* of one operation of a request: to connect, write or read, 30 seconds
          MoreOps,      \* bound: operations of an attempt after its first
          LoopSleep,    \* between rounds, 5 seconds
          BeatInterval, \* HEARTBEAT_INTERVAL_SECONDS, 30
          CleanupTime,  \* the longest the health server takes to close
          KillTimeout,  \* of the process manager, 5 seconds
          MaxLaunches,  \* bound: processes started
          MaxFails      \* bound: heartbeats that fail in a row

Never == -1    \* no signal was sent
NoFile == -1
Off == -1
Attempts == 3  \* RETRY_MAX_ATTEMPTS
\* Seconds before the attempt after the n-th: 2^(n-1), below RETRY_MAX_WAIT.
RetryWait(n) == n

ASSUME BotAssumption ==
    /\ NodeTimeout \in Nat \ {0} /\ MoreOps \in Nat /\ LoopSleep \in Nat \ {0} /\ BeatInterval \in Nat \ {0}
    /\ CleanupTime \in Nat /\ KillTimeout \in Nat /\ MaxLaunches \in Nat /\ MaxFails \in Nat

VARIABLES
    pc,        \* where run() is: "off" when there is no process
    left,      \* seconds until what it awaits is over or times out
    ops,       \* operations the attempt may still begin
    attempt,   \* of the request
    shutdown,  \* shutdown_requested
    since,     \* seconds since it was set
    ours,      \* the signal handlers are those of ShutdownManager
    serving,   \* the health server listens
    due,       \* seconds until the heartbeat task writes, Off without a task
    wrote,     \* it has written the file
    fails,     \* heartbeats that failed since the last one written
    file,      \* age of the heartbeat file
    killIn,    \* seconds until the process manager kills
    stopped,   \* the process manager was told to stop the bot
    how,       \* how the last process ended
    launches   \* processes started

vars == <<pc, left, ops, attempt, shutdown, since, ours, serving, due, wrote, fails,
          file, killIn, stopped, how, launches>>

manager == <<killIn, stopped, launches>>
heart == <<due, wrote, fails, file>>
flags == <<shutdown, since>>

Init ==
    /\ pc = "off" /\ left = 0 /\ ops = 0 /\ attempt = 1 /\ shutdown = FALSE /\ since = 0
    /\ ours = FALSE /\ serving = FALSE /\ due = Off /\ wrote = FALSE /\ fails = 0 /\ file = NoFile
    /\ killIn = Never /\ stopped = FALSE /\ how = "none" /\ launches = 0

-----------------------------------------------------------------------------
(* The process.                                                            *)

\* The process is gone, and what it held with it; the file stays.
End(h) ==
    /\ pc' = "off" /\ how' = h /\ serving' = FALSE /\ ours' = FALSE
    /\ due' = Off /\ wrote' = FALSE /\ fails' = 0 /\ killIn' = Never
    /\ left' = 0 /\ ops' = 0 /\ attempt' = 1 /\ shutdown' = FALSE /\ since' = 0
    /\ UNCHANGED <<stopped, launches>>

\* run: the handlers are set, then the health server binds its port.
Launch ==
    /\ pc = "off" /\ ~stopped /\ launches < MaxLaunches
    /\ pc' = "bind" /\ ours' = TRUE /\ launches' = launches + 1 /\ how' = "none"
    /\ UNCHANGED <<left, ops, attempt, flags, serving, heart, killIn, stopped>>

\* An attempt of the request.
Get == pc' = "get" /\ left' = NodeTimeout /\ ops' = MoreOps

\* What the loop comes to when it is over, and the sleep at the end of a round.
Leave == pc' = "leave" /\ left' = 0 /\ ops' = 0
Nap == pc' = "nap" /\ left' = LoopSleep /\ ops' = 0 /\ attempt' = 1

\* The condition of the while loop.
ToLoop == IF shutdown THEN Leave ELSE Get

\* The server listens, the client is made and the heartbeat task created.
Bound ==
    /\ pc = "bind" /\ serving' = TRUE /\ due' = 0
    /\ ToLoop
    /\ UNCHANGED <<attempt, flags, ours, wrote, fails, file, manager, how>>

\* The port is taken: the exception passes main, which exits with 1.
BindFails == pc = "bind" /\ End("error") /\ UNCHANGED file

\* The node takes or sends some bytes: the client waits for the next operation
\* as long again, and no limit holds for them all.
NodeProgresses ==
    /\ pc = "get" /\ ops > 0 /\ ops' = ops - 1 /\ left' = NodeTimeout
    /\ UNCHANGED <<pc, attempt, flags, ours, serving, heart, manager, how>>

\* The round is over; before it sleeps the loop looks at the flag.
NodeAnswers ==
    /\ pc = "get"
    /\ IF shutdown THEN Leave /\ attempt' = 1 ELSE Nap
    /\ UNCHANGED <<flags, ours, serving, heart, manager, how>>

\* Variant: the number of attempts has no limit.
Retry_NoLimit ==
    /\ pc' = "backoff" /\ left' = RetryWait(attempt) /\ ops' = 0 /\ UNCHANGED attempt
    /\ UNCHANGED <<flags, ours, serving, heart, manager, how>>

\* A retryable error: another attempt after a pause, or the error of the round,
\* after which the handler of the loop sleeps without a look at the flag.
Retry ==
    /\ IF attempt < Attempts
       THEN pc' = "backoff" /\ left' = RetryWait(attempt) /\ ops' = 0 /\ UNCHANGED attempt
       ELSE Nap
    /\ UNCHANGED <<flags, ours, serving, heart, manager, how>>

\* ConnectError, 500, 502, 503 at any moment; the timeout of an operation
\* when it is due.
NodeIsDown == pc = "get" /\ Retry
NodeTimesOut == pc = "get" /\ left = 0 /\ Retry

\* Any other error is not retried.
NodeRefuses ==
    /\ pc = "get" /\ Nap
    /\ UNCHANGED <<flags, ours, serving, heart, manager, how>>

TryAgain ==
    /\ pc = "backoff" /\ left = 0
    /\ Get /\ attempt' = attempt + 1
    /\ UNCHANGED <<flags, ours, serving, heart, manager, how>>

Wake ==
    /\ pc = "nap" /\ left = 0 /\ ToLoop
    /\ UNCHANGED <<attempt, flags, ours, serving, heart, manager, how>>

\* Variant: the file is removed and the task runs on.
CancelHeartbeat_RemovesOnly ==
    /\ pc = "leave" /\ file' = NoFile /\ pc' = "cleanup" /\ left' = CleanupTime
    /\ UNCHANGED <<ops, attempt, flags, ours, serving, due, wrote, fails, manager, how>>

\* Variant: the task is awaited and never told to end.
CancelHeartbeat_Joins ==
    /\ pc = "leave" /\ pc' = "join"
    /\ UNCHANGED <<left, ops, attempt, flags, ours, serving, heart, manager, how>>

\* The finally of run: a cancelled task does nothing more, wherever it was.
CancelHeartbeat ==
    /\ pc = "leave" /\ pc' = "join" /\ due' = Off /\ wrote' = FALSE /\ fails' = 0
    /\ UNCHANGED <<left, ops, attempt, flags, ours, serving, file, manager, how>>

\* The task has ended, and its file is removed.
RemoveFile ==
    /\ pc = "join" /\ due = Off /\ file' = NoFile /\ pc' = "cleanup" /\ left' = CleanupTime
    /\ UNCHANGED <<ops, attempt, flags, ours, serving, due, wrote, fails, manager, how>>

\* The file cannot be removed: the rest of the finally is skipped.
UnlinkFails ==
    /\ pc = "join" /\ due = Off /\ file # NoFile /\ pc' = "fail"
    /\ UNCHANGED <<left, ops, attempt, flags, ours, serving, heart, manager, how>>

StopHealth ==
    /\ pc = "cleanup" /\ serving' = FALSE /\ ours' = FALSE /\ pc' = "close" /\ left' = 0
    /\ UNCHANGED <<ops, attempt, flags, heart, manager, how>>

\* The client is closed, and main returns or exits with 1.
Exit == /\ pc \in {"close", "fail"}
        /\ End(IF pc = "close" THEN "clean" ELSE "error")
        /\ UNCHANGED file

\* The heartbeat task.
Beat == /\ due = 0
        /\ file' = 0 /\ fails' = 0 /\ due' = BeatInterval /\ wrote' = TRUE
        /\ UNCHANGED <<pc, left, ops, attempt, flags, ours, serving, manager, how>>

\* Variant: an error ends the task.
BeatFails_Breaks ==
    /\ due = 0 /\ fails < MaxFails
    /\ due' = Off /\ fails' = fails + 1
    /\ UNCHANGED <<pc, left, ops, attempt, flags, ours, serving, wrote, file, manager, how>>

\* A write that fails is tried again after a second.
BeatFails ==
    /\ due = 0 /\ fails < MaxFails
    /\ due' = 1 /\ fails' = fails + 1
    /\ UNCHANGED <<pc, left, ops, attempt, flags, ours, serving, wrote, file, manager, how>>

-----------------------------------------------------------------------------
(* The process manager, the operator and the clock.                        *)

\* SIGINT or SIGTERM: the handler sets the flag; before it is set and after it
\* is restored, the signal ends the process.  kill: SIGKILL is to follow.
Signal(kill) ==
    /\ pc # "off"
    /\ IF ours
       THEN /\ shutdown' = TRUE
            /\ killIn' = IF kill /\ killIn = Never THEN KillTimeout ELSE killIn
            /\ UNCHANGED <<pc, left, ops, attempt, since, ours, serving, heart, launches, how>>
       ELSE End("killed") /\ UNCHANGED file

\* pm2 stop; a signal of the operator or of a restart is followed by a launch.
Stop == ~stopped /\ Signal(TRUE) /\ stopped' = TRUE
Interrupt(kill) == Signal(kill) /\ stopped' = stopped

Kill == killIn = 0 /\ End("killed") /\ UNCHANGED file

\* Nothing may be due that happens in no time.
Due == \/ pc \in {"bind", "leave", "join", "close", "fail"}
       \/ pc \in {"get", "backoff", "nap", "cleanup"} /\ left = 0
       \/ due = 0
       \/ killIn = 0

Older(n) == IF n > 0 THEN n - 1 ELSE n

Tick == /\ pc # "off" /\ ~Due
        /\ left' = Older(left) /\ due' = Older(due)
        /\ killIn' = Older(killIn)
        /\ since' = IF shutdown THEN since + 1 ELSE since
        /\ file' = IF wrote THEN file + 1 ELSE file
        /\ UNCHANGED <<pc, ops, attempt, shutdown, ours, serving, wrote, fails, stopped, how, launches>>

Run == \/ Bound \/ BindFails \/ NodeProgresses \/ NodeAnswers \/ NodeIsDown \/ NodeTimesOut
       \/ NodeRefuses \/ TryAgain \/ Wake
       \/ CancelHeartbeat \/ RemoveFile \/ UnlinkFails \/ StopHealth \/ Exit

Next == \/ Launch \/ Run \/ Beat \/ BeatFails
        \/ Stop \/ (\E kill \in BOOLEAN : Interrupt(kill)) \/ Kill \/ Tick

Spec == Init /\ [][Next]_vars

\* The event loop runs what is due, time passes and the manager keeps its time.
Timely == (Due /\ Run) \/ Kill \/ Tick
FairSpec == Spec /\ WF_vars(Timely) /\ WF_vars(Beat)

-----------------------------------------------------------------------------
Stages == {"off", "bind", "get", "backoff", "nap", "leave", "join", "fail", "cleanup", "close"}

FlagTypes == {shutdown, ours, serving, wrote, stopped} \subseteq BOOLEAN

NumberTypes ==
    /\ pc \in Stages /\ left \in Nat /\ ops \in 0..MoreOps /\ attempt \in 1..Attempts /\ since \in Nat
    /\ due \in Nat \cup {Off} /\ fails \in Nat /\ file \in Nat \cup {NoFile}
    /\ killIn \in Nat \cup {Never} /\ launches \in Nat
    /\ how \in {"none", "clean", "error", "killed"}

TypeOK == FlagTypes /\ NumberTypes

(* A bot whose heartbeat has begun has a file no older than the interval and  *)
(* the seconds its failed writes cost: neither an unreachable node nor a      *)
(* round that retries for minutes, nor an error of the task, ages it.         *)
HeartbeatIsFresh ==
    (pc \in {"get", "backoff", "nap"} /\ wrote) =>
        due # Off /\ file \in 0 .. BeatInterval + fails

(* A bot that ended by itself without an error leaves no heartbeat file that  *)
(* would report it alive, and while it leaves, nothing writes the file again. *)
GoneLeavesNoFile ==
    (pc \in {"cleanup", "close"} \/ (pc = "off" /\ how = "clean")) => file = NoFile

\* What n more operations of an attempt take at most, and an attempt.
Rest(n) == n * NodeTimeout
Request == NodeTimeout + Rest(MoreOps)

\* What follows the n-th attempt of a request if it fails, as do the others.
After(n) == CASE n = 1 -> RetryWait(1) + Request + RetryWait(2) + Request
              [] n = 2 -> RetryWait(2) + Request
              [] n = 3 -> 0

\* The longest the process still runs once it was asked to stop.
Remaining ==
    CASE pc = "get" -> left + Rest(ops) + After(attempt) + LoopSleep + CleanupTime
      [] pc = "backoff" -> left + Request + After(attempt + 1) + LoopSleep + CleanupTime
      [] pc = "nap" -> left + CleanupTime
      [] pc \in {"bind", "leave", "join"} -> CleanupTime
      [] pc = "cleanup" -> left
      [] OTHER -> 0

LongestLeave == Request + After(1) + LoopSleep + CleanupTime

(* From the signal the bot runs on for at most one request of three attempts, *)
(* the pauses between them, one sleep and the cleanup.  An attempt lasts as   *)
(* many timeouts as the node begins operations of it: the client sets no      *)
(* limit of its own, so the bound grows with MoreOps.                         *)
StopTakesOneRound == since <= LongestLeave

(* No round begins once the bot was asked to stop.                            *)
NoNewRound ==
    [][(shutdown /\ pc' = "get" /\ pc # "get") => pc = "backoff"]_vars

\* The inductive invariant.
LeftIsBounded ==
    /\ pc = "get" => left <= NodeTimeout
    /\ pc = "backoff" => left <= RetryWait(attempt) /\ attempt < Attempts
    /\ pc = "nap" => left <= LoopSleep
    /\ pc = "cleanup" => left <= CleanupTime

LeavesInTime ==
    /\ since + Remaining <= LongestLeave \/ since = 0
    /\ ~shutdown => since = 0 /\ killIn = Never
    /\ killIn # Never => killIn + since >= KillTimeout
    /\ pc = "off" => ~shutdown

HeartBeats ==
    /\ pc \in {"get", "backoff", "nap"} => due # Off
    /\ pc \notin {"get", "backoff", "nap", "leave"} => due = Off /\ ~wrote
    /\ wrote => file # NoFile /\ file + due <= BeatInterval + fails

IInv == TypeOK /\ LeftIsBounded /\ LeavesInTime /\ HeartBeats /\ GoneLeavesNoFile

(* A bot that was asked to stop ends, with or without a manager that kills.   *)
StopEnds == shutdown ~> pc = "off"

=============================================================================
