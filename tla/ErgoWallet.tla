----------------------------- MODULE ErgoWallet -----------------------------
(***************************************************************************)
(* The wallet of the page: frontend/src/wallet/useErgoWallet.ts with the   *)
(* selection of useWalletManager.ts, the sessions that                     *)
(* useWalletSessionPersistence.ts keeps in localStorage, and the buttons   *)
(* of components/WalletConnector.tsx.                                      *)
(*                                                                         *)
(* Clicks, effects and timers start asynchronous calls that all write one  *)
(* React state; an action is the code of a call between two awaits.  A     *)
(* call keeps the wallet key of the render it was started in, whatever is  *)
(* selected when it goes on.  An address, a balance and a context stand    *)
(* for the wallet they came from; what an extension answers is open, since *)
(* its user may grant, revoke, lock and unlock at any time.                *)
(***************************************************************************)
EXTENDS FiniteSets

CONSTANTS
    Wallets,    \* KNOWN_WALLETS
    Installed,  \* those whose extension injects itself into the page in time
    None,       \* no wallet, context or timer
    Connects,   \* calls of connect that may overlap
    Restores,   \* runs of the restore effect that may overlap
    Ticks,      \* ticks of the reconnect interval that may overlap
    Leaves,     \* calls of disconnect that may overlap
    Refreshes   \* calls of refreshBalance that may overlap

ASSUME WalletAssumption ==
    Installed \subseteq Wallets /\ None \notin Wallets \cup Connects

VARIABLES
    selected,   \* walletKey: useWalletManager.selectedWallet
    shown,      \* the React state: connected, connecting, locked, wallet
    ergo,       \* the wallet of the EIP-12 context, or None
    guard,      \* connectGuard.current
    timer,      \* connectTimer.current: the call whose timeout it holds
    armed,      \* the calls whose 30 s timeout is running
    lastError,  \* lastError.current is set
    sessions,   \* the wallets with a session in localStorage
    call,       \* [Connects -> [pc, wallet]]
    restore,    \* [Restores -> [pc, wallet, cancelled, persisted]]
    tick,       \* [Ticks -> [pc, wallet]]
    leave,      \* [Leaves -> [pc, wallet]]
    refresh     \* [Refreshes -> BOOLEAN]: awaiting the balance

page == <<selected, shown, ergo, guard, timer, armed, lastError>>
others == <<tick, leave, refresh>>
vars == <<page, sessions, call, restore, others>>

Disconnected ==
    [connected |-> FALSE, connecting |-> FALSE, locked |-> FALSE, wallet |-> None]

Idle == [pc |-> "idle", wallet |-> None]
NoRestore == [pc |-> "idle", wallet |-> None, cancelled |-> FALSE, persisted |-> FALSE]

\* Stages of connect: where it owes the page the end of the spinner, and where
\* its finally block is still to come.
Connecting == {"preflight", "checking", "fastGetting", "fastReading", "popup", "getting",
               "reading"}
Guarded == {"popup", "getting", "reading", "refusing"}
ConnectStages == {"idle", "scheduled", "waiting", "resetting", "fastRefusing"}
                 \cup Connecting \cup Guarded

Init ==
    /\ selected = None
    /\ shown = Disconnected
    /\ ergo = None
    /\ guard = FALSE /\ timer = None /\ armed = {} /\ lastError = FALSE
    /\ sessions \in SUBSET Wallets
    /\ call = [c \in Connects |-> Idle]
    /\ restore = [r \in Restores |-> NoRestore]
    /\ tick = [t \in Ticks |-> Idle]
    /\ leave = [d \in Leaves |-> Idle]
    /\ refresh = [f \in Refreshes |-> FALSE]

-----------------------------------------------------------------------------
(* Selecting a wallet.                                                     *)

\* The effects of a new walletKey: the running restore is cancelled, the page
\* is reset, and the session of the new wallet is restored.
Effects(w) ==
    /\ selected' = w
    /\ ergo' = None
    /\ shown' = Disconnected
    /\ lastError' = FALSE /\ guard' = FALSE
    /\ timer' = None /\ armed' = armed \ {timer}
    /\ \E r \in Restores :
          /\ restore[r].pc = "idle"
          /\ restore' = [q \in Restores |->
                IF q = r
                THEN [pc |-> "waiting", wallet |-> w, cancelled |-> FALSE, persisted |-> FALSE]
                ELSE IF restore[q].pc = "idle" THEN restore[q]
                ELSE [restore[q] EXCEPT !.cancelled = TRUE]]
    /\ UNCHANGED <<sessions, others>>

\* selectWallet, from the connected switcher, the automatic selection or the
\* stored preference, which is restored at the start: only that one may name
\* a wallet whose extension is gone.
Select(w) ==
    /\ w # selected
    /\ w \in Installed \/ selected = None
    /\ Effects(w)
    /\ UNCHANGED call

\* handleSelectWallet selects and calls connect 100 ms later: the connect of
\* the render it was clicked in, which is bound to the wallet selected before.
SelectAndConnect(w, c) ==
    /\ w \in Installed
    /\ call[c] = Idle
    /\ call' = [call EXCEPT ![c] = [pc |-> "scheduled", wallet |-> selected]]
    /\ IF w # selected THEN Effects(w)
       ELSE UNCHANGED <<page, sessions, restore, others>>

-----------------------------------------------------------------------------
(* connect.                                                                *)

Goto(c, stage) == call' = [call EXCEPT ![c].pc = stage]
Return(c) == call' = [call EXCEPT ![c] = Idle]
StopConnecting == shown' = [shown EXCEPT !.connecting = FALSE]

Show(w) == shown' = [connected |-> TRUE, connecting |-> FALSE, locked |-> FALSE, wallet |-> w]

\* connect up to its first await.  A running connect that has reached its
\* popup makes it a no-op; the timeout of any other is cleared.
Enter(c, w) ==
    /\ \/ /\ guard \/ w = None
          /\ Return(c)
          /\ UNCHANGED <<timer, armed>>
       \/ /\ ~guard /\ w # None
          /\ call' = [call EXCEPT ![c] = [pc |-> "waiting", wallet |-> w]]
          /\ timer' = None /\ armed' = armed \ {timer}
    /\ UNCHANGED <<selected, shown, ergo, guard, lastError, sessions, restore, others>>

Click(c) == call[c] = Idle /\ Enter(c, selected)

Scheduled(c) == call[c].pc = "scheduled" /\ Enter(c, call[c].wallet)

Begin(c) ==
    /\ Goto(c, "preflight")
    /\ shown' = [shown EXCEPT !.connecting = TRUE]
    /\ lastError' = FALSE

\* waitForConnector: without the extension the call ends with an error.
Found(c) ==
    /\ call[c].pc = "waiting"
    /\ \/ /\ call[c].wallet \in Installed /\ ~lastError
          /\ Begin(c)
       \/ /\ call[c].wallet \in Installed /\ lastError
          /\ Goto(c, "resetting")
          /\ UNCHANGED <<shown, lastError>>
       \/ /\ call[c].wallet \notin Installed
          /\ Return(c)
          /\ UNCHANGED <<shown, lastError>>
    /\ UNCHANGED <<selected, ergo, guard, timer, armed, sessions, restore, others>>

\* After an error the extension is disconnected first; that may fail.
Reset(c) ==
    /\ call[c].pc = "resetting"
    /\ Begin(c)
    /\ UNCHANGED <<selected, ergo, guard, timer, armed, sessions, restore, others>>

\* The extension answers, or does not within five seconds, or reports an error.
Preflight(c) ==
    /\ call[c].pc = "preflight"
    /\ \/ Goto(c, "checking") /\ UNCHANGED <<shown, lastError>>
       \/ Return(c) /\ StopConnecting /\ lastError' \in {lastError, TRUE}
    /\ UNCHANGED <<selected, ergo, guard, timer, armed, sessions, restore, others>>

\* The full flow: the guard is set and the popup opened, with a timeout.
OpenPopup(c) ==
    /\ Goto(c, "popup")
    /\ guard' = TRUE
    /\ timer' = c /\ armed' = armed \cup {c}

\* isConnected, where an error counts as no.
Check(c) ==
    /\ call[c].pc = "checking"
    /\ \/ Goto(c, "fastGetting") /\ UNCHANGED <<guard, timer, armed>>
       \/ OpenPopup(c)
    /\ UNCHANGED <<selected, shown, ergo, lastError, sessions, restore, others>>

\* The fast path: a context that cannot be had or read falls back to the popup.
FastGet(c) ==
    /\ call[c].pc = "fastGetting"
    /\ \/ ergo' = call[c].wallet /\ Goto(c, "fastReading") /\ UNCHANGED <<guard, timer, armed>>
       \/ OpenPopup(c) /\ UNCHANGED ergo
    /\ UNCHANGED <<selected, shown, lastError, sessions, restore, others>>

FastRead(c) ==
    /\ call[c].pc = "fastReading"
    /\ \/ Show(call[c].wallet) /\ Return(c) /\ UNCHANGED <<guard, timer, armed>>
       \/ StopConnecting /\ Goto(c, "fastRefusing") /\ UNCHANGED <<guard, timer, armed>>
       \/ OpenPopup(c) /\ UNCHANGED shown
    /\ UNCHANGED <<selected, ergo, lastError, sessions, restore, others>>

\* The wallet is on another network: disconnect it, and drop the context.
FastRefuse(c) ==
    /\ call[c].pc = "fastRefusing"
    /\ \/ /\ ergo' = None
          /\ Return(c)
          /\ UNCHANGED <<guard, timer, armed>>
       \/ OpenPopup(c) /\ UNCHANGED ergo
    /\ UNCHANGED <<selected, shown, lastError, sessions, restore, others>>

\* Mutant: the finally block is missing.
Fail_NoFinally(c) ==
    /\ StopConnecting
    /\ lastError' = TRUE
    /\ UNCHANGED guard
    /\ Return(c)

\* The catch and finally blocks of the full flow.
Fail(c) ==
    /\ StopConnecting
    /\ lastError' = TRUE
    /\ guard' = FALSE
    /\ Return(c)

\* The user approves.  Whatever timeout connectTimer holds is cleared.
Approve(c) ==
    /\ call[c].pc = "popup"
    /\ timer' = None /\ armed' = armed \ {timer, c}
    /\ Goto(c, "getting")
    /\ UNCHANGED <<selected, shown, ergo, guard, lastError, sessions, restore, others>>

\* Mutant: a declined popup leaves the spinner on.
Decline_StillConnecting(c) ==
    /\ call[c].pc = "popup"
    /\ timer' = None /\ armed' = armed \ {timer, c}
    /\ guard' = FALSE
    /\ Return(c)
    /\ UNCHANGED <<selected, shown, ergo, lastError, sessions, restore, others>>

Decline(c) ==
    /\ call[c].pc = "popup"
    /\ timer' = None /\ armed' = armed \ {timer, c}
    /\ StopConnecting
    /\ guard' = FALSE
    /\ Return(c)
    /\ UNCHANGED <<selected, ergo, lastError, sessions, restore, others>>

\* Mutant: the reference to the timeout is kept.
LoseRace_TimerKept(c) ==
    /\ call[c].pc = "popup"
    /\ armed' = armed \ {c}
    /\ Fail(c)
    /\ UNCHANGED <<selected, ergo, timer, sessions, restore, others>>

\* The race is lost: the timeout fires, or connect() of the extension raises.
\* The reference is dropped, whosever timeout it holds, and that one runs on.
LoseRace(c) ==
    /\ call[c].pc = "popup"
    /\ timer' = None /\ armed' = armed \ {c}
    /\ Fail(c)
    /\ UNCHANGED <<selected, ergo, sessions, restore, others>>

TimeOut(c) == c \in armed /\ LoseRace(c)

Get(c) ==
    /\ call[c].pc = "getting"
    /\ \/ ergo' = call[c].wallet /\ Goto(c, "reading") /\ UNCHANGED <<shown, lastError, guard>>
       \/ Fail(c) /\ UNCHANGED ergo
    /\ UNCHANGED <<selected, timer, armed, sessions, restore, others>>

\* Address, balance and boxes are read; the session is saved when the network
\* is the expected one.
Read(c) ==
    /\ call[c].pc = "reading"
    /\ \/ /\ Show(call[c].wallet)
          /\ sessions' = sessions \cup {call[c].wallet}
          /\ guard' = FALSE
          /\ Return(c)
          /\ UNCHANGED lastError
       \/ StopConnecting /\ Goto(c, "refusing") /\ UNCHANGED <<sessions, guard, lastError>>
       \/ Fail(c) /\ UNCHANGED sessions
    /\ UNCHANGED <<selected, ergo, timer, armed, restore, others>>

Refuse(c) ==
    /\ call[c].pc = "refusing"
    /\ \/ /\ ergo' = None
          /\ guard' = FALSE
          /\ Return(c)
          /\ UNCHANGED <<shown, lastError>>
       \/ Fail(c) /\ UNCHANGED ergo
    /\ UNCHANGED <<selected, timer, armed, sessions, restore, others>>

-----------------------------------------------------------------------------
(* The restore effect.                                                     *)

EndRestore(r) == restore' = [restore EXCEPT ![r] = NoRestore]
Forget(w) == sessions' = sessions \ {w}

\* A stored session is shown before the wallet is asked.
ShowSession(r) ==
    LET w == restore[r].wallet IN
    /\ restore[r].pc = "waiting"
    /\ \/ /\ restore[r].cancelled \/ w \notin Installed
          /\ EndRestore(r)
          /\ UNCHANGED shown
       \/ /\ ~restore[r].cancelled /\ w \in Installed
          /\ restore' = [restore EXCEPT ![r].pc = "checking", ![r].persisted = w \in sessions]
          /\ shown' = IF w \in sessions
                      THEN [shown EXCEPT !.connected = TRUE, !.locked = FALSE, !.wallet = w]
                      ELSE shown
    /\ UNCHANGED <<selected, ergo, guard, timer, armed, lastError, sessions, call, others>>

\* The wallet is asked.  A restore that was cancelled meanwhile, or whose
\* wallet says no, takes back the session it showed.
CheckSession(r) ==
    LET w == restore[r].wallet IN
    /\ restore[r].pc = "checking"
    /\ \/ /\ ~restore[r].cancelled
          /\ restore' = [restore EXCEPT ![r].pc = "getting"]
          /\ UNCHANGED <<shown, sessions>>
       \/ /\ IF restore[r].persisted
             THEN /\ Forget(w)
                  /\ shown' = [shown EXCEPT !.connected = FALSE, !.locked = FALSE, !.wallet = None]
             ELSE UNCHANGED <<shown, sessions>>
          /\ EndRestore(r)
       \/ Forget(w) /\ EndRestore(r) /\ UNCHANGED shown
    /\ UNCHANGED <<selected, ergo, guard, timer, armed, lastError, call, others>>

\* Mutant: the flag is not looked at after the await.
GetContext_Cancelled(r) ==
    LET w == restore[r].wallet IN
    /\ restore[r].pc = "getting"
    /\ \/ /\ ergo' = w
          /\ restore' = [restore EXCEPT ![r].pc = "reading"]
          /\ UNCHANGED sessions
       \/ EndRestore(r) /\ UNCHANGED <<ergo, sessions>>
       \/ Forget(w) /\ EndRestore(r) /\ UNCHANGED ergo
    /\ UNCHANGED <<selected, shown, guard, timer, armed, lastError, call, others>>

GetContext(r) ==
    LET w == restore[r].wallet IN
    /\ restore[r].pc = "getting"
    /\ \/ /\ ~restore[r].cancelled
          /\ ergo' = w
          /\ restore' = [restore EXCEPT ![r].pc = "reading"]
          /\ UNCHANGED sessions
       \/ EndRestore(r) /\ UNCHANGED <<ergo, sessions>>
       \/ Forget(w) /\ EndRestore(r) /\ UNCHANGED ergo
    /\ UNCHANGED <<selected, shown, guard, timer, armed, lastError, call, others>>

ReadContext(r) ==
    LET w == restore[r].wallet IN
    /\ restore[r].pc = "reading"
    /\ EndRestore(r)
    /\ \/ /\ ~restore[r].cancelled
          /\ shown' = [shown EXCEPT !.connected = TRUE, !.locked = FALSE, !.wallet = w]
          /\ sessions' = sessions \cup {w}
       \/ restore[r].cancelled /\ UNCHANGED <<shown, sessions>>
       \/ Forget(w) /\ UNCHANGED shown
    /\ UNCHANGED <<selected, ergo, guard, timer, armed, lastError, call, others>>

-----------------------------------------------------------------------------
(* The reconnect interval, disconnect and refreshBalance.                  *)

\* The interval runs while the effect's conditions hold.
Polling == selected # None /\ shown.locked /\ ~shown.connected

StartTick(t) ==
    /\ Polling /\ tick[t] = Idle
    /\ tick' = [tick EXCEPT ![t] = [pc |-> "checking", wallet |-> selected]]
    /\ UNCHANGED <<page, sessions, call, restore, leave, refresh>>

TickStep(t) ==
    /\ \/ /\ tick[t].pc = "checking"
          /\ tick' = [tick EXCEPT ![t].pc = "getting"]
          /\ UNCHANGED <<ergo, shown>>
       \/ /\ tick[t].pc = "getting"
          /\ ergo' = tick[t].wallet
          /\ tick' = [tick EXCEPT ![t].pc = "reading"]
          /\ UNCHANGED shown
       \/ /\ tick[t].pc = "reading"
          /\ shown' = [shown EXCEPT !.connected = TRUE, !.locked = FALSE, !.wallet = tick[t].wallet]
          /\ tick' = [tick EXCEPT ![t] = Idle]
          /\ UNCHANGED ergo
       \/ /\ tick[t] # Idle
          /\ tick' = [tick EXCEPT ![t] = Idle]
          /\ UNCHANGED <<ergo, shown>>
    /\ UNCHANGED <<selected, guard, timer, armed, lastError, sessions, call, restore,
                   leave, refresh>>

\* disconnect, up to the answer of the extension and after it.
StartLeave(d) ==
    /\ leave[d] = Idle /\ selected # None
    /\ leave' = [leave EXCEPT ![d] = [pc |-> "leaving", wallet |-> selected]]
    /\ UNCHANGED <<page, sessions, call, restore, tick, refresh>>

FinishLeave(d) ==
    /\ leave[d] # Idle
    /\ Forget(leave[d].wallet)
    /\ ergo' = None
    /\ shown' = Disconnected
    /\ leave' = [leave EXCEPT ![d] = Idle]
    /\ UNCHANGED <<selected, guard, timer, armed, lastError, call, restore, tick, refresh>>

StartRefresh(f) ==
    /\ ergo # None /\ shown.connected /\ ~refresh[f]
    /\ refresh' = [refresh EXCEPT ![f] = TRUE]
    /\ UNCHANGED <<page, sessions, call, restore, tick, leave>>

\* Code -3 tells that the wallet is locked.
FinishRefresh(f) ==
    /\ refresh[f]
    /\ shown' \in {shown, [shown EXCEPT !.locked = TRUE]}
    /\ refresh' = [refresh EXCEPT ![f] = FALSE]
    /\ UNCHANGED <<selected, ergo, guard, timer, armed, lastError, sessions, call,
                   restore, tick, leave>>

-----------------------------------------------------------------------------
(* The clock (external).                                                   *)

\* A session is older than SESSION_DURATION_MS.
Expire(w) ==
    /\ Forget(w)
    /\ UNCHANGED <<page, call, restore, others>>

-----------------------------------------------------------------------------

ConnectStep(c) ==
    \/ Scheduled(c) \/ Found(c) \/ Reset(c) \/ Preflight(c) \/ Check(c)
    \/ FastGet(c) \/ FastRead(c) \/ FastRefuse(c)
    \/ Get(c) \/ Read(c) \/ Refuse(c)

RestoreStep(r) == ShowSession(r) \/ CheckSession(r) \/ GetContext(r) \/ ReadContext(r)

\* What happens without the user of the page.
Background ==
    \/ \E c \in Connects : ConnectStep(c) \/ Approve(c) \/ Decline(c) \/ LoseRace(c)
    \/ \E r \in Restores : RestoreStep(r)
    \/ \E t \in Ticks : StartTick(t) \/ TickStep(t)
    \/ \E d \in Leaves : FinishLeave(d)
    \/ \E f \in Refreshes : StartRefresh(f) \/ FinishRefresh(f)
    \/ \E w \in Wallets : Expire(w)

Next ==
    \/ Background
    \/ \E w \in Wallets : Select(w) \/ \E c \in Connects : SelectAndConnect(w, c)
    \/ \E c \in Connects : Click(c)
    \/ \E d \in Leaves : StartLeave(d)

Spec == Init /\ [][Next]_vars

\* A user who acts only while nothing is under way, and picks a wallet from
\* the connected switcher.
Quiet ==
    /\ \A c \in Connects : call[c] = Idle
    /\ \A r \in Restores : restore[r] = NoRestore
    /\ \A t \in Ticks : tick[t] = Idle
    /\ \A d \in Leaves : leave[d] = Idle

PatientNext ==
    \/ Background
    \/ /\ Quiet
       /\ \/ \E w \in Wallets : Select(w)
          \/ \E c \in Connects : Click(c)
          \/ \E d \in Leaves : StartLeave(d)

PatientSpec == Init /\ [][PatientNext]_vars

\* The extension answers every call but the popup, which has its timeout.
Fairness ==
    \A c \in Connects : WF_vars(ConnectStep(c)) /\ WF_vars(TimeOut(c))

FairSpec == Spec /\ Fairness

-----------------------------------------------------------------------------
(* Properties.                                                             *)

Shown == [connected : BOOLEAN, connecting : BOOLEAN, locked : BOOLEAN,
          wallet : Wallets \cup {None}]
Call == [pc : ConnectStages, wallet : Wallets \cup {None}]
Restore == [pc : {"idle", "waiting", "checking", "getting", "reading"},
            wallet : Wallets \cup {None}, cancelled : BOOLEAN, persisted : BOOLEAN]
Running == [pc : {"idle", "checking", "getting", "reading", "leaving"},
            wallet : Wallets \cup {None}]

TypeOK ==
    /\ selected \in Wallets \cup {None}
    /\ shown \in Shown
    /\ ergo \in Wallets \cup {None}
    /\ guard \in BOOLEAN /\ lastError \in BOOLEAN
    /\ timer \in Connects \cup {None} /\ armed \subseteq Connects
    /\ sessions \subseteq Wallets
    /\ call \in [Connects -> Call] /\ restore \in [Restores -> Restore]
    /\ tick \in [Ticks -> Running] /\ leave \in [Leaves -> Running]
    /\ refresh \in [Refreshes -> BOOLEAN]

\* The spinner never outlives the calls: while "Waiting for ..." is shown a
\* connect is under way that will take it away.
ConnectingIsBacked == shown.connecting => \E c \in Connects : call[c].pc \in Connecting

\* The same for the guard that turns further clicks away.
GuardIsBacked == guard => \E c \in Connects : call[c].pc \in Guarded

\* connectTimer holds the timeout of a connect that is in its popup.
TimerIsOfAPopup == timer # None => call[timer].pc = "popup" /\ timer \in armed

\* A restore that is not cancelled works for the selected wallet.
RestoreIsCurrent ==
    \A r \in Restores : restore[r].pc # "idle" /\ ~restore[r].cancelled
                        => restore[r].wallet = selected

\* What is under way is under way for a wallet.
WorkIsOfAWallet ==
    /\ \A c \in Connects : call[c].pc \notin {"idle", "scheduled"} => call[c].wallet # None
    /\ \A r \in Restores : restore[r].pc # "idle" => restore[r].wallet # None

\* The inductive invariant of every user.
IInv ==
    /\ TypeOK
    /\ ConnectingIsBacked
    /\ GuardIsBacked
    /\ TimerIsOfAPopup
    /\ RestoreIsCurrent
    /\ WorkIsOfAWallet

\* However restores of several wallets overlap, the context that one of them
\* installs is that of the wallet selected at that moment.
RestoreInstallsTheSelected ==
    [][\A r \in Restores : restore[r].pc = "getting" /\ restore'[r].pc = "reading"
          => ergo' = selected]_vars

\* The user always gets the button back: no order of clicks, switches and
\* answers clears the timeout of the popup the spinner waits for, nor leaves
\* the guard set, after which every click would be ignored.
ConnectsEnd ==
    /\ shown.connecting ~> ~shown.connecting
    /\ guard ~> ~guard

\* With a user who waits, the page shows and signs with the selected
\* wallet only, although restores, the interval and refreshes run by themselves.
PageIsOfTheSelected ==
    /\ ergo \in {None, selected}
    /\ shown.connected => shown.wallet = selected /\ selected # None

\* The inductive invariant of the patient user: whatever is under way was
\* started for the wallet that is selected.
PatientInv ==
    /\ TypeOK
    /\ PageIsOfTheSelected
    /\ \A c \in Connects : call[c].pc # "idle" => call[c].wallet = selected /\ selected # None
    /\ \A r \in Restores :
          restore[r].pc # "idle" => restore[r].wallet = selected /\ selected # None
    /\ \A t \in Ticks : tick[t].pc # "idle" => tick[t].wallet = selected /\ selected # None

-----------------------------------------------------------------------------
(* What a comment of useErgoWallet.ts says and the code does not do.        *)

\* "If the user switches wallets, disconnect the old one first": the context
\* of another wallet than the selected one is never installed.
ContextIsOfTheSelected == ergo \in {None, selected}

=============================================================================
