-------------------------- MODULE ErgoWalletProofs --------------------------
(***************************************************************************)
(* What TLC checks of ErgoWallet on two wallets, proved for any number of  *)
(* wallets and of overlapping calls.                                       *)
(*                                                                         *)
(* IInv is inductive for a user who clicks at any moment: a connect takes  *)
(* the spinner and the guard away before it leaves the stages that own     *)
(* them, and a new wallet key cancels every restore of another.            *)
(* PatientInv is inductive for one who waits: then whatever is under way   *)
(* belongs to the selected wallet, and so does what it shows.              *)
(***************************************************************************)
EXTENDS ErgoWallet, TLAPS

(* What the helpers of connect make of the page and of a call.             *)
LEMMA PageMoves ==
    ASSUME shown \in Shown
    PROVE  /\ StopConnecting => shown' \in Shown /\ ~shown'.connecting
           /\ \A w \in Wallets \cup {None} : Show(w) => shown' \in Shown /\ ~shown'.connecting
           /\ [shown EXCEPT !.connecting = TRUE] \in Shown
           /\ Disconnected \in Shown /\ ~Disconnected.connecting /\ ~Disconnected.connected
<1>1. StopConnecting => shown' \in Shown /\ ~shown'.connecting
  BY DEF Shown, StopConnecting
<1>2. ASSUME NEW w \in Wallets \cup {None}, Show(w)
      PROVE  shown' \in Shown /\ ~shown'.connecting
  BY <1>2 DEF Shown, Show
<1>3. [shown EXCEPT !.connecting = TRUE] \in Shown
  BY DEF Shown
<1>4. Disconnected \in Shown /\ ~Disconnected.connecting /\ ~Disconnected.connected
  BY DEF Shown, Disconnected
<1> QED
  BY <1>1, <1>2, <1>3, <1>4

(* What a restore, a tick or a refresh may write into the page leaves the  *)
(* spinner alone.                                                          *)
LEMMA PageWrites ==
    ASSUME shown \in Shown, NEW w \in Wallets \cup {None}
    PROVE  LET up == [shown EXCEPT !.connected = TRUE, !.locked = FALSE, !.wallet = w]
               down == [shown EXCEPT !.connected = FALSE, !.locked = FALSE, !.wallet = None]
               lock == [shown EXCEPT !.locked = TRUE]
           IN  /\ up \in Shown /\ up.connecting = shown.connecting /\ up.wallet = w
               /\ down \in Shown /\ down.connecting = shown.connecting /\ ~down.connected
               /\ lock \in Shown /\ lock.connecting = shown.connecting
               /\ lock.connected = shown.connected /\ lock.wallet = shown.wallet
  BY DEF Shown

(* One call moves; the others stay where they are.                         *)
Moves(c, stage, w) ==
    /\ call' \in [Connects -> Call]
    /\ call'[c].pc = stage /\ call'[c].wallet = w
    /\ \A d \in Connects \ {c} : call'[d] = call[d]

LEMMA CallMoves ==
    ASSUME call \in [Connects -> Call], NEW c \in Connects
    PROVE  /\ \A stage \in ConnectStages : Goto(c, stage) => Moves(c, stage, call[c].wallet)
           /\ Return(c) => Moves(c, "idle", None)
           /\ \A w \in Wallets \cup {None}, stage \in ConnectStages :
                 call' = [call EXCEPT ![c] = [pc |-> stage, wallet |-> w]] => Moves(c, stage, w)
           /\ call[c].wallet \in Wallets \cup {None}
           /\ call[c].pc \in ConnectStages
<1>1. call[c] \in Call
  OBVIOUS
<1>2. call[c].wallet \in Wallets \cup {None} /\ call[c].pc \in ConnectStages
  BY <1>1 DEF Call
<1>3. ASSUME NEW stage \in ConnectStages, Goto(c, stage)
      PROVE  Moves(c, stage, call[c].wallet)
  <2>1. [call[c] EXCEPT !.pc = stage] \in Call
    BY <1>1, <1>3 DEF Call
  <2>2. /\ [call[c] EXCEPT !.pc = stage].pc = stage
        /\ [call[c] EXCEPT !.pc = stage].wallet = call[c].wallet
    BY <1>1 DEF Call
  <2> QED
    BY <1>3, <2>1, <2>2 DEF Goto, Moves
<1>4. ASSUME NEW w \in Wallets \cup {None}, NEW stage \in ConnectStages,
             call' = [call EXCEPT ![c] = [pc |-> stage, wallet |-> w]]
      PROVE  Moves(c, stage, w)
  <2>1. [pc |-> stage, wallet |-> w] \in Call
    BY DEF Call
  <2> QED
    BY <1>4, <2>1 DEF Moves
<1>5. "idle" \in ConnectStages
  BY DEF ConnectStages
<1>6. ASSUME Return(c) PROVE Moves(c, "idle", None)
  BY <1>4, <1>5, <1>6 DEF Return, Idle
<1> QED
  BY <1>2, <1>3, <1>4, <1>6

(* The page starts disconnected, with nothing under way.                   *)
LEMMA InitInv == Init => IInv /\ PatientInv
<1> SUFFICES ASSUME Init PROVE IInv /\ PatientInv
  OBVIOUS
<1> USE DEF Init
<1>1. shown \in Shown /\ ~shown.connecting /\ ~shown.connected
  BY DEF Shown, Disconnected
<1>2. call \in [Connects -> Call]
  BY DEF Call, Idle, ConnectStages
<1>3. restore \in [Restores -> Restore] /\ \A r \in Restores : restore[r].pc = "idle"
  BY DEF Restore, NoRestore
<1>4. tick \in [Ticks -> Running] /\ leave \in [Leaves -> Running]
  BY DEF Running, Idle
<1>5. TypeOK
  BY <1>1, <1>2, <1>3, <1>4 DEF TypeOK
<1>6. \A c \in Connects : call[c].pc = "idle"
  BY DEF Idle
<1>7. \A t \in Ticks : tick[t].pc = "idle"
  BY DEF Idle
<1> QED
  BY <1>1, <1>3, <1>5, <1>6, <1>7
  DEF IInv, PatientInv, PageIsOfTheSelected, ConnectingIsBacked, GuardIsBacked,
      WorkIsOfAWallet,
      TimerIsOfAPopup, RestoreIsCurrent

(* The stages, spelled out.                                                *)
LEMMA Stages ==
    /\ Connecting \subseteq ConnectStages /\ Guarded \subseteq ConnectStages
    /\ {"idle", "scheduled", "waiting", "resetting", "fastRefusing"} \subseteq ConnectStages
    /\ "idle" \notin Guarded \cup Connecting
    /\ {"waiting", "resetting", "fastRefusing", "refusing"} \cap Connecting = {}
    /\ {"popup", "getting", "reading", "refusing"} = Guarded
  BY DEF ConnectStages, Connecting, Guarded

(* What a step of connect may do.  It takes the spinner away when it       *)
(* leaves the stages that owe it, releases the guard when it leaves its    *)
(* try block, and keeps connectTimer only for its own popup.               *)
ConnectAction(c) ==
    \/ Click(c) \/ ConnectStep(c) \/ Approve(c) \/ Decline(c) \/ LoseRace(c)

Keeps(c) ==
    /\ call' \in [Connects -> Call]
    /\ \A d \in Connects \ {c} : call'[d] = call[d]
    /\ call'[c].pc \notin {"idle", "scheduled"} => call'[c].wallet # None

KeepsSpinner(c) ==
    /\ shown' \in Shown
    /\ shown'.connecting => shown.connecting \/ call'[c].pc \in Connecting
    /\ call[c].pc \in Connecting /\ call'[c].pc \notin Connecting => ~shown'.connecting

KeepsGuard(c) ==
    /\ guard' \in BOOLEAN
    /\ guard' => guard \/ call'[c].pc \in Guarded
    /\ call[c].pc \in Guarded /\ call'[c].pc \notin Guarded => ~guard'

KeepsTimer(c) ==
    /\ armed' \subseteq Connects
    /\ \/ timer' = None
       \/ timer' = c /\ c \in armed' /\ call'[c].pc = "popup"
       \/ timer' = timer /\ armed' = armed /\ call[c].pc # "popup" /\ call'[c].pc # "popup"

KeepsRest ==
    /\ ergo' \in Wallets \cup {None} /\ lastError' \in BOOLEAN /\ sessions' \subseteq Wallets
    /\ UNCHANGED <<selected, restore, others>>

(* Every step of connect keeps what the parts above say.                   *)
LEMMA ConnectKeeps ==
    ASSUME IInv, NEW c \in Connects, ConnectAction(c)
    PROVE  Keeps(c) /\ KeepsSpinner(c) /\ KeepsGuard(c) /\ KeepsTimer(c) /\ KeepsRest
<1>1. /\ shown \in Shown /\ call \in [Connects -> Call]
      /\ selected \in Wallets \cup {None} /\ ergo \in Wallets \cup {None}
      /\ guard \in BOOLEAN /\ lastError \in BOOLEAN
      /\ armed \subseteq Connects /\ sessions \subseteq Wallets
  BY DEF IInv, TypeOK
<1>2. call[c].pc \notin {"idle", "scheduled"} => call[c].wallet # None
  BY DEF IInv, WorkIsOfAWallet
<1>3. /\ \A stage \in ConnectStages : Goto(c, stage) => Moves(c, stage, call[c].wallet)
      /\ Return(c) => Moves(c, "idle", None)
      /\ \A w \in Wallets \cup {None}, stage \in ConnectStages :
            call' = [call EXCEPT ![c] = [pc |-> stage, wallet |-> w]] => Moves(c, stage, w)
      /\ call[c].wallet \in Wallets \cup {None}
  BY <1>1, CallMoves
<1>4. /\ StopConnecting => shown' \in Shown /\ ~shown'.connecting
      /\ \A w \in Wallets \cup {None} : Show(w) => shown' \in Shown /\ ~shown'.connecting
      /\ [shown EXCEPT !.connecting = TRUE] \in Shown
  BY <1>1, PageMoves
<1>5. /\ Begin(c) => /\ Moves(c, "preflight", call[c].wallet)
                     /\ shown' \in Shown /\ lastError' = FALSE
      /\ OpenPopup(c) => /\ Moves(c, "popup", call[c].wallet)
                         /\ guard' = TRUE /\ timer' = c /\ armed' = armed \cup {c}
      /\ Fail(c) => /\ Moves(c, "idle", None)
                    /\ shown' \in Shown /\ ~shown'.connecting
                    /\ lastError' = TRUE /\ guard' = FALSE
  BY <1>3, <1>4, Stages DEF Begin, OpenPopup, Fail, Connecting, Guarded
<1>6. \/ \E w \in Wallets \cup {None} : Enter(c, w) /\ call[c].pc \in {"idle", "scheduled"}
      \/ Found(c) \/ Reset(c) \/ Preflight(c) \/ Check(c) \/ FastGet(c) \/ FastRead(c)
      \/ FastRefuse(c) \/ Approve(c) \/ Decline(c) \/ LoseRace(c) \/ Get(c) \/ Read(c) \/ Refuse(c)
  BY <1>1, <1>3 DEF ConnectAction, ConnectStep, Click, Scheduled, Idle
<1>7. ASSUME NEW w \in Wallets \cup {None}, Enter(c, w), call[c].pc \in {"idle", "scheduled"}
      PROVE  Keeps(c) /\ KeepsSpinner(c) /\ KeepsGuard(c) /\ KeepsTimer(c) /\ KeepsRest
  <2>1. Moves(c, "idle", None) \/ (w # None /\ Moves(c, "waiting", w))
    BY <1>3, <1>7 DEF Enter, ConnectStages
  <2>2. Keeps(c)
    BY <2>1 DEF Keeps, Moves
  <2>3. KeepsSpinner(c) /\ KeepsGuard(c) /\ KeepsTimer(c) /\ KeepsRest
    BY <1>1, <1>7, <2>1
    DEF Enter, Moves, Connecting, Guarded, KeepsSpinner, KeepsGuard, KeepsTimer, KeepsRest
  <2> QED
    BY <2>2, <2>3
<1>8. CASE Found(c) \/ Reset(c) \/ Preflight(c)
  <2> USE <1>8 DEF Found, Reset, Preflight
  <2>1. /\ call[c].wallet # None
        /\ \/ Moves(c, "idle", None)
           \/ \E stage \in ConnectStages : Moves(c, stage, call[c].wallet)
    BY <1>2, <1>3, <1>5 DEF ConnectStages, Connecting, Guarded
  <2>2. Keeps(c)
    BY <2>1 DEF Keeps, Moves
  <2>3. KeepsSpinner(c)
    BY <1>1, <1>3, <1>4, <1>5 DEF KeepsSpinner, Moves, ConnectStages, Connecting, Guarded
  <2>4. KeepsGuard(c)
    <3>1. guard' = guard /\ call[c].pc \notin Guarded
      BY DEF Guarded
    <3> QED
      BY <1>1, <3>1 DEF KeepsGuard
  <2>5. KeepsTimer(c)
    <3>1. timer' = timer /\ armed' = armed /\ call[c].pc # "popup"
      OBVIOUS
    <3>2. Goto(c, "checking") \/ Goto(c, "resetting") \/ Begin(c) \/ Return(c)
      OBVIOUS
    <3>3. {"checking", "resetting"} \subseteq ConnectStages
      BY DEF ConnectStages, Connecting
    <3>4. call'[c].pc # "popup"
      BY <1>3, <1>5, <3>2, <3>3 DEF Moves
    <3> QED
      BY <1>1, <3>1, <3>4 DEF KeepsTimer
  <2>6. KeepsRest
    BY <1>1, <1>3, <1>5, <2>1 DEF KeepsRest
  <2> QED
    BY <2>2, <2>3, <2>4, <2>5, <2>6
<1>9. CASE Check(c) \/ FastGet(c) \/ FastRead(c) \/ FastRefuse(c)
  <2> USE <1>9 DEF Check, FastGet, FastRead, FastRefuse
  <2>1. /\ call[c].wallet # None
        /\ \/ Moves(c, "idle", None)
           \/ \E stage \in ConnectStages : Moves(c, stage, call[c].wallet)
    BY <1>2, <1>3, <1>5 DEF ConnectStages, Connecting, Guarded
  <2>2. Keeps(c)
    BY <2>1 DEF Keeps, Moves
  <2>3. KeepsSpinner(c)
    BY <1>1, <1>3, <1>4, <1>5 DEF KeepsSpinner, Moves, ConnectStages, Connecting, Guarded
  <2>4. KeepsGuard(c)
    <3>1. call[c].pc \notin Guarded
      BY DEF Guarded
    <3>2. guard' = guard \/ (guard' = TRUE /\ Moves(c, "popup", call[c].wallet))
      BY <1>5
    <3>3. guard' \in BOOLEAN
      BY <1>1, <3>2
    <3>4. guard' => guard \/ call'[c].pc \in Guarded
      BY <3>2 DEF Moves, Guarded
    <3> QED
      BY <3>1, <3>3, <3>4 DEF KeepsGuard
  <2>5. KeepsTimer(c)
    BY <1>1, <1>3, <1>5 DEF KeepsTimer, Moves, ConnectStages, Connecting, Guarded
  <2>6. KeepsRest
    BY <1>1, <1>3, <1>5, <2>1 DEF KeepsRest
  <2> QED
    BY <2>2, <2>3, <2>4, <2>5, <2>6
<1>10. CASE Approve(c) \/ Decline(c) \/ LoseRace(c)
  <2> USE <1>10 DEF Approve, Decline, LoseRace
  <2>1. /\ call[c].wallet # None
        /\ \/ Moves(c, "idle", None)
           \/ \E stage \in ConnectStages : Moves(c, stage, call[c].wallet)
    BY <1>2, <1>3, <1>5 DEF ConnectStages, Connecting, Guarded
  <2>2. Keeps(c)
    BY <2>1 DEF Keeps, Moves
  <2>3. KeepsSpinner(c)
    BY <1>1, <1>3, <1>4, <1>5 DEF KeepsSpinner, Moves, ConnectStages, Connecting, Guarded
  <2>4. KeepsGuard(c)
    BY <1>1, <1>3, <1>5 DEF KeepsGuard, Moves, ConnectStages, Connecting, Guarded
  <2>5. KeepsTimer(c)
    BY <1>1, <1>3, <1>5 DEF KeepsTimer, Moves, ConnectStages, Connecting, Guarded
  <2>6. KeepsRest
    BY <1>1, <1>3, <1>5, <2>1 DEF KeepsRest
  <2> QED
    BY <2>2, <2>3, <2>4, <2>5, <2>6
<1>11. CASE Get(c) \/ Read(c) \/ Refuse(c)
  <2> USE <1>11 DEF Get, Read, Refuse
  <2>1. /\ call[c].wallet # None
        /\ \/ Moves(c, "idle", None)
           \/ \E stage \in ConnectStages : Moves(c, stage, call[c].wallet)
    BY <1>2, <1>3, <1>5 DEF ConnectStages, Connecting, Guarded
  <2>2. Keeps(c)
    BY <2>1 DEF Keeps, Moves
  <2>3. KeepsSpinner(c)
    BY <1>1, <1>3, <1>4, <1>5 DEF KeepsSpinner, Moves, ConnectStages, Connecting, Guarded
  <2>4. KeepsGuard(c)
    BY <1>1, <1>3, <1>5 DEF KeepsGuard, Moves, ConnectStages, Connecting, Guarded
  <2>5. KeepsTimer(c)
    BY <1>1, <1>3, <1>5 DEF KeepsTimer, Moves, ConnectStages, Connecting, Guarded
  <2>6. KeepsRest
    BY <1>1, <1>3, <1>5, <2>1 DEF KeepsRest
  <2> QED
    BY <2>2, <2>3, <2>4, <2>5, <2>6
<1> QED
  BY <1>6, <1>7, <1>8, <1>9, <1>10, <1>11

(* So the invariant survives connect.                                      *)
LEMMA ConnectInv ==
    ASSUME IInv, NEW c \in Connects, ConnectAction(c)
    PROVE  IInv'
<1>1. Keeps(c) /\ KeepsSpinner(c) /\ KeepsGuard(c) /\ KeepsTimer(c) /\ KeepsRest
  BY ConnectKeeps
<1>2. TypeOK'
  <2>1. timer' \in Connects \cup {None}
    BY <1>1 DEF IInv, TypeOK, KeepsTimer
  <2>2. UNCHANGED <<tick, leave, refresh>>
    BY <1>1 DEF KeepsRest, others
  <2> QED
    BY <1>1, <2>1, <2>2
    DEF IInv, TypeOK, Keeps, KeepsSpinner, KeepsGuard, KeepsTimer, KeepsRest
<1>3. ConnectingIsBacked'
  <2> SUFFICES ASSUME shown'.connecting
               PROVE  \E d \in Connects : call'[d].pc \in Connecting
    BY DEF ConnectingIsBacked
  <2>1. CASE call'[c].pc \in Connecting
    BY <2>1
  <2>2. CASE call'[c].pc \notin Connecting
    <3>1. shown.connecting /\ call[c].pc \notin Connecting
      BY <1>1, <2>2 DEF KeepsSpinner
    <3>2. PICK d \in Connects : call[d].pc \in Connecting
      BY <3>1 DEF IInv, ConnectingIsBacked
    <3>3. call'[d] = call[d]
      BY <1>1, <3>1, <3>2 DEF Keeps
    <3> QED
      BY <3>2, <3>3
  <2> QED
    BY <2>1, <2>2
<1>4. GuardIsBacked'
  <2> SUFFICES ASSUME guard'
               PROVE  \E d \in Connects : call'[d].pc \in Guarded
    BY DEF GuardIsBacked
  <2>1. CASE call'[c].pc \in Guarded
    BY <2>1
  <2>2. CASE call'[c].pc \notin Guarded
    <3>1. guard /\ call[c].pc \notin Guarded
      BY <1>1, <2>2 DEF KeepsGuard
    <3>2. PICK d \in Connects : call[d].pc \in Guarded
      BY <3>1 DEF IInv, GuardIsBacked
    <3>3. call'[d] = call[d]
      BY <1>1, <3>1, <3>2 DEF Keeps
    <3> QED
      BY <3>2, <3>3
  <2> QED
    BY <2>1, <2>2
<1>5. TimerIsOfAPopup'
  <2> SUFFICES ASSUME timer' # None
               PROVE  call'[timer'].pc = "popup" /\ timer' \in armed'
    BY DEF TimerIsOfAPopup
  <2>1. CASE timer' = c /\ c \in armed' /\ call'[c].pc = "popup"
    BY <2>1
  <2>2. CASE timer' = timer /\ armed' = armed /\ call[c].pc # "popup"
    <3>1. timer \in Connects /\ call[timer].pc = "popup" /\ timer \in armed
      BY <2>2 DEF IInv, TypeOK, TimerIsOfAPopup
    <3>2. call'[timer] = call[timer]
      BY <1>1, <2>2, <3>1 DEF Keeps
    <3> QED
      BY <2>2, <3>1, <3>2
  <2> QED
    BY <1>1, <2>1, <2>2 DEF KeepsTimer
<1>6. RestoreIsCurrent'
  BY <1>1 DEF IInv, RestoreIsCurrent, KeepsRest
<1>7. WorkIsOfAWallet'
  <2>1. \A d \in Connects : call'[d].pc \notin {"idle", "scheduled"} => call'[d].wallet # None
    BY <1>1 DEF IInv, WorkIsOfAWallet, Keeps
  <2> QED
    BY <1>1, <2>1 DEF IInv, WorkIsOfAWallet, KeepsRest
<1> QED
  BY <1>2, <1>3, <1>4, <1>5, <1>6, <1>7 DEF IInv

-----------------------------------------------------------------------------

(* A restore that moves stays of its wallet and keeps its flag; one that   *)
(* ends is idle.                                                           *)
LEMMA RestoreMoves ==
    ASSUME restore \in [Restores -> Restore], NEW r \in Restores,
           RestoreStep(r)
    PROVE  /\ restore' \in [Restores -> Restore]
           /\ \A q \in Restores \ {r} : restore'[q] = restore[q]
           /\ \/ restore'[r].pc = "idle"
              \/ /\ restore[r].pc # "idle"
                 /\ restore'[r].wallet = restore[r].wallet
                 /\ restore'[r].cancelled = restore[r].cancelled
<1>1. restore[r] \in Restore
  OBVIOUS
<1>2. \/ EndRestore(r)
      \/ /\ restore[r].pc # "idle"
         /\ \E stage \in {"checking", "getting", "reading"} :
               \/ \E p \in BOOLEAN :
                     restore' = [restore EXCEPT ![r].pc = stage, ![r].persisted = p]
               \/ restore' = [restore EXCEPT ![r].pc = stage]
  <2>1. ASSUME ShowSession(r), ~EndRestore(r)
        PROVE  /\ restore[r].pc # "idle"
               /\ restore' = [restore EXCEPT ![r].pc = "checking",
                                             ![r].persisted = restore[r].wallet \in sessions]
    BY <2>1 DEF ShowSession
  <2>2. ASSUME CheckSession(r), ~EndRestore(r)
        PROVE  restore[r].pc # "idle" /\ restore' = [restore EXCEPT ![r].pc = "getting"]
    BY <2>2 DEF CheckSession
  <2>3. ASSUME GetContext(r), ~EndRestore(r)
        PROVE  restore[r].pc # "idle" /\ restore' = [restore EXCEPT ![r].pc = "reading"]
    BY <2>3 DEF GetContext
  <2>4. ReadContext(r) => EndRestore(r)
    BY DEF ReadContext
  <2>5. (restore[r].wallet \in sessions) \in BOOLEAN
    OBVIOUS
  <2> QED
    BY <2>1, <2>2, <2>3, <2>4, <2>5 DEF RestoreStep
<1>3. CASE EndRestore(r)
  <2>1. NoRestore \in Restore /\ NoRestore.pc = "idle"
    BY DEF NoRestore, Restore
  <2> QED
    BY <1>3, <2>1 DEF EndRestore
<1>4. ASSUME restore[r].pc # "idle", NEW stage \in {"checking", "getting", "reading"},
             \/ \E p \in BOOLEAN :
                   restore' = [restore EXCEPT ![r].pc = stage, ![r].persisted = p]
             \/ restore' = [restore EXCEPT ![r].pc = stage]
      PROVE  /\ restore' \in [Restores -> Restore]
             /\ \A q \in Restores \ {r} : restore'[q] = restore[q]
             /\ restore'[r].wallet = restore[r].wallet
             /\ restore'[r].cancelled = restore[r].cancelled
  BY <1>1, <1>4 DEF Restore
<1> QED
  BY <1>2, <1>3, <1>4

(* A step that leaves connect and the selection alone, and lights no       *)
(* spinner, has only the restores and the types to answer for.             *)
LEMMA FrameInv ==
    ASSUME IInv, UNCHANGED <<selected, guard, timer, armed, call>>,
           TypeOK', shown'.connecting => shown.connecting,
           RestoreIsCurrent', WorkIsOfAWallet'
    PROVE  IInv'
  BY DEF IInv, ConnectingIsBacked, GuardIsBacked, TimerIsOfAPopup

(* What a restore writes is of its wallet.                                 *)
LEMMA RestoreWrites ==
    ASSUME TypeOK, NEW r \in Restores, RestoreStep(r), restore[r].wallet \in Wallets
    PROVE  /\ shown' \in Shown /\ shown'.connecting = shown.connecting
           /\ shown'.connected => \/ shown.connected /\ shown'.wallet = shown.wallet
                                  \/ shown'.wallet = restore[r].wallet
           /\ ergo' = ergo \/ ergo' = restore[r].wallet
           /\ sessions' \subseteq Wallets
           /\ UNCHANGED <<selected, guard, timer, armed, lastError, call, others>>
<1> DEFINE w == restore[r].wallet
           up == [shown EXCEPT !.connected = TRUE, !.locked = FALSE, !.wallet = w]
           down == [shown EXCEPT !.connected = FALSE, !.locked = FALSE, !.wallet = None]
<1>1. shown \in Shown /\ sessions \subseteq Wallets
  BY DEF TypeOK
<1>2. /\ up \in Shown /\ up.connecting = shown.connecting /\ up.wallet = w
      /\ down \in Shown /\ down.connecting = shown.connecting /\ ~down.connected
  BY <1>1, PageWrites
<1>3. shown' \in {shown, up, down}
  BY DEF RestoreStep, ShowSession, CheckSession, GetContext, ReadContext
<1>4. sessions' \in {sessions, sessions \ {w}, sessions \cup {w}}
  BY DEF RestoreStep, ShowSession, CheckSession, GetContext, ReadContext, Forget
<1>5. ergo' = ergo \/ ergo' = w
  BY DEF RestoreStep, ShowSession, CheckSession, GetContext, ReadContext
<1>6. UNCHANGED <<selected, guard, timer, armed, lastError, call, others>>
  BY DEF RestoreStep, ShowSession, CheckSession, GetContext, ReadContext
<1> HIDE DEF w, up, down
<1>7. sessions' \subseteq Wallets
  BY <1>1, <1>4 DEF w
<1>8. /\ shown' \in Shown /\ shown'.connecting = shown.connecting
      /\ shown'.connected => \/ shown.connected /\ shown'.wallet = shown.wallet
                             \/ shown'.wallet = w
  BY <1>1, <1>2, <1>3
<1> QED
  BY <1>5, <1>6, <1>7, <1>8 DEF w

LEMMA RestoreInv ==
    ASSUME IInv, NEW r \in Restores, RestoreStep(r)
    PROVE  IInv'
<1>1. restore[r].pc # "idle"
  BY DEF RestoreStep, ShowSession, CheckSession, GetContext, ReadContext
<1>2. restore[r].wallet \in Wallets
  <2>1. restore[r] \in Restore
    BY DEF IInv, TypeOK
  <2> QED
    BY <1>1, <2>1 DEF IInv, WorkIsOfAWallet, Restore
<1>3. /\ shown' \in Shown /\ shown'.connecting = shown.connecting
      /\ ergo' = ergo \/ ergo' = restore[r].wallet
      /\ sessions' \subseteq Wallets
      /\ UNCHANGED <<selected, guard, timer, armed, lastError, call, others>>
  BY <1>2, RestoreWrites DEF IInv
<1>4. /\ restore' \in [Restores -> Restore]
      /\ \A q \in Restores \ {r} : restore'[q] = restore[q]
      /\ \/ restore'[r].pc = "idle"
         \/ /\ restore'[r].wallet = restore[r].wallet
            /\ restore'[r].cancelled = restore[r].cancelled
  BY RestoreMoves DEF IInv, TypeOK
<1>5. TypeOK'
  BY <1>2, <1>3, <1>4 DEF IInv, TypeOK, others
<1>6. RestoreIsCurrent'
  BY <1>1, <1>3, <1>4 DEF IInv, RestoreIsCurrent
<1>7. WorkIsOfAWallet'
  BY <1>1, <1>3, <1>4 DEF IInv, WorkIsOfAWallet
<1> QED
  BY <1>3, <1>5, <1>6, <1>7, FrameInv

-----------------------------------------------------------------------------

(* What the interval writes is of the wallet of its tick.                  *)
LEMMA TickWrites ==
    ASSUME TypeOK, NEW t \in Ticks, StartTick(t) \/ TickStep(t)
    PROVE  /\ tick' \in [Ticks -> Running]
           /\ \A q \in Ticks : \/ tick'[q].pc = "idle"
                               \/ tick'[q].wallet = tick[q].wallet /\ tick[q].pc # "idle"
                               \/ tick'[q].wallet = selected /\ selected # None
           /\ shown' \in Shown /\ shown'.connecting = shown.connecting
           /\ shown' = shown \/ (tick[t].pc # "idle" /\ shown'.wallet = tick[t].wallet)
           /\ ergo' = ergo \/ (tick[t].pc # "idle" /\ ergo' = tick[t].wallet)
           /\ ergo' \in Wallets \cup {None}
           /\ UNCHANGED <<selected, guard, timer, armed, lastError, call, sessions, restore,
                          leave, refresh>>
<1>1. /\ shown \in Shown /\ tick \in [Ticks -> Running] /\ tick[t] \in Running
      /\ selected \in Wallets \cup {None} /\ ergo \in Wallets \cup {None}
  BY DEF TypeOK
<1>2. tick[t].wallet \in Wallets \cup {None}
  BY <1>1 DEF Running
<1>3. CASE StartTick(t)
  <2>1. selected # None
    BY <1>3 DEF StartTick, Polling
  <2>2. [pc |-> "checking", wallet |-> selected] \in Running
    BY <1>1 DEF Running
  <2>3. tick' = [tick EXCEPT ![t] = [pc |-> "checking", wallet |-> selected]]
    BY <1>3 DEF StartTick
  <2>4. /\ tick' \in [Ticks -> Running]
        /\ \A q \in Ticks \ {t} : tick'[q] = tick[q]
        /\ tick'[t].wallet = selected
    BY <1>1, <2>2, <2>3
  <2>5. UNCHANGED <<page, sessions, call, restore, leave, refresh>>
    BY <1>3 DEF StartTick
  <2>6. shown' = shown /\ ergo' = ergo
    BY <2>5 DEF page
  <2>7. UNCHANGED <<selected, guard, timer, armed, lastError, call, sessions, restore, leave,
                    refresh>>
    BY <2>5 DEF page
  <2> QED
    BY <1>1, <2>1, <2>4, <2>6, <2>7
<1>4. CASE TickStep(t)
  <2> DEFINE up == [shown EXCEPT !.connected = TRUE, !.locked = FALSE, !.wallet = tick[t].wallet]
  <2>1. up \in Shown /\ up.connecting = shown.connecting /\ up.wallet = tick[t].wallet
    BY <1>1, <1>2, PageWrites
  <2>2. Idle \in Running /\ Idle.pc = "idle"
    BY DEF Idle, Running
  <2>3. \A stage \in {"getting", "reading"} : /\ [tick[t] EXCEPT !.pc = stage] \in Running
                                              /\ [tick[t] EXCEPT !.pc = stage].wallet = tick[t].wallet
    BY <1>1 DEF Running
  <2>4. tick[t].pc # "idle" \/ tick' = [tick EXCEPT ![t] = Idle]
    BY <1>4 DEF TickStep
  <2>5. \/ tick' = [tick EXCEPT ![t] = Idle]
        \/ \E stage \in {"getting", "reading"} :
              tick' = [tick EXCEPT ![t] = [tick[t] EXCEPT !.pc = stage]]
    BY <1>4 DEF TickStep
  <2>6. shown' = shown \/ (tick[t].pc # "idle" /\ shown' = up)
    BY <1>4 DEF TickStep
  <2>7. ergo' = ergo \/ (tick[t].pc # "idle" /\ ergo' = tick[t].wallet)
    BY <1>4 DEF TickStep
  <2>8. UNCHANGED <<selected, guard, timer, armed, lastError, call, sessions, restore,
                    leave, refresh>>
    BY <1>4 DEF TickStep
  <2>9. PICK e \in Running : /\ tick' = [tick EXCEPT ![t] = e]
                            /\ \/ e.pc = "idle"
                               \/ e.wallet = tick[t].wallet /\ tick[t].pc # "idle"
    BY <2>2, <2>3, <2>4, <2>5
  <2>10. /\ tick' \in [Ticks -> Running]
         /\ \A q \in Ticks \ {t} : tick'[q] = tick[q]
         /\ tick'[t] = e
    BY <1>1, <2>9
  <2>11. \A q \in Ticks : \/ tick'[q].pc = "idle"
                          \/ tick'[q].wallet = tick[q].wallet /\ tick[q].pc # "idle"
    BY <2>9, <2>10
  <2>12. ergo' \in Wallets \cup {None}
    BY <1>1, <1>2, <2>7
  <2> HIDE DEF up
  <2>13. /\ shown' \in Shown /\ shown'.connecting = shown.connecting
         /\ shown' = shown \/ (tick[t].pc # "idle" /\ shown'.wallet = tick[t].wallet)
    BY <1>1, <2>1, <2>6
  <2> QED
    BY <2>7, <2>8, <2>10, <2>11, <2>12, <2>13
<1> QED
  BY <1>3, <1>4

LEMMA TickInv ==
    ASSUME IInv, NEW t \in Ticks, StartTick(t) \/ TickStep(t)
    PROVE  IInv'
<1>1. /\ tick' \in [Ticks -> Running]
      /\ shown' \in Shown /\ shown'.connecting = shown.connecting
      /\ ergo' \in Wallets \cup {None}
      /\ UNCHANGED <<selected, guard, timer, armed, lastError, call, sessions, restore,
                     leave, refresh>>
  BY TickWrites DEF IInv
<1>2. TypeOK'
  BY <1>1 DEF IInv, TypeOK
<1>3. RestoreIsCurrent' /\ WorkIsOfAWallet'
  BY <1>1 DEF IInv, RestoreIsCurrent, WorkIsOfAWallet
<1> QED
  BY <1>1, <1>2, <1>3, FrameInv

(* disconnect drops the context and clears the page, a refresh at most     *)
(* locks it, and an old session is forgotten.                              *)
SmallStep ==
    \/ \E d \in Leaves : StartLeave(d) \/ FinishLeave(d)
    \/ \E f \in Refreshes : StartRefresh(f) \/ FinishRefresh(f)
    \/ \E w \in Wallets : Expire(w)

LEMMA SmallWrites ==
    ASSUME TypeOK, SmallStep
    PROVE  /\ leave' \in [Leaves -> Running] /\ refresh' \in [Refreshes -> BOOLEAN]
           /\ shown' \in Shown
           /\ shown'.connecting => shown.connecting
           /\ shown'.connected => shown.connected /\ shown'.wallet = shown.wallet
           /\ ergo' \in {ergo, None}
           /\ sessions' \subseteq Wallets
           /\ UNCHANGED <<selected, guard, timer, armed, lastError, call, restore, tick>>
<1>1. /\ shown \in Shown /\ leave \in [Leaves -> Running] /\ refresh \in [Refreshes -> BOOLEAN]
      /\ sessions \subseteq Wallets /\ selected \in Wallets \cup {None}
  BY DEF TypeOK
<1>2. /\ Disconnected \in Shown /\ ~Disconnected.connecting /\ ~Disconnected.connected
  BY <1>1, PageMoves
<1>3. ASSUME NEW d \in Leaves, StartLeave(d) \/ FinishLeave(d)
      PROVE  /\ leave' \in [Leaves -> Running] /\ refresh' = refresh
             /\ shown' = shown \/ shown' = Disconnected
             /\ ergo' \in {ergo, None}
             /\ sessions' \subseteq Wallets
             /\ UNCHANGED <<selected, guard, timer, armed, lastError, call, restore, tick>>
  <2>1. [pc |-> "leaving", wallet |-> selected] \in Running /\ Idle \in Running
    BY <1>1 DEF Running, Idle
  <2> QED
    BY <1>1, <1>3, <2>1 DEF StartLeave, FinishLeave, Forget, page
<1>4. ASSUME NEW f \in Refreshes, StartRefresh(f) \/ FinishRefresh(f)
      PROVE  /\ refresh' \in [Refreshes -> BOOLEAN]
             /\ shown' = shown \/ shown' = [shown EXCEPT !.locked = TRUE]
             /\ UNCHANGED <<selected, ergo, guard, timer, armed, lastError, sessions, call,
                            restore, tick, leave>>
  BY <1>1, <1>4 DEF StartRefresh, FinishRefresh, page
<1>5. ASSUME NEW w \in Wallets, Expire(w)
      PROVE  /\ sessions' \subseteq Wallets
             /\ UNCHANGED <<page, call, restore, others>>
  BY <1>1, <1>5 DEF Expire, Forget
<1>6. LET lock == [shown EXCEPT !.locked = TRUE]
      IN  /\ lock \in Shown /\ lock.connecting = shown.connecting
          /\ lock.connected = shown.connected /\ lock.wallet = shown.wallet
  BY <1>1, PageWrites
<1> QED
  BY <1>1, <1>2, <1>3, <1>4, <1>5, <1>6 DEF SmallStep, page, others

LEMMA SmallInv ==
    ASSUME IInv, SmallStep
    PROVE  IInv'
<1>1. /\ leave' \in [Leaves -> Running] /\ refresh' \in [Refreshes -> BOOLEAN]
      /\ shown' \in Shown
      /\ shown'.connecting => shown.connecting
      /\ ergo' \in {ergo, None}
      /\ sessions' \subseteq Wallets
      /\ UNCHANGED <<selected, guard, timer, armed, lastError, call, restore, tick>>
  BY SmallWrites DEF IInv
<1>2. UNCHANGED <<selected, guard, timer, armed, call>> /\ UNCHANGED <<lastError, restore, tick>>
  BY <1>1
<1>3. ergo' \in Wallets \cup {None}
  BY <1>1 DEF IInv, TypeOK
<1>4. TypeOK'
  BY <1>1, <1>2, <1>3 DEF IInv, TypeOK
<1>5. RestoreIsCurrent' /\ WorkIsOfAWallet'
  BY <1>2 DEF IInv, RestoreIsCurrent, WorkIsOfAWallet
<1>6. shown'.connecting => shown.connecting
  BY <1>1
<1> QED
  BY <1>2, <1>4, <1>5, <1>6, FrameInv

-----------------------------------------------------------------------------

(* A new wallet key resets the page and leaves one current restore.        *)
LEMMA EffectsWrite ==
    ASSUME TypeOK, NEW w \in Wallets, Effects(w)
    PROVE  /\ selected' = w /\ ergo' = None
           /\ shown' = Disconnected
           /\ lastError' = FALSE /\ guard' = FALSE
           /\ timer' = None /\ armed' \subseteq Connects
           /\ restore' \in [Restores -> Restore]
           /\ \A q \in Restores : restore'[q].pc # "idle" =>
                 \/ restore'[q].wallet = w
                 \/ /\ restore[q].pc # "idle"
                    /\ restore'[q].wallet = restore[q].wallet
                    /\ restore'[q].cancelled
           /\ UNCHANGED <<sessions, others>>
<1>1. PICK r \in Restores :
        restore' = [q \in Restores |->
          IF q = r
          THEN [pc |-> "waiting", wallet |-> w, cancelled |-> FALSE, persisted |-> FALSE]
          ELSE IF restore[q].pc = "idle" THEN restore[q]
          ELSE [restore[q] EXCEPT !.cancelled = TRUE]]
  BY DEF Effects
<1>2. restore \in [Restores -> Restore] /\ armed \subseteq Connects
  BY DEF TypeOK
<1>3. ASSUME NEW q \in Restores
      PROVE  /\ restore'[q] \in Restore
             /\ restore'[q].pc # "idle" =>
                   \/ restore'[q].wallet = w
                   \/ /\ restore[q].pc # "idle"
                      /\ restore'[q].wallet = restore[q].wallet
                      /\ restore'[q].cancelled
  <2>1. restore[q] \in Restore
    BY <1>2
  <2>2. CASE q = r
    <3>1. restore'[q] = [pc |-> "waiting", wallet |-> w, cancelled |-> FALSE, persisted |-> FALSE]
      BY <1>1, <2>2
    <3> QED
      BY <3>1 DEF Restore
  <2>3. CASE q # r /\ restore[q].pc = "idle"
    <3>1. restore'[q] = restore[q]
      BY <1>1, <2>3
    <3> QED
      BY <2>1, <2>3, <3>1
  <2>4. CASE q # r /\ restore[q].pc # "idle"
    <3>1. restore'[q] = [restore[q] EXCEPT !.cancelled = TRUE]
      BY <1>1, <2>4
    <3> QED
      BY <2>1, <2>4, <3>1 DEF Restore
  <2> QED
    BY <2>2, <2>3, <2>4
<1>4. restore' \in [Restores -> Restore]
  BY <1>1, <1>3
<1> QED
  BY <1>2, <1>3, <1>4 DEF Effects

LEMMA SelectInv ==
    ASSUME IInv, NEW w \in Wallets,
           Select(w) \/ \E c \in Connects : SelectAndConnect(w, c)
    PROVE  IInv'
<1>1. /\ call' \in [Connects -> Call]
      /\ \A d \in Connects : \/ call'[d] = call[d]
                             \/ call[d].pc = "idle" /\ call'[d].pc = "scheduled"
  <2>1. call \in [Connects -> Call] /\ selected \in Wallets \cup {None}
    BY DEF IInv, TypeOK
  <2>2. CASE Select(w)
    BY <2>1, <2>2 DEF Select
  <2>3. ASSUME NEW c \in Connects, SelectAndConnect(w, c)
        PROVE  /\ call' \in [Connects -> Call]
               /\ \A d \in Connects : \/ call'[d] = call[d]
                                      \/ call[d].pc = "idle" /\ call'[d].pc = "scheduled"
    <3>1. [pc |-> "scheduled", wallet |-> selected] \in Call
      BY <2>1 DEF Call, ConnectStages
    <3>2. call[c].pc = "idle"
      BY <2>3 DEF SelectAndConnect, Idle
    <3>3. call' = [call EXCEPT ![c] = [pc |-> "scheduled", wallet |-> selected]]
      BY <2>3 DEF SelectAndConnect
    <3> QED
      BY <2>1, <3>1, <3>2, <3>3
  <2> QED
    BY <2>2, <2>3
<1>2. \A d \in Connects : call'[d].pc \notin {"idle", "scheduled"} => call'[d].wallet # None
  BY <1>1 DEF IInv, WorkIsOfAWallet
<1>3. CASE Effects(w)
  <2>1. TypeOK
    BY DEF IInv
  <2>2. /\ selected' = w /\ ergo' = None
        /\ shown' = Disconnected
        /\ lastError' = FALSE /\ guard' = FALSE
        /\ timer' = None /\ armed' \subseteq Connects
        /\ restore' \in [Restores -> Restore]
        /\ \A q \in Restores : restore'[q].pc # "idle" =>
              \/ restore'[q].wallet = w
              \/ /\ restore[q].pc # "idle"
                 /\ restore'[q].wallet = restore[q].wallet
                 /\ restore'[q].cancelled
        /\ UNCHANGED <<sessions, others>>
    BY <1>3, <2>1, EffectsWrite
  <2>3. shown' \in Shown /\ ~shown'.connecting
    BY <2>1, <2>2, PageMoves DEF TypeOK
  <2>4. TypeOK'
    BY <1>1, <2>1, <2>2, <2>3 DEF TypeOK, others
  <2>5. RestoreIsCurrent'
    BY <2>2 DEF RestoreIsCurrent
  <2>6. WorkIsOfAWallet'
    BY <1>2, <2>2, WalletAssumption DEF IInv, WorkIsOfAWallet
  <2> QED
    BY <2>2, <2>3, <2>4, <2>5, <2>6
    DEF IInv, ConnectingIsBacked, GuardIsBacked, TimerIsOfAPopup
<1>4. CASE UNCHANGED <<page, sessions, restore, others>>
  <2>1. UNCHANGED <<selected, shown, ergo, guard, timer, armed, lastError, sessions, restore,
                    tick, leave, refresh>>
    BY <1>4 DEF page, others
  <2>2. TypeOK'
    BY <1>1, <2>1 DEF IInv, TypeOK
  <2>3. ConnectingIsBacked' /\ GuardIsBacked'
    BY <1>1, <2>1 DEF IInv, ConnectingIsBacked, GuardIsBacked, Connecting, Guarded
  <2>4. TimerIsOfAPopup'
    BY <1>1, <2>1 DEF IInv, TypeOK, TimerIsOfAPopup
  <2>5. RestoreIsCurrent' /\ WorkIsOfAWallet'
    BY <1>2, <2>1 DEF IInv, RestoreIsCurrent, WorkIsOfAWallet
  <2> QED
    BY <2>2, <2>3, <2>4, <2>5 DEF IInv
<1> QED
  BY <1>3, <1>4 DEF Select, SelectAndConnect

(* IInv is inductive.                                                      *)
LEMMA StepInv == IInv /\ [Next]_vars => IInv'
<1> SUFFICES ASSUME IInv, [Next]_vars PROVE IInv'
  OBVIOUS
<1>1. ASSUME NEW c \in Connects, ConnectAction(c) PROVE IInv'
  BY <1>1, ConnectInv
<1>2. ASSUME NEW r \in Restores, RestoreStep(r) PROVE IInv'
  BY <1>2, RestoreInv
<1>3. ASSUME NEW t \in Ticks, StartTick(t) \/ TickStep(t) PROVE IInv'
  BY <1>3, TickInv
<1>4. CASE SmallStep
  BY <1>4, SmallInv
<1>5. ASSUME NEW w \in Wallets, Select(w) \/ \E c \in Connects : SelectAndConnect(w, c)
      PROVE  IInv'
  BY <1>5, SelectInv
<1>6. CASE UNCHANGED vars
  <2>1. /\ UNCHANGED <<selected, shown, ergo, guard, timer, armed, lastError>>
        /\ UNCHANGED <<sessions, call, restore, tick, leave, refresh>>
    BY <1>6 DEF vars, page, others
  <2> QED
    BY <2>1 DEF IInv, TypeOK, ConnectingIsBacked, GuardIsBacked, TimerIsOfAPopup,
                RestoreIsCurrent, WorkIsOfAWallet
<1> QED
  BY <1>1, <1>2, <1>3, <1>4, <1>5, <1>6 DEF Next, Background, ConnectAction, SmallStep

(* For any user, wallet and extension: the invariant always holds.         *)
THEOREM Invariance == Spec => []IInv
<1>1. Init => IInv
  BY InitInv
<1> QED
  BY <1>1, StepInv, PTL DEF Spec

(* The page never waits for a connect that is over: whenever the spinner   *)
(* is shown some connect is on a path that takes it away.                  *)
THEOREM NoOrphanSpinner == Spec => []ConnectingIsBacked
<1>1. IInv => ConnectingIsBacked
  BY DEF IInv
<1> QED
  BY <1>1, Invariance, PTL

(* A restore installs the context of the wallet selected at that moment,   *)
(* however many restores of other wallets are still awaiting.              *)
THEOREM RestoreSafe == Spec => RestoreInstallsTheSelected
<1>1. ASSUME IInv, [Next]_vars, NEW r \in Restores,
             restore[r].pc = "getting", restore'[r].pc = "reading"
      PROVE  ergo' = selected
  <2>1. restore' # restore
    BY <1>1
  <2>2. ASSUME NEW c \in Connects, ConnectAction(c) PROVE FALSE
    <3>1. KeepsRest
      BY <1>1, <2>2, ConnectKeeps
    <3> QED
      BY <2>1, <3>1 DEF KeepsRest
  <2>3. ASSUME NEW q \in Restores, RestoreStep(q) PROVE ergo' = selected
    <3>1. q = r
      BY <1>1, <2>3, RestoreMoves DEF IInv, TypeOK
    <3>2. restore[r] \in Restore
      BY <1>1 DEF IInv, TypeOK
    <3>3. GetContext(r)
      <4>1. EndRestore(r) => restore'[r].pc = "idle"
        BY <1>1 DEF EndRestore, NoRestore, IInv, TypeOK
      <4> QED
        BY <1>1, <2>3, <3>1, <4>1 DEF RestoreStep, ShowSession, CheckSession, ReadContext
    <3>4. ~EndRestore(r)
      BY <1>1 DEF EndRestore, NoRestore, IInv, TypeOK
    <3>5. ~restore[r].cancelled /\ ergo' = restore[r].wallet
      BY <3>3, <3>4 DEF GetContext
    <3> QED
      BY <1>1, <3>5 DEF IInv, RestoreIsCurrent
  <2>4. ASSUME NEW t \in Ticks, StartTick(t) \/ TickStep(t) PROVE FALSE
    BY <1>1, <2>1, <2>4, TickWrites DEF IInv
  <2>5. CASE SmallStep
    BY <1>1, <2>1, <2>5, SmallWrites DEF IInv
  <2>6. ASSUME NEW w \in Wallets, Effects(w) PROVE FALSE
    <3>1. PICK q \in Restores :
            /\ restore[q].pc = "idle"
            /\ restore' = [p \in Restores |->
                 IF p = q
                 THEN [pc |-> "waiting", wallet |-> w, cancelled |-> FALSE, persisted |-> FALSE]
                 ELSE IF restore[p].pc = "idle" THEN restore[p]
                 ELSE [restore[p] EXCEPT !.cancelled = TRUE]]
      BY <2>6 DEF Effects
    <3>2. restore'[r] = [restore[r] EXCEPT !.cancelled = TRUE]
      BY <1>1, <3>1
    <3>3. restore[r] \in Restore
      BY <1>1 DEF IInv, TypeOK
    <3> QED
      BY <1>1, <3>2, <3>3 DEF Restore
  <2>7. CASE UNCHANGED restore
    BY <2>1, <2>7
  <2> QED
    BY <1>1, <2>2, <2>3, <2>4, <2>5, <2>6, <2>7
    DEF Next, Background, ConnectAction, SmallStep, Select, SelectAndConnect, vars
<1>2. IInv /\ [Next]_vars =>
        [\A r \in Restores : restore[r].pc = "getting" /\ restore'[r].pc = "reading"
            => ergo' = selected]_vars
  BY <1>1
<1> QED
  BY <1>2, Invariance, PTL DEF Spec, RestoreInstallsTheSelected

-----------------------------------------------------------------------------

(* What connect shows and installs is of the wallet of its call, which for *)
(* a patient user is the selected one.                                     *)
LEMMA PatientConnect ==
    ASSUME PatientInv, NEW c \in Connects, ConnectAction(c)
    PROVE  /\ PageIsOfTheSelected'
           /\ call'[c].pc # "idle" => call'[c].wallet = selected /\ selected # None
<1>1. /\ shown \in Shown /\ call \in [Connects -> Call]
      /\ selected \in Wallets \cup {None}
      /\ call[c].pc # "idle" => call[c].wallet = selected /\ selected # None
      /\ ergo \in {None, selected}
      /\ shown.connected => shown.wallet = selected /\ selected # None
  BY DEF PatientInv, TypeOK, PageIsOfTheSelected
<1>2. /\ \A stage \in ConnectStages : Goto(c, stage) => Moves(c, stage, call[c].wallet)
      /\ Return(c) => Moves(c, "idle", None)
      /\ \A w \in Wallets \cup {None}, stage \in ConnectStages :
            call' = [call EXCEPT ![c] = [pc |-> stage, wallet |-> w]] => Moves(c, stage, w)
  BY <1>1, CallMoves
<1>3. /\ StopConnecting => shown'.connected = shown.connected /\ shown'.wallet = shown.wallet
      /\ Show(selected) => shown'.wallet = selected
      /\ Begin(c) => shown'.connected = shown.connected /\ shown'.wallet = shown.wallet
  <2>1. StopConnecting => shown'.connected = shown.connected /\ shown'.wallet = shown.wallet
    BY <1>1 DEF StopConnecting, Shown
  <2>2. Show(selected) => shown'.wallet = selected
    BY DEF Show
  <2>3. ASSUME Begin(c)
        PROVE  shown'.connected = shown.connected /\ shown'.wallet = shown.wallet
    <3>1. shown' = [shown EXCEPT !.connecting = TRUE]
      BY <2>3 DEF Begin
    <3> QED
      BY <1>1, <3>1 DEF Shown
  <2> QED
    BY <2>1, <2>2, <2>3
<1>4. CASE Click(c) \/ Scheduled(c)
  <2>1. UNCHANGED <<selected, shown, ergo>>
    BY <1>4 DEF Click, Scheduled, Enter
  <2>2. Enter(c, selected)
    BY <1>1, <1>4 DEF Click, Scheduled
  <2>3. Moves(c, "idle", None) \/ (Moves(c, "waiting", selected) /\ selected # None)
    BY <1>1, <1>2, <2>2 DEF Enter, ConnectStages
  <2> QED
    BY <1>1, <2>1, <2>3 DEF Moves, PageIsOfTheSelected
<1>5. CASE \/ Found(c) \/ Reset(c) \/ Preflight(c) \/ Check(c) \/ FastGet(c) \/ FastRead(c)
           \/ FastRefuse(c) \/ Approve(c) \/ Decline(c) \/ LoseRace(c) \/ Get(c) \/ Read(c)
           \/ Refuse(c)
  <2> USE <1>5 DEF Found, Reset, Preflight, Check, FastGet, FastRead, FastRefuse, Approve,
                   Decline, LoseRace, Get, Read, Refuse, Fail, OpenPopup
  <2>1. call[c].wallet = selected /\ selected # None /\ selected' = selected
    BY <1>1
  <2>2. ergo' = ergo \/ ergo' = None \/ ergo' = selected
    BY <2>1
  <2>3. shown' = shown \/ StopConnecting \/ Begin(c) \/ Show(selected)
    BY <2>1
  <2>4. \/ Return(c) \/ Begin(c)
        \/ \E stage \in ConnectStages : Goto(c, stage)
    BY DEF ConnectStages, Connecting, Guarded
  <2>5. Begin(c) => Goto(c, "preflight") /\ "preflight" \in ConnectStages
    BY DEF Begin, ConnectStages, Connecting
  <2>6. PageIsOfTheSelected'
    BY <1>1, <1>3, <2>1, <2>2, <2>3 DEF PageIsOfTheSelected
  <2>7. call'[c].pc # "idle" => call'[c].wallet = selected
    BY <1>2, <2>1, <2>4, <2>5 DEF Moves
  <2> QED
    BY <2>1, <2>6, <2>7
<1> QED
  BY <1>4, <1>5 DEF ConnectAction, ConnectStep

(* The inductive invariant survives each step of the background, and each  *)
(* act of a user who waits for quiet.                                      *)
LEMMA PatientStep == IInv /\ PatientInv /\ [PatientNext]_vars => PatientInv'
<1> SUFFICES ASSUME IInv, PatientInv, [PatientNext]_vars PROVE PatientInv'
  OBVIOUS
<1>1. TypeOK /\ TypeOK'
  <2>1. [Next]_vars
    BY DEF PatientNext, Next
  <2> QED
    BY <2>1, StepInv DEF IInv
<1>2. /\ PageIsOfTheSelected
      /\ \A c \in Connects : call[c].pc # "idle" => call[c].wallet = selected /\ selected # None
      /\ \A r \in Restores :
            restore[r].pc # "idle" => restore[r].wallet = selected /\ selected # None
      /\ \A t \in Ticks : tick[t].pc # "idle" => tick[t].wallet = selected /\ selected # None
  BY DEF PatientInv
<1>3. ASSUME NEW c \in Connects, ConnectAction(c) PROVE PatientInv'
  <2>1. /\ PageIsOfTheSelected'
        /\ call'[c].pc # "idle" => call'[c].wallet = selected /\ selected # None
    BY <1>3, PatientConnect
  <2>2. Keeps(c) /\ KeepsRest
    BY <1>3, ConnectKeeps
  <2>3. UNCHANGED <<selected, restore, tick>>
    BY <2>2 DEF KeepsRest, others
  <2>4. \A d \in Connects : call'[d].pc # "idle" => call'[d].wallet = selected /\ selected # None
    BY <1>2, <2>1, <2>2 DEF Keeps
  <2> QED
    BY <1>1, <1>2, <2>1, <2>3, <2>4 DEF PatientInv
<1>4. ASSUME NEW r \in Restores, RestoreStep(r) PROVE PatientInv'
  <2>1. restore[r].pc # "idle"
    BY <1>4 DEF RestoreStep, ShowSession, CheckSession, GetContext, ReadContext
  <2>2. restore[r].wallet = selected /\ selected # None /\ selected \in Wallets
    BY <1>1, <1>2, <2>1 DEF TypeOK
  <2>3. /\ shown'.connected => \/ shown.connected /\ shown'.wallet = shown.wallet
                               \/ shown'.wallet = restore[r].wallet
        /\ ergo' = ergo \/ ergo' = restore[r].wallet
        /\ UNCHANGED <<selected, call, others>>
    BY <1>1, <1>4, <2>2, RestoreWrites
  <2>4. /\ \A q \in Restores \ {r} : restore'[q] = restore[q]
        /\ restore'[r].pc = "idle" \/ restore'[r].wallet = restore[r].wallet
    BY <1>1, <1>4, RestoreMoves DEF TypeOK
  <2>5. PageIsOfTheSelected'
    BY <1>2, <2>2, <2>3 DEF PageIsOfTheSelected
  <2> QED
    BY <1>1, <1>2, <2>2, <2>3, <2>4, <2>5 DEF PatientInv, others
<1>5. ASSUME NEW t \in Ticks, StartTick(t) \/ TickStep(t) PROVE PatientInv'
  <2>1. /\ \A q \in Ticks : \/ tick'[q].pc = "idle"
                            \/ tick'[q].wallet = tick[q].wallet /\ tick[q].pc # "idle"
                            \/ tick'[q].wallet = selected /\ selected # None
        /\ shown' = shown \/ (tick[t].pc # "idle" /\ shown'.wallet = tick[t].wallet)
        /\ ergo' = ergo \/ (tick[t].pc # "idle" /\ ergo' = tick[t].wallet)
        /\ UNCHANGED <<selected, call, restore>>
    BY <1>1, <1>5, TickWrites
  <2>2. PageIsOfTheSelected'
    BY <1>2, <2>1 DEF PageIsOfTheSelected
  <2>3. \A q \in Ticks : tick'[q].pc # "idle" => tick'[q].wallet = selected /\ selected # None
    BY <1>2, <2>1
  <2> QED
    BY <1>1, <1>2, <2>1, <2>2, <2>3 DEF PatientInv
<1>6. CASE SmallStep
  <2>1. /\ shown'.connected => shown.connected /\ shown'.wallet = shown.wallet
        /\ ergo' \in {ergo, None}
        /\ UNCHANGED <<selected, call, restore, tick>>
    BY <1>1, <1>6, SmallWrites
  <2>2. PageIsOfTheSelected'
    BY <1>2, <2>1 DEF PageIsOfTheSelected
  <2> QED
    BY <1>1, <1>2, <2>1, <2>2 DEF PatientInv
<1>7. ASSUME NEW w \in Wallets, Quiet, Select(w) PROVE PatientInv'
  <2>1. /\ selected' = w /\ ergo' = None
        /\ shown' = Disconnected
        /\ \A q \in Restores : restore'[q].pc # "idle" =>
              restore'[q].wallet = w \/ restore[q].pc # "idle"
        /\ UNCHANGED <<call, tick>>
    BY <1>1, <1>7, EffectsWrite DEF Select, others
  <2>2. /\ \A c \in Connects : call'[c].pc = "idle"
        /\ \A r \in Restores : restore[r].pc = "idle"
        /\ \A t \in Ticks : tick'[t].pc = "idle"
    BY <1>7, <2>1 DEF Quiet, Idle, NoRestore
  <2>3. w # None
    BY WalletAssumption
  <2>4. PageIsOfTheSelected'
    BY <2>1 DEF PageIsOfTheSelected, Disconnected
  <2> QED
    BY <1>1, <2>1, <2>2, <2>3, <2>4 DEF PatientInv
<1>8. CASE UNCHANGED vars
  <2>1. UNCHANGED <<selected, shown, ergo, call, restore, tick>>
    BY <1>8 DEF vars, page, others
  <2> QED
    BY <1>1, <1>2, <2>1 DEF PatientInv, PageIsOfTheSelected
<1> QED
  BY <1>3, <1>4, <1>5, <1>6, <1>7, <1>8
  DEF PatientNext, Background, ConnectAction, SmallStep

(* With a user who waits, the page shows and signs with the wallet that is *)
(* selected, for any number of wallets and of overlapping ticks, restores, *)
(* disconnects and refreshes.                                              *)
THEOREM PatientPage == PatientSpec => []PageIsOfTheSelected
<1>1. Init => IInv /\ PatientInv
  BY InitInv
<1>2. IInv /\ PatientInv /\ [PatientNext]_vars => IInv' /\ PatientInv'
  <2>1. [PatientNext]_vars => [Next]_vars
    BY DEF PatientNext, Next
  <2> QED
    BY <2>1, StepInv, PatientStep
<1>3. PatientInv => PageIsOfTheSelected
  BY DEF PatientInv
<1> QED
  BY <1>1, <1>2, <1>3, PTL DEF PatientSpec

=============================================================================
