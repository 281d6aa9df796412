----------------------------- MODULE WsManager ------------------------------
(***************************************************************************)
(* The live bet feed: backend/ws_manager.py (ConnectionManager), the       *)
(* handler ws_bet_subscription of backend/ws_routes.py that runs once per  *)
(* WebSocket, and the broadcasts of backend/game_events.py.                *)
(*                                                                         *)
(* Handlers and broadcasts are coroutines: an action is the code between   *)
(* two awaits.  Every critical section of the manager is one action except *)
(* connect, which holds the lock over the await of websocket.accept().     *)
(* A connection stands for its WebSocket and for its conn_id, which        *)
(* _next_id never gives out twice.                                         *)
(***************************************************************************)
EXTENDS Naturals, FiniteSets

CONSTANTS
    Conns,                  \* WebSockets that clients may open
    Addresses,              \* Ergo addresses
    Ips,                    \* client IPs
    AddressOf,              \* [Conns -> Addresses]: the subject of the token
    IpOf,                   \* [Conns -> Ips]: _get_client_ip
    Broadcasts,             \* calls of broadcast_bet_event
    All,                    \* the target of a global broadcast
    Free,                   \* nobody holds the lock
    NoOwner,                \* no entry in _conn_owner
    MAX_CONNECTIONS_GLOBAL, MAX_CONNECTIONS_PER_IP,
    MAX_SUBS_PER_ADDRESS, MAX_ADDRESSES_PER_CONN

ASSUME WsAssumption ==
    /\ IsFiniteSet(Conns) /\ IsFiniteSet(Addresses)
    /\ AddressOf \in [Conns -> Addresses] /\ IpOf \in [Conns -> Ips]
    /\ All \notin Addresses /\ Free \notin Conns /\ NoOwner \notin Addresses
    /\ {MAX_CONNECTIONS_GLOBAL, MAX_CONNECTIONS_PER_IP,
        MAX_SUBS_PER_ADDRESS, MAX_ADDRESSES_PER_CONN} \subseteq Nat

VARIABLES
    lock,           \* the holder of _lock while it awaits, or Free
    conns,          \* the keys of _conn_addresses and of _conn_ips
    connAddresses,  \* [Conns -> SUBSET Addresses]: _conn_addresses
    ipConnections,  \* [Ips -> SUBSET Conns]: _ip_connections
    connOwner,      \* [Conns -> Addresses]: _conn_owner
    subscriptions,  \* [Addresses -> SUBSET Conns]: _subscriptions
    handler,        \* [Conns -> Stages]: where ws_bet_subscription stands
    mine,           \* [Conns -> SUBSET Addresses]: its subscribed_addresses
    open,           \* [Conns -> BOOLEAN]: the client is there
    stage,          \* [Broadcasts -> CastStages]: where a broadcast stands
    target,         \* [Broadcasts -> Addresses \cup {All}]: whom it addresses
    todo,           \* [Broadcasts -> SUBSET Conns]: its snapshot, not yet sent to
    dead,           \* [Broadcasts -> SUBSET Conns]: where its sends raised
    received        \* [Conns -> SUBSET Broadcasts]: events the client got

manager == <<conns, connAddresses, ipConnections, connOwner, subscriptions>>
cast == <<stage, target, todo, dead>>
vars == <<lock, manager, handler, mine, open, cast, received>>

Stages == {"start", "accepting", "subscribing", "rejecting", "confirming",
           "loop", "replying", "unsubscribing", "disconnecting", "done"}

CastStages == {"idle", "sending", "done"}

Init ==
    /\ lock = Free
    /\ conns = {}
    /\ connAddresses = [c \in Conns |-> {}]
    /\ ipConnections = [i \in Ips |-> {}]
    /\ connOwner = [c \in Conns |-> NoOwner]
    /\ subscriptions = [a \in Addresses |-> {}]
    /\ handler = [c \in Conns |-> "start"]
    /\ mine = [c \in Conns |-> {}]
    /\ open = [c \in Conns |-> TRUE]
    /\ stage = [b \in Broadcasts |-> "idle"]
    /\ target \in [Broadcasts -> Addresses \cup {All}]
    /\ todo = [b \in Broadcasts |-> {}]
    /\ dead = [b \in Broadcasts |-> {}]
    /\ received = [c \in Conns |-> {}]

Goto(c, next) == handler' = [handler EXCEPT ![c] = next]
HangUp(c) == open' = [open EXCEPT ![c] = FALSE]

-----------------------------------------------------------------------------
(* ConnectionManager: the effect of each critical section.                 *)

\* connect refuses a connection over the global or the per-IP cap.
MayConnect(c) ==
    /\ Cardinality(conns) < MAX_CONNECTIONS_GLOBAL
    /\ Cardinality(ipConnections[IpOf[c]]) < MAX_CONNECTIONS_PER_IP

\* subscribe refuses one over the per-address or the per-connection cap.
MaySubscribe(c, a) ==
    /\ Cardinality(subscriptions[a]) < MAX_SUBS_PER_ADDRESS
    /\ Cardinality(connAddresses[c]) < MAX_ADDRESSES_PER_CONN

AddSubscription(c, a) ==
    /\ subscriptions' = [subscriptions EXCEPT ![a] = @ \cup {c}]
    /\ connAddresses' = [connAddresses EXCEPT ![c] = @ \cup {a}]
    /\ UNCHANGED <<conns, ipConnections, connOwner>>

\* unsubscribe
RemoveSubscription(c, a) ==
    /\ subscriptions' = [subscriptions EXCEPT ![a] = @ \ {c}]
    /\ connAddresses' = [connAddresses EXCEPT ![c] = @ \ {a}]
    /\ UNCHANGED <<conns, ipConnections, connOwner>>

\* disconnect
Unregister(c) ==
    /\ conns' = conns \ {c}
    /\ ipConnections' = [ipConnections EXCEPT ![IpOf[c]] = @ \ {c}]
    /\ connOwner' = [connOwner EXCEPT ![c] = NoOwner]
    /\ subscriptions' = [a \in Addresses |-> IF a \in connAddresses[c]
                                             THEN subscriptions[a] \ {c} ELSE subscriptions[a]]
    /\ connAddresses' = [connAddresses EXCEPT ![c] = {}]

-----------------------------------------------------------------------------
(* ws_bet_subscription, one handler per connection.                        *)

\* Mutant: the lock is let go before accept is awaited.
Connect_Unlocked(c) ==
    /\ handler[c] = "start"
    /\ lock = Free
    /\ \/ MayConnect(c) /\ Goto(c, "accepting") /\ UNCHANGED open
       \/ ~MayConnect(c) /\ HangUp(c) /\ Goto(c, "done")
    /\ UNCHANGED <<lock, manager, mine, cast, received>>

\* connect up to its await: the caps are checked with the lock held.
Connect(c) ==
    /\ handler[c] = "start"
    /\ lock = Free
    /\ \/ MayConnect(c) /\ lock' = c /\ Goto(c, "accepting") /\ UNCHANGED open
       \/ ~MayConnect(c) /\ HangUp(c) /\ Goto(c, "done") /\ UNCHANGED lock
    /\ UNCHANGED <<manager, mine, cast, received>>

\* The rest of connect, and set_owner; accept fails only if the client left.
Accept(c) ==
    /\ handler[c] = "accepting"
    /\ lock' = Free
    /\ \/ /\ conns' = conns \cup {c}
          /\ connAddresses' = [connAddresses EXCEPT ![c] = {}]
          /\ ipConnections' = [ipConnections EXCEPT ![IpOf[c]] = @ \cup {c}]
          /\ connOwner' = [connOwner EXCEPT ![c] = AddressOf[c]]
          /\ Goto(c, "subscribing")
          /\ UNCHANGED subscriptions
       \/ /\ ~open[c]
          /\ Goto(c, "done")
          /\ UNCHANGED manager
    /\ UNCHANGED <<mine, open, cast, received>>

SubscribeFirst(c) ==
    /\ handler[c] = "subscribing"
    /\ lock = Free
    /\ \/ /\ MaySubscribe(c, AddressOf[c])
          /\ AddSubscription(c, AddressOf[c])
          /\ Goto(c, "confirming")
       \/ /\ ~MaySubscribe(c, AddressOf[c])
          /\ Goto(c, "rejecting")
          /\ UNCHANGED manager
    /\ UNCHANGED <<lock, mine, open, cast, received>>

Reject(c) ==
    /\ handler[c] = "rejecting"
    /\ lock = Free
    /\ Unregister(c)
    /\ HangUp(c)
    /\ Goto(c, "done")
    /\ UNCHANGED <<lock, mine, cast, received>>

\* The confirmation is sent before the try: if it raises, the handler ends
\* here.  A send to a client that left may also pass unnoticed.
Confirm(c) ==
    /\ handler[c] = "confirming"
    /\ \/ Goto(c, "loop") /\ mine' = [mine EXCEPT ![c] = {AddressOf[c]}]
       \/ ~open[c] /\ Goto(c, "done") /\ UNCHANGED mine
    /\ UNCHANGED <<lock, manager, open, cast, received>>

\* Mutant: any address is subscribed.
ReceiveSubscribe_AnyAddress(c, a) ==
    /\ handler[c] = "loop"
    /\ lock = Free
    /\ MaySubscribe(c, a)
    /\ AddSubscription(c, a)
    /\ mine' = [mine EXCEPT ![c] = @ \cup {a}]
    /\ Goto(c, "replying")
    /\ UNCHANGED <<lock, open, cast, received>>

\* A "subscribe" message: only the authenticated address is subscribed.
ReceiveSubscribe(c, a) ==
    /\ handler[c] = "loop"
    /\ a = AddressOf[c]
    /\ lock = Free
    /\ MaySubscribe(c, a)
    /\ AddSubscription(c, a)
    /\ mine' = [mine EXCEPT ![c] = @ \cup {a}]
    /\ Goto(c, "replying")
    /\ UNCHANGED <<lock, open, cast, received>>

\* Any other address, a reached cap and every message that asks for nothing
\* (a ping, an unknown action, bad JSON) are only answered.
ReceiveOther(c) ==
    /\ handler[c] = "loop"
    /\ Goto(c, "replying")
    /\ UNCHANGED <<lock, manager, mine, open, cast, received>>

\* The manager lower-cases the address, the handler's own set does not: it
\* keeps an address that was spelled otherwise.
ReceiveUnsubscribe(c, a) ==
    /\ handler[c] = "loop"
    /\ lock = Free
    /\ RemoveSubscription(c, a)
    /\ mine' \in {mine, [mine EXCEPT ![c] = @ \ {a}]}
    /\ Goto(c, "replying")
    /\ UNCHANGED <<lock, open, cast, received>>

\* JSON that is no object raises AttributeError, which ends the loop.
ReceiveMalformed(c) ==
    /\ handler[c] = "loop"
    /\ Goto(c, "unsubscribing")
    /\ UNCHANGED <<lock, manager, mine, open, cast, received>>

\* Mutant: a failed reply ends the handler without its finally block.
Reply_NoFinally(c) ==
    /\ handler[c] = "replying"
    /\ \/ Goto(c, "loop")
       \/ ~open[c] /\ Goto(c, "done")
    /\ UNCHANGED <<lock, manager, mine, open, cast, received>>

\* The answer; sending it to a client that left may raise.
Reply(c) ==
    /\ handler[c] = "replying"
    /\ \/ Goto(c, "loop")
       \/ ~open[c] /\ Goto(c, "unsubscribing")
    /\ UNCHANGED <<lock, manager, mine, open, cast, received>>

\* WebSocketDisconnect, after whatever messages the client left behind.
ReceiveDisconnect(c) ==
    /\ handler[c] = "loop"
    /\ ~open[c]
    /\ Goto(c, "unsubscribing")
    /\ UNCHANGED <<lock, manager, mine, open, cast, received>>

\* The finally block: one unsubscribe per address, then disconnect.
Unsubscribe(c) ==
    /\ handler[c] = "unsubscribing"
    /\ lock = Free
    /\ \/ \E a \in mine[c] :
             /\ RemoveSubscription(c, a)
             /\ mine' = [mine EXCEPT ![c] = @ \ {a}]
             /\ UNCHANGED handler
       \/ mine[c] = {} /\ Goto(c, "disconnecting") /\ UNCHANGED <<manager, mine>>
    /\ UNCHANGED <<lock, open, cast, received>>

\* The handler returns, and the server closes the WebSocket.
Disconnect(c) ==
    /\ handler[c] = "disconnecting"
    /\ lock = Free
    /\ Unregister(c)
    /\ HangUp(c)
    /\ Goto(c, "done")
    /\ UNCHANGED <<lock, mine, cast, received>>

\* The client closes its end (external).
ClientLeaves(c) ==
    /\ open[c]
    /\ handler[c] \notin {"start", "done"}
    /\ HangUp(c)
    /\ UNCHANGED <<lock, manager, handler, mine, cast, received>>

-----------------------------------------------------------------------------
(* broadcast_to_address and broadcast_global.                              *)

Subscribers(t) ==
    IF t = All THEN UNION {subscriptions[a] : a \in Addresses} ELSE subscriptions[t]

\* The snapshot is taken under the lock, the sends are not.
Snapshot(b) ==
    /\ stage[b] = "idle"
    /\ lock = Free
    /\ stage' = [stage EXCEPT ![b] = "sending"]
    /\ todo' = [todo EXCEPT ![b] = Subscribers(target[b])]
    /\ UNCHANGED <<target, dead, lock, manager, handler, mine, open, received>>

\* Mutant: the first send that raises ends the broadcast.
Send_StopsAtDead(b, c) ==
    /\ stage[b] = "sending"
    /\ c \in todo[b]
    /\ \/ /\ open[c]
          /\ received' = [received EXCEPT ![c] = @ \cup {b}]
          /\ todo' = [todo EXCEPT ![b] = @ \ {c}]
          /\ UNCHANGED dead
       \/ /\ ~open[c]
          /\ todo' = [todo EXCEPT ![b] = {}]
          /\ dead' = [dead EXCEPT ![b] = @ \cup {c}]
          /\ UNCHANGED received
    /\ UNCHANGED <<stage, target, lock, manager, handler, mine, open>>

\* One send, in the order a set is iterated.  Sending to a client that left
\* raises, or passes unnoticed.
Send(b, c) ==
    /\ stage[b] = "sending"
    /\ c \in todo[b]
    /\ todo' = [todo EXCEPT ![b] = @ \ {c}]
    /\ \/ /\ open[c]
          /\ received' = [received EXCEPT ![c] = @ \cup {b}]
          /\ UNCHANGED dead
       \/ /\ ~open[c]
          /\ dead' \in {dead, [dead EXCEPT ![b] = @ \cup {c}]}
          /\ UNCHANGED received
    /\ UNCHANGED <<stage, target, lock, manager, handler, mine, open>>

\* Mutant: the connections keep the address they lost.
Cleanup_OneIndex(b) ==
    LET covered == IF target[b] = All THEN Addresses ELSE {target[b]} IN
    /\ stage[b] = "sending" /\ todo[b] = {}
    /\ \/ dead[b] = {} /\ UNCHANGED manager
       \/ /\ dead[b] # {} /\ lock = Free
          /\ subscriptions' = [a \in Addresses |-> IF a \in covered
                                 THEN subscriptions[a] \ dead[b] ELSE subscriptions[a]]
          /\ UNCHANGED <<conns, connAddresses, ipConnections, connOwner>>
    /\ stage' = [stage EXCEPT ![b] = "done"]
    /\ UNCHANGED <<target, todo, dead, lock, handler, mine, open, received>>

\* Mutant: one dead subscriber drops them all.
Cleanup_EverySubscriber(b) ==
    LET covered == IF target[b] = All THEN Addresses ELSE {target[b]} IN
    /\ stage[b] = "sending" /\ todo[b] = {}
    /\ \/ dead[b] = {} /\ UNCHANGED manager
       \/ /\ dead[b] # {} /\ lock = Free
          /\ subscriptions' = [a \in Addresses |-> IF a \in covered
                                 THEN {} ELSE subscriptions[a]]
          /\ connAddresses' = [c \in Conns |-> IF c \in conns
                                 THEN connAddresses[c] \ covered ELSE connAddresses[c]]
          /\ UNCHANGED <<conns, ipConnections, connOwner>>
    /\ stage' = [stage EXCEPT ![b] = "done"]
    /\ UNCHANGED <<target, todo, dead, lock, handler, mine, open, received>>

\* The dead lose their subscriptions to the target, or all of them, but stay
\* registered until their handler ends.
Cleanup(b) ==
    LET covered == IF target[b] = All THEN Addresses ELSE {target[b]} IN
    /\ stage[b] = "sending" /\ todo[b] = {}
    /\ \/ dead[b] = {} /\ UNCHANGED manager
       \/ /\ dead[b] # {} /\ lock = Free
          /\ subscriptions' = [a \in Addresses |-> IF a \in covered
                                 THEN subscriptions[a] \ dead[b] ELSE subscriptions[a]]
          /\ connAddresses' = [c \in Conns |-> IF c \in dead[b] \cap conns
                                 THEN connAddresses[c] \ covered ELSE connAddresses[c]]
          /\ UNCHANGED <<conns, ipConnections, connOwner>>
    /\ stage' = [stage EXCEPT ![b] = "done"]
    /\ UNCHANGED <<target, todo, dead, lock, handler, mine, open, received>>

-----------------------------------------------------------------------------

Handler(c) ==
    \/ Connect(c) \/ Accept(c) \/ SubscribeFirst(c) \/ Reject(c) \/ Confirm(c)
    \/ \E a \in Addresses : ReceiveSubscribe(c, a) \/ ReceiveUnsubscribe(c, a)
    \/ ReceiveOther(c) \/ ReceiveMalformed(c) \/ Reply(c)
    \/ ReceiveDisconnect(c) \/ Unsubscribe(c) \/ Disconnect(c)

Broadcast(b) == Snapshot(b) \/ Cleanup(b) \/ \E c \in Conns : Send(b, c)

Next ==
    \/ \E c \in Conns : Handler(c) \/ ClientLeaves(c)
    \/ \E b \in Broadcasts : Broadcast(b)

Spec == Init /\ [][Next]_vars

\* The event loop runs every ready coroutine, asyncio.Lock is fair, and the
\* messages a client left in the buffer are finitely many, so that the
\* disconnect behind them is read.  Clients need not leave, nor talk.
Fairness ==
    /\ \A c \in Conns :
          /\ WF_vars(Accept(c) \/ SubscribeFirst(c) \/ Reject(c) \/ Confirm(c) \/ Reply(c))
          /\ WF_vars(Unsubscribe(c) \/ Disconnect(c))
          /\ SF_vars(ReceiveDisconnect(c))
    /\ \A b \in Broadcasts :
          /\ \A c \in Conns : WF_vars(Send(b, c))
          /\ WF_vars(Cleanup(b))

FairSpec == Spec /\ Fairness

-----------------------------------------------------------------------------
(* Properties.                                                             *)

ManagerTypeOK ==
    /\ conns \subseteq Conns
    /\ connAddresses \in [Conns -> SUBSET Addresses]
    /\ ipConnections \in [Ips -> SUBSET Conns]
    /\ connOwner \in [Conns -> Addresses \cup {NoOwner}]
    /\ subscriptions \in [Addresses -> SUBSET Conns]

TypeOK ==
    /\ ManagerTypeOK
    /\ lock \in Conns \cup {Free}
    /\ handler \in [Conns -> Stages]
    /\ mine \in [Conns -> SUBSET Addresses]
    /\ open \in [Conns -> BOOLEAN]
    /\ stage \in [Broadcasts -> CastStages]
    /\ target \in [Broadcasts -> Addresses \cup {All}]
    /\ todo \in [Broadcasts -> SUBSET Conns]
    /\ dead \in [Broadcasts -> SUBSET Conns]
    /\ received \in [Conns -> SUBSET Broadcasts]

\* The five dictionaries of ConnectionManager tell one story, whatever
\* broadcasts, subscriptions and disconnects overlap: no index keeps a
\* subscription, an IP or an owner that another has dropped.
IndexesAgree ==
    \A c \in Conns :
        /\ \A a \in Addresses : c \in subscriptions[a] <=> a \in connAddresses[c]
        /\ \A i \in Ips : c \in ipConnections[i] <=> c \in conns /\ IpOf[c] = i
        /\ connAddresses[c] # {} => c \in conns
        /\ connOwner[c] = IF c \in conns THEN AddressOf[c] ELSE NoOwner

\* The limits of SEC-A2 hold although connect awaits accept between checking
\* the connection caps and counting the connection.
CapsHold ==
    /\ Cardinality(conns) <= MAX_CONNECTIONS_GLOBAL
    /\ \A i \in Ips : Cardinality(ipConnections[i]) <= MAX_CONNECTIONS_PER_IP
    /\ \A a \in Addresses : Cardinality(subscriptions[a]) <= MAX_SUBS_PER_ADDRESS
    /\ \A c \in Conns : Cardinality(connAddresses[c]) <= MAX_ADDRESSES_PER_CONN

\* SEC-A1: whatever a client asks for and whatever snapshot a broadcast works
\* on, the events of an address reach only connections authenticated for it.
OnlyTheOwnerIsTold ==
    \A c \in Conns, b \in Broadcasts :
        b \in received[c] => target[b] \in {All, AddressOf[c]}

\* The lock is held across an await only by the connection being accepted,
\* for which the caps still leave room.
LockIsForAccept ==
    /\ lock # Free => handler[lock] = "accepting" /\ MayConnect(lock)
    /\ \A c \in Conns : handler[c] = "accepting" => lock = c

\* A connection is registered from accept to the end of its handler.
RegisteredWhileHandled ==
    \A c \in Conns :
        /\ handler[c] \in {"start", "accepting"} => c \notin conns
        /\ handler[c] \in Stages \ {"start", "accepting", "done"} => c \in conns

\* Subscriptions and snapshots hold only connections of the right address.
SnapshotsAreOwned ==
    /\ \A c \in Conns, a \in Addresses : c \in subscriptions[a] => AddressOf[c] = a
    /\ \A b \in Broadcasts : \A c \in todo[b] : target[b] \in {All, AddressOf[c]}

\* Only a connection whose client left is taken for dead.
DeadHaveLeft == \A b \in Broadcasts : \A c \in dead[b] : ~open[c]

\* The inductive invariant.
IInv == /\ TypeOK /\ IndexesAgree /\ CapsHold /\ OnlyTheOwnerIsTold /\ LockIsForAccept
        /\ RegisteredWhileHandled /\ SnapshotsAreOwned /\ DeadHaveLeft

FeedKept ==
    \A c \in Conns, a \in Addresses :
        c \in subscriptions[a] \ subscriptions'[a] /\ open[c]
        => handler'[c] # handler[c] \/ mine'[c] # mine[c]

\* A client that is there loses its feed only by a step of its own handler,
\* never because a broadcast met other connections that were dead.
FeedSurvivesTheDead == [][FeedKept]_vars

\* "A slow or dead client must not stall" the others: every client in the
\* snapshot of a broadcast gets the event or has left.
SubscribersAreServed ==
    \A b \in Broadcasts, c \in Conns :
        c \in todo[b] ~> b \in received[c] \/ ~open[c]

\* Once a handler is in its receive loop, a client that leaves is forgotten:
\* its slot under the caps is free again.
GoneClientsAreReleased ==
    \A c \in Conns : handler[c] \in {"loop", "replying"} /\ ~open[c] ~> c \notin conns

=============================================================================
