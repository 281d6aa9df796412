--------------------------- MODULE WsManagerProofs --------------------------
(***************************************************************************)
(* What TLC checks of WsManager on three connections, proved for every     *)
(* set of connections, addresses, IPs and broadcasts and for every cap.    *)
(*                                                                         *)
(* IInv is inductive.  The caps survive the await inside connect because   *)
(* the lock is held for the connection whose caps were checked             *)
(* (LockIsForAccept); the indexes agree because every handler registers    *)
(* and unregisters once (RegisteredWhileHandled); an event reaches owners  *)
(* only because snapshots are taken from owned subscriptions               *)
(* (SnapshotsAreOwned); and a broadcast unsubscribes only clients that     *)
(* left (DeadHaveLeft), the rest of the argument for FeedSurvivesTheDead.  *)
(***************************************************************************)
EXTENDS WsManager, FiniteSetTheorems, TLAPS

(* Adding to a set below a bound, or taking from one at it, stays within.  *)
LEMMA SetBounds ==
    ASSUME NEW S, IsFiniteSet(S), NEW n \in Nat, Cardinality(S) <= n
    PROVE  /\ \A T \in SUBSET S : Cardinality(T) <= n
           /\ \A x : Cardinality(S) < n => Cardinality(S \cup {x}) <= n
<1>1. Cardinality(S) \in Nat
  BY FS_CardinalityType
<1>2. ASSUME NEW T \in SUBSET S
      PROVE  Cardinality(T) <= n
  <2>1. IsFiniteSet(T) /\ Cardinality(T) <= Cardinality(S)
    BY FS_Subset
  <2>2. Cardinality(T) \in Nat
    BY <2>1, FS_CardinalityType
  <2> QED
    BY <1>1, <2>1, <2>2
<1>3. ASSUME NEW x, Cardinality(S) < n
      PROVE  Cardinality(S \cup {x}) <= n
  BY <1>1, <1>3, FS_AddElement
<1> QED
  BY <1>2, <1>3

(* What subscribe, unsubscribe and disconnect do keeps the types...        *)
LEMMA OperationTypes ==
    ASSUME TypeOK, NEW c \in Conns, NEW a \in Addresses,
           AddSubscription(c, a) \/ RemoveSubscription(c, a) \/ Unregister(c)
    PROVE  ManagerTypeOK'
<1> USE DEF TypeOK, ManagerTypeOK
<1>1. CASE AddSubscription(c, a)
  BY <1>1 DEF AddSubscription
<1>2. CASE RemoveSubscription(c, a)
  BY <1>2 DEF RemoveSubscription
<1>3. CASE Unregister(c)
  BY <1>3, WsAssumption DEF Unregister
<1> QED
  BY <1>1, <1>2, <1>3

(* ...and the indexes in agreement.                                        *)
LEMMA AddKeepsIndexes ==
    ASSUME TypeOK, IndexesAgree, NEW c \in conns, NEW a \in Addresses, AddSubscription(c, a)
    PROVE  IndexesAgree'
  BY DEF TypeOK, ManagerTypeOK, IndexesAgree, AddSubscription

LEMMA RemoveKeepsIndexes ==
    ASSUME TypeOK, IndexesAgree, NEW c \in Conns, NEW a \in Addresses, RemoveSubscription(c, a)
    PROVE  IndexesAgree'
  BY DEF TypeOK, ManagerTypeOK, IndexesAgree, RemoveSubscription

LEMMA UnregisterKeepsIndexes ==
    ASSUME TypeOK, IndexesAgree, NEW c \in Conns, Unregister(c)
    PROVE  IndexesAgree'
  BY WsAssumption DEF TypeOK, ManagerTypeOK, IndexesAgree, Unregister

(* The inductive step of IInv, one conjunct at a time.                     *)
(* The dictionaries keep their types...                                    *)
LEMMA ManagerTypeStep ==
    ASSUME IInv, [Next]_vars
    PROVE  ManagerTypeOK'
<1> USE DEF IInv, TypeOK, manager
<1>1. ASSUME NEW c \in Conns, Connect(c)
      PROVE  ManagerTypeOK'
  BY <1>1 DEF Connect, ManagerTypeOK
<1>2. ASSUME NEW c \in Conns, Accept(c)
      PROVE  ManagerTypeOK'
  <2>1. AddressOf[c] \in Addresses /\ IpOf[c] \in Ips
    BY WsAssumption
  <2>2. CASE UNCHANGED manager
    BY <2>2 DEF ManagerTypeOK
  <2>3. CASE handler' = [handler EXCEPT ![c] = "subscribing"]
    BY <1>2, <2>1, <2>3 DEF Accept, ManagerTypeOK, Goto
  <2> QED
    BY <1>2, <2>2, <2>3 DEF Accept, Goto
<1>3. ASSUME NEW c \in Conns, SubscribeFirst(c)
      PROVE  ManagerTypeOK'
  <2>1. AddressOf[c] \in Addresses
    BY WsAssumption
  <2> QED
    BY <1>3, <2>1, OperationTypes DEF SubscribeFirst, ManagerTypeOK
<1>4. ASSUME NEW c \in Conns, Reject(c)
      PROVE  ManagerTypeOK'
  <2>1. AddressOf[c] \in Addresses
    BY WsAssumption
  <2> QED
    BY <1>4, <2>1, OperationTypes DEF Reject
<1>5. ASSUME NEW c \in Conns, Confirm(c)
      PROVE  ManagerTypeOK'
  BY <1>5 DEF Confirm, ManagerTypeOK
<1>6. ASSUME NEW c \in Conns, NEW a \in Addresses, ReceiveSubscribe(c, a)
      PROVE  ManagerTypeOK'
  BY <1>6, OperationTypes DEF ReceiveSubscribe
<1>7. ASSUME NEW c \in Conns, NEW a \in Addresses, ReceiveUnsubscribe(c, a)
      PROVE  ManagerTypeOK'
  BY <1>7, OperationTypes DEF ReceiveUnsubscribe
<1>8. ASSUME NEW c \in Conns, ReceiveOther(c)
      PROVE  ManagerTypeOK'
  BY <1>8 DEF ReceiveOther, ManagerTypeOK
<1>9. ASSUME NEW c \in Conns, ReceiveMalformed(c)
      PROVE  ManagerTypeOK'
  BY <1>9 DEF ReceiveMalformed, ManagerTypeOK
<1>10. ASSUME NEW c \in Conns, Reply(c)
      PROVE  ManagerTypeOK'
  BY <1>10 DEF Reply, ManagerTypeOK
<1>11. ASSUME NEW c \in Conns, ReceiveDisconnect(c)
      PROVE  ManagerTypeOK'
  BY <1>11 DEF ReceiveDisconnect, ManagerTypeOK
<1>12. ASSUME NEW c \in Conns, Unsubscribe(c)
      PROVE  ManagerTypeOK'
  BY <1>12, OperationTypes DEF Unsubscribe, ManagerTypeOK
<1>13. ASSUME NEW c \in Conns, Disconnect(c)
      PROVE  ManagerTypeOK'
  <2>1. AddressOf[c] \in Addresses
    BY WsAssumption
  <2> QED
    BY <1>13, <2>1, OperationTypes DEF Disconnect
<1>14. ASSUME NEW c \in Conns, ClientLeaves(c)
      PROVE  ManagerTypeOK'
  BY <1>14 DEF ClientLeaves, ManagerTypeOK
<1>15. ASSUME NEW b \in Broadcasts, Snapshot(b)
      PROVE  ManagerTypeOK'
  BY <1>15 DEF Snapshot, ManagerTypeOK
<1>16. ASSUME NEW b \in Broadcasts, NEW c \in Conns, Send(b, c)
      PROVE  ManagerTypeOK'
  BY <1>16 DEF Send, ManagerTypeOK
<1>17. ASSUME NEW b \in Broadcasts, Cleanup(b)
      PROVE  ManagerTypeOK'
  BY <1>17 DEF Cleanup, ManagerTypeOK
<1>18. CASE UNCHANGED vars
  BY <1>18 DEF vars, manager, ManagerTypeOK
<1> QED
  BY <1>1, <1>2, <1>3, <1>4, <1>5, <1>6, <1>7, <1>8, <1>9, <1>10, <1>11, <1>12, <1>13, <1>14, <1>15, <1>16, <1>17, <1>18 DEF Next, Handler, Broadcast

(* ...and so does the rest of the state.                                   *)
LEMMA TypeStep ==
    ASSUME IInv, [Next]_vars
    PROVE  TypeOK'
<1> USE ManagerTypeStep DEF IInv, TypeOK, Goto, HangUp, Stages, CastStages, cast
<1>1. ASSUME NEW c \in Conns, Connect(c)
      PROVE  TypeOK'
  BY <1>1, WsAssumption DEF Connect
<1>2. ASSUME NEW c \in Conns, Accept(c)
      PROVE  TypeOK'
  BY <1>2 DEF Accept
<1>3. ASSUME NEW c \in Conns, SubscribeFirst(c)
      PROVE  TypeOK'
  BY <1>3 DEF SubscribeFirst
<1>4. ASSUME NEW c \in Conns, Reject(c)
      PROVE  TypeOK'
  BY <1>4 DEF Reject
<1>5. ASSUME NEW c \in Conns, Confirm(c)
      PROVE  TypeOK'
  <2>1. mine' \in [Conns -> SUBSET Addresses]
    BY <1>5, WsAssumption DEF Confirm
  <2> QED
    BY <1>5, <2>1 DEF Confirm
<1>6. ASSUME NEW c \in Conns, NEW a \in Addresses, ReceiveSubscribe(c, a)
      PROVE  TypeOK'
  BY <1>6 DEF ReceiveSubscribe
<1>7. ASSUME NEW c \in Conns, NEW a \in Addresses, ReceiveUnsubscribe(c, a)
      PROVE  TypeOK'
  <2>1. mine' \in [Conns -> SUBSET Addresses]
    BY <1>7 DEF ReceiveUnsubscribe
  <2> QED
    BY <1>7, <2>1 DEF ReceiveUnsubscribe
<1>8. ASSUME NEW c \in Conns, ReceiveOther(c)
      PROVE  TypeOK'
  BY <1>8 DEF ReceiveOther
<1>9. ASSUME NEW c \in Conns, ReceiveMalformed(c)
      PROVE  TypeOK'
  BY <1>9 DEF ReceiveMalformed
<1>10. ASSUME NEW c \in Conns, Reply(c)
      PROVE  TypeOK'
  BY <1>10 DEF Reply
<1>11. ASSUME NEW c \in Conns, ReceiveDisconnect(c)
      PROVE  TypeOK'
  BY <1>11 DEF ReceiveDisconnect
<1>12. ASSUME NEW c \in Conns, Unsubscribe(c)
      PROVE  TypeOK'
  BY <1>12 DEF Unsubscribe
<1>13. ASSUME NEW c \in Conns, Disconnect(c)
      PROVE  TypeOK'
  BY <1>13 DEF Disconnect
<1>14. ASSUME NEW c \in Conns, ClientLeaves(c)
      PROVE  TypeOK'
  BY <1>14 DEF ClientLeaves
<1>15. ASSUME NEW b \in Broadcasts, Snapshot(b)
      PROVE  TypeOK'
  BY <1>15 DEF Snapshot, Subscribers, ManagerTypeOK
<1>16. ASSUME NEW b \in Broadcasts, NEW c \in Conns, Send(b, c)
      PROVE  TypeOK'
  BY <1>16 DEF Send
<1>17. ASSUME NEW b \in Broadcasts, Cleanup(b)
      PROVE  TypeOK'
  BY <1>17 DEF Cleanup
<1>18. CASE UNCHANGED vars
  BY <1>18 DEF vars
<1> QED
  BY <1>1, <1>2, <1>3, <1>4, <1>5, <1>6, <1>7, <1>8, <1>9, <1>10, <1>11, <1>12, <1>13, <1>14, <1>15, <1>16, <1>17, <1>18 DEF Next, Handler, Broadcast

(* The dictionaries agree after every step.                                *)
LEMMA IndexStep ==
    ASSUME IInv, [Next]_vars
    PROVE  IndexesAgree'
<1> USE DEF IInv, IndexesAgree, manager
<1>1. ASSUME NEW c \in Conns, Connect(c)
      PROVE  IndexesAgree'
  BY <1>1 DEF Connect
<1>2. ASSUME NEW c \in Conns, Accept(c)
      PROVE  IndexesAgree'
  BY <1>2, WsAssumption DEF Accept, TypeOK, ManagerTypeOK, RegisteredWhileHandled, Goto
<1>3. ASSUME NEW c \in Conns, SubscribeFirst(c)
      PROVE  IndexesAgree'
  <2>1. CASE AddSubscription(c, AddressOf[c])
    <3>1. c \in conns /\ AddressOf[c] \in Addresses
      BY <1>3, WsAssumption DEF SubscribeFirst, RegisteredWhileHandled, Stages
    <3> QED
      BY <2>1, <3>1, AddKeepsIndexes
  <2>2. CASE UNCHANGED manager
    BY <2>2
  <2> QED
    BY <1>3, <2>1, <2>2 DEF SubscribeFirst
<1>4. ASSUME NEW c \in Conns, Reject(c)
      PROVE  IndexesAgree'
  BY <1>4, UnregisterKeepsIndexes DEF Reject
<1>5. ASSUME NEW c \in Conns, Confirm(c)
      PROVE  IndexesAgree'
  BY <1>5 DEF Confirm
<1>6. ASSUME NEW c \in Conns, NEW a \in Addresses, ReceiveSubscribe(c, a)
      PROVE  IndexesAgree'
  <2>1. c \in conns /\ AddSubscription(c, a)
    BY <1>6 DEF ReceiveSubscribe, RegisteredWhileHandled, Stages
  <2> QED
    BY <2>1, AddKeepsIndexes
<1>7. ASSUME NEW c \in Conns, NEW a \in Addresses, ReceiveUnsubscribe(c, a)
      PROVE  IndexesAgree'
  BY <1>7, RemoveKeepsIndexes DEF ReceiveUnsubscribe
<1>8. ASSUME NEW c \in Conns, ReceiveOther(c)
      PROVE  IndexesAgree'
  BY <1>8 DEF ReceiveOther
<1>9. ASSUME NEW c \in Conns, ReceiveMalformed(c)
      PROVE  IndexesAgree'
  BY <1>9 DEF ReceiveMalformed
<1>10. ASSUME NEW c \in Conns, Reply(c)
      PROVE  IndexesAgree'
  BY <1>10 DEF Reply
<1>11. ASSUME NEW c \in Conns, ReceiveDisconnect(c)
      PROVE  IndexesAgree'
  BY <1>11 DEF ReceiveDisconnect
<1>12. ASSUME NEW c \in Conns, Unsubscribe(c)
      PROVE  IndexesAgree'
  <2>1. CASE UNCHANGED manager
    BY <2>1
  <2>2. ASSUME NEW a \in Addresses, RemoveSubscription(c, a)
        PROVE  IndexesAgree'
    BY <2>2, RemoveKeepsIndexes
  <2> QED
    BY <1>12, <2>1, <2>2 DEF Unsubscribe, TypeOK, ManagerTypeOK
<1>13. ASSUME NEW c \in Conns, Disconnect(c)
      PROVE  IndexesAgree'
  BY <1>13, UnregisterKeepsIndexes DEF Disconnect
<1>14. ASSUME NEW c \in Conns, ClientLeaves(c)
      PROVE  IndexesAgree'
  BY <1>14 DEF ClientLeaves
<1>15. ASSUME NEW b \in Broadcasts, Snapshot(b)
      PROVE  IndexesAgree'
  BY <1>15 DEF Snapshot
<1>16. ASSUME NEW b \in Broadcasts, NEW c \in Conns, Send(b, c)
      PROVE  IndexesAgree'
  BY <1>16 DEF Send
<1>17. ASSUME NEW b \in Broadcasts, Cleanup(b)
      PROVE  IndexesAgree'
  BY <1>17 DEF Cleanup, TypeOK, ManagerTypeOK
<1>18. CASE UNCHANGED vars
  BY <1>18 DEF vars, manager
<1> QED
  BY <1>1, <1>2, <1>3, <1>4, <1>5, <1>6, <1>7, <1>8, <1>9, <1>10, <1>11, <1>12, <1>13, <1>14, <1>15, <1>16, <1>17, <1>18 DEF Next, Handler, Broadcast

(* The caps still hold when accept returns: nobody else took the lock.     *)
LEMMA LockStep ==
    ASSUME IInv, [Next]_vars
    PROVE  LockIsForAccept'
<1> USE WsAssumption DEF IInv, TypeOK, ManagerTypeOK, LockIsForAccept, MayConnect, Goto, HangUp, Stages, manager, cast
<1>1. ASSUME NEW c \in Conns, Connect(c)
      PROVE  LockIsForAccept'
  BY <1>1 DEF Connect
<1>2. ASSUME NEW c \in Conns, Accept(c)
      PROVE  LockIsForAccept'
  BY <1>2 DEF Accept
<1>3. ASSUME NEW c \in Conns, SubscribeFirst(c)
      PROVE  LockIsForAccept'
  BY <1>3 DEF SubscribeFirst
<1>4. ASSUME NEW c \in Conns, Reject(c)
      PROVE  LockIsForAccept'
  BY <1>4 DEF Reject
<1>5. ASSUME NEW c \in Conns, Confirm(c)
      PROVE  LockIsForAccept'
  BY <1>5 DEF Confirm
<1>6. ASSUME NEW c \in Conns, NEW a \in Addresses, ReceiveSubscribe(c, a)
      PROVE  LockIsForAccept'
  BY <1>6 DEF ReceiveSubscribe
<1>7. ASSUME NEW c \in Conns, NEW a \in Addresses, ReceiveUnsubscribe(c, a)
      PROVE  LockIsForAccept'
  BY <1>7 DEF ReceiveUnsubscribe
<1>8. ASSUME NEW c \in Conns, ReceiveOther(c)
      PROVE  LockIsForAccept'
  BY <1>8 DEF ReceiveOther
<1>9. ASSUME NEW c \in Conns, ReceiveMalformed(c)
      PROVE  LockIsForAccept'
  BY <1>9 DEF ReceiveMalformed
<1>10. ASSUME NEW c \in Conns, Reply(c)
      PROVE  LockIsForAccept'
  BY <1>10 DEF Reply
<1>11. ASSUME NEW c \in Conns, ReceiveDisconnect(c)
      PROVE  LockIsForAccept'
  BY <1>11 DEF ReceiveDisconnect
<1>12. ASSUME NEW c \in Conns, Unsubscribe(c)
      PROVE  LockIsForAccept'
  BY <1>12 DEF Unsubscribe
<1>13. ASSUME NEW c \in Conns, Disconnect(c)
      PROVE  LockIsForAccept'
  BY <1>13 DEF Disconnect
<1>14. ASSUME NEW c \in Conns, ClientLeaves(c)
      PROVE  LockIsForAccept'
  BY <1>14 DEF ClientLeaves
<1>15. ASSUME NEW b \in Broadcasts, Snapshot(b)
      PROVE  LockIsForAccept'
  BY <1>15 DEF Snapshot
<1>16. ASSUME NEW b \in Broadcasts, NEW c \in Conns, Send(b, c)
      PROVE  LockIsForAccept'
  BY <1>16 DEF Send
<1>17. ASSUME NEW b \in Broadcasts, Cleanup(b)
      PROVE  LockIsForAccept'
  BY <1>17 DEF Cleanup
<1>18. CASE UNCHANGED vars
  BY <1>18 DEF vars, manager
<1> QED
  BY <1>1, <1>2, <1>3, <1>4, <1>5, <1>6, <1>7, <1>8, <1>9, <1>10, <1>11, <1>12, <1>13, <1>14, <1>15, <1>16, <1>17, <1>18 DEF Next, Handler, Broadcast

(* A handler between accept and its end is registered.                     *)
LEMMA RegisteredStep ==
    ASSUME IInv, [Next]_vars
    PROVE  RegisteredWhileHandled'
<1> USE DEF IInv, TypeOK, ManagerTypeOK, RegisteredWhileHandled, Goto, Stages, manager, cast
<1>1. ASSUME NEW c \in Conns, Connect(c)
      PROVE  RegisteredWhileHandled'
  BY <1>1 DEF Connect
<1>2. ASSUME NEW c \in Conns, Accept(c)
      PROVE  RegisteredWhileHandled'
  BY <1>2 DEF Accept
<1>3. ASSUME NEW c \in Conns, SubscribeFirst(c)
      PROVE  RegisteredWhileHandled'
  BY <1>3 DEF SubscribeFirst, AddSubscription
<1>4. ASSUME NEW c \in Conns, Reject(c)
      PROVE  RegisteredWhileHandled'
  BY <1>4 DEF Reject, Unregister
<1>5. ASSUME NEW c \in Conns, Confirm(c)
      PROVE  RegisteredWhileHandled'
  BY <1>5 DEF Confirm
<1>6. ASSUME NEW c \in Conns, NEW a \in Addresses, ReceiveSubscribe(c, a)
      PROVE  RegisteredWhileHandled'
  BY <1>6 DEF ReceiveSubscribe, AddSubscription
<1>7. ASSUME NEW c \in Conns, NEW a \in Addresses, ReceiveUnsubscribe(c, a)
      PROVE  RegisteredWhileHandled'
  BY <1>7 DEF ReceiveUnsubscribe, RemoveSubscription
<1>8. ASSUME NEW c \in Conns, ReceiveOther(c)
      PROVE  RegisteredWhileHandled'
  BY <1>8 DEF ReceiveOther
<1>9. ASSUME NEW c \in Conns, ReceiveMalformed(c)
      PROVE  RegisteredWhileHandled'
  BY <1>9 DEF ReceiveMalformed
<1>10. ASSUME NEW c \in Conns, Reply(c)
      PROVE  RegisteredWhileHandled'
  BY <1>10 DEF Reply
<1>11. ASSUME NEW c \in Conns, ReceiveDisconnect(c)
      PROVE  RegisteredWhileHandled'
  BY <1>11 DEF ReceiveDisconnect
<1>12. ASSUME NEW c \in Conns, Unsubscribe(c)
      PROVE  RegisteredWhileHandled'
  BY <1>12 DEF Unsubscribe, RemoveSubscription
<1>13. ASSUME NEW c \in Conns, Disconnect(c)
      PROVE  RegisteredWhileHandled'
  BY <1>13 DEF Disconnect, Unregister
<1>14. ASSUME NEW c \in Conns, ClientLeaves(c)
      PROVE  RegisteredWhileHandled'
  BY <1>14 DEF ClientLeaves
<1>15. ASSUME NEW b \in Broadcasts, Snapshot(b)
      PROVE  RegisteredWhileHandled'
  BY <1>15 DEF Snapshot
<1>16. ASSUME NEW b \in Broadcasts, NEW c \in Conns, Send(b, c)
      PROVE  RegisteredWhileHandled'
  BY <1>16 DEF Send
<1>17. ASSUME NEW b \in Broadcasts, Cleanup(b)
      PROVE  RegisteredWhileHandled'
  BY <1>17 DEF Cleanup
<1>18. CASE UNCHANGED vars
  BY <1>18 DEF vars, manager
<1> QED
  BY <1>1, <1>2, <1>3, <1>4, <1>5, <1>6, <1>7, <1>8, <1>9, <1>10, <1>11, <1>12, <1>13, <1>14, <1>15, <1>16, <1>17, <1>18 DEF Next, Handler, Broadcast

(* Events go to owners, and only those who left are taken for dead.        *)
LEMMA SnapshotStep ==
    ASSUME IInv, [Next]_vars
    PROVE  SnapshotsAreOwned' /\ DeadHaveLeft' /\ OnlyTheOwnerIsTold'
<1> USE DEF IInv, TypeOK, ManagerTypeOK, SnapshotsAreOwned, DeadHaveLeft, OnlyTheOwnerIsTold, HangUp, manager, cast
<1>1. ASSUME NEW c \in Conns, Connect(c)
      PROVE  SnapshotsAreOwned' /\ DeadHaveLeft' /\ OnlyTheOwnerIsTold'
  BY <1>1 DEF Connect
<1>2. ASSUME NEW c \in Conns, Accept(c)
      PROVE  SnapshotsAreOwned' /\ DeadHaveLeft' /\ OnlyTheOwnerIsTold'
  BY <1>2 DEF Accept
<1>3. ASSUME NEW c \in Conns, SubscribeFirst(c)
      PROVE  SnapshotsAreOwned' /\ DeadHaveLeft' /\ OnlyTheOwnerIsTold'
  <2>1. UNCHANGED <<target, todo, dead, open, received>>
    BY <1>3 DEF SubscribeFirst
  <2>2. SnapshotsAreOwned'
    BY <1>3, <2>1, WsAssumption DEF SubscribeFirst, AddSubscription
  <2> QED
    BY <2>1, <2>2
<1>4. ASSUME NEW c \in Conns, Reject(c)
      PROVE  SnapshotsAreOwned' /\ DeadHaveLeft' /\ OnlyTheOwnerIsTold'
  BY <1>4 DEF Reject, Unregister
<1>5. ASSUME NEW c \in Conns, Confirm(c)
      PROVE  SnapshotsAreOwned' /\ DeadHaveLeft' /\ OnlyTheOwnerIsTold'
  BY <1>5 DEF Confirm
<1>6. ASSUME NEW c \in Conns, NEW a \in Addresses, ReceiveSubscribe(c, a)
      PROVE  SnapshotsAreOwned' /\ DeadHaveLeft' /\ OnlyTheOwnerIsTold'
  BY <1>6 DEF ReceiveSubscribe, AddSubscription
<1>7. ASSUME NEW c \in Conns, NEW a \in Addresses, ReceiveUnsubscribe(c, a)
      PROVE  SnapshotsAreOwned' /\ DeadHaveLeft' /\ OnlyTheOwnerIsTold'
  BY <1>7 DEF ReceiveUnsubscribe, RemoveSubscription
<1>8. ASSUME NEW c \in Conns, ReceiveOther(c)
      PROVE  SnapshotsAreOwned' /\ DeadHaveLeft' /\ OnlyTheOwnerIsTold'
  BY <1>8 DEF ReceiveOther
<1>9. ASSUME NEW c \in Conns, ReceiveMalformed(c)
      PROVE  SnapshotsAreOwned' /\ DeadHaveLeft' /\ OnlyTheOwnerIsTold'
  BY <1>9 DEF ReceiveMalformed
<1>10. ASSUME NEW c \in Conns, Reply(c)
      PROVE  SnapshotsAreOwned' /\ DeadHaveLeft' /\ OnlyTheOwnerIsTold'
  BY <1>10 DEF Reply
<1>11. ASSUME NEW c \in Conns, ReceiveDisconnect(c)
      PROVE  SnapshotsAreOwned' /\ DeadHaveLeft' /\ OnlyTheOwnerIsTold'
  BY <1>11 DEF ReceiveDisconnect
<1>12. ASSUME NEW c \in Conns, Unsubscribe(c)
      PROVE  SnapshotsAreOwned' /\ DeadHaveLeft' /\ OnlyTheOwnerIsTold'
  BY <1>12 DEF Unsubscribe, RemoveSubscription
<1>13. ASSUME NEW c \in Conns, Disconnect(c)
      PROVE  SnapshotsAreOwned' /\ DeadHaveLeft' /\ OnlyTheOwnerIsTold'
  BY <1>13 DEF Disconnect, Unregister
<1>14. ASSUME NEW c \in Conns, ClientLeaves(c)
      PROVE  SnapshotsAreOwned' /\ DeadHaveLeft' /\ OnlyTheOwnerIsTold'
  BY <1>14 DEF ClientLeaves
<1>15. ASSUME NEW b \in Broadcasts, Snapshot(b)
      PROVE  SnapshotsAreOwned' /\ DeadHaveLeft' /\ OnlyTheOwnerIsTold'
  BY <1>15, WsAssumption DEF Snapshot, Subscribers
<1>16. ASSUME NEW b \in Broadcasts, NEW c \in Conns, Send(b, c)
      PROVE  SnapshotsAreOwned' /\ DeadHaveLeft' /\ OnlyTheOwnerIsTold'
  BY <1>16 DEF Send
<1>17. ASSUME NEW b \in Broadcasts, Cleanup(b)
      PROVE  SnapshotsAreOwned' /\ DeadHaveLeft' /\ OnlyTheOwnerIsTold'
  BY <1>17 DEF Cleanup
<1>18. CASE UNCHANGED vars
  BY <1>18 DEF vars, manager
<1> QED
  BY <1>1, <1>2, <1>3, <1>4, <1>5, <1>6, <1>7, <1>8, <1>9, <1>10, <1>11, <1>12, <1>13, <1>14, <1>15, <1>16, <1>17, <1>18 DEF Next, Handler, Broadcast

(* The sets the caps count are finite.                                     *)
LEMMA CountedSets ==
    ASSUME TypeOK
    PROVE  /\ IsFiniteSet(conns)
           /\ \A i \in Ips : IsFiniteSet(ipConnections[i])
           /\ \A a \in Addresses : IsFiniteSet(subscriptions[a])
           /\ \A c \in Conns : IsFiniteSet(connAddresses[c])
<1>1. /\ \A T \in SUBSET Conns : IsFiniteSet(T)
      /\ \A T \in SUBSET Addresses : IsFiniteSet(T)
  BY FS_Subset, WsAssumption
<1> QED
  BY <1>1 DEF TypeOK, ManagerTypeOK

(* A step that registers and subscribes nothing keeps the caps.            *)
LEMMA ShrinkingKeepsCaps ==
    ASSUME TypeOK, CapsHold,
           conns' \subseteq conns,
           \A i \in Ips : ipConnections'[i] \subseteq ipConnections[i],
           \A a \in Addresses : subscriptions'[a] \subseteq subscriptions[a],
           \A c \in Conns : connAddresses'[c] \subseteq connAddresses[c]
    PROVE  CapsHold'
<1> USE WsAssumption, CountedSets, SetBounds DEF CapsHold
<1>1. Cardinality(conns') <= MAX_CONNECTIONS_GLOBAL
  OBVIOUS
<1>2. ASSUME NEW i \in Ips
      PROVE  Cardinality(ipConnections'[i]) <= MAX_CONNECTIONS_PER_IP
  OBVIOUS
<1>3. ASSUME NEW a \in Addresses
      PROVE  Cardinality(subscriptions'[a]) <= MAX_SUBS_PER_ADDRESS
  OBVIOUS
<1>4. ASSUME NEW c \in Conns
      PROVE  Cardinality(connAddresses'[c]) <= MAX_ADDRESSES_PER_CONN
  OBVIOUS
<1> QED
  BY <1>1, <1>2, <1>3, <1>4

LEMMA AddKeepsCaps ==
    ASSUME TypeOK, CapsHold, NEW c \in Conns, NEW a \in Addresses,
           MaySubscribe(c, a), AddSubscription(c, a)
    PROVE  CapsHold'
<1>1. Cardinality(subscriptions[a] \cup {c}) <= MAX_SUBS_PER_ADDRESS
  BY CountedSets, SetBounds, WsAssumption DEF CapsHold, MaySubscribe
<1>2. Cardinality(connAddresses[c] \cup {a}) <= MAX_ADDRESSES_PER_CONN
  BY CountedSets, SetBounds, WsAssumption DEF CapsHold, MaySubscribe
<1> QED
  BY <1>1, <1>2 DEF TypeOK, ManagerTypeOK, CapsHold, AddSubscription

LEMMA AcceptKeepsCaps ==
    ASSUME TypeOK, CapsHold, LockIsForAccept, NEW c \in Conns, Accept(c)
    PROVE  CapsHold'
<1>1. CASE UNCHANGED manager
  BY <1>1 DEF CapsHold, manager
<1>2. CASE /\ conns' = conns \cup {c}
           /\ connAddresses' = [connAddresses EXCEPT ![c] = {}]
           /\ ipConnections' = [ipConnections EXCEPT ![IpOf[c]] = @ \cup {c}]
           /\ UNCHANGED subscriptions
  <2>1. MayConnect(c)
    BY WsAssumption DEF Accept, LockIsForAccept
  <2>2. IpOf[c] \in Ips
    BY WsAssumption
  <2>3. Cardinality(conns \cup {c}) <= MAX_CONNECTIONS_GLOBAL
    BY <2>1, CountedSets, SetBounds, WsAssumption DEF CapsHold, MayConnect
  <2>4. Cardinality(ipConnections[IpOf[c]] \cup {c}) <= MAX_CONNECTIONS_PER_IP
    BY <2>1, <2>2, CountedSets, SetBounds, WsAssumption DEF CapsHold, MayConnect
  <2>5. Cardinality({}) <= MAX_ADDRESSES_PER_CONN
    BY FS_EmptySet, WsAssumption
  <2> QED
    BY <1>2, <2>2, <2>3, <2>4, <2>5 DEF TypeOK, ManagerTypeOK, CapsHold
<1> QED
  BY <1>1, <1>2 DEF Accept

(* Every step stays within the caps.                                       *)
LEMMA CapsStep ==
    ASSUME IInv, [Next]_vars
    PROVE  CapsHold'
<1> USE DEF IInv, manager
<1>1. ASSUME NEW c \in Conns, Connect(c)
      PROVE  CapsHold'
  BY <1>1 DEF Connect, CapsHold
<1>2. ASSUME NEW c \in Conns, Accept(c)
      PROVE  CapsHold'
  BY <1>2, AcceptKeepsCaps
<1>3. ASSUME NEW c \in Conns, SubscribeFirst(c)
      PROVE  CapsHold'
  <2>1. AddressOf[c] \in Addresses
    BY WsAssumption
  <2> QED
    BY <1>3, <2>1, AddKeepsCaps DEF SubscribeFirst, CapsHold
<1>4. ASSUME NEW c \in Conns, Reject(c)
      PROVE  CapsHold'
  BY <1>4, ShrinkingKeepsCaps DEF Reject, Unregister, TypeOK, ManagerTypeOK
<1>5. ASSUME NEW c \in Conns, Confirm(c)
      PROVE  CapsHold'
  BY <1>5 DEF Confirm, CapsHold
<1>6. ASSUME NEW c \in Conns, NEW a \in Addresses, ReceiveSubscribe(c, a)
      PROVE  CapsHold'
  BY <1>6, AddKeepsCaps DEF ReceiveSubscribe
<1>7. ASSUME NEW c \in Conns, NEW a \in Addresses, ReceiveUnsubscribe(c, a)
      PROVE  CapsHold'
  BY <1>7, ShrinkingKeepsCaps DEF ReceiveUnsubscribe, RemoveSubscription, TypeOK, ManagerTypeOK
<1>8. ASSUME NEW c \in Conns, ReceiveOther(c)
      PROVE  CapsHold'
  BY <1>8 DEF ReceiveOther, CapsHold
<1>9. ASSUME NEW c \in Conns, ReceiveMalformed(c)
      PROVE  CapsHold'
  BY <1>9 DEF ReceiveMalformed, CapsHold
<1>10. ASSUME NEW c \in Conns, Reply(c)
      PROVE  CapsHold'
  BY <1>10 DEF Reply, CapsHold
<1>11. ASSUME NEW c \in Conns, ReceiveDisconnect(c)
      PROVE  CapsHold'
  BY <1>11 DEF ReceiveDisconnect, CapsHold
<1>12. ASSUME NEW c \in Conns, Unsubscribe(c)
      PROVE  CapsHold'
  BY <1>12, ShrinkingKeepsCaps DEF Unsubscribe, RemoveSubscription, TypeOK, ManagerTypeOK
<1>13. ASSUME NEW c \in Conns, Disconnect(c)
      PROVE  CapsHold'
  BY <1>13, ShrinkingKeepsCaps DEF Disconnect, Unregister, TypeOK, ManagerTypeOK
<1>14. ASSUME NEW c \in Conns, ClientLeaves(c)
      PROVE  CapsHold'
  BY <1>14 DEF ClientLeaves, CapsHold
<1>15. ASSUME NEW b \in Broadcasts, Snapshot(b)
      PROVE  CapsHold'
  BY <1>15 DEF Snapshot, CapsHold
<1>16. ASSUME NEW b \in Broadcasts, NEW c \in Conns, Send(b, c)
      PROVE  CapsHold'
  BY <1>16 DEF Send, CapsHold
<1>17. ASSUME NEW b \in Broadcasts, Cleanup(b)
      PROVE  CapsHold'
  BY <1>17, ShrinkingKeepsCaps DEF Cleanup, TypeOK, ManagerTypeOK
<1>18. CASE UNCHANGED vars
  BY <1>18 DEF vars, manager, CapsHold
<1> QED
  BY <1>1, <1>2, <1>3, <1>4, <1>5, <1>6, <1>7, <1>8, <1>9, <1>10, <1>11, <1>12, <1>13, <1>14, <1>15, <1>16, <1>17, <1>18 DEF Next, Handler, Broadcast

(* No step but its handler's own takes the feed from a client.             *)
LEMMA FeedStep ==
    ASSUME IInv, [Next]_vars
    PROVE  FeedKept
<1> USE DEF IInv, FeedKept, manager
<1>1. ASSUME NEW c \in Conns, Connect(c)
      PROVE  FeedKept
  BY <1>1 DEF Connect
<1>2. ASSUME NEW c \in Conns, Accept(c)
      PROVE  FeedKept
  BY <1>2 DEF Accept
<1>3. ASSUME NEW c \in Conns, SubscribeFirst(c)
      PROVE  FeedKept
  BY <1>3 DEF SubscribeFirst, AddSubscription, TypeOK, ManagerTypeOK
<1>4. ASSUME NEW c \in Conns, Reject(c)
      PROVE  FeedKept
  BY <1>4 DEF Reject, Unregister, TypeOK, ManagerTypeOK, Goto, IndexesAgree
<1>5. ASSUME NEW c \in Conns, Confirm(c)
      PROVE  FeedKept
  BY <1>5 DEF Confirm
<1>6. ASSUME NEW c \in Conns, NEW a \in Addresses, ReceiveSubscribe(c, a)
      PROVE  FeedKept
  BY <1>6 DEF ReceiveSubscribe, AddSubscription, TypeOK, ManagerTypeOK
<1>7. ASSUME NEW c \in Conns, NEW a \in Addresses, ReceiveUnsubscribe(c, a)
      PROVE  FeedKept
  BY <1>7 DEF ReceiveUnsubscribe, RemoveSubscription, TypeOK, ManagerTypeOK, Goto
<1>8. ASSUME NEW c \in Conns, ReceiveOther(c)
      PROVE  FeedKept
  BY <1>8 DEF ReceiveOther
<1>9. ASSUME NEW c \in Conns, ReceiveMalformed(c)
      PROVE  FeedKept
  BY <1>9 DEF ReceiveMalformed
<1>10. ASSUME NEW c \in Conns, Reply(c)
      PROVE  FeedKept
  BY <1>10 DEF Reply
<1>11. ASSUME NEW c \in Conns, ReceiveDisconnect(c)
      PROVE  FeedKept
  BY <1>11 DEF ReceiveDisconnect
<1>12. ASSUME NEW c \in Conns, Unsubscribe(c)
      PROVE  FeedKept
  BY <1>12 DEF Unsubscribe, RemoveSubscription, TypeOK, ManagerTypeOK
<1>13. ASSUME NEW c \in Conns, Disconnect(c)
      PROVE  FeedKept
  BY <1>13 DEF Disconnect, Unregister, TypeOK, ManagerTypeOK, Goto, IndexesAgree
<1>14. ASSUME NEW c \in Conns, ClientLeaves(c)
      PROVE  FeedKept
  BY <1>14 DEF ClientLeaves
<1>15. ASSUME NEW b \in Broadcasts, Snapshot(b)
      PROVE  FeedKept
  BY <1>15 DEF Snapshot
<1>16. ASSUME NEW b \in Broadcasts, NEW c \in Conns, Send(b, c)
      PROVE  FeedKept
  BY <1>16 DEF Send
<1>17. ASSUME NEW b \in Broadcasts, Cleanup(b)
      PROVE  FeedKept
  BY <1>17 DEF Cleanup, TypeOK, ManagerTypeOK, DeadHaveLeft
<1>18. CASE UNCHANGED vars
  BY <1>18 DEF vars, manager
<1> QED
  BY <1>1, <1>2, <1>3, <1>4, <1>5, <1>6, <1>7, <1>8, <1>9, <1>10, <1>11, <1>12, <1>13, <1>14, <1>15, <1>16, <1>17, <1>18 DEF Next, Handler, Broadcast

(* IInv holds in every reachable state.                                    *)
THEOREM Invariance == Spec => []IInv
<1>1. Init => IInv
  BY FS_EmptySet, WsAssumption
     DEF Init, IInv, TypeOK, ManagerTypeOK, IndexesAgree, CapsHold, OnlyTheOwnerIsTold, LockIsForAccept,
         RegisteredWhileHandled, SnapshotsAreOwned, DeadHaveLeft, Stages, CastStages
<1>2. IInv /\ [Next]_vars => IInv'
  <2> SUFFICES ASSUME IInv, [Next]_vars
               PROVE  IInv'
    OBVIOUS
  <2>1. TypeOK'
    BY TypeStep
  <2>2. IndexesAgree'
    BY IndexStep
  <2>3. CapsHold'
    BY CapsStep
  <2>4. LockIsForAccept'
    BY LockStep
  <2>5. RegisteredWhileHandled'
    BY RegisteredStep
  <2>6. SnapshotsAreOwned' /\ DeadHaveLeft' /\ OnlyTheOwnerIsTold'
    BY SnapshotStep
  <2> QED
    BY <2>1, <2>2, <2>3, <2>4, <2>5, <2>6 DEF IInv
<1> QED
  BY <1>1, <1>2, PTL DEF Spec

(* Types of the manager's dictionaries, the handlers and the broadcasts.   *)
THEOREM TypeCorrect == Spec => []TypeOK
  BY Invariance, PTL DEF IInv

(* The five dictionaries of ConnectionManager never disagree.              *)
THEOREM IndexesAlwaysAgree == Spec => []IndexesAgree
  BY Invariance, PTL DEF IInv

(* The limits of SEC-A2 are never exceeded, accept awaited or not.         *)
THEOREM CapsAlwaysHold == Spec => []CapsHold
  BY Invariance, PTL DEF IInv

(* SEC-A1: events of an address reach its authenticated owners only.       *)
THEOREM OwnersOnly == Spec => []OnlyTheOwnerIsTold
  BY Invariance, PTL DEF IInv

(* Dead connections never cost a client that is there its feed.            *)
THEOREM FeedSurvives == Spec => FeedSurvivesTheDead
<1>1. IInv /\ [Next]_vars => [FeedKept]_vars
  BY FeedStep
<1> QED
  BY <1>1, Invariance, PTL DEF Spec, FeedSurvivesTheDead, FeedKept

=============================================================================
