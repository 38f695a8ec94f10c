--------------------------- MODULE Replica_proofs ---------------------------
(***************************************************************************)
(* Proofs about a replica, for every set of sockets and conversations and  *)
(* every bound: what its fan-out keeps, the feed that it implements, and   *)
(* the end of it.                                                          *)
(***************************************************************************)
EXTENDS ReplicaShutdown, TLAPS

-----------------------------------------------------------------------------
(***************************************************************************)
(* 1. Fan-out                                                              *)
(*                                                                         *)
(* The invariant has three layers, each proved on top of the one before:   *)
(*   RegistryInv  who holds the locks, and what the lock holder knows of   *)
(*                the registrations of its conversation;                   *)
(*   ChannelInv   what the pub/sub connection knows of _channels;          *)
(*   OwedInv      where a message is that a socket is still owed.          *)
(***************************************************************************)
-----------------------------------------------------------------------------
(* The inductive invariant *)

\* One task at a time is between the acquisition and the release of the
\* registry lock, and one holds the pub/sub connection.
LocksExclude ==
    /\ \A c, d \in Connections :
          handler[c] \in HoldsRegistry /\ handler[d] \in HoldsRegistry => c = d
    /\ reader.pc \in {"reading", "resubscribing"} =>
          \A c \in Connections : handler[c] \notin {"subscribing", "unsubscribing"}

\* A socket on its first join is alone in its conversation; a socket on its
\* last leave left it empty, and then unrecorded.
HolderKnows ==
    \A c \in Connections :
        /\ handler[c] \in {"subscribe", "subscribing"} => connections[ConvOf[c]] \subseteq {c}
        /\ handler[c] \in {"unsubscribe", "unsubscribing"} => connections[ConvOf[c]] = {}
        /\ handler[c] = "unsubscribing" => ConvOf[c] \notin channels

\* A conversation with registered sockets is recorded, or its first join is on.
RegisteredIsRecorded ==
    \A v \in Conversations : connections[v] # {} =>
        \/ v \in channels
        \/ \E c \in Connections : ConvOf[c] = v /\ handler[c] \in {"subscribe", "subscribing"}

\* Only a dead socket loses its registration before it leaves.
AliveIsRegistered ==
    /\ \A c \in Connections :
          handler[c] \in {"subscribe", "subscribing", "live"} /\ alive[c]
              => c \in connections[ConvOf[c]]
    /\ \A c \in reader.dead : ~alive[c]

RegistryInv == LocksExclude /\ HolderKnows /\ RegisteredIsRecorded /\ AliveIsRegistered

ChannelInv ==
    /\ reader.pc \notin {"resubscribing", "dead"} => channels \subseteq pubsub.memory
    /\ reader.pc = "resubscribing" => channels \subseteq pubsub.memory \cup reader.missing

OwedInv ==
    /\ \A c \in Connections : owed[c] # {} => Healthy /\ Live(c)
    /\ \A c \in Connections : \A n \in owed[c] : topic[n] = ConvOf[c]
    /\ OwedIsOnItsWay

IInv == TypeOK /\ RegistryInv /\ ChannelInv /\ OwedInv
-----------------------------------------------------------------------------
(* A broadcast to one socket *)

ReaderType == [pc : ReaderPC, message : Published \cup {0}, todo : SUBSET Connections,
               dead : SUBSET Connections, missing : SUBSET Conversations]

\* A send takes the socket from those still to be reached, and if it fails marks it.
LEMMA SendTakesOne ==
    ASSUME reader \in ReaderType, NEW c \in Connections, BroadcastSend(c)
    PROVE  /\ reader.pc = "delivering" /\ c \in reader.todo
           /\ reader' \in ReaderType
           /\ reader'.pc = "delivering" /\ reader'.message = reader.message
           /\ reader'.missing = reader.missing
           /\ reader'.todo = reader.todo \ {c}
           /\ reader'.dead = IF alive[c] THEN reader.dead ELSE reader.dead \cup {c}
           /\ UNCHANGED <<connections, handler, alive, channels, pubsub, reachable, inbox, topic,
                          outages>>
<1>1. CASE alive[c]
  <2>1. reader' = [reader EXCEPT !.todo = @ \ {c}]
    BY <1>1 DEF BroadcastSend
  <2>2. reader' \in ReaderType
    BY <2>1 DEF ReaderType
  <2>. QED
    BY <1>1, <2>1, <2>2 DEF BroadcastSend, ReaderType
<1>2. CASE ~alive[c]
  <2>1. reader' = [reader EXCEPT !.todo = @ \ {c}, !.dead = @ \cup {c}]
    BY <1>2 DEF BroadcastSend
  <2>2. reader' \in ReaderType
    BY <2>1 DEF ReaderType
  <2>3. /\ reader'.pc = reader.pc /\ reader'.message = reader.message
        /\ reader'.missing = reader.missing
    BY <2>1 DEF ReaderType
  <2>4. reader'.todo = reader.todo \ {c} /\ reader'.dead = reader.dead \cup {c}
    BY <2>1 DEF ReaderType
  <2>. QED
    BY <1>2, <2>2, <2>3, <2>4 DEF BroadcastSend
<1>. QED
  BY <1>1, <1>2

\* The socket, if it has a peer, is sent the message, and no other is.
LEMMA SendDelivers ==
    ASSUME NEW c \in Connections, BroadcastSend(c)
    PROVE  /\ alive[c] => /\ delivered' = [delivered EXCEPT ![c] = @ \cup {reader.message}]
                          /\ owed' = [owed EXCEPT ![c] = @ \ {reader.message}]
           /\ ~alive[c] => UNCHANGED <<delivered, owed>>
BY DEF BroadcastSend
-----------------------------------------------------------------------------
(* Type correctness *)

\* A replica that has just started has every variable in its type.
LEMMA TypeInit == Init => TypeOK
BY FanoutAssumption DEF Init, TypeOK, NewPubSub, IdleReader, HandlerPC, ReaderPC, Published

\* A send keeps them there: the message in hand was published.
LEMMA TypeSend == ASSUME TypeOK, NEW c \in Connections, BroadcastSend(c) PROVE TypeOK'
<1>1. reader \in ReaderType /\ reader.message \in Nat
  BY DEF TypeOK, ReaderType, Published
<1>2. /\ reader.pc = "delivering" /\ reader' \in ReaderType /\ reader'.message = reader.message
      /\ UNCHANGED <<connections, handler, alive, channels, pubsub, reachable, inbox, topic, outages>>
  BY <1>1, SendTakesOne
<1>3. Published' = Published
  BY <1>2 DEF Published
<1>4. delivered' \in [Connections -> SUBSET Published]
  <2>1. reader.message \in Published
    BY <1>1, <1>2 DEF TypeOK, ReaderType
  <2>. QED
    BY <2>1, SendDelivers DEF TypeOK
<1>5. owed' \in [Connections -> SUBSET Published]
  BY SendDelivers DEF TypeOK
<1>. QED
  BY <1>1, <1>2, <1>3, <1>4, <1>5 DEF TypeOK, ReaderType

\* Every step keeps every variable in its type; the messages a step handles
\* were published before.
LEMMA TypeStep == TypeOK /\ [Next]_vars => TypeOK'
<1>. SUFFICES ASSUME TypeOK, [Next]_vars PROVE TypeOK'
  OBVIOUS
<1>. USE FanoutAssumption DEF TypeOK, HandlerPC, HoldsRegistry, ReaderPC, Published,
         GoTo, Registered, Unregistered, NewPubSub, IdleReader
<1>1. ASSUME NEW c \in Connections, JoinRegister(c) PROVE TypeOK'
  BY <1>1 DEF JoinRegister
<1>2. ASSUME NEW c \in Connections, SubscribeBegin(c) PROVE TypeOK'
  BY <1>2 DEF SubscribeBegin
<1>3. ASSUME NEW c \in Connections, SubscribeOk(c) PROVE TypeOK'
  BY <1>3 DEF SubscribeOk
<1>4. ASSUME NEW c \in Connections, SubscribeFail(c) PROVE TypeOK'
  BY <1>4 DEF SubscribeFail
<1>5. ASSUME NEW c \in Connections, Disconnect(c) PROVE TypeOK'
  BY <1>5 DEF Disconnect
<1>6. ASSUME NEW c \in Connections, EndSession(c) PROVE TypeOK'
  BY <1>6 DEF EndSession
<1>7. ASSUME NEW c \in Connections, LeaveUnregister(c) PROVE TypeOK'
  BY <1>7 DEF LeaveUnregister
<1>8. ASSUME NEW c \in Connections, UnsubscribeBegin(c) PROVE TypeOK'
  BY <1>8 DEF UnsubscribeBegin
<1>9. ASSUME NEW c \in Connections, UnsubscribeEnd(c) PROVE TypeOK'
  <2>1. pubsub' \in [memory : SUBSET Conversations, connected : BOOLEAN]
    <3>1. CASE UNCHANGED pubsub
      BY <3>1
    <3>2. CASE pubsub' = [memory |-> pubsub.memory \ {ConvOf[c]}, connected |-> TRUE]
      BY <3>2
    <3>. QED
      BY <1>9, <3>1, <3>2 DEF UnsubscribeEnd
  <2>. QED
    BY <1>9, <2>1 DEF UnsubscribeEnd
<1>10. ASSUME NEW c \in Connections, Reopen(c) PROVE TypeOK'
  BY <1>10 DEF Reopen
<1>11. ASSUME NEW c \in Connections, BroadcastSend(c) PROVE TypeOK'
  BY <1>11, TypeSend
<1>12. CASE ReaderCheck
  BY <1>12 DEF ReaderCheck
<1>13. CASE ReadBegin
  BY <1>13 DEF ReadBegin
<1>14. CASE ReadMessage
  <2>1. Head(inbox) \in Published /\ inbox' \in Seq(Published)
    BY <1>14 DEF ReadMessage
  <2>2. connections[topic[Head(inbox)]] \in SUBSET Connections
    BY <2>1
  <2>3. /\ reader' \in [pc : ReaderPC, message : Published \cup {0},
                        todo : SUBSET Connections, dead : SUBSET Connections,
                        missing : SUBSET Conversations]
    BY <1>14, <2>1, <2>2 DEF ReadMessage
  <2>4. reader'.message # 0
    <3>1. reader'.message = Head(inbox)
      BY <1>14 DEF ReadMessage
    <3>. QED
      BY <2>1, <3>1
  <2>. QED
    BY <1>14, <2>1, <2>3, <2>4 DEF ReadMessage
<1>15. CASE ReadNothing
  BY <1>15 DEF ReadNothing
<1>16. CASE ReadFail
  BY <1>16 DEF ReadFail
<1>17. CASE BroadcastEnd
  BY <1>17 DEF BroadcastEnd
<1>18. CASE ReconnectBegin
  <2>1. inbox' \in Seq(Published)
    BY <1>18 DEF ReconnectBegin
  <2>2. pubsub' \in [memory : SUBSET Conversations, connected : BOOLEAN]
    BY <1>18 DEF ReconnectBegin
  <2>. QED
    BY <1>18, <2>1, <2>2 DEF ReconnectBegin
<1>19. CASE ResubscribeFail
  BY <1>19 DEF ResubscribeFail
<1>20. CASE ReconnectEnd
  BY <1>20 DEF ReconnectEnd
<1>21. CASE Outage
  <2>1. inbox' \in Seq(Published) /\ outages' \in 0..MaxOutages
    BY <1>21 DEF Outage
  <2>2. pubsub' \in [memory : SUBSET Conversations, connected : BOOLEAN]
    BY <1>21 DEF Outage
  <2>. QED
    BY <1>21, <2>1, <2>2 DEF Outage
<1>22. CASE Recover
  BY <1>22 DEF Recover
<1>23. ASSUME NEW v \in Conversations, Resubscribe(v) PROVE TypeOK'
  BY <1>23 DEF Resubscribe
<1>24. ASSUME NEW v \in Conversations, Publish(v) PROVE TypeOK'
  <2>1. topic' \in Seq(Conversations) /\ Len(topic') = Len(topic) + 1
    BY <1>24 DEF Publish
  <2>2. Published \subseteq Published' /\ Len(topic) + 1 \in Published'
    BY <2>1
  <2>3. inbox' \in Seq(Published')
    <3>1. inbox \in Seq(Published')
      BY <2>2
    <3>2. Append(inbox, Len(topic) + 1) \in Seq(Published')
      BY <2>2, <3>1
    <3>3. inbox' \in {inbox, Append(inbox, Len(topic) + 1)}
      BY <1>24 DEF Publish
    <3>. QED
      BY <3>1, <3>2, <3>3
  <2>4. /\ delivered' \in [Connections -> SUBSET (Published')]
        /\ owed' \in [Connections -> SUBSET (Published')]
    BY <1>24, <2>2 DEF Publish
  <2>5. reader' \in [pc : ReaderPC, message : Published' \cup {0},
                     todo : SUBSET Connections, dead : SUBSET Connections,
                     missing : SUBSET Conversations]
    BY <1>24, <2>2 DEF Publish
  <2>. QED
    BY <1>24, <2>1, <2>3, <2>4, <2>5 DEF Publish
<1>25. CASE UNCHANGED vars
  BY <1>25 DEF vars
<1>. QED
  BY <1>1, <1>2, <1>3, <1>4, <1>5, <1>6, <1>7, <1>8, <1>9, <1>10, <1>11, <1>12, <1>13, <1>14, <1>15, <1>16, <1>17, <1>18, <1>19, <1>20, <1>21, <1>22, <1>23, <1>24, <1>25
     DEF Next, Join, Leave, Read, Broadcast, Reconnect

\* TypeOK is an invariant.
THEOREM TypeCorrect == Spec => []TypeOK
BY TypeInit, TypeStep, PTL DEF Spec
-----------------------------------------------------------------------------
(* Registrations: RegistryInv *)

\* Before any join nothing is registered and no lock is held.
LEMMA RegistryInit == Init => RegistryInv
BY FanoutAssumption DEF Init, RegistryInv, LocksExclude, HolderKnows, RegisteredIsRecorded,
     AliveIsRegistered, HoldsRegistry, IdleReader

\* Every step keeps registrations, recorded channels and lock holders in
\* agreement: joins, leaves and the broadcast's drop of dead sockets alike.
LEMMA RegistryStep == TypeOK /\ RegistryInv /\ [Next]_vars => RegistryInv'
<1>. SUFFICES ASSUME TypeOK, RegistryInv, [Next]_vars PROVE RegistryInv'
  OBVIOUS
<1>. USE FanoutAssumption DEF TypeOK, RegistryInv, LocksExclude, HolderKnows,
         RegisteredIsRecorded, AliveIsRegistered, HoldsRegistry, GoTo, Registered,
         Unregistered, IsFirst, IsLast, RegistryLockFree, SubscriberLockFree, NewPubSub, IdleReader
<1>1. ASSUME NEW c \in Connections, JoinRegister(c) PROVE RegistryInv'
  BY <1>1 DEF JoinRegister
<1>2. ASSUME NEW c \in Connections, SubscribeBegin(c) PROVE RegistryInv'
  BY <1>2 DEF SubscribeBegin
<1>3. ASSUME NEW c \in Connections, SubscribeOk(c) PROVE RegistryInv'
  BY <1>3 DEF SubscribeOk
<1>4. ASSUME NEW c \in Connections, SubscribeFail(c) PROVE RegistryInv'
  BY <1>4 DEF SubscribeFail
<1>5. ASSUME NEW c \in Connections, Disconnect(c) PROVE RegistryInv'
  <2>1. LocksExclude' /\ HolderKnows' /\ RegisteredIsRecorded'
    BY <1>5 DEF Disconnect
  <2>2. \A d \in Connections : alive'[d] => alive[d]
    BY <1>5 DEF Disconnect
  <2>3. UNCHANGED <<handler, connections, reader>>
    BY <1>5 DEF Disconnect
  <2>. QED
    BY <2>1, <2>2, <2>3
<1>6. ASSUME NEW c \in Connections, EndSession(c) PROVE RegistryInv'
  BY <1>6 DEF EndSession
<1>7. ASSUME NEW c \in Connections, LeaveUnregister(c) PROVE RegistryInv'
  BY <1>7 DEF LeaveUnregister
<1>8. ASSUME NEW c \in Connections, UnsubscribeBegin(c) PROVE RegistryInv'
  BY <1>8 DEF UnsubscribeBegin
<1>9. ASSUME NEW c \in Connections, UnsubscribeEnd(c) PROVE RegistryInv'
  BY <1>9 DEF UnsubscribeEnd
<1>10. ASSUME NEW c \in Connections, Reopen(c) PROVE RegistryInv'
  BY <1>10 DEF Reopen
<1>11. ASSUME NEW c \in Connections, BroadcastSend(c) PROVE RegistryInv'
  <2>1. UNCHANGED <<handler, connections, channels, alive>>
    BY <1>11 DEF BroadcastSend
  <2>2. reader'.pc = "delivering" /\ \A d \in reader'.dead : ~alive[d]
    <3>0. reader.pc = "delivering"
      BY <1>11 DEF BroadcastSend
    <3>1. CASE alive[c]
      <4>1. reader' = [reader EXCEPT !.todo = @ \ {c}]
        BY <1>11, <3>1 DEF BroadcastSend
      <4>. QED
        BY <3>0, <4>1
    <3>2. CASE ~alive[c]
      <4>1. reader' = [reader EXCEPT !.todo = @ \ {c}, !.dead = @ \cup {c}]
        BY <1>11, <3>2 DEF BroadcastSend
      <4>2. reader'.pc = reader.pc /\ reader'.dead = reader.dead \cup {c}
        BY <4>1
      <4>. QED
        BY <3>0, <3>2, <4>2
    <3>. QED
      BY <3>1, <3>2
  <2>. QED
    BY <2>1, <2>2
<1>12. CASE ReaderCheck
  BY <1>12 DEF ReaderCheck
<1>13. CASE ReadBegin
  BY <1>13 DEF ReadBegin
<1>14. CASE ReadMessage
  BY <1>14 DEF ReadMessage
<1>15. CASE ReadNothing
  BY <1>15 DEF ReadNothing
<1>16. CASE ReadFail
  BY <1>16 DEF ReadFail
<1>17. CASE BroadcastEnd
  <2>1. UNCHANGED <<handler, channels, alive>> /\ reader'.pc = "idle" /\ reader'.dead = {}
    BY <1>17 DEF BroadcastEnd
  <2>2. \A u \in Conversations : connections'[u] \subseteq connections[u]
    BY <1>17 DEF BroadcastEnd
  <2>3. \A u \in Conversations : \A d \in connections[u] : alive[d] => d \in connections'[u]
    BY <1>17 DEF BroadcastEnd
  <2>4. LocksExclude'
    BY <2>1
  <2>5. HolderKnows'
    BY <2>1, <2>2
  <2>6. RegisteredIsRecorded'
    BY <2>1, <2>2
  <2>7. AliveIsRegistered'
    BY <2>1, <2>3
  <2>. QED
    BY <2>4, <2>5, <2>6, <2>7
<1>18. CASE ReconnectBegin
  BY <1>18 DEF ReconnectBegin
<1>19. CASE ResubscribeFail
  BY <1>19 DEF ResubscribeFail
<1>20. CASE ReconnectEnd
  BY <1>20 DEF ReconnectEnd
<1>21. CASE Outage
  BY <1>21 DEF Outage
<1>22. CASE Recover
  BY <1>22 DEF Recover
<1>23. ASSUME NEW v \in Conversations, Resubscribe(v) PROVE RegistryInv'
  BY <1>23 DEF Resubscribe
<1>24. ASSUME NEW v \in Conversations, Publish(v) PROVE RegistryInv'
  BY <1>24 DEF Publish
<1>25. CASE UNCHANGED vars
  BY <1>25 DEF vars
<1>. QED
  BY <1>1, <1>2, <1>3, <1>4, <1>5, <1>6, <1>7, <1>8, <1>9, <1>10, <1>11, <1>12, <1>13, <1>14, <1>15, <1>16, <1>17, <1>18, <1>19, <1>20, <1>21, <1>22, <1>23, <1>24, <1>25
     DEF Next, Join, Leave, Read, Broadcast, Reconnect

\* A live socket is registered, so its conversation is recorded: the first join
\* of the conversation cannot still be on, for that socket would be alone.
LEMMA RegistryImplies == TypeOK /\ RegistryInv => LiveSocketIsSubscribed
BY FanoutAssumption DEF TypeOK, RegistryInv, HolderKnows, RegisteredIsRecorded,
     AliveIsRegistered, LiveSocketIsSubscribed, Live

\* No interleaving of joins, leaves, failed subscribes and broadcasts that drop
\* dead sockets leaves a live socket deaf.
THEOREM LiveSocketsHear == Spec => []LiveSocketIsSubscribed
<1>1. Init => TypeOK /\ RegistryInv
  BY TypeInit, RegistryInit
<1>2. (TypeOK /\ RegistryInv) /\ [Next]_vars => (TypeOK /\ RegistryInv)'
  BY TypeStep, RegistryStep
<1>. QED
  BY <1>1, <1>2, RegistryImplies, PTL DEF Spec
-----------------------------------------------------------------------------
(* Subscriptions: ChannelInv *)

\* Before any subscribe there is no channel to hear.
LEMMA ChannelInit == Init => ChannelInv
BY DEF Init, ChannelInv, IdleReader

\* Every step keeps the channels recorded on the replica among those of its
\* pub/sub connection, or among those the reconnection still has to restore.
LEMMA ChannelStep == TypeOK /\ RegistryInv /\ ChannelInv /\ [Next]_vars => ChannelInv'
<1>. SUFFICES ASSUME TypeOK, RegistryInv, ChannelInv, [Next]_vars PROVE ChannelInv'
  OBVIOUS
<1>. USE FanoutAssumption DEF TypeOK, RegistryInv, LocksExclude, HolderKnows, ChannelInv,
         HoldsRegistry, GoTo, SubscriberLockFree, NewPubSub, IdleReader
<1>1. ASSUME NEW c \in Connections, JoinRegister(c) PROVE ChannelInv'
  BY <1>1 DEF JoinRegister
<1>2. ASSUME NEW c \in Connections, SubscribeBegin(c) PROVE ChannelInv'
  BY <1>2 DEF SubscribeBegin
<1>3. ASSUME NEW c \in Connections, SubscribeOk(c) PROVE ChannelInv'
  BY <1>3 DEF SubscribeOk
<1>4. ASSUME NEW c \in Connections, SubscribeFail(c) PROVE ChannelInv'
  BY <1>4 DEF SubscribeFail
<1>5. ASSUME NEW c \in Connections, Disconnect(c) PROVE ChannelInv'
  BY <1>5 DEF Disconnect
<1>6. ASSUME NEW c \in Connections, EndSession(c) PROVE ChannelInv'
  BY <1>6 DEF EndSession
<1>7. ASSUME NEW c \in Connections, LeaveUnregister(c) PROVE ChannelInv'
  BY <1>7 DEF LeaveUnregister
<1>8. ASSUME NEW c \in Connections, UnsubscribeBegin(c) PROVE ChannelInv'
  BY <1>8 DEF UnsubscribeBegin
<1>9. ASSUME NEW c \in Connections, UnsubscribeEnd(c) PROVE ChannelInv'
  BY <1>9 DEF UnsubscribeEnd
<1>10. ASSUME NEW c \in Connections, Reopen(c) PROVE ChannelInv'
  BY <1>10 DEF Reopen
<1>11. ASSUME NEW c \in Connections, BroadcastSend(c) PROVE ChannelInv'
  BY <1>11 DEF BroadcastSend
<1>12. CASE ReaderCheck
  BY <1>12 DEF ReaderCheck
<1>13. CASE ReadBegin
  BY <1>13 DEF ReadBegin
<1>14. CASE ReadMessage
  BY <1>14 DEF ReadMessage
<1>15. CASE ReadNothing
  BY <1>15 DEF ReadNothing
<1>16. CASE ReadFail
  BY <1>16 DEF ReadFail
<1>17. CASE BroadcastEnd
  BY <1>17 DEF BroadcastEnd
<1>18. CASE ReconnectBegin
  BY <1>18 DEF ReconnectBegin
<1>19. CASE ResubscribeFail
  BY <1>19 DEF ResubscribeFail
<1>20. CASE ReconnectEnd
  BY <1>20 DEF ReconnectEnd
<1>21. CASE Outage
  BY <1>21 DEF Outage
<1>22. CASE Recover
  BY <1>22 DEF Recover
<1>23. ASSUME NEW v \in Conversations, Resubscribe(v) PROVE ChannelInv'
  BY <1>23 DEF Resubscribe
<1>24. ASSUME NEW v \in Conversations, Publish(v) PROVE ChannelInv'
  BY <1>24 DEF Publish
<1>25. CASE UNCHANGED vars
  BY <1>25 DEF vars
<1>. QED
  BY <1>1, <1>2, <1>3, <1>4, <1>5, <1>6, <1>7, <1>8, <1>9, <1>10, <1>11, <1>12, <1>13, <1>14, <1>15, <1>16, <1>17, <1>18, <1>19, <1>20, <1>21, <1>22, <1>23, <1>24, <1>25
     DEF Next, Join, Leave, Read, Broadcast, Reconnect

\* Outside a reconnection the link has every channel the subscriber recorded.
THEOREM ChannelsAreHeard == Spec => []HealthyHearsEveryChannel
<1>1. Init => TypeOK /\ RegistryInv /\ ChannelInv
  BY TypeInit, RegistryInit, ChannelInit
<1>2. (TypeOK /\ RegistryInv /\ ChannelInv) /\ [Next]_vars => (TypeOK /\ RegistryInv /\ ChannelInv)'
  BY TypeStep, RegistryStep, ChannelStep
<1>3. ChannelInv => HealthyHearsEveryChannel
  BY DEF ChannelInv, HealthyHearsEveryChannel, Healthy, Subscribed
<1>. QED
  BY <1>1, <1>2, <1>3, PTL DEF Spec

-----------------------------------------------------------------------------
(* Delivery: OwedInv *)

\* Before any message is published nothing is owed.
LEMMA OwedInit == Init => OwedInv
BY DEF Init, OwedInv, OwedIsOnItsWay

\* Every step keeps each owed message in the link or in the broadcast under
\* way, and the sockets that are owed it among those it will reach.
LEMMA OwedStep == IInv /\ [Next]_vars => OwedInv'
<1>. SUFFICES ASSUME IInv, [Next]_vars PROVE OwedInv'
  OBVIOUS
<1>. USE FanoutAssumption DEF IInv, TypeOK, Published, OwedInv, OwedIsOnItsWay, Healthy, Live,
         HoldsRegistry, GoTo, SubscriberLockFree, NewPubSub, IdleReader
<1>1. ASSUME NEW c \in Connections, JoinRegister(c) PROVE OwedInv'
  BY <1>1 DEF JoinRegister
<1>2. ASSUME NEW c \in Connections, SubscribeBegin(c) PROVE OwedInv'
  BY <1>2 DEF SubscribeBegin
<1>3. ASSUME NEW c \in Connections, SubscribeOk(c) PROVE OwedInv'
  BY <1>3 DEF SubscribeOk
<1>4. ASSUME NEW c \in Connections, SubscribeFail(c) PROVE OwedInv'
  BY <1>4 DEF SubscribeFail
<1>5. ASSUME NEW c \in Connections, Disconnect(c) PROVE OwedInv'
  BY <1>5 DEF Disconnect
<1>6. ASSUME NEW c \in Connections, EndSession(c) PROVE OwedInv'
  BY <1>6 DEF EndSession
<1>7. ASSUME NEW c \in Connections, LeaveUnregister(c) PROVE OwedInv'
  BY <1>7 DEF LeaveUnregister
<1>8. ASSUME NEW c \in Connections, UnsubscribeBegin(c) PROVE OwedInv'
  BY <1>8 DEF UnsubscribeBegin
<1>9. ASSUME NEW c \in Connections, UnsubscribeEnd(c) PROVE OwedInv'
  BY <1>9 DEF UnsubscribeEnd
<1>10. ASSUME NEW c \in Connections, Reopen(c) PROVE OwedInv'
  BY <1>10 DEF Reopen
<1>11. ASSUME NEW c \in Connections, BroadcastSend(c) PROVE OwedInv'
  <2>1. UNCHANGED <<inbox, topic, handler, alive, pubsub>>
    BY <1>11 DEF BroadcastSend
  <2>2. /\ reader.pc = "delivering" /\ reader'.pc = "delivering"
        /\ reader'.message = reader.message
        /\ \A d \in Connections : d # c /\ d \in reader.todo => d \in reader'.todo
    <3>0. reader.pc = "delivering"
      BY <1>11 DEF BroadcastSend
    <3>1. CASE alive[c]
      <4>1. reader' = [reader EXCEPT !.todo = @ \ {c}]
        BY <1>11, <3>1 DEF BroadcastSend
      <4>. QED
        BY <3>0, <4>1
    <3>2. CASE ~alive[c]
      <4>1. reader' = [reader EXCEPT !.todo = @ \ {c}, !.dead = @ \cup {c}]
        BY <1>11, <3>2 DEF BroadcastSend
      <4>2. /\ reader'.pc = reader.pc /\ reader'.message = reader.message
            /\ reader'.todo = reader.todo \ {c}
        BY <4>1
      <4>. QED
        BY <3>0, <4>2
    <3>. QED
      BY <3>1, <3>2
  <2>3. \A d \in Connections : owed'[d] \subseteq owed[d]
    <3>1. CASE alive[c]
      BY <1>11, <3>1 DEF BroadcastSend
    <3>2. CASE ~alive[c]
      BY <1>11, <3>2 DEF BroadcastSend
    <3>. QED
      BY <3>1, <3>2
  <2>4. reader.message \notin owed'[c]
    <3>1. CASE alive[c]
      <4>1. owed' = [owed EXCEPT ![c] = @ \ {reader.message}]
        BY <1>11, <3>1 DEF BroadcastSend
      <4>. QED
        BY <4>1
    <3>2. CASE ~alive[c]
      BY <2>3, <3>2
    <3>. QED
      BY <3>1, <3>2
  <2>5. OwedIsOnItsWay'
    <3>. SUFFICES ASSUME NEW d \in Connections, NEW n \in owed'[d]
                  PROVE  \/ \E i \in DOMAIN inbox : inbox[i] = n
                         \/ reader.message = n /\ d \in reader'.todo
      BY <2>1, <2>2
    <3>1. n \in owed[d]
      BY <2>3
    <3>. QED
      BY <2>2, <2>4, <3>1
  <2>. QED
    BY <2>1, <2>2, <2>3, <2>5
<1>12. CASE ReaderCheck
  BY <1>12 DEF ReaderCheck
<1>13. CASE ReadBegin
  BY <1>13 DEF ReadBegin
<1>14. CASE ReadMessage
  <2>1. UNCHANGED <<topic, handler, alive, pubsub, owed>>
    BY <1>14 DEF ReadMessage
  <2>2. /\ reader.pc = "reading" /\ reader'.pc = "delivering"
        /\ reader'.message = Head(inbox)
        /\ reader'.todo = connections[topic[Head(inbox)]]
    BY <1>14 DEF ReadMessage
  <2>3. OwedIsOnItsWay'
    <3>. SUFFICES ASSUME NEW c \in Connections, NEW n \in owed[c]
                  PROVE  \/ \E i \in DOMAIN inbox' : inbox'[i] = n
                         \/ Head(inbox) = n /\ c \in reader'.todo
      BY <2>1, <2>2
    <3>1. PICK i \in DOMAIN inbox : inbox[i] = n
      BY <2>2
    <3>2. inbox' = Tail(inbox) /\ inbox # <<>>
      BY <1>14 DEF ReadMessage
    <3>3. CASE i = 1
      <4>1. Head(inbox) = n
        BY <3>1, <3>2, <3>3
      <4>2. topic[n] = ConvOf[c] /\ c \in connections[ConvOf[c]]
        BY RegistryImplies DEF LiveSocketIsSubscribed
      <4>. QED
        BY <2>2, <4>1, <4>2
    <3>4. CASE i # 1
      <4>1. i - 1 \in DOMAIN inbox' /\ inbox'[i - 1] = n
        BY <3>1, <3>2, <3>4
      <4>. QED
        BY <4>1
    <3>. QED
      BY <3>3, <3>4
  <2>. QED
    BY <2>1, <2>2, <2>3
<1>15. CASE ReadNothing
  BY <1>15 DEF ReadNothing
<1>16. CASE ReadFail
  BY <1>16 DEF ReadFail
<1>17. CASE BroadcastEnd
  BY <1>17 DEF BroadcastEnd
<1>18. CASE ReconnectBegin
  BY <1>18 DEF ReconnectBegin
<1>19. CASE ResubscribeFail
  BY <1>19 DEF ResubscribeFail
<1>20. CASE ReconnectEnd
  BY <1>20 DEF ReconnectEnd
<1>21. CASE Outage
  BY <1>21 DEF Outage
<1>22. CASE Recover
  BY <1>22 DEF Recover
<1>23. ASSUME NEW v \in Conversations, Resubscribe(v) PROVE OwedInv'
  BY <1>23 DEF Resubscribe
<1>24. ASSUME NEW v \in Conversations, Publish(v) PROVE OwedInv'
  <2>1. UNCHANGED <<handler, alive, pubsub, reader>>
    BY <1>24 DEF Publish
  <2>2. topic' = Append(topic, v) /\ topic'[Len(topic) + 1] = v
    BY <1>24 DEF Publish
  <2>3. ASSUME NEW c \in Connections, NEW n \in owed'[c]
        PROVE  \/ n \in owed[c]
               \/ Healthy /\ Live(c) /\ ConvOf[c] = v /\ n = Len(topic) + 1
    BY <1>24, <2>3 DEF Publish
  <2>4. \A i \in DOMAIN inbox : i \in DOMAIN inbox' /\ inbox'[i] = inbox[i]
    <3>1. CASE v \in Subscribed
      BY <1>24, <3>1 DEF Publish
    <3>2. CASE v \notin Subscribed
      BY <1>24, <3>2 DEF Publish
    <3>. QED
      BY <3>1, <3>2
  <2>5. ASSUME NEW c \in Connections, Healthy, Live(c), ConvOf[c] = v
        PROVE  \E i \in DOMAIN inbox' : inbox'[i] = Len(topic) + 1
    <3>1. v \in Subscribed
      BY <2>5, RegistryImplies DEF LiveSocketIsSubscribed, ChannelInv, Subscribed
    <3>2. inbox' = Append(inbox, Len(topic) + 1)
      BY <1>24, <3>1 DEF Publish
    <3>3. Len(inbox) + 1 \in DOMAIN inbox' /\ inbox'[Len(inbox) + 1] = Len(topic) + 1
      BY <3>2
    <3>. QED
      BY <3>3
  <2>6. ASSUME NEW c \in Connections, NEW n \in owed'[c]
        PROVE  Healthy /\ Live(c) /\ topic'[n] = ConvOf[c]
    <3>1. CASE n \in owed[c]
      <4>1. topic'[n] = topic[n]
        BY <2>2, <3>1
      <4>. QED
        BY <3>1, <4>1
    <3>2. CASE Healthy /\ Live(c) /\ ConvOf[c] = v /\ n = Len(topic) + 1
      BY <2>2, <3>2
    <3>. QED
      BY <2>3, <2>6, <3>1, <3>2
  <2>7. OwedIsOnItsWay'
    <3>. SUFFICES ASSUME NEW c \in Connections, NEW n \in owed'[c]
                  PROVE  \/ \E i \in DOMAIN inbox' : inbox'[i] = n
                         \/ reader.pc = "delivering" /\ reader.message = n /\ c \in reader.todo
      BY <2>1
    <3>1. CASE n \in owed[c]
      BY <2>4, <3>1
    <3>2. CASE Healthy /\ Live(c) /\ ConvOf[c] = v /\ n = Len(topic) + 1
      BY <2>5, <3>2
    <3>. QED
      BY <2>3, <3>1, <3>2
  <2>. QED
    BY <2>1, <2>6, <2>7
<1>25. CASE UNCHANGED vars
  BY <1>25 DEF vars
<1>. QED
  BY <1>1, <1>2, <1>3, <1>4, <1>5, <1>6, <1>7, <1>8, <1>9, <1>10, <1>11, <1>12, <1>13, <1>14, <1>15, <1>16, <1>17, <1>18, <1>19, <1>20, <1>21, <1>22, <1>23, <1>24, <1>25
     DEF Next, Join, Leave, Read, Broadcast, Reconnect

\* The whole invariant.
THEOREM Invariant == Spec => []IInv
<1>1. Init => IInv
  BY TypeInit, RegistryInit, ChannelInit, OwedInit DEF IInv
<1>2. IInv /\ [Next]_vars => IInv'
  BY TypeStep, RegistryStep, ChannelStep, OwedStep DEF IInv
<1>. QED
  BY <1>1, <1>2, PTL DEF Spec

\* Nothing published while the replica hears Redis is lost on the way to a
\* socket that stays.
THEOREM OwedIsNotLost == Spec => []OwedIsOnItsWay
<1>1. IInv => OwedIsOnItsWay
  BY DEF IInv, OwedInv
<1>. QED
  BY <1>1, Invariant, PTL
-----------------------------------------------------------------------------
(***************************************************************************)
(* 2. The feed                                                             *)
(*                                                                         *)
(* ReplicaFanout implements LiveFeed: the feed of its sockets begins as a  *)
(* feed does, and every step of the replica is a step of the feed or none. *)
(***************************************************************************)
-----------------------------------------------------------------------------
(* What is needed beyond IInv *)

\* The link holds the messages in the order of their publication, and none that
\* came before the one that is being delivered.
LinkInOrder ==
    /\ \A i, j \in DOMAIN inbox : i < j => inbox[i] < inbox[j]
    /\ reader.pc = "delivering" => \A i \in DOMAIN inbox : reader.message < inbox[i]

\* A registration is under the socket's own conversation, and so is a broadcast.
RegisteredOnce ==
    /\ \A v \in Conversations : \A c \in connections[v] : ConvOf[c] = v
    /\ reader.pc = "delivering" => \A c \in reader.todo : ConvOf[c] = topic[reader.message]

\* A socket that has not joined is not registered, and has been sent nothing; one
\* that is done is not alive, and in the end not registered either.
OutsideIsUnsent ==
    \A c \in Connections :
        /\ handler[c] \in {"joining", "closed"} => c \notin connections[ConvOf[c]]
        /\ handler[c] = "joining" => c \notin reader.todo /\ delivered[c] = {}
        /\ handler[c] \in {"leaving", "unsubscribe", "unsubscribing", "closed"} => ~alive[c]

OrderInv == LinkInOrder /\ RegisteredOnce /\ OutsideIsUnsent

FInv == IInv /\ OrderInv
-----------------------------------------------------------------------------
\* Before any message the link is empty, and nobody is registered.
LEMMA OrderInit == Init => OrderInv
BY FanoutAssumption DEF Init, OrderInv, LinkInOrder, RegisteredOnce, OutsideIsUnsent, IdleReader

\* A send takes nothing from the link, and is to a socket that has joined.
LEMMA OrderSend == ASSUME FInv, NEW c \in Connections, BroadcastSend(c) PROVE OrderInv'
<1>1. reader \in ReaderType
  BY DEF FInv, IInv, TypeOK, ReaderType
<1>2. /\ UNCHANGED <<connections, handler, alive, inbox, topic>>
      /\ reader.pc = "delivering" /\ c \in reader.todo /\ reader'.message = reader.message
      /\ reader'.todo = reader.todo \ {c}
  BY <1>1, SendTakesOne
<1>3. \A d \in Connections : d # c => delivered'[d] = delivered[d]
  BY SendDelivers DEF FInv, IInv, TypeOK
<1>4. LinkInOrder'
  BY <1>2 DEF FInv, OrderInv, LinkInOrder
<1>5. RegisteredOnce'
  BY <1>2 DEF FInv, OrderInv, RegisteredOnce
<1>6. OutsideIsUnsent'
  BY <1>2, <1>3 DEF FInv, OrderInv, OutsideIsUnsent
<1>. QED
  BY <1>4, <1>5, <1>6 DEF OrderInv

\* Every step keeps the order of the link, and sockets that are not there out of
\* registrations and broadcasts.
LEMMA OrderStep == FInv /\ [Next]_vars => OrderInv'
<1>. SUFFICES ASSUME FInv, [Next]_vars PROVE OrderInv'
  OBVIOUS
<1>. USE FanoutAssumption DEF FInv, IInv, TypeOK, Published, OrderInv, LinkInOrder, RegisteredOnce,
         OutsideIsUnsent, HoldsRegistry, GoTo, Registered, Unregistered, NewPubSub, IdleReader
<1>1. ASSUME NEW c \in Connections, JoinRegister(c) PROVE OrderInv'
  BY <1>1 DEF JoinRegister
<1>2. ASSUME NEW c \in Connections, SubscribeBegin(c) PROVE OrderInv'
  BY <1>2 DEF SubscribeBegin
<1>3. ASSUME NEW c \in Connections, SubscribeOk(c) PROVE OrderInv'
  BY <1>3 DEF SubscribeOk
<1>4. ASSUME NEW c \in Connections, SubscribeFail(c) PROVE OrderInv'
  BY <1>4 DEF SubscribeFail
<1>5. ASSUME NEW c \in Connections, Disconnect(c) PROVE OrderInv'
  BY <1>5 DEF Disconnect
<1>6. ASSUME NEW c \in Connections, EndSession(c) PROVE OrderInv'
  BY <1>6 DEF EndSession
<1>7. ASSUME NEW c \in Connections, LeaveUnregister(c) PROVE OrderInv'
  BY <1>7 DEF LeaveUnregister
<1>8. ASSUME NEW c \in Connections, UnsubscribeBegin(c) PROVE OrderInv'
  BY <1>8 DEF UnsubscribeBegin
<1>9. ASSUME NEW c \in Connections, UnsubscribeEnd(c) PROVE OrderInv'
  <2>1. /\ UNCHANGED <<connections, alive, reader, inbox, topic, delivered>>
        /\ handler[c] = "unsubscribing"
        /\ handler' = [handler EXCEPT ![c] = "closed"]
    BY <1>9 DEF UnsubscribeEnd
  <2>. QED
    BY <2>1 DEF HolderKnows, RegistryInv
<1>10. ASSUME NEW c \in Connections, Reopen(c) PROVE OrderInv'
  BY <1>10 DEF Reopen
<1>11. ASSUME NEW c \in Connections, BroadcastSend(c) PROVE OrderInv'
  BY <1>11, OrderSend
<1>12. CASE ReaderCheck
  BY <1>12 DEF ReaderCheck
<1>13. CASE ReadBegin
  BY <1>13 DEF ReadBegin
<1>14. CASE ReadMessage
  <2>1. /\ inbox' = Tail(inbox) /\ inbox # <<>> /\ reader'.message = Head(inbox)
        /\ reader'.todo = connections[topic[Head(inbox)]]
        /\ UNCHANGED <<connections, handler, alive, topic, delivered>>
    BY <1>14 DEF ReadMessage
  <2>2. /\ \A i \in DOMAIN inbox' : inbox'[i] = inbox[i + 1] /\ i + 1 \in DOMAIN inbox
        /\ Head(inbox) = inbox[1] /\ 1 \in DOMAIN inbox /\ inbox[1] \in Published
    BY <2>1
  <2>3. LinkInOrder'
    BY <2>1, <2>2
  <2>4. RegisteredOnce'
    BY <2>1, <2>2
  <2>5. OutsideIsUnsent'
    <3>1. \A c \in Connections : handler[c] = "joining" => c \notin reader'.todo
      BY <2>1, <2>2
    <3>. QED
      BY <2>1, <3>1
  <2>. QED
    BY <2>3, <2>4, <2>5
<1>15. CASE ReadNothing
  BY <1>15 DEF ReadNothing
<1>16. CASE ReadFail
  BY <1>16 DEF ReadFail
<1>17. CASE BroadcastEnd
  BY <1>17 DEF BroadcastEnd
<1>18. CASE ReconnectBegin
  BY <1>18 DEF ReconnectBegin
<1>19. CASE ResubscribeFail
  BY <1>19 DEF ResubscribeFail
<1>20. CASE ReconnectEnd
  BY <1>20 DEF ReconnectEnd
<1>21. CASE Outage
  BY <1>21 DEF Outage
<1>22. CASE Recover
  BY <1>22 DEF Recover
<1>23. ASSUME NEW v \in Conversations, Resubscribe(v) PROVE OrderInv'
  BY <1>23 DEF Resubscribe
<1>24. ASSUME NEW v \in Conversations, Publish(v) PROVE OrderInv'
  BY <1>24 DEF Publish
<1>25. CASE UNCHANGED vars
  BY <1>25 DEF vars
<1>. QED
  BY <1>1, <1>2, <1>3, <1>4, <1>5, <1>6, <1>7, <1>8, <1>9, <1>10, <1>11, <1>12, <1>13, <1>14, <1>15, <1>16, <1>17, <1>18, <1>19, <1>20, <1>21, <1>22, <1>23, <1>24, <1>25
     DEF Next, Join, Leave, Read, Broadcast, Reconnect

\* The whole invariant.
THEOREM FeedInvariant == Spec => []FInv
<1>1. Init => FInv
  BY TypeInit, RegistryInit, ChannelInit, OwedInit, OrderInit DEF FInv, IInv
<1>2. FInv /\ [Next]_vars => FInv'
  BY TypeStep, RegistryStep, ChannelStep, OwedStep, OrderStep DEF FInv, IInv
<1>. QED
  BY <1>1, <1>2, PTL DEF Spec
-----------------------------------------------------------------------------
(* The steps of the feed *)

Hears(c) == Healthy /\ Live(c)

Kept(c) == Pending(c)' = Pending(c) /\ delivered'[c] = delivered[c]
Lost(c) == ~Hears(c)' /\ Pending(c)' \subseteq Pending(c) /\ delivered'[c] = delivered[c]
Begun(c) == ~Hears(c) /\ delivered'[c] = {}

\* A step after which each socket has what it had, has lost some of it because it
\* does not hear any more, or is new, is a turn of the feed.
LEMMA TurnOfFeed ==
    ASSUME TypeOK, TypeOK', UNCHANGED topic,
           \A c \in Connections : Kept(c) \/ Lost(c) \/ Begun(c)
    PROVE  Feed!Turn
<1>1. /\ {c \in Connections : Healthy /\ Live(c)}' \in SUBSET Connections
      /\ [c \in Connections |-> Pending(c)]' \in [Connections -> SUBSET (1..Len(topic))]
      /\ delivered' \in [Connections -> SUBSET (1..Len(topic))]
      /\ UNCHANGED Len(topic)
  BY DEF Pending, TypeOK, Published
<1>2. ASSUME NEW c \in Connections PROVE Feed!Same(c) \/ Feed!Lose(c) \/ Feed!Begin(c)
  <2>1. Pending(c)' \subseteq 1..Len(topic)
    BY DEF Pending, Published
  <2>2. CASE Kept(c)
    BY <2>2 DEF Kept, Feed!Same
  <2>3. CASE Lost(c)
    BY <2>3 DEF Lost, Hears, Feed!Lose
  <2>4. CASE Begun(c)
    BY <2>1, <2>4 DEF Begun, Hears, Feed!Begin
  <2>. QED
    BY <2>2, <2>3, <2>4
<1>. QED
  BY <1>1, <1>2 DEF Feed!Turn

\* What is in a sequence is its head or in its tail.
LEMMA InHeadOrTail ==
    ASSUME NEW S, NEW s \in Seq(S), s # <<>>, NEW x
    PROVE  (\E i \in DOMAIN s : s[i] = x)
              <=> (x = Head(s) \/ \E i \in DOMAIN Tail(s) : Tail(s)[i] = x)
<1>1. ASSUME NEW i \in DOMAIN s, s[i] = x
      PROVE  x = Head(s) \/ \E j \in DOMAIN Tail(s) : Tail(s)[j] = x
  <2>1. CASE i = 1
    BY <1>1, <2>1
  <2>2. CASE i # 1
    <3>1. i - 1 \in DOMAIN Tail(s) /\ Tail(s)[i - 1] = x
      BY <1>1, <2>2
    <3>. QED
      BY <3>1
  <2>. QED
    BY <2>1, <2>2
<1>2. ASSUME x = Head(s) PROVE \E i \in DOMAIN s : s[i] = x
  <2>1. 1 \in DOMAIN s /\ s[1] = x
    BY <1>2
  <2>. QED
    BY <2>1
<1>3. ASSUME NEW j \in DOMAIN Tail(s), Tail(s)[j] = x PROVE \E i \in DOMAIN s : s[i] = x
  <2>1. j + 1 \in DOMAIN s /\ s[j + 1] = x
    BY <1>3
  <2>. QED
    BY <2>1
<1>. QED
  BY <1>1, <1>2, <1>3

\* What is in a sequence with one element more is that element or was there.
LEMMA InAppended ==
    ASSUME NEW S, NEW s \in Seq(S), NEW e, NEW x
    PROVE  (\E i \in DOMAIN Append(s, e) : Append(s, e)[i] = x)
              <=> (x = e \/ \E i \in DOMAIN s : s[i] = x)
<1>1. ASSUME NEW i \in DOMAIN Append(s, e), Append(s, e)[i] = x
      PROVE  x = e \/ \E j \in DOMAIN s : s[j] = x
  BY <1>1
<1>2. ASSUME x = e PROVE \E i \in DOMAIN Append(s, e) : Append(s, e)[i] = x
  <2>1. Len(s) + 1 \in DOMAIN Append(s, e) /\ Append(s, e)[Len(s) + 1] = x
    BY <1>2
  <2>. QED
    BY <2>1
<1>3. ASSUME NEW j \in DOMAIN s, s[j] = x PROVE \E i \in DOMAIN Append(s, e) : Append(s, e)[i] = x
  <2>1. j \in DOMAIN Append(s, e) /\ Append(s, e)[j] = x
    BY <1>3
  <2>. QED
    BY <2>1
<1>. QED
  BY <1>1, <1>2, <1>3

\* The steps that neither publish nor send.
Turns ==
    \/ \E c \in Connections : Join(c) \/ Disconnect(c) \/ EndSession(c) \/ Leave(c) \/ Reopen(c)
    \/ Read \/ BroadcastEnd \/ Reconnect \/ Outage \/ Recover

\* None of them publishes.
LEMMA TurnsPublishNothing == Turns => UNCHANGED topic
BY DEF Turns, Join, JoinRegister, SubscribeBegin, SubscribeOk, SubscribeFail, Disconnect,
       EndSession, Leave, LeaveUnregister, UnsubscribeBegin, UnsubscribeEnd, Reopen, Read,
       ReaderCheck, ReadBegin, ReadMessage, ReadNothing, ReadFail, BroadcastEnd, Reconnect,
       ReconnectBegin, Resubscribe, ResubscribeFail, ReconnectEnd, Outage, Recover

\* Each of them leaves every socket what it had, takes some of it from one that
\* does not hear any more, or begins with a new one.
LEMMA TurnStep ==
    ASSUME FInv, Turns, NEW d \in Connections
    PROVE  Kept(d) \/ Lost(d) \/ Begun(d)
<1>. DEFINE Goal == Kept(d) \/ Lost(d) \/ Begun(d)
<1>. USE FanoutAssumption DEF FInv, IInv, TypeOK, Published, OrderInv, RegisteredOnce,
         OutsideIsUnsent, HoldsRegistry, GoTo, Registered, Unregistered, NewPubSub, IdleReader,
         Kept, Lost, Begun, Hears, Healthy, Live, Pending
<1>1. ASSUME NEW c \in Connections, JoinRegister(c) PROVE Goal
  BY <1>1 DEF JoinRegister
<1>2. ASSUME NEW c \in Connections, SubscribeBegin(c) PROVE Goal
  BY <1>2 DEF SubscribeBegin
<1>3. ASSUME NEW c \in Connections, SubscribeOk(c) PROVE Goal
  BY <1>3 DEF SubscribeOk
<1>4. ASSUME NEW c \in Connections, SubscribeFail(c) PROVE Goal
  BY <1>4 DEF SubscribeFail
<1>5. ASSUME NEW c \in Connections, Disconnect(c) PROVE Goal
  BY <1>5 DEF Disconnect
<1>6. ASSUME NEW c \in Connections, EndSession(c) PROVE Goal
  BY <1>6 DEF EndSession
<1>7. ASSUME NEW c \in Connections, LeaveUnregister(c) PROVE Goal
  BY <1>7 DEF LeaveUnregister
<1>8. ASSUME NEW c \in Connections, UnsubscribeBegin(c) PROVE Goal
  BY <1>8 DEF UnsubscribeBegin
<1>9. ASSUME NEW c \in Connections, UnsubscribeEnd(c) PROVE Goal
  BY <1>9 DEF UnsubscribeEnd
<1>10. ASSUME NEW c \in Connections, Reopen(c) PROVE Goal
  BY <1>10 DEF Reopen
<1>11. CASE ReaderCheck
  BY <1>11 DEF ReaderCheck
<1>12. CASE ReadBegin
  BY <1>12 DEF ReadBegin
<1>13. CASE ReadMessage
  <2>1. /\ UNCHANGED <<connections, handler, alive, pubsub, topic, delivered>>
        /\ inbox # <<>> /\ inbox' = Tail(inbox)
        /\ reader.pc = "reading" /\ reader'.pc = "delivering"
        /\ reader'.message = Head(inbox)
        /\ reader'.todo = connections[topic[Head(inbox)]]
    BY <1>13 DEF ReadMessage
  <2>2. ASSUME NEW n
        PROVE  (\E i \in DOMAIN inbox : inbox[i] = n)
                  <=> (n = Head(inbox) \/ \E i \in DOMAIN inbox' : inbox'[i] = n)
    <3>1. inbox \in Seq(1..Len(topic)) /\ inbox # <<>> /\ inbox' = Tail(inbox)
      BY <2>1
    <3>. HIDE DEF FInv
    <3>. QED
      BY <3>1, InHeadOrTail
  <2>3. ASSUME NEW n \in Published
        PROVE  n \in Pending(d)' <=> n \in Pending(d)
    <3>1. CASE alive[d] /\ d \in connections[ConvOf[d]] /\ topic[n] = ConvOf[d]
      <4>1. n \in Pending(d) <=> \E i \in DOMAIN inbox : inbox[i] = n
        BY <2>1, <3>1
      <4>2. n \in Pending(d)' <=> (n = Head(inbox) \/ \E i \in DOMAIN inbox' : inbox'[i] = n)
        BY <2>1, <3>1
      <4>. HIDE DEF FInv, Pending, Healthy, Live
      <4>. QED
        BY <2>2, <4>1, <4>2
    <3>2. CASE ~(alive[d] /\ d \in connections[ConvOf[d]] /\ topic[n] = ConvOf[d])
      <4>1. n \notin Pending(d)
        BY <3>2
      <4>2. ~(alive'[d] /\ d \in connections'[ConvOf[d]] /\ topic'[n] = ConvOf[d])
        BY <2>1, <3>2
      <4>3. n \notin Pending(d)'
        BY <4>2
      <4>. QED
        BY <4>1, <4>3
    <3>. QED
      BY <3>1, <3>2
  <2>4. Pending(d)' = Pending(d)
    BY <2>1, <2>3
  <2>. QED
    BY <2>1, <2>4
<1>14. CASE ReadNothing
  BY <1>14 DEF ReadNothing
<1>15. CASE ReadFail
  BY <1>15 DEF ReadFail
<1>16. CASE BroadcastEnd
  <2>1. /\ UNCHANGED <<handler, alive, pubsub, inbox, topic, delivered>>
        /\ reader.pc = "delivering" /\ reader.todo = {} /\ reader'.pc = "idle"
    BY <1>16 DEF BroadcastEnd
  <2>2. alive[d] => (d \in connections'[ConvOf[d]] <=> d \in connections[ConvOf[d]])
    BY <1>16 DEF BroadcastEnd, RegistryInv, AliveIsRegistered
  <2>3. Pending(d)' = Pending(d)
    BY <2>1, <2>2
  <2>. QED
    BY <2>1, <2>3
<1>17. CASE ReconnectBegin
  BY <1>17 DEF ReconnectBegin
<1>18. CASE ResubscribeFail
  BY <1>18 DEF ResubscribeFail
<1>19. CASE ReconnectEnd
  BY <1>19 DEF ReconnectEnd
<1>20. CASE Outage
  BY <1>20 DEF Outage
<1>21. CASE Recover
  BY <1>21 DEF Recover
<1>22. ASSUME NEW v \in Conversations, Resubscribe(v) PROVE Goal
  BY <1>22 DEF Resubscribe
<1>. QED
  BY <1>1, <1>2, <1>3, <1>4, <1>5, <1>6, <1>7, <1>8, <1>9, <1>10, <1>11, <1>12, <1>13, <1>14, <1>15, <1>16, <1>17, <1>18, <1>19, <1>20, <1>21, <1>22
     DEF Turns, Join, Leave, Read, Reconnect

\* A message published by any replica is on its way to every socket that hears.
LEMMA PublishStep == ASSUME FInv, FInv', NEW v \in Conversations, Publish(v) PROVE Feed!Publish(v)
<1>. DEFINE new == Len(topic) + 1
            C == {c \in Connections : /\ ConvOf[c] = v /\ v \in Subscribed
                                      /\ alive[c] /\ c \in connections[v]}
<1>. USE FanoutAssumption DEF FInv, IInv, TypeOK
<1>1. /\ UNCHANGED <<connections, handler, alive, channels, pubsub, reader, delivered>>
      /\ topic' = Append(topic, v) /\ Len(topic') = new
      /\ inbox' = IF v \in Subscribed THEN Append(inbox, new) ELSE inbox
  BY DEF Publish
<1>2. ASSUME NEW c \in Connections
      PROVE  Pending(c)' = IF c \in C THEN Pending(c) \cup {new} ELSE Pending(c)
  <2>1. ASSUME NEW n \in Published
        PROVE  n \in Published' /\ topic'[n] = topic[n] /\ n # new
    BY <1>1 DEF Published
  <2>2. ASSUME NEW n \in Published
        PROVE  (\E i \in DOMAIN inbox' : inbox'[i] = n) <=> (\E i \in DOMAIN inbox : inbox[i] = n)
    <3>1. CASE v \in Subscribed
      <4>1. inbox \in Seq(Published) /\ new \in Nat /\ inbox' = Append(inbox, new)
        BY <1>1, <3>1
      <4>. HIDE DEF FInv
      <4>. QED
        BY <2>1, <4>1, InAppended
    <3>2. CASE v \notin Subscribed
      BY <1>1, <3>2
    <3>. QED
      BY <3>1, <3>2
  <2>3. /\ topic'[new] = v /\ reader.message # new
        /\ (\E i \in DOMAIN inbox' : inbox'[i] = new) <=> v \in Subscribed
    <3>1. topic'[new] = v
      BY <1>1
    <3>2. reader.message # new
      BY DEF Published
    <3>3. CASE v \in Subscribed
      <4>1. Len(inbox) + 1 \in DOMAIN inbox' /\ inbox'[Len(inbox) + 1] = new
        BY <1>1, <3>3
      <4>. QED
        BY <3>1, <3>2, <3>3, <4>1
    <3>4. CASE v \notin Subscribed
      <4>1. \A i \in DOMAIN inbox : inbox[i] # new
        BY DEF Published
      <4>. QED
        BY <1>1, <3>1, <3>2, <3>4, <4>1
    <3>. QED
      BY <3>3, <3>4
  <2>4. Published' = Published \cup {new}
    BY <1>1 DEF Published
  <2>5. ASSUME NEW n \in Published PROVE n \in Pending(c)' <=> n \in Pending(c)
    BY <1>1, <2>1, <2>2 DEF Pending
  <2>6. new \in Pending(c)' <=> c \in C
    BY <1>1, <2>3, <2>4 DEF Pending
  <2>7. Pending(c)' \subseteq Published \cup {new} /\ Pending(c) \subseteq Published
    BY <2>4 DEF Pending
  <2>. HIDE DEF C, new, FInv
  <2>. QED
    BY <2>1, <2>5, <2>6, <2>7
<1>3. \A c \in {c \in Connections : Healthy /\ Live(c)} : ConvOf[c] = v => c \in C
  BY RegistryImplies DEF ChannelInv, LiveSocketIsSubscribed, Healthy, Subscribed, Live
<1>4. {c \in Connections : Healthy /\ Live(c)}' = {c \in Connections : Healthy /\ Live(c)}
  BY <1>1 DEF Healthy, Live
<1>5. C \in SUBSET {c \in Connections : ConvOf[c] = v}
  OBVIOUS
<1>6. [c \in Connections |-> Pending(c)]'
         = [c \in Connections |->
              IF c \in C THEN [d \in Connections |-> Pending(d)][c] \cup {Len(topic) + 1}
                         ELSE [d \in Connections |-> Pending(d)][c]]
  BY <1>2
<1>. HIDE DEF C, FInv
<1>. QED
  BY <1>1, <1>3, <1>4, <1>5, <1>6 DEF Feed!Publish

\* A broadcast sends a socket the first of what is on its way to it.
LEMMA SendStep ==
    ASSUME FInv, FInv', NEW c \in Connections, BroadcastSend(c), alive[c]
    PROVE  Feed!Deliver(c)
<1>. DEFINE k == reader.message
<1>. USE FanoutAssumption DEF FInv, IInv, TypeOK, Published, OrderInv, LinkInOrder, RegisteredOnce
<1>1. /\ UNCHANGED <<connections, handler, alive, pubsub, inbox, topic>>
      /\ reader.pc = "delivering" /\ c \in reader.todo
      /\ reader' = [reader EXCEPT !.todo = @ \ {c}]
      /\ delivered' = [delivered EXCEPT ![c] = @ \cup {k}]
  BY DEF BroadcastSend
<1>2. k \in Published /\ topic[k] = ConvOf[c]
  BY <1>1
<1>3. c \in connections[ConvOf[c]]
  BY <1>1 DEF RegistryInv, AliveIsRegistered, OutsideIsUnsent, HandlerPC, HoldsRegistry
<1>4. k \in Pending(c)
  BY <1>1, <1>2, <1>3 DEF Pending
<1>5. \A n \in Pending(c) : n \in Nat /\ k <= n
  BY <1>1 DEF Pending
<1>6. /\ reader'.pc = "delivering" /\ reader'.message = k
      /\ reader'.todo = reader.todo \ {c}
  BY <1>1
<1>7. Pending(c)' = Pending(c) \ {k}
  BY <1>1, <1>6 DEF Pending
<1>8. \A d \in Connections : d # c => Pending(d)' = Pending(d)
  BY <1>1, <1>6 DEF Pending
<1>9. {d \in Connections : Healthy /\ Live(d)}' = {d \in Connections : Healthy /\ Live(d)}
  BY <1>1, <1>6 DEF Healthy, Live
<1>10. [d \in Connections |-> Pending(d)]'
          = [[d \in Connections |-> Pending(d)] EXCEPT ![c] = @ \ {k}]
  BY <1>7, <1>8
<1>. HIDE DEF FInv
<1>. QED
  BY <1>1, <1>4, <1>5, <1>9, <1>10 DEF Feed!Deliver

\* A send to a dead socket changes nothing of the feed.
LEMMA DeadSendStep ==
    ASSUME FInv, NEW c \in Connections, BroadcastSend(c), ~alive[c]
    PROVE  UNCHANGED topic /\ \A d \in Connections : Kept(d)
<1>. USE DEF FInv, IInv, TypeOK
<1>1. /\ UNCHANGED <<connections, alive, inbox, topic, delivered>>
      /\ reader' = [reader EXCEPT !.todo = @ \ {c}, !.dead = @ \cup {c}]
  BY DEF BroadcastSend
<1>2. /\ reader'.pc = reader.pc /\ reader'.message = reader.message
      /\ reader'.todo = reader.todo \ {c}
  BY <1>1
<1>. QED
  BY <1>1, <1>2 DEF Kept, Pending, Published
-----------------------------------------------------------------------------
\* A replica that has just started is a feed that has just begun.
LEMMA FeedInitially == Init => Feed!FeedInit
BY FanoutAssumption DEF Init, Feed!FeedInit, Feed!Nothing, Healthy, Live, Pending, NewPubSub,
     IdleReader, Published

\* Every step of the replica is a step of the feed, or leaves the feed alone.
LEMMA FeedStep == FInv /\ FInv' /\ [Next]_vars => [Feed!FeedNext]_(Feed!feedVars)
<1>. SUFFICES ASSUME FInv, FInv', [Next]_vars PROVE [Feed!FeedNext]_(Feed!feedVars)
  OBVIOUS
<1>1. TypeOK /\ TypeOK'
  BY DEF FInv, IInv
<1>2. CASE Turns
  <2>1. UNCHANGED topic
    BY <1>2, TurnsPublishNothing
  <2>2. \A d \in Connections : Kept(d) \/ Lost(d) \/ Begun(d)
    BY <1>2, TurnStep
  <2>. QED
    BY <1>1, <2>1, <2>2, TurnOfFeed DEF Feed!FeedNext
<1>3. ASSUME NEW v \in Conversations, Publish(v) PROVE Feed!FeedNext
  BY <1>3, PublishStep DEF Feed!FeedNext
<1>4. ASSUME NEW c \in Connections, BroadcastSend(c) PROVE Feed!FeedNext
  <2>1. CASE alive[c]
    BY <1>4, <2>1, SendStep DEF Feed!FeedNext
  <2>2. CASE ~alive[c]
    BY <1>1, <1>4, <2>2, DeadSendStep, TurnOfFeed DEF Feed!FeedNext
  <2>. QED
    BY <2>1, <2>2
<1>5. CASE UNCHANGED vars
  <2>1. Len(topic)' = Len(topic) /\ UNCHANGED delivered
    BY <1>5 DEF vars
  <2>2. {c \in Connections : Healthy /\ Live(c)}' = {c \in Connections : Healthy /\ Live(c)}
    BY <1>5 DEF vars, Healthy, Live
  <2>3. \A c \in Connections : Pending(c)' = Pending(c)
    BY <1>5 DEF vars, Pending, Published
  <2>. QED
    BY <2>1, <2>2, <2>3 DEF Feed!feedVars
<1>. QED
  BY <1>2, <1>3, <1>4, <1>5 DEF Next, Turns, Broadcast

\* Live fan-out implements the feed of its sockets, for any sockets, conversations
\* and bounds: whatever joins, leaves, fails and comes back, what is on its way
\* to a socket that hears is lost to none, and is sent in the order of Redis.
THEOREM FanoutImplementsFeed == Spec => ImplementsFeed
BY FeedInitially, FeedStep, FeedInvariant, PTL DEF Spec, ImplementsFeed, Feed!FeedSpec

\* What is proved of every feed holds of this one.
Proved == INSTANCE LiveFeed_proofs WITH
              Sockets <- Connections,
              published <- Len(topic),
              hearing <- {c \in Connections : Healthy /\ Live(c)},
              pending <- [c \in Connections |-> Pending(c)]

\* A socket is sent the live messages in the order in which Redis received them,
\* across outages, reconnections and broadcasts that fail.
THEOREM SentInOrder == Spec => Proved!InPublishOrder
<1>1. Feed!FeedInit => Proved!FeedInit
  BY DEF Feed!FeedInit, Proved!FeedInit, Feed!Nothing, Proved!Nothing
<1>2. [Feed!FeedNext]_(Feed!feedVars) => [Proved!FeedNext]_(Proved!feedVars)
  BY DEF Feed!FeedNext, Feed!Publish, Feed!Deliver, Feed!Turn, Feed!Same, Feed!Lose, Feed!Begin,
         Feed!feedVars, Proved!FeedNext, Proved!Publish, Proved!Deliver, Proved!Turn,
         Proved!Same, Proved!Lose, Proved!Begin, Proved!feedVars
<1>. QED
  BY <1>1, <1>2, FanoutImplementsFeed, Proved!FeedIsInOrder, PTL
     DEF ImplementsFeed, Feed!FeedSpec, Proved!FeedSpec
-----------------------------------------------------------------------------
(***************************************************************************)
(* 3. The shutdown                                                         *)
(*                                                                         *)
(* What a replica does before and during the drain it does as always, so   *)
(* the lemmas of part 1 hold of it.  The drain itself closes sockets and   *)
(* leaves registrations alone until its last close.                        *)
(***************************************************************************)
-----------------------------------------------------------------------------
(* The invariant *)

\* A socket that is being served, or about to be.
Registering(c) == handler[c] \in {"subscribe", "subscribing", "live"} /\ alive[c]

\* A handler that has not joined, or has left, is not in the dictionary.
OutsideIsUnregistered ==
    \A c \in Connections :
        handler[c] \in {"joining", "unsubscribe", "unsubscribing", "closed"}
            => c \notin connections[ConvOf[c]]

\* Every socket that is served is one that close_all has still to visit, or joined
\* after it began.
DrainReaches ==
    /\ Draining =>
          \A c \in Connections : Registering(c) =>
              c \in shutdown.late \cup shutdown.todo \/ ConvOf[c] \in shutdown.sets
    /\ shutdown.pc \in {"stopping", "aborted"} /\ ~shutdown.timedOut =>
          \A c \in Connections : Registering(c) => c \in shutdown.late

SInv ==
    /\ TypeOK
    /\ ShutdownTypeOK
    /\ OutsideIsUnregistered
    /\ Serving \/ Draining => RegistryInv
    /\ DrainReaches
-----------------------------------------------------------------------------
(* What the replica does meanwhile *)

\* What goes on beside the shutdown are steps of ReplicaFanout.
LEMMA ReplicaGoesOn == Replica => Next
BY DEF Replica, Handle, Accept, Send, Next, Broadcast

\* A handler that was not served, or about to be, is so only by a registration.
OnlyJoinsRegister ==
    \A c \in Connections : Registering(c)' =>
        Registering(c) \/ c \in connections'[ConvOf[c]] \ connections[ConvOf[c]]

\* A registration is made by a join, and is gone when its handler is.
LEMMA OutsideStep ==
    ASSUME TypeOK, OutsideIsUnregistered, [Next]_vars
    PROVE  OutsideIsUnregistered' /\ OnlyJoinsRegister
<1>. DEFINE Goal == OutsideIsUnregistered' /\ OnlyJoinsRegister
<1>0. /\ connections \in [Conversations -> SUBSET Connections]
      /\ handler \in [Connections -> HandlerPC]
      /\ alive \in [Connections -> BOOLEAN]
      /\ ConvOf \in [Connections -> Conversations]
  BY FanoutAssumption DEF TypeOK
<1>1. ASSUME NEW c \in Connections, JoinRegister(c) PROVE Goal
  <2>1. /\ handler[c] = "joining" /\ c \in connections'[ConvOf[c]] \ connections[ConvOf[c]]
        /\ handler'[c] \in {"subscribe", "live"} /\ UNCHANGED alive
        /\ \A d \in Connections : d # c =>
              handler'[d] = handler[d]
              /\ (d \in connections'[ConvOf[d]] <=> d \in connections[ConvOf[d]])
    BY <1>0, <1>1 DEF JoinRegister, Registered, GoTo, OutsideIsUnregistered
  <2>. QED
    BY <2>1 DEF OutsideIsUnregistered, OnlyJoinsRegister, Registering
<1>2. ASSUME NEW c \in Connections, SubscribeBegin(c) \/ SubscribeOk(c) \/ EndSession(c)
      PROVE  Goal
  <2>1. /\ UNCHANGED connections /\ handler[c] \in {"subscribe", "subscribing", "live"}
        /\ handler'[c] \in {"subscribing", "live", "leaving"}
        /\ \A d \in Connections : alive'[d] => alive[d]
        /\ \A d \in Connections : d # c => handler'[d] = handler[d]
    BY <1>0, <1>2 DEF SubscribeBegin, SubscribeOk, EndSession, GoTo
  <2>. QED
    BY <2>1 DEF OutsideIsUnregistered, OnlyJoinsRegister, Registering
<1>3. ASSUME NEW c \in Connections, SubscribeFail(c) \/ LeaveUnregister(c) PROVE Goal
  <2>1. /\ c \notin connections'[ConvOf[c]] /\ handler'[c] \in {"unsubscribe", "closed"}
        /\ \A v \in Conversations : connections'[v] \subseteq connections[v]
        /\ \A d \in Connections : alive'[d] => alive[d]
        /\ \A d \in Connections : d # c => handler'[d] = handler[d]
    BY <1>0, <1>3 DEF SubscribeFail, LeaveUnregister, Unregistered, GoTo
  <2>. QED
    BY <1>0, <2>1 DEF OutsideIsUnregistered, OnlyJoinsRegister, Registering
<1>4. ASSUME NEW c \in Connections, UnsubscribeBegin(c) \/ UnsubscribeEnd(c) \/ Reopen(c)
      PROVE  Goal
  <2>1. /\ UNCHANGED connections /\ handler[c] \in {"unsubscribe", "unsubscribing", "closed"}
        /\ handler'[c] \in {"unsubscribing", "closed", "joining"}
        /\ \A d \in Connections : d # c => handler'[d] = handler[d] /\ alive'[d] = alive[d]
    BY <1>0, <1>4 DEF UnsubscribeBegin, UnsubscribeEnd, Reopen, GoTo
  <2>. QED
    BY <2>1 DEF OutsideIsUnregistered, OnlyJoinsRegister, Registering
<1>5. ASSUME NEW c \in Connections, Disconnect(c) PROVE Goal
  <2>1. UNCHANGED <<connections, handler>> /\ \A d \in Connections : alive'[d] => alive[d]
    BY <1>0, <1>5 DEF Disconnect
  <2>. QED
    BY <2>1 DEF OutsideIsUnregistered, OnlyJoinsRegister, Registering
<1>6. ASSUME BroadcastEnd PROVE Goal
  <2>1. UNCHANGED <<handler, alive>> /\ \A v \in Conversations : connections'[v] \subseteq connections[v]
    BY <1>0, <1>6 DEF BroadcastEnd, Unregistered
  <2>. QED
    BY <1>0, <2>1 DEF OutsideIsUnregistered, OnlyJoinsRegister, Registering
<1>7. ASSUME UNCHANGED <<connections, handler, alive>> PROVE Goal
  BY <1>7 DEF OutsideIsUnregistered, OnlyJoinsRegister, Registering
<1>8. ASSUME Read PROVE Goal
  BY <1>7, <1>8 DEF Read, ReaderCheck, ReadBegin, ReadMessage, ReadNothing, ReadFail
<1>9. ASSUME Reconnect PROVE Goal
  BY <1>7, <1>9 DEF Reconnect, ReconnectBegin, ReconnectEnd, ResubscribeFail, Resubscribe
<1>10. ASSUME NEW c \in Connections, BroadcastSend(c) PROVE Goal
  BY <1>7, <1>10 DEF BroadcastSend
<1>11. ASSUME (\E v \in Conversations : Publish(v)) \/ Outage \/ Recover \/ UNCHANGED vars PROVE Goal
  BY <1>7, <1>11 DEF Publish, Outage, Recover, vars
<1>. HIDE DEF Goal
<1>12. ASSUME NEW c \in Connections, Join(c) \/ Disconnect(c) \/ EndSession(c) \/ Leave(c) \/ Reopen(c)
       PROVE  Goal
  BY <1>1, <1>2, <1>3, <1>4, <1>5, <1>12 DEF Join, Leave
<1>13. Goal
  BY <1>6, <1>8, <1>9, <1>10, <1>11, <1>12 DEF Next, Broadcast
<1>. QED
  BY <1>13 DEF Goal

\* Beside the drain, sockets come and go: those that join are late, and a set with
\* a socket left in it is still to be visited.
LEMMA MeanwhileStep ==
    ASSUME SInv, ~Ended, Replica, Meanwhile
    PROVE  SInv'
<1>1. TypeOK /\ ShutdownTypeOK /\ OutsideIsUnregistered /\ DrainReaches /\ [Next]_vars
  BY ReplicaGoesOn DEF SInv
<1>2. TypeOK'
  BY <1>1, TypeStep
<1>3. OutsideIsUnregistered' /\ OnlyJoinsRegister
  BY <1>1, OutsideStep
<1>4. /\ shutdown'.pc = shutdown.pc /\ shutdown'.todo = shutdown.todo
      /\ shutdown'.timedOut = shutdown.timedOut
      /\ shutdown'.sets = {v \in shutdown.sets : connections'[v] # {}}
      /\ shutdown'.late = IF Serving THEN {} ELSE shutdown.late \cup
           {c \in Connections : c \in connections'[ConvOf[c]] \ connections[ConvOf[c]]}
      /\ shutdown' \in [pc : ShutdownPC, sets : SUBSET Conversations, todo : SUBSET Connections,
                        late : SUBSET Connections, timedOut : BOOLEAN]
  <2>. DEFINE sets == {v \in shutdown.sets : connections'[v] # {}}
              late == IF Serving THEN {} ELSE shutdown.late \cup
                        {c \in Connections : c \in connections'[ConvOf[c]] \ connections[ConvOf[c]]}
  <2>1. shutdown' = [shutdown EXCEPT !.sets = sets, !.late = late]
    BY DEF Meanwhile
  <2>2. sets \in SUBSET Conversations /\ late \in SUBSET Connections
    BY <1>1 DEF ShutdownTypeOK
  <2>. HIDE DEF sets, late
  <2>3. shutdown' \in [pc : ShutdownPC, sets : SUBSET Conversations, todo : SUBSET Connections,
                       late : SUBSET Connections, timedOut : BOOLEAN]
    BY <1>1, <2>1, <2>2 DEF ShutdownTypeOK
  <2>4. /\ shutdown'.pc = shutdown.pc /\ shutdown'.todo = shutdown.todo
        /\ shutdown'.timedOut = shutdown.timedOut /\ shutdown'.sets = sets /\ shutdown'.late = late
    BY <1>1, <2>1 DEF ShutdownTypeOK
  <2>. QED
    BY <2>3, <2>4 DEF sets, late
<1>5. ShutdownTypeOK'
  BY <1>1, <1>4 DEF ShutdownTypeOK, Meanwhile
<1>6. (Serving \/ Draining => RegistryInv)'
  BY <1>1, <1>4, RegistryStep DEF SInv, Serving, Draining
<1>7. DrainReaches'
  <2>1. ASSUME Draining, NEW c \in Connections, Registering(c)'
        PROVE  c \in shutdown'.late \cup shutdown'.todo \/ ConvOf[c] \in shutdown'.sets
    <3>1. Serving = FALSE
      BY <2>1 DEF Serving, Draining
    <3>2. RegistryInv'
      BY <1>4, <1>6, <2>1 DEF Draining
    <3>3. connections'[ConvOf[c]] # {}
      BY <2>1, <3>2 DEF RegistryInv, AliveIsRegistered, Registering
    <3>. QED
      BY <1>1, <1>3, <1>4, <2>1, <3>1, <3>3 DEF OnlyJoinsRegister, DrainReaches
  <2>2. ASSUME shutdown.pc \in {"stopping", "aborted"}, ~shutdown.timedOut,
               NEW c \in Connections, Registering(c)'
        PROVE  c \in shutdown'.late
    <3>1. Serving = FALSE
      BY <2>2 DEF Serving
    <3>. QED
      BY <1>1, <1>3, <1>4, <2>2, <3>1 DEF OnlyJoinsRegister, DrainReaches
  <2>. QED
    BY <1>4, <2>1, <2>2 DEF DrainReaches, Draining
<1>. QED
  BY <1>2, <1>3, <1>5, <1>6, <1>7 DEF SInv
-----------------------------------------------------------------------------
(* The finally block *)

ShutdownType == [pc : ShutdownPC, sets : SUBSET Conversations, todo : SUBSET Connections,
                 late : SUBSET Connections, timedOut : BOOLEAN]

\* stop() leaves a dead reader that holds nothing.
LEMMA StopReaderStep ==
    ASSUME shutdown \in ShutdownType, NEW timedOut \in BOOLEAN, StopReader(timedOut)
    PROVE  /\ shutdown' \in ShutdownType
           /\ shutdown'.pc \in {"stopping", "aborted"}
           /\ shutdown'.late = shutdown.late /\ shutdown'.timedOut = timedOut
           /\ reader' \in ReaderType' /\ reader'.pc # "delivering"
<1>. DEFINE pc == IF reader.pc = "dead" THEN "aborted" ELSE "stopping"
<1>1. shutdown' = [shutdown EXCEPT !.pc = pc, !.sets = {}, !.todo = {}, !.timedOut = timedOut]
  BY DEF StopReader
<1>2. pc \in {"stopping", "aborted"} /\ pc \in ShutdownPC
  BY DEF ShutdownPC
<1>. HIDE DEF pc
<1>3. shutdown' \in ShutdownType
  BY <1>1, <1>2 DEF ShutdownType
<1>4. shutdown'.pc = pc /\ shutdown'.late = shutdown.late /\ shutdown'.timedOut = timedOut
  BY <1>1 DEF ShutdownType
<1>5. reader' = [pc |-> "dead", message |-> 0, todo |-> {}, dead |-> {}, missing |-> {}]
  BY DEF StopReader, IdleReader
<1>6. reader' \in ReaderType' /\ reader'.pc # "delivering"
  BY <1>5 DEF ReaderType, ReaderPC
<1>. QED
  BY <1>2, <1>3, <1>4, <1>6

\* The snapshot of a set has every socket of it that is served; with no set left,
\* the sockets that are served are late.
LEMMA VisitStep ==
    ASSUME SInv, NEW S \in SUBSET Conversations, Visit(S), UNCHANGED handler, RegistryInv,
           \A c \in Connections : alive'[c] => alive[c],
           \A c \in Connections : Registering(c)' => c \in shutdown.late \/ ConvOf[c] \in S
    PROVE  /\ connections' \in [Conversations -> SUBSET Connections]
           /\ \A v \in Conversations : connections'[v] \subseteq connections[v]
           /\ reader' \in ReaderType' \/ UNCHANGED reader
           /\ reader'.pc = "delivering" => UNCHANGED reader
           /\ shutdown' \in ShutdownType
           /\ DrainReaches'
           /\ Serving' \/ Draining' => UNCHANGED <<connections, reader>>
<1>0. /\ connections \in [Conversations -> SUBSET Connections]
      /\ shutdown \in ShutdownType
  BY DEF SInv, TypeOK, ShutdownTypeOK, ShutdownType
<1>1. ASSUME NEW v \in S, shutdown' = [shutdown EXCEPT !.pc = "draining", !.sets = S \ {v},
                                                         !.todo = connections[v]],
             UNCHANGED <<connections, reader>>
      PROVE  shutdown' \in ShutdownType /\ DrainReaches'
  <2>1. connections[v] \in SUBSET Connections /\ S \ {v} \in SUBSET Conversations
    BY <1>0
  <2>2. shutdown' \in ShutdownType
    BY <1>0, <1>1, <2>1 DEF ShutdownType, ShutdownPC
  <2>3. /\ shutdown'.pc = "draining" /\ shutdown'.sets = S \ {v}
        /\ shutdown'.todo = connections[v] /\ shutdown'.late = shutdown.late
    BY <1>0, <1>1 DEF ShutdownType
  <2>4. \A c \in Connections : Registering(c)' => c \in connections[ConvOf[c]]
    BY DEF Registering, RegistryInv, AliveIsRegistered
  <2>. QED
    BY <2>2, <2>3, <2>4 DEF DrainReaches, Draining
<1>2. ASSUME S = {}, connections' = [v \in Conversations |-> {}], StopReader(FALSE)
      PROVE  /\ shutdown' \in ShutdownType /\ DrainReaches'
             /\ reader' \in ReaderType' /\ reader'.pc # "delivering"
             /\ ~Serving' /\ ~Draining'
  <2>1. /\ shutdown' \in ShutdownType /\ shutdown'.pc \in {"stopping", "aborted"}
        /\ shutdown'.late = shutdown.late
        /\ reader' \in ReaderType' /\ reader'.pc # "delivering"
    BY <1>0, <1>2, StopReaderStep
  <2>. QED
    BY <1>2, <2>1 DEF DrainReaches, Draining, Serving
<1>3. CASE \E v \in S : /\ shutdown' = [shutdown EXCEPT !.pc = "draining", !.sets = S \ {v},
                                                        !.todo = connections[v]]
                        /\ UNCHANGED <<connections, reader>>
  BY <1>0, <1>1, <1>3
<1>4. CASE S = {} /\ connections' = [v \in Conversations |-> {}] /\ StopReader(FALSE)
  BY <1>0, <1>2, <1>4
<1>. QED
  BY <1>3, <1>4 DEF Visit

\* Closing sockets, or none, disturbs no registration.
LEMMA ClosingKeeps ==
    ASSUME TypeOK, RegistryInv, UNCHANGED <<connections, handler, channels, reader>>,
           \A c \in Connections : alive'[c] => alive[c]
    PROVE  RegistryInv'
<1>1. LocksExclude' /\ HolderKnows' /\ RegisteredIsRecorded'
  BY DEF RegistryInv, LocksExclude, HolderKnows, RegisteredIsRecorded
<1>2. AliveIsRegistered'
  BY DEF TypeOK, RegistryInv, AliveIsRegistered
<1>. QED
  BY <1>1, <1>2 DEF RegistryInv

LEMMA DrainBeginStep == ASSUME SInv, DrainBegin PROVE SInv'
<1>. DEFINE S == {v \in Conversations : connections[v] # {}}
<1>1. /\ Visit(S) /\ RegistryInv
      /\ UNCHANGED <<handler, alive, channels, pubsub, reachable, inbox, topic, delivered, owed,
                     outages, stalled>>
  BY DEF DrainBegin, SInv
<1>2. \A c \in Connections : Registering(c)' => c \in shutdown.late \/ ConvOf[c] \in S
  BY <1>1, FanoutAssumption DEF Registering, RegistryInv, AliveIsRegistered
<1>. HIDE DEF S
<1>3. S \in SUBSET Conversations
  BY DEF S
<1>4. /\ connections' \in [Conversations -> SUBSET Connections]
      /\ \A v \in Conversations : connections'[v] \subseteq connections[v]
      /\ reader' \in ReaderType' \/ UNCHANGED reader
      /\ reader'.pc = "delivering" => UNCHANGED reader
      /\ shutdown' \in ShutdownType /\ DrainReaches'
      /\ Serving' \/ Draining' => UNCHANGED <<connections, reader>>
  BY <1>1, <1>2, <1>3, VisitStep
<1>5. TypeOK'
  BY <1>1, <1>4 DEF SInv, TypeOK, ReaderType, Published
<1>6. ShutdownTypeOK' /\ OutsideIsUnregistered'
  BY <1>1, <1>4, FanoutAssumption DEF SInv, ShutdownTypeOK, ShutdownType, OutsideIsUnregistered
<1>7. (Serving \/ Draining => RegistryInv)'
  BY <1>1, <1>4, ClosingKeeps DEF SInv
<1>. QED
  BY <1>4, <1>5, <1>6, <1>7 DEF SInv

\* A close leaves the sockets still to be visited: the rest of this set, and the
\* other sets.
LEMMA DrainCloseStep == ASSUME SInv, NEW c \in Connections, DrainClose(c) PROVE SInv'
<1>1. /\ Draining /\ c \in shutdown.todo /\ RegistryInv
      /\ alive' = [alive EXCEPT ![c] = FALSE] /\ owed' = [owed EXCEPT ![c] = {}]
      /\ stalled' = stalled \ {c}
      /\ UNCHANGED <<handler, channels, pubsub, reachable, inbox, topic, delivered, outages>>
  BY DEF DrainClose, SInv
<1>2. /\ TypeOK /\ ShutdownTypeOK /\ OutsideIsUnregistered /\ shutdown \in ShutdownType
      /\ alive \in [Connections -> BOOLEAN]
  BY DEF SInv, TypeOK, ShutdownTypeOK, ShutdownType
<1>3. /\ \A d \in Connections : alive'[d] => alive[d]
      /\ \A d \in Connections : Registering(d)' =>
            d # c /\ (d \in shutdown.late \cup shutdown.todo \/ ConvOf[d] \in shutdown.sets)
  BY <1>1, <1>2 DEF SInv, DrainReaches, Registering
<1>4. /\ connections' \in [Conversations -> SUBSET Connections]
      /\ \A v \in Conversations : connections'[v] \subseteq connections[v]
      /\ reader' \in ReaderType' \/ UNCHANGED reader
      /\ reader'.pc = "delivering" => UNCHANGED reader
      /\ shutdown' \in ShutdownType /\ DrainReaches'
      /\ Serving' \/ Draining' => UNCHANGED <<connections, reader>>
  <2>1. CASE shutdown.todo = {c}
    <3>1. Visit(shutdown.sets) /\ shutdown.sets \in SUBSET Conversations
      BY <1>2, <2>1 DEF DrainClose, ShutdownType
    <3>2. \A d \in Connections : Registering(d)' => d \in shutdown.late \/ ConvOf[d] \in shutdown.sets
      BY <1>3, <2>1
    <3>. QED
      BY <1>1, <1>3, <3>1, <3>2, VisitStep
  <2>2. CASE shutdown.todo # {c}
    <3>1. shutdown' = [shutdown EXCEPT !.todo = @ \ {c}] /\ UNCHANGED <<connections, reader>>
      BY <2>2 DEF DrainClose
    <3>2. shutdown' \in ShutdownType
      BY <1>2, <3>1 DEF ShutdownType
    <3>3. /\ shutdown'.pc = shutdown.pc /\ shutdown'.sets = shutdown.sets
          /\ shutdown'.todo = shutdown.todo \ {c} /\ shutdown'.late = shutdown.late
      BY <1>2, <3>1 DEF ShutdownType
    <3>4. DrainReaches'
      BY <1>1, <1>3, <3>3 DEF DrainReaches, Draining
    <3>. QED
      BY <1>2, <3>1, <3>2, <3>4 DEF TypeOK
  <2>. QED
    BY <2>1, <2>2
<1>5. TypeOK'
  <2>1. alive' \in [Connections -> BOOLEAN] /\ owed' \in [Connections -> SUBSET Published]
    BY <1>1, <1>2 DEF TypeOK
  <2>. QED
    BY <1>1, <1>2, <1>4, <2>1 DEF TypeOK, ReaderType, Published
<1>6. ShutdownTypeOK' /\ OutsideIsUnregistered'
  BY <1>1, <1>2, <1>4, FanoutAssumption DEF ShutdownTypeOK, ShutdownType, OutsideIsUnregistered
<1>7. (Serving \/ Draining => RegistryInv)'
  BY <1>1, <1>2, <1>3, <1>4, ClosingKeeps
<1>. QED
  BY <1>4, <1>5, <1>6, <1>7 DEF SInv

\* A drain that times out may leave any socket open.
LEMMA DrainTimeoutStep == ASSUME SInv, DrainTimeout PROVE SInv'
<1>1. /\ StopReader(TRUE)
      /\ UNCHANGED <<connections, handler, alive, channels, pubsub, reachable, inbox, topic,
                     delivered, owed, outages, stalled>>
  BY DEF DrainTimeout
<1>2. /\ shutdown' \in ShutdownType /\ shutdown'.pc \in {"stopping", "aborted"}
      /\ shutdown'.timedOut = TRUE
      /\ reader' \in ReaderType' /\ reader'.pc # "delivering"
  BY <1>1, StopReaderStep DEF SInv, ShutdownTypeOK, ShutdownType
<1>3. TypeOK'
  BY <1>1, <1>2 DEF SInv, TypeOK, ReaderType, Published
<1>4. ShutdownTypeOK' /\ OutsideIsUnregistered'
  BY <1>1, <1>2 DEF SInv, ShutdownTypeOK, ShutdownType, OutsideIsUnregistered
<1>. QED
  BY <1>2, <1>3, <1>4 DEF SInv, Serving, Draining, DrainReaches

LEMMA CloseAllStep == ASSUME SInv, CloseAll PROVE SInv'
<1>1. /\ pubsub' = NewPubSub /\ inbox' = <<>>
      /\ UNCHANGED <<connections, handler, alive, channels, reachable, reader, topic, delivered,
                     owed, outages, stalled>>
      /\ shutdown' = [Running EXCEPT !.pc = "closed"]
  BY DEF CloseAll
<1>2. shutdown' \in ShutdownType /\ shutdown'.pc = "closed"
  BY <1>1 DEF Running, ShutdownType, ShutdownPC
<1>3. TypeOK'
  <2>1. inbox' \in Seq(Published') /\ pubsub' \in [memory : SUBSET Conversations, connected : BOOLEAN]
    BY <1>1 DEF NewPubSub
  <2>. QED
    BY <1>1, <2>1 DEF SInv, TypeOK, Published
<1>4. ShutdownTypeOK' /\ OutsideIsUnregistered'
  BY <1>1, <1>2 DEF SInv, ShutdownTypeOK, ShutdownType, OutsideIsUnregistered
<1>. QED
  BY <1>2, <1>3, <1>4 DEF SInv, Serving, Draining, DrainReaches
-----------------------------------------------------------------------------
(* Theorems *)

LEMMA ShutdownInitially == ShutdownInit => SInv
<1>. SUFFICES ASSUME ShutdownInit PROVE SInv
  OBVIOUS
<1>1. TypeOK /\ RegistryInv
  BY TypeInit, RegistryInit DEF ShutdownInit
<1>2. ShutdownTypeOK
  BY DEF ShutdownInit, ShutdownTypeOK, Running, ShutdownPC
<1>3. OutsideIsUnregistered
  BY FanoutAssumption DEF ShutdownInit, Init, OutsideIsUnregistered
<1>. QED
  BY <1>1, <1>2, <1>3 DEF ShutdownInit, SInv, DrainReaches, Draining, Running

\* A peer that stops reading, or nothing at all, changes no part of the invariant.
LEMMA StallStep ==
    ASSUME SInv, (\E c \in Connections : Stall(c)) \/ UNCHANGED lifeVars
    PROVE  SInv'
<1>1. UNCHANGED <<vars, shutdown>> /\ stalled' \subseteq MayStall
  BY DEF Stall, lifeVars, SInv, ShutdownTypeOK
<1>2. TypeOK'
  BY <1>1, TypeStep DEF SInv
<1>3. OutsideIsUnregistered' /\ ShutdownTypeOK'
  BY <1>1 DEF SInv, OutsideIsUnregistered, ShutdownTypeOK, vars
<1>4. RegistryInv => RegistryInv'
  BY <1>1, ClosingKeeps DEF SInv, vars
<1>5. DrainReaches'
  BY <1>1 DEF SInv, DrainReaches, Draining, Registering, vars
<1>. QED
  BY <1>1, <1>2, <1>3, <1>4, <1>5 DEF SInv, Serving, Draining

LEMMA ShutdownStep == SInv /\ [ShutdownNext]_lifeVars => SInv'
BY MeanwhileStep, DrainBeginStep, DrainCloseStep, DrainTimeoutStep, CloseAllStep, StallStep
   DEF ShutdownNext, Shutdown

\* The invariant of a replica that serves, drains and stops.
THEOREM ShutdownInvariant == ShutdownSpec => []SInv
BY ShutdownInitially, ShutdownStep, PTL DEF ShutdownSpec

\* A socket that close_all has not closed is served to the end of the drain:
\* registered, and its conversation recorded.
THEOREM DrainServes == ShutdownSpec => []DrainKeepsServing
<1>1. SInv => DrainKeepsServing
  BY RegistryImplies DEF SInv, DrainKeepsServing
<1>. QED
  BY <1>1, ShutdownInvariant, PTL

\* A drain that is not cut short by its timeout closes every socket that was there
\* when it began, although its snapshots age while it waits for closes.
THEOREM DrainIsComplete == ShutdownSpec => []DrainLeavesOnlyLate
<1>1. SInv => DrainLeavesOnlyLate
  BY DEF SInv, DrainReaches, DrainLeavesOnlyLate, Registering, Live
<1>. QED
  BY <1>1, ShutdownInvariant, PTL
=============================================================================
