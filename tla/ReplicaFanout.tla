--------------------------- MODULE ReplicaFanout ---------------------------
(***************************************************************************)
(* Live fan-out inside one API replica.                                    *)
(*                                                                         *)
(* Three objects share the event loop of a replica:                        *)
(*   - ConnectionManager: which sockets listen to which conversation;      *)
(*   - ConversationRegistry: join and leave, under one asyncio lock, which *)
(*     subscribe on the first join and unsubscribe on the last leave;      *)
(*   - RedisConversationSubscriber: the pub/sub connection (under a second *)
(*     lock) and the reader task that hands each message to the manager.   *)
(*                                                                         *)
(* A step is what the event loop runs between two awaits.  The locks are   *)
(* the program counters of the tasks that hold them.  Messages published   *)
(* by any replica are numbered in the order Redis receives them.           *)
(***************************************************************************)
EXTENDS Naturals, Sequences

CONSTANTS
    Connections,    \* the sockets this replica serves
    Conversations,
    ConvOf,         \* the conversation each socket asks for in its URL
    MaxPublish,     \* bound: messages published to Redis
    MaxOutages      \* bound: times the Redis connection is lost

ASSUME FanoutAssumption ==
    /\ ConvOf \in [Connections -> Conversations]
    /\ MaxPublish \in Nat
    /\ MaxOutages \in Nat

VARIABLES
    connections,    \* ConnectionManager._connections; {} stands for no key
    handler,        \* where each socket's handler task is
    alive,          \* the socket's peer is still there
    channels,       \* RedisConversationSubscriber._channels
    pubsub,         \* its redis-py PubSub: what it subscribed to, and its link
    reachable,      \* Redis accepts connections
    reader,         \* the reader task
    inbox,          \* messages received on the link and not read yet
    topic,          \* topic[n]: the conversation message n was published to
    delivered,      \* the messages each socket has been sent
    owed,           \* history: what each socket must still be sent
    outages         \* bound counter

vars == <<connections, handler, alive, channels, pubsub, reachable, reader,
          inbox, topic, delivered, owed, outages>>

-----------------------------------------------------------------------------
(* State *)

\* Handler tasks.  "subscribe" and "unsubscribe" wait for the pub/sub lock;
\* "subscribing" and "unsubscribing" hold it.  All four hold the registry's.
HoldsRegistry == {"subscribe", "subscribing", "unsubscribe", "unsubscribing"}
HandlerPC == {"joining", "live", "leaving", "closed"} \cup HoldsRegistry

\* The reader.  "reading" and "resubscribing" hold the pub/sub lock; a "dead"
\* reader is a task that ended with an exception: nothing starts another.
ReaderPC == {"idle", "waiting", "reading", "delivering", "backoff",
             "resubscribing", "dead"}

\* The messages published so far.
Published == 1..Len(topic)

\* Every variable has its type, and no message is known before it is published.
TypeOK ==
    /\ connections \in [Conversations -> SUBSET Connections]
    /\ handler \in [Connections -> HandlerPC]
    /\ alive \in [Connections -> BOOLEAN]
    /\ channels \in SUBSET Conversations
    /\ pubsub \in [memory : SUBSET Conversations, connected : BOOLEAN]
    /\ reachable \in BOOLEAN
    /\ topic \in Seq(Conversations)
    /\ reader \in [pc : ReaderPC, message : Published \cup {0},
                   todo : SUBSET Connections, dead : SUBSET Connections,
                   missing : SUBSET Conversations]
    /\ reader.pc = "delivering" => reader.message # 0
    /\ inbox \in Seq(Published)
    /\ delivered \in [Connections -> SUBSET Published]
    /\ owed \in [Connections -> SUBSET Published]
    /\ outages \in 0..MaxOutages

\* Fault: join and leave take no lock.
NoRegistryLock == TRUE

RegistryLockFree == \A c \in Connections : handler[c] \notin HoldsRegistry

\* Fault: the reader keeps its lock while it delivers.
LockedToDeliver ==
    /\ \A c \in Connections : handler[c] \notin {"subscribing", "unsubscribing"}
    /\ reader.pc \notin {"reading", "delivering", "resubscribing"}

SubscriberLockFree ==
    /\ \A c \in Connections : handler[c] \notin {"subscribing", "unsubscribing"}
    /\ reader.pc \notin {"reading", "resubscribing"}

\* What Redis sends down this replica's link.
Subscribed == IF pubsub.connected THEN pubsub.memory ELSE {}

\* The replica can hear Redis, and is not rebuilding its subscriptions.
Healthy ==
    pubsub.connected /\ reader.pc \notin {"backoff", "resubscribing", "dead"}

\* The socket is serving its client.
Live(c) == handler[c] = "live" /\ alive[c]

NewPubSub == [memory |-> {}, connected |-> FALSE]
IdleReader == [pc |-> "idle", message |-> 0, todo |-> {}, dead |-> {}, missing |-> {}]

Init ==
    /\ connections = [v \in Conversations |-> {}]
    /\ handler = [c \in Connections |-> "joining"]
    /\ alive = [c \in Connections |-> TRUE]
    /\ channels = {}
    /\ pubsub = NewPubSub
    /\ reachable = TRUE
    /\ reader = IdleReader
    /\ inbox = <<>>
    /\ topic = <<>>
    /\ delivered = [c \in Connections |-> {}]
    /\ owed = [c \in Connections |-> {}]
    /\ outages = 0

\* ConnectionManager.register and .unregister, and what they return.
Registered(c) ==
    [connections EXCEPT ![ConvOf[c]] = @ \cup {c}]
IsFirst(c) == connections[ConvOf[c]] = {}
Unregistered(v, C) ==
    [connections EXCEPT ![v] = @ \ C]
IsLast(c) == connections[ConvOf[c]] # {} /\ connections[ConvOf[c]] \subseteq {c}

GoTo(c, pc) == handler' = [handler EXCEPT ![c] = pc]
-----------------------------------------------------------------------------
(* Faults: variants of the actions below that the properties tell from the code *)

\* The reader idles with one channel as with none.
CheckForTwo ==
    /\ reader.pc = "idle" /\ \E v, w \in channels : v # w
    /\ reader' = [reader EXCEPT !.pc = "waiting"]
    /\ UNCHANGED <<connections, handler, alive, channels, pubsub, reachable,
                   inbox, topic, delivered, owed, outages>>

\* The latest message is read first.
ReadLatest ==
    /\ reader.pc = "reading" /\ pubsub.connected /\ inbox # <<>>
    /\ inbox' = SubSeq(inbox, 1, Len(inbox) - 1)
    /\ reader' = [reader EXCEPT !.pc = "delivering", !.message = inbox[Len(inbox)],
                                !.todo = connections[topic[inbox[Len(inbox)]]]]
    /\ UNCHANGED <<connections, handler, alive, channels, pubsub, reachable,
                   topic, delivered, owed, outages>>

\* A read that returned None is delivered.
DeliverNone ==
    /\ reader.pc = "reading" /\ inbox = <<>> /\ pubsub.connected
    /\ reader' = [reader EXCEPT !.pc = "delivering"]
    /\ UNCHANGED <<connections, handler, alive, channels, pubsub, reachable,
                   inbox, topic, delivered, owed, outages>>

\* The first dead socket ends the broadcast.
BroadcastStops(c) ==
    /\ reader.pc = "delivering" /\ c \in reader.todo
    /\ IF alive[c]
         THEN /\ delivered' = [delivered EXCEPT ![c] = @ \cup {reader.message}]
              /\ owed' = [owed EXCEPT ![c] = @ \ {reader.message}]
              /\ reader' = [reader EXCEPT !.todo = @ \ {c}]
         ELSE /\ reader' = [reader EXCEPT !.todo = {}, !.dead = {c}]
              /\ UNCHANGED <<delivered, owed>>
    /\ UNCHANGED <<connections, handler, alive, channels, pubsub, reachable,
                   inbox, topic, outages>>

\* The new PubSub is left without subscriptions.
ReconnectOnly ==
    /\ reader.pc = "backoff" /\ SubscriberLockFree
    /\ pubsub' = NewPubSub
    /\ inbox' = <<>>
    /\ reader' = [reader EXCEPT !.pc = "resubscribing"]
    /\ UNCHANGED <<connections, handler, alive, channels, reachable, topic,
                   delivered, owed, outages>>
-----------------------------------------------------------------------------
(* A socket joins: ConversationRegistry.join *)

\* The registry lock is free: register, and go on to subscribe if first.
JoinRegister(c) ==
    /\ handler[c] = "joining"
    /\ RegistryLockFree
    /\ connections' = Registered(c)
    /\ GoTo(c, IF IsFirst(c) THEN "subscribe" ELSE "live")
    /\ UNCHANGED <<alive, channels, pubsub, reachable, reader, inbox, topic,
                   delivered, owed, outages>>

SubscribeBegin(c) ==
    /\ handler[c] = "subscribe"
    /\ SubscriberLockFree
    /\ GoTo(c, "subscribing")
    /\ UNCHANGED <<connections, alive, channels, pubsub, reachable, reader,
                   inbox, topic, delivered, owed, outages>>

\* A command on a lost link may find Redis again; the library then subscribes
\* anew to everything this PubSub had, before the command itself.
SubscribeOk(c) ==
    /\ handler[c] = "subscribing"
    /\ reachable
    /\ pubsub' = [memory |-> pubsub.memory \cup {ConvOf[c]}, connected |-> TRUE]
    /\ channels' = channels \cup {ConvOf[c]}
    /\ GoTo(c, "live")
    /\ UNCHANGED <<connections, alive, reachable, reader, inbox, topic,
                   delivered, owed, outages>>

\* The command raises: the registration is rolled back, and the handler closes
\* the socket with 1011.
SubscribeFail(c) ==
    /\ handler[c] = "subscribing"
    /\ ~(reachable /\ pubsub.connected)
    /\ connections' = Unregistered(ConvOf[c], {c})
    /\ GoTo(c, "closed")
    /\ alive' = [alive EXCEPT ![c] = FALSE]
    /\ UNCHANGED <<channels, pubsub, reachable, reader, inbox, topic,
                   delivered, owed, outages>>
-----------------------------------------------------------------------------
(* A socket ends *)

\* The peer is gone; the handler and a broadcast notice it later.
Disconnect(c) ==
    /\ handler[c] # "closed" /\ alive[c]
    /\ alive' = [alive EXCEPT ![c] = FALSE]
    /\ owed' = [owed EXCEPT ![c] = {}]
    /\ UNCHANGED <<connections, handler, channels, pubsub, reachable, reader,
                   inbox, topic, delivered, outages>>

\* The receive loop ends: the peer left, the token expired (4401) or serving
\* failed (1011).  The socket is closed in every case.
EndSession(c) ==
    /\ handler[c] = "live"
    /\ GoTo(c, "leaving")
    /\ alive' = [alive EXCEPT ![c] = FALSE]
    /\ owed' = [owed EXCEPT ![c] = {}]
    /\ UNCHANGED <<connections, channels, pubsub, reachable, reader, inbox,
                   topic, delivered, outages>>

\* ConversationRegistry.leave, in the handler's finally block.
LeaveUnregister(c) ==
    /\ handler[c] = "leaving"
    /\ RegistryLockFree
    /\ connections' = Unregistered(ConvOf[c], {c})
    /\ GoTo(c, IF IsLast(c) THEN "unsubscribe" ELSE "closed")
    /\ UNCHANGED <<alive, channels, pubsub, reachable, reader, inbox, topic,
                   delivered, owed, outages>>

\* The channel is forgotten before the command is sent.
UnsubscribeBegin(c) ==
    /\ handler[c] = "unsubscribe"
    /\ SubscriberLockFree
    /\ channels' = channels \ {ConvOf[c]}
    /\ GoTo(c, "unsubscribing")
    /\ UNCHANGED <<connections, alive, pubsub, reachable, reader, inbox, topic,
                   delivered, owed, outages>>

UnsubscribeEnd(c) ==
    /\ handler[c] = "unsubscribing"
    /\ \/ /\ reachable
          /\ pubsub' = [memory |-> pubsub.memory \ {ConvOf[c]}, connected |-> TRUE]
       \/ /\ ~(reachable /\ pubsub.connected)
          /\ UNCHANGED pubsub
    /\ GoTo(c, "closed")
    /\ UNCHANGED <<connections, alive, channels, reachable, reader, inbox,
                   topic, delivered, owed, outages>>

\* A client comes back on a new socket, which takes over the name of one that
\* nothing refers to any more.
Reopen(c) ==
    /\ handler[c] = "closed"
    /\ c \notin reader.todo \cup reader.dead
    /\ GoTo(c, "joining")
    /\ alive' = [alive EXCEPT ![c] = TRUE]
    /\ delivered' = [delivered EXCEPT ![c] = {}]
    /\ UNCHANGED <<connections, channels, pubsub, reachable, reader, inbox,
                   topic, owed, outages>>
-----------------------------------------------------------------------------
(* The reader task: RedisConversationSubscriber._run *)

\* With no channel the reader sleeps; with one it asks for the pub/sub lock.
ReaderCheck ==
    /\ reader.pc = "idle"
    /\ channels # {}
    /\ reader' = [reader EXCEPT !.pc = "waiting"]
    /\ UNCHANGED <<connections, handler, alive, channels, pubsub, reachable,
                   inbox, topic, delivered, owed, outages>>

ReadBegin ==
    /\ reader.pc = "waiting"
    /\ SubscriberLockFree
    /\ reader' = [reader EXCEPT !.pc = "reading"]
    /\ UNCHANGED <<connections, handler, alive, channels, pubsub, reachable,
                   inbox, topic, delivered, owed, outages>>

\* A message is read; ConnectionManager.broadcast takes its snapshot of the
\* conversation's sockets before the reader awaits anything.
ReadMessage ==
    /\ reader.pc = "reading"
    /\ pubsub.connected /\ inbox # <<>>
    /\ inbox' = Tail(inbox)
    /\ reader' = [reader EXCEPT !.pc = "delivering", !.message = Head(inbox),
                                !.todo = connections[topic[Head(inbox)]]]
    /\ UNCHANGED <<connections, handler, alive, channels, pubsub, reachable,
                   topic, delivered, owed, outages>>

\* Nothing came within the read timeout, or the library found Redis again
\* during the read and subscribed anew to everything this PubSub had.
ReadNothing ==
    /\ reader.pc = "reading"
    /\ inbox = <<>>
    /\ \/ /\ pubsub.connected
          /\ UNCHANGED pubsub
       \/ /\ ~pubsub.connected /\ reachable /\ pubsub.memory # {}
          /\ pubsub' = [pubsub EXCEPT !.connected = TRUE]
    /\ reader' = IdleReader
    /\ UNCHANGED <<connections, handler, alive, channels, reachable, inbox,
                   topic, delivered, owed, outages>>

\* The read raises: back off, without the lock.
ReadFail ==
    /\ reader.pc = "reading"
    /\ ~pubsub.connected
    /\ reader' = [reader EXCEPT !.pc = "backoff"]
    /\ UNCHANGED <<connections, handler, alive, channels, pubsub, reachable,
                   inbox, topic, delivered, owed, outages>>

\* One send of the broadcast; a socket that fails is set aside.
BroadcastSend(c) ==
    /\ reader.pc = "delivering"
    /\ c \in reader.todo
    /\ IF alive[c]
         THEN /\ delivered' = [delivered EXCEPT ![c] = @ \cup {reader.message}]
              /\ owed' = [owed EXCEPT ![c] = @ \ {reader.message}]
              /\ reader' = [reader EXCEPT !.todo = @ \ {c}]
         ELSE /\ reader' = [reader EXCEPT !.todo = @ \ {c}, !.dead = @ \cup {c}]
              /\ UNCHANGED <<delivered, owed>>
    /\ UNCHANGED <<connections, handler, alive, channels, pubsub, reachable,
                   inbox, topic, outages>>

\* The end of the broadcast drops the dead sockets, without the registry lock
\* and without looking at what unregister returns.
BroadcastEnd ==
    /\ reader.pc = "delivering"
    /\ reader.todo = {}
    /\ connections' = Unregistered(topic[reader.message], reader.dead)
    /\ reader' = IdleReader
    /\ UNCHANGED <<handler, alive, channels, pubsub, reachable, inbox, topic,
                   delivered, owed, outages>>

\* _reconnect: a new PubSub takes the place of the old one ...
ReconnectBegin ==
    /\ reader.pc = "backoff"
    /\ SubscriberLockFree
    /\ pubsub' = NewPubSub
    /\ inbox' = <<>>
    /\ reader' = [reader EXCEPT !.pc = "resubscribing", !.missing = channels]
    /\ UNCHANGED <<connections, handler, alive, channels, reachable, topic,
                   delivered, owed, outages>>

\* ... and subscribes to the channels one by one.
Resubscribe(v) ==
    /\ reader.pc = "resubscribing"
    /\ v \in reader.missing
    /\ reachable
    /\ pubsub' = [memory |-> pubsub.memory \cup {v}, connected |-> TRUE]
    /\ reader' = [reader EXCEPT !.missing = @ \ {v}]
    /\ UNCHANGED <<connections, handler, alive, channels, reachable, inbox,
                   topic, delivered, owed, outages>>

\* A SUBSCRIBE that raises here is caught nowhere: the task ends.
ResubscribeFail ==
    /\ reader.pc = "resubscribing"
    /\ reader.missing # {}
    /\ ~(reachable /\ pubsub.connected)
    /\ reader' = [IdleReader EXCEPT !.pc = "dead"]
    /\ UNCHANGED <<connections, handler, alive, channels, pubsub, reachable,
                   inbox, topic, delivered, owed, outages>>

ReconnectEnd ==
    /\ reader.pc = "resubscribing"
    /\ reader.missing = {}
    /\ reader' = IdleReader
    /\ UNCHANGED <<connections, handler, alive, channels, pubsub, reachable,
                   inbox, topic, delivered, owed, outages>>
-----------------------------------------------------------------------------
(* Redis and the other replicas *)

\* Some replica publishes to v.  History: every live socket of v is owed the
\* message, as long as this replica can hear Redis.
Publish(v) ==
    /\ reachable
    /\ Len(topic) < MaxPublish
    /\ topic' = Append(topic, v)
    /\ inbox' = IF v \in Subscribed THEN Append(inbox, Len(topic) + 1) ELSE inbox
    /\ owed' = [c \in Connections |->
                  IF Healthy /\ Live(c) /\ ConvOf[c] = v
                    THEN owed[c] \cup {Len(topic) + 1} ELSE owed[c]]
    /\ UNCHANGED <<connections, handler, alive, channels, pubsub, reachable,
                   reader, delivered, outages>>

\* The link breaks and what was under way on it is lost.
Outage ==
    /\ outages < MaxOutages
    /\ outages' = outages + 1
    /\ reachable' = FALSE
    /\ pubsub' = [pubsub EXCEPT !.connected = FALSE]
    /\ inbox' = <<>>
    /\ owed' = [c \in Connections |-> {}]
    /\ UNCHANGED <<connections, handler, alive, channels, reader, topic, delivered>>

Recover ==
    /\ ~reachable
    /\ reachable' = TRUE
    /\ UNCHANGED <<connections, handler, alive, channels, pubsub, reader,
                   inbox, topic, delivered, owed, outages>>
-----------------------------------------------------------------------------
Join(c) == \/ JoinRegister(c) \/ SubscribeBegin(c)
           \/ SubscribeOk(c) \/ SubscribeFail(c)

Leave(c) == LeaveUnregister(c) \/ UnsubscribeBegin(c) \/ UnsubscribeEnd(c)

Read == ReaderCheck \/ ReadBegin \/ ReadMessage \/ ReadNothing \/ ReadFail

Broadcast == (\E c \in Connections : BroadcastSend(c)) \/ BroadcastEnd

Reconnect == \/ ReconnectBegin \/ ReconnectEnd \/ ResubscribeFail
             \/ \E v \in Conversations : Resubscribe(v)

Next ==
    \/ \E c \in Connections :
          Join(c) \/ Disconnect(c) \/ EndSession(c) \/ Leave(c) \/ Reopen(c)
    \/ Read \/ Broadcast \/ Reconnect
    \/ \E v \in Conversations : Publish(v)
    \/ Outage \/ Recover

Spec == Init /\ [][Next]_vars
-----------------------------------------------------------------------------
(* Properties *)

\* A socket that is being served is registered, and its replica subscribed to
\* its conversation: no sequence of joins, failed subscribes, leaves and dead
\* sockets dropped by a broadcast leaves it deaf (ConversationRegistry.join).
LiveSocketIsSubscribed ==
    \A c \in Connections : Live(c) =>
        /\ c \in connections[ConvOf[c]]
        /\ ConvOf[c] \in channels

\* Outside a reconnection, Redis knows every channel the subscriber recorded:
\* _channels never promises more than the pub/sub connection has.
HealthyHearsEveryChannel ==
    Healthy => channels \subseteq Subscribed

\* A message published while the replica could hear Redis is, for every socket
\* that was live then and still is, in the link or in the broadcast under way.
OwedIsOnItsWay ==
    \A c \in Connections : \A n \in owed[c] :
        \/ \E i \in DOMAIN inbox : inbox[i] = n
        \/ reader.pc = "delivering" /\ reader.message = n /\ c \in reader.todo

\* The messages on their way to a socket: in the link, or in the broadcast.
Pending(c) ==
    {n \in Published :
       /\ alive[c] /\ c \in connections[ConvOf[c]] /\ topic[n] = ConvOf[c]
       /\ \/ \E i \in DOMAIN inbox : inbox[i] = n
          \/ reader.pc = "delivering" /\ reader.message = n /\ c \in reader.todo}

\* Everything a replica does is what the feed of its sockets may do: nothing on
\* its way is lost to a live socket as long as the replica hears Redis, across
\* joins, leaves and broadcasts, and messages are sent in the order of Redis,
\* across reconnections too.
Feed == INSTANCE LiveFeed WITH
            Sockets <- Connections,
            published <- Len(topic),
            hearing <- {c \in Connections : Healthy /\ Live(c)},
            pending <- [c \in Connections |-> Pending(c)]

ImplementsFeed == Feed!FeedSpec
=============================================================================
