------------------------------ MODULE LiveFeed ------------------------------
(***************************************************************************)
(* What live fan-out promises the sockets of a replica, and no more:       *)
(* nothing published is lost to a socket that is live while the replica    *)
(* hears Redis, and no socket is sent a message after a later one.         *)
(* ReplicaFanout implements it.                                            *)
(***************************************************************************)
EXTENDS Naturals

CONSTANTS
    Sockets,        \* the sockets of the replica
    Conversations,
    ConvOf          \* the conversation of each

VARIABLES
    published,      \* how many messages Redis has received; they are numbered
    hearing,        \* the sockets that are live while the replica hears Redis
    pending,        \* the messages on their way to each socket
    delivered       \* the messages each socket has been sent

feedVars == <<published, hearing, pending, delivered>>

Nothing == [c \in Sockets |-> {}]

FeedInit ==
    /\ published = 0
    /\ hearing = {}
    /\ pending = Nothing
    /\ delivered = Nothing

\* A message to v is on its way to the sockets of v that hear, and it may be to
\* others of v.
Publish(v) ==
    /\ published' = published + 1
    /\ \E C \in SUBSET {c \in Sockets : ConvOf[c] = v} :
          /\ \A c \in hearing : ConvOf[c] = v => c \in C
          /\ pending' = [c \in Sockets |->
                           IF c \in C THEN pending[c] \cup {published + 1} ELSE pending[c]]
    /\ UNCHANGED <<hearing, delivered>>

\* A socket is sent the first of the messages on their way to it.
Deliver(c) ==
    /\ \E n \in pending[c] :
          /\ \A m \in pending[c] : n <= m
          /\ pending' = [pending EXCEPT ![c] = @ \ {n}]
          /\ delivered' = [delivered EXCEPT ![c] = @ \cup {n}]
    /\ UNCHANGED <<published, hearing>>

Same(c) == pending'[c] = pending[c] /\ delivered'[c] = delivered[c]

\* Messages are lost on their way to a socket that does not hear any more.
Lose(c) ==
    /\ c \notin hearing'
    /\ pending'[c] \subseteq pending[c]
    /\ delivered'[c] = delivered[c]

\* A new socket is sent what is on its way, and nothing else that was published.
Begin(c) ==
    /\ c \notin hearing
    /\ pending'[c] \subseteq 1..published
    /\ delivered'[c] = {}

\* Sockets come and go, and the replica loses Redis and finds it again.
Turn ==
    /\ hearing' \in SUBSET Sockets
    /\ pending' \in [Sockets -> SUBSET (1..published)]
    /\ delivered' \in [Sockets -> SUBSET (1..published)]
    /\ \A c \in Sockets : Same(c) \/ Lose(c) \/ Begin(c)
    /\ UNCHANGED published

FeedNext ==
    \/ \E v \in Conversations : Publish(v)
    \/ \E c \in Sockets : Deliver(c)
    \/ Turn

FeedSpec == FeedInit /\ [][FeedNext]_feedVars
-----------------------------------------------------------------------------
(* What a reader of the feed may rely on *)

FeedTypeOK ==
    /\ published \in Nat
    /\ hearing \subseteq Sockets
    /\ pending \in [Sockets -> SUBSET (1..published)]
    /\ delivered \in [Sockets -> SUBSET (1..published)]

\* What is on its way to a socket comes after all it has been sent.
NothingIsOvertaken ==
    \A c \in Sockets : \A m \in delivered[c], n \in pending[c] : m < n

\* A socket is sent the live messages in the order Redis received them.
InPublishOrder ==
    [][\A c \in Sockets : \A n \in delivered'[c] \ delivered[c] :
          \A m \in delivered[c] : m < n]_feedVars
=============================================================================
