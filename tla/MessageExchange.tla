--------------------------- MODULE MessageExchange ---------------------------
(***************************************************************************)
(* Sending a message: the receive loop of a socket, MessageExchange, the   *)
(* per-write unit of work and the rows they leave in Postgres.             *)
(*                                                                         *)
(* One conversation.  A handler is the receive loop of one open socket, on *)
(* any replica; it handles one frame at a time.  Between two awaits of the *)
(* same send every other handler, and the owner's changes to the           *)
(* membership, may run.  Postgres runs at READ COMMITTED: a statement sees *)
(* what was committed when it began.                                       *)
(***************************************************************************)
EXTENDS MessageLog

CONSTANTS
    Handlers,
    UserOf      \* the user each handler's socket authenticated as

ASSUME ExchangeAssumption == UserOf \in [Handlers -> Users]

VARIABLES
    members,    \* conversation_participants
    deleted,    \* the conversation is soft-deleted
    lastSeq,    \* the last value drawn from the id sequence of "messages"
    pc,         \* where each handler is in its current send
    key,        \* the client_message_id of that send
    message,    \* the user message of that send, once inserted or found
    reply,      \* the assistant message of that send, once inserted
    acked,      \* history: the acknowledgements sent
    closed,     \* history: sends whose conversation has been deleted since they began
    outside     \* history: sends whose sender has been no member since they began

\* The committed rows of "messages" are the log, and the PUBLISH commands that
\* Redis took are the feed.
vars == <<log, feed, members, deleted, lastSeq, pc, key, message, reply, acked, closed, outside>>
-----------------------------------------------------------------------------
(* State *)

PC == {"idle", "access", "members", "find", "insert", "inserting", "inserted", "publish",
       "respond", "reply", "replyInserted", "publishReply", "ack", "conflict", "error"}

NoMessage == [seq |-> 0]

TypeOK ==
    /\ LogTypeOK
    /\ members \in SUBSET Users
    /\ deleted \in BOOLEAN
    /\ lastSeq \in 0..MaxSeq
    /\ pc \in [Handlers -> PC]
    /\ key \in [Handlers -> Keys \cup {NoKey}]
    /\ message \in [Handlers -> Message \cup {NoMessage}]
    /\ reply \in [Handlers -> Message \cup {NoMessage}]
    /\ acked \in SUBSET [key : Keys \cup {NoKey}, seq : 1..MaxSeq]
    /\ closed \in SUBSET Handlers
    /\ outside \in SUBSET Handlers

Init ==
    /\ LogInit
    /\ members = Users
    /\ deleted = FALSE
    /\ lastSeq = 0
    /\ pc = [h \in Handlers |-> "idle"]
    /\ key = [h \in Handlers |-> NoKey]
    /\ message = [h \in Handlers |-> NoMessage]
    /\ reply = [h \in Handlers |-> NoMessage]
    /\ acked = {}
    /\ closed = {}
    /\ outside = {}

GoTo(h, there) == pc' = [pc EXCEPT ![h] = there]

\* A send that fails from one of "here" answers the client with an error frame.
Fails(h, here) ==
    /\ pc[h] \in here
    /\ GoTo(h, "error")
    /\ UNCHANGED <<log, feed, lastSeq, key, message, reply, acked>>
-----------------------------------------------------------------------------
(* Faults: variants of the actions below that the properties tell from the code *)

\* The membership is checked when the socket opens only.
CheckDeletedOnly(h) ==
    /\ pc[h] = "members"
    /\ GoTo(h, IF key[h] = NoKey THEN "insert" ELSE "find")
    /\ UNCHANGED <<log, feed, members, deleted, lastSeq, key, message, reply, acked, closed, outside>>

\* "created" is ignored: a message that was found is broadcast and answered.
FindThenBroadcast(h) ==
    /\ pc[h] = "find"
    /\ \/ \E m \in log : /\ m.key = key[h]
                         /\ message' = [message EXCEPT ![h] = m]
                         /\ GoTo(h, "publish")
       \/ /\ \A m \in log : m.key # key[h]
          /\ GoTo(h, "insert")
          /\ UNCHANGED message
    /\ UNCHANGED <<log, feed, members, deleted, lastSeq, key, reply, acked, closed, outside>>

\* A message that was found is acknowledged without being returned.
FindNothing(h) ==
    /\ pc[h] = "find"
    /\ GoTo(h, IF \E m \in log : m.key = key[h] THEN "ack" ELSE "insert")
    /\ UNCHANGED <<log, feed, members, deleted, lastSeq, key, message, reply, acked, closed, outside>>

\* There is no unique constraint.
EnterNoIndex(h) ==
    /\ pc[h] = "inserting"
    /\ GoTo(h, "inserted")
    /\ UNCHANGED <<log, feed, members, deleted, lastSeq, key, message, reply, acked, closed, outside>>

\* Two inserts with one key wait for each other.
EnterWaiting(h) ==
    /\ pc[h] = "inserting"
    /\ \A g \in Handlers \ {h} : pc[g] \in {"inserting", "inserted"} => key[g] # key[h]
    /\ GoTo(h, IF key[h] # NoKey /\ \E m \in log : m.key = key[h]
                 THEN "conflict" ELSE "inserted")
    /\ UNCHANGED <<log, feed, members, deleted, lastSeq, key, message, reply, acked, closed, outside>>

\* A commit that failed is taken for one that succeeded.
CommitSwallowed(h) ==
    /\ pc[h] = "inserted"
    /\ log' \in {log, log \cup {message[h]}}
    /\ GoTo(h, "publish")
    /\ UNCHANGED <<feed, members, deleted, lastSeq, key, message, reply, acked, closed, outside>>

\* A PUBLISH that failed is taken for one that succeeded.
PublishSwallowed(h) ==
    /\ pc[h] = "publish"
    /\ feed' \in {feed, Append(feed, message[h].seq)}
    /\ GoTo(h, "respond")
    /\ UNCHANGED <<log, members, deleted, lastSeq, key, message, reply, acked, closed, outside>>
-----------------------------------------------------------------------------
(* SessionScopedMessageWriter.from_user: one transaction *)

\* A message.send frame has passed the rate limit and the token check.
Receive(h, k) ==
    /\ pc[h] = "idle"
    /\ GoTo(h, "access")
    /\ key' = [key EXCEPT ![h] = k]
    /\ closed' = IF deleted THEN closed \cup {h} ELSE closed
    /\ outside' = IF UserOf[h] \in members THEN outside ELSE outside \cup {h}
    /\ UNCHANGED <<log, feed, members, deleted, lastSeq, message, reply, acked>>

\* PostMessage.from_user re-checks the conversation: one SELECT loads its row,
\* unless it is deleted ...
LoadConversation(h) ==
    /\ pc[h] = "access"
    /\ GoTo(h, IF deleted THEN "error" ELSE "members")
    /\ UNCHANGED <<log, feed, members, deleted, lastSeq, key, message, reply, acked, closed, outside>>

\* ... and a second one its memberships, among which the sender must be.
EnsureParticipant(h) ==
    /\ pc[h] = "members"
    /\ GoTo(h, IF UserOf[h] \notin members THEN "error"
               ELSE IF key[h] = NoKey THEN "insert" ELSE "find")
    /\ UNCHANGED <<log, feed, members, deleted, lastSeq, key, message, reply, acked, closed, outside>>

\* The pre-flight check: a message that already has the key is acknowledged,
\* and neither broadcast nor answered.
FindExisting(h) ==
    /\ pc[h] = "find"
    /\ \/ \E m \in log : /\ m.key = key[h]
                         /\ message' = [message EXCEPT ![h] = m]
                         /\ GoTo(h, "ack")
       \/ /\ \A m \in log : m.key # key[h]
          /\ GoTo(h, "insert")
          /\ UNCHANGED message
    /\ UNCHANGED <<log, feed, members, deleted, lastSeq, key, reply, acked, closed, outside>>

\* INSERT draws its number first ...
DrawSeq(h) ==
    /\ pc[h] = "insert"
    /\ lastSeq < MaxSeq
    /\ lastSeq' = lastSeq + 1
    /\ message' = [message EXCEPT ![h] = UserMessage(lastSeq + 1, UserOf[h], key[h])]
    /\ GoTo(h, "inserting")
    /\ UNCHANGED <<log, feed, members, deleted, key, reply, acked, closed, outside>>

\* ... then enters the unique index, where it waits for a transaction that has
\* the same key in it, and fails if a committed message has.
EnterIndex(h) ==
    /\ pc[h] = "inserting"
    /\ key[h] # NoKey => \A g \in Handlers : pc[g] = "inserted" => key[g] # key[h]
    /\ GoTo(h, IF key[h] # NoKey /\ \E m \in log : m.key = key[h]
                 THEN "conflict" ELSE "inserted")
    /\ UNCHANGED <<log, feed, members, deleted, lastSeq, key, message, reply, acked, closed, outside>>

\* The commit may succeed and its confirmation be lost.
Commit(h) ==
    /\ pc[h] = "inserted"
    /\ log' = log \cup {message[h]}
    /\ GoTo(h, "publish") \/ GoTo(h, "error")
    /\ UNCHANGED <<feed, members, deleted, lastSeq, key, message, reply, acked, closed, outside>>
-----------------------------------------------------------------------------
(* MessageExchange.exchange: broadcast, answer, broadcast *)

Publish(h) ==
    /\ pc[h] = "publish"
    /\ feed' = Append(feed, message[h].seq)
    /\ GoTo(h, "respond") \/ GoTo(h, "error")
    /\ UNCHANGED <<log, members, deleted, lastSeq, key, message, reply, acked, closed, outside>>

Respond(h) ==
    /\ pc[h] = "respond"
    /\ GoTo(h, "reply")
    /\ UNCHANGED <<log, feed, members, deleted, lastSeq, key, message, reply, acked, closed, outside>>

\* from_assistant checks neither the conversation nor any key.
InsertReply(h) ==
    /\ pc[h] = "reply"
    /\ lastSeq < MaxSeq
    /\ lastSeq' = lastSeq + 1
    /\ reply' = [reply EXCEPT ![h] = AssistantMessage(lastSeq + 1, message[h].seq)]
    /\ GoTo(h, "replyInserted")
    /\ UNCHANGED <<log, feed, members, deleted, key, message, acked, closed, outside>>

CommitReply(h) ==
    /\ pc[h] = "replyInserted"
    /\ log' = log \cup {reply[h]}
    /\ GoTo(h, "publishReply") \/ GoTo(h, "error")
    /\ UNCHANGED <<feed, members, deleted, lastSeq, key, message, reply, acked, closed, outside>>

PublishReply(h) ==
    /\ pc[h] = "publishReply"
    /\ feed' = Append(feed, reply[h].seq)
    /\ GoTo(h, "ack") \/ GoTo(h, "error")
    /\ UNCHANGED <<log, members, deleted, lastSeq, key, message, reply, acked, closed, outside>>

\* A statement, a commit, a PUBLISH or the responder raises and nothing is done:
\* the transaction, if any, is rolled back.
Fail(h) ==
    /\ Fails(h, {"access", "members", "find", "insert", "inserting", "inserted",
                 "publish", "respond", "reply", "replyInserted", "publishReply"})
    /\ UNCHANGED <<members, deleted, closed, outside>>
-----------------------------------------------------------------------------
(* The end of a send *)

\* The handler is back in its receive loop, or gone: the send leaves nothing.
Finish(h) ==
    /\ GoTo(h, "idle")
    /\ key' = [key EXCEPT ![h] = NoKey]
    /\ message' = [message EXCEPT ![h] = NoMessage]
    /\ reply' = [reply EXCEPT ![h] = NoMessage]
    /\ closed' = closed \ {h}
    /\ outside' = outside \ {h}
    /\ UNCHANGED <<log, feed, members, deleted, lastSeq>>

Ack(h) ==
    /\ pc[h] = "ack"
    /\ acked' = acked \cup {[key |-> key[h], seq |-> message[h].seq]}
    /\ Finish(h)

SendError(h) ==
    /\ pc[h] \in {"error", "conflict"}
    /\ Finish(h)
    /\ UNCHANGED acked

\* The replica dies: its transactions are rolled back and its clients, who have
\* no answer, send again on a new socket.
Crash(h) ==
    /\ pc[h] # "idle"
    /\ Finish(h)
    /\ UNCHANGED acked
-----------------------------------------------------------------------------
(* The owner, over REST *)

\* A restored conversation is deleted no longer, an added sender outside no longer.
Lift ==
    /\ closed' = {h \in closed : deleted'}
    /\ outside' = {h \in outside : UserOf[h] \notin members'}

ChangeMembers ==
    /\ \E u \in Users : members' \in {members \cup {u}, members \ {u}}
    /\ UNCHANGED <<log, feed, deleted, lastSeq, pc, key, message, reply, acked>>
    /\ Lift

DeleteOrRestore ==
    /\ deleted' = ~deleted
    /\ UNCHANGED <<log, feed, members, lastSeq, pc, key, message, reply, acked>>
    /\ Lift
-----------------------------------------------------------------------------
\* The steps a handler takes of its own accord.
Step(h) ==
    \/ LoadConversation(h) \/ EnsureParticipant(h) \/ FindExisting(h) \/ DrawSeq(h)
    \/ EnterIndex(h) \/ Commit(h) \/ Publish(h) \/ Respond(h) \/ InsertReply(h)
    \/ CommitReply(h) \/ PublishReply(h)
    \/ Ack(h) \/ SendError(h)

Next ==
    \/ \E h \in Handlers :
          Step(h) \/ Fail(h) \/ Crash(h) \/ \E k \in Keys \cup {NoKey} : Receive(h, k)
    \/ ChangeMembers
    \/ DeleteOrRestore

Spec == Init /\ [][Next]_vars

\* Every await of a send ends without help from failures; only an insert that
\* the bound MaxSeq leaves without a number must fail.
OutOfNumbers(h) == lastSeq = MaxSeq /\ pc[h] \in {"insert", "reply"} /\ Fail(h)
FairSpec == Spec /\ \A h \in Handlers : WF_vars(Step(h) \/ OutOfNumbers(h))
-----------------------------------------------------------------------------
(* Properties *)

\* Whatever the races, failures and retries, what the handlers leave in
\* Postgres and Redis is a message log (one row and one answer for a key,
\* commit before broadcast, no broadcast twice, an answer after its question).
ImplementsLog == LogSpec

\* "message.ack" is never sent for a message that is not durable, and all the
\* acknowledgements of one key name the same message (idempotent send).
AckIsDurable ==
    /\ \A a \in acked : \E m \in log : m.seq = a.seq /\ m.key = a.key /\ m.role = "user"
    /\ \A a, b \in acked : a.key = b.key /\ a.key # NoKey => a = b

\* A send gets no further than the check, on an open socket too, if its sender
\* was removed before it began and is no member yet, or the conversation was
\* deleted before and is not restored.  The check is two reads: a deletion
\* between them is not seen, but neither reason is overlooked while it lasts.
BarredSendStopsAtCheck ==
    /\ \A h \in closed : pc[h] \in {"access", "error"}
    /\ \A h \in outside : pc[h] \in {"access", "members", "error"}

\* Every send is answered, or its replica dies: sends with one key wait for each
\* other in the unique index, and the wait ends.
SendEnds ==
    \A h \in Handlers : (pc[h] # "idle") ~> (pc[h] = "idle")

\* SYSTEM_GUIDE: re-sending a client_message_id "returns the existing message's
\* id in a message.ack".
ResendIsAcked == \A h \in Handlers : pc[h] # "conflict"
=============================================================================
