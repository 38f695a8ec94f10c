# dizzchat in TLA+

dizzchat is a chat backend in Python (FastAPI, asyncio): replicas that serve WebSocket sockets,
Postgres for everything durable, Redis for live fan-out between the replicas and for the rate
limit. These modules model what its components do between two awaits, two statements or two
messages, state what must hold whatever the order, and check and prove it. The source is
`src/src/dizzchat` and `src/migrations`; paths below are relative to the first.

## 1. Inventory

| Component | State | Operations | Hard because |
|---|---|---|---|
| Live fan-out of a replica (`realtime/connection_manager.py`, `realtime/conversation_registry.py`, `redis/redis_conversation_subscriber.py`, `redis/redis_message_broadcaster.py`) | sockets per conversation, subscribed channels, pub/sub connection, reader task, two asyncio locks | join, leave, subscribe, unsubscribe, read, broadcast, reconnect, publish | handlers, broadcasts and the reader interleave at every await; Redis goes and comes back |
| Send flow (`services/message_exchange.py`, `services/post_message.py`, `session_scoped_message_writer.py`, `sqlalchemy_message_repository.py`) | rows of `messages`, the id sequence, the unique index on (conversation, client_message_id) | check access, look up the key, insert, commit, publish, answer, publish the answer, acknowledge | two transactions and two publishes in one send; retries; replicas that die between them |
| Replay and live delivery (`services/replay_messages.py`, `realtime/websocket.py`) | a client's cursor, the page being read, frames still to be sent | connect with `last_seen_seq`, read a page, send, resume | numbers are drawn in one order and committed in another; pub/sub loses messages |
| Message history (`services/get_conversation_history.py`) | the cursor of the next page | one page a request | messages are committed between two pages; live frames come meanwhile |
| Conversations and participants (`domain/conversation/`, `sqlalchemy_conversation_repository.py`, the use cases) | a row, its memberships | create, rename, delete, restore, add, remove, list participants | each request works on a copy and takes no lock |
| Refresh tokens (`identity/domain/refresh_token`, `refresh_access_token.py`) | rows of `refresh_tokens` | issue, rotate | concurrent refreshes with one token; expiry |
| Accounts (`register_user.py`, `authenticate_user.py`) | rows of `users` | sign up, log in | two sign-ups find one e-mail free |
| Rate limiter (`redis/redis_rate_limiter.py`) | one Redis counter per user and window | allow | frames counted late, keys that expire, lost replies |
| WebSocket session (`realtime/websocket.py`) | the handler's position, the token, the registration | authenticate, check access, join, replay, receive loop, leave | early returns, exceptions and timeouts at every step |
| Migrations (`migrations/env.py`, `shared/.../migrations.py`) | schema, version row, advisory lock | lock, look, apply, commit | replicas of several releases boot at once and crash |
| Shutdown (the `finally` block of `lifespan` in `app.py`, `close_all`, `subscriber.stop`) | what the drain has still to visit | drain with a timeout, stop the subscriber, close | the drain works on snapshots while sockets join and leave; a peer that does not read; a reader that died long ago |
| Access tokens, passwords | none | encode, decode, hash | libraries; only what they decide is used |
| Configuration, wiring, codecs, schemas, health probes, demo script | none | - | not modelled: sequential, no state that changes |

How they interact: the handler of a socket (`conversation_ws`) authenticates, checks access, joins
the registry (which subscribes its replica to the conversation's Redis channel), replays what the
client missed, and then loops over frames: rate limit, validation, token, `MessageExchange`. An
exchange commits the user's message, publishes it, commits the assistant's answer and publishes
that. The reader task of every subscribed replica takes each published message and broadcasts it to
the sockets `ConnectionManager` knows. REST requests change conversations and accounts, in one
transaction that `TransactionalRoute` commits. `PROJECT.json` lists each hazard at its line with the
properties that would catch it.

## 2. Modules

```
LiveFeed ── LiveFeed_proofs
   ^ implements
ReplicaFanout ── ReplicaShutdown ── Replica_proofs

MessageLog
   ├── MessageExchange (implements it) ── MessageExchange_proofs
   └── Delivery ── History ── History_proofs

RefreshTokens ── Accounts ── Accounts_proofs
RateLimiter ── SocketSession ── SocketSession_proofs
Conversations ── Conversations_proofs
Migrations ── Migrations_proofs
```

An arrow to the right is EXTENDS. `MC<module>` gives the constants of the last module of a line
their values for TLC. Definitions named as faults in a module are variants of a definition of the
code, each a bug somebody could write there; they take part in no specification, and serve to show
that a property tells the code from them.

**ReplicaFanout.** One replica. A step is what the event loop runs between two awaits; each handler
and the reader is a program counter, and the two locks (`ConversationRegistry._lock`,
`RedisConversationSubscriber._lock`) are the counters of whoever holds them. `JoinRegister`,
`SubscribeBegin/Ok/Fail` are `join` with its rollback; `LeaveUnregister`, `UnsubscribeBegin/End` are
`leave`; `ReaderCheck` .. `ReadFail` are one turn of `_run`; `BroadcastSend/End` is
`ConnectionManager.broadcast`, one await per socket, with the dead dropped at the end;
`ReconnectBegin`, `Resubscribe`, `ResubscribeFail`, `ReconnectEnd` are the back-off and `_reconnect`,
a channel at a time. `pubsub.memory` is what redis-py's `PubSub` remembers to subscribe again when
its link comes back. `Outage` and `Recover` are the environment.
History: `owed`, what a socket must still be sent.

**LiveFeed** is what fan-out promises the sockets of a replica: a message is on its way to every
socket that hears when it is published, a socket is sent the first of those on their way to it, and
loses some only when it does not hear any more. `Turn` is everything else, sockets that come and go
and a replica that loses Redis. ReplicaFanout implements it: a socket hears while it is live and the
replica has its link and is not rebuilding it; on its way is what the link holds and what the
broadcast in hand has still to send.

**ReplicaShutdown** is ReplicaFanout with the end of `lifespan` and with peers that stop reading.
`DrainBegin` and `DrainClose` are `close_all`: a snapshot of the sets in the dictionary (`sets`; a set
that loses its last socket leaves the dictionary, and the snapshot keeps the empty one), then one of
the sockets of each (`todo`), one close at a time; `Visit` clears the dictionary after the last.
`DrainTimeout` is `wait_for`; `StopReader` is `stop()` up to the awaited task, and `CloseAll` the rest.
The handlers, the reader and Redis go on meanwhile (`Replica`), but no connection is accepted.
`Stall` is a peer that reads no more: a send or a close to it does not end while it is there. History:
`late`, the sockets registered since the drain began, and `timedOut`.

**MessageLog** is the abstract promise of a conversation: a log of committed messages and a feed of
what was broadcast. `Post`, `Answer` and `Announce` are all that may happen to it. **MessageExchange**
is the send flow, with each statement, commit and publish a step of its own: the access check, which
is one SELECT of the row (`LoadConversation`) and one of its memberships (`EnsureParticipant`), the READ
COMMITTED look-up of the key (`FindExisting`), the id drawn at the flush (`DrawSeq`), the unique index, where an insert
waits for another transaction with the same key and fails if that commits (`EnterIndex`), commits
whose confirmation may be lost, publishes that fail, crashes, and an owner who changes the members or
deletes the conversation meanwhile. Its refinement mapping is the identity: rows are `log`, PUBLISH
commands are `feed`. History: `closed` and `outside`, the sends that began in a deleted conversation, or
for a sender who was no member, while that lasts.

**Delivery** reads a `MessageLog`: a client connects with a cursor, the socket joins first
(`Connect`), then `ReadPage` reads a page above `after` until a page is not full, while broadcasts
append to `pending`; the order in which live and replayed frames are sent is free. `Write` stands for
every new row, answers included, since a reader does not tell them apart. `Resume` is the cursor that
`protocol.py:20` documents, "Highest ordering seq the client has already seen", which counts a live frame
that came ahead of the replay: the two look the same, and no frame says that a replay is over. A client
without a cursor is not replayed anything, and comes back without one. History: `lost` and `overdue`,
what outages took from this session and earlier ones; `late`, what was committed or broadcast after a
higher number; `skipped`, what a replay still had to read or to send below the cursor the client comes
back with, when its socket was lost. **History** adds the REST
paging with its over-fetch of one, and relates it to the socket of such a client.

**Conversations.** One conversation, and requests that load the row, then the memberships (`selectin`
is a second statement), then change their copy and write it: `update` writes title, `updated_at` and
`deleted_at`, whatever was changed. The foreign key's lock on the row (KEY SHARE) does not conflict
with an update of these columns, so it does not serialise the two. An invitation of an unknown
address ends like an `Abort`: no effect. The list of participants is read by a third statement, after
the caller was found among the members the second one loaded.

**RefreshTokens** and **Accounts.** Requests load a token, rotate the copy, and commit the revoked
parent with its successor; expiry is compared with a clock of its own. Sign-ups look an e-mail up,
hash, and insert against the unique index; a login is one step, because rows of `users` never change.

**RateLimiter** and **SocketSession.** Frames take the key of their window from the clock when they
are received, and are counted at most `MaxDelay` later; INCR and EXPIRE are one pipeline; a failed or
lost call lets the frame through. `reset` records windows whose key had expired when a frame was
counted. A limit of 0 or less, which disables the limiter, is left out. SocketSession is the
handler of the `Served` sockets with every way out; of the user's other sockets only the
frames matter. An exception inside the loop leads to `leave` through the `finally` clause; a failed
join has rolled back its registration and skips it.

**Migrations.** Three releases, each with the first n revisions. A migrator is one transaction:
advisory lock, look at the version, DDL of each revision above it, version row, commit. DDL that
another replica has committed meanwhile fails. An image older than the database does not find its
revision and does not boot.

## 3. Runs

| Run | Instance | Shows |
|---|---|---|
| `fanout_safety` | 3 sockets, 2 of them on one conversation of 2; 2 messages, 2 outages | no live socket is deaf, the link hears every recorded channel, nothing owed is lost, and the replica implements `LiveFeed` |
| `fanout_liveness` | 2 sockets, one in each of 2 conversations, one of whose peers may stop reading; 1 message, 1 outage, a shutdown | joins and leaves end (two locks, no deadlock, a stuck broadcast or not), what is owed is sent and subscriptions come back, and the shutdown: it ends, serves what it has not closed, and leaves open only sockets that joined late |
| `fanout_reader_dies` | violation | an outage longer than the back-off ends the reader task for good, and its exception cuts the shutdown short |
| `exchange` | 2 sockets of a user, one key and none, 3 numbers | the send flow implements `MessageLog`; acknowledgements are durable and agree; a sender who was removed, or whose conversation was deleted, before a send began is stopped while that lasts; every send ends |
| `exchange_resend` | violation | a re-send that overlaps the first is answered with an error |
| `reading` | 1 client, pages of one, 3 messages | no gap above the cursor, history and socket meet, a connected client catches up, and a message is missed for one of three causes only: late, lost in an outage, or below the cursor after a replay that was cut short |
| `delivery_gap` | violation | with concurrent writers a message is committed below a cursor and never delivered |
| `conversations_safety` | 2 requests at a time, any number one after the other; owner and guest; 2 titles; 5 clock readings | the owner stays, a deletion is the last change, and every lost update, conflict, or list without its caller needs an overlap |
| `conversations_restore` | violation | restoring an active conversation undoes a rename |
| `identity` | 2 refreshes, 3 tokens, 2 sign-ups, an e-mail in two spellings, another one and a malformed one; lifetime 2 of 4 ticks | one account per e-mail; a spent token is refused; a successor replaces its parent |
| `session` | 1 served socket and another of the same user, window 3, limit 1, delay 1, 5 ticks, token lifetime 2 | the quota, one answer per frame, and every exit of the handler leaves the registry |
| `migrations` | 3 replicas, 3 releases | the served schema is complete, the DDL of no boot meets what another replica committed since it read the version, every boot ends |

Two actors are enough for the races here, since each is between a reader of a stale state and one
writer; the third socket of `fanout_safety` is there so that a broadcast has one socket that fails
and one that does not, and another conversation goes on. Two outages allow one during the recovery
from another. Three messages, with pages of one, are the least with several full pages, a page
boundary and a late commit below a cursor, and let a live number overtake two that wait to be replayed. The bounds (`MaxPublish`, `MaxOutages`, `MaxSeq`,
`MaxTime`, `MaxFrames`, `Newest`) appear in guards only, and are constants. Deadlock is checked in
every run but the two of ReplicaShutdown, where the process exits. Symmetry is used in the three runs that check no liveness and whose sockets, requests,
tokens or titles are interchangeable.

Runs marked *violation* state what a comment or the guide says; section 6 says what they found.

## 4. Fairness

- ReplicaShutdown: asyncio locks wake waiters in turn, so taking a lock is strongly fair, for handlers
  and for the reader; a task that is past its await goes on (weak), but a broadcast need not get past
  a peer that is stuck. Redis is back one day (weak): without this no subscription could return. The
  finally block goes on once it has begun, and its timeout fires (weak). Publishes, hang-ups, outages
  and SIGTERM are not fair.
- MessageExchange: every await of a send ends, in success or failure (weak on the steps of a send).
  A handler that waits in the unique index is let on when the other transaction ends.
- Delivery and History: the replica goes on reading pages and sending (weak). Clients and writers
  promise nothing.
- SocketSession: the handler goes on whenever it does not wait for its client (weak). Frames are not
  fair, and no client must ever hang up.
- Migrations: Postgres grants a lock in turn (strong on `TakeLock`), a migrator goes on (weak). A
  replica that is down need not come back.

The code has no timeout on a send to a socket, so a peer that does not read holds up the broadcast of
its replica, and every reader of `channels` behind it: `OwedIsSent` and `SubscriptionIsRestored` exclude
a broadcast that is held up (`HeldUp`), `JoinsAndLeavesEnd` and `ShutdownEnds` do not. The other modules
assume that a send ends.

## 5. Proofs

Every safety property that a run checks is a theorem too, for any value of the constants: the named
assumptions of the modules (`FanoutAssumption`, `LogAssumption`, `DeliveryAssumption` and so on) are
the only ones, and TLC evaluates them in every run. Few of the properties are inductive; each proof
names the invariant that is, and `<Part>Init` and `<Part>Step` lemmas give each part of it, with one
step per action. The theorems combine them by temporal logic. TLC checked each invariant before it was
proved.

### The replica (`Replica_proofs`)

*Fan-out.* `TypeCorrect`, `LiveSocketsHear` (`[]LiveSocketIsSubscribed`), `ChannelsAreHeard`
(`[]HealthyHearsEveryChannel`), `OwedIsNotLost` (`[]OwedIsOnItsWay`). The invariant is `IInv`, in four
parts, proved one on top of the other:

1. `TypeOK`, which also bounds the message in hand by those published;
2. `RegistryInv`: at most one handler holds the registry lock, and none holds the pub/sub lock with
   the reader (`LocksExclude`); a socket on its first join is alone in its conversation, and one on
   its last leave left it empty (`HolderKnows`); a conversation with a registered socket is in
   `channels`, unless its first join is between its two steps (`RegisteredIsRecorded`); a socket
   with a peer is registered from its join to its leave (`AliveIsRegistered`: a broadcast drops dead
   sockets only). `HolderKnows` is why the lock spans both steps: without it the leave of one
   socket removes the channel the join of another counts on;
3. `ChannelInv`: outside a reconnection what is recorded is in `pubsub.memory`, and during one it is
   there or among the channels the reader has yet to subscribe;
4. `OwedInv`: only a live socket of a healthy replica is owed anything, of its own conversation, and
   what it is owed is in the link or in the broadcast, with the socket among those still to be sent.

*The feed.* `FanoutImplementsFeed`: `Spec => ImplementsFeed`. The mapping needs more than `IInv`
(`OrderInv`): the link holds messages in the order of their numbers, above the one in hand, so the one
a broadcast sends is the first on its way (`LinkInOrder`); a registration is under the socket's own
conversation (`RegisteredOnce`); a socket that has not joined has been sent nothing, is not registered
and not among those a broadcast still has to reach (`OutsideIsUnsent`), so that it begins with nothing.
`TurnStep` has the 22 actions that only take messages away or begin a socket, `PublishStep` and
`SendStep` the other two. `LiveFeed_proofs` proves that every feed sends in order (`FeedIsInOrder`),
because what is on its way is above what was sent. `SentInOrder` puts the two together: a socket of a
replica is sent the live messages in the order of Redis.

*The shutdown.* `DrainServes` (`ShutdownSpec => []DrainKeepsServing`) and `DrainIsComplete`
(`[]DrainLeavesOnlyLate`), from `SInv`. What a replica does beside the drain are steps of
ReplicaFanout, and the close of a socket by the drain is for the fan-out a peer that goes; so
`RegistryInv` is kept, by the same lemmas, until the drain has ended. `DrainReaches` is about the
snapshots: every socket that is served is in the snapshot of a set, in one that is still to be taken,
or joined late. It needs that only joins add to the dictionary (`OnlyJoinsRegister`), and that a handler
which has not joined, or has left, is not in it (`OutsideIsUnregistered`).

### The send flow (`MessageExchange_proofs`)

*The log.* `SendIsIdempotent` (`LogSpec => []MessagesAreUnique`), `BroadcastIsCommitted`
(`[]FeedIsCommitted`) and `QuestionComesFirst` (`[]AnswerFollowsQuestion`) are what the abstract log
gives its readers. `AnswerFollowsQuestion` is not inductive: it speaks of answers in the feed only, and
`LogInv` adds that an answer which is stored, and not yet broadcast, has its question in the feed.

*The sends.* `ExchangeImplementsLog`: `Spec => ImplementsLog`, so that `ExchangeKeepsPromises` takes
these three over to the code's steps; `AcksAreDurable` (`[]AckIsDurable`) and `BarredSendsStop`
(`[]BarredSendStopsAtCheck`) are of the send flow itself. The second speaks of each of the check's two
reads alone (`BarredAreStopped`): while a reason to refuse the send lasts, the read that looks at it cannot miss
it. No more is true, as section 6 says. The guards of the log speak of all its
messages, and a handler looks at few. `EInv` says what it knows of the rest by where it is: the numbers
it drew are in no row and no other handler's (`NumbersAreDrawn`, `HandlersAreApart`); what it has in hand
is stored, broadcast or answered, or not yet (`HandlersKnow`); and past the unique index no row and no
other handler has its key. Then each step posts, answers or broadcasts one message as the log allows, or
leaves log and feed alone, a crash or a lost confirmation at any point included.

### Readers (`History_proofs`)

The lemmas of part 1 say what a page is: the first of a set are a prefix of it and the newest a suffix,
and a page that is not full is all there was. They rest on the least element of a set of numbers, not
on induction over the operators.

*Delivery.* `NothingIsSkipped` (`Spec => []NoGapAboveCursor`) and `EveryGapHasACause`
(`[]GapsHaveACause`), from `DInv`. Above its cursor a socket that joined is sent what is broadcast
since and replays what was committed before, so the first needs little more than the pages. The second
looks across connections: a client resumes from the highest number it has, and what it lacks below that
must be excused. So `ReplayIsPrefix` says that what was sent or replayed has every lower message
before it that is not late: whatever is lower, if it is not broadcast itself, and what waits live, if it is;
`PendingIsOrdered` says that what waits behind a higher number is late, so that a live number does not
move the cursor over one that is on its way; and `CursorIsExcused` that what a client misses below its
cursor is lost, overdue, skipped, late, or will be late whenever it is broadcast (`WillBeLate`).
`ResumeIsExcused` is the step that needs all of them: the cursor jumps to the highest number seen, and
what lies below it was seen, or the replay still had it (`skipped`), or it is one of these.

*History.* `HistoryServesAll` (`HistorySpec => []HistoryIsComplete`) and `HistoryAndSocketMeet`
(`[]HistoryMeetsLive`), from `HInv`: the cursor of the next request splits what was there at the start
into what has been served and what is still below it. `HistoryDelivers` says that the requests change
nothing of Delivery, so that both theorems about sockets hold of it.

### The session (`SocketSession_proofs`)

*The rate limit.* `NoneIsRefusedEarly` (`Spec => []NoEarlyRefusal`): Redis may forget a count, and never
makes one up. `QuotaIsKept` (`Spec => []QuotaHolds`) is about sums of frames, which are counted as
finite sets of pairs (`FramesOf`). While a key has not begun anew, the frames of its window that passed
are among those it counted (`WindowInv`). A key can begin anew when a window's first count comes in its
first tick and a late one a whole window after: `OnlyLastIsAnew` shows that with counts no later than a
tick this happens once, when only frames of the last tick are left. So what passed before came in the
first tick and what passes after in the last (`AnewInv`), and any time as long as a window either is the
window, or misses one of the two (`SpanOfTwo`).

*The handlers.* `EveryFrameIsAnswered` (`SessionSpec => []OneAnswerPerFrame`) and `SessionTyped`:
handlers change only their own entries, and go to a stage they have settled for (`Settled`: a
registration only where the finally clause is still to come, an answer owed only where one will be
given). `SessionKeepsLimit` says that the sockets drive the limit by its own steps.

### Migrations, accounts, conversations

`Migrations_proofs`: `SchemaIsComplete` (`Spec => []ServedSchemaIsComplete`) and `NoClash`
(`[]MigratorsNeverClash`), for any replicas and any number of releases. `MInv` adds what the lock is
for: one replica at a time migrates (`OneMigrates`), and what it has applied and has yet to apply are the
revisions between the version it found, which is still that of the database, and its release
(`MigratesInOrder`). Without it the commit, which writes the release over the version, could leave a
revision out or meet one that is there.

`Accounts_proofs`: replays are refused, rotated tokens stay revoked, and an e-mail has one account
(`SpentSessionIsRefused`, `RotatedSessionIsRevoked`, `OneAccountPerEmail`, all of `AccountsSpec`). A
request holds a copy of a row that others may have revoked meanwhile, and merges the whole copy back;
`RInv` says why that is harmless: the copy differs from the row in the revocation only (`CopiesAreOfRows`),
it is revoked when it is written, and what is spent stays spent, so a late request finds it so
(`LateAreSpent`). `AInv` is about sign-ups: a row is that of a sign-up which came to its insert, and the
unique index leaves one for an e-mail (`OneRowPerEmail`). `AccountsKeepTokens`: accounts add steps to
RefreshTokens and change none.

`Conversations_proofs`: the properties of `conversations_safety`, and `ConversationsTyped`. `CInv`
separates what every copy keeps from what only a request that was not overtaken knows. Every copy was
once the row, so it has its deletion as the last change, and none but a restore's is of a deleted row
(`CopiesAreSound`): a rename of an old copy can undo a deletion, and cannot write to a deleted row and
leave it deleted. A request that was not overtaken has the members that are stored, and a copy of the
row that is stored or what its operation makes of that (`NotOvertakenIsCurrent`). What
`remove_participant` checked of the owner cannot become stale (`ChecksHold`), what `add_participant`
checked can: hence the conflict.

### Only model-checked

Liveness, because fairness and ENABLED are beyond the prover: `JoinsAndLeavesEnd`, `OwedIsSent`,
`SubscriptionIsRestored`, `ShutdownEnds`, `SendEnds`, `CaughtUp`, `GoneIsLeft`, `BootEnds`. And the four
violations of section 6, which are counterexamples. No module declares a RECURSIVE operator.

## 6. Where the code and its documents differ

- **The reader may die** (`fanout_reader_dies`). `_reconnect` runs in an except handler of `_run`, and
  a `subscribe` that fails there ends the task. The replica goes on serving sockets that hear nothing,
  until it is restarted. The guide says the subscriber repairs itself. At the shutdown `stop()` awaits
  that task and raises its exception, and neither Redis nor the database is closed.
- **A re-send is not always acknowledged** (`exchange_resend`). Two sends with one key overlap, and the
  second fails on the unique constraint; a third try would be acknowledged. No second row is written.
- **A message can be missed** (`delivery_gap`). The number is drawn at the flush, and another message
  with a higher one may be committed, broadcast and seen first. If the socket then goes, the lower one
  is never replayed. A message lost in an outage is equally out of reach once a later live one has moved
  the cursor over it, which the guide does not say. And so is one that a replay had still to send: a
  client comes with 0 to a conversation of 1 and 2, gets 3 live while the pages are read, loses its socket
  and comes back with 3, "the highest ordering seq the client has already seen" (`protocol.py:20`); 1
  and 2 are not sent to it, although no message was late or lost, and `websocket.py:106` has it that "no
  message can be missed (no gap)". The guide asks a client for a seen-set and not a high-water mark
  (SYSTEM_GUIDE.md:594-599), and then for one number; nothing tells a client when its replay is over.
  `NothingIsMissed` leaves the two last causes out, so that the run shows the first;
  `GapsHaveACause` shows that there is no fourth.
- **Restoring an active conversation is a write** (`conversations_restore`).

Seen on the way, without a run of their own: a socket that joins while the drain is on is forgotten
without a close if its set was visited before (`late`; SYSTEM_GUIDE.md:436 says that every live socket
is closed with 1001); one peer that does not read can use up the drain's whole budget, and the sockets
after it are not closed; a broadcast that drops the last socket of a conversation
leaves its channel subscribed (`connection_manager.py:98` ignores what `unregister` returns); a frame
counted after its window's key expired starts the window anew (`reset`: what `QuotaHolds` then promises
is twice the limit, and only if counts come within a tick of the clock reading their key was made of;
with later ones TLC finds more); a socket that sends nothing outlives its token, since only a valid message frame looks at it; the loser
of a sign-up race is answered 500 and not 409; two refreshes of one token that overlap both succeed; a
sender who had access at no moment can pass the check of a send between its two reads, if the row is
read, the conversation is deleted, and an invitation that was loaded before the deletion then commits
(README.md:287 says that membership is "re-checked on every send"); and an image that waited for the
lock behind a newer release finds a version it does not know and does not boot, where `env.py:52` says
that "later starters block here, then find the schema already at head and no-op".

## 7. Not modelled, and abstractions

- What uvicorn does to open sockets and their handlers before it runs the finally block: the model
  lets them go on, which is what the code of the drain is written for.
- redis-py's own retry of a PUBLISH, and what a subscribe confirmation looks like: the reader reads it
  as no message.
- The text of messages, titles and errors, page sizes as such, hashing and JWT cryptography.
- Title and content validation, which decide only whether a request fails.
- A replica of an older release that writes while a newer one has migrated (a conversation without its
  owner's membership, after the backfill of revision 5): its code is not here.
- The list of a user's conversations, the health probes and the demo client: they read.

## 8. Plan

Done, in this order, by weight: fan-out; send flow and its refinement; delivery; conversations;
refresh tokens and accounts; rate limiter and session; history; migrations; the shutdown; the feed
that fan-out implements; the proofs of all safety properties and of both refinements.

Next:
1. What a socket is sent, end to end: the order in which a replica sends (`SentInOrder`) beside the gaps
   of Delivery, as a theorem about one reader of both.
2. The step from `LogSpec` to Delivery's `Write`: that a reader may take question and answer alike.
3. Shorter proofs of the shutdown and of the pages, where lemmas repeat what a step already gives.
