------------------------------ MODULE Delivery ------------------------------
(***************************************************************************)
(* Reading a conversation over a socket: replay of what was missed, and    *)
(* live delivery of what is broadcast meanwhile.                           *)
(*                                                                         *)
(* The messages come from MessageLog, which MessageExchange implements.    *)
(* ReplicaFanout gives each joined socket the feed in its order, unless an *)
(* outage loses a part of it.  A client keeps the set of numbers it has    *)
(* seen, and presents one number, last_seen_seq, when it comes back; or it *)
(* presents none, and loads its history over REST (module History).        *)
(***************************************************************************)
EXTENDS MessageLog, FiniteSets

CONSTANTS
    Readers,        \* the clients
    PageSize,       \* _REPLAY_PAGE_SIZE
    NoCursor        \* the cursor of a client that presents no last_seen_seq

ASSUME DeliveryAssumption ==
    /\ PageSize \in Nat \ {0}
    /\ NoCursor \notin Nat

VARIABLES
    session,        \* where each client's socket is
    cursor,         \* the last_seen_seq it connected with, or will
    after,          \* while it pages: replay has read up to here
    replay,         \* replayed messages still to be sent
    pending,        \* live messages still to be sent, in the order of the feed
    seen,           \* what the client has been sent, in all its sessions
    lost,           \* history: what an outage lost in this session
    overdue,        \* history: what outages lost in earlier sessions
    skipped,        \* history: what a replay cut short leaves below the next cursor
    late            \* history: what was committed or broadcast after a higher number

vars ==
    <<log, feed, session, cursor, after, replay, pending, seen, lost, overdue, skipped, late>>

readerVars == <<session, cursor, after, replay, pending, seen, lost, overdue, skipped>>

\* "paging": joined, and ReplayMessages is reading.  "streaming": the frames of
\* the replay, if any are left, are being sent, and then the receive loop runs.
Session == {"away", "paging", "streaming"}

TypeOK ==
    /\ LogTypeOK
    /\ session \in [Readers -> Session]
    /\ cursor \in [Readers -> 0..MaxSeq \cup {NoCursor}]
    /\ after \in [Readers -> 0..MaxSeq]
    /\ replay \in [Readers -> SUBSET (1..MaxSeq)]
    /\ pending \in [Readers -> Seq(1..MaxSeq)]
    /\ seen \in [Readers -> SUBSET (1..MaxSeq)]
    /\ lost \in [Readers -> SUBSET (1..MaxSeq)]
    /\ overdue \in [Readers -> SUBSET (1..MaxSeq)]
    /\ skipped \in [Readers -> SUBSET (1..MaxSeq)]
    /\ late \in SUBSET (1..MaxSeq)

Init ==
    /\ LogInit
    /\ session = [r \in Readers |-> "away"]
    /\ cursor \in [Readers -> {0, NoCursor}]
    /\ after = [r \in Readers |-> 0]
    /\ replay = [r \in Readers |-> {}]
    /\ pending = [r \in Readers |-> <<>>]
    /\ seen = [r \in Readers |-> {}]
    /\ lost = [r \in Readers |-> {}]
    /\ overdue = [r \in Readers |-> {}]
    /\ skipped = [r \in Readers |-> {}]
    /\ late = {}

Highest(S) == CHOOSE n \in S \cup {0} : \A m \in S : m <= n
-----------------------------------------------------------------------------
(* Faults: variants of definitions below that the properties tell from the code *)

\* A socket that is replaying is not sent live messages yet.
JoinedAfterReplay(r) == session[r] = "streaming"

\* The first message above the cursor is skipped.
MissedButOne(r) == {n \in Seqs(log) : n > after[r] + 1}

\* A full page is taken for the last one.
ReadOnePage(r) ==
    /\ session[r] = "paging"
    /\ session' = [session EXCEPT ![r] = "streaming"]
    /\ replay' = [replay EXCEPT ![r] = CHOOSE P \in SUBSET Seqs(log) :
                     /\ \A n \in P : n > after[r]
                     /\ \A n \in P, m \in Seqs(log) \ P : m > after[r] => n < m
                     /\ \A n \in Seqs(log) \ P : n > after[r] => Cardinality(P) = PageSize]
    /\ after' = [after EXCEPT ![r] = 0]
    /\ UNCHANGED <<log, feed, cursor, pending, seen, lost, overdue, skipped, late>>
-----------------------------------------------------------------------------
(* Writers *)

\* Numbers are drawn in one order, and committed and broadcast in any.
LateAmong(seq, numbers) == IF \E n \in numbers : n > seq THEN late \cup {seq} ELSE late

\* To a reader an answer is a message like any other, only later: Post stands
\* for both.
Write(seq) ==
    /\ \E sender \in Users, k \in Keys \cup {NoKey} : Post(seq, sender, k)
    /\ late' = LateAmong(seq, Seqs(log))
    /\ UNCHANGED readerVars

\* The sockets that ConnectionManager.broadcast finds registered.
Joined(r) == session[r] # "away"

\* A message is broadcast: it reaches the joined sockets, except those whose
\* replica an outage has cut off.
Broadcast(m, cutOff) ==
    /\ Announce(m)
    /\ pending' = [r \in Readers |-> IF Joined(r) /\ r \notin cutOff
                                       THEN Append(pending[r], m.seq) ELSE pending[r]]
    /\ lost' = [r \in Readers |-> IF Joined(r) /\ r \in cutOff
                                    THEN lost[r] \cup {m.seq} ELSE lost[r]]
    /\ late' = LateAmong(m.seq, Fed(feed))
    /\ UNCHANGED <<session, cursor, after, replay, seen, overdue, skipped>>
-----------------------------------------------------------------------------
(* The socket of a client: conversation_ws *)

\* The socket joins live delivery before anything is replayed, and nothing is
\* replayed to a client without a cursor.
Connect(r) ==
    /\ session[r] = "away"
    /\ IF cursor[r] = NoCursor
         THEN session' = [session EXCEPT ![r] = "streaming"] /\ UNCHANGED after
         ELSE /\ session' = [session EXCEPT ![r] = "paging"]
              /\ after' = [after EXCEPT ![r] = cursor[r]]
    /\ overdue' = [overdue EXCEPT ![r] = @ \cup lost[r]]
    /\ lost' = [lost EXCEPT ![r] = {}]
    /\ UNCHANGED <<log, feed, cursor, replay, pending, seen, skipped, late>>

\* list_since: the first PageSize numbers committed above "after".
Missed(r) == {n \in Seqs(log) : n > after[r]}

Page(r) == {n \in Missed(r) : Cardinality({m \in Missed(r) : m <= n}) <= PageSize}

\* ReplayMessages reads pages until one is short, each with its own snapshot.
ReadPage(r) ==
    /\ session[r] = "paging"
    /\ replay' = [replay EXCEPT ![r] = @ \cup Page(r)]
    /\ IF Cardinality(Page(r)) < PageSize
         THEN /\ session' = [session EXCEPT ![r] = "streaming"]
              /\ after' = [after EXCEPT ![r] = 0]
         ELSE after' = [after EXCEPT ![r] = Highest(Page(r))] /\ UNCHANGED session
    /\ UNCHANGED <<log, feed, cursor, pending, seen, lost, overdue, skipped, late>>

\* The replay is sent in order once it is complete.
SendReplayed(r) ==
    /\ session[r] = "streaming"
    /\ \E n \in replay[r] :
          /\ \A m \in replay[r] : n <= m
          /\ replay' = [replay EXCEPT ![r] = @ \ {n}]
          /\ seen' = [seen EXCEPT ![r] = @ \cup {n}]
    /\ UNCHANGED <<log, feed, session, cursor, after, pending, lost, overdue, skipped, late>>

\* A live message may be sent at any time since the join.
SendLive(r) ==
    /\ session[r] # "away"
    /\ pending[r] # <<>>
    /\ pending' = [pending EXCEPT ![r] = Tail(@)]
    /\ seen' = [seen EXCEPT ![r] = @ \cup {Head(pending[r])}]
    /\ UNCHANGED <<log, feed, session, cursor, after, replay, lost, overdue, skipped, late>>

Unsent(r) == replay[r] \cup {pending[r][i] : i \in DOMAIN pending[r]}

\* What the replay of this socket has still to read or to send.
Unreplayed(r) == replay[r] \cup IF session[r] = "paging" THEN Missed(r) ELSE {}

\* The last_seen_seq to come back with: "Highest ordering seq the client has already
\* seen".  Live and replayed frames look the same, and no frame ends a replay.  A
\* client without a cursor comes back without one.
Resume(r) ==
    IF cursor[r] = NoCursor THEN NoCursor ELSE Highest({cursor[r]} \cup seen[r])

\* The socket is lost, with everything still to be sent on it.
Disconnect(r) ==
    /\ session[r] # "away"
    /\ session' = [session EXCEPT ![r] = "away"]
    /\ replay' = [replay EXCEPT ![r] = {}]
    /\ pending' = [pending EXCEPT ![r] = <<>>]
    /\ cursor' = [cursor EXCEPT ![r] = Resume(r)]
    /\ after' = [after EXCEPT ![r] = 0]
    /\ skipped' = [skipped EXCEPT ![r] = @ \cup {n \in Unreplayed(r) : n < Resume(r)}]
    /\ UNCHANGED <<log, feed, seen, lost, overdue, late>>
-----------------------------------------------------------------------------
Serve(r) == ReadPage(r) \/ SendReplayed(r) \/ SendLive(r)

Next ==
    \/ \E seq \in 1..MaxSeq : Write(seq)
    \/ \E m \in log : \E cutOff \in SUBSET Readers : Broadcast(m, cutOff)
    \/ \E r \in Readers : Connect(r) \/ Serve(r) \/ Disconnect(r)

Spec == Init /\ [][Next]_vars

\* A replica goes on reading and sending; clients and writers promise nothing.
Serving ==
    \A r \in Readers : WF_vars(ReadPage(r) \/ SendReplayed(r)) /\ WF_vars(SendLive(r))
-----------------------------------------------------------------------------
(* Properties *)

OnItsWay(r, n) ==
    \/ n \in seen[r]
    \/ n \in replay[r]
    \/ \E i \in DOMAIN pending[r] : pending[r][i] = n
    \/ session[r] = "paging" /\ n > after[r]

\* Joining before the replay leaves no gap: above its cursor a connected client
\* has, or is about to be sent, every message that was broadcast and not lost,
\* whatever is committed or broadcast while the pages are read.
NoGapAboveCursor ==
    \A r \in Readers : session[r] # "away" /\ cursor[r] # NoCursor =>
        \A n \in Fed(feed) : n > cursor[r] => OnItsWay(r, n) \/ n \in lost[r]

\* A client that stays connected is sent all of it.
CaughtUp ==
    \A r \in Readers : \A n \in 1..MaxSeq :
        (/\ session[r] # "away" /\ cursor[r] # NoCursor
         /\ n \in Fed(feed) /\ n > cursor[r] /\ n \notin lost[r])
            ~> (n \in seen[r] \/ session[r] = "away")

\* Across all its sessions, a client with nothing left to be sent has seen every
\* message that was broadcast, except what an outage lost, what came after a
\* message with a higher number, and what a replay had still to send when its
\* socket was lost and a higher number had come live: no other way leads to a gap.
GapsHaveACause ==
    \A r \in Readers :
        session[r] = "streaming" /\ Unsent(r) = {} /\ cursor[r] # NoCursor
            => Fed(feed) \subseteq seen[r] \cup lost[r] \cup overdue[r] \cup skipped[r] \cup late

\* websocket.py: "no message can be missed (no gap)", outages and replays that
\* were cut short apart.
NothingIsMissed ==
    \A r \in Readers :
        session[r] = "streaming" /\ Unsent(r) = {} /\ cursor[r] # NoCursor
            => Fed(feed) \subseteq seen[r] \cup lost[r] \cup overdue[r] \cup skipped[r]
=============================================================================
