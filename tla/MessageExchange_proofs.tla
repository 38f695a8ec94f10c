------------------------ MODULE MessageExchange_proofs ------------------------
(***************************************************************************)
(* Proofs about MessageLog and MessageExchange, for any handlers, users,   *)
(* keys and bound: what the log gives its readers, and that the sends      *)
(* implement it.                                                           *)
(***************************************************************************)
EXTENDS MessageExchange, TLAPS

-----------------------------------------------------------------------------
(***************************************************************************)
(* 1. The log                                                              *)
(*                                                                         *)
(* What LogNext allows is enough for what a reader may rely on.            *)
(***************************************************************************)
\* An answer is of a question that was broadcast before it was written.
AnswersAreOfBroadcast ==
    \A m \in log : m.role = "assistant" =>
        m.answers < m.seq /\ m.answers \in Fed(feed)

\* Only an answer names a question, and a question's number is no zero.
QuestionsAnswerNothing == \A m \in log : m.role = "user" => m.answers = 0

LogInv ==
    /\ LogTypeOK
    /\ MessagesAreUnique
    /\ FeedIsCommitted
    /\ AnswersAreOfBroadcast
    /\ QuestionsAnswerNothing
    /\ AnswerFollowsQuestion

\* An empty log has it all.
LEMMA LogInvInit == LogInit => LogInv
BY LogAssumption DEF LogInit, LogInv, LogTypeOK, MessagesAreUnique, FeedIsCommitted, Fed, Seqs,
     AnswersAreOfBroadcast, QuestionsAnswerNothing, AnswerFollowsQuestion

\* What Post adds is a message.
LEMMA UserMessageType ==
    ASSUME NEW seq \in 1..MaxSeq, NEW sender \in Users, NEW k \in Keys \cup {NoKey}
    PROVE  UserMessage(seq, sender, k) \in Message
BY LogAssumption DEF UserMessage, Message

\* What Answer adds is a message.
LEMMA AssistantMessageType ==
    ASSUME NEW seq \in 1..MaxSeq, NEW question \in Message
    PROVE  AssistantMessage(seq, question.seq) \in Message
BY LogAssumption DEF AssistantMessage, Message

\* A user's message that is stored keeps every part: its number is fresh, and
\* so is its key if it has one.
LEMMA PostStep ==
    ASSUME LogInv, NEW seq \in 1..MaxSeq, NEW sender \in Users, NEW k \in Keys \cup {NoKey},
           Post(seq, sender, k)
    PROVE  LogInv'
<1>. DEFINE new == UserMessage(seq, sender, k)
<1>1. new \in Message /\ log' = log \cup {new} /\ feed' = feed
  BY UserMessageType DEF Post
<1>2. new.seq = seq /\ new.role = "user" /\ new.key = k /\ new.answers = 0
  BY DEF UserMessage
<1>3. LogTypeOK'
  BY <1>1 DEF LogInv, LogTypeOK
<1>4. \A m \in log : m.seq # seq /\ (m.key = k => m.key = NoKey)
  BY DEF Post, Fresh, Seqs
<1>. HIDE DEF new
<1>5. MessagesAreUnique'
  BY <1>1, <1>2, <1>4 DEF LogInv, MessagesAreUnique
<1>6. FeedIsCommitted'
  BY <1>1 DEF LogInv, FeedIsCommitted, Seqs, Fed
<1>7. AnswersAreOfBroadcast' /\ QuestionsAnswerNothing'
  BY <1>1, <1>2 DEF LogInv, AnswersAreOfBroadcast, QuestionsAnswerNothing, Fed
<1>8. AnswerFollowsQuestion'
  BY <1>1, <1>2 DEF LogInv, AnswerFollowsQuestion
<1>. QED
  BY <1>3, <1>5, <1>6, <1>7, <1>8 DEF LogInv

\* An answer that is stored keeps every part: its number is fresh, and in no
\* feed yet.
LEMMA AnswerStep ==
    ASSUME LogInv, NEW seq \in 1..MaxSeq, NEW question \in log, Answer(seq, question)
    PROVE  LogInv'
<1>. DEFINE new == AssistantMessage(seq, question.seq)
<1>0. question \in Message /\ question.seq \in 1..MaxSeq
  BY DEF LogInv, LogTypeOK, Message
<1>1. new \in Message /\ log' = log \cup {new} /\ feed' = feed
  BY <1>0, AssistantMessageType DEF Answer
<1>2. new.seq = seq /\ new.role = "assistant" /\ new.key = NoKey /\ new.answers = question.seq
  BY DEF AssistantMessage
<1>3. LogTypeOK'
  BY <1>1 DEF LogInv, LogTypeOK
<1>4. /\ \A m \in log : m.seq # seq /\ m.answers # question.seq
      /\ question.seq < seq /\ question.seq \in Fed(feed)
  BY DEF Answer, Fresh, Seqs
<1>. HIDE DEF new
<1>5. MessagesAreUnique'
  BY <1>1, <1>2, <1>4 DEF LogInv, MessagesAreUnique
<1>6. FeedIsCommitted'
  BY <1>1 DEF LogInv, FeedIsCommitted, Seqs, Fed
<1>7. AnswersAreOfBroadcast' /\ QuestionsAnswerNothing'
  BY <1>1, <1>2, <1>4 DEF LogInv, AnswersAreOfBroadcast, QuestionsAnswerNothing, Fed
<1>8. \A i \in DOMAIN feed : feed[i] # seq
  BY <1>4 DEF LogInv, FeedIsCommitted, Fed, Seqs
<1>9. AnswerFollowsQuestion'
  BY <1>1, <1>2, <1>8 DEF LogInv, AnswerFollowsQuestion
<1>. QED
  BY <1>3, <1>5, <1>6, <1>7, <1>9 DEF LogInv

\* A broadcast keeps every part: it is of a stored message that was not
\* broadcast, and what an answer answers is in the feed already.
LEMMA AnnounceStep ==
    ASSUME LogInv, NEW msg \in log, Announce(msg)
    PROVE  LogInv'
<1>0. msg.seq \in 1..MaxSeq /\ feed \in Seq(1..MaxSeq)
  BY DEF LogInv, LogTypeOK, Message
<1>1. log' = log /\ feed' = Append(feed, msg.seq)
  BY DEF Announce
<1>2. /\ DOMAIN feed = 1..Len(feed) /\ DOMAIN feed' = 1..(Len(feed) + 1) /\ Len(feed) \in Nat
      /\ feed'[Len(feed) + 1] = msg.seq
      /\ \A i \in DOMAIN feed : feed'[i] = feed[i]
  BY <1>0, <1>1
<1>3. LogTypeOK'
  BY <1>0, <1>1 DEF LogInv, LogTypeOK
<1>4. MessagesAreUnique' /\ QuestionsAnswerNothing'
  BY <1>1 DEF LogInv, MessagesAreUnique, QuestionsAnswerNothing
<1>5. \A i \in DOMAIN feed : feed[i] # msg.seq
  BY DEF Announce, Fed
<1>6. Fed(feed)' = Fed(feed) \cup {msg.seq}
  BY <1>2 DEF Fed
<1>7. FeedIsCommitted'
  <2>1. (Fed(feed) \subseteq Seqs(log))'
    BY <1>1, <1>6 DEF LogInv, FeedIsCommitted, Seqs
  <2>2. \A i, j \in DOMAIN feed' : feed'[i] = feed'[j] => i = j
    BY <1>2, <1>5 DEF LogInv, FeedIsCommitted
  <2>. QED
    BY <2>1, <2>2 DEF FeedIsCommitted
<1>8. AnswersAreOfBroadcast'
  BY <1>1, <1>6 DEF LogInv, AnswersAreOfBroadcast
<1>9. AnswerFollowsQuestion'
  <2>. SUFFICES ASSUME NEW i \in DOMAIN feed', NEW m \in log,
                       m.seq = feed'[i], m.role = "assistant"
                PROVE  m.answers < m.seq /\ \E j \in 1..(i - 1) : feed'[j] = m.answers
    BY <1>1 DEF AnswerFollowsQuestion
  <2>1. CASE i \in DOMAIN feed
    <3>1. m.answers < m.seq /\ \E j \in 1..(i - 1) : feed[j] = m.answers
      BY <1>2, <2>1 DEF LogInv, AnswerFollowsQuestion
    <3>. QED
      BY <1>2, <2>1, <3>1
  <2>2. CASE i = Len(feed) + 1
    <3>1. m.answers < m.seq /\ \E j \in DOMAIN feed : feed[j] = m.answers
      BY DEF LogInv, AnswersAreOfBroadcast, Fed
    <3>. QED
      BY <1>2, <2>2, <3>1
  <2>. QED
    BY <1>2, <2>1, <2>2
<1>. QED
  BY <1>3, <1>4, <1>7, <1>8, <1>9 DEF LogInv

\* Every step of a log keeps the invariant.
LEMMA LogStep == LogInv /\ [LogNext]_<<log, feed>> => LogInv'
<1>. SUFFICES ASSUME LogInv, [LogNext]_<<log, feed>> PROVE LogInv'
  OBVIOUS
<1>1. CASE UNCHANGED <<log, feed>>
  BY <1>1 DEF LogInv, LogTypeOK, MessagesAreUnique, FeedIsCommitted, Fed, Seqs,
     AnswersAreOfBroadcast, QuestionsAnswerNothing, AnswerFollowsQuestion
<1>2. CASE LogNext
  BY <1>2, PostStep, AnswerStep, AnnounceStep DEF LogNext
<1>. QED
  BY <1>1, <1>2

\* The invariant of the log, of which each promise to its readers is a part.
THEOREM LogInvariant == LogSpec => []LogInv
BY LogInvInit, LogStep, PTL DEF LogSpec

\* Idempotent send: a number and a key name one message each, and no message is
\* answered twice, in every log that MessageExchange can leave.
THEOREM SendIsIdempotent == LogSpec => []MessagesAreUnique
<1>1. LogInv => MessagesAreUnique
  BY DEF LogInv
<1>. QED
  BY <1>1, LogInvariant, PTL

\* Persisted before broadcast: the feed has committed messages only, each once.
THEOREM BroadcastIsCommitted == LogSpec => []FeedIsCommitted
<1>1. LogInv => FeedIsCommitted
  BY DEF LogInv
<1>. QED
  BY <1>1, LogInvariant, PTL

\* A client that reads the feed is shown the question before its answer.
THEOREM QuestionComesFirst == LogSpec => []AnswerFollowsQuestion
<1>1. LogInv => AnswerFollowsQuestion
  BY DEF LogInv
<1>. QED
  BY <1>1, LogInvariant, PTL
-----------------------------------------------------------------------------
(***************************************************************************)
(* 2. The sends                                                            *)
(*                                                                         *)
(* Whatever sends overlap, fail, crash and are tried again, each of their  *)
(* steps posts a message, answers one, broadcasts one, or leaves log and   *)
(* feed alone.                                                             *)
(*                                                                         *)
(* The guards of the log speak of all its messages, and a handler looks at *)
(* few of them.  The invariant says what a handler knows of the rest, from *)
(* where it is in its send: that the numbers it drew are its own, what was *)
(* written and broadcast under them, and what the unique index keeps out.  *)
(***************************************************************************)
-----------------------------------------------------------------------------
(* The invariant *)

Unstored == {"inserting", "inserted"}
Unanswered == {"publish", "respond", "reply", "replyInserted"}
Replying == {"replyInserted", "publishReply"}
Stored == Unanswered \cup {"publishReply", "ack"}

\* A handler at work on a message that it inserted itself.
Sending == Unstored \cup Unanswered \cup {"publishReply"}

\* Every number in the log was drawn, and an answer has no key.
NumbersAreDrawn ==
    \A m \in log : m.seq <= lastSeq /\ (m.role = "assistant" => m.key = NoKey)

\* A number was drawn, and no row has it.
Drawn(seq) == seq \in 1..lastSeq /\ Fresh(seq)

\* What is so of the message, by where its handler is.
KnowsMessage(h) ==
    /\ pc[h] = "find" => key[h] # NoKey
    /\ pc[h] \in Unstored =>
          /\ Drawn(message[h].seq)
          /\ message[h] = UserMessage(message[h].seq, UserOf[h], key[h])
    /\ pc[h] = "inserted" /\ key[h] # NoKey => \A m \in log : m.key # key[h]
    /\ pc[h] \in Stored => message[h] \in log /\ message[h].role = "user" /\ message[h].key = key[h]
    /\ pc[h] = "publish" => message[h].seq \notin Fed(feed)
    /\ pc[h] \in Unanswered => \A m \in log : m.answers # message[h].seq
    /\ pc[h] \in Unanswered \ {"publish"} => message[h].seq \in Fed(feed)

KnowsReply(h) ==
    /\ pc[h] = "replyInserted" =>
          /\ Drawn(reply[h].seq)
          /\ reply[h] = AssistantMessage(reply[h].seq, message[h].seq)
          /\ message[h].seq < reply[h].seq
    /\ pc[h] = "publishReply" => reply[h] \in log /\ reply[h].seq \notin Fed(feed)

HandlersKnow == \A h \in Handlers : KnowsMessage(h) /\ KnowsReply(h)

\* No two handlers work under one number, and the unique index lets one message
\* with a key in at a time.
Apart(g, h) ==
    /\ pc[g] \in Sending /\ pc[h] \in Sending => message[g].seq # message[h].seq
    /\ pc[g] \in Sending /\ pc[h] \in Replying => message[g].seq # reply[h].seq
    /\ pc[g] \in Replying /\ pc[h] \in Replying => reply[g].seq # reply[h].seq
    /\ pc[g] = "inserted" /\ pc[h] = "inserted" /\ key[g] = key[h] => key[h] = NoKey

HandlersAreApart == \A g, h \in Handlers : g # h => Apart(g, h)

\* Where the barred sends are, and what bars them.
BarredAreStopped ==
    /\ \A h \in closed : deleted /\ pc[h] \in {"access", "error"}
    /\ \A h \in outside : UserOf[h] \notin members /\ pc[h] \in {"access", "members", "error"}

EInv ==
    /\ TypeOK
    /\ LogInv
    /\ NumbersAreDrawn
    /\ HandlersKnow
    /\ HandlersAreApart
    /\ AckIsDurable
    /\ BarredAreStopped
-----------------------------------------------------------------------------
(* Types *)

\* Messages that a handler makes are messages.
LEMMA ExchangeMessages ==
    ASSUME NEW seq \in 1..MaxSeq, NEW h \in Handlers, NEW k \in Keys \cup {NoKey}
    PROVE  UserMessage(seq, UserOf[h], k) \in Message
BY ExchangeAssumption, UserMessageType

LEMMA ExchangeTypeInit == Init => TypeOK
<1>. SUFFICES ASSUME Init PROVE TypeOK
  OBVIOUS
<1>1. LogTypeOK
  BY DEF Init, LogInit, LogTypeOK
<1>2. lastSeq \in 0..MaxSeq
  BY LogAssumption DEF Init
<1>3. /\ pc \in [Handlers -> PC] /\ key \in [Handlers -> Keys \cup {NoKey}]
      /\ message \in [Handlers -> Message \cup {NoMessage}]
      /\ reply \in [Handlers -> Message \cup {NoMessage}]
  BY DEF Init, PC
<1>4. /\ acked \in SUBSET [key : Keys \cup {NoKey}, seq : 1..MaxSeq]
      /\ closed \in SUBSET Handlers /\ outside \in SUBSET Handlers
  BY DEF Init
<1>. QED
  BY <1>1, <1>2, <1>3, <1>4 DEF Init, TypeOK

\* Every step keeps the types; what is committed and broadcast is a message.
LEMMA ExchangeTypeStep == EInv /\ [Next]_vars => TypeOK'
<1>. SUFFICES ASSUME EInv, [Next]_vars PROVE TypeOK'
  OBVIOUS
<1>0. TypeOK /\ HandlersKnow
  BY DEF EInv
<1>. USE <1>0, LogAssumption DEF TypeOK, LogTypeOK, PC, GoTo
<1>1. ASSUME NEW h \in Handlers, NEW k \in Keys \cup {NoKey}, Receive(h, k) PROVE TypeOK'
  BY <1>1 DEF Receive
<1>2. ASSUME NEW h \in Handlers, LoadConversation(h) \/ EnsureParticipant(h) PROVE TypeOK'
  BY <1>2 DEF LoadConversation, EnsureParticipant
<1>3. ASSUME NEW h \in Handlers, FindExisting(h) PROVE TypeOK'
  BY <1>3 DEF FindExisting
<1>4. ASSUME NEW h \in Handlers, DrawSeq(h) PROVE TypeOK'
  <2>1. lastSeq + 1 \in 1..MaxSeq
    BY <1>4 DEF DrawSeq
  <2>2. UserMessage(lastSeq + 1, UserOf[h], key[h]) \in Message
    BY <2>1, ExchangeMessages
  <2>. QED
    BY <1>4, <2>1, <2>2 DEF DrawSeq
<1>5. ASSUME NEW h \in Handlers, EnterIndex(h) PROVE TypeOK'
  BY <1>5 DEF EnterIndex
<1>6. ASSUME NEW h \in Handlers, Commit(h) PROVE TypeOK'
  <2>1. message[h] \in Message
    <3>1. /\ message[h].seq \in 1..MaxSeq
          /\ message[h] = UserMessage(message[h].seq, UserOf[h], key[h])
      BY <1>6 DEF Commit, HandlersKnow, KnowsMessage, Unstored, Drawn
    <3>2. UserMessage(message[h].seq, UserOf[h], key[h]) \in Message
      BY <3>1, ExchangeMessages
    <3>. QED
      BY <3>1, <3>2
  <2>. QED
    BY <1>6, <2>1 DEF Commit
<1>7. ASSUME NEW h \in Handlers, Publish(h) PROVE TypeOK'
  <2>1. message[h].seq \in 1..MaxSeq
    BY <1>7 DEF Publish, HandlersKnow, KnowsMessage, Stored, Unanswered, Message
  <2>2. feed' \in Seq(1..MaxSeq)
    BY <1>7, <2>1 DEF Publish
  <2>. QED
    BY <1>7, <2>2 DEF Publish
<1>8. ASSUME NEW h \in Handlers, Respond(h) PROVE TypeOK'
  BY <1>8 DEF Respond
<1>9. ASSUME NEW h \in Handlers, InsertReply(h) PROVE TypeOK'
  <2>1. lastSeq + 1 \in 1..MaxSeq /\ message[h] \in Message
    BY <1>9 DEF InsertReply, HandlersKnow, KnowsMessage, Stored, Unanswered
  <2>2. AssistantMessage(lastSeq + 1, message[h].seq) \in Message
    BY <2>1, AssistantMessageType
  <2>. QED
    BY <1>9, <2>1, <2>2 DEF InsertReply
<1>10. ASSUME NEW h \in Handlers, CommitReply(h) PROVE TypeOK'
  <2>1. message[h] \in Message /\ reply[h].seq \in 1..MaxSeq
    BY <1>10 DEF CommitReply, HandlersKnow, KnowsMessage, KnowsReply, Stored, Unanswered, Drawn
  <2>2. reply[h] \in Message
    BY <1>10, <2>1, AssistantMessageType DEF CommitReply, HandlersKnow, KnowsReply
  <2>. QED
    BY <1>10, <2>2 DEF CommitReply
<1>11. ASSUME NEW h \in Handlers, PublishReply(h) PROVE TypeOK'
  <2>1. reply[h].seq \in 1..MaxSeq
    BY <1>11 DEF PublishReply, HandlersKnow, KnowsReply, Message
  <2>2. feed' \in Seq(1..MaxSeq)
    BY <1>11, <2>1 DEF PublishReply
  <2>. QED
    BY <1>11, <2>2 DEF PublishReply
<1>12. ASSUME NEW h \in Handlers, Ack(h) PROVE TypeOK'
  <2>1. message[h].seq \in 1..MaxSeq
    BY <1>12 DEF Ack, HandlersKnow, KnowsMessage, Stored, Message
  <2>. QED
    BY <1>12, <2>1 DEF Ack, Finish
<1>13. ASSUME NEW h \in Handlers, SendError(h) \/ Crash(h) PROVE TypeOK'
  BY <1>13 DEF SendError, Crash, Finish
<1>14. ASSUME NEW h \in Handlers, Fail(h) PROVE TypeOK'
  BY <1>14 DEF Fail, Fails
<1>15. CASE ChangeMembers
  BY <1>15 DEF ChangeMembers, Lift
<1>16. CASE DeleteOrRestore
  BY <1>16 DEF DeleteOrRestore, Lift
<1>17. CASE UNCHANGED vars
  BY <1>17 DEF vars
<1>. QED
  BY <1>1, <1>2, <1>3, <1>4, <1>5, <1>6, <1>7, <1>8, <1>9, <1>10, <1>11, <1>12, <1>13, <1>14, <1>15,
     <1>16, <1>17 DEF Next, Step
-----------------------------------------------------------------------------
(* What a step of one handler leaves to the others *)

SameFor(g) == pc'[g] = pc[g] /\ key'[g] = key[g] /\ message'[g] = message[g] /\ reply'[g] = reply[g]

OthersSame(h) == \A g \in Handlers : g # h => SameFor(g)

\* While nothing is stored or broadcast, the others know what they knew; a number
\* drawn meanwhile is above theirs.
LEMMA QuietKeeps ==
    ASSUME EInv, NEW h \in Handlers, OthersSame(h), UNCHANGED <<log, feed>>,
           TypeOK', lastSeq' >= lastSeq, KnowsMessage(h)', KnowsReply(h)',
           \A g \in Handlers : g # h => Apart(g, h)' /\ Apart(h, g)'
    PROVE  LogInv' /\ NumbersAreDrawn' /\ HandlersKnow' /\ HandlersAreApart'
<1>1. LogInv'
  BY LogStep DEF EInv
<1>2. NumbersAreDrawn'
  BY DEF EInv, TypeOK, LogTypeOK, Message, NumbersAreDrawn
<1>3. ASSUME NEW g \in Handlers, g # h PROVE KnowsMessage(g)' /\ KnowsReply(g)'
  <2>1. KnowsMessage(g) /\ KnowsReply(g) /\ SameFor(g)
    BY <1>3 DEF EInv, HandlersKnow, OthersSame
  <2>2. lastSeq \in Nat /\ lastSeq' \in Nat
    BY LogAssumption DEF EInv, TypeOK
  <2>3. KnowsMessage(g)'
    BY <2>1, <2>2 DEF KnowsMessage, SameFor, Drawn, Fresh, Seqs, Fed
  <2>4. KnowsReply(g)'
    BY <2>1, <2>2 DEF KnowsReply, SameFor, Drawn, Fresh, Seqs, Fed
  <2>. QED
    BY <2>3, <2>4
<1>4. ASSUME NEW g \in Handlers, NEW k \in Handlers, g # k, g # h, k # h PROVE Apart(g, k)'
  BY <1>4 DEF EInv, HandlersAreApart, Apart, OthersSame, SameFor
<1>. QED
  BY <1>1, <1>2, <1>3, <1>4 DEF HandlersKnow, HandlersAreApart

\* A handler that has no number of its own is apart from all.
LEMMA ApartWithout ==
    ASSUME NEW h \in Handlers, pc'[h] \notin Sending
    PROVE  \A g \in Handlers : Apart(g, h)' /\ Apart(h, g)'
BY DEF Apart, Sending, Replying, Unanswered, Unstored

\* A handler that goes on without a new number stays apart.
LEMMA ApartOnward ==
    ASSUME EInv, NEW h \in Handlers, OthersSame(h), UNCHANGED <<key, message, reply>>,
           pc'[h] \in Sending => pc[h] \in Sending,
           pc'[h] \in Replying => pc[h] \in Replying,
           pc'[h] = "inserted" => pc[h] = "inserted"
    PROVE  \A g \in Handlers : g # h => Apart(g, h)' /\ Apart(h, g)'
BY DEF EInv, HandlersAreApart, Apart, OthersSame, SameFor
-----------------------------------------------------------------------------
(* Steps that neither store nor broadcast *)

\* What the four quiet parts of the invariant are after a step.
Kept == TypeOK' /\ LogInv' /\ NumbersAreDrawn' /\ HandlersKnow' /\ HandlersAreApart'

\* The start of a send, and its end: the handler has nothing that is its own.
LEMMA BeginOrEnd ==
    ASSUME EInv, TypeOK', NEW h \in Handlers, OthersSame(h), UNCHANGED <<log, feed, lastSeq>>,
           pc'[h] \in {"idle", "access", "members", "insert", "error", "conflict"}
    PROVE  Kept
<1>1. KnowsMessage(h)' /\ KnowsReply(h)'
  BY DEF KnowsMessage, KnowsReply, Unstored, Stored, Unanswered
<1>2. pc'[h] \notin Sending
  BY DEF Sending, Unstored, Unanswered
<1>3. lastSeq' >= lastSeq
  BY LogAssumption DEF EInv, TypeOK
<1>. QED
  BY <1>1, <1>2, <1>3, ApartWithout, QuietKeeps DEF Kept

\* A message with the key was found, or there is none, when the statement began.
LEMMA FindKeeps == ASSUME EInv, TypeOK', NEW h \in Handlers, FindExisting(h) PROVE Kept
<1>1. OthersSame(h) /\ UNCHANGED <<log, feed, lastSeq, key>> /\ pc[h] = "find" /\ key[h] # NoKey
  BY DEF FindExisting, GoTo, OthersSame, SameFor, EInv, TypeOK, HandlersKnow, KnowsMessage
<1>2. CASE pc'[h] = "insert"
  BY <1>1, <1>2, BeginOrEnd
<1>3. CASE pc'[h] # "insert"
  <2>1. PICK m \in log : m.key = key[h] /\ message'[h] = m /\ pc'[h] = "ack"
    BY <1>3 DEF FindExisting, GoTo, EInv, TypeOK
  <2>2. m.role = "user"
    BY <1>1, <2>1 DEF EInv, TypeOK, LogTypeOK, Message, NumbersAreDrawn
  <2>3. KnowsMessage(h)' /\ KnowsReply(h)'
    BY <1>1, <2>1, <2>2 DEF KnowsMessage, KnowsReply, Unstored, Unanswered, Stored
  <2>4. pc'[h] \notin Sending /\ lastSeq' >= lastSeq
    BY <1>1, <2>1, LogAssumption DEF Sending, Unstored, Unanswered, EInv, TypeOK
  <2>. QED
    BY <1>1, <2>3, <2>4, ApartWithout, QuietKeeps DEF Kept
<1>. QED
  BY <1>2, <1>3

\* The new number is above all that were drawn, so no row and no handler has it.
LEMMA NewNumber ==
    ASSUME EInv, lastSeq < MaxSeq
    PROVE  /\ lastSeq + 1 \in 1..MaxSeq /\ lastSeq + 1 > lastSeq
           /\ Fresh(lastSeq + 1)
           /\ \A g \in Handlers : pc[g] \in Sending => message[g].seq \in 1..lastSeq
           /\ \A g \in Handlers : pc[g] \in Replying => reply[g].seq \in 1..lastSeq
<1>1. lastSeq \in Nat /\ MaxSeq \in Nat
  BY LogAssumption DEF EInv, TypeOK
<1>2. \A m \in log : m.seq \in 1..lastSeq
  BY <1>1 DEF EInv, TypeOK, LogTypeOK, Message, NumbersAreDrawn
<1>3. Fresh(lastSeq + 1)
  BY <1>1, <1>2 DEF Fresh, Seqs
<1>4. ASSUME NEW g \in Handlers, pc[g] \in Sending PROVE message[g].seq \in 1..lastSeq
  <2>1. KnowsMessage(g)
    BY DEF EInv, HandlersKnow
  <2>. QED
    BY <1>2, <1>4, <2>1 DEF KnowsMessage, Sending, Stored, Drawn
<1>5. ASSUME NEW g \in Handlers, pc[g] \in Replying PROVE reply[g].seq \in 1..lastSeq
  <2>1. KnowsReply(g)
    BY DEF EInv, HandlersKnow
  <2>. QED
    BY <1>2, <1>5, <2>1 DEF KnowsReply, Replying, Drawn
<1>. QED
  BY <1>1, <1>3, <1>4, <1>5

LEMMA DrawKeeps == ASSUME EInv, TypeOK', NEW h \in Handlers, DrawSeq(h) PROVE Kept
<1>. DEFINE n == lastSeq + 1
<1>1. /\ pc[h] = "insert" /\ pc'[h] = "inserting" /\ lastSeq < MaxSeq /\ lastSeq' = n
      /\ message'[h] = UserMessage(n, UserOf[h], key[h]) /\ key'[h] = key[h]
      /\ OthersSame(h) /\ UNCHANGED <<log, feed>>
  BY DEF DrawSeq, GoTo, OthersSame, SameFor, EInv, TypeOK
<1>2. /\ n \in 1..MaxSeq /\ n > lastSeq /\ Fresh(n)
      /\ \A g \in Handlers : pc[g] \in Sending => message[g].seq \in 1..lastSeq
      /\ \A g \in Handlers : pc[g] \in Replying => reply[g].seq \in 1..lastSeq
  BY <1>1, NewNumber
<1>3. lastSeq \in Nat
  BY LogAssumption DEF EInv, TypeOK
<1>4. message'[h].seq = n
  BY <1>1 DEF UserMessage
<1>5. KnowsMessage(h)' /\ KnowsReply(h)'
  <2>1. Drawn(message[h].seq)'
    BY <1>1, <1>2, <1>3, <1>4 DEF Drawn, Fresh, Seqs
  <2>. QED
    BY <1>1, <1>4, <2>1 DEF KnowsMessage, KnowsReply, Unstored, Unanswered, Stored
<1>. HIDE DEF n
<1>6. ASSUME NEW g \in Handlers, g # h PROVE Apart(g, h)' /\ Apart(h, g)'
  <2>1. SameFor(g)
    BY <1>1, <1>6 DEF OthersSame
  <2>2. (pc[g] \in Sending => message[g].seq # n) /\ (pc[g] \in Replying => reply[g].seq # n)
    BY <1>2, <1>3
  <2>. QED
    BY <1>1, <1>4, <2>1, <2>2 DEF Apart, SameFor, Replying
<1>. QED
  BY <1>1, <1>2, <1>3, <1>5, <1>6, QuietKeeps DEF Kept

\* The unique index lets a message in if no other with its key is in, committed
\* or not.
LEMMA EnterKeeps == ASSUME EInv, TypeOK', NEW h \in Handlers, EnterIndex(h) PROVE Kept
<1>1. /\ pc[h] = "inserting" /\ OthersSame(h)
      /\ key[h] # NoKey => \A g \in Handlers : pc[g] = "inserted" => key[g] # key[h]
      /\ pc'[h] = IF key[h] # NoKey /\ \E m \in log : m.key = key[h] THEN "conflict" ELSE "inserted"
      /\ UNCHANGED <<log, feed, lastSeq, key, message, reply>>
  BY DEF EnterIndex, GoTo, OthersSame, SameFor, EInv, TypeOK
<1>2. CASE pc'[h] = "conflict"
  BY <1>1, <1>2, BeginOrEnd
<1>3. CASE pc'[h] # "conflict"
  <2>1. pc'[h] = "inserted" /\ (key[h] # NoKey => \A m \in log : m.key # key[h])
    BY <1>1, <1>3
  <2>2. KnowsMessage(h)
    BY DEF EInv, HandlersKnow
  <2>3. KnowsMessage(h)' /\ KnowsReply(h)'
    BY <1>1, <2>1, <2>2 DEF KnowsMessage, KnowsReply, Unstored, Unanswered, Stored, Drawn, Fresh, Seqs
  <2>4. ASSUME NEW g \in Handlers, g # h PROVE Apart(g, h)' /\ Apart(h, g)'
    <3>1. Apart(g, h) /\ Apart(h, g) /\ SameFor(g)
      BY <1>1, <2>4 DEF EInv, HandlersAreApart, OthersSame
    <3>2. pc[h] \in Sending /\ pc'[h] \notin Replying
      BY <1>1, <2>1 DEF Sending, Unstored, Replying
    <3>. QED
      BY <1>1, <2>1, <3>1, <3>2 DEF Apart, SameFor
  <2>5. lastSeq' >= lastSeq
    BY <1>1, LogAssumption DEF EInv, TypeOK
  <2>. QED
    BY <1>1, <2>3, <2>4, <2>5, QuietKeeps DEF Kept
<1>. QED
  BY <1>2, <1>3

\* While the responder is asked, nothing that the handler knows changes.
LEMMA RespondKeeps == ASSUME EInv, TypeOK', NEW h \in Handlers, Respond(h) PROVE Kept
<1>1. /\ pc[h] = "respond" /\ pc'[h] = "reply" /\ OthersSame(h)
      /\ UNCHANGED <<log, feed, lastSeq, key, message, reply>>
  BY DEF Respond, GoTo, OthersSame, SameFor, EInv, TypeOK
<1>2. KnowsMessage(h)' /\ KnowsReply(h)'
  <2>1. KnowsMessage(h)
    BY DEF EInv, HandlersKnow
  <2>. QED
    BY <1>1, <2>1 DEF KnowsMessage, KnowsReply, Unstored, Unanswered, Stored, Fed
<1>3. \A g \in Handlers : g # h => Apart(g, h)' /\ Apart(h, g)'
  BY <1>1, ApartOnward DEF Sending, Unanswered, Replying
<1>4. lastSeq' >= lastSeq
  BY <1>1, LogAssumption DEF EInv, TypeOK
<1>. QED
  BY <1>1, <1>2, <1>3, <1>4, QuietKeeps DEF Kept

\* A reply's number is above that of the message it answers.
LEMMA InsertReplyKeeps == ASSUME EInv, TypeOK', NEW h \in Handlers, InsertReply(h) PROVE Kept
<1>1. /\ pc[h] = "reply" /\ pc'[h] = "replyInserted" /\ lastSeq < MaxSeq /\ lastSeq' = lastSeq + 1
      /\ reply'[h] = AssistantMessage(lastSeq + 1, message[h].seq)
      /\ OthersSame(h) /\ UNCHANGED <<log, feed, key, message>>
  BY DEF InsertReply, GoTo, OthersSame, SameFor, EInv, TypeOK
<1>2. /\ lastSeq + 1 \in 1..MaxSeq /\ lastSeq + 1 > lastSeq /\ Fresh(lastSeq + 1)
      /\ \A g \in Handlers : pc[g] \in Sending => message[g].seq \in 1..lastSeq
      /\ \A g \in Handlers : pc[g] \in Replying => reply[g].seq \in 1..lastSeq
  BY <1>1, NewNumber
<1>3. lastSeq \in Nat
  BY LogAssumption DEF EInv, TypeOK
<1>4. reply'[h].seq = lastSeq + 1 /\ reply'[h].seq = lastSeq'
  BY <1>1 DEF AssistantMessage
<1>5. KnowsMessage(h)' /\ KnowsReply(h)'
  <2>1. Drawn(reply[h].seq)'
    BY <1>1, <1>2, <1>3, <1>4 DEF Drawn, Fresh, Seqs
  <2>2. message[h].seq < reply'[h].seq
    BY <1>1, <1>2, <1>3, <1>4 DEF Sending, Unanswered
  <2>3. KnowsReply(h)'
    BY <1>1, <1>4, <2>1, <2>2 DEF KnowsReply
  <2>4. KnowsMessage(h)
    BY DEF EInv, HandlersKnow
  <2>5. KnowsMessage(h)'
    BY <1>1, <2>4 DEF KnowsMessage, Unstored, Unanswered, Stored, Fed
  <2>. QED
    BY <2>3, <2>5
<1>6. ASSUME NEW g \in Handlers, g # h PROVE Apart(g, h)' /\ Apart(h, g)'
  <2>1. Apart(g, h) /\ Apart(h, g) /\ SameFor(g)
    BY <1>1, <1>6 DEF EInv, HandlersAreApart, OthersSame
  <2>2. /\ pc[g] \in Sending => message[g].seq # reply'[h].seq
        /\ pc[g] \in Replying => reply[g].seq # reply'[h].seq
    BY <1>2, <1>3, <1>4
  <2>3. pc[h] \in Sending /\ pc[h] # "inserted" /\ pc'[h] # "inserted"
    BY <1>1 DEF Sending, Unanswered
  <2>. QED
    BY <1>1, <2>1, <2>2, <2>3 DEF Apart, SameFor
<1>. QED
  BY <1>1, <1>2, <1>3, <1>5, <1>6, QuietKeeps DEF Kept

\* What the owner does reaches handlers by their next check only.
LEMMA OwnerKeeps == ASSUME EInv, TypeOK', ChangeMembers \/ DeleteOrRestore \/ UNCHANGED vars PROVE Kept
<1>1. UNCHANGED <<log, feed, lastSeq, pc, key, message, reply>>
  BY DEF ChangeMembers, DeleteOrRestore, vars
<1>2. LogInv'
  BY <1>1, LogStep DEF EInv
<1>3. NumbersAreDrawn'
  BY <1>1 DEF EInv, NumbersAreDrawn
<1>4. HandlersKnow'
  BY <1>1 DEF EInv, HandlersKnow, KnowsMessage, KnowsReply, Drawn, Fresh, Seqs, Fed
<1>5. HandlersAreApart'
  BY <1>1 DEF EInv, HandlersAreApart, Apart
<1>. QED
  BY <1>2, <1>3, <1>4, <1>5 DEF Kept
-----------------------------------------------------------------------------
(* Steps that store a message *)

\* A handler stores a message under a number of its own.  The others keep theirs,
\* those whose keys are in the index keep them out of the log, and theirs are not
\* the messages it answers.
LEMMA StoreKeeps ==
    ASSUME EInv, TypeOK', NEW h \in Handlers, OthersSame(h), NEW m \in Message,
           log' = log \cup {m}, UNCHANGED <<feed, lastSeq>>, LogInv',
           m.seq <= lastSeq, m.role = "assistant" => m.key = NoKey,
           \A g \in Handlers : g # h =>
              /\ pc[g] \in Unstored => message[g].seq # m.seq
              /\ pc[g] = "replyInserted" => reply[g].seq # m.seq
              /\ pc[g] = "inserted" /\ key[g] # NoKey => m.key # key[g]
              /\ pc[g] \in Unanswered => m.answers # message[g].seq,
           KnowsMessage(h)', KnowsReply(h)',
           \A g \in Handlers : g # h => Apart(g, h)' /\ Apart(h, g)'
    PROVE  Kept
<1>1. NumbersAreDrawn'
  BY DEF EInv, NumbersAreDrawn
<1>2. ASSUME NEW g \in Handlers, g # h PROVE KnowsMessage(g)' /\ KnowsReply(g)'
  <2>1. KnowsMessage(g) /\ KnowsReply(g) /\ SameFor(g)
    BY <1>2 DEF EInv, HandlersKnow, OthersSame
  <2>2. \A n \in 1..lastSeq : Fresh(n) /\ n # m.seq => Fresh(n)'
    BY DEF Fresh, Seqs
  <2>3. KnowsMessage(g)'
    BY <1>2, <2>1, <2>2 DEF KnowsMessage, SameFor, Drawn, Fed
  <2>4. KnowsReply(g)'
    BY <1>2, <2>1, <2>2 DEF KnowsReply, SameFor, Drawn, Fed
  <2>. QED
    BY <2>3, <2>4
<1>3. ASSUME NEW g \in Handlers, NEW k \in Handlers, g # k, g # h, k # h PROVE Apart(g, k)'
  BY <1>3 DEF EInv, HandlersAreApart, Apart, OthersSame, SameFor
<1>. QED
  BY <1>1, <1>2, <1>3 DEF Kept, HandlersKnow, HandlersAreApart

\* The commit of a send posts its message: its number is fresh, and the index kept
\* its key out of the log.
LEMMA CommitPosts ==
    ASSUME EInv, TypeOK', NEW h \in Handlers, Commit(h)
    PROVE  Post(message[h].seq, UserOf[h], key[h]) /\ Kept
<1>1. /\ pc[h] = "inserted" /\ log' = log \cup {message[h]} /\ pc'[h] \in {"publish", "error"}
      /\ OthersSame(h) /\ UNCHANGED <<feed, lastSeq, key, message, reply>>
  BY DEF Commit, GoTo, OthersSame, SameFor, EInv, TypeOK
<1>2. KnowsMessage(h)
  BY DEF EInv, HandlersKnow
<1>3. /\ message[h].seq \in 1..lastSeq /\ Fresh(message[h].seq)
      /\ message[h] = UserMessage(message[h].seq, UserOf[h], key[h])
      /\ key[h] # NoKey => \A m \in log : m.key # key[h]
  BY <1>1, <1>2 DEF KnowsMessage, Unstored, Drawn
<1>4. /\ message[h].seq \in 1..MaxSeq /\ lastSeq \in Nat /\ lastSeq <= MaxSeq
      /\ UserOf[h] \in Users /\ key[h] \in Keys \cup {NoKey}
  BY <1>3, LogAssumption, ExchangeAssumption DEF EInv, TypeOK
<1>5. Post(message[h].seq, UserOf[h], key[h])
  BY <1>1, <1>3 DEF Post
<1>6. LogInv'
  BY <1>4, <1>5, PostStep DEF EInv
<1>7. message[h] \in Message
  BY <1>3, <1>4, UserMessageType
<1>8. message[h].role = "user" /\ message[h].answers = 0 /\ message[h].key = key[h]
  BY <1>3 DEF UserMessage
<1>9. ASSUME NEW g \in Handlers, g # h
      PROVE  /\ pc[g] \in Sending => message[g].seq # message[h].seq
             /\ pc[g] = "replyInserted" => reply[g].seq # message[h].seq
             /\ pc[g] = "inserted" /\ key[g] # NoKey => message[h].key # key[g]
             /\ pc[g] \in Unanswered => message[h].answers # message[g].seq
  <2>1. Apart(g, h) /\ Apart(h, g) /\ pc[h] \in Sending
    BY <1>1, <1>9 DEF EInv, HandlersAreApart, Sending, Unstored
  <2>2. pc[g] \in Unanswered => message[g].seq \in 1..MaxSeq
    BY DEF EInv, HandlersKnow, KnowsMessage, Stored, TypeOK, LogTypeOK, Message
  <2>. QED
    BY <1>1, <1>8, <2>1, <2>2 DEF Apart, Replying
<1>10. KnowsMessage(h)' /\ KnowsReply(h)'
  <2>1. message[h].seq \notin Fed(feed)
    BY <1>3 DEF EInv, LogInv, FeedIsCommitted, Fresh
  <2>2. \A m \in log : m.answers # message[h].seq
    <3>1. \A m \in log : m.answers = 0 \/ m.answers \in Fed(feed)
      BY DEF EInv, LogInv, AnswersAreOfBroadcast, QuestionsAnswerNothing, LogTypeOK, Message
    <3>. QED
      BY <1>4, <2>1, <3>1
  <2>3. \A m \in log' : m.answers # message[h].seq
    BY <1>1, <1>4, <1>8, <2>2
  <2>. QED
    BY <1>1, <1>8, <2>1, <2>3 DEF KnowsMessage, KnowsReply, Unstored, Unanswered, Stored, Fed
<1>11. \A g \in Handlers : g # h => Apart(g, h)' /\ Apart(h, g)'
  BY <1>1, ApartOnward DEF Sending, Unstored, Unanswered, Replying
<1>12. Kept
  BY <1>1, <1>3, <1>4, <1>6, <1>7, <1>8, <1>9, <1>10, <1>11, StoreKeeps DEF Sending
<1>. QED
  BY <1>5, <1>12

\* The commit of a reply answers the message: it was broadcast, and no other
\* handler has it.
LEMMA CommitReplyAnswers ==
    ASSUME EInv, TypeOK', NEW h \in Handlers, CommitReply(h)
    PROVE  message[h] \in log /\ Answer(reply[h].seq, message[h]) /\ Kept
<1>1. /\ pc[h] = "replyInserted" /\ log' = log \cup {reply[h]} /\ pc'[h] \in {"publishReply", "error"}
      /\ OthersSame(h) /\ UNCHANGED <<feed, lastSeq, key, message, reply>>
  BY DEF CommitReply, GoTo, OthersSame, SameFor, EInv, TypeOK
<1>2. KnowsMessage(h) /\ KnowsReply(h)
  BY DEF EInv, HandlersKnow
<1>3. /\ message[h] \in log /\ message[h].role = "user" /\ message[h].key = key[h]
      /\ \A m \in log : m.answers # message[h].seq
      /\ message[h].seq \in Fed(feed)
  BY <1>1, <1>2 DEF KnowsMessage, Stored, Unanswered
<1>4. /\ reply[h].seq \in 1..lastSeq /\ Fresh(reply[h].seq)
      /\ reply[h] = AssistantMessage(reply[h].seq, message[h].seq)
      /\ message[h].seq < reply[h].seq
  BY <1>1, <1>2 DEF KnowsReply, Drawn
<1>5. /\ reply[h].seq \in 1..MaxSeq /\ lastSeq \in Nat /\ lastSeq <= MaxSeq
      /\ message[h] \in Message /\ message[h].seq \in 1..MaxSeq
  BY <1>3, <1>4, LogAssumption DEF EInv, TypeOK, LogTypeOK, Message
<1>6. Answer(reply[h].seq, message[h])
  BY <1>1, <1>3, <1>4 DEF Answer
<1>7. LogInv'
  BY <1>3, <1>5, <1>6, AnswerStep DEF EInv
<1>8. reply[h] \in Message
  BY <1>4, <1>5, AssistantMessageType
<1>9. /\ reply[h].role = "assistant" /\ reply[h].key = NoKey
      /\ reply[h].answers = message[h].seq
  BY <1>4 DEF AssistantMessage
<1>10. ASSUME NEW g \in Handlers, g # h
       PROVE  /\ pc[g] \in Unstored => message[g].seq # reply[h].seq
              /\ pc[g] = "replyInserted" => reply[g].seq # reply[h].seq
              /\ pc[g] = "inserted" /\ key[g] # NoKey => reply[h].key # key[g]
              /\ pc[g] \in Unanswered => reply[h].answers # message[g].seq
  <2>1. Apart(g, h) /\ Apart(h, g)
    BY <1>10 DEF EInv, HandlersAreApart
  <2>2. pc[h] \in Sending /\ pc[h] \in Replying
    BY <1>1 DEF Sending, Unanswered, Replying
  <2>. QED
    BY <1>1, <1>9, <2>1, <2>2 DEF Apart, Replying, Sending
<1>11. KnowsMessage(h)' /\ KnowsReply(h)'
  <2>1. reply[h].seq \notin Fed(feed)
    BY <1>4 DEF EInv, LogInv, FeedIsCommitted, Fresh
  <2>. QED
    BY <1>1, <1>3, <2>1 DEF KnowsMessage, KnowsReply, Unstored, Unanswered, Stored, Fed
<1>12. \A g \in Handlers : g # h => Apart(g, h)' /\ Apart(h, g)'
  BY <1>1, ApartOnward DEF Sending, Unanswered, Replying
<1>13. Kept
  BY <1>1, <1>4, <1>5, <1>7, <1>8, <1>9, <1>10, <1>11, <1>12, StoreKeeps
<1>. QED
  BY <1>3, <1>6, <1>13
-----------------------------------------------------------------------------
(* Steps that broadcast *)

\* A handler broadcasts a message of its own; no other handler has its number.
LEMMA BroadcastKeeps ==
    ASSUME EInv, TypeOK', NEW h \in Handlers, OthersSame(h), NEW m \in log, Announce(m),
           UNCHANGED lastSeq,
           \A g \in Handlers : g # h =>
              /\ pc[g] = "publish" => message[g].seq # m.seq
              /\ pc[g] = "publishReply" => reply[g].seq # m.seq,
           KnowsMessage(h)', KnowsReply(h)',
           \A g \in Handlers : g # h => Apart(g, h)' /\ Apart(h, g)'
    PROVE  Kept /\ Fed(feed)' = Fed(feed) \cup {m.seq}
<1>1. log' = log /\ feed' = Append(feed, m.seq) /\ feed \in Seq(1..MaxSeq)
  BY DEF Announce, EInv, TypeOK, LogTypeOK
<1>2. Fed(feed)' = Fed(feed) \cup {m.seq}
  <2>1. /\ DOMAIN feed = 1..Len(feed) /\ DOMAIN feed' = 1..(Len(feed) + 1) /\ Len(feed) \in Nat
        /\ feed'[Len(feed) + 1] = m.seq
        /\ \A i \in DOMAIN feed : feed'[i] = feed[i]
    BY <1>1
  <2>. QED
    BY <2>1 DEF Fed
<1>3. LogInv'
  BY AnnounceStep DEF EInv
<1>4. NumbersAreDrawn'
  BY <1>1 DEF EInv, NumbersAreDrawn
<1>5. ASSUME NEW g \in Handlers, g # h PROVE KnowsMessage(g)' /\ KnowsReply(g)'
  <2>1. KnowsMessage(g) /\ KnowsReply(g) /\ SameFor(g)
    BY <1>5 DEF EInv, HandlersKnow, OthersSame
  <2>2. KnowsMessage(g)'
    BY <1>1, <1>2, <1>5, <2>1 DEF KnowsMessage, SameFor, Drawn, Fresh, Seqs
  <2>3. KnowsReply(g)'
    BY <1>1, <1>2, <1>5, <2>1 DEF KnowsReply, SameFor, Drawn, Fresh, Seqs
  <2>. QED
    BY <2>2, <2>3
<1>6. ASSUME NEW g \in Handlers, NEW k \in Handlers, g # k, g # h, k # h PROVE Apart(g, k)'
  BY <1>6 DEF EInv, HandlersAreApart, Apart, OthersSame, SameFor
<1>. QED
  BY <1>2, <1>3, <1>4, <1>5, <1>6 DEF Kept, HandlersKnow, HandlersAreApart

\* The broadcast of the message that the handler committed.
LEMMA PublishAnnounces ==
    ASSUME EInv, TypeOK', NEW h \in Handlers, Publish(h)
    PROVE  message[h] \in log /\ Announce(message[h]) /\ Kept
<1>1. /\ pc[h] = "publish" /\ feed' = Append(feed, message[h].seq) /\ pc'[h] \in {"respond", "error"}
      /\ OthersSame(h) /\ UNCHANGED <<log, lastSeq, key, message, reply>>
  BY DEF Publish, GoTo, OthersSame, SameFor, EInv, TypeOK
<1>2. KnowsMessage(h)
  BY DEF EInv, HandlersKnow
<1>3. /\ message[h] \in log /\ message[h].role = "user" /\ message[h].key = key[h]
      /\ message[h].seq \notin Fed(feed)
      /\ \A m \in log : m.answers # message[h].seq
  BY <1>1, <1>2 DEF KnowsMessage, Stored, Unanswered
<1>4. Announce(message[h])
  BY <1>1, <1>3 DEF Announce
<1>5. ASSUME NEW g \in Handlers, g # h
      PROVE  /\ pc[g] = "publish" => message[g].seq # message[h].seq
             /\ pc[g] = "publishReply" => reply[g].seq # message[h].seq
  <2>1. Apart(g, h) /\ Apart(h, g)
    BY <1>5 DEF EInv, HandlersAreApart
  <2>. QED
    BY <1>1, <2>1 DEF Apart, Sending, Unanswered, Replying
<1>6. message[h].seq \in Fed(feed)'
  <2>1. feed \in Seq(1..MaxSeq) /\ message[h].seq \in 1..MaxSeq
    BY <1>3 DEF EInv, TypeOK, LogTypeOK, Message
  <2>2. Len(feed) + 1 \in DOMAIN feed' /\ feed'[Len(feed) + 1] = message[h].seq
    BY <1>1, <2>1
  <2>. QED
    BY <2>2 DEF Fed
<1>7. KnowsMessage(h)' /\ KnowsReply(h)'
  BY <1>1, <1>3, <1>6 DEF KnowsMessage, KnowsReply, Unstored, Unanswered, Stored
<1>8. \A g \in Handlers : g # h => Apart(g, h)' /\ Apart(h, g)'
  BY <1>1, ApartOnward DEF Sending, Unanswered, Replying
<1>9. Kept
  BY <1>1, <1>3, <1>4, <1>5, <1>7, <1>8, BroadcastKeeps
<1>. QED
  BY <1>3, <1>4, <1>9

\* The broadcast of the reply that the handler committed.
LEMMA PublishReplyAnnounces ==
    ASSUME EInv, TypeOK', NEW h \in Handlers, PublishReply(h)
    PROVE  reply[h] \in log /\ Announce(reply[h]) /\ Kept
<1>1. /\ pc[h] = "publishReply" /\ feed' = Append(feed, reply[h].seq) /\ pc'[h] \in {"ack", "error"}
      /\ OthersSame(h) /\ UNCHANGED <<log, lastSeq, key, message, reply>>
  BY DEF PublishReply, GoTo, OthersSame, SameFor, EInv, TypeOK
<1>2. KnowsMessage(h) /\ KnowsReply(h)
  BY DEF EInv, HandlersKnow
<1>3. /\ message[h] \in log /\ message[h].role = "user" /\ message[h].key = key[h]
      /\ reply[h] \in log /\ reply[h].seq \notin Fed(feed)
  BY <1>1, <1>2 DEF KnowsMessage, KnowsReply, Stored
<1>4. Announce(reply[h])
  BY <1>1, <1>3 DEF Announce
<1>5. ASSUME NEW g \in Handlers, g # h
      PROVE  /\ pc[g] = "publish" => message[g].seq # reply[h].seq
             /\ pc[g] = "publishReply" => reply[g].seq # reply[h].seq
  <2>1. Apart(g, h) /\ Apart(h, g)
    BY <1>5 DEF EInv, HandlersAreApart
  <2>. QED
    BY <1>1, <2>1 DEF Apart, Sending, Unanswered, Replying
<1>6. KnowsMessage(h)' /\ KnowsReply(h)'
  BY <1>1, <1>3 DEF KnowsMessage, KnowsReply, Unstored, Unanswered, Stored
<1>7. \A g \in Handlers : g # h => Apart(g, h)' /\ Apart(h, g)'
  BY <1>1, ApartWithout DEF Sending, Unstored, Unanswered
<1>8. Kept
  BY <1>1, <1>3, <1>4, <1>5, <1>6, <1>7, BroadcastKeeps
<1>. QED
  BY <1>3, <1>4, <1>8
-----------------------------------------------------------------------------
(* The log *)

\* The steps of a handler that leave log and feed alone.
Quiet(h) ==
    \/ LoadConversation(h) \/ EnsureParticipant(h) \/ FindExisting(h) \/ DrawSeq(h)
    \/ EnterIndex(h) \/ Respond(h) \/ InsertReply(h) \/ Ack(h) \/ SendError(h) \/ Fail(h) \/ Crash(h)
    \/ \E k \in Keys \cup {NoKey} : Receive(h, k)

LEMMA CheckKeeps ==
    ASSUME EInv, TypeOK', NEW h \in Handlers, LoadConversation(h) \/ EnsureParticipant(h)
    PROVE  Kept
<1>1. /\ pc[h] \in {"access", "members"} /\ OthersSame(h)
      /\ pc'[h] \in {"error", "members", "insert", "find"} /\ (pc'[h] = "find" => key[h] # NoKey)
      /\ UNCHANGED <<log, feed, lastSeq, key, message, reply>>
  BY DEF LoadConversation, EnsureParticipant, GoTo, OthersSame, SameFor, EInv, TypeOK
<1>2. CASE pc'[h] # "find"
  BY <1>1, <1>2, BeginOrEnd
<1>3. CASE pc'[h] = "find"
  <2>1. KnowsMessage(h)' /\ KnowsReply(h)'
    BY <1>1, <1>3 DEF KnowsMessage, KnowsReply, Unstored, Unanswered, Stored
  <2>2. pc'[h] \notin Sending /\ lastSeq' >= lastSeq
    BY <1>1, <1>3, LogAssumption DEF Sending, Unstored, Unanswered, EInv, TypeOK
  <2>. QED
    BY <1>1, <2>1, <2>2, ApartWithout, QuietKeeps DEF Kept
<1>. QED
  BY <1>2, <1>3

\* A step that neither stores nor broadcasts keeps what the handlers know.
LEMMA QuietStep == ASSUME EInv, TypeOK', NEW h \in Handlers, Quiet(h) PROVE Kept /\ UNCHANGED <<log, feed>>
<1>1. ASSUME \E k \in Keys \cup {NoKey} : Receive(h, k) PROVE Kept /\ UNCHANGED <<log, feed>>
  <2>1. OthersSame(h) /\ UNCHANGED <<log, feed, lastSeq>> /\ pc'[h] = "access"
    BY <1>1 DEF Receive, GoTo, OthersSame, SameFor, EInv, TypeOK
  <2>. QED
    BY <2>1, BeginOrEnd
<1>2. ASSUME Fail(h) PROVE Kept /\ UNCHANGED <<log, feed>>
  <2>1. OthersSame(h) /\ UNCHANGED <<log, feed, lastSeq>> /\ pc'[h] = "error"
    BY <1>2 DEF Fail, Fails, GoTo, OthersSame, SameFor, EInv, TypeOK
  <2>. QED
    BY <2>1, BeginOrEnd
<1>3. ASSUME Ack(h) \/ SendError(h) \/ Crash(h) PROVE Kept /\ UNCHANGED <<log, feed>>
  <2>1. OthersSame(h) /\ UNCHANGED <<log, feed, lastSeq>> /\ pc'[h] = "idle"
    BY <1>3 DEF Ack, SendError, Crash, Finish, GoTo, OthersSame, SameFor, EInv, TypeOK
  <2>. QED
    BY <2>1, BeginOrEnd
<1>4. CASE LoadConversation(h) \/ EnsureParticipant(h)
  BY <1>4, CheckKeeps DEF LoadConversation, EnsureParticipant
<1>5. CASE FindExisting(h)
  BY <1>5, FindKeeps DEF FindExisting
<1>6. CASE DrawSeq(h)
  BY <1>6, DrawKeeps DEF DrawSeq
<1>7. CASE EnterIndex(h)
  BY <1>7, EnterKeeps DEF EnterIndex
<1>8. CASE Respond(h)
  BY <1>8, RespondKeeps DEF Respond
<1>9. CASE InsertReply(h)
  BY <1>9, InsertReplyKeeps DEF InsertReply
<1>. QED
  BY <1>1, <1>2, <1>3, <1>4, <1>5, <1>6, <1>7, <1>8, <1>9 DEF Quiet

\* Every step is a step of the log or leaves it alone, and the handlers know it.
LEMMA ExchangeStep == EInv /\ [Next]_vars => Kept /\ [LogNext]_<<log, feed>>
<1>. SUFFICES ASSUME EInv, [Next]_vars PROVE Kept /\ [LogNext]_<<log, feed>>
  OBVIOUS
<1>1. TypeOK'
  BY ExchangeTypeStep
<1>2. ASSUME NEW h \in Handlers, Commit(h) PROVE Kept /\ LogNext
  <2>1. Post(message[h].seq, UserOf[h], key[h]) /\ Kept
    BY <1>1, <1>2, CommitPosts
  <2>2. message[h].seq \in 1..lastSeq
    BY <1>2 DEF Commit, EInv, HandlersKnow, KnowsMessage, Unstored, Drawn
  <2>3. message[h].seq \in 1..MaxSeq /\ UserOf[h] \in Users /\ key[h] \in Keys \cup {NoKey}
    BY <2>2, LogAssumption, ExchangeAssumption DEF EInv, TypeOK
  <2>. QED
    BY <2>1, <2>3 DEF LogNext
<1>3. ASSUME NEW h \in Handlers, CommitReply(h) PROVE Kept /\ LogNext
  <2>1. message[h] \in log /\ Answer(reply[h].seq, message[h]) /\ Kept
    BY <1>1, <1>3, CommitReplyAnswers
  <2>2. reply[h].seq \in 1..lastSeq
    BY <1>3 DEF CommitReply, EInv, HandlersKnow, KnowsReply, Drawn
  <2>3. reply[h].seq \in 1..MaxSeq
    BY <2>2, LogAssumption DEF EInv, TypeOK
  <2>. QED
    BY <2>1, <2>3 DEF LogNext
<1>4. ASSUME NEW h \in Handlers, Publish(h) PROVE Kept /\ LogNext
  BY <1>1, <1>4, PublishAnnounces DEF LogNext
<1>5. ASSUME NEW h \in Handlers, PublishReply(h) PROVE Kept /\ LogNext
  BY <1>1, <1>5, PublishReplyAnnounces DEF LogNext
<1>6. ASSUME NEW h \in Handlers, Quiet(h) PROVE Kept /\ UNCHANGED <<log, feed>>
  BY <1>1, <1>6, QuietStep
<1>7. CASE ChangeMembers \/ DeleteOrRestore \/ UNCHANGED vars
  BY <1>1, <1>7, OwnerKeeps DEF ChangeMembers, DeleteOrRestore, vars
<1>8. \/ \E h \in Handlers : Quiet(h) \/ Commit(h) \/ CommitReply(h) \/ Publish(h) \/ PublishReply(h)
      \/ ChangeMembers \/ DeleteOrRestore \/ UNCHANGED vars
  BY DEF Next, Step, Quiet
<1>. QED
  BY <1>2, <1>3, <1>4, <1>5, <1>6, <1>7, <1>8
-----------------------------------------------------------------------------
(* The acknowledgements, and the sends that are barred *)

\* An acknowledged message stays in the log, and a key names one message there.
LEMMA AckStep == EInv /\ [Next]_vars => AckIsDurable'
<1>. SUFFICES ASSUME EInv, [Next]_vars PROVE AckIsDurable'
  OBVIOUS
<1>1. log \subseteq log' /\ MessagesAreUnique'
  BY ExchangeStep DEF Kept, LogInv, LogNext, Post, Answer, Announce
<1>2. CASE acked' = acked
  BY <1>1, <1>2 DEF EInv, AckIsDurable
<1>3. ASSUME NEW h \in Handlers, Ack(h) PROVE AckIsDurable'
  <2>. DEFINE a == [key |-> key[h], seq |-> message[h].seq]
  <2>1. message[h] \in log /\ message[h].role = "user" /\ message[h].key = key[h]
    BY <1>3 DEF Ack, EInv, HandlersKnow, KnowsMessage, Stored
  <2>2. acked' = acked \cup {a} /\ log' = log
    BY <1>3 DEF Ack, Finish
  <2>3. \A b \in acked' : \E m \in log : m.seq = b.seq /\ m.key = b.key /\ m.role = "user"
    BY <2>1, <2>2 DEF EInv, AckIsDurable
  <2>4. ASSUME NEW b \in acked, b.key = a.key, a.key # NoKey PROVE a = b
    <3>1. PICK m \in log : m.seq = b.seq /\ m.key = b.key
      BY DEF EInv, AckIsDurable
    <3>2. m = message[h]
      BY <2>1, <2>4, <3>1 DEF EInv, LogInv, MessagesAreUnique
    <3>3. b \in [key : Keys \cup {NoKey}, seq : 1..MaxSeq]
      BY DEF EInv, TypeOK
    <3>. QED
      BY <2>4, <3>1, <3>2, <3>3
  <2>. HIDE DEF a
  <2>5. \A b, c \in acked' : b.key = c.key /\ b.key # NoKey => b = c
    BY <2>2, <2>4 DEF EInv, AckIsDurable
  <2>. QED
    BY <2>2, <2>3, <2>5 DEF AckIsDurable
<1>4. acked' = acked \/ \E h \in Handlers : Ack(h)
  BY DEF Next, Step, Receive, LoadConversation, EnsureParticipant, FindExisting, DrawSeq, EnterIndex,
         Commit, Publish, Respond, InsertReply, CommitReply, PublishReply, Fail, Fails, SendError, Crash, ChangeMembers,
         DeleteOrRestore, vars
<1>. QED
  BY <1>2, <1>3, <1>4

\* A barred send is sent away by one read of its check or the other, however the
\* owner's changes fall; what ends a reason takes the send out of its set.
LEMMA BarredStep ==
    ASSUME EInv, [Next]_vars
    PROVE  BarredAreStopped'
<1>. USE DEF EInv, TypeOK, BarredAreStopped
<1>1. ASSUME NEW h \in Handlers, NEW k \in Keys \cup {NoKey}, Receive(h, k) PROVE BarredAreStopped'
  BY <1>1 DEF Receive, GoTo
<1>2. ASSUME NEW h \in Handlers, LoadConversation(h) \/ EnsureParticipant(h) PROVE BarredAreStopped'
  BY <1>2 DEF LoadConversation, EnsureParticipant, GoTo
<1>3. ASSUME NEW h \in Handlers, h \notin closed, h \notin outside,
             UNCHANGED <<closed, outside, members, deleted>>,
             \A g \in Handlers : g # h => pc'[g] = pc[g]
      PROVE  BarredAreStopped'
  BY <1>3
<1>4. ASSUME NEW h \in Handlers,
             \/ FindExisting(h) \/ DrawSeq(h) \/ EnterIndex(h) \/ Commit(h) \/ Publish(h)
             \/ Respond(h) \/ InsertReply(h) \/ CommitReply(h) \/ PublishReply(h)
      PROVE  BarredAreStopped'
  <2>1. h \notin closed /\ h \notin outside /\ UNCHANGED <<closed, outside, members, deleted>>
    BY <1>4 DEF FindExisting, DrawSeq, EnterIndex, Commit, Publish, Respond, InsertReply, CommitReply,
       PublishReply
  <2>2. \A g \in Handlers : g # h => pc'[g] = pc[g]
    BY <1>4 DEF FindExisting, DrawSeq, EnterIndex, Commit, Publish, Respond, InsertReply, CommitReply,
       PublishReply, GoTo
  <2>. QED
    BY <1>3, <2>1, <2>2
<1>5. ASSUME NEW h \in Handlers, Ack(h) \/ SendError(h) \/ Crash(h) PROVE BarredAreStopped'
  BY <1>5 DEF Ack, SendError, Crash, Finish, GoTo
<1>6. ASSUME NEW h \in Handlers, Fail(h) PROVE BarredAreStopped'
  BY <1>6 DEF Fail, Fails, GoTo
<1>7. CASE ChangeMembers
  BY <1>7 DEF ChangeMembers, Lift
<1>8. CASE DeleteOrRestore
  BY <1>8 DEF DeleteOrRestore, Lift
<1>9. CASE UNCHANGED vars
  BY <1>9 DEF vars
<1>. QED
  BY <1>1, <1>2, <1>4, <1>5, <1>6, <1>7, <1>8, <1>9 DEF Next, Step
-----------------------------------------------------------------------------
(* Theorems *)

LEMMA ExchangeInit == Init => EInv
<1>. SUFFICES ASSUME Init PROVE EInv
  OBVIOUS
<1>1. TypeOK /\ LogInv
  BY ExchangeTypeInit, LogInvInit DEF Init
<1>2. \A h \in Handlers : pc[h] = "idle"
  BY DEF Init
<1>3. HandlersKnow /\ HandlersAreApart
  BY <1>2 DEF HandlersKnow, KnowsMessage, KnowsReply, HandlersAreApart, Apart, Sending, Stored,
     Unstored, Unanswered, Replying
<1>. QED
  BY <1>1, <1>3 DEF Init, LogInit, EInv, NumbersAreDrawn, AckIsDurable, BarredAreStopped

LEMMA ExchangeInvStep == EInv /\ [Next]_vars => EInv'
BY ExchangeStep, AckStep, BarredStep DEF Kept, EInv

\* The invariant of the sends: what each handler knows of the rows and of the
\* other handlers, whatever overlaps, fails, crashes and is tried again.
THEOREM ExchangeInvariant == Spec => []EInv
BY ExchangeInit, ExchangeInvStep, PTL DEF Spec

\* The variables have their types: numbers, rows, acknowledgements.
THEOREM ExchangeTyped == Spec => []TypeOK
<1>1. EInv => TypeOK
  BY DEF EInv
<1>. QED
  BY <1>1, ExchangeInvariant, PTL

\* The receive loops of all replicas, Postgres and Redis implement the message
\* log: an empty log to begin with, and every step a step of the log or none.
THEOREM ExchangeImplementsLog == Spec => ImplementsLog
<1>1. Init => LogInit
  BY DEF Init
<1>2. EInv /\ [Next]_vars => [LogNext]_<<log, feed>>
  BY ExchangeStep
<1>. QED
  BY <1>1, <1>2, ExchangeInvariant, PTL DEF Spec, ImplementsLog, LogSpec

\* What a message log promises its readers, the running system promises: no
\* second row or answer for a key, nothing broadcast that is not committed, no
\* answer before its question.
COROLLARY ExchangeKeepsPromises ==
    Spec => [](MessagesAreUnique /\ FeedIsCommitted /\ AnswerFollowsQuestion)
<1>1. Spec => LogSpec
  BY ExchangeImplementsLog DEF ImplementsLog
<1>. QED
  BY <1>1, SendIsIdempotent, BroadcastIsCommitted, QuestionComesFirst, PTL

\* "message.ack" names a durable message, and one key's acknowledgements all name
\* the same one.
THEOREM AcksAreDurable == Spec => []AckIsDurable
<1>1. EInv => AckIsDurable
  BY DEF EInv
<1>. QED
  BY <1>1, ExchangeInvariant, PTL

\* A send whose sender was removed before it began and is still no member, or whose
\* conversation was deleted before and still is, gets no further than its check.
THEOREM BarredSendsStop == Spec => []BarredSendStopsAtCheck
<1>1. EInv => BarredSendStopsAtCheck
  BY DEF EInv, BarredAreStopped, BarredSendStopsAtCheck
<1>. QED
  BY <1>1, ExchangeInvariant, PTL
=============================================================================
