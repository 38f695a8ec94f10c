----------------------------- MODULE MessageLog -----------------------------
(***************************************************************************)
(* What a conversation promises its readers: a log of committed messages   *)
(* and the feed of those that were broadcast.                              *)
(*                                                                         *)
(* A message carries the sequence number Postgres drew for it.  Numbers    *)
(* are unique; nothing says that they are committed in their order.  A     *)
(* client's key names at most one message, each message is answered at     *)
(* most once, and the feed has committed messages only, none of them twice *)
(* and no answer before the message it answers.                            *)
(***************************************************************************)
EXTENDS Naturals, Sequences

CONSTANTS
    Users,
    Nobody,     \* the sender of an assistant's message
    Keys,       \* client_message_id values
    NoKey,      \* a message sent without one
    MaxSeq      \* bound: sequence numbers drawn

ASSUME LogAssumption ==
    /\ MaxSeq \in Nat
    /\ Nobody \notin Users
    /\ NoKey \notin Keys

VARIABLES
    log,        \* the committed messages
    feed        \* the sequence numbers broadcast so far, in order

UserMessage(seq, sender, key) ==
    [seq |-> seq, role |-> "user", sender |-> sender, key |-> key, answers |-> 0]

\* "answers" is history: the message the assistant was asked about.
AssistantMessage(seq, question) ==
    [seq |-> seq, role |-> "assistant", sender |-> Nobody, key |-> NoKey,
     answers |-> question]

Message ==
    [seq : 1..MaxSeq, role : {"user", "assistant"}, sender : Users \cup {Nobody},
     key : Keys \cup {NoKey}, answers : 0..MaxSeq]

Seqs(messages) == {m.seq : m \in messages}
Fed(f) == {f[i] : i \in DOMAIN f}

LogTypeOK ==
    /\ log \in SUBSET Message
    /\ feed \in Seq(1..MaxSeq)

LogInit == log = {} /\ feed = <<>>

Fresh(seq) == seq \notin Seqs(log)

Post(seq, sender, key) ==
    /\ Fresh(seq)
    /\ key # NoKey => \A m \in log : m.key # key
    /\ log' = log \cup {UserMessage(seq, sender, key)}
    /\ UNCHANGED feed

Answer(seq, question) ==
    /\ Fresh(seq)
    /\ question.role = "user"
    /\ question.seq < seq
    /\ question.seq \in Fed(feed)
    /\ \A m \in log : m.answers # question.seq
    /\ log' = log \cup {AssistantMessage(seq, question.seq)}
    /\ UNCHANGED feed

Announce(message) ==
    /\ message.seq \notin Fed(feed)
    /\ feed' = Append(feed, message.seq)
    /\ UNCHANGED log

LogNext ==
    \/ \E seq \in 1..MaxSeq, sender \in Users, key \in Keys \cup {NoKey} :
          Post(seq, sender, key)
    \/ \E seq \in 1..MaxSeq : \E question \in log : Answer(seq, question)
    \/ \E message \in log : Announce(message)

LogSpec == LogInit /\ [][LogNext]_<<log, feed>>
-----------------------------------------------------------------------------
(* What a reader may rely on *)

\* A sequence number and a key each name one message, and a message is answered
\* once: retries and races leave no second row (idempotent send).
MessagesAreUnique ==
    \A m, n \in log :
        \/ m = n
        \/ /\ m.seq # n.seq
           /\ m.key = n.key => m.key = NoKey
           /\ m.answers = n.answers => m.answers = 0

\* A subscriber never sees a message that a rollback would erase, and sees none
\* broadcast twice (MessageExchange: persisted before it is broadcast).
FeedIsCommitted ==
    /\ Fed(feed) \subseteq Seqs(log)
    /\ \A i, j \in DOMAIN feed : feed[i] = feed[j] => i = j

\* A client that reads the feed up to an answer has been shown the question: an
\* answer is broadcast after it, and has the higher number by which clients order.
AnswerFollowsQuestion ==
    \A i \in DOMAIN feed : \A m \in log :
        m.seq = feed[i] /\ m.role = "assistant" =>
            /\ m.answers < m.seq
            /\ \E j \in 1..(i - 1) : feed[j] = m.answers
=============================================================================
