-------------------------- MODULE LiveFeed_proofs --------------------------
(***************************************************************************)
(* What every live feed gives its sockets, for any sockets and             *)
(* conversations: no message is sent after a later one.                    *)
(***************************************************************************)
EXTENDS LiveFeed, TLAPS

FeedInv == FeedTypeOK /\ NothingIsOvertaken
-----------------------------------------------------------------------------
\* A feed that has just begun is of its type, and nothing is on its way.
LEMMA FeedBegins == FeedInit => FeedInv
BY DEF FeedInit, FeedInv, FeedTypeOK, NothingIsOvertaken, Nothing

\* Every step keeps the numbers of messages among those published.
LEMMA FeedTypeStep == FeedTypeOK /\ [FeedNext]_feedVars => FeedTypeOK'
<1>. SUFFICES ASSUME FeedTypeOK, [FeedNext]_feedVars PROVE FeedTypeOK'
  OBVIOUS
<1>. USE DEF FeedTypeOK
<1>1. ASSUME NEW v \in Conversations, Publish(v) PROVE FeedTypeOK'
  <2>1. /\ published' = published + 1
        /\ UNCHANGED <<hearing, delivered>>
    BY <1>1 DEF Publish
  <2>2. PICK C \in SUBSET {c \in Sockets : ConvOf[c] = v} :
           pending' = [c \in Sockets |->
                         IF c \in C THEN pending[c] \cup {published + 1} ELSE pending[c]]
    BY <1>1 DEF Publish
  <2>. QED
    BY <2>1, <2>2
<1>2. ASSUME NEW c \in Sockets, Deliver(c) PROVE FeedTypeOK'
  BY <1>2 DEF Deliver
<1>3. CASE Turn
  BY <1>3 DEF Turn
<1>4. CASE UNCHANGED feedVars
  BY <1>4 DEF feedVars
<1>. QED
  BY <1>1, <1>2, <1>3, <1>4 DEF FeedNext

\* Every step leaves what is on its way to a socket above what it was sent: a
\* new message has the highest number, and the first is sent first.
LEMMA FeedOrderStep == FeedInv /\ [FeedNext]_feedVars => NothingIsOvertaken'
<1>. SUFFICES ASSUME FeedInv, [FeedNext]_feedVars,
                     NEW c \in Sockets, NEW m \in delivered'[c], NEW n \in pending'[c]
              PROVE  m < n
  BY DEF NothingIsOvertaken
<1>. USE DEF FeedInv, FeedTypeOK, NothingIsOvertaken
<1>1. ASSUME NEW v \in Conversations, Publish(v) PROVE m < n
  <2>1. m \in delivered[c] /\ m \in 1..published
    BY <1>1 DEF Publish
  <2>2. n \in pending[c] \/ n = published + 1
    BY <1>1 DEF Publish
  <2>. QED
    BY <2>1, <2>2
<1>2. ASSUME NEW d \in Sockets, Deliver(d) PROVE m < n
  <2>1. PICK k \in pending[d] :
           /\ \A j \in pending[d] : k <= j
           /\ pending' = [pending EXCEPT ![d] = @ \ {k}]
           /\ delivered' = [delivered EXCEPT ![d] = @ \cup {k}]
    BY <1>2 DEF Deliver
  <2>2. CASE c = d
    <3>1. n \in pending[d] /\ n # k /\ n \in Nat /\ k \in Nat
      BY <2>1, <2>2
    <3>2. m \in delivered[d] \/ m = k
      BY <2>1, <2>2
    <3>. QED
      BY <2>1, <2>2, <3>1, <3>2
  <2>3. CASE c # d
    BY <2>1, <2>3
  <2>. QED
    BY <2>2, <2>3
<1>3. CASE Turn
  <2>1. CASE Same(c)
    BY <2>1 DEF Same
  <2>2. CASE Lose(c)
    BY <2>2 DEF Lose
  <2>3. CASE Begin(c)
    BY <2>3 DEF Begin
  <2>. QED
    BY <1>3, <2>1, <2>2, <2>3 DEF Turn
<1>4. CASE UNCHANGED feedVars
  BY <1>4 DEF feedVars
<1>. QED
  BY <1>1, <1>2, <1>3, <1>4 DEF FeedNext
-----------------------------------------------------------------------------
\* In every feed, what is on its way to a socket comes after all it was sent.
THEOREM FeedOvertakesNothing == FeedSpec => []FeedInv
<1>1. FeedInv /\ [FeedNext]_feedVars => FeedInv'
  BY FeedTypeStep, FeedOrderStep DEF FeedInv
<1>. QED
  BY <1>1, FeedBegins, PTL DEF FeedSpec

\* In every feed, a socket is sent the messages in the order of their
\* publication, however often it comes, goes, and loses some.
THEOREM FeedIsInOrder == FeedSpec => InPublishOrder
<1> DEFINE InOrder == \A c \in Sockets : \A n \in delivered'[c] \ delivered[c] :
                         \A m \in delivered[c] : m < n
<1>1. FeedInv /\ [FeedNext]_feedVars => [InOrder]_feedVars
  <2>. SUFFICES ASSUME FeedInv, FeedNext,
                       NEW c \in Sockets, NEW n \in delivered'[c] \ delivered[c],
                       NEW m \in delivered[c]
                PROVE  m < n
    OBVIOUS
  <2>. USE DEF FeedInv, FeedTypeOK, NothingIsOvertaken
  <2>1. ASSUME NEW v \in Conversations, Publish(v) PROVE m < n
    BY <2>1 DEF Publish
  <2>2. ASSUME NEW d \in Sockets, Deliver(d) PROVE m < n
    BY <2>2 DEF Deliver
  <2>3. CASE Turn
    BY <2>3 DEF Turn, Same, Lose, Begin
  <2>. QED
    BY <2>1, <2>2, <2>3 DEF FeedNext
<1>. QED
  BY <1>1, FeedOvertakesNothing, PTL DEF FeedSpec, InPublishOrder
=============================================================================
