---------------------------- MODULE History_proofs ----------------------------
(***************************************************************************)
(* Proofs about Delivery and History, for any readers, page sizes and      *)
(* bound: what a client is sent over its sockets, what it is served over   *)
(* REST, and that nothing falls between the pages, or between the two.     *)
(***************************************************************************)
EXTENDS History, FiniteSetTheorems, TLAPS

-----------------------------------------------------------------------------
(***************************************************************************)
(* 1. Pages                                                                *)
(*                                                                         *)
(* What a SELECT with an ORDER BY and a LIMIT returns: a part of the rows  *)
(* at one end of the order, which is all of them if it is short.           *)
(***************************************************************************)

\* A set of numbers has a least one.
LEMMA LeastExists ==
    ASSUME NEW S, S \subseteq Nat, S # {}
    PROVE  \E n \in S : \A m \in S : n <= m
<1>1. PICK n \in S : \A m \in S : ~(<<m, n>> \in OpToRel(<, Nat))
  BY NatLessThanWellFounded, WFMin, Zenon
<1>2. \A m \in S : ~(m < n)
  BY <1>1 DEF OpToRel
<1>. QED
  BY <1>2

\* And a greatest one, if it has a bound: the least of its bounds.
LEMMA GreatestExists ==
    ASSUME NEW N \in Nat, NEW S, S \subseteq 0..N, S # {}
    PROVE  \E n \in S : \A m \in S : m <= n
<1>. DEFINE Bounds == {k \in Nat : \A m \in S : m <= k}
<1>1. Bounds \subseteq Nat /\ N \in Bounds
  OBVIOUS
<1>2. Bounds # {}
  BY <1>1
<1>3. PICK k \in Bounds : \A b \in Bounds : k <= b
  <2>. HIDE DEF Bounds
  <2>. QED
    BY <1>1, <1>2, LeastExists
<1>4. k \in S
  <2>1. ASSUME k \notin S PROVE FALSE
    <3>0. k \in Nat /\ \A m \in S : m < k
      <4>1. \A m \in S : m \in Int /\ m <= k /\ m # k
        BY <1>3, <2>1
      <4>. QED
        BY <1>3, <4>1
    <3>1. k # 0
      <4>. PICK m \in S : TRUE
        OBVIOUS
      <4>. QED
        BY <3>0
    <3>2. k - 1 \in Bounds
      BY <3>0, <3>1
    <3>. QED
      BY <3>2, <1>3
  <2>. QED
    BY <2>1
<1>. QED
  BY <1>3, <1>4

\* The numbers of a log are few: they are not above the bound.
LEMMA NumbersAreFinite ==
    ASSUME NEW S, S \subseteq 1..MaxSeq
    PROVE  /\ IsFiniteSet(S)
           /\ Cardinality(S) \in Nat
           /\ S \subseteq Nat /\ S \subseteq 0..MaxSeq
           /\ \A T \in SUBSET S : IsFiniteSet(T) /\ Cardinality(T) \in Nat
                                  /\ Cardinality(T) <= Cardinality(S)
<1>1. IsFiniteSet(1..MaxSeq)
  BY FS_Interval, LogAssumption
<1>2. IsFiniteSet(S)
  BY <1>1, FS_Subset
<1>3. \A T \in SUBSET S : IsFiniteSet(T) /\ Cardinality(T) <= Cardinality(S)
  BY <1>2, FS_Subset
<1>4. \A T \in SUBSET S : Cardinality(T) \in Nat
  BY <1>3, FS_CardinalityType
<1>. QED
  BY <1>2, <1>3, <1>4, LogAssumption

\* The highest number of a page, or zero.
LEMMA HighestIs ==
    ASSUME NEW S, S \subseteq 0..MaxSeq
    PROVE  /\ Highest(S) \in S \cup {0}
           /\ \A m \in S : m <= Highest(S)
<1>1. \E n \in S \cup {0} : \A m \in S : m <= n
  <2>1. CASE S = {}
    BY <2>1
  <2>2. CASE S # {}
    BY <2>2, GreatestExists, LogAssumption
  <2>. QED
    BY <2>1, <2>2
<1>. QED
  BY <1>1 DEF Highest

\* The first "limit" numbers of S.
First(S, limit) == {n \in S : Cardinality({m \in S : m <= n}) <= limit}

\* The first numbers leave out none that is lower.
LEMMA FirstIsPrefix ==
    ASSUME NEW S, S \subseteq 1..MaxSeq, NEW limit \in Nat,
           NEW n \in First(S, limit), NEW m \in S, m <= n
    PROVE  m \in First(S, limit)
<1>. DEFINE UpTo(k) == {j \in S : j <= k}
<1>0. n \in S /\ S \subseteq Nat
  BY NumbersAreFinite DEF First
<1>1. UpTo(m) \subseteq UpTo(n) /\ UpTo(n) \subseteq S
  <2>1. \A j \in S : j <= m => j <= n
    <3>1. \A j \in S : j \in Int
      BY <1>0
    <3>. QED
      BY <1>0, <3>1
  <2>. QED
    BY <2>1
<1>2. UpTo(n) \subseteq 1..MaxSeq
  BY <1>1
<1>3. Cardinality(UpTo(m)) <= Cardinality(UpTo(n))
  <2>. HIDE DEF UpTo
  <2>. QED
    BY <1>1, <1>2, NumbersAreFinite
<1>4. Cardinality(UpTo(n)) <= limit
  BY DEF First
<1>5. Cardinality(UpTo(m)) \in Nat /\ Cardinality(UpTo(n)) \in Nat
  <2>. HIDE DEF UpTo
  <2>. QED
    BY <1>1, <1>2, NumbersAreFinite
<1>6. Cardinality(UpTo(m)) <= limit
  BY <1>3, <1>4, <1>5
<1>. QED
  BY <1>6 DEF First

\* If there are fewer of them than the limit allows, they are all.
LEMMA ShortFirstIsAll ==
    ASSUME NEW S, S \subseteq 1..MaxSeq, NEW limit \in Nat,
           Cardinality(First(S, limit)) < limit
    PROVE  First(S, limit) = S
<1>. DEFINE F == First(S, limit)
<1>1. F \subseteq S
  BY DEF First
<1>2. SUFFICES ASSUME S \ F # {} PROVE FALSE
  BY <1>1
<1>3. PICK n \in S \ F : \A m \in S \ F : n <= m
  BY <1>2, LeastExists, NumbersAreFinite
<1>4. {m \in S : m <= n} = F \cup {n}
  <2>1. ASSUME NEW m \in S, m <= n, m # n PROVE m \in F
    BY <1>3, <2>1, NumbersAreFinite
  <2>2. ASSUME NEW m \in F PROVE m <= n
    <3>1. m \in Nat /\ n \in Nat /\ n \in S
      BY <1>1, <1>3, <2>2, NumbersAreFinite
    <3>2. n <= m => n \in F
      BY <2>2, <3>1, FirstIsPrefix
    <3>. QED
      BY <1>3, <3>1, <3>2
  <2>. QED
    BY <1>1, <1>3, <2>1, <2>2, NumbersAreFinite
<1>5. Cardinality(F \cup {n}) = Cardinality(F) + 1
  BY <1>1, <1>3, FS_AddElement, NumbersAreFinite
<1>6. Cardinality(F) \in Nat
  BY <1>1, NumbersAreFinite
<1>7. Cardinality({m \in S : m <= n}) <= limit
  BY <1>4, <1>5, <1>6
<1>. QED
  BY <1>3, <1>7 DEF First

\* A page of the replay is a prefix of what was missed; a short one is all of it,
\* and of a full one the highest number is below all that it leaves out.
LEMMA PageIs ==
    ASSUME NEW r \in Readers, Missed(r) \subseteq 1..MaxSeq
    PROVE  /\ Page(r) \subseteq Missed(r)
           /\ \A n \in Page(r), m \in Missed(r) : m <= n => m \in Page(r)
           /\ Cardinality(Page(r)) < PageSize => Page(r) = Missed(r)
           /\ ~(Cardinality(Page(r)) < PageSize) =>
                 /\ Highest(Page(r)) \in Page(r)
                 /\ \A n \in Page(r) : n <= Highest(Page(r))
                 /\ \A n \in Missed(r) \ Page(r) : n > Highest(Page(r))
<1>1. Page(r) = First(Missed(r), PageSize) /\ PageSize \in Nat \ {0}
  BY DeliveryAssumption DEF Page, First
<1>2. Page(r) \subseteq Missed(r)
  BY DEF Page
<1>3. \A n \in Page(r), m \in Missed(r) : m <= n => m \in Page(r)
  BY <1>1, FirstIsPrefix
<1>4. Cardinality(Page(r)) < PageSize => Page(r) = Missed(r)
  BY <1>1, ShortFirstIsAll
<1>5. ASSUME ~(Cardinality(Page(r)) < PageSize)
      PROVE  /\ Highest(Page(r)) \in Page(r)
             /\ \A n \in Page(r) : n <= Highest(Page(r))
             /\ \A n \in Missed(r) \ Page(r) : n > Highest(Page(r))
  <2>1. Page(r) \subseteq 1..MaxSeq /\ Page(r) \subseteq 0..MaxSeq
    BY <1>2, NumbersAreFinite
  <2>2. Page(r) # {}
    BY <1>1, <1>5, FS_EmptySet
  <2>3. /\ Highest(Page(r)) \in Page(r) \cup {0}
        /\ \A n \in Page(r) : n <= Highest(Page(r))
    BY <2>1, HighestIs
  <2>4. Highest(Page(r)) \in Page(r)
    BY <2>1, <2>2, <2>3, LogAssumption
  <2>5. \A n \in Missed(r) \ Page(r) : n > Highest(Page(r))
    BY <1>2, <1>3, <2>4, NumbersAreFinite
  <2>. QED
    BY <2>3, <2>4, <2>5
<1>. QED
  BY <1>2, <1>3, <1>4, <1>5

\* The newest numbers leave out none that is higher.
LEMMA NewestIsSuffix ==
    ASSUME NEW S, S \subseteq 1..MaxSeq, NEW limit \in Nat,
           NEW n \in Newest(S, limit), NEW m \in S, n <= m
    PROVE  m \in Newest(S, limit)
<1>. DEFINE Above(k) == {j \in S : j > k}
<1>0. n \in S /\ S \subseteq Nat
  BY NumbersAreFinite DEF Newest
<1>1. Above(m) \subseteq Above(n) /\ Above(n) \subseteq S
  <2>1. \A j \in S : j > m => j > n
    <3>1. \A j \in S : j \in Int
      BY <1>0
    <3>. QED
      BY <1>0, <3>1
  <2>. QED
    BY <2>1
<1>2. Above(n) \subseteq 1..MaxSeq
  BY <1>1
<1>3. /\ Cardinality(Above(m)) <= Cardinality(Above(n))
      /\ Cardinality(Above(m)) \in Nat /\ Cardinality(Above(n)) \in Nat
  <2>. HIDE DEF Above
  <2>. QED
    BY <1>1, <1>2, NumbersAreFinite
<1>4. Cardinality(Above(n)) < limit
  BY DEF Newest
<1>5. Cardinality(Above(m)) < limit
  BY <1>3, <1>4
<1>. QED
  BY <1>5 DEF Newest

\* If there are fewer of them than the limit allows, they are all.
LEMMA ShortNewestIsAll ==
    ASSUME NEW S, S \subseteq 1..MaxSeq, NEW limit \in Nat,
           Cardinality(Newest(S, limit)) < limit
    PROVE  Newest(S, limit) = S
<1>. DEFINE F == Newest(S, limit)
<1>1. F \subseteq S
  BY DEF Newest
<1>2. SUFFICES ASSUME S \ F # {} PROVE FALSE
  BY <1>1
<1>3. PICK n \in S \ F : \A m \in S \ F : m <= n
  <2>1. S \ F \subseteq 0..MaxSeq /\ MaxSeq \in Nat
    BY NumbersAreFinite, LogAssumption
  <2>. QED
    BY <1>2, <2>1, GreatestExists
<1>4. {m \in S : m > n} = F
  <2>1. ASSUME NEW m \in S, m > n PROVE m \in F
    BY <1>3, <2>1, NumbersAreFinite
  <2>2. ASSUME NEW m \in F PROVE m > n
    <3>1. m \in Nat /\ n \in Nat /\ n \in S
      BY <1>1, <1>3, <2>2, NumbersAreFinite
    <3>2. m <= n => n \in F
      BY <2>2, <3>1, NewestIsSuffix
    <3>. QED
      BY <1>3, <3>1, <3>2
  <2>. QED
    BY <1>1, <2>1, <2>2
<1>. QED
  BY <1>3, <1>4 DEF Newest

\* There are never more of them than the limit allows.
LEMMA NewestIsBounded ==
    ASSUME NEW S, S \subseteq 1..MaxSeq, NEW limit \in Nat
    PROVE  Cardinality(Newest(S, limit)) <= limit
<1>. DEFINE F == Newest(S, limit)
<1>1. F \subseteq S /\ F \subseteq 1..MaxSeq
  BY DEF Newest
<1>2. CASE F = {}
  BY <1>2, FS_EmptySet
<1>3. CASE F # {}
  <2>1. PICK n \in F : \A m \in F : n <= m
    BY <1>1, <1>3, LeastExists, NumbersAreFinite
  <2>2. {m \in S : m > n} = F \ {n}
    <3>1. ASSUME NEW m \in S, m > n PROVE m \in F /\ m # n
      <4>1. m \in Nat /\ n \in Nat
        BY <1>1, <2>1, NumbersAreFinite
      <4>2. n <= m /\ m # n
        BY <3>1, <4>1
      <4>3. m \in F
        BY <2>1, <4>2, NewestIsSuffix
      <4>. QED
        BY <4>2, <4>3
    <3>2. ASSUME NEW m \in F \ {n} PROVE m \in S /\ m > n
      BY <1>1, <2>1, <3>2, NumbersAreFinite
    <3>. QED
      BY <3>1, <3>2
  <2>3. Cardinality(F \ {n}) < limit
    BY <2>1, <2>2 DEF Newest
  <2>4. IsFiniteSet(F) /\ Cardinality(F) \in Nat
    BY <1>1, NumbersAreFinite
  <2>5. Cardinality(F \ {n}) = Cardinality(F) - 1
    <3>. HIDE DEF F
    <3>. QED
      BY <2>1, <2>4, FS_RemoveElement
  <2>. QED
    BY <2>3, <2>4, <2>5
<1>. QED
  BY <1>2, <1>3

\* What a request for the history fetches of the messages below its cursor, and
\* what of it is on the page.
Fetched(S) == Newest(S, Limit + 1)
Items(S) == Newest(Fetched(S), Limit)

\* A page of the history is the newest of the older messages: all of them if no
\* more was fetched than the page holds, and else all that are not below its cursor.
LEMMA HistoryPageIs ==
    ASSUME NEW S, S \subseteq 1..MaxSeq
    PROVE  /\ Items(S) \subseteq S /\ Cardinality(Items(S)) <= Limit
           /\ ~HasMore(Fetched(S)) => Items(S) = S
           /\ HasMore(Fetched(S)) =>
                 /\ NextCursor(Fetched(S), Items(S)) \in Items(S)
                 /\ \A n \in S : n >= NextCursor(Fetched(S), Items(S)) => n \in Items(S)
<1>. DEFINE fetched == Fetched(S)
            items == Items(S)
<1>. fetched = Newest(S, Limit + 1) /\ items = Newest(fetched, Limit)
  BY DEF Fetched, Items
<1>. HIDE DEF fetched, items
<1>0. Limit \in Nat \ {0} /\ Limit + 1 \in Nat
  BY HistoryAssumption
<1>1. items \subseteq fetched /\ fetched \subseteq S
  BY DEF Newest
<1>2. fetched \subseteq 1..MaxSeq /\ items \subseteq 1..MaxSeq
  BY <1>1
<1>3. Cardinality(fetched) \in Nat /\ Cardinality(items) \in Nat /\ IsFiniteSet(fetched)
  BY <1>2, NumbersAreFinite
<1>4. Cardinality(items) <= Limit
  BY <1>0, <1>2, NewestIsBounded
<1>5. ASSUME ~HasMore(fetched) PROVE items = S
  <2>1. Cardinality(fetched) <= Limit
    BY <1>0, <1>3, <1>5 DEF HasMore
  <2>2. fetched = S
    <3>1. Cardinality(Newest(S, Limit + 1)) < Limit + 1
      BY <1>0, <1>3, <2>1
    <3>. QED
      BY <1>0, <3>1, ShortNewestIsAll
  <2>3. CASE Cardinality(items) < Limit
    BY <1>0, <1>2, <2>2, <2>3, ShortNewestIsAll
  <2>4. CASE ~(Cardinality(items) < Limit)
    <3>1. Cardinality(fetched) <= Cardinality(items)
      BY <1>0, <1>3, <2>1, <2>4
    <3>2. Cardinality(items) <= Cardinality(fetched)
      BY <1>1, <1>3, FS_Subset
    <3>3. Cardinality(items) = Cardinality(fetched)
      BY <1>3, <3>1, <3>2
    <3>. QED
      BY <1>1, <1>3, <2>2, <3>3, FS_Subset
  <2>. QED
    BY <2>3, <2>4
<1>6. ASSUME HasMore(fetched)
      PROVE  /\ NextCursor(fetched, items) \in items
             /\ \A n \in S : n >= NextCursor(fetched, items) => n \in items
  <2>1. items # {}
    <3>1. ASSUME items = {} PROVE FALSE
      <4>1. Cardinality(items) = 0 /\ Cardinality(items) < Limit
        BY <1>0, <3>1, FS_EmptySet
      <4>2. fetched = {}
        BY <1>0, <1>2, <3>1, <4>1, ShortNewestIsAll
      <4>. QED
        BY <1>0, <1>6, <4>2, FS_EmptySet DEF HasMore
    <3>. QED
      BY <3>1
  <2>2. \E n \in items : \A m \in items : n <= m
    BY <1>2, <2>1, LeastExists, NumbersAreFinite
  <2>3. NextCursor(fetched, items) \in items
    BY <2>2 DEF NextCursor, Min
  <2>4. ASSUME NEW n \in S, n >= NextCursor(fetched, items) PROVE n \in items
    <3>1. /\ NextCursor(fetched, items) \in Nat /\ n \in Nat
          /\ NextCursor(fetched, items) <= n
      BY <1>2, <2>3, <2>4, NumbersAreFinite
    <3>2. n \in fetched
      BY <1>0, <1>1, <2>3, <3>1, NewestIsSuffix
    <3>. QED
      BY <1>0, <1>2, <2>3, <3>1, <3>2, NewestIsSuffix
  <2>. QED
    BY <2>3, <2>4
<1>. QED
  BY <1>1, <1>4, <1>5, <1>6 DEF fetched, items
-----------------------------------------------------------------------------
(***************************************************************************)
(* 2. Delivery                                                             *)
(*                                                                         *)
(* Above its cursor a socket that joined is sent what is broadcast since,  *)
(* and replays what was committed before.  What says more is that the      *)
(* replay is a prefix of the log: a message that was seen, but is not yet  *)
(* broadcast, was replayed, and so was every lower one that is not late.   *)
(* And live messages are sent in the order of the feed.  So a lower one    *)
(* that is still to come when the socket is lost is late, or the replay    *)
(* had it and was cut short.                                               *)
(***************************************************************************)

\* FeedIsCommitted, as far as it is needed here.
FeedIsOfLog == Fed(feed) \subseteq Seqs(log)

\* Nothing is sent that is not committed, and nothing live that is not broadcast.
SentIsCommitted(r) ==
    /\ seen[r] \cup replay[r] \subseteq Seqs(log)
    /\ Fed(pending[r]) \subseteq Fed(feed)
    /\ cursor[r] \in {0, NoCursor} \cup Seqs(log)
    /\ session[r] = "paging" =>
          /\ cursor[r] # NoCursor /\ cursor[r] <= after[r]
          /\ after[r] \in {cursor[r]} \cup Seqs(log)

\* NoGapAboveCursor of one reader.
NoGap(r) ==
    session[r] # "away" /\ cursor[r] # NoCursor =>
        \A n \in Fed(feed) : n > cursor[r] =>
            \/ n \in seen[r] \cup replay[r] \cup Fed(pending[r]) \cup lost[r]
            \/ session[r] = "paging" /\ n > after[r]

\* The pages that were read have all that was committed in time.
ReadIsReplayed(r) ==
    session[r] = "paging" =>
        \A n \in Seqs(log) \ late : cursor[r] < n /\ n <= after[r] => n \in seen[r] \cup replay[r]

\* What was sent or replayed has every lower message before it that is not late:
\* whatever is lower, if it is not broadcast itself, and what waits live, if it is.
ReplayIsPrefix(r) ==
    session[r] # "away" /\ cursor[r] # NoCursor =>
        \A n \in Seqs(log) \ late : \A c \in seen[r] \cup replay[r] :
            /\ cursor[r] < n /\ n < c
            /\ c \notin Fed(feed) \/ n \in Fed(pending[r])
            => n \in seen[r] \cup replay[r] \/ (session[r] = "paging" /\ n > after[r])

\* What waits behind a higher number is late, since it was broadcast after it.
PendingIsOrdered(r) ==
    \A i, j \in DOMAIN pending[r] :
        i < j /\ pending[r][j] < pending[r][i] => pending[r][j] \in late

\* A message that will be late whenever it is broadcast.
WillBeLate(n) == n \notin Fed(feed) /\ \E m \in Fed(feed) : m > n

\* Below its cursor a client misses only what may be missed.
CursorIsExcused(r) ==
    cursor[r] # NoCursor =>
        \A n \in Seqs(log) : n <= cursor[r] =>
            \/ n \in seen[r] \cup lost[r] \cup overdue[r] \cup skipped[r] \cup late
            \/ WillBeLate(n)

ReaderInv(r) ==
    /\ SentIsCommitted(r)
    /\ NoGap(r)
    /\ ReadIsReplayed(r)
    /\ ReplayIsPrefix(r)
    /\ PendingIsOrdered(r)
    /\ CursorIsExcused(r)

DInv == TypeOK /\ FeedIsOfLog /\ \A r \in Readers : ReaderInv(r)

LEMMA FedIs ==
    ASSUME NEW S, NEW s \in Seq(S)
    PROVE  Fed(s) \subseteq S
<1>1. \A i \in DOMAIN s : s[i] \in S
  OBVIOUS
<1>. QED
  BY <1>1 DEF Fed

\* Numbers are numbers, and so is a cursor that is presented.
LEMMA NumbersAreNumbers ==
    ASSUME TypeOK, NEW r \in Readers
    PROVE  /\ Seqs(log) \subseteq 1..MaxSeq /\ Fed(feed) \subseteq 1..MaxSeq
           /\ Fed(pending[r]) \subseteq 1..MaxSeq
           /\ MaxSeq \in Nat
           /\ \A n \in 1..MaxSeq : n \in Nat /\ n > 0 /\ n <= MaxSeq
           /\ cursor[r] \in 0..MaxSeq \cup {NoCursor} /\ after[r] \in 0..MaxSeq
           /\ cursor[r] # NoCursor => cursor[r] \in Nat
           /\ after[r] \in Nat
           /\ seen[r] \subseteq 1..MaxSeq /\ replay[r] \subseteq 1..MaxSeq
<1>1. Seqs(log) \subseteq 1..MaxSeq
  BY DEF TypeOK, LogTypeOK, Message, Seqs
<1>2. Fed(feed) \subseteq 1..MaxSeq
  BY FedIs DEF TypeOK, LogTypeOK
<1>3. pending[r] \in Seq(1..MaxSeq)
  BY DEF TypeOK
<1>4. Fed(pending[r]) \subseteq 1..MaxSeq
  BY <1>3, FedIs
<1>5. MaxSeq \in Nat /\ \A n \in 1..MaxSeq : n \in Nat /\ n > 0 /\ n <= MaxSeq
  BY LogAssumption
<1>6. /\ cursor[r] \in 0..MaxSeq \cup {NoCursor} /\ after[r] \in 0..MaxSeq
      /\ seen[r] \subseteq 1..MaxSeq /\ replay[r] \subseteq 1..MaxSeq
  BY DEF TypeOK
<1>. QED
  BY <1>1, <1>2, <1>4, <1>5, <1>6

LEMMA MemberOfSeq ==
    ASSUME NEW S, NEW s \in Seq(S), NEW i \in DOMAIN s
    PROVE  s[i] \in S
<1>1. DOMAIN s = 1..Len(s)
  OBVIOUS
<1>. QED
  BY <1>1

LEMMA FedAppend ==
    ASSUME NEW s \in Seq(1..MaxSeq), NEW n \in 1..MaxSeq
    PROVE  Append(s, n) \in Seq(1..MaxSeq) /\ Fed(Append(s, n)) = Fed(s) \cup {n}
<1>1. Append(s, n) \in Seq(1..MaxSeq)
  OBVIOUS
<1>2. /\ DOMAIN s = 1..Len(s) /\ DOMAIN Append(s, n) = 1..(Len(s) + 1) /\ Len(s) \in Nat
      /\ Append(s, n)[Len(s) + 1] = n
      /\ \A i \in DOMAIN s : Append(s, n)[i] = s[i]
  OBVIOUS
<1>. QED
  BY <1>1, <1>2 DEF Fed

LEMMA FedTail ==
    ASSUME NEW S, NEW s \in Seq(S), s # <<>>
    PROVE  /\ Head(s) \in S /\ Tail(s) \in Seq(S)
           /\ Fed(s) = Fed(Tail(s)) \cup {Head(s)}
<1>1. Head(s) \in S /\ Tail(s) \in Seq(S)
  OBVIOUS
<1>2. /\ DOMAIN s = 1..Len(s) /\ Len(s) \in Nat /\ Len(s) > 0
      /\ DOMAIN Tail(s) = 1..(Len(s) - 1)
      /\ Head(s) = s[1]
      /\ \A i \in 1..(Len(s) - 1) : Tail(s)[i] = s[i + 1]
  OBVIOUS
<1>3. Fed(s) \subseteq Fed(Tail(s)) \cup {Head(s)}
  <2>1. ASSUME NEW i \in DOMAIN s PROVE s[i] \in Fed(Tail(s)) \cup {Head(s)}
    <3>1. CASE i = 1
      BY <1>2, <3>1
    <3>2. CASE i # 1
      <4>1. i - 1 \in 1..(Len(s) - 1) /\ Tail(s)[i - 1] = s[i]
        BY <1>2, <3>2
      <4>. QED
        BY <1>2, <4>1 DEF Fed
    <3>. QED
      BY <3>1, <3>2
  <2>. QED
    BY <2>1 DEF Fed
<1>4. Fed(Tail(s)) \cup {Head(s)} \subseteq Fed(s)
  <2>1. Head(s) \in Fed(s)
    BY <1>2 DEF Fed
  <2>2. \A i \in DOMAIN Tail(s) : i + 1 \in DOMAIN s /\ Tail(s)[i] = s[i + 1]
    BY <1>2
  <2>. QED
    BY <2>1, <2>2 DEF Fed
<1>. QED
  BY <1>1, <1>3, <1>4

LEMMA DeliveryInit == Init => DInv
<1>. SUFFICES ASSUME Init PROVE DInv
  OBVIOUS
<1>1. TypeOK
  BY LogAssumption DEF Init, TypeOK, LogInit, LogTypeOK, Session
<1>2. Fed(feed) = {} /\ Seqs(log) = {}
  BY DEF Init, LogInit, Fed, Seqs
<1>3. ASSUME NEW r \in Readers PROVE ReaderInv(r)
  <2>1. Fed(pending[r]) = {} /\ seen[r] = {} /\ replay[r] = {} /\ session[r] = "away"
        /\ cursor[r] \in {0, NoCursor} /\ pending[r] = <<>>
    BY DEF Init, Fed
  <2>2. PendingIsOrdered(r)
    BY <2>1 DEF PendingIsOrdered
  <2>. QED
    BY <1>2, <2>1, <2>2 DEF ReaderInv, SentIsCommitted, NoGap, ReadIsReplayed, ReplayIsPrefix,
       CursorIsExcused
<1>. QED
  BY <1>1, <1>2, <1>3 DEF DInv, FeedIsOfLog

\* A reader that a step leaves alone keeps what it had.
LEMMA ReaderUntouched ==
    ASSUME NEW r \in Readers, ReaderInv(r), UNCHANGED <<log, feed, late>>,
           session'[r] = session[r], cursor'[r] = cursor[r], after'[r] = after[r],
           replay'[r] = replay[r], pending'[r] = pending[r], seen'[r] = seen[r],
           lost'[r] = lost[r], overdue'[r] = overdue[r], skipped'[r] = skipped[r]
    PROVE  ReaderInv(r)'
<1>1. Fed(feed)' = Fed(feed) /\ Seqs(log)' = Seqs(log) /\ Fed(pending[r])' = Fed(pending[r])
  BY DEF Fed, Seqs
<1>. QED
  BY <1>1 DEF ReaderInv, SentIsCommitted, NoGap, ReadIsReplayed, ReplayIsPrefix, PendingIsOrdered,
     CursorIsExcused, WillBeLate

\* What a write does to the log: one number more, which is late if it is not the
\* highest.
LEMMA WriteIs ==
    ASSUME DInv, NEW seq \in 1..MaxSeq, Write(seq)
    PROVE  /\ TypeOK'
           /\ Seqs(log)' = Seqs(log) \cup {seq} /\ seq \notin Seqs(log)
           /\ UNCHANGED <<feed, session, cursor, after, replay, pending, seen, lost, overdue, skipped>>
           /\ late \subseteq late'
           /\ (\E n \in Seqs(log) : n > seq) => seq \in late'
<1>1. PICK sender \in Users, k \in Keys \cup {NoKey} : Post(seq, sender, k)
  BY DEF Write
<1>2. log' = log \cup {UserMessage(seq, sender, k)} /\ seq \notin Seqs(log) /\ UNCHANGED feed
  BY <1>1 DEF Post, Fresh
<1>3. UserMessage(seq, sender, k) \in Message /\ UserMessage(seq, sender, k).seq = seq
  BY LogAssumption DEF UserMessage, Message
<1>4. Seqs(log)' = Seqs(log) \cup {seq}
  BY <1>2, <1>3 DEF Seqs
<1>5. late' = LateAmong(seq, Seqs(log))
  BY DEF Write
<1>6. late \subseteq late' /\ ((\E n \in Seqs(log) : n > seq) => seq \in late')
      /\ late' \subseteq late \cup {seq}
  BY <1>5 DEF LateAmong
<1>7. UNCHANGED <<session, cursor, after, replay, pending, seen, lost, overdue, skipped>>
  BY DEF Write, readerVars
<1>8. TypeOK'
  BY <1>2, <1>3, <1>6, <1>7 DEF DInv, TypeOK, LogTypeOK
<1>. QED
  BY <1>2, <1>4, <1>6, <1>7, <1>8

\* A write below a cursor, or below what was replayed, is late.
LEMMA WriteKeeps ==
    ASSUME DInv, NEW seq \in 1..MaxSeq, Write(seq)
    PROVE  DInv'
<1>1. /\ TypeOK'
      /\ Seqs(log)' = Seqs(log) \cup {seq} /\ seq \notin Seqs(log)
      /\ UNCHANGED <<feed, session, cursor, after, replay, pending, seen, lost, overdue, skipped>>
      /\ late \subseteq late'
      /\ (\E n \in Seqs(log) : n > seq) => seq \in late'
  BY WriteIs
<1>2. Fed(feed)' = Fed(feed)
  BY <1>1 DEF Fed
<1>3. FeedIsOfLog'
  BY <1>1, <1>2 DEF DInv, FeedIsOfLog
<1>4. ASSUME NEW r \in Readers PROVE ReaderInv(r)'
  <2>1. /\ Seqs(log) \subseteq 1..MaxSeq /\ Fed(feed) \subseteq 1..MaxSeq
        /\ \A n \in 1..MaxSeq : n \in Nat /\ n > 0
        /\ cursor[r] # NoCursor => cursor[r] \in Nat
        /\ after[r] \in Nat
    BY NumbersAreNumbers DEF DInv
  <2>2. ReaderInv(r)
    BY DEF DInv
  <2>3. Fed(pending[r])' = Fed(pending[r])
    BY <1>1 DEF Fed
  <2>4. SentIsCommitted(r)'
    BY <1>1, <1>2, <2>2, <2>3 DEF ReaderInv, SentIsCommitted
  <2>5. NoGap(r)'
    BY <1>1, <1>2, <2>2, <2>3 DEF ReaderInv, NoGap
  <2>6. ReadIsReplayed(r)'
    <3>1. ASSUME session[r] = "paging", cursor[r] < seq, seq <= after[r] PROVE seq \in late'
      <4>1. after[r] \in Seqs(log) /\ after[r] # seq
        BY <1>1, <2>1, <2>2, <3>1 DEF ReaderInv, SentIsCommitted
      <4>. QED
        BY <1>1, <2>1, <3>1, <4>1
    <3>. QED
      BY <1>1, <2>2, <3>1 DEF ReaderInv, ReadIsReplayed
  <2>7. ReplayIsPrefix(r)'
    <3>1. ASSUME NEW c \in seen[r] \cup replay[r], seq < c PROVE seq \in late'
      <4>1. c \in Seqs(log) /\ c > seq
        BY <2>1, <2>2, <3>1 DEF ReaderInv, SentIsCommitted
      <4>. QED
        BY <1>1, <4>1
    <3>. QED
      BY <1>1, <1>2, <2>2, <2>3, <3>1 DEF ReaderInv, ReplayIsPrefix
  <2>8. PendingIsOrdered(r)'
    BY <1>1, <2>2 DEF ReaderInv, PendingIsOrdered
  <2>9. CursorIsExcused(r)'
    <3>1. ASSUME cursor[r] # NoCursor, seq <= cursor[r] PROVE seq \in late'
      <4>1. cursor[r] \in Seqs(log) /\ cursor[r] # seq
        BY <1>1, <2>1, <2>2, <3>1 DEF ReaderInv, SentIsCommitted
      <4>. QED
        BY <1>1, <2>1, <3>1, <4>1
    <3>. QED
      BY <1>1, <1>2, <2>2, <3>1 DEF ReaderInv, CursorIsExcused, WillBeLate
  <2>. QED
    BY <2>4, <2>5, <2>6, <2>7, <2>8, <2>9 DEF ReaderInv
<1>. QED
  BY <1>1, <1>3, <1>4 DEF DInv

\* What a broadcast does: the feed has one number more, and so has each socket that
\* joined, or the record of what an outage lost there.
LEMMA BroadcastIs ==
    ASSUME DInv, NEW m \in log, NEW cutOff \in SUBSET Readers, Broadcast(m, cutOff)
    PROVE  /\ TypeOK'
           /\ m.seq \in Seqs(log) \ Fed(feed) /\ Fed(feed)' = Fed(feed) \cup {m.seq}
           /\ UNCHANGED <<log, session, cursor, after, replay, seen, overdue, skipped>>
           /\ late \subseteq late'
           /\ (\E n \in Fed(feed) : n > m.seq) => m.seq \in late'
           /\ \A r \in Readers :
                 \/ /\ session[r] # "away" /\ lost'[r] = lost[r]
                    /\ pending'[r] = Append(pending[r], m.seq)
                    /\ Fed(pending[r])' = Fed(pending[r]) \cup {m.seq}
                 \/ /\ session[r] # "away" /\ lost'[r] = lost[r] \cup {m.seq}
                    /\ pending'[r] = pending[r] /\ Fed(pending[r])' = Fed(pending[r])
                 \/ /\ session[r] = "away" /\ lost'[r] = lost[r]
                    /\ pending'[r] = pending[r] /\ Fed(pending[r])' = Fed(pending[r])
<1>0. m.seq \in Seqs(log) /\ m.seq \in 1..MaxSeq /\ TypeOK
  BY DEF DInv, TypeOK, LogTypeOK, Message, Seqs
<1>1. /\ m.seq \notin Fed(feed) /\ feed' = Append(feed, m.seq) /\ UNCHANGED log
      /\ late' = LateAmong(m.seq, Fed(feed))
      /\ UNCHANGED <<session, cursor, after, replay, seen, overdue, skipped>>
  BY DEF Broadcast, Announce
<1>2. feed' \in Seq(1..MaxSeq) /\ Fed(feed)' = Fed(feed) \cup {m.seq}
  <2>1. feed \in Seq(1..MaxSeq)
    BY <1>0 DEF TypeOK, LogTypeOK
  <2>2. /\ Append(feed, m.seq) \in Seq(1..MaxSeq)
        /\ Fed(Append(feed, m.seq)) = Fed(feed) \cup {m.seq}
    BY <1>0, <2>1, FedAppend
  <2>3. Fed(feed)' = Fed(Append(feed, m.seq))
    BY <1>1 DEF Fed
  <2>. QED
    BY <1>1, <2>2, <2>3
<1>3. /\ late \subseteq late' /\ late' \subseteq late \cup {m.seq}
      /\ (\E n \in Fed(feed) : n > m.seq) => m.seq \in late'
  BY <1>1 DEF LateAmong
<1>4. /\ pending' = [r \in Readers |-> IF Joined(r) /\ r \notin cutOff
                                         THEN Append(pending[r], m.seq) ELSE pending[r]]
      /\ lost' = [r \in Readers |-> IF Joined(r) /\ r \in cutOff
                                      THEN lost[r] \cup {m.seq} ELSE lost[r]]
  BY DEF Broadcast
<1>5. \A r \in Readers : /\ Append(pending[r], m.seq) \in Seq(1..MaxSeq)
                         /\ Fed(Append(pending[r], m.seq)) = Fed(pending[r]) \cup {m.seq}
  <2>1. \A r \in Readers : pending[r] \in Seq(1..MaxSeq)
    BY <1>0 DEF TypeOK
  <2>. QED
    BY <1>0, <2>1, FedAppend
<1>6. pending' \in [Readers -> Seq(1..MaxSeq)]
  BY <1>0, <1>4, <1>5 DEF TypeOK
<1>7. lost' \in [Readers -> SUBSET (1..MaxSeq)]
  BY <1>0, <1>4 DEF TypeOK
<1>8. TypeOK'
  BY <1>0, <1>1, <1>2, <1>3, <1>6, <1>7 DEF TypeOK, LogTypeOK
<1>9. ASSUME NEW r \in Readers
      PROVE  \/ /\ session[r] # "away" /\ lost'[r] = lost[r]
                /\ pending'[r] = Append(pending[r], m.seq)
                /\ Fed(pending[r])' = Fed(pending[r]) \cup {m.seq}
             \/ /\ session[r] # "away" /\ lost'[r] = lost[r] \cup {m.seq}
                /\ pending'[r] = pending[r] /\ Fed(pending[r])' = Fed(pending[r])
             \/ /\ session[r] = "away" /\ lost'[r] = lost[r]
                /\ pending'[r] = pending[r] /\ Fed(pending[r])' = Fed(pending[r])
  <2>1. CASE ~Joined(r)
    <3>1. session[r] = "away" /\ lost'[r] = lost[r] /\ pending'[r] = pending[r]
      BY <1>4, <2>1 DEF Joined
    <3>. QED
      BY <3>1 DEF Fed
  <2>2. CASE Joined(r) /\ r \in cutOff
    <3>1. session[r] # "away" /\ lost'[r] = lost[r] \cup {m.seq} /\ pending'[r] = pending[r]
      BY <1>4, <2>2 DEF Joined
    <3>. QED
      BY <3>1 DEF Fed
  <2>3. CASE Joined(r) /\ r \notin cutOff
    <3>1. session[r] # "away" /\ lost'[r] = lost[r] /\ pending'[r] = Append(pending[r], m.seq)
      BY <1>4, <2>3 DEF Joined
    <3>2. Fed(pending[r])' = Fed(Append(pending[r], m.seq))
      BY <3>1 DEF Fed
    <3>. QED
      BY <1>5, <3>1, <3>2
  <2>. QED
    BY <2>1, <2>2, <2>3
<1>. QED
  BY <1>0, <1>1, <1>2, <1>3, <1>8, <1>9

\* What is appended to the live messages, and is not late, is above all of them.
LEMMA AppendKeepsOrder ==
    ASSUME TypeOK, NEW r \in Readers, NEW n \in 1..MaxSeq,
           PendingIsOrdered(r), Fed(pending[r]) \subseteq Fed(feed), late \subseteq late',
           (\E k \in Fed(feed) : k > n) => n \in late',
           pending'[r] = Append(pending[r], n)
    PROVE  PendingIsOrdered(r)'
<1>1. pending[r] \in Seq(1..MaxSeq)
  BY DEF TypeOK
<1>2. ASSUME NEW s \in Seq(1..MaxSeq), NEW i \in DOMAIN Append(s, n), NEW j \in DOMAIN Append(s, n),
             s = pending[r], i < j, Append(s, n)[j] < Append(s, n)[i]
      PROVE  Append(s, n)[j] \in late'
  <2>1. /\ DOMAIN s = 1..Len(s) /\ DOMAIN Append(s, n) = 1..(Len(s) + 1) /\ Len(s) \in Nat
        /\ Append(s, n)[Len(s) + 1] = n
        /\ \A k \in DOMAIN s : Append(s, n)[k] = s[k]
    OBVIOUS
  <2>2. i \in DOMAIN s
    BY <1>2, <2>1
  <2>3. CASE j \in DOMAIN s
    <3>1. s[j] < s[i]
      BY <1>2, <2>1, <2>2, <2>3
    <3>2. s[j] \in late
      BY <1>2, <2>2, <2>3, <3>1 DEF PendingIsOrdered
    <3>. QED
      BY <2>1, <2>3, <3>2
  <2>4. CASE j = Len(s) + 1
    <3>1. n < s[i]
      BY <1>2, <2>1, <2>2, <2>4
    <3>2. s[i] \in 1..MaxSeq
      BY <2>2, MemberOfSeq
    <3>3. s[i] > n
      BY <3>1, <3>2, LogAssumption
    <3>4. s[i] \in Fed(feed)
      BY <1>2, <2>2 DEF Fed
    <3>. QED
      BY <2>1, <2>4, <3>3, <3>4
  <2>. QED
    BY <2>1, <2>3, <2>4
<1>. QED
  BY <1>1, <1>2 DEF PendingIsOrdered

\* Once the first is sent, the others are in order, and the lower ones late.
LEMMA TailKeepsOrder ==
    ASSUME TypeOK, NEW r \in Readers, PendingIsOrdered(r), pending[r] # <<>>,
           pending'[r] = Tail(pending[r]), late' = late
    PROVE  /\ PendingIsOrdered(r)'
           /\ \A n \in Fed(Tail(pending[r])) : n < Head(pending[r]) => n \in late
<1>. DEFINE s == pending[r]
<1>1. /\ s \in Seq(1..MaxSeq) /\ DOMAIN s = 1..Len(s) /\ Len(s) \in Nat /\ Len(s) > 0
      /\ DOMAIN Tail(s) = 1..(Len(s) - 1) /\ Head(s) = s[1]
      /\ \A i \in 1..(Len(s) - 1) : Tail(s)[i] = s[i + 1] /\ i + 1 \in DOMAIN s /\ 1 < i + 1
  BY DEF TypeOK
<1>2. PendingIsOrdered(r)'
  <2>1. \A i, j \in 1..(Len(s) - 1) : i < j => i + 1 < j + 1
    BY <1>1
  <2>. QED
    BY <1>1, <2>1 DEF PendingIsOrdered
<1>3. ASSUME NEW i \in 1..(Len(s) - 1), Tail(s)[i] < Head(s) PROVE Tail(s)[i] \in late
  BY <1>1, <1>3 DEF PendingIsOrdered
<1>. QED
  BY <1>1, <1>2, <1>3 DEF Fed

\* A message that could only be late is late, and one that goes to a socket is on
\* its way there.
LEMMA BroadcastKeeps ==
    ASSUME DInv, NEW m \in log, NEW cutOff \in SUBSET Readers, Broadcast(m, cutOff)
    PROVE  DInv'
<1>1. /\ TypeOK'
      /\ m.seq \in Seqs(log) \ Fed(feed) /\ Fed(feed)' = Fed(feed) \cup {m.seq}
      /\ UNCHANGED <<log, session, cursor, after, replay, seen, overdue, skipped>>
      /\ late \subseteq late'
      /\ (\E n \in Fed(feed) : n > m.seq) => m.seq \in late'
  BY BroadcastIs
<1>2. Seqs(log)' = Seqs(log)
  BY <1>1 DEF Seqs
<1>3. FeedIsOfLog'
  BY <1>1, <1>2 DEF DInv, FeedIsOfLog
<1>4. ASSUME NEW r \in Readers PROVE ReaderInv(r)'
  <2>1. /\ session[r] # "away" =>
              m.seq \in Fed(pending[r])' \cup lost'[r]
        /\ Fed(pending[r]) \subseteq Fed(pending[r])' /\ lost[r] \subseteq lost'[r]
        /\ Fed(pending[r])' \subseteq Fed(pending[r]) \cup {m.seq}
    BY BroadcastIs
  <2>2. ReaderInv(r)
    BY DEF DInv
  <2>3. SentIsCommitted(r)'
    BY <1>1, <1>2, <2>1, <2>2 DEF ReaderInv, SentIsCommitted
  <2>4. NoGap(r)'
    BY <1>1, <2>1, <2>2 DEF ReaderInv, NoGap
  <2>5. ReadIsReplayed(r)'
    BY <1>1, <1>2, <2>2 DEF ReaderInv, ReadIsReplayed
  <2>6. ReplayIsPrefix(r)'
    <3>1. ASSUME NEW c \in seen[r] \cup replay[r], m.seq < c, c \in Fed(feed) PROVE m.seq \in late'
      <4>1. c > m.seq
        BY <1>4, <3>1, NumbersAreNumbers DEF DInv
      <4>. QED
        BY <1>1, <3>1, <4>1
    <3>. QED
      BY <1>1, <1>2, <2>1, <2>2, <3>1 DEF ReaderInv, ReplayIsPrefix
  <2>7. PendingIsOrdered(r)'
    <3>1. CASE pending'[r] = pending[r]
      BY <1>1, <2>2, <3>1 DEF ReaderInv, PendingIsOrdered
    <3>2. CASE pending'[r] = Append(pending[r], m.seq)
      <4>1. TypeOK /\ PendingIsOrdered(r)
        BY <2>2 DEF ReaderInv, DInv
      <4>2. m.seq \in 1..MaxSeq
        BY <4>1 DEF TypeOK, LogTypeOK, Message
      <4>3. Fed(pending[r]) \subseteq Fed(feed)
        BY <2>2 DEF ReaderInv, SentIsCommitted
      <4>. QED
        BY <1>1, <3>2, <4>1, <4>2, <4>3, AppendKeepsOrder
    <3>. QED
      BY <3>1, <3>2, BroadcastIs
  <2>8. CursorIsExcused(r)'
    <3>1. ASSUME NEW n, WillBeLate(n) PROVE n \in late' \/ WillBeLate(n)'
      BY <1>1, <3>1 DEF WillBeLate
    <3>. QED
      BY <1>1, <1>2, <2>1, <2>2, <3>1 DEF ReaderInv, CursorIsExcused
  <2>. QED
    BY <2>3, <2>4, <2>5, <2>6, <2>7, <2>8 DEF ReaderInv
<1>. QED
  BY <1>1, <1>3, <1>4 DEF DInv

\* The steps of one reader leave log, feed and the other readers alone.
OnlyReader(r) ==
    /\ UNCHANGED <<log, feed, late>>
    /\ \A q \in Readers \ {r} :
          /\ session'[q] = session[q] /\ cursor'[q] = cursor[q] /\ after'[q] = after[q]
          /\ replay'[q] = replay[q] /\ pending'[q] = pending[q] /\ seen'[q] = seen[q]
          /\ lost'[q] = lost[q] /\ overdue'[q] = overdue[q] /\ skipped'[q] = skipped[q]

LEMMA OneReaderKeeps ==
    ASSUME DInv, NEW r \in Readers, OnlyReader(r), TypeOK', ReaderInv(r)'
    PROVE  DInv'
<1>1. FeedIsOfLog'
  BY DEF DInv, FeedIsOfLog, OnlyReader, Fed, Seqs
<1>2. ASSUME NEW q \in Readers \ {r} PROVE ReaderInv(q)'
  <2>1. ReaderInv(q)
    BY DEF DInv
  <2>. QED
    BY <2>1, ReaderUntouched DEF OnlyReader
<1>. QED
  BY <1>1, <1>2 DEF DInv

\* A socket that joins has all above its cursor still before it.
LEMMA ConnectKeeps ==
    ASSUME DInv, NEW r \in Readers, Connect(r)
    PROVE  DInv'
<1>0. TypeOK /\ ReaderInv(r)
  BY DEF DInv
<1>1. /\ OnlyReader(r)
      /\ UNCHANGED <<log, feed, cursor, replay, pending, seen, skipped, late>>
      /\ overdue' = [overdue EXCEPT ![r] = @ \cup lost[r]]
      /\ lost' = [lost EXCEPT ![r] = {}]
  BY <1>0 DEF Connect, OnlyReader, TypeOK
<1>2. overdue'[r] = overdue[r] \cup lost[r]
  BY <1>0, <1>1 DEF TypeOK
<1>3. \/ cursor[r] = NoCursor /\ session' = [session EXCEPT ![r] = "streaming"] /\ after' = after
      \/ /\ cursor[r] # NoCursor /\ session' = [session EXCEPT ![r] = "paging"]
         /\ after' = [after EXCEPT ![r] = cursor[r]]
  BY DEF Connect
<1>4. \/ cursor[r] = NoCursor /\ session'[r] = "streaming"
      \/ cursor[r] # NoCursor /\ session'[r] = "paging" /\ after'[r] = cursor[r]
  BY <1>0, <1>3 DEF TypeOK
<1>5. cursor[r] # NoCursor => cursor[r] \in 0..MaxSeq /\ cursor[r] \in Nat
  BY <1>0, NumbersAreNumbers DEF TypeOK
<1>6. after' \in [Readers -> 0..MaxSeq] /\ session' \in [Readers -> Session]
  BY <1>0, <1>3, <1>5 DEF TypeOK, Session
<1>7. TypeOK'
  <2>1. overdue' \in [Readers -> SUBSET (1..MaxSeq)] /\ lost' \in [Readers -> SUBSET (1..MaxSeq)]
    BY <1>0, <1>1 DEF TypeOK
  <2>. QED
    BY <1>0, <1>1, <1>6, <2>1 DEF TypeOK, LogTypeOK
<1>8. /\ Fed(feed)' = Fed(feed) /\ Seqs(log)' = Seqs(log) /\ Fed(pending[r])' = Fed(pending[r])
      /\ \A n \in Seqs(log) \cup Fed(feed) : n \in Nat
  BY <1>0, <1>1, NumbersAreNumbers DEF Fed, Seqs
<1>9. ReaderInv(r)'
  <2>1. SentIsCommitted(r)'
    BY <1>0, <1>1, <1>4, <1>5, <1>8 DEF ReaderInv, SentIsCommitted
  <2>2. NoGap(r)' /\ ReplayIsPrefix(r)'
    BY <1>1, <1>4, <1>8 DEF NoGap, ReplayIsPrefix
  <2>3. ReadIsReplayed(r)'
    BY <1>1, <1>4, <1>5, <1>8 DEF ReadIsReplayed
  <2>4. PendingIsOrdered(r)'
    BY <1>0, <1>1 DEF ReaderInv, PendingIsOrdered
  <2>5. CursorIsExcused(r)'
    <3>1. lost[r] \subseteq overdue'[r] /\ overdue[r] \subseteq overdue'[r]
      BY <1>2
    <3>. QED
      BY <1>0, <1>1, <1>8, <3>1 DEF ReaderInv, CursorIsExcused, WillBeLate
  <2>. QED
    BY <2>1, <2>2, <2>3, <2>4, <2>5 DEF ReaderInv
<1>. QED
  BY <1>1, <1>7, <1>9, OneReaderKeeps

\* A page has what comes next in the log, and the next page begins where it ends.
LEMMA ReadPageKeeps ==
    ASSUME DInv, NEW r \in Readers, ReadPage(r)
    PROVE  DInv'
<1>0. TypeOK /\ ReaderInv(r) /\ FeedIsOfLog
  BY DEF DInv
<1>1. /\ Seqs(log) \subseteq 1..MaxSeq /\ Fed(feed) \subseteq 1..MaxSeq
      /\ \A n \in 1..MaxSeq : n \in Nat /\ n > 0
      /\ after[r] \in Nat /\ after[r] \in 0..MaxSeq /\ MaxSeq \in Nat
      /\ cursor[r] # NoCursor => cursor[r] \in Nat
  BY <1>0, NumbersAreNumbers
<1>2. /\ session[r] = "paging"
      /\ OnlyReader(r)
      /\ UNCHANGED <<log, feed, cursor, pending, seen, lost, overdue, skipped, late>>
      /\ replay' = [replay EXCEPT ![r] = @ \cup Page(r)]
  BY <1>0 DEF ReadPage, OnlyReader, TypeOK
<1>3. Missed(r) = {n \in Seqs(log) : n > after[r]} /\ Missed(r) \subseteq 1..MaxSeq
  BY <1>1 DEF Missed
<1>4. /\ Page(r) \subseteq Missed(r)
      /\ \A n \in Page(r), m \in Missed(r) : m <= n => m \in Page(r)
      /\ Cardinality(Page(r)) < PageSize => Page(r) = Missed(r)
      /\ ~(Cardinality(Page(r)) < PageSize) =>
            /\ Highest(Page(r)) \in Page(r)
            /\ \A n \in Page(r) : n <= Highest(Page(r))
            /\ \A n \in Missed(r) \ Page(r) : n > Highest(Page(r))
  BY <1>3, PageIs
<1>5. \/ /\ Page(r) = Missed(r)
         /\ session' = [session EXCEPT ![r] = "streaming"]
         /\ after' = [after EXCEPT ![r] = 0]
      \/ /\ Highest(Page(r)) \in Page(r)
         /\ \A n \in Missed(r) \ Page(r) : n > Highest(Page(r))
         /\ \A n \in Page(r) : n <= Highest(Page(r))
         /\ session' = session
         /\ after' = [after EXCEPT ![r] = Highest(Page(r))]
  BY <1>4 DEF ReadPage
<1>6. Page(r) \subseteq Seqs(log) /\ \A n \in Page(r) : n > after[r] /\ n \in 0..MaxSeq
  BY <1>1, <1>3, <1>4
<1>7. /\ replay'[r] = replay[r] \cup Page(r)
      /\ \/ Page(r) = Missed(r) /\ session'[r] = "streaming"
         \/ /\ Highest(Page(r)) \in Page(r)
            /\ \A n \in Missed(r) \ Page(r) : n > Highest(Page(r))
            /\ \A n \in Page(r) : n <= Highest(Page(r))
            /\ session'[r] = "paging" /\ after'[r] = Highest(Page(r))
  BY <1>0, <1>2, <1>5 DEF TypeOK
<1>8. TypeOK'
  <2>1. replay' \in [Readers -> SUBSET (1..MaxSeq)]
    BY <1>0, <1>1, <1>2, <1>6 DEF TypeOK
  <2>2. session' \in [Readers -> Session]
    BY <1>0, <1>5 DEF TypeOK, Session
  <2>3. PICK a \in 0..MaxSeq : after' = [after EXCEPT ![r] = a]
    BY <1>1, <1>5, <1>6
  <2>4. after' \in [Readers -> 0..MaxSeq]
    BY <1>0, <2>3 DEF TypeOK
  <2>. QED
    BY <1>0, <1>2, <2>1, <2>2, <2>4 DEF TypeOK, LogTypeOK
<1>9. Fed(feed)' = Fed(feed) /\ Seqs(log)' = Seqs(log) /\ Fed(pending[r])' = Fed(pending[r])
  BY <1>2 DEF Fed, Seqs
<1>10. cursor[r] # NoCursor /\ cursor[r] \in Nat /\ cursor[r] <= after[r]
  BY <1>0, <1>1, <1>2 DEF ReaderInv, SentIsCommitted
\* What is above the cursor is now replayed, or above where the next page begins.
<1>11. ASSUME NEW n \in Seqs(log), n > after[r]
       PROVE  n \in replay'[r] \/ (session'[r] = "paging" /\ n > after'[r])
  BY <1>3, <1>7, <1>11
<1>12. ASSUME NEW n \in Seqs(log) \ late, cursor[r] < n, n <= after[r]
       PROVE  n \in seen[r] \cup replay[r]
  BY <1>0, <1>2, <1>12 DEF ReaderInv, ReadIsReplayed
<1>13. ReaderInv(r)'
  <2>1. SentIsCommitted(r)'
    <3>1. session'[r] = "paging" => cursor[r] <= after'[r] /\ after'[r] \in Seqs(log)
      BY <1>1, <1>6, <1>7, <1>10
    <3>2. seen[r] \cup replay'[r] \subseteq Seqs(log)
      BY <1>0, <1>6, <1>7 DEF ReaderInv, SentIsCommitted
    <3>. QED
      BY <1>0, <1>2, <1>9, <1>10, <3>1, <3>2 DEF ReaderInv, SentIsCommitted
  <2>2. NoGap(r)'
    <3>1. ASSUME NEW n \in Fed(feed), n > cursor[r]
          PROVE  \/ n \in seen[r] \cup replay'[r] \cup Fed(pending[r]) \cup lost[r]
                 \/ session'[r] = "paging" /\ n > after'[r]
      <4>1. CASE n \in seen[r] \cup replay[r] \cup Fed(pending[r]) \cup lost[r]
        BY <1>7, <4>1
      <4>2. CASE n > after[r]
        BY <1>0, <1>11, <4>2 DEF FeedIsOfLog
      <4>. QED
        BY <1>0, <1>2, <1>10, <3>1, <4>1, <4>2 DEF ReaderInv, NoGap
    <3>. QED
      BY <1>2, <1>9, <3>1 DEF NoGap
  <2>3. ReadIsReplayed(r)'
    <3>1. ASSUME session'[r] = "paging", NEW n \in Seqs(log) \ late,
                 cursor[r] < n, n <= after'[r]
          PROVE  n \in seen[r] \cup replay'[r]
      <4>1. n \in Nat /\ after'[r] \in Nat
        BY <1>1, <1>6, <1>7, <3>1
      <4>2. CASE n > after[r]
        BY <1>11, <3>1, <4>1, <4>2
      <4>3. CASE n <= after[r]
        BY <1>7, <1>12, <3>1, <4>3
      <4>. QED
        BY <1>1, <4>1, <4>2, <4>3
    <3>. QED
      BY <1>2, <1>9, <3>1 DEF ReadIsReplayed
  <2>4. ReplayIsPrefix(r)'
    <3>1. ASSUME NEW n \in Seqs(log) \ late, cursor[r] < n
          PROVE  n \in seen[r] \cup replay'[r] \/ (session'[r] = "paging" /\ n > after'[r])
      <4>1. n \in Nat
        BY <1>1
      <4>2. CASE n > after[r]
        BY <1>11, <4>2
      <4>3. CASE n <= after[r]
        BY <1>7, <1>12, <3>1, <4>3
      <4>. QED
        BY <1>1, <4>1, <4>2, <4>3
    <3>. QED
      BY <1>2, <1>9, <3>1 DEF ReplayIsPrefix
  <2>5. PendingIsOrdered(r)'
    BY <1>0, <1>2 DEF ReaderInv, PendingIsOrdered
  <2>6. CursorIsExcused(r)'
    BY <1>0, <1>2, <1>9 DEF ReaderInv, CursorIsExcused, WillBeLate
  <2>. QED
    BY <2>1, <2>2, <2>3, <2>4, <2>5, <2>6 DEF ReaderInv
<1>. QED
  BY <1>2, <1>8, <1>13, OneReaderKeeps

\* A replayed message that is sent was to be sent.
LEMMA SendReplayedKeeps ==
    ASSUME DInv, NEW r \in Readers, SendReplayed(r)
    PROVE  DInv'
<1>0. TypeOK /\ ReaderInv(r)
  BY DEF DInv
<1>1. PICK n \in replay[r] : /\ replay' = [replay EXCEPT ![r] = @ \ {n}]
                             /\ seen' = [seen EXCEPT ![r] = @ \cup {n}]
  BY DEF SendReplayed
<1>2. UNCHANGED <<log, feed, session, cursor, after, pending, lost, overdue, skipped, late>>
  BY DEF SendReplayed
<1>3. OnlyReader(r)
  BY <1>0, <1>1, <1>2 DEF OnlyReader, TypeOK
<1>4. /\ replay'[r] = replay[r] \ {n} /\ seen'[r] = seen[r] \cup {n}
      /\ n \in 1..MaxSeq
  BY <1>0, <1>1 DEF TypeOK
<1>5. TypeOK'
  <2>1. seen' \in [Readers -> SUBSET (1..MaxSeq)] /\ replay' \in [Readers -> SUBSET (1..MaxSeq)]
    BY <1>0, <1>1, <1>4 DEF TypeOK
  <2>. QED
    BY <1>0, <1>2, <2>1 DEF TypeOK, LogTypeOK
<1>6. /\ seen'[r] \cup replay'[r] = seen[r] \cup replay[r] /\ seen[r] \subseteq seen'[r]
      /\ Fed(feed)' = Fed(feed) /\ Seqs(log)' = Seqs(log) /\ Fed(pending[r])' = Fed(pending[r])
  BY <1>2, <1>4 DEF Fed, Seqs
<1>7. ReaderInv(r)'
  <2>1. SentIsCommitted(r)'
    BY <1>0, <1>2, <1>6 DEF ReaderInv, SentIsCommitted
  <2>2. NoGap(r)'
    BY <1>0, <1>2, <1>6 DEF ReaderInv, NoGap
  <2>3. ReadIsReplayed(r)'
    BY <1>0, <1>2, <1>6 DEF ReaderInv, ReadIsReplayed
  <2>4. ReplayIsPrefix(r)'
    BY <1>0, <1>2, <1>6 DEF ReaderInv, ReplayIsPrefix
  <2>5. PendingIsOrdered(r)'
    BY <1>0, <1>2 DEF ReaderInv, PendingIsOrdered
  <2>6. CursorIsExcused(r)'
    BY <1>0, <1>2, <1>6 DEF ReaderInv, CursorIsExcused, WillBeLate
  <2>. QED
    BY <2>1, <2>2, <2>3, <2>4, <2>5, <2>6 DEF ReaderInv
<1>. QED
  BY <1>3, <1>5, <1>7, OneReaderKeeps

\* A live message that is sent was to be sent, and is of the feed.
LEMMA SendLiveKeeps ==
    ASSUME DInv, NEW r \in Readers, SendLive(r)
    PROVE  DInv'
<1>0. TypeOK /\ ReaderInv(r)
  BY DEF DInv
<1>. DEFINE n == Head(pending[r])
<1>1. /\ pending[r] # <<>>
      /\ pending' = [pending EXCEPT ![r] = Tail(@)]
      /\ seen' = [seen EXCEPT ![r] = @ \cup {n}]
      /\ UNCHANGED <<log, feed, session, cursor, after, replay, lost, overdue, skipped, late>>
  BY DEF SendLive
<1>2. pending[r] \in Seq(1..MaxSeq)
  BY <1>0 DEF TypeOK
<1>3. /\ n \in 1..MaxSeq /\ Tail(pending[r]) \in Seq(1..MaxSeq)
      /\ Fed(pending[r]) = Fed(Tail(pending[r])) \cup {n}
  BY <1>1, <1>2, FedTail
<1>. HIDE DEF n
<1>4. OnlyReader(r)
  BY <1>0, <1>1 DEF OnlyReader, TypeOK
<1>5. seen'[r] = seen[r] \cup {n} /\ pending'[r] = Tail(pending[r])
  BY <1>0, <1>1 DEF TypeOK
<1>6. TypeOK'
  <2>1. seen' \in [Readers -> SUBSET (1..MaxSeq)]
    BY <1>0, <1>1, <1>3 DEF TypeOK
  <2>2. pending' \in [Readers -> Seq(1..MaxSeq)]
    BY <1>0, <1>1, <1>3 DEF TypeOK
  <2>. QED
    BY <1>0, <1>1, <2>1, <2>2 DEF TypeOK, LogTypeOK
<1>7. /\ Fed(feed)' = Fed(feed) /\ Seqs(log)' = Seqs(log)
      /\ Fed(pending[r]) = Fed(pending[r])' \cup {n}
      /\ n \in Fed(feed) /\ n \in Seqs(log)
  <2>1. Fed(pending[r])' = Fed(Tail(pending[r]))
    BY <1>5 DEF Fed
  <2>2. n \in Fed(feed) /\ n \in Seqs(log)
    BY <1>0, <1>3 DEF ReaderInv, SentIsCommitted, DInv, FeedIsOfLog
  <2>3. Fed(feed)' = Fed(feed) /\ Seqs(log)' = Seqs(log)
    BY <1>1 DEF Fed, Seqs
  <2>. QED
    BY <1>3, <2>1, <2>2, <2>3
<1>8. /\ PendingIsOrdered(r)'
      /\ \A k \in Fed(pending[r])' : k < n => k \in late
  <2>1. Fed(pending[r])' = Fed(Tail(pending[r])) /\ PendingIsOrdered(r)
    BY <1>0, <1>5 DEF Fed, ReaderInv
  <2>. QED
    BY <1>0, <1>1, <1>5, <2>1, TailKeepsOrder DEF n
<1>9. ReaderInv(r)'
  <2>1. SentIsCommitted(r)'
    BY <1>0, <1>1, <1>5, <1>7 DEF ReaderInv, SentIsCommitted
  <2>2. NoGap(r)'
    BY <1>0, <1>1, <1>5, <1>7 DEF ReaderInv, NoGap
  <2>3. ReadIsReplayed(r)'
    BY <1>0, <1>1, <1>5, <1>7 DEF ReaderInv, ReadIsReplayed
  <2>4. ReplayIsPrefix(r)'
    BY <1>0, <1>1, <1>5, <1>7, <1>8 DEF ReaderInv, ReplayIsPrefix
  <2>5. CursorIsExcused(r)'
    BY <1>0, <1>1, <1>5, <1>7 DEF ReaderInv, CursorIsExcused, WillBeLate
  <2>. QED
    BY <1>8, <2>1, <2>2, <2>3, <2>4, <2>5 DEF ReaderInv
<1>. QED
  BY <1>4, <1>6, <1>9, OneReaderKeeps

\* A client comes back with the cursor it had, or with a higher number it has seen.
LEMMA ResumeIs ==
    ASSUME DInv, NEW r \in Readers, cursor[r] # NoCursor
    PROVE  /\ Resume(r) \in 0..MaxSeq
           /\ Resume(r) = cursor[r] \/ (Resume(r) \in seen[r] /\ Resume(r) > cursor[r])
<1>. DEFINE S == {cursor[r]} \cup seen[r]
<1>1. /\ cursor[r] \in 0..MaxSeq /\ cursor[r] \in Nat /\ S \subseteq 0..MaxSeq /\ S \subseteq Nat
      /\ cursor[r] \in S
  BY NumbersAreNumbers, LogAssumption DEF DInv
<1>2. Resume(r) = Highest(S)
  BY DEF Resume
<1>3. Highest(S) \in S \cup {0} /\ \A m \in S : m <= Highest(S)
  <2>. HIDE DEF S
  <2>. QED
    BY <1>1, HighestIs
<1>4. cursor[r] <= Highest(S)
  <2>. HIDE DEF S
  <2>. QED
    BY <1>1, <1>3
<1>5. Highest(S) \in S
  BY <1>1, <1>3, <1>4
<1>6. Highest(S) \in 0..MaxSeq /\ Highest(S) \in Nat
  <2>. HIDE DEF S
  <2>. QED
    BY <1>1, <1>5
<1>7. Highest(S) = cursor[r] \/ Highest(S) \in seen[r]
  BY <1>5
<1>. HIDE DEF S
<1>. QED
  BY <1>1, <1>2, <1>4, <1>6, <1>7

\* What such a cursor passes over was seen or lost, or the replay had still to send it,
\* or it is late: it is neither replayed before a higher number nor sent before it.
LEMMA ResumeIsExcused ==
    ASSUME DInv, NEW r \in Readers, session[r] # "away", cursor[r] # NoCursor,
           NEW c \in seen[r], c > cursor[r],
           NEW n \in Seqs(log), n <= c, n > cursor[r]
    PROVE  \/ n \in seen[r] \cup lost[r] \cup late
           \/ n \in Unreplayed(r) /\ n < c
           \/ WillBeLate(n)
<1>0. TypeOK /\ ReaderInv(r)
  BY DEF DInv
<1>1. n \in Nat /\ c \in Nat /\ cursor[r] \in Nat
  BY <1>0, NumbersAreNumbers
<1>2. SUFFICES ASSUME n \notin seen[r], n \notin lost[r], n \notin late, n \notin Unreplayed(r),
                      n \in Fed(feed) \/ c \notin Fed(feed)
               PROVE  FALSE
  BY <1>1 DEF WillBeLate
<1>3. n < c
  BY <1>1, <1>2
<1>4. n \notin replay[r] /\ ~(session[r] = "paging" /\ n > after[r])
  BY <1>2 DEF Unreplayed, Missed
<1>5. n \in Fed(feed) => n \in Fed(pending[r])
  BY <1>0, <1>2, <1>4 DEF ReaderInv, NoGap
<1>. QED
  BY <1>0, <1>2, <1>3, <1>4, <1>5 DEF ReaderInv, ReplayIsPrefix

\* So a client may lose its socket at any time, and come back with its cursor.
LEMMA DisconnectKeeps ==
    ASSUME DInv, NEW r \in Readers, Disconnect(r)
    PROVE  DInv'
<1>0. TypeOK /\ ReaderInv(r)
  BY DEF DInv
<1>. DEFINE passed == {n \in Unreplayed(r) : n < Resume(r)}
<1>1. /\ session' = [session EXCEPT ![r] = "away"]
      /\ replay' = [replay EXCEPT ![r] = {}]
      /\ pending' = [pending EXCEPT ![r] = <<>>]
      /\ cursor' = [cursor EXCEPT ![r] = Resume(r)]
      /\ after' = [after EXCEPT ![r] = 0]
      /\ skipped' = [skipped EXCEPT ![r] = @ \cup passed]
      /\ UNCHANGED <<log, feed, seen, lost, overdue, late>>
      /\ session[r] # "away"
  BY DEF Disconnect
<1>2. passed \subseteq 1..MaxSeq
  BY <1>0, NumbersAreNumbers DEF Unreplayed, Missed
<1>3. \A n \in Unreplayed(r) : n < Resume(r) => n \in passed
  OBVIOUS
<1>. HIDE DEF passed
<1>4. OnlyReader(r)
  BY <1>0, <1>1 DEF OnlyReader, TypeOK
<1>5. cursor[r] = NoCursor => Resume(r) = NoCursor
  BY DEF Resume
<1>6. cursor[r] # NoCursor =>
        /\ Resume(r) \in 0..MaxSeq
        /\ Resume(r) = cursor[r] \/ (Resume(r) \in seen[r] /\ Resume(r) > cursor[r])
  BY ResumeIs
<1>7. TypeOK'
  <2>1. cursor' \in [Readers -> 0..MaxSeq \cup {NoCursor}]
    BY <1>0, <1>1, <1>5, <1>6 DEF TypeOK
  <2>2. after' \in [Readers -> 0..MaxSeq]
    BY <1>0, <1>1, LogAssumption DEF TypeOK
  <2>3. /\ session' \in [Readers -> Session]
        /\ replay' \in [Readers -> SUBSET (1..MaxSeq)]
    BY <1>0, <1>1 DEF TypeOK, Session
  <2>4. pending' \in [Readers -> Seq(1..MaxSeq)]
    <3>1. <<>> \in Seq(1..MaxSeq)
      OBVIOUS
    <3>. QED
      BY <1>0, <1>1, <3>1 DEF TypeOK
  <2>5. skipped' \in [Readers -> SUBSET (1..MaxSeq)]
    BY <1>0, <1>1, <1>2 DEF TypeOK
  <2>. QED
    BY <1>0, <1>1, <2>1, <2>2, <2>3, <2>4, <2>5 DEF TypeOK, LogTypeOK
<1>8. /\ session'[r] = "away" /\ replay'[r] = {} /\ pending'[r] = <<>> /\ cursor'[r] = Resume(r)
      /\ skipped'[r] = skipped[r] \cup passed
      /\ UNCHANGED <<log, feed, seen, lost, overdue, late>>
  BY <1>0, <1>1 DEF TypeOK
<1>9. Fed(feed)' = Fed(feed) /\ Seqs(log)' = Seqs(log) /\ Fed(pending[r])' = {}
  BY <1>8 DEF Fed, Seqs
<1>10. SentIsCommitted(r)'
  BY <1>0, <1>5, <1>6, <1>8, <1>9 DEF ReaderInv, SentIsCommitted
<1>11. NoGap(r)' /\ ReadIsReplayed(r)' /\ ReplayIsPrefix(r)'
  BY <1>8 DEF NoGap, ReadIsReplayed, ReplayIsPrefix
<1>12. PendingIsOrdered(r)'
  BY <1>8 DEF PendingIsOrdered
<1>13. CursorIsExcused(r)'
  <2>1. SUFFICES ASSUME Resume(r) # NoCursor, NEW n \in Seqs(log), n <= Resume(r)
                 PROVE  \/ n \in seen[r] \cup lost[r] \cup overdue[r] \cup skipped'[r] \cup late
                        \/ WillBeLate(n)
    BY <1>8, <1>9 DEF CursorIsExcused, WillBeLate
  <2>2. cursor[r] # NoCursor /\ cursor[r] \in Nat /\ n \in Nat
    BY <1>0, <1>5, <2>1, NumbersAreNumbers
  <2>3. CASE n <= cursor[r]
    BY <1>0, <1>8, <2>2, <2>3 DEF ReaderInv, CursorIsExcused
  <2>4. CASE n > cursor[r]
    <3>1. Resume(r) \in seen[r] /\ Resume(r) > cursor[r]
      BY <1>6, <2>1, <2>2, <2>4
    <3>2. \/ n \in seen[r] \cup lost[r] \cup late
          \/ n \in Unreplayed(r) /\ n < Resume(r)
          \/ WillBeLate(n)
      BY <1>1, <2>1, <2>2, <2>4, <3>1, ResumeIsExcused
    <3>. QED
      BY <1>3, <1>8, <3>2
  <2>. QED
    BY <2>2, <2>3, <2>4
<1>. QED
  BY <1>4, <1>7, <1>10, <1>11, <1>12, <1>13, OneReaderKeeps DEF ReaderInv

\* Every step of the writers and the sockets keeps it.
LEMMA DeliveryStep == DInv /\ [Next]_vars => DInv'
<1>. SUFFICES ASSUME DInv, [Next]_vars PROVE DInv'
  OBVIOUS
<1>1. CASE UNCHANGED vars
  <2>1. TypeOK' /\ FeedIsOfLog'
    BY <1>1 DEF DInv, vars, TypeOK, LogTypeOK, FeedIsOfLog, Fed, Seqs
  <2>2. ASSUME NEW r \in Readers PROVE ReaderInv(r)'
    <3>1. ReaderInv(r)
      BY DEF DInv
    <3>. QED
      BY <1>1, <3>1, ReaderUntouched DEF vars
  <2>. QED
    BY <2>1, <2>2 DEF DInv
<1>2. CASE Next
  BY <1>2, WriteKeeps, BroadcastKeeps, ConnectKeeps, ReadPageKeeps, SendReplayedKeeps,
     SendLiveKeeps, DisconnectKeeps DEF Next, Serve
<1>. QED
  BY <1>1, <1>2

\* The invariant of delivery, from which both of its promises follow.
THEOREM DeliveryInvariant == Spec => []DInv
BY DeliveryInit, DeliveryStep, PTL DEF Spec

LEMMA NoGapFollows == DInv => NoGapAboveCursor
BY DEF DInv, ReaderInv, NoGap, NoGapAboveCursor, OnItsWay, Fed

LEMMA CauseFollows == DInv => GapsHaveACause
<1>. SUFFICES ASSUME DInv, NEW r \in Readers, session[r] = "streaming", Unsent(r) = {},
                     cursor[r] # NoCursor, NEW n \in Fed(feed)
              PROVE  n \in seen[r] \cup lost[r] \cup overdue[r] \cup skipped[r] \cup late
  BY DEF GapsHaveACause
<1>0. TypeOK /\ ReaderInv(r) /\ n \in Seqs(log)
  BY DEF DInv, FeedIsOfLog
<1>1. n \in Nat /\ cursor[r] \in Nat
  BY <1>0, NumbersAreNumbers
<1>2. replay[r] = {} /\ Fed(pending[r]) = {}
  BY DEF Unsent, Fed
<1>3. CASE n > cursor[r]
  BY <1>0, <1>2, <1>3 DEF ReaderInv, NoGap
<1>4. CASE n <= cursor[r]
  BY <1>0, <1>4 DEF ReaderInv, CursorIsExcused, WillBeLate
<1>. QED
  BY <1>1, <1>3, <1>4

\* Joining live delivery before the replay leaves no gap above the cursor, however
\* the pages, the commits and the broadcasts interleave.
THEOREM NothingIsSkipped == Spec => []NoGapAboveCursor
BY DeliveryInvariant, NoGapFollows, PTL

\* Across all its sessions a client misses only what an outage lost, what was committed
\* or broadcast after a higher number, and what a replay still had to send when its
\* socket was lost after a higher number had come live.
THEOREM EveryGapHasACause == Spec => []GapsHaveACause
BY DeliveryInvariant, CauseFollows, PTL
-----------------------------------------------------------------------------
(***************************************************************************)
(* 3. The history                                                          *)
(*                                                                         *)
(* The cursor of the next request splits what was there at the start into  *)
(* what has been served, and what is still below it.                       *)
(***************************************************************************)

HistoryVarsOK ==
    /\ state \in {"idle", "reading", "done"}
    /\ before \in 0..MaxSeq
    /\ pages \in Seq({S \in SUBSET (1..MaxSeq) : Cardinality(S) <= Limit})
    /\ atStart \in SUBSET (1..MaxSeq)
    /\ listening \in SUBSET Readers

\* What is not served yet is below the cursor, or there is no cursor yet.
PagesAreServed ==
    /\ atStart \subseteq Seqs(log)
    /\ state = "idle" => pages = <<>>
    /\ state # "reading" => before = 0
    /\ state = "reading" => \A n \in atStart : n \in Served \/ before = 0 \/ n < before
    /\ HistoryIsComplete

\* A socket that was there from the start gets what comes after it.
SocketsMeetHistory ==
    state # "idle" => \A r \in listening :
        /\ session[r] # "away"
        /\ Fed(feed) \subseteq atStart \cup seen[r] \cup replay[r] \cup Fed(pending[r]) \cup lost[r]

HInv == DInv /\ HistoryVarsOK /\ PagesAreServed /\ SocketsMeetHistory

LEMMA HistoryStart == HistoryInit => HInv
<1>. SUFFICES ASSUME HistoryInit PROVE HInv
  OBVIOUS
<1>1. DInv
  BY DeliveryInit DEF HistoryInit
<1>2. Seqs(log) = {}
  BY DEF HistoryInit, Init, LogInit, Seqs
<1>3. HistoryVarsOK
  BY LogAssumption DEF HistoryInit, HistoryVarsOK
<1>. QED
  BY <1>1, <1>2, <1>3
  DEF HistoryInit, HInv, PagesAreServed, HistoryIsComplete, SocketsMeetHistory

\* A client that begins notes what is there; the feed has nothing else.
LEMMA OpenKeeps ==
    ASSUME HInv, Open, UNCHANGED vars, DInv'
    PROVE  HInv'
<1>1. Seqs(log) \subseteq 1..MaxSeq
  BY DEF HInv, DInv, TypeOK, LogTypeOK, Message, Seqs
<1>2. /\ state = "idle" /\ state' = "reading" /\ atStart' = Seqs(log) /\ before' = 0
      /\ listening' = {r \in Readers : session[r] # "away"}
      /\ UNCHANGED <<before, pages>>
  BY DEF Open, HInv, PagesAreServed
<1>3. HistoryVarsOK'
  BY <1>1, <1>2, LogAssumption DEF HInv, HistoryVarsOK
<1>4. Seqs(log)' = Seqs(log) /\ Fed(feed)' = Fed(feed) /\ session' = session
  BY DEF vars, Seqs, Fed
<1>5. PagesAreServed'
  BY <1>2, <1>4 DEF PagesAreServed, HistoryIsComplete
<1>6. SocketsMeetHistory'
  BY <1>2, <1>4 DEF HInv, DInv, FeedIsOfLog, SocketsMeetHistory
<1>. QED
  BY <1>3, <1>5, <1>6 DEF HInv

\* A page has all of the older messages that are not below the next cursor, whatever
\* was committed since the last request.
LEMMA GetPageKeeps ==
    ASSUME HInv, GetPage, UNCHANGED vars, DInv'
    PROVE  HInv'
<1>. DEFINE older == Older(before)
            fetched == Fetched(older)
            items == Items(older)
            PageSet == {S \in SUBSET (1..MaxSeq) : Cardinality(S) <= Limit}
<1>0. /\ Seqs(log) \subseteq 1..MaxSeq /\ \A n \in 1..MaxSeq : n \in Nat /\ n > 0
      /\ before \in Nat /\ MaxSeq \in Nat
  BY LogAssumption DEF HInv, DInv, TypeOK, LogTypeOK, Message, Seqs, HistoryVarsOK
<1>1. /\ state = "reading" /\ pages' = Append(pages, items)
      /\ UNCHANGED <<atStart, listening>>
      /\ \/ HasMore(fetched) /\ before' = NextCursor(fetched, items) /\ state' = "reading"
         \/ ~HasMore(fetched) /\ before' = 0 /\ state' = "done"
  BY DEF GetPage, Fetched, Items
<1>2. older \subseteq 1..MaxSeq
  BY <1>0 DEF Older
<1>3. /\ items \subseteq older /\ Cardinality(items) <= Limit
      /\ ~HasMore(fetched) => items = older
      /\ HasMore(fetched) =>
            /\ NextCursor(fetched, items) \in items
            /\ \A n \in older : n >= NextCursor(fetched, items) => n \in items
  <2>. HIDE DEF older
  <2>. QED
    BY <1>2, HistoryPageIs
<1>4. \A n \in Seqs(log) : before = 0 \/ n < before => n \in older
  BY DEF Older
<1>. HIDE DEF older, fetched, items
<1>5. items \in PageSet
  BY <1>2, <1>3
<1>6. pages \in Seq(PageSet)
  BY DEF HInv, HistoryVarsOK
<1>. HIDE DEF PageSet
<1>7. /\ pages' \in Seq(PageSet)
      /\ DOMAIN pages = 1..Len(pages) /\ DOMAIN pages' = 1..(Len(pages) + 1) /\ Len(pages) \in Nat
      /\ pages'[Len(pages) + 1] = items
      /\ \A i \in DOMAIN pages : pages'[i] = pages[i]
  BY <1>1, <1>5, <1>6
<1>8. Served' = Served \cup items
  <2>1. Served' \subseteq Served \cup items
    <3>1. \A i \in DOMAIN pages' : i \in DOMAIN pages \/ i = Len(pages) + 1
      BY <1>7
    <3>. QED
      BY <1>7, <3>1 DEF Served
  <2>2. Served \subseteq Served' /\ items \subseteq Served'
    <3>1. DOMAIN pages \subseteq DOMAIN pages' /\ Len(pages) + 1 \in DOMAIN pages'
      BY <1>7
    <3>. QED
      BY <1>7, <3>1 DEF Served
  <2>. QED
    BY <2>1, <2>2
<1>9. HistoryVarsOK'
  <2>1. before' \in 0..MaxSeq
    <3>1. HasMore(fetched) => before' \in 1..MaxSeq
      BY <1>1, <1>2, <1>3
    <3>2. 0 \in 0..MaxSeq /\ 1..MaxSeq \subseteq 0..MaxSeq
      BY <1>0
    <3>. QED
      BY <1>1, <3>1, <3>2
  <2>2. pages' \in Seq(PageSet) /\ state' \in {"idle", "reading", "done"}
    BY <1>1, <1>7
  <2>. QED
    BY <1>1, <2>1, <2>2 DEF HInv, HistoryVarsOK, PageSet
<1>10. Seqs(log)' = Seqs(log)
  BY DEF vars, Seqs
<1>11. \A n \in atStart : n \in Served \/ n \in older
  BY <1>1, <1>4 DEF HInv, PagesAreServed
<1>12. PagesAreServed'
  <2>1. CASE HasMore(fetched)
    <3>1. before' \in 1..MaxSeq /\ state' = "reading" /\ before' = NextCursor(fetched, items)
      BY <1>1, <1>2, <1>3, <2>1
    <3>2. \A n \in older : n \in items \/ n < before'
      BY <1>0, <1>2, <1>3, <2>1, <3>1
    <3>3. \A n \in atStart : n \in Served' \/ n < before'
      BY <1>8, <1>11, <3>2
    <3>. QED
      BY <1>1, <1>10, <3>1, <3>3 DEF HInv, PagesAreServed, HistoryIsComplete
  <2>2. CASE ~HasMore(fetched)
    <3>1. before' = 0 /\ state' = "done"
      BY <1>1, <2>2
    <3>2. \A n \in atStart : n \in Served'
      BY <1>3, <1>8, <1>11, <2>2
    <3>. QED
      BY <1>1, <1>10, <3>1, <3>2 DEF HInv, PagesAreServed, HistoryIsComplete
  <2>. QED
    BY <2>1, <2>2
<1>13. SocketsMeetHistory'
  BY <1>1 DEF HInv, SocketsMeetHistory, vars, Fed
<1>. QED
  BY <1>9, <1>12, <1>13 DEF HInv

\* A client that is done forgets, and may begin anew.
LEMMA CloseKeeps ==
    ASSUME HInv, Close, UNCHANGED vars, DInv'
    PROVE  HInv'
<1>1. <<>> \in Seq({S \in SUBSET (1..MaxSeq) : Cardinality(S) <= Limit})
  OBVIOUS
<1>2. HistoryVarsOK'
  BY <1>1 DEF HInv, HistoryVarsOK, Close
<1>3. PagesAreServed'
  BY DEF HInv, PagesAreServed, HistoryIsComplete, Close
<1>4. SocketsMeetHistory'
  BY DEF SocketsMeetHistory, Close
<1>. QED
  BY <1>2, <1>3, <1>4 DEF HInv

\* What is sent to a socket, or lost to it, as long as it stays.
Given(r) == seen[r] \cup replay[r] \cup Fed(pending[r]) \cup lost[r]

\* A socket that stays has what it had, and gets what is broadcast.
LEMMA SocketGetsFeed ==
    ASSUME DInv, Next, NEW r \in Readers, session[r] # "away", session'[r] # "away"
    PROVE  /\ Given(r) \subseteq Given(r)'
           /\ Fed(feed)' \subseteq Fed(feed) \cup Given(r)'
<1>0. TypeOK
  BY DEF DInv
<1>1. ASSUME NEW seq \in 1..MaxSeq, Write(seq)
      PROVE  /\ Given(r) \subseteq Given(r)'
             /\ Fed(feed)' \subseteq Fed(feed) \cup Given(r)'
  <2>1. UNCHANGED <<feed, replay, pending, seen, lost>>
    BY <1>1, WriteIs
  <2>. QED
    BY <2>1 DEF Given, Fed
<1>2. ASSUME NEW m \in log, NEW cutOff \in SUBSET Readers, Broadcast(m, cutOff)
      PROVE  /\ Given(r) \subseteq Given(r)'
             /\ Fed(feed)' \subseteq Fed(feed) \cup Given(r)'
  <2>1. Fed(feed)' = Fed(feed) \cup {m.seq} /\ UNCHANGED <<replay, seen>>
    BY <1>2, BroadcastIs
  <2>2. /\ m.seq \in Fed(pending[r])' \cup lost'[r]
        /\ Fed(pending[r]) \subseteq Fed(pending[r])' /\ lost[r] \subseteq lost'[r]
    BY <1>2, BroadcastIs
  <2>. QED
    BY <2>1, <2>2 DEF Given
<1>3. ASSUME NEW q \in Readers, Connect(q) \/ Serve(q) \/ Disconnect(q)
      PROVE  /\ Given(r) \subseteq Given(r)'
             /\ Fed(feed)' \subseteq Fed(feed) \cup Given(r)'
  <2>1. UNCHANGED feed
    BY <1>3 DEF Connect, Serve, ReadPage, SendReplayed, SendLive, Disconnect
  <2>2. CASE q # r
    <3>1. /\ seen'[r] = seen[r] /\ replay'[r] = replay[r] /\ pending'[r] = pending[r]
          /\ lost'[r] = lost[r]
      BY <1>0, <1>3, <2>2
      DEF Connect, Serve, ReadPage, SendReplayed, SendLive, Disconnect, TypeOK
    <3>. QED
      BY <2>1, <3>1 DEF Given, Fed
  <2>3. CASE q = r /\ (ReadPage(r) \/ SendReplayed(r))
    <3>1. /\ seen[r] \cup replay[r] \subseteq seen'[r] \cup replay'[r]
          /\ pending'[r] = pending[r] /\ lost'[r] = lost[r]
      <4>1. CASE ReadPage(r)
        BY <1>0, <4>1 DEF ReadPage, TypeOK
      <4>2. CASE SendReplayed(r)
        BY <1>0, <4>2 DEF SendReplayed, TypeOK
      <4>. QED
        BY <2>3, <4>1, <4>2
    <3>. QED
      BY <2>1, <3>1 DEF Given, Fed
  <2>4. CASE q = r /\ SendLive(r)
    <3>1. /\ pending[r] # <<>> /\ pending[r] \in Seq(1..MaxSeq)
          /\ seen'[r] = seen[r] \cup {Head(pending[r])}
          /\ pending'[r] = Tail(pending[r])
          /\ replay'[r] = replay[r] /\ lost'[r] = lost[r]
      BY <1>0, <2>4 DEF SendLive, TypeOK
    <3>2. Fed(pending[r]) = Fed(Tail(pending[r])) \cup {Head(pending[r])}
      BY <3>1, FedTail
    <3>3. Fed(pending[r])' = Fed(Tail(pending[r]))
      BY <3>1 DEF Fed
    <3>4. Given(r) \subseteq Given(r)'
      BY <3>1, <3>2, <3>3 DEF Given
    <3>. QED
      BY <2>1, <3>4 DEF Fed
  <2>5. ~(q = r /\ Connect(r)) /\ ~(q = r /\ Disconnect(r))
    BY <1>0 DEF Connect, Disconnect, TypeOK
  <2>. QED
    BY <1>3, <2>2, <2>3, <2>4, <2>5 DEF Serve
<1>. QED
  BY <1>1, <1>2, <1>3 DEF Next

\* Whatever the writers and the sockets do keeps what the client of the history has.
LEMMA DeliveryKeepsHistory ==
    ASSUME HInv, Next, DInv',
           listening' = {r \in listening : session'[r] # "away"},
           UNCHANGED <<state, before, pages, atStart>>
    PROVE  HInv'
<1>1. HistoryVarsOK'
  BY DEF HInv, HistoryVarsOK
<1>2. Seqs(log) \subseteq Seqs(log)'      \* messages are never taken back
  <2>1. log \subseteq log'
    BY DEF Next, Write, Post, Broadcast, Announce, Connect, Serve, ReadPage, SendReplayed, SendLive,
       Disconnect
  <2>. QED
    BY <2>1 DEF Seqs
<1>3. PagesAreServed'
  <2>1. Served' = Served
    BY DEF Served
  <2>. QED
    BY <1>2, <2>1 DEF HInv, PagesAreServed, HistoryIsComplete
<1>4. SocketsMeetHistory'
  <2>1. SUFFICES ASSUME state # "idle", NEW r \in listening, session'[r] # "away"
                 PROVE  Fed(feed)' \subseteq atStart \cup Given(r)'
    BY DEF SocketsMeetHistory, Given
  <2>2. r \in Readers /\ session[r] # "away" /\ Fed(feed) \subseteq atStart \cup Given(r)
    BY <2>1 DEF HInv, HistoryVarsOK, SocketsMeetHistory, Given
  <2>3. /\ Given(r) \subseteq Given(r)'
        /\ Fed(feed)' \subseteq Fed(feed) \cup Given(r)'
    BY <2>1, <2>2, SocketGetsFeed DEF HInv
  <2>. QED
    BY <2>2, <2>3
<1>. QED
  BY <1>1, <1>3, <1>4 DEF HInv

\* Reading the history is no step of Delivery.
LEMMA HistoryOnlyReads == [HistoryNext]_<<vars, historyVars>> => [Next]_vars
BY DEF HistoryNext

LEMMA HistoryStep == HInv /\ [HistoryNext]_<<vars, historyVars>> => HInv'
<1>. SUFFICES ASSUME HInv, [HistoryNext]_<<vars, historyVars>> PROVE HInv'
  OBVIOUS
<1>1. DInv'
  BY HistoryOnlyReads, DeliveryStep DEF HInv
<1>2. CASE UNCHANGED <<vars, historyVars>>
  <2>1. HistoryVarsOK'
    BY <1>2 DEF HInv, HistoryVarsOK, historyVars
  <2>2. PagesAreServed'
    BY <1>2 DEF HInv, PagesAreServed, HistoryIsComplete, Served, Seqs, vars, historyVars
  <2>3. SocketsMeetHistory'
    BY <1>2 DEF HInv, SocketsMeetHistory, Fed, vars, historyVars
  <2>. QED
    BY <1>1, <2>1, <2>2, <2>3 DEF HInv
<1>3. CASE HistoryNext
  BY <1>1, <1>3, OpenKeeps, GetPageKeeps, CloseKeeps, DeliveryKeepsHistory DEF HistoryNext
<1>. QED
  BY <1>2, <1>3

\* The invariant of both ways to read.
THEOREM HistoryInvariant == HistorySpec => []HInv
BY HistoryStart, HistoryStep, PTL DEF HistorySpec

\* What was there when a client began to page is all served, although each page is
\* read in a transaction of its own while messages go on being committed.
THEOREM HistoryServesAll == HistorySpec => []HistoryIsComplete
<1>1. HInv => HistoryIsComplete
  BY DEF HInv, PagesAreServed
<1>. QED
  BY <1>1, HistoryInvariant, PTL

\* A client that joins first and then reads its history has every broadcast message
\* from one or the other: nothing falls between them.
THEOREM HistoryAndSocketMeet == HistorySpec => []HistoryMeetsLive
<1>1. HInv => HistoryMeetsLive
  BY DEF HInv, PagesAreServed, HistoryIsComplete, SocketsMeetHistory, HistoryMeetsLive, Unsent, Fed
<1>. QED
  BY <1>1, HistoryInvariant, PTL

\* Reading the history takes nothing from the sockets: it delivers as Delivery does.
THEOREM HistoryDelivers ==
    HistorySpec => Spec /\ []NoGapAboveCursor /\ []GapsHaveACause
<1>1. HistoryInit => Init
  BY DEF HistoryInit
<1>2. HistorySpec => Spec
  BY <1>1, HistoryOnlyReads, PTL DEF HistorySpec, Spec
<1>. QED
  BY <1>2, NothingIsSkipped, EveryGapHasACause, PTL
=============================================================================
