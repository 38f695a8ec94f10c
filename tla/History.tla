------------------------------- MODULE History -------------------------------
(***************************************************************************)
(* Both ways to read a conversation: sockets (module Delivery), and the    *)
(* history over REST, newest first, one page a request, while messages go  *)
(* on being committed (GetConversationHistory).                            *)
(*                                                                         *)
(* A client without a cursor uses both: its socket for what comes, and the *)
(* history for what there is.                                              *)
(***************************************************************************)
EXTENDS Delivery, FiniteSetsExt

CONSTANT Limit      \* messages on a page

ASSUME HistoryAssumption == Limit \in Nat \ {0}

VARIABLES
    state,      \* what the client of the history is doing
    before,     \* the cursor of its next request; 0 stands for none
    pages,      \* the pages it has been served, each a set of numbers
    atStart,    \* history: what was committed when it began
    listening   \* history: the sockets that were joined then and still are

historyVars == <<state, before, pages, atStart, listening>>

\* Every variable has its type, and no page is longer than was asked for.
HistoryTypeOK ==
    /\ TypeOK
    /\ state \in {"idle", "reading", "done"}
    /\ before \in 0..MaxSeq
    /\ pages \in Seq({S \in SUBSET (1..MaxSeq) : Cardinality(S) <= Limit})
    /\ atStart \in SUBSET (1..MaxSeq)
    /\ listening \in SUBSET Readers

HistoryInit ==
    /\ Init
    /\ state = "idle"
    /\ before = 0
    /\ pages = <<>>
    /\ atStart = {}
    /\ listening = {}
-----------------------------------------------------------------------------
(* Faults: variants of the definitions below that the properties tell from  *)
(* the code                                                                 *)

\* The next page starts after the over-fetched message.
CursorOfFetched(fetched, items) == Min(fetched)

\* The oldest messages are served first.
Oldest(S, limit) == {n \in S : Cardinality({m \in S : m < n}) < limit}
-----------------------------------------------------------------------------
\* A client that has nothing yet asks for the history, without a cursor.
Open ==
    /\ state = "idle"
    /\ \E r \in Readers : cursor[r] = NoCursor
    /\ state' = "reading"
    /\ atStart' = Seqs(log)
    /\ listening' = {r \in Readers : session[r] # "away"}
    /\ UNCHANGED <<before, pages>>

\* list_history: the newest messages below the cursor.
Older(cursorOf) == {n \in Seqs(log) : cursorOf = 0 \/ n < cursorOf}

Newest(S, limit) == {n \in S : Cardinality({m \in S : m > n}) < limit}

\* One message more than the page holds is fetched.
HasMore(fetched) == Cardinality(fetched) > Limit

NextCursor(fetched, items) == Min(items)

\* One request and one SELECT; the client asks again with next_cursor.
GetPage ==
    /\ state = "reading"
    /\ LET fetched == Newest(Older(before), Limit + 1)
           items   == Newest(fetched, Limit)
       IN  /\ pages' = Append(pages, items)
           /\ IF HasMore(fetched)
                THEN before' = NextCursor(fetched, items) /\ UNCHANGED state
                ELSE before' = 0 /\ state' = "done"
    /\ UNCHANGED <<atStart, listening>>

\* A client that has all of it may begin anew.
Close ==
    /\ state = "done"
    /\ state' = "idle"
    /\ pages' = <<>>
    /\ atStart' = {}
    /\ listening' = {}
    /\ UNCHANGED before
-----------------------------------------------------------------------------
HistoryNext ==
    \/ /\ Open \/ GetPage \/ Close
       /\ UNCHANGED vars
    \/ /\ Next
       /\ listening' = {r \in listening : session'[r] # "away"}
       /\ UNCHANGED <<state, before, pages, atStart>>

HistorySpec == HistoryInit /\ [][HistoryNext]_<<vars, historyVars>> /\ Serving
-----------------------------------------------------------------------------
(* Properties *)

Served == UNION {pages[i] : i \in DOMAIN pages}

\* What was there when the client began is all served, however many messages
\* are committed between its requests.
HistoryIsComplete == state = "done" => atStart \subseteq Served

\* The client without a cursor: if its socket joined before it asked for the
\* history, it has every message that was broadcast, from one or from the other,
\* and what an outage lost aside there is no gap between the two.
HistoryMeetsLive ==
    state = "done" => \A r \in listening :
        cursor[r] = NoCursor =>
            Fed(feed) \subseteq Served \cup seen[r] \cup Unsent(r) \cup lost[r]
=============================================================================
