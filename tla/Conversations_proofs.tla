------------------------- MODULE Conversations_proofs -------------------------
(***************************************************************************)
(* Proofs about Conversations, for any requests, users, titles and bound.  *)
(*                                                                         *)
(* A request that nobody overtook has a copy of what is stored, or what it *)
(* made of it; one that was overtaken has at least a copy that was once    *)
(* stored, and every row that was ever stored has a deletion as its last   *)
(* change.                                                                 *)
(***************************************************************************)
EXTENDS Conversations, TLAPS

\* What a request is about is a conversation that was created.
RequestsAreReal ==
    \A q \in Requests :
        /\ pc[q] # "idle" => request[q] \in Request
        /\ pc[q] \notin {"idle", "load"} => row # NoRow
        /\ pc[q] \in {"idle", "load"} => q \notin overtaken

DeletedLast(r) == r.deleted # 0 => r.deleted = r.updated

\* Every copy is as the row was; only a restore works on a deleted one.
CopiesAreSound ==
    \A q \in Requests : pc[q] \in {"members", "save"} =>
        /\ DeletedLast(seen[q])
        /\ pc[q] = "members" /\ request[q].op # "restore" => seen[q].deleted = 0
        /\ seen[q].updated <= clock

RowIsPast == row # NoRow => row.updated <= clock

\* What the checks of add_participant and remove_participant leave true until the
\* request writes.
ChecksHold ==
    \A q \in Requests : pc[q] = "save" =>
        /\ request[q].op = "add" => request[q].user \notin seenMembers[q]
        /\ request[q].op = "remove" => request[q].user # Owner

\* The copy was changed as its request asks: a row that is written back differs
\* from the one that was loaded in that only, and in the time.
ChangedFrom(r, op, copy) ==
    \/ copy = r
    \/ /\ copy.updated > r.updated
       /\ op = "rename" => copy.deleted = r.deleted
       /\ op \in Lifecycle => copy.title = r.title /\ (op = "delete") = (r.deleted = 0)

\* A request that was not overtaken works on what is stored.
NotOvertakenIsCurrent ==
    \A q \in Requests \ overtaken :
        /\ pc[q] = "save" \/ (pc[q] = "members" /\ seenMembers[q] # {})
              => seenMembers[q] = members
        /\ pc[q] = "members" => seen[q] = row
        /\ pc[q] = "save" /\ request[q].op \in Lifecycle \cup {"rename"}
              => ChangedFrom(row, request[q].op, seen[q])

\* A request has loaded no memberships before it has loaded the row.
NothingLoaded == \A q \in Requests : pc[q] \in {"idle", "load"} => seenMembers[q] = {}

CInv ==
    /\ TypeOK
    /\ RequestsAreReal
    /\ OwnerIsParticipant
    /\ DeletionIsLastChange
    /\ CopiesAreSound
    /\ RowIsPast
    /\ ChecksHold
    /\ NotOvertakenIsCurrent
    /\ ConflictNeedsOverlap
    /\ NothingLoaded
-----------------------------------------------------------------------------
(* Requests and rows *)

LEMMA RequestFields ==
    ASSUME NEW r \in Request
    PROVE  /\ r.op \in {"rename", "delete", "restore", "add", "remove", "list"}
           /\ r.actor \in Users
           /\ r.op = "rename" => r.title \in Titles
           /\ r.op \in {"add", "remove"} => r.user \in Users
BY DEF Request, Lifecycle

LEMMA RowFields ==
    ASSUME NEW r \in Row
    PROVE  /\ r # NoRow /\ r.title \in Titles
           /\ r.updated \in 1..MaxTime /\ r.deleted \in 0..MaxTime
BY DEF Row, NoRow

\* A change of the aggregate gives a row that is as its request asks, and that
\* still has a deletion as its last change.
LEMMA RenamedIsChanged ==
    ASSUME NEW r \in Row, NEW now \in 1..MaxTime, NEW t \in Titles,
           r.updated < now, r.deleted = 0
    PROVE  /\ Renamed(r, t, now) \in Row
           /\ DeletedLast(Renamed(r, t, now))
           /\ ChangedFrom(r, "rename", Renamed(r, t, now))
BY ConversationsAssumption DEF Row, Renamed, DeletedLast, ChangedFrom, Lifecycle

LEMMA DeletedIsChanged ==
    ASSUME NEW r \in Row, NEW now \in 1..MaxTime, r.updated < now, DeletedLast(r)
    PROVE  /\ Deleted(r, now) \in Row
           /\ DeletedLast(Deleted(r, now))
           /\ ChangedFrom(r, "delete", Deleted(r, now))
<1>1. CASE r.deleted = 0
  <2>. DEFINE c == [r EXCEPT !.deleted = now, !.updated = now]
  <2>1. c \in Row /\ c.title = r.title /\ c.updated = now /\ c.deleted = now
    <3>1. /\ now \in 0..MaxTime /\ 0 \in 0..MaxTime /\ now \in 1..MaxTime
          /\ r \in [title : Titles, updated : 1..MaxTime, deleted : 0..MaxTime]
      BY ConversationsAssumption DEF Row
    <3>2. c \in [title : Titles, updated : 1..MaxTime, deleted : 0..MaxTime]
      BY <3>1
    <3>3. c.title = r.title /\ c.updated = now
      BY <3>1
    <3>4. c.deleted = now
      BY <3>1
    <3>. HIDE DEF c
    <3>. QED
      BY <3>2, <3>3, <3>4 DEF Row
  <2>2. now # 0 /\ now > r.updated
    BY ConversationsAssumption DEF Row
  <2>. HIDE DEF c
  <2>3. DeletedLast(c) /\ ChangedFrom(r, "delete", c)
    BY <1>1, <2>1, <2>2 DEF DeletedLast, ChangedFrom
  <2>. QED
    BY <1>1, <2>1, <2>3 DEF Deleted, c
<1>2. CASE ~(r.deleted = 0)
  BY <1>2 DEF Deleted, ChangedFrom
<1>. QED
  BY <1>1, <1>2

LEMMA RestoredIsChanged ==
    ASSUME NEW r \in Row, NEW now \in 1..MaxTime, r.updated < now, DeletedLast(r)
    PROVE  /\ Restored(r, now) \in Row
           /\ DeletedLast(Restored(r, now))
           /\ ChangedFrom(r, "restore", Restored(r, now))
<1>1. CASE r.deleted # 0
  <2>. DEFINE c == [r EXCEPT !.deleted = 0, !.updated = now]
  <2>1. c \in Row /\ c.title = r.title /\ c.updated = now /\ c.deleted = 0
    <3>1. /\ now \in 0..MaxTime /\ 0 \in 0..MaxTime /\ now \in 1..MaxTime
          /\ r \in [title : Titles, updated : 1..MaxTime, deleted : 0..MaxTime]
      BY ConversationsAssumption DEF Row
    <3>2. c \in [title : Titles, updated : 1..MaxTime, deleted : 0..MaxTime]
      BY <3>1
    <3>3. c.title = r.title /\ c.updated = now
      BY <3>1
    <3>4. c.deleted = 0
      BY <3>1
    <3>. HIDE DEF c
    <3>. QED
      BY <3>2, <3>3, <3>4 DEF Row
  <2>2. now # 0 /\ now > r.updated
    BY ConversationsAssumption DEF Row
  <2>. HIDE DEF c
  <2>3. DeletedLast(c) /\ ChangedFrom(r, "restore", c)
    BY <1>1, <2>1, <2>2 DEF DeletedLast, ChangedFrom
  <2>. QED
    BY <1>1, <2>1, <2>3 DEF Restored, c
<1>2. CASE ~(r.deleted # 0)
  BY <1>2 DEF Restored, ChangedFrom
<1>. QED
  BY <1>1, <1>2
-----------------------------------------------------------------------------
LEMMA ConversationsInit == Init => CInv
<1>. SUFFICES ASSUME Init PROVE CInv
  OBVIOUS
<1>1. TypeOK
  BY ConversationsAssumption DEF Init, TypeOK
<1>2. DeletionIsLastChange
  BY DEF Init, DeletionIsLastChange, NoRow
<1>. QED
  BY <1>1, <1>2 DEF Init, CInv, RequestsAreReal, OwnerIsParticipant, CopiesAreSound, RowIsPast,
     ChecksHold, NotOvertakenIsCurrent, ConflictNeedsOverlap, NothingLoaded

\* The conversation is created once; no request has loaded it before.
LEMMA CreateKeeps == ASSUME CInv, Create PROVE CInv'
<1>1. PICK t \in Titles : row' = [title |-> t, updated |-> clock + 1, deleted |-> 0]
  BY DEF Create
<1>2. /\ row = NoRow /\ clock < MaxTime /\ clock' = clock + 1 /\ members' = {Owner}
      /\ UNCHANGED <<pc, request, seen, seenMembers, overtaken>>
  BY DEF Create
<1>3. clock \in 0..MaxTime /\ clock' \in 1..MaxTime /\ clock <= clock'
  BY <1>2, ConversationsAssumption DEF CInv, TypeOK
<1>4. row' \in Row /\ row'.updated = clock' /\ row'.deleted = 0
  BY <1>1, <1>2, <1>3, ConversationsAssumption DEF Row
<1>5. \A q \in Requests : pc[q] \in {"idle", "load"}
  BY <1>2 DEF CInv, RequestsAreReal
<1>6. TypeOK'
  BY <1>2, <1>3, <1>4, ConversationsAssumption DEF CInv, TypeOK
<1>7. RequestsAreReal' /\ CopiesAreSound' /\ ChecksHold' /\ NotOvertakenIsCurrent'
      /\ ConflictNeedsOverlap' /\ NothingLoaded'
  BY <1>2, <1>5 DEF CInv, RequestsAreReal, CopiesAreSound, ChecksHold, NotOvertakenIsCurrent,
     ConflictNeedsOverlap, NothingLoaded
<1>8. OwnerIsParticipant' /\ DeletionIsLastChange' /\ RowIsPast'
  BY <1>2, <1>3, <1>4 DEF OwnerIsParticipant, DeletionIsLastChange, RowIsPast
<1>. QED
  BY <1>6, <1>7, <1>8 DEF CInv

\* A request that ends without a write.
LEMMA EndKeeps ==
    ASSUME CInv, NEW q \in Requests, Finish(q), overtaken' = overtaken \ {q},
           UNCHANGED <<row, members, clock>>
    PROVE  CInv'
<1>1. /\ pc' = [pc EXCEPT ![q] = "idle"]
      /\ request' = [request EXCEPT ![q] = NoRequest]
      /\ seen' = [seen EXCEPT ![q] = NoRow]
      /\ seenMembers' = [seenMembers EXCEPT ![q] = {}]
  BY DEF Finish, GoTo
<1>2. TypeOK'
  BY <1>1 DEF CInv, TypeOK
<1>3. OwnerIsParticipant' /\ DeletionIsLastChange' /\ RowIsPast'
  BY DEF CInv, OwnerIsParticipant, DeletionIsLastChange, RowIsPast
<1>4. RequestsAreReal'
  BY <1>1 DEF CInv, TypeOK, RequestsAreReal
<1>5. CopiesAreSound' /\ ChecksHold' /\ ConflictNeedsOverlap' /\ NothingLoaded'
  BY <1>1 DEF CInv, TypeOK, CopiesAreSound, ChecksHold, ConflictNeedsOverlap, NothingLoaded,
     DeletedLast
<1>6. NotOvertakenIsCurrent'
  BY <1>1 DEF CInv, TypeOK, NotOvertakenIsCurrent, ChangedFrom, Lifecycle
<1>. QED
  BY <1>2, <1>3, <1>4, <1>5, <1>6 DEF CInv

LEMMA BeginKeeps == ASSUME CInv, NEW q \in Requests, Begin(q) PROVE CInv'
<1>1. PICK r \in Request : request' = [request EXCEPT ![q] = r]
  BY DEF Begin
<1>2. /\ pc[q] = "idle" /\ pc' = [pc EXCEPT ![q] = "load"]
      /\ UNCHANGED <<row, members, clock, seen, seenMembers, overtaken>>
  BY DEF Begin, GoTo
<1>3. TypeOK'
  BY <1>1, <1>2 DEF CInv, TypeOK
<1>4. OwnerIsParticipant' /\ DeletionIsLastChange' /\ RowIsPast'
  BY <1>2 DEF CInv, OwnerIsParticipant, DeletionIsLastChange, RowIsPast
<1>5. RequestsAreReal'
  BY <1>1, <1>2 DEF CInv, TypeOK, RequestsAreReal
<1>6. CopiesAreSound' /\ ChecksHold' /\ ConflictNeedsOverlap' /\ NothingLoaded'
  BY <1>1, <1>2 DEF CInv, TypeOK, CopiesAreSound, ChecksHold, ConflictNeedsOverlap, NothingLoaded,
     DeletedLast
<1>7. NotOvertakenIsCurrent'
  BY <1>1, <1>2 DEF CInv, TypeOK, NotOvertakenIsCurrent, ChangedFrom, Lifecycle
<1>. QED
  BY <1>3, <1>4, <1>5, <1>6, <1>7 DEF CInv
\* What a request loads is what is stored.
LEMMA LoadRowKeeps == ASSUME CInv, NEW q \in Requests, LoadRow(q) PROVE CInv'
<1>1. /\ pc[q] = "load" /\ row # NoRow
      /\ row.deleted = 0 \/ request[q].op = "restore"
      /\ pc' = [pc EXCEPT ![q] = "members"]
      /\ seen' = [seen EXCEPT ![q] = row]
      /\ UNCHANGED <<row, members, clock, request, seenMembers, overtaken>>
  BY DEF LoadRow, GoTo
<1>2. row \in Row /\ DeletedLast(row) /\ row.updated <= clock
  BY <1>1 DEF CInv, TypeOK, DeletionIsLastChange, RowIsPast, DeletedLast
<1>3. TypeOK'
  BY <1>1, <1>2 DEF CInv, TypeOK
<1>4. OwnerIsParticipant' /\ DeletionIsLastChange' /\ RowIsPast'
  BY <1>1 DEF CInv, OwnerIsParticipant, DeletionIsLastChange, RowIsPast
<1>5. RequestsAreReal'
  BY <1>1 DEF CInv, TypeOK, RequestsAreReal
<1>6. CopiesAreSound'
  BY <1>1, <1>2 DEF CInv, TypeOK, CopiesAreSound, DeletedLast
<1>7. ChecksHold' /\ ConflictNeedsOverlap'
  BY <1>1 DEF CInv, TypeOK, ChecksHold, ConflictNeedsOverlap
<1>8. NotOvertakenIsCurrent'
  <2>1. seenMembers[q] = {}
    BY <1>1 DEF CInv, NothingLoaded
  <2>. QED
    BY <1>1, <2>1 DEF CInv, TypeOK, NotOvertakenIsCurrent, ChangedFrom, Lifecycle
<1>9. NothingLoaded'
  BY <1>1 DEF CInv, TypeOK, NothingLoaded
<1>. QED
  BY <1>3, <1>4, <1>5, <1>6, <1>7, <1>8, <1>9 DEF CInv

LEMMA LoadMembersKeeps == ASSUME CInv, NEW q \in Requests, LoadMembers(q) PROVE CInv'
<1>1. /\ pc[q] = "members" /\ seenMembers' = [seenMembers EXCEPT ![q] = members]
      /\ UNCHANGED <<row, members, clock, pc, request, seen, overtaken>>
  BY DEF LoadMembers
<1>2. TypeOK'
  BY <1>1 DEF CInv, TypeOK
<1>3. OwnerIsParticipant' /\ DeletionIsLastChange' /\ RowIsPast' /\ RequestsAreReal'
      /\ CopiesAreSound'
  BY <1>1 DEF CInv, OwnerIsParticipant, DeletionIsLastChange, RowIsPast, RequestsAreReal,
     CopiesAreSound, DeletedLast
<1>4. ChecksHold' /\ ConflictNeedsOverlap'
  BY <1>1 DEF CInv, TypeOK, ChecksHold, ConflictNeedsOverlap
<1>5. NotOvertakenIsCurrent'
  BY <1>1 DEF CInv, TypeOK, NotOvertakenIsCurrent, ChangedFrom, Lifecycle
<1>6. NothingLoaded'
  BY <1>1 DEF CInv, TypeOK, NothingLoaded
<1>. QED
  BY <1>2, <1>3, <1>4, <1>5, <1>6 DEF CInv

\* The change to the copy of the row, and nothing else.
LEMMA ChangeKeeps ==
    ASSUME CInv, NEW q \in Requests, NEW changed \in Row, Change(q, changed),
           request[q].op \in Lifecycle \cup {"rename"},
           DeletedLast(changed), changed.updated <= clock + 1,
           ChangedFrom(seen[q], request[q].op, changed)
    PROVE  CInv'
<1>1. /\ pc[q] = "members" /\ seenMembers[q] # {}
      /\ clock < MaxTime /\ clock' = clock + 1
      /\ seen' = [seen EXCEPT ![q] = changed]
      /\ pc' = [pc EXCEPT ![q] = "save"]
      /\ UNCHANGED <<row, members, request, seenMembers, overtaken>>
  BY DEF Change, GoTo
<1>2. clock \in 0..MaxTime /\ clock' \in 0..MaxTime
  BY <1>1, ConversationsAssumption DEF CInv, TypeOK
<1>3. TypeOK'
  BY <1>1, <1>2 DEF CInv, TypeOK
<1>4. OwnerIsParticipant' /\ DeletionIsLastChange'
  BY <1>1 DEF CInv, OwnerIsParticipant, DeletionIsLastChange
<1>5. RowIsPast'
  <2>1. row # NoRow => row.updated \in Nat /\ row.updated <= clock
    BY ConversationsAssumption, RowFields DEF CInv, TypeOK, RowIsPast
  <2>. QED
    BY <1>1, <1>2, <2>1 DEF RowIsPast
<1>6. RequestsAreReal'
  BY <1>1 DEF CInv, TypeOK, RequestsAreReal
<1>7. CopiesAreSound'
  <2>. SUFFICES ASSUME NEW p \in Requests, pc'[p] \in {"members", "save"}
                PROVE  /\ DeletedLast(seen'[p])
                       /\ pc'[p] = "members" /\ request[p].op # "restore" => seen'[p].deleted = 0
                       /\ seen'[p].updated <= clock'
    BY <1>1 DEF CopiesAreSound, DeletedLast
  <2>1. CASE p = q
    BY <1>1, <2>1 DEF CInv, TypeOK
  <2>2. CASE p # q
    <3>1. /\ pc'[p] = pc[p] /\ seen'[p] = seen[p] /\ seen[p] \in Row
          /\ DeletedLast(seen[p]) /\ seen[p].updated <= clock
          /\ pc[p] = "members" /\ request[p].op # "restore" => seen[p].deleted = 0
      BY <1>1, <2>2 DEF CInv, TypeOK, CopiesAreSound
    <3>2. seen[p].updated \in Nat
      BY <3>1, RowFields
    <3>. QED
      BY <1>1, <1>2, <3>1, <3>2
  <2>. QED
    BY <2>1, <2>2
<1>8. ChecksHold' /\ ConflictNeedsOverlap'
  BY <1>1 DEF CInv, TypeOK, ChecksHold, ConflictNeedsOverlap, Lifecycle
<1>9. NotOvertakenIsCurrent'
  BY <1>1 DEF CInv, TypeOK, NotOvertakenIsCurrent, ChangedFrom
<1>10. NothingLoaded'
  BY <1>1 DEF CInv, TypeOK, NothingLoaded
<1>. QED
  BY <1>3, <1>4, <1>5, <1>6, <1>7, <1>8, <1>9, <1>10 DEF CInv

LEMMA RowChangeKeeps ==
    ASSUME CInv, NEW q \in Requests, Rename(q) \/ Delete(q) \/ Restore(q)
    PROVE  CInv'
<1>1. /\ pc[q] = "members" /\ clock < MaxTime
      /\ request[q] \in Request /\ seen[q] \in Row
      /\ DeletedLast(seen[q]) /\ seen[q].updated <= clock
      /\ request[q].op # "restore" => seen[q].deleted = 0
  BY DEF Rename, Delete, Restore, Change, CInv, TypeOK, RequestsAreReal, CopiesAreSound
<1>2. clock + 1 \in 1..MaxTime /\ seen[q].updated < clock + 1
  BY <1>1, RowFields, ConversationsAssumption DEF CInv, TypeOK
<1>3. CASE Rename(q)
  <2>1. request[q].op = "rename" /\ request[q].title \in Titles
    BY <1>1, <1>3, RequestFields DEF Rename
  <2>. DEFINE c == Renamed(seen[q], request[q].title, clock + 1)
  <2>2. c \in Row /\ DeletedLast(c) /\ ChangedFrom(seen[q], "rename", c)
    BY <1>1, <1>2, <2>1, RenamedIsChanged
  <2>3. c.updated <= clock + 1
    BY <1>1, <1>2 DEF Renamed, Row
  <2>4. Change(q, c)
    BY <1>3 DEF Rename
  <2>. HIDE DEF c
  <2>. QED
    BY <2>1, <2>2, <2>3, <2>4, ChangeKeeps
<1>4. CASE Delete(q)
  <2>1. request[q].op = "delete"
    BY <1>4 DEF Delete
  <2>. DEFINE c == Deleted(seen[q], clock + 1)
  <2>2. c \in Row /\ DeletedLast(c) /\ ChangedFrom(seen[q], "delete", c)
    BY <1>1, <1>2, DeletedIsChanged
  <2>3. c.updated <= clock + 1
    BY <1>1, <1>2 DEF Deleted, Row
  <2>4. Change(q, c)
    BY <1>4 DEF Delete
  <2>. HIDE DEF c
  <2>. QED
    BY <2>1, <2>2, <2>3, <2>4, ChangeKeeps DEF Lifecycle
<1>5. CASE Restore(q)
  <2>1. request[q].op = "restore"
    BY <1>5 DEF Restore
  <2>. DEFINE c == Restored(seen[q], clock + 1)
  <2>2. c \in Row /\ DeletedLast(c) /\ ChangedFrom(seen[q], "restore", c)
    BY <1>1, <1>2, RestoredIsChanged
  <2>3. c.updated <= clock + 1
    BY <1>1, <1>2 DEF Restored, Row
  <2>4. Change(q, c)
    BY <1>5 DEF Restore
  <2>. HIDE DEF c
  <2>. QED
    BY <2>1, <2>2, <2>3, <2>4, ChangeKeeps DEF Lifecycle
<1>. QED
  BY <1>3, <1>4, <1>5
-----------------------------------------------------------------------------
\* A request that goes on with what it has loaded: an invitation or a removal that
\* is allowed, or an invitation that the primary key refuses.
LEMMA ChangeMembersKeeps == ASSUME CInv, NEW q \in Requests, ChangeMembers(q) PROVE CInv'
<1>1. /\ pc[q] = "members" /\ seenMembers[q] # {}
      /\ \/ request[q].op = "add" /\ request[q].user \notin seenMembers[q]
         \/ request[q].op = "remove" /\ request[q].user # Owner
      /\ pc' = [pc EXCEPT ![q] = "save"]
      /\ UNCHANGED <<row, members, clock, request, seen, seenMembers, overtaken>>
  BY DEF ChangeMembers, GoTo, IsNew, Removable
<1>2. TypeOK'
  BY <1>1 DEF CInv, TypeOK
<1>3. OwnerIsParticipant' /\ DeletionIsLastChange' /\ RowIsPast'
  BY <1>1 DEF CInv, OwnerIsParticipant, DeletionIsLastChange, RowIsPast
<1>4. RequestsAreReal' /\ NothingLoaded'
  BY <1>1 DEF CInv, TypeOK, RequestsAreReal, NothingLoaded
<1>5. CopiesAreSound' /\ ChecksHold' /\ ConflictNeedsOverlap'
  BY <1>1 DEF CInv, TypeOK, CopiesAreSound, ChecksHold, ConflictNeedsOverlap, DeletedLast
<1>6. NotOvertakenIsCurrent'
  BY <1>1 DEF CInv, TypeOK, NotOvertakenIsCurrent, ChangedFrom, Lifecycle
<1>. QED
  BY <1>2, <1>3, <1>4, <1>5, <1>6 DEF CInv

\* The membership was not there when the request looked, so another has written.
LEMMA InsertConflictKeeps == ASSUME CInv, NEW q \in Requests, InsertConflict(q) PROVE CInv'
<1>1. /\ pc[q] = "save" /\ request[q].op = "add" /\ request[q].user \in members
      /\ pc' = [pc EXCEPT ![q] = "conflict"]
      /\ UNCHANGED <<row, members, clock, request, seen, seenMembers, overtaken>>
  BY DEF InsertConflict, GoTo
<1>2. q \in overtaken
  BY <1>1 DEF CInv, ChecksHold, NotOvertakenIsCurrent
<1>3. TypeOK'
  BY <1>1 DEF CInv, TypeOK
<1>4. OwnerIsParticipant' /\ DeletionIsLastChange' /\ RowIsPast'
  BY <1>1 DEF CInv, OwnerIsParticipant, DeletionIsLastChange, RowIsPast
<1>5. RequestsAreReal' /\ NothingLoaded'
  BY <1>1 DEF CInv, TypeOK, RequestsAreReal, NothingLoaded
<1>6. CopiesAreSound' /\ ChecksHold' /\ ConflictNeedsOverlap'
  BY <1>1, <1>2 DEF CInv, TypeOK, CopiesAreSound, ChecksHold, ConflictNeedsOverlap, DeletedLast
<1>7. NotOvertakenIsCurrent'
  BY <1>1 DEF CInv, TypeOK, NotOvertakenIsCurrent, ChangedFrom, Lifecycle
<1>. QED
  BY <1>3, <1>4, <1>5, <1>6, <1>7 DEF CInv

\* The list is read after the check, of a conversation that exists.
LEMMA ListKeeps == ASSUME CInv, NEW q \in Requests, ListParticipants(q) PROVE CInv'
<1>1. /\ pc[q] = "members" /\ seenMembers[q] # {} /\ request[q].op = "list"
      /\ Authorized(q)
      /\ pc' = [pc EXCEPT ![q] = "listed"]
      /\ seenMembers' = [seenMembers EXCEPT ![q] = members]
      /\ UNCHANGED <<row, members, clock, request, seen, overtaken>>
  BY DEF ListParticipants, GoTo
<1>2. Owner \in members /\ (request[q].actor \in members \/ q \in overtaken)
  BY <1>1 DEF Authorized, CInv, RequestsAreReal, OwnerIsParticipant, NotOvertakenIsCurrent
<1>3. TypeOK'
  BY <1>1 DEF CInv, TypeOK
<1>4. OwnerIsParticipant' /\ DeletionIsLastChange' /\ RowIsPast'
  BY <1>1 DEF CInv, OwnerIsParticipant, DeletionIsLastChange, RowIsPast
<1>5. RequestsAreReal' /\ NothingLoaded'
  BY <1>1 DEF CInv, TypeOK, RequestsAreReal, NothingLoaded
<1>6. CopiesAreSound' /\ ChecksHold'
  BY <1>1 DEF CInv, TypeOK, CopiesAreSound, ChecksHold, DeletedLast
<1>7. NotOvertakenIsCurrent'
  BY <1>1 DEF CInv, TypeOK, NotOvertakenIsCurrent, ChangedFrom, Lifecycle
<1>8. ConflictNeedsOverlap'
  BY <1>1, <1>2 DEF CInv, TypeOK, ConflictNeedsOverlap
<1>. QED
  BY <1>3, <1>4, <1>5, <1>6, <1>7, <1>8 DEF CInv

\* A write overtakes whoever has loaded.
LEMMA WriteKeeps ==
    ASSUME CInv, NEW q \in Requests, pc[q] = "save", Finish(q), Overtake(q), UNCHANGED clock,
           row' \in Row, DeletedLast(row)', row'.updated <= clock,
           members' \in SUBSET Users, Owner \in members'
    PROVE  CInv'
<1>1. /\ pc' = [pc EXCEPT ![q] = "idle"]
      /\ request' = [request EXCEPT ![q] = NoRequest]
      /\ seen' = [seen EXCEPT ![q] = NoRow]
      /\ seenMembers' = [seenMembers EXCEPT ![q] = {}]
      /\ overtaken' = (overtaken \cup {p \in Requests : pc[p] \in {"members", "save"}}) \ {q}
  BY DEF Finish, GoTo, Overtake
<1>2. TypeOK'
  BY <1>1 DEF CInv, TypeOK
<1>3. OwnerIsParticipant' /\ DeletionIsLastChange' /\ RowIsPast'
  BY DEF OwnerIsParticipant, DeletionIsLastChange, RowIsPast, DeletedLast
<1>4. RequestsAreReal' /\ NothingLoaded'
  BY <1>1, RowFields DEF CInv, TypeOK, RequestsAreReal, NothingLoaded
<1>5. CopiesAreSound' /\ ChecksHold' /\ ConflictNeedsOverlap'
  BY <1>1 DEF CInv, TypeOK, CopiesAreSound, ChecksHold, ConflictNeedsOverlap, DeletedLast
<1>6. NotOvertakenIsCurrent'
  <2>1. \A p \in Requests \ overtaken' : pc'[p] \notin {"members", "save"}
    BY <1>1 DEF CInv, TypeOK
  <2>. QED
    BY <2>1 DEF NotOvertakenIsCurrent
<1>. QED
  BY <1>2, <1>3, <1>4, <1>5, <1>6 DEF CInv

LEMMA SaveKeeps == ASSUME CInv, NEW q \in Requests, Save(q) PROVE CInv'
<1>1. /\ pc[q] = "save" /\ row' = seen[q] /\ Finish(q) /\ Overtake(q)
      /\ UNCHANGED <<members, clock>>
  BY DEF Save
<1>2. seen[q] \in Row /\ DeletedLast(seen[q]) /\ seen[q].updated <= clock
  BY <1>1 DEF CInv, TypeOK, CopiesAreSound
<1>3. members \in SUBSET Users /\ Owner \in members
  BY <1>1 DEF CInv, TypeOK, RequestsAreReal, OwnerIsParticipant
<1>4. row' \in Row /\ DeletedLast(row)' /\ row'.updated <= clock
  BY <1>1, <1>2 DEF DeletedLast
<1>. QED
  BY <1>1, <1>3, <1>4, WriteKeeps

LEMMA SaveMembersKeeps == ASSUME CInv, NEW q \in Requests, SaveMembers(q) PROVE CInv'
<1>1. /\ pc[q] = "save" /\ Finish(q) /\ Overtake(q) /\ UNCHANGED <<row, clock>>
  BY DEF SaveMembers
<1>2. row \in Row /\ DeletedLast(row) /\ row.updated <= clock
  BY <1>1 DEF CInv, TypeOK, RequestsAreReal, DeletionIsLastChange, DeletedLast, RowIsPast
<1>3. members \in SUBSET Users /\ Owner \in members /\ request[q] \in Request
  BY <1>1 DEF CInv, TypeOK, RequestsAreReal, OwnerIsParticipant
<1>4. members' \in SUBSET Users /\ Owner \in members'
  BY <1>1, <1>3, RequestFields DEF SaveMembers, CInv, ChecksHold
<1>5. row' \in Row /\ DeletedLast(row)' /\ row'.updated <= clock
  BY <1>1, <1>2 DEF DeletedLast
<1>. QED
  BY <1>1, <1>4, <1>5, WriteKeeps
-----------------------------------------------------------------------------
LEMMA ConversationsStep == CInv /\ [Next]_vars => CInv'
<1>. SUFFICES ASSUME CInv, [Next]_vars PROVE CInv'
  OBVIOUS
<1>1. ASSUME NEW q \in Requests, NotFound(q) PROVE CInv'
  <2>1. q \notin overtaken
    BY <1>1 DEF NotFound, CInv, RequestsAreReal
  <2>. QED
    BY <1>1, <2>1, EndKeeps DEF NotFound
<1>2. ASSUME NEW q \in Requests, Refuse(q) \/ InviteMember(q) \/ Respond(q) \/ Abort(q)
      PROVE  CInv'
  BY <1>2, EndKeeps DEF Refuse, InviteMember, Respond, Abort
<1>3. CASE UNCHANGED vars
  <2>1. TypeOK' /\ RequestsAreReal' /\ NothingLoaded'
    BY <1>3 DEF vars, CInv, TypeOK, RequestsAreReal, NothingLoaded
  <2>2. OwnerIsParticipant' /\ DeletionIsLastChange' /\ RowIsPast'
    BY <1>3 DEF vars, CInv, OwnerIsParticipant, DeletionIsLastChange, RowIsPast
  <2>3. CopiesAreSound' /\ ChecksHold' /\ ConflictNeedsOverlap'
    BY <1>3 DEF vars, CInv, CopiesAreSound, ChecksHold, ConflictNeedsOverlap, DeletedLast
  <2>4. NotOvertakenIsCurrent'
    BY <1>3 DEF vars, CInv, NotOvertakenIsCurrent, ChangedFrom, Lifecycle
  <2>. QED
    BY <2>1, <2>2, <2>3, <2>4 DEF CInv
<1>. QED
  BY <1>1, <1>2, <1>3, CreateKeeps, BeginKeeps, LoadRowKeeps, LoadMembersKeeps, RowChangeKeeps,
     ChangeMembersKeeps, ListKeeps, SaveKeeps, SaveMembersKeeps, InsertConflictKeeps DEF Next

THEOREM ConversationsInvariant == Spec => []CInv
BY ConversationsInit, ConversationsStep, PTL DEF Spec

\* Every copy a request works on is of a row that exists, or of none.
THEOREM ConversationsTyped == Spec => []TypeOK
<1>1. CInv => TypeOK
  BY DEF CInv
<1>. QED
  BY <1>1, ConversationsInvariant, PTL
-----------------------------------------------------------------------------
\* "The owner is always a participant and can never be locked out": no removal,
\* whatever copy of the memberships it works on, takes the owner away.
THEOREM OwnerIsNeverLockedOut == Spec => []OwnerIsParticipant
<1>1. CInv => OwnerIsParticipant
  BY DEF CInv
<1>. QED
  BY <1>1, ConversationsInvariant, PTL

\* A deleted conversation was changed last by its deletion, for any number of
\* requests that write whole rows from old copies.
THEOREM NothingFollowsDeletion == Spec => []DeletionIsLastChange
<1>1. CInv => DeletionIsLastChange
  BY DEF CInv
<1>. QED
  BY <1>1, ConversationsInvariant, PTL

\* An invitation that fails on the primary key, and a list without the one who
\* asks for it, were overtaken by the write of another.
THEOREM ConflictsAreOverlaps == Spec => []ConflictNeedsOverlap
<1>1. CInv => ConflictNeedsOverlap
  BY DEF CInv
<1>. QED
  BY <1>1, ConversationsInvariant, PTL

\* Only a request that was overtaken can lose the update of another.
THEOREM LostUpdatesAreOverlaps == Spec => LostUpdateNeedsOverlap
<1>. DEFINE Lost(q) ==
       pc[q] = "save" /\ pc'[q] = "idle" /\ row' # row =>
          /\ row'.title # row.title => request[q].op = "rename"
          /\ row'.deleted # row.deleted => request[q].op # "rename"
          /\ request[q].op \in Lifecycle => (request[q].op = "delete") = (row.deleted = 0)
          /\ row'.updated > row.updated
<1>1. ASSUME CInv, Next, NEW q \in Requests \ overtaken, pc[q] = "save", pc'[q] = "idle",
             row' # row
      PROVE  Save(q)
  <2>1. ~Create
    BY <1>1 DEF Create, CInv, RequestsAreReal
  <2>2. PICK p \in Requests : Save(p)
    BY <1>1, <2>1 DEF Next, Begin, LoadRow, NotFound, LoadMembers, Refuse, Rename, Delete, Restore,
       Change, InviteMember, ChangeMembers, ListParticipants, Respond, SaveMembers, InsertConflict,
       Abort
  <2>3. pc' = [pc EXCEPT ![p] = "idle"]
    BY <2>2 DEF Save, Finish, GoTo
  <2>. QED
    BY <1>1, <2>2, <2>3 DEF CInv, TypeOK
<1>2. ASSUME CInv, NEW q \in Requests \ overtaken, Save(q), row' # row
      PROVE  /\ row'.title # row.title => request[q].op = "rename"
             /\ row'.deleted # row.deleted => request[q].op # "rename"
             /\ request[q].op \in Lifecycle => (request[q].op = "delete") = (row.deleted = 0)
             /\ row'.updated > row.updated
  <2>1. /\ row' = seen[q] /\ ChangedFrom(row, request[q].op, seen[q])
        /\ request[q].op \in Lifecycle \cup {"rename"}
    BY <1>2 DEF Save, CInv, NotOvertakenIsCurrent
  <2>. QED
    BY <1>2, <2>1 DEF ChangedFrom
<1>3. CInv /\ [Next]_vars => [\A q \in Requests \ overtaken : Lost(q)]_vars
  BY <1>1, <1>2
<1>. QED
  BY <1>3, ConversationsInvariant, PTL DEF Spec, LostUpdateNeedsOverlap
=============================================================================
