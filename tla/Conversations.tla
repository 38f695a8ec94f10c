---------------------------- MODULE Conversations ----------------------------
(***************************************************************************)
(* One conversation under concurrent REST requests.                        *)
(*                                                                         *)
(* A request loads the aggregate with two SELECTs (the row, then the       *)
(* memberships), changes the copy, and writes it back: ConversationReposi- *)
(* tory.update writes title, updated_at and deleted_at, all three, from    *)
(* the copy.  Nothing locks the row between the load and the write.        *)
(* TransactionalRoute commits before the response; the write and its       *)
(* commit are one step, since UPDATE keeps the row until the commit.       *)
(***************************************************************************)
EXTENDS Naturals

CONSTANTS
    Requests,   \* request handlers, on any replica
    Users,
    Owner,
    Titles,
    MaxTime     \* bound: readings of the clock

ASSUME ConversationsAssumption == Owner \in Users /\ MaxTime \in Nat

VARIABLES
    row,        \* the row of "conversations"; deleted = 0 stands for NULL
    members,    \* conversation_participants
    clock,      \* the last time read from the clock; no two readings are equal
    pc,         \* where each request is
    request,    \* what it asks for
    seen,       \* its copy of the row, then what it writes back
    seenMembers, \* its copy of the memberships, or the list it answers with
    overtaken   \* history: requests that others have written since they loaded

vars == <<row, members, clock, pc, request, seen, seenMembers, overtaken>>
-----------------------------------------------------------------------------
(* State *)

NoRow == [deleted |-> 0]
Row == [title : Titles, updated : 1..MaxTime, deleted : 0..MaxTime]

Lifecycle == {"delete", "restore"}
Request ==
         [op : {"rename"}, actor : Users, title : Titles]
    \cup [op : Lifecycle, actor : Users]
    \cup [op : {"add", "remove"}, actor : Users, user : Users]
    \cup [op : {"list"}, actor : Users]
NoRequest == [op |-> "none"]

\* Every variable has its type, and a request works on a row that exists.
TypeOK ==
    /\ row \in Row \cup {NoRow}
    /\ members \in SUBSET Users
    /\ clock \in 0..MaxTime
    /\ pc \in [Requests -> {"idle", "load", "members", "save", "conflict", "listed"}]
    /\ request \in [Requests -> Request \cup {NoRequest}]
    /\ seen \in [Requests -> Row \cup {NoRow}]
    /\ seenMembers \in [Requests -> SUBSET Users]
    /\ overtaken \in SUBSET Requests
    /\ \A q \in Requests : pc[q] \in {"members", "save"} => seen[q] \in Row

Init ==
    /\ row = NoRow
    /\ members = {}
    /\ clock = 0
    /\ pc = [q \in Requests |-> "idle"]
    /\ request = [q \in Requests |-> NoRequest]
    /\ seen = [q \in Requests |-> NoRow]
    /\ seenMembers = [q \in Requests |-> {}]
    /\ overtaken = {}

GoTo(q, there) == pc' = [pc EXCEPT ![q] = there]

\* The request is answered, with success or an error, and its session closed.
Finish(q) ==
    /\ GoTo(q, "idle")
    /\ request' = [request EXCEPT ![q] = NoRequest]
    /\ seen' = [seen EXCEPT ![q] = NoRow]
    /\ seenMembers' = [seenMembers EXCEPT ![q] = {}]
-----------------------------------------------------------------------------
(* Faults: variants of the definitions below that the properties tell from  *)
(* the code                                                                 *)

\* A missing conversation is not refused.
LoadAnything(q) ==
    /\ pc[q] = "load"
    /\ row.deleted = 0 \/ request[q].op = "restore"
    /\ GoTo(q, "members")
    /\ seen' = [seen EXCEPT ![q] = row]
    /\ UNCHANGED <<row, members, clock, request, seenMembers, overtaken>>

RestoredAlways(r, now) == [r EXCEPT !.deleted = 0, !.updated = now]
DeletedOnly(r, now) == [r EXCEPT !.deleted = now]
RemovableIfMember(q) == request[q].user \in seenMembers[q]
AlwaysNew(q) == TRUE
-----------------------------------------------------------------------------
(* The aggregate: Conversation *)

Renamed(r, title, now) == [r EXCEPT !.title = title, !.updated = now]

Deleted(r, now) ==
    IF r.deleted = 0 THEN [r EXCEPT !.deleted = now, !.updated = now] ELSE r

Restored(r, now) ==
    IF r.deleted # 0 THEN [r EXCEPT !.deleted = 0, !.updated = now] ELSE r

\* add_participant: is the membership new?
IsNew(q) == request[q].user \notin seenMembers[q]

\* remove_participant refuses the owner, and who is not a member.
Removable(q) == request[q].user # Owner /\ request[q].user \in seenMembers[q]

\* The owner administers; a participant may remove themselves, and read.
Authorized(q) ==
    \/ request[q].actor = Owner /\ request[q].op # "list"
    \/ request[q].op = "remove" /\ request[q].actor = request[q].user
    \/ request[q].op = "list" /\ request[q].actor \in seenMembers[q]
-----------------------------------------------------------------------------
(* Requests *)

\* CreateConversation: the row and the owner's membership in one transaction.
Create ==
    /\ row = NoRow
    /\ clock < MaxTime
    /\ clock' = clock + 1
    /\ \E t \in Titles : row' = [title |-> t, updated |-> clock + 1, deleted |-> 0]
    /\ members' = {Owner}
    /\ UNCHANGED <<pc, request, seen, seenMembers, overtaken>>

Begin(q) ==
    /\ pc[q] = "idle"
    /\ GoTo(q, "load")
    /\ request' \in {[request EXCEPT ![q] = r] : r \in Request}
    /\ UNCHANGED <<row, members, clock, seen, seenMembers, overtaken>>

\* ConversationRepository.get does not find a deleted conversation;
\* get_including_deleted, which only restore calls, does.
LoadRow(q) ==
    /\ pc[q] = "load"
    /\ row # NoRow
    /\ row.deleted = 0 \/ request[q].op = "restore"
    /\ GoTo(q, "members")
    /\ seen' = [seen EXCEPT ![q] = row]
    /\ UNCHANGED <<row, members, clock, request, seenMembers, overtaken>>

NotFound(q) ==
    /\ pc[q] = "load"
    /\ row = NoRow \/ (row.deleted # 0 /\ request[q].op # "restore")
    /\ Finish(q)
    /\ UNCHANGED <<row, members, clock, overtaken>>

\* The memberships are loaded by a statement of their own.
LoadMembers(q) ==
    /\ pc[q] = "members"
    /\ seenMembers[q] = {}
    /\ seenMembers' = [seenMembers EXCEPT ![q] = members]
    /\ UNCHANGED <<row, members, clock, pc, request, seen, overtaken>>

\* ensure_owned_by, ensure_participant, and what remove_participant refuses.
Refuse(q) ==
    /\ pc[q] = "members" /\ seenMembers[q] # {}
    /\ ~Authorized(q) \/ (request[q].op = "remove" /\ ~Removable(q))
    /\ Finish(q)
    /\ overtaken' = overtaken \ {q}
    /\ UNCHANGED <<row, members, clock>>

\* The change to the copy, which reads the clock.
Change(q, changed) ==
    /\ pc[q] = "members" /\ seenMembers[q] # {}
    /\ Authorized(q)
    /\ clock < MaxTime
    /\ clock' = clock + 1
    /\ seen' = [seen EXCEPT ![q] = changed]
    /\ GoTo(q, "save")
    /\ UNCHANGED <<row, members, request, seenMembers, overtaken>>

Rename(q) ==
    request[q].op = "rename" /\ Change(q, Renamed(seen[q], request[q].title, clock + 1))
Delete(q) ==
    request[q].op = "delete" /\ Change(q, Deleted(seen[q], clock + 1))
Restore(q) ==
    request[q].op = "restore" /\ Change(q, Restored(seen[q], clock + 1))

\* An invitation of a member, once the directory has found the user, writes
\* nothing.
InviteMember(q) ==
    /\ pc[q] = "members" /\ seenMembers[q] # {}
    /\ request[q].op = "add" /\ Authorized(q) /\ ~IsNew(q)
    /\ Finish(q)
    /\ overtaken' = overtaken \ {q}
    /\ UNCHANGED <<row, members, clock>>

ChangeMembers(q) ==
    /\ pc[q] = "members" /\ seenMembers[q] # {}
    /\ Authorized(q)
    /\ \/ request[q].op = "add" /\ IsNew(q)
       \/ request[q].op = "remove" /\ Removable(q)
    /\ GoTo(q, "save")
    /\ UNCHANGED <<row, members, clock, request, seen, seenMembers, overtaken>>

\* The list of members is read by a third statement, after the check.
ListParticipants(q) ==
    /\ pc[q] = "members" /\ seenMembers[q] # {}
    /\ request[q].op = "list" /\ Authorized(q)
    /\ seenMembers' = [seenMembers EXCEPT ![q] = members]
    /\ GoTo(q, "listed")
    /\ UNCHANGED <<row, members, clock, request, seen, overtaken>>

Respond(q) ==
    /\ pc[q] = "listed"
    /\ Finish(q)
    /\ overtaken' = overtaken \ {q}
    /\ UNCHANGED <<row, members, clock>>

\* A request that has loaded is overtaken by each write of another.
Overtake(q) ==
    overtaken' = (overtaken \cup {p \in Requests : pc[p] \in {"members", "save"}}) \ {q}

Save(q) ==
    /\ pc[q] = "save"
    /\ request[q].op \in Lifecycle \cup {"rename"}
    /\ row' = seen[q]
    /\ Finish(q)
    /\ Overtake(q)
    /\ UNCHANGED <<members, clock>>

SaveMembers(q) ==
    /\ pc[q] = "save"
    /\ \/ request[q].op = "add" /\ request[q].user \notin members
          /\ members' = members \cup {request[q].user}
       \/ request[q].op = "remove" /\ members' = members \ {request[q].user}
    /\ Finish(q)
    /\ Overtake(q)
    /\ UNCHANGED <<row, clock>>

\* The primary key refuses a second membership; the transaction rolls back.
InsertConflict(q) ==
    /\ pc[q] = "save"
    /\ request[q].op = "add" /\ request[q].user \in members
    /\ GoTo(q, "conflict")
    /\ UNCHANGED <<row, members, clock, request, seen, seenMembers, overtaken>>

\* A conflict, a failed statement or a crash ends the request, with no effect.
Abort(q) ==
    /\ pc[q] # "idle"
    /\ Finish(q)
    /\ overtaken' = overtaken \ {q}
    /\ UNCHANGED <<row, members, clock>>
-----------------------------------------------------------------------------
Next ==
    \/ Create
    \/ \E q \in Requests :
          \/ Begin(q) \/ LoadRow(q) \/ NotFound(q) \/ LoadMembers(q) \/ Refuse(q)
          \/ Rename(q) \/ Delete(q) \/ Restore(q) \/ InviteMember(q) \/ ChangeMembers(q)
          \/ ListParticipants(q) \/ Respond(q)
          \/ Save(q) \/ SaveMembers(q) \/ InsertConflict(q) \/ Abort(q)

Spec == Init /\ [][Next]_vars
-----------------------------------------------------------------------------
(* Properties *)

\* SYSTEM_GUIDE: "the owner is always a participant and can never be locked
\* out", whatever copies the requests work on.
OwnerIsParticipant == row # NoRow => Owner \in members

\* A deletion is the last change of a deleted conversation: no rename that
\* races with it writes to a deleted row and leaves it deleted.
DeletionIsLastChange == row.deleted # 0 => row.deleted = row.updated

\* Only a request that another overtook can lose an update: any other leaves
\* alone what it was not asked to change, never undoes a deletion unless it is
\* a restore, never moves updated_at back, and restores an active conversation
\* without a change.
LostUpdateNeedsOverlap ==
    [][\A q \in Requests \ overtaken :
          pc[q] = "save" /\ pc'[q] = "idle" /\ row' # row =>
             /\ row'.title # row.title => request[q].op = "rename"
             /\ row'.deleted # row.deleted => request[q].op # "rename"
             /\ request[q].op \in Lifecycle =>
                   (request[q].op = "delete") = (row.deleted = 0)
             /\ row'.updated > row.updated]_vars

\* An invitation fails on the primary key, or a list of members lacks the one
\* who asked for it, only if another request wrote to the conversation after it
\* had been loaded; the owner is on every list.
ConflictNeedsOverlap ==
    \A q \in Requests :
        /\ pc[q] = "conflict" => q \in overtaken
        /\ pc[q] = "listed" => /\ Owner \in seenMembers[q]
                               /\ request[q].actor \in seenMembers[q] \/ q \in overtaken

\* SYSTEM_GUIDE: restoring "an active conversation returns 200 and changes
\* nothing, including updated_at".
RestoreOfActiveChangesNothing ==
    [][\A q \in Requests :
          pc[q] = "save" /\ pc'[q] = "idle" /\ request[q].op = "restore" /\ row.deleted = 0
             => row' = row]_vars
=============================================================================
