---------------------------- MODULE RefreshTokens ----------------------------
(***************************************************************************)
(* Refresh tokens: issued at login, rotated at refresh.  Whose they are    *)
(* makes no difference to any step.                                        *)
(*                                                                         *)
(* A refresh loads the token, revokes the copy and issues a successor, and *)
(* writes both in the transaction of the request.  Nothing locks the row   *)
(* between the load and the write, so two refreshes that overlap may both  *)
(* rotate one token; the properties say what holds nevertheless.           *)
(***************************************************************************)
EXTENDS Naturals

CONSTANTS
    Requests,
    Tokens,     \* the jti values that are generated
    NoToken,    \* what a client may present instead: unknown, or with a wrong secret
    TTL,        \* refresh_token_ttl_seconds
    MaxTime     \* bound: ticks of the clock

ASSUME RefreshAssumption ==
    NoToken \notin Tokens /\ TTL \in Nat \ {0} /\ MaxTime \in Nat \ {0}

VARIABLES
    stored,     \* the rows of "refresh_tokens"
    clock,
    pc, presented,
    seen,       \* the copy of the presented token each request loaded
    late        \* history: requests that began with a token no longer active

vars == <<stored, clock, pc, presented, seen, late>>
-----------------------------------------------------------------------------
(* State *)

\* revoked = 0 stands for NULL; "parent" is history: the token it replaced.
Token == [expires : Nat, revoked : 0..MaxTime, parent : Tokens \cup {NoToken}]
NoRow == [expires |-> 0, revoked |-> 0, parent |-> NoToken]

Exists(t) == stored[t] # NoRow

\* RefreshToken.is_active.
IsActive(token) == token.revoked = 0 /\ clock < token.expires

\* Every variable has its type, and a request that is about to write has
\* revoked its copy.
TypeOK ==
    /\ stored \in [Tokens -> Token]
    /\ clock \in 1..MaxTime
    /\ pc \in [Requests -> {"idle", "load", "rotate", "commit"}]
    /\ presented \in [Requests -> Tokens \cup {NoToken}]
    /\ seen \in [Requests -> Token]
    /\ late \in SUBSET Requests
    /\ \A q \in Requests : pc[q] = "commit" => seen[q].revoked \in 1..clock

Init ==
    /\ stored = [t \in Tokens |-> NoRow]
    /\ clock = 1
    /\ pc = [q \in Requests |-> "idle"]
    /\ presented = [q \in Requests |-> NoToken]
    /\ seen = [q \in Requests |-> NoRow]
    /\ late = {}

Issued(now, parent) == [expires |-> now + TTL, revoked |-> 0, parent |-> parent]

GoTo(q, there) == pc' = [pc EXCEPT ![q] = there]

Finish(q) ==
    /\ GoTo(q, "idle")
    /\ presented' = [presented EXCEPT ![q] = NoToken]
    /\ seen' = [seen EXCEPT ![q] = NoRow]
    /\ late' = late \ {q}
    /\ UNCHANGED clock
-----------------------------------------------------------------------------
(* Faults: variants of the definitions below that the properties tell from  *)
(* the code                                                                 *)

\* The revocation is not looked at.
RotatableUntilExpiry(q) == clock < seen[q].expires

\* The successor is added and the old token is not saved.
RowsUnsaved(q, t) == [stored EXCEPT ![t] = Issued(seen[q].revoked, presented[q])]
-----------------------------------------------------------------------------
(* RefreshToken *)

\* revoke keeps the first timestamp.
Revoked(token, now) ==
    IF token.revoked = 0 THEN [token EXCEPT !.revoked = now] ELSE token

\* rotate refuses an inactive token: one revoked, or expired, by its copy.
Rotatable(q) == IsActive(seen[q])

\* What a rotation writes: save merges the whole copy, add inserts the
\* successor t.
Rows(q, t) ==
    [stored EXCEPT ![presented[q]] = seen[q], ![t] = Issued(seen[q].revoked, presented[q])]
-----------------------------------------------------------------------------
Tick ==
    /\ clock < MaxTime
    /\ clock' = clock + 1
    /\ UNCHANGED <<stored, pc, presented, seen, late>>

\* AuthenticateUser, once the password was verified (module Accounts).
Issue(t) ==
    /\ ~Exists(t)
    /\ stored' = [stored EXCEPT ![t] = Issued(clock, NoToken)]
    /\ UNCHANGED <<clock, pc, presented, seen, late>>

Begin(q, t) ==
    /\ pc[q] = "idle"
    /\ GoTo(q, "load")
    /\ presented' = [presented EXCEPT ![q] = t]
    /\ late' = IF t # NoToken /\ IsActive(stored[t]) THEN late ELSE late \cup {q}
    /\ UNCHANGED <<stored, clock, seen>>

Load(q) ==
    /\ pc[q] = "load"
    /\ presented[q] # NoToken
    /\ GoTo(q, "rotate")
    /\ seen' = [seen EXCEPT ![q] = stored[presented[q]]]
    /\ UNCHANGED <<stored, clock, presented, late>>

Rotate(q) ==
    /\ pc[q] = "rotate"
    /\ Rotatable(q)
    /\ GoTo(q, "commit")
    /\ seen' = [seen EXCEPT ![q] = Revoked(@, clock)]
    /\ UNCHANGED <<stored, clock, presented, late>>

\* The old token and its successor are written in one transaction.
Commit(q) ==
    /\ pc[q] = "commit"
    /\ \E t \in Tokens : ~Exists(t) /\ stored' = Rows(q, t)
    /\ Finish(q)

\* Unknown and inactive tokens are refused alike.
Refuse(q) ==
    /\ \/ pc[q] = "load" /\ presented[q] = NoToken
       \/ pc[q] = "rotate" /\ ~Rotatable(q)
    /\ Finish(q)
    /\ UNCHANGED stored

\* A failed statement or a crash: the transaction is rolled back.
Fail(q) ==
    /\ pc[q] # "idle"
    /\ Finish(q)
    /\ UNCHANGED stored

RefreshStep(q) ==
    \/ Load(q) \/ Rotate(q) \/ Commit(q) \/ Refuse(q) \/ Fail(q)
    \/ \E t \in {u \in Tokens : Exists(u)} \cup {NoToken} : Begin(q, t)

Next ==
    \/ Tick
    \/ \E t \in Tokens : Issue(t)
    \/ \E q \in Requests : RefreshStep(q)

Spec == Init /\ [][Next]_vars
-----------------------------------------------------------------------------
(* Properties *)

\* refresh_access_token: rotate "rejects replay of an already-used refresh
\* token".  A refresh that begins after its token was rotated, or has expired,
\* never issues a successor, whatever other requests write meanwhile.
SpentTokenIsRefused == \A q \in late : pc[q] # "commit"

\* A token and its successor are never both active: the two writes of a
\* rotation are one.
SuccessorReplacesParent ==
    \A t \in Tokens : stored[t].parent # NoToken => stored[stored[t].parent].revoked # 0
=============================================================================
