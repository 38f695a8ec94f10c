---------------------------- MODULE Accounts_proofs ----------------------------
(***************************************************************************)
(* Proofs about RefreshTokens, for any requests, tokens and bounds, and    *)
(* about Accounts, for any sign-ups, addresses and spellings.              *)
(***************************************************************************)
EXTENDS Accounts, TLAPS

-----------------------------------------------------------------------------
(***************************************************************************)
(* 1. Refresh tokens                                                       *)
(*                                                                         *)
(* Nothing locks a row, so a request may hold an old copy of it.  What the *)
(* proofs rest on is that a row changes in one way only: its revocation is *)
(* written once more, and never undone.                                    *)
(***************************************************************************)
Spent(token) == token.revoked # 0 \/ clock >= token.expires

\* A request presents a row or nothing.  Its copy of the row may lack the
\* revocation only.
CopiesAreOfRows ==
    \A q \in Requests :
        /\ presented[q] # NoToken => Exists(presented[q])
        /\ pc[q] \in {"rotate", "commit"} =>
              /\ presented[q] # NoToken
              /\ seen[q].expires = stored[presented[q]].expires
              /\ seen[q].parent = stored[presented[q]].parent

\* What a late request presents, and its copy, stays spent; it never rotates.
LateAreSpent ==
    \A q \in late :
        /\ pc[q] \in {"load", "rotate"}
        /\ presented[q] # NoToken => Spent(stored[presented[q]])
        /\ pc[q] = "rotate" => Spent(seen[q])

RInv ==
    /\ TypeOK
    /\ CopiesAreOfRows
    /\ LateAreSpent
    /\ SuccessorReplacesParent
-----------------------------------------------------------------------------
(* Rows *)

\* An issued token is a row: its expiry lies ahead.
LEMMA IssuedIsRow ==
    ASSUME NEW now \in Nat \ {0}, NEW p \in Tokens \cup {NoToken}
    PROVE  /\ Issued(now, p) \in Token
           /\ Issued(now, p).parent = p
           /\ Issued(now, p) # NoRow
BY RefreshAssumption DEF Issued, Token, NoRow

LEMMA NoRowIsToken == NoRow \in Token /\ NoRow.parent = NoToken /\ NoRow.revoked = 0
BY RefreshAssumption DEF NoRow, Token

\* A revocation changes nothing else, and leaves the token revoked.
LEMMA RevokedIsSpent ==
    ASSUME NEW t \in Token, NEW now \in 1..MaxTime
    PROVE  /\ Revoked(t, now) \in Token
           /\ Revoked(t, now).revoked # 0
           /\ Revoked(t, now).expires = t.expires
           /\ Revoked(t, now).parent = t.parent
BY RefreshAssumption DEF Revoked, Token
-----------------------------------------------------------------------------
\* No token, and no request under way.
LEMMA RefreshInit == Init => RInv
<1>. SUFFICES ASSUME Init PROVE RInv
  OBVIOUS
<1>1. 1 \in 1..MaxTime
  BY RefreshAssumption
<1>2. TypeOK
  BY <1>1, NoRowIsToken DEF Init, TypeOK
<1>3. CopiesAreOfRows /\ LateAreSpent
  BY DEF Init, CopiesAreOfRows, LateAreSpent
<1>4. SuccessorReplacesParent
  BY NoRowIsToken DEF Init, SuccessorReplacesParent
<1>. QED
  BY <1>2, <1>3, <1>4 DEF RInv

\* The passing of time spends more tokens.
LEMMA TickKeeps == ASSUME RInv, Tick PROVE RInv'
<1>1. clock' = clock + 1 /\ clock < MaxTime /\ UNCHANGED <<stored, pc, presented, seen, late>>
  BY DEF Tick
<1>2. clock \in Nat /\ clock' \in Nat /\ clock' > clock
  BY <1>1 DEF RInv, TypeOK
<1>3. TypeOK'
  <2>1. clock' \in 1..MaxTime /\ 1..clock \subseteq 1..clock'
    BY <1>1, RefreshAssumption DEF RInv, TypeOK
  <2>. QED
    BY <1>1, <2>1 DEF RInv, TypeOK
<1>4. CopiesAreOfRows' /\ SuccessorReplacesParent'
  BY <1>1 DEF RInv, CopiesAreOfRows, SuccessorReplacesParent, Exists
<1>5. LateAreSpent'
  <2>1. ASSUME NEW t \in Token, Spent(t) PROVE Spent(t)'
    BY <1>2, <2>1 DEF Spent, Token
  <2>. SUFFICES ASSUME NEW q \in late
                PROVE  /\ pc[q] \in {"load", "rotate"}
                       /\ presented[q] # NoToken => Spent(stored[presented[q]])'
                       /\ pc[q] = "rotate" => Spent(seen[q])'
    BY <1>1 DEF LateAreSpent
  <2>2. q \in Requests /\ seen[q] \in Token
        /\ (presented[q] # NoToken => stored[presented[q]] \in Token)
    BY DEF RInv, TypeOK
  <2>. QED
    BY <1>1, <1>2, <2>2 DEF RInv, LateAreSpent, Spent, Token
<1>. QED
  BY <1>3, <1>4, <1>5 DEF RInv

\* A login writes a row that was not there, so no copy is of it and no token
\* has it for a parent.
LEMMA IssueKeeps == ASSUME RInv, NEW t \in Tokens, Issue(t) PROVE RInv'
<1>1. /\ ~Exists(t) /\ stored' = [stored EXCEPT ![t] = Issued(clock, NoToken)]
      /\ UNCHANGED <<clock, pc, presented, seen, late>>
  BY DEF Issue
<1>2. /\ Issued(clock, NoToken) \in Token /\ Issued(clock, NoToken).parent = NoToken
      /\ Issued(clock, NoToken) # NoRow
  BY IssuedIsRow DEF RInv, TypeOK
<1>3. TypeOK'
  BY <1>1, <1>2 DEF RInv, TypeOK
<1>4. CopiesAreOfRows'
  BY <1>1, <1>2 DEF RInv, TypeOK, CopiesAreOfRows, Exists
<1>5. SuccessorReplacesParent'
  <2>. SUFFICES ASSUME NEW u \in Tokens, stored'[u].parent # NoToken
                PROVE  stored'[stored'[u].parent].revoked # 0
    BY DEF SuccessorReplacesParent
  <2>1. u # t /\ stored'[u] = stored[u]
    BY <1>1, <1>2 DEF RInv, TypeOK
  <2>2. stored[u].parent \in Tokens /\ stored[stored[u].parent].revoked # 0
    BY <2>1 DEF RInv, TypeOK, SuccessorReplacesParent, Token
  <2>3. stored[u].parent # t
    BY <1>1, <2>2, NoRowIsToken DEF Exists
  <2>. QED
    BY <1>1, <2>1, <2>2, <2>3 DEF RInv, TypeOK
<1>6. LateAreSpent'
  <2>. SUFFICES ASSUME NEW q \in late, presented[q] # NoToken
                PROVE  Spent(stored[presented[q]])'
    BY <1>1 DEF RInv, LateAreSpent, Spent
  <2>1. presented[q] \in Tokens /\ Spent(stored[presented[q]])
    BY DEF RInv, TypeOK, LateAreSpent
  <2>2. presented[q] # t
    BY <1>1, <2>1 DEF RInv, TypeOK, CopiesAreOfRows
  <2>. QED
    BY <1>1, <2>1, <2>2 DEF RInv, TypeOK, Spent
<1>. QED
  BY <1>3, <1>4, <1>5, <1>6 DEF RInv
-----------------------------------------------------------------------------
\* A request that ends without a write leaves the rows, and what other requests
\* know of them, alone.
LEMMA FinishKeeps ==
    ASSUME RInv, NEW q \in Requests, Finish(q), UNCHANGED stored
    PROVE  RInv'
<1>1. /\ pc' = [pc EXCEPT ![q] = "idle"]
      /\ presented' = [presented EXCEPT ![q] = NoToken]
      /\ seen' = [seen EXCEPT ![q] = NoRow]
      /\ late' = late \ {q} /\ UNCHANGED <<stored, clock>>
  BY DEF Finish, GoTo
<1>2. TypeOK'
  BY <1>1, NoRowIsToken DEF RInv, TypeOK
<1>3. CopiesAreOfRows'
  BY <1>1 DEF RInv, TypeOK, CopiesAreOfRows, Exists
<1>4. LateAreSpent'
  BY <1>1 DEF RInv, TypeOK, LateAreSpent, Spent
<1>5. SuccessorReplacesParent'
  BY <1>1 DEF RInv, SuccessorReplacesParent
<1>. QED
  BY <1>2, <1>3, <1>4, <1>5 DEF RInv

\* A request is late if the token it presents is spent already.
LEMMA BeginKeeps ==
    ASSUME RInv, NEW q \in Requests, NEW t \in {u \in Tokens : Exists(u)} \cup {NoToken}, Begin(q, t)
    PROVE  RInv'
<1>1. /\ pc[q] = "idle" /\ pc' = [pc EXCEPT ![q] = "load"]
      /\ presented' = [presented EXCEPT ![q] = t]
      /\ late' = IF t # NoToken /\ IsActive(stored[t]) THEN late ELSE late \cup {q}
      /\ UNCHANGED <<stored, clock, seen>>
  BY DEF Begin, GoTo
<1>2. TypeOK'
  BY <1>1 DEF RInv, TypeOK
<1>3. CopiesAreOfRows' /\ SuccessorReplacesParent'
  BY <1>1 DEF RInv, TypeOK, CopiesAreOfRows, SuccessorReplacesParent, Exists
<1>4. LateAreSpent'
  <2>. SUFFICES ASSUME NEW p \in late'
                PROVE  /\ pc'[p] \in {"load", "rotate"}
                       /\ presented'[p] # NoToken => Spent(stored[presented'[p]])
                       /\ pc'[p] = "rotate" => Spent(seen[p])
    BY <1>1 DEF LateAreSpent, Spent
  <2>1. CASE p # q
    BY <1>1, <2>1 DEF RInv, TypeOK, LateAreSpent
  <2>2. CASE p = q
    <3>1. q \notin late
      BY <1>1 DEF RInv, LateAreSpent
    <3>2. t # NoToken => ~IsActive(stored[t])
      BY <1>1, <2>2, <3>1
    <3>3. t # NoToken => Spent(stored[t])
      BY <3>2 DEF IsActive, Spent, RInv, TypeOK, Token
    <3>. QED
      BY <1>1, <2>2, <3>3 DEF RInv, TypeOK
  <2>. QED
    BY <2>1, <2>2
<1>. QED
  BY <1>2, <1>3, <1>4 DEF RInv

\* A request loads the row of what it presents.
LEMMA LoadKeeps == ASSUME RInv, NEW q \in Requests, Load(q) PROVE RInv'
<1>1. /\ pc[q] = "load" /\ presented[q] # NoToken
      /\ pc' = [pc EXCEPT ![q] = "rotate"]
      /\ seen' = [seen EXCEPT ![q] = stored[presented[q]]]
      /\ UNCHANGED <<stored, clock, presented, late>>
  BY DEF Load, GoTo
<1>2. presented[q] \in Tokens /\ stored[presented[q]] \in Token
  BY <1>1 DEF RInv, TypeOK
<1>3. TypeOK'
  BY <1>1, <1>2 DEF RInv, TypeOK
<1>4. CopiesAreOfRows' /\ SuccessorReplacesParent'
  BY <1>1, <1>2 DEF RInv, TypeOK, CopiesAreOfRows, SuccessorReplacesParent, Exists
<1>5. LateAreSpent'
  BY <1>1, <1>2 DEF RInv, TypeOK, LateAreSpent, Spent
<1>. QED
  BY <1>3, <1>4, <1>5 DEF RInv

\* Only a copy that is active is rotated, so the request is not late.
LEMMA RotateKeeps == ASSUME RInv, NEW q \in Requests, Rotate(q) PROVE RInv'
<1>1. /\ pc[q] = "rotate" /\ IsActive(seen[q])
      /\ pc' = [pc EXCEPT ![q] = "commit"]
      /\ seen' = [seen EXCEPT ![q] = Revoked(seen[q], clock)]
      /\ UNCHANGED <<stored, clock, presented, late>>
  BY DEF Rotate, Rotatable, GoTo
<1>2. seen[q] \in Token /\ clock \in 1..MaxTime
  BY DEF RInv, TypeOK
<1>3. seen[q].revoked = 0
  BY <1>1 DEF IsActive
<1>4. /\ Revoked(seen[q], clock) \in Token
      /\ Revoked(seen[q], clock).revoked = clock
      /\ Revoked(seen[q], clock).expires = seen[q].expires
      /\ Revoked(seen[q], clock).parent = seen[q].parent
  BY <1>2, <1>3 DEF Revoked, Token
<1>5. TypeOK'
  BY <1>1, <1>2, <1>4 DEF RInv, TypeOK
<1>6. CopiesAreOfRows' /\ SuccessorReplacesParent'
  BY <1>1, <1>4 DEF RInv, TypeOK, CopiesAreOfRows, SuccessorReplacesParent, Exists
<1>7. q \notin late
  BY <1>1, <1>2 DEF RInv, LateAreSpent, Spent, IsActive, Token
<1>8. LateAreSpent'
  BY <1>1, <1>7 DEF RInv, TypeOK, LateAreSpent, Spent
<1>. QED
  BY <1>5, <1>6, <1>8 DEF RInv

\* The two rows are written at once: the old one, revoked for good, and one that
\* was not there.
LEMMA CommitKeeps == ASSUME RInv, NEW q \in Requests, Commit(q) PROVE RInv'
<1>1. PICK t \in Tokens : ~Exists(t) /\ stored' = Rows(q, t)
  BY DEF Commit
<1>. DEFINE old == presented[q]
            new == Issued(seen[q].revoked, old)
<1>2. /\ pc[q] = "commit"
      /\ pc' = [pc EXCEPT ![q] = "idle"]
      /\ presented' = [presented EXCEPT ![q] = NoToken]
      /\ seen' = [seen EXCEPT ![q] = NoRow]
      /\ late' = late \ {q} /\ UNCHANGED clock
  BY DEF Commit, Finish, GoTo
<1>3. /\ old \in Tokens /\ old # t /\ seen[q] \in Token
      /\ seen[q].revoked \in Nat \ {0}
      /\ seen[q].expires = stored[old].expires /\ seen[q].parent = stored[old].parent
  BY <1>1, <1>2 DEF RInv, TypeOK, CopiesAreOfRows
<1>4. new \in Token /\ new.parent = old /\ new # NoRow
  BY <1>3, IssuedIsRow
<1>. HIDE DEF new
<1>5. stored' = [stored EXCEPT ![old] = seen[q], ![t] = new]
  BY <1>1 DEF Rows, new
<1>6. /\ stored'[t] = new /\ stored'[old] = seen[q]
      /\ \A u \in Tokens \ {t, old} : stored'[u] = stored[u]
      /\ stored' \in [Tokens -> Token]
  BY <1>3, <1>4, <1>5 DEF RInv, TypeOK
<1>7. \A u \in Tokens : Exists(u) =>
         /\ u # t /\ stored'[u] # NoRow
         /\ stored'[u].expires = stored[u].expires /\ stored'[u].parent = stored[u].parent
         /\ stored[u].revoked # 0 => stored'[u].revoked # 0
  BY <1>1, <1>3, <1>6, NoRowIsToken DEF Exists
<1>8. TypeOK'
  BY <1>2, <1>6, NoRowIsToken DEF RInv, TypeOK
<1>9. CopiesAreOfRows'
  BY <1>2, <1>7 DEF RInv, TypeOK, CopiesAreOfRows, Exists
<1>10. LateAreSpent'
  <2>. SUFFICES ASSUME NEW p \in late, p # q
                PROVE  /\ pc[p] \in {"load", "rotate"}
                       /\ presented[p] # NoToken => Spent(stored'[presented[p]])
                       /\ pc[p] = "rotate" => Spent(seen[p])
    BY <1>2 DEF RInv, TypeOK, LateAreSpent, Spent
  <2>. QED
    BY <1>7 DEF RInv, TypeOK, CopiesAreOfRows, LateAreSpent, Spent
<1>11. SuccessorReplacesParent'
  <2>. SUFFICES ASSUME NEW u \in Tokens, stored'[u].parent # NoToken
                PROVE  stored'[stored'[u].parent].revoked # 0
    BY DEF SuccessorReplacesParent
  <2>1. CASE u = t
    BY <1>3, <1>4, <1>6, <2>1
  <2>2. CASE u # t
    <3>1. stored'[u].parent = stored[u].parent
      BY <1>3, <1>6, <2>2
    <3>2. stored[u].parent \in Tokens /\ stored[stored[u].parent].revoked # 0
      BY <3>1 DEF RInv, TypeOK, SuccessorReplacesParent, Token
    <3>3. Exists(stored[u].parent)
      BY <3>2, NoRowIsToken DEF Exists
    <3>. QED
      BY <1>7, <3>1, <3>2, <3>3
  <2>. QED
    BY <2>1, <2>2
<1>. QED
  BY <1>8, <1>9, <1>10, <1>11 DEF RInv

\* Every step of a refresh, and every other, keeps the invariant.
LEMMA RefreshStepKeeps == ASSUME RInv, NEW q \in Requests, RefreshStep(q) PROVE RInv'
<1>1. ASSUME Refuse(q) \/ Fail(q) PROVE RInv'
  BY <1>1, FinishKeeps DEF Refuse, Fail
<1>. QED
  BY <1>1, LoadKeeps, RotateKeeps, CommitKeeps, BeginKeeps DEF RefreshStep

LEMMA RefreshNext == RInv /\ [Next]_vars => RInv'
<1>. SUFFICES ASSUME RInv, [Next]_vars PROVE RInv'
  OBVIOUS
<1>1. CASE UNCHANGED vars
  BY <1>1 DEF vars, RInv, TypeOK, CopiesAreOfRows, LateAreSpent, SuccessorReplacesParent,
     Exists, Spent
<1>. QED
  BY <1>1, TickKeeps, IssueKeeps, RefreshStepKeeps DEF Next

\* What the invariant says of late requests: they do not commit.
LEMMA LateNeverCommits == RInv => SpentTokenIsRefused
BY DEF RInv, LateAreSpent, SpentTokenIsRefused
-----------------------------------------------------------------------------
\* rotate "rejects replay of an already-used refresh token": a refresh that
\* begins with a spent token never issues a successor, for any number of requests
\* that hold copies of the row.
THEOREM ReplayIsRefused == Spec => []SpentTokenIsRefused
BY RefreshInit, RefreshNext, LateNeverCommits, PTL DEF Spec

\* A token that has a successor is revoked, though overlapping refreshes may each
\* write over it.
THEOREM ParentStaysRevoked == Spec => []SuccessorReplacesParent
<1>1. RInv => SuccessorReplacesParent
  BY DEF RInv
<1>. QED
  BY <1>1, RefreshInit, RefreshNext, PTL DEF Spec
-----------------------------------------------------------------------------
(***************************************************************************)
(* 2. Accounts                                                             *)
(*                                                                         *)
(* The unique index decides between sign-ups that both found an e-mail     *)
(* free.                                                                   *)
(***************************************************************************)
allVars == <<vars, accountVars>>

\* A row is that of a sign-up which got as far as its insert.
RowsAreOfSignUps ==
    \A u \in users : u = Row(u.id) /\ step[u.id] \in {"created", "unknown"}

OneRowPerEmail == \A u, v \in users : u.email = v.email => u = v

\* A sign-up that looks an e-mail up has one; one that was answered 201 has a row.
SignUpsKnow ==
    \A p \in SignUps :
        /\ step[p] \in {"lookup", "hash"} => email[p] \in Emails
        /\ step[p] = "created" => Row(p) \in users

AccountTypes ==
    /\ users \in SUBSET [id : SignUps, email : Emails, password : Passwords]
    /\ step \in [SignUps -> {"new", "lookup", "hash", "created", "conflict", "invalid",
                             "unknown"}]
    /\ email \in [SignUps -> Emails \cup {Malformed}]
    /\ password \in [SignUps -> Passwords]

AInv ==
    /\ AccountTypes
    /\ RowsAreOfSignUps
    /\ OneRowPerEmail
    /\ SignUpsKnow
-----------------------------------------------------------------------------
\* No account, and no sign-up under way.
LEMMA AccountsInitHolds == AccountsInit => AInv
BY DEF AccountsInit, AInv, AccountTypes, RowsAreOfSignUps, OneRowPerEmail, SignUpsKnow

\* Without a write to "users", the rows stay those of their sign-ups as long as
\* an answer is given to a sign-up that has none, and its e-mail stays.
LEMMA AnswerKeeps ==
    ASSUME AInv, NEW p \in SignUps, step[p] \in {"lookup", "hash"},
           NEW outcome \in {"hash", "conflict", "unknown"}, Answer(p, outcome),
           UNCHANGED <<users, email, password>>
    PROVE  AInv'
<1>1. step' = [step EXCEPT ![p] = outcome]
  BY DEF Answer
<1>2. AccountTypes' /\ OneRowPerEmail'
  BY <1>1 DEF AInv, AccountTypes, OneRowPerEmail
<1>3. RowsAreOfSignUps'
  BY <1>1 DEF AInv, AccountTypes, RowsAreOfSignUps, Row
<1>4. SignUpsKnow'
  BY <1>1 DEF AInv, AccountTypes, SignUpsKnow, Row, Emails
<1>. QED
  BY <1>2, <1>3, <1>4 DEF AInv

LEMMA LookUpKeeps == ASSUME AInv, NEW p \in SignUps, LookUp(p) PROVE AInv'
<1>. DEFINE outcome == IF \E u \in users : u.email = email[p] THEN "conflict" ELSE "hash"
<1>1. Answer(p, outcome) /\ step[p] = "lookup" /\ UNCHANGED <<users, email, password>>
  BY DEF LookUp
<1>2. outcome \in {"hash", "conflict", "unknown"}
  OBVIOUS
<1>. HIDE DEF outcome
<1>. QED
  BY <1>1, <1>2, AnswerKeeps

LEMMA BreakKeeps == ASSUME AInv, NEW p \in SignUps, Break(p) PROVE AInv'
BY AnswerKeeps DEF Break

\* A request to sign up has no row yet; what is no address goes no further.
LEMMA SignUpKeeps ==
    ASSUME AInv, NEW p \in SignUps, NEW s \in Spellings, SignUp(p, s)
    PROVE  AInv'
<1>1. /\ step[p] = "new" /\ UNCHANGED <<users, password>>
      /\ \/ step' = [step EXCEPT ![p] = "invalid"] /\ email' = email
         \/ /\ step' = [step EXCEPT ![p] = "lookup"]
            /\ email' = [email EXCEPT ![p] = EmailOf[s]]
            /\ EmailOf[s] \in Emails
  BY DEF SignUp, Answer, Normalised, Emails
<1>2. AccountTypes' /\ OneRowPerEmail'
  BY <1>1 DEF AInv, AccountTypes, OneRowPerEmail, Emails
<1>3. \A u \in users : u.id # p /\ u.id \in SignUps
  BY <1>1 DEF AInv, AccountTypes, RowsAreOfSignUps
<1>4. RowsAreOfSignUps'
  BY <1>1, <1>3 DEF AInv, AccountTypes, RowsAreOfSignUps, Row
<1>5. SignUpsKnow'
  BY <1>1 DEF AInv, AccountTypes, SignUpsKnow, Row, Emails
<1>. QED
  BY <1>2, <1>4, <1>5 DEF AInv

\* The index admits the row if no other has its e-mail.
LEMMA InsertKeeps == ASSUME AInv, NEW p \in SignUps, Insert(p) PROVE AInv'
<1>1. CASE ~Free(email[p])
  BY <1>1, AnswerKeeps DEF Insert
<1>2. CASE Free(email[p])
  <2>1. PICK outcome \in {"created", "unknown"} : Answer(p, outcome)
    BY <1>2 DEF Insert
  <2>2. /\ users' = users \cup {Row(p)} /\ step[p] = "hash" /\ UNCHANGED <<email, password>>
        /\ step' = [step EXCEPT ![p] = outcome]
    BY <1>2, <2>1 DEF Insert, Answer
  <2>3. Row(p) \in [id : SignUps, email : Emails, password : Passwords] /\ Row(p)' = Row(p)
    BY <2>2 DEF AInv, AccountTypes, SignUpsKnow, Row
  <2>4. Row(p).id = p /\ Row(p).email = email[p]
    BY DEF Row
  <2>5. AccountTypes'
    BY <2>2, <2>3 DEF AInv, AccountTypes, Emails
  <2>6. RowsAreOfSignUps'
    <3>1. \A u \in users : u.id # p /\ u.id \in SignUps
      BY <2>2 DEF AInv, AccountTypes, RowsAreOfSignUps
    <3>. QED
      BY <2>1, <2>2, <2>4, <3>1 DEF AInv, AccountTypes, RowsAreOfSignUps, Row
  <2>7. OneRowPerEmail'
    BY <1>2, <2>2, <2>4 DEF AInv, OneRowPerEmail, Free
  <2>8. SignUpsKnow'
    BY <2>1, <2>2 DEF AInv, AccountTypes, SignUpsKnow, Row, Emails
  <2>. QED
    BY <2>5, <2>6, <2>7, <2>8 DEF AInv
<1>. QED
  BY <1>1, <1>2

LEMMA AccountsStepHolds == AInv /\ [AccountsNext]_allVars => AInv'
<1>. SUFFICES ASSUME AInv, [AccountsNext]_allVars PROVE AInv'
  OBVIOUS
<1>1. CASE UNCHANGED accountVars
  BY <1>1 DEF accountVars, AInv, AccountTypes, RowsAreOfSignUps, OneRowPerEmail, SignUpsKnow,
     Row, Emails
<1>. QED
  BY <1>1, SignUpKeeps, LookUpKeeps, InsertKeeps, BreakKeeps DEF AccountsNext, LogIn, allVars

\* What accounts do to tokens is what RefreshTokens says.
LEMMA AccountsRefresh ==
    /\ AccountsInit => Init
    /\ [AccountsNext]_allVars => [Next]_vars
<1>1. AccountsInit => Init
  BY DEF AccountsInit
<1>2. ASSUME AccountsNext PROVE Next \/ UNCHANGED vars
  BY <1>2 DEF AccountsNext, LogIn, Next
<1>. QED
  BY <1>1, <1>2 DEF allVars

LEMMA OwnersAreAlone == AInv => CreatedOwnsItsEmail
<1>. SUFFICES ASSUME AInv, NEW p \in SignUps
              PROVE  /\ step[p] = "created" => {u \in users : u.email = email[p]} = {Row(p)}
                     /\ step[p] \in {"conflict", "invalid"} => \A u \in users : u.id # p
  BY DEF CreatedOwnsItsEmail
<1>1. Row(p).email = email[p]
  BY DEF Row
<1>2. ASSUME step[p] = "created" PROVE {u \in users : u.email = email[p]} = {Row(p)}
  BY <1>1, <1>2 DEF AInv, OneRowPerEmail, SignUpsKnow
<1>3. step[p] \in {"conflict", "invalid"} => \A u \in users : u.id # p
  BY DEF AInv, RowsAreOfSignUps
<1>. QED
  BY <1>2, <1>3
-----------------------------------------------------------------------------
\* Whoever was answered 201 has the one account of the e-mail, for any number of
\* sign-ups that overlap, however the address is spelt.
THEOREM OneAccountPerEmail == AccountsSpec => []CreatedOwnsItsEmail
BY AccountsInitHolds, AccountsStepHolds, OwnersAreAlone, PTL DEF AccountsSpec, allVars

\* The sessions of accounts are those of RefreshTokens.
THEOREM AccountsKeepTokens == AccountsSpec => Spec
BY AccountsRefresh, PTL DEF AccountsSpec, Spec, allVars

\* So their replays are refused,
THEOREM SpentSessionIsRefused == AccountsSpec => []SpentTokenIsRefused
BY AccountsKeepTokens, ReplayIsRefused, PTL

\* and their rotated tokens stay revoked, beside any logins and sign-ups.
THEOREM RotatedSessionIsRevoked == AccountsSpec => []SuccessorReplacesParent
BY AccountsKeepTokens, ParentStaysRevoked, PTL
=============================================================================
