------------------------------ MODULE Accounts ------------------------------
(***************************************************************************)
(* Sign-up and login, and the sessions they open (module RefreshTokens).   *)
(*                                                                         *)
(* A sign-up looks its e-mail up, hashes the password in a thread, and     *)
(* inserts its row when the route commits.  Two sign-ups with one e-mail   *)
(* may both find it free; then the unique index decides.                   *)
(***************************************************************************)
EXTENDS RefreshTokens

CONSTANTS
    SignUps,        \* requests to sign up, and the ids they would give a user
    Spellings,      \* addresses as clients write them
    EmailOf,        \* the Email each is read as: stripped, and in lower case
    Malformed,      \* what a spelling is read as that is no address
    Passwords       \* each stands for its hash, too

ASSUME AccountsAssumption ==
    EmailOf = [s \in Spellings |-> EmailOf[s]]

VARIABLES
    users,      \* the rows of "users"
    step,       \* where each sign-up is, or how it was answered
    email, password

accountVars == <<users, step, email, password>>

Emails == {EmailOf[s] : s \in Spellings} \ {Malformed}

\* Every variable has its type, and no row has an e-mail that is not normalised.
AccountsTypeOK ==
    /\ TypeOK
    /\ users \in SUBSET [id : SignUps, email : Emails, password : Passwords]
    /\ step \in [SignUps -> {"new", "lookup", "hash", "created", "conflict", "invalid",
                             "unknown"}]
    /\ email \in [SignUps -> Emails \cup {Malformed}]
    /\ password \in [SignUps -> Passwords]

AccountsInit ==
    /\ Init
    /\ users = {}
    /\ step = [p \in SignUps |-> "new"]
    /\ email = [p \in SignUps |-> Malformed]
    /\ password \in [SignUps -> Passwords]

Row(p) == [id |-> p, email |-> email[p], password |-> password[p]]

Answer(p, outcome) == step' = [step EXCEPT ![p] = outcome]
-----------------------------------------------------------------------------
(* Faults: variants of the definitions below that the properties tell from  *)
(* the code                                                                 *)

\* There is no unique index on the e-mail.
FreeAnyway(address) == TRUE
-----------------------------------------------------------------------------
(* RegisterUser *)

\* Email's __post_init__.
Normalised(spelling) == EmailOf[spelling]

Free(address) == \A u \in users : u.email # address

SignUp(p, spelling) ==
    /\ step[p] = "new"
    /\ IF EmailOf[spelling] = Malformed
         THEN Answer(p, "invalid") /\ UNCHANGED email
         ELSE /\ Answer(p, "lookup")
              /\ email' = [email EXCEPT ![p] = Normalised(spelling)]
    /\ UNCHANGED <<users, password>>

\* get_by_email sees committed rows only.
LookUp(p) ==
    /\ step[p] = "lookup"
    /\ Answer(p, IF \E u \in users : u.email = email[p] THEN "conflict" ELSE "hash")
    /\ UNCHANGED <<users, email, password>>

\* The INSERT is flushed by the commit of the route, and the unique index admits
\* one row for an e-mail: an IntegrityError is answered like a crash, with 500.
Insert(p) ==
    /\ step[p] = "hash"
    /\ IF Free(email[p])
         THEN /\ users' = users \cup {Row(p)}
              /\ \/ Answer(p, "created")
                 \/ Answer(p, "unknown")
         ELSE Answer(p, "unknown") /\ UNCHANGED users
    /\ UNCHANGED <<email, password>>

\* A failed statement or a crash before the commit: nothing is written.
Break(p) ==
    /\ step[p] \in {"lookup", "hash"}
    /\ Answer(p, "unknown")
    /\ UNCHANGED <<users, email, password>>
-----------------------------------------------------------------------------
\* AuthenticateUser: rows are never changed, so looking one up and issuing a
\* token is one step.  A login that is refused changes nothing.
LogIn(spelling, candidate) ==
    /\ \E u \in users : u.email = Normalised(spelling) /\ u.password = candidate
    /\ \E t \in Tokens : Issue(t)
    /\ UNCHANGED accountVars

AccountsNext ==
    \/ /\ \E p \in SignUps :
             \/ \E s \in Spellings : SignUp(p, s)
             \/ LookUp(p) \/ Insert(p) \/ Break(p)
       /\ UNCHANGED vars
    \/ \E s \in Spellings, w \in Passwords : LogIn(s, w)
    \/ /\ Tick \/ \E q \in Requests : RefreshStep(q)
       /\ UNCHANGED accountVars

AccountsSpec == AccountsInit /\ [][AccountsNext]_<<vars, accountVars>>
-----------------------------------------------------------------------------
(* Properties *)

\* A sign-up that was answered 201 owns its e-mail, however it is spelt and
\* whoever else signs up meanwhile; one that was refused has left no account.
CreatedOwnsItsEmail ==
    \A p \in SignUps :
        /\ step[p] = "created" => {u \in users : u.email = email[p]} = {Row(p)}
        /\ step[p] \in {"conflict", "invalid"} => \A u \in users : u.id # p
=============================================================================
