----------------------------- MODULE Migrations -----------------------------
(***************************************************************************)
(* The start of replicas that share a database: each migrates it to the    *)
(* head of its own release before it serves (lifespan, migrations/env.py). *)
(*                                                                         *)
(* A migration is one transaction: an advisory lock, a look at the version *)
(* of the database, and the DDL of every revision above it.  Replicas boot *)
(* at once, crash, and come back with other releases.                      *)
(***************************************************************************)
EXTENDS Naturals, Sequences

CONSTANTS
    Replicas,
    Newest          \* revisions of the newest release; release n has the first n

ASSUME MigrationsAssumption == Newest \in Nat \ {0}

VARIABLES
    schema,         \* the revisions whose DDL is committed, in order
    version,        \* the row of "alembic_version": the last revision, or 0
    pc,             \* where each replica is
    release,        \* the revisions its image has
    pending,        \* the revisions it is to apply, and has not
    applied,        \* those its transaction has applied
    clash           \* history: DDL failed on what another replica had committed

vars == <<schema, version, pc, release, pending, applied, clash>>

\* The types; a replica has the revisions of its own release to apply, never one
\* the newest release does not know.
TypeOK ==
    /\ schema \in Seq(1..Newest)
    /\ version \in 0..Newest
    /\ pc \in [Replicas -> {"down", "waiting", "migrating", "starting", "serving"}]
    /\ release \in [Replicas -> 1..Newest]
    /\ pending \in [Replicas -> Seq(1..Newest)]
    /\ applied \in [Replicas -> Seq(1..Newest)]
    /\ clash \in BOOLEAN

Init ==
    /\ schema = <<>>
    /\ version = 0
    /\ pc = [r \in Replicas |-> "down"]
    /\ release \in [Replicas -> 1..Newest]
    /\ pending = [r \in Replicas |-> <<>>]
    /\ applied = [r \in Replicas |-> <<>>]
    /\ clash = FALSE

Go(r, there) == pc' = [pc EXCEPT ![r] = there]

\* The transaction, if there is one, is rolled back.
Stop(r) ==
    /\ Go(r, "down")
    /\ pending' = [pending EXCEPT ![r] = <<>>]
    /\ applied' = [applied EXCEPT ![r] = <<>>]

\* The revisions of a release above a version of the database.
Above(low, high) == [i \in 1..(high - low) |-> low + i]

Committed == {schema[i] : i \in DOMAIN schema}
-----------------------------------------------------------------------------
(* Faults: variants of the definitions below that the properties tell from  *)
(* the code                                                                 *)

\* Nothing serialises the migrators.
NoLock == TRUE

\* Each revision is committed as it is applied.
ApplyAtOnce(r) ==
    /\ pc[r] = "migrating"
    /\ pending[r] # <<>>
    /\ schema' = Append(schema, Head(pending[r]))
    /\ pending' = [pending EXCEPT ![r] = Tail(@)]
    /\ UNCHANGED <<version, pc, release, applied, clash>>

\* The lock belongs to the session, and outlives the transaction.
LockFreeOfStarted == \A r \in Replicas : pc[r] \notin {"migrating", "starting", "serving"}
-----------------------------------------------------------------------------
\* pg_advisory_xact_lock: held until the transaction ends.
LockFree == \A r \in Replicas : pc[r] # "migrating"

\* The image may be a newer one, or an older.
Boot(r) ==
    /\ pc[r] = "down"
    /\ Go(r, "waiting")
    /\ \E n \in 1..Newest : release' = [release EXCEPT ![r] = n]
    /\ UNCHANGED <<schema, version, pending, applied, clash>>

\* run_migrations looks at the version under the lock, and finds its way from
\* there to the head, if it knows that version.
TakeLock(r) ==
    /\ pc[r] = "waiting"
    /\ LockFree
    /\ IF version > release[r]
         THEN Stop(r)
         ELSE /\ Go(r, "migrating")
              /\ pending' = [pending EXCEPT ![r] = Above(version, release[r])]
              /\ UNCHANGED applied
    /\ UNCHANGED <<schema, version, release, clash>>

Apply(r) ==
    /\ pc[r] = "migrating"
    /\ pending[r] # <<>>
    /\ pending' = [pending EXCEPT ![r] = Tail(@)]
    /\ applied' = [applied EXCEPT ![r] = Append(@, Head(pending[r]))]
    /\ UNCHANGED <<schema, version, pc, release, clash>>

Clashes(r) == \E i \in DOMAIN applied[r] : applied[r][i] \in Committed

\* What another replica has committed meanwhile fails the DDL, and the boot.
Commit(r) ==
    /\ pc[r] = "migrating"
    /\ pending[r] = <<>>
    /\ clash' = (clash \/ Clashes(r))
    /\ IF Clashes(r)
         THEN Stop(r) /\ UNCHANGED <<schema, version>>
         ELSE /\ schema' = schema \o applied[r]
              /\ version' = release[r]
              /\ Go(r, "starting")
              /\ applied' = [applied EXCEPT ![r] = <<>>]
              /\ UNCHANGED pending
    /\ UNCHANGED release

\* The rest of lifespan, up to its yield.
Serve(r) ==
    /\ pc[r] = "starting"
    /\ Go(r, "serving")
    /\ UNCHANGED <<schema, version, release, pending, applied, clash>>

\* A failed statement, a crash, or the end of a replica.
Exit(r) ==
    /\ pc[r] # "down"
    /\ Stop(r)
    /\ UNCHANGED <<schema, version, release, clash>>

Proceed(r) == Apply(r) \/ Commit(r) \/ Serve(r)

Next == \E r \in Replicas : Boot(r) \/ TakeLock(r) \/ Proceed(r) \/ Exit(r)

\* The database wakes whoever waits for a lock in turn, and a migrator goes on.
Spec ==
    /\ Init /\ [][Next]_vars
    /\ \A r \in Replicas : SF_vars(TakeLock(r)) /\ WF_vars(Proceed(r))
-----------------------------------------------------------------------------
(* Properties *)

\* The database has the revisions up to its version, once and in order, wherever
\* a migrator failed; and a replica that serves has all those of its release.
ServedSchemaIsComplete ==
    /\ schema = Above(0, version)
    /\ \A r \in Replicas : pc[r] \in {"starting", "serving"} => version >= release[r]

\* env.py serializes migrators, and reads the version only under the lock: no boot
\* fails because its DDL meets what another committed since it read the version.
\* (An image older than the database does not get as far as its DDL: see TakeLock.)
MigratorsNeverClash == ~clash

\* A boot ends, and never waits for ever behind those of other replicas.
BootEnds == \A r \in Replicas : (pc[r] = "waiting") ~> (pc[r] \in {"serving", "down"})
=============================================================================
