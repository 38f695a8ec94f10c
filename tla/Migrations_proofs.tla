-------------------------- MODULE Migrations_proofs --------------------------
(***************************************************************************)
(* Proofs about Migrations, for any replicas and releases.                 *)
(*                                                                         *)
(* The lock lets one migrator at a time be between its look at the version *)
(* and its commit, so what it found is still so when it commits: what it   *)
(* has applied and what it has yet to apply are the revisions between the  *)
(* version of the database and that of its release.                        *)
(***************************************************************************)
EXTENDS Migrations, Integers, TLAPS

\* Where there is no transaction, nothing is applied or to be applied.
IdleHasNothing ==
    \A r \in Replicas : pc[r] # "migrating" => pending[r] = <<>> /\ applied[r] = <<>>

OneMigrates ==
    \A r, s \in Replicas : pc[r] = "migrating" /\ pc[s] = "migrating" => r = s

\* A migrator that has applied k revisions has done so in order.
MigratesInOrder ==
    \A r \in Replicas : pc[r] = "migrating" =>
        \E k \in 0..(release[r] - version) :
            /\ applied[r] = Above(version, version + k)
            /\ pending[r] = Above(version + k, release[r])

MInv ==
    /\ TypeOK
    /\ IdleHasNothing
    /\ OneMigrates
    /\ MigratesInOrder
    /\ ServedSchemaIsComplete
    /\ MigratorsNeverClash
-----------------------------------------------------------------------------
(* The revisions between two versions *)

\* They are a sequence; the first is the one above the lower version.
LEMMA AboveIsSeq ==
    ASSUME NEW a \in Nat, NEW b \in Nat, a <= b, b <= Newest
    PROVE  /\ Above(a, b) \in Seq(1..Newest)
           /\ Len(Above(a, b)) = b - a
           /\ Above(a, b) = <<>> <=> a = b
           /\ \A i \in 1..(b - a) : Above(a, b)[i] = a + i
BY MigrationsAssumption DEF Above

\* Taking the first leaves those above it.
LEMMA AboveTail ==
    ASSUME NEW a \in Nat, NEW b \in Nat, a < b, b <= Newest
    PROVE  Head(Above(a, b)) = a + 1 /\ Tail(Above(a, b)) = Above(a + 1, b)
<1>. DEFINE s == Above(a, b)
<1>1. /\ s \in Seq(1..Newest) /\ Len(s) = b - a /\ s # <<>>
      /\ \A i \in 1..(b - a) : s[i] = a + i
  BY MigrationsAssumption DEF Above
<1>2. /\ Above(a + 1, b) \in Seq(1..Newest) /\ Len(Above(a + 1, b)) = b - (a + 1)
      /\ \A i \in 1..(b - (a + 1)) : Above(a + 1, b)[i] = (a + 1) + i
  BY MigrationsAssumption DEF Above
<1>. HIDE DEF s
<1>3. Tail(s) \in Seq(1..Newest) /\ Len(Tail(s)) = b - (a + 1)
  BY <1>1
<1>4. \A i \in 1..(b - (a + 1)) : Tail(s)[i] = (a + 1) + i
  BY <1>1
<1>5. Tail(s) = Above(a + 1, b)
  BY <1>2, <1>3, <1>4
<1>6. Head(s) = a + 1
  BY <1>1
<1>. QED
  BY <1>5, <1>6 DEF s

\* Adding the next extends them.
LEMMA AboveAppend ==
    ASSUME NEW a \in Nat, NEW b \in Nat, a <= b, b < Newest
    PROVE  Append(Above(a, b), b + 1) = Above(a, b + 1)
BY AboveIsSeq DEF Above

\* Those up to a version and those above it are all of them.
LEMMA AboveConcat ==
    ASSUME NEW b \in Nat, NEW c \in Nat, b <= c, c <= Newest
    PROVE  Above(0, b) \o Above(b, c) = Above(0, c)
BY AboveIsSeq DEF Above
-----------------------------------------------------------------------------
\* Replicas that are all down, and a database with no tables.
LEMMA MigrationsInit == Init => MInv
<1>. SUFFICES ASSUME Init PROVE MInv
  OBVIOUS
<1>1. TypeOK
  <2>1. 0 \in 0..Newest /\ <<>> \in Seq(1..Newest)
    BY MigrationsAssumption
  <2>. QED
    BY <2>1 DEF Init, TypeOK
<1>2. Above(0, 0) = <<>>
  BY DEF Above
<1>. QED
  BY <1>1, <1>2 DEF Init, MInv, IdleHasNothing, OneMigrates, MigratesInOrder,
     ServedSchemaIsComplete, MigratorsNeverClash

\* A replica that stops leaves the others' transactions and the database alone.
LEMMA StopKeeps ==
    ASSUME MInv, NEW r \in Replicas, Stop(r), UNCHANGED <<schema, version, release, clash>>
    PROVE  MInv'
BY MigrationsAssumption
   DEF MInv, TypeOK, Stop, Go, IdleHasNothing, OneMigrates, MigratesInOrder,
       ServedSchemaIsComplete, MigratorsNeverClash

\* A migrator applies the next revision.
LEMMA ApplyKeeps == ASSUME MInv, NEW r \in Replicas, Apply(r) PROVE MInv'
<1>. USE MigrationsAssumption DEF MInv, TypeOK
<1>1. /\ UNCHANGED <<schema, version, pc, release, clash>> /\ pc[r] = "migrating"
      /\ pending' = [pending EXCEPT ![r] = Tail(pending[r])]
      /\ applied' = [applied EXCEPT ![r] = Append(applied[r], Head(pending[r]))]
      /\ pending[r] # <<>>
  BY DEF Apply
<1>2. PICK k \in 0..(release[r] - version) :
         applied[r] = Above(version, version + k) /\ pending[r] = Above(version + k, release[r])
  BY <1>1 DEF MigratesInOrder
<1>3. k < release[r] - version
  <2>1. k \in Int /\ version \in Nat /\ release[r] \in Nat
    BY <1>2
  <2>2. k = release[r] - version => Above(version + k, release[r]) = <<>>
    BY <2>1 DEF Above
  <2>. QED
    BY <1>1, <1>2, <2>1, <2>2
<1>4. /\ Head(pending[r]) = version + (k + 1)
      /\ Tail(pending[r]) = Above(version + (k + 1), release[r])
      /\ Append(applied[r], Head(pending[r])) = Above(version, version + (k + 1))
  <2>1. version \in Nat /\ version + k \in Nat /\ release[r] \in Nat /\ release[r] <= Newest
        /\ version + k < release[r] /\ (version + k) + 1 = version + (k + 1)
    BY <1>2, <1>3
  <2>2. Head(pending[r]) = version + (k + 1) /\ Tail(pending[r]) = Above(version + (k + 1), release[r])
    BY <1>2, <2>1, AboveTail
  <2>3. Append(Above(version, version + k), (version + k) + 1) = Above(version, (version + k) + 1)
    <3>1. \A b \in Nat : version <= b /\ b < Newest
                           => Append(Above(version, b), b + 1) = Above(version, b + 1)
      BY <2>1, AboveAppend
    <3>. QED
      BY <1>2, <2>1, <3>1
  <2>. QED
    BY <1>2, <2>1, <2>2, <2>3
<1>5. MigratesInOrder'
  <2>. SUFFICES ASSUME NEW s \in Replicas, pc[s] = "migrating"
                PROVE  \E j \in 0..(release[s] - version) :
                          /\ applied'[s] = Above(version, version + j)
                          /\ pending'[s] = Above(version + j, release[s])
    BY <1>1 DEF MigratesInOrder
  <2>1. CASE s = r
    <3>1. k + 1 \in 0..(release[r] - version)
      BY <1>2, <1>3
    <3>. QED
      BY <1>1, <1>4, <2>1, <3>1
  <2>2. CASE s # r
    BY <1>1, <2>2 DEF OneMigrates
  <2>. QED
    BY <2>1, <2>2
<1>6. TypeOK'
  <2>1. Tail(pending[r]) \in Seq(1..Newest) /\ Append(applied[r], Head(pending[r])) \in Seq(1..Newest)
    BY <1>1
  <2>. QED
    BY <1>1, <2>1
<1>7. IdleHasNothing' /\ OneMigrates' /\ ServedSchemaIsComplete' /\ MigratorsNeverClash'
  BY <1>1 DEF IdleHasNothing, OneMigrates, ServedSchemaIsComplete, MigratorsNeverClash, Above
<1>. QED
  BY <1>5, <1>6, <1>7

\* A migrator that has applied everything commits: nothing it created was there,
\* and the schema is that of its release.
LEMMA CommitKeeps == ASSUME MInv, NEW r \in Replicas, Commit(r) PROVE MInv'
<1>. USE MigrationsAssumption DEF MInv, TypeOK
<1>1. PICK k \in 0..(release[r] - version) :
         applied[r] = Above(version, version + k) /\ pending[r] = Above(version + k, release[r])
  BY DEF Commit, MigratesInOrder
<1>2. k = release[r] - version
  <2>1. k \in Nat /\ version \in Nat /\ release[r] \in Nat /\ k <= release[r] - version
    BY <1>1
  <2>2. Len(Above(version + k, release[r])) = release[r] - (version + k)
    BY <2>1 DEF Above
  <2>3. pending[r] = <<>>
    BY DEF Commit
  <2>. QED
    BY <1>1, <2>1, <2>2, <2>3
<1>3. /\ version \in Nat /\ release[r] \in Nat /\ version <= release[r] /\ release[r] <= Newest
      /\ applied[r] = Above(version, release[r])
  BY <1>1, <1>2
<1>4. ~Clashes(r)
  <2>. SUFFICES ASSUME NEW i \in DOMAIN applied[r], NEW j \in DOMAIN schema, applied[r][i] = schema[j]
                PROVE  FALSE
    BY DEF Clashes, Committed
  <2>1. i \in 1..(release[r] - version) /\ applied[r][i] = version + i
    BY <1>3 DEF Above
  <2>2. j \in 1..version /\ schema[j] = j
    BY <1>3 DEF ServedSchemaIsComplete, Above
  <2>. QED
    BY <1>3, <2>1, <2>2
<1>5. /\ pc[r] = "migrating" /\ clash' = clash
      /\ schema' = schema \o applied[r]
      /\ version' = release[r]
      /\ pc' = [pc EXCEPT ![r] = "starting"]
      /\ applied' = [applied EXCEPT ![r] = <<>>]
      /\ UNCHANGED <<pending, release>> /\ pending[r] = <<>>
  BY <1>4 DEF Commit, Go, MigratorsNeverClash
<1>6. schema' = Above(0, release[r])
  BY <1>3, <1>5, AboveConcat DEF ServedSchemaIsComplete
<1>7. TypeOK'
  <2>1. schema' \in Seq(1..Newest)
    BY <1>5
  <2>. QED
    BY <1>5, <2>1
<1>8. MigratesInOrder'
  <2>1. \A s \in Replicas : pc'[s] # "migrating"
    BY <1>5 DEF OneMigrates
  <2>. QED
    BY <2>1 DEF MigratesInOrder
<1>9. ServedSchemaIsComplete'
  <2>. SUFFICES ASSUME NEW s \in Replicas, pc'[s] \in {"starting", "serving"}
                PROVE  version' >= release'[s]
    BY <1>5, <1>6 DEF ServedSchemaIsComplete
  <2>1. CASE s = r
    BY <1>3, <1>5, <2>1
  <2>2. CASE s # r
    <3>1. version >= release[s] /\ release[s] \in Nat
      BY <1>5, <2>2 DEF ServedSchemaIsComplete
    <3>. QED
      BY <1>3, <1>5, <3>1
  <2>. QED
    BY <2>1, <2>2
<1>10. IdleHasNothing' /\ OneMigrates' /\ MigratorsNeverClash'
  BY <1>5 DEF IdleHasNothing, OneMigrates, MigratorsNeverClash
<1>. QED
  BY <1>7, <1>8, <1>9, <1>10

\* A replica that gets the lock finds its way from the version to its release.
LEMMA TakeLockKeeps == ASSUME MInv, NEW r \in Replicas, TakeLock(r) PROVE MInv'
<1>. USE MigrationsAssumption DEF MInv, TypeOK
<1>1. CASE version > release[r]
  BY <1>1, StopKeeps DEF TakeLock
<1>2. CASE ~(version > release[r])
  <2>1. /\ UNCHANGED <<schema, version, release, clash, applied>>
        /\ pc[r] = "waiting" /\ LockFree
        /\ pc' = [pc EXCEPT ![r] = "migrating"]
        /\ pending' = [pending EXCEPT ![r] = Above(version, release[r])]
    BY <1>2 DEF TakeLock, Go
  <2>2. version \in Nat /\ release[r] \in Nat /\ version <= release[r] /\ release[r] <= Newest
    BY <1>2
  <2>3. Above(version, release[r]) \in Seq(1..Newest) /\ Above(version, version) = <<>>
    BY <2>2, AboveIsSeq
  <2>4. TypeOK'
    BY <2>1, <2>3
  <2>5. MigratesInOrder'
    <3>. SUFFICES ASSUME NEW s \in Replicas, pc'[s] = "migrating"
                  PROVE  \E k \in 0..(release[s] - version) :
                            /\ applied'[s] = Above(version, version + k)
                            /\ pending'[s] = Above(version + k, release[s])
      BY <2>1 DEF MigratesInOrder
    <3>1. s = r
      BY <2>1 DEF LockFree
    <3>2. 0 \in 0..(release[s] - version) /\ version + 0 = version
      BY <2>2, <3>1
    <3>3. applied'[s] = Above(version, version + 0) /\ pending'[s] = Above(version + 0, release[s])
      BY <2>1, <2>3, <3>1, <3>2 DEF IdleHasNothing
    <3>. QED
      BY <3>2, <3>3
  <2>6. IdleHasNothing' /\ OneMigrates' /\ ServedSchemaIsComplete' /\ MigratorsNeverClash'
    BY <2>1 DEF LockFree, IdleHasNothing, OneMigrates, ServedSchemaIsComplete,
       MigratorsNeverClash, Above
  <2>. QED
    BY <2>4, <2>5, <2>6
<1>. QED
  BY <1>1, <1>2

\* Every step keeps the invariant.
LEMMA MigrationsStep == MInv /\ [Next]_vars => MInv'
<1>. SUFFICES ASSUME MInv, [Next]_vars PROVE MInv'
  OBVIOUS
<1>1. ASSUME NEW r \in Replicas, Boot(r) PROVE MInv'
  <2>1. PICK n \in 1..Newest : release' = [release EXCEPT ![r] = n]
    BY <1>1 DEF Boot
  <2>2. /\ UNCHANGED <<schema, version, pending, applied, clash>>
        /\ pc[r] = "down" /\ pc' = [pc EXCEPT ![r] = "waiting"]
    BY <1>1 DEF Boot, Go
  <2>3. TypeOK'
    BY <2>1, <2>2 DEF MInv, TypeOK
  <2>4. MigratesInOrder'
    <3>1. \A s \in Replicas : pc'[s] = "migrating" => pc[s] = "migrating" /\ release'[s] = release[s]
      BY <2>1, <2>2 DEF MInv, TypeOK
    <3>. QED
      BY <2>2, <3>1 DEF MInv, MigratesInOrder
  <2>5. IdleHasNothing' /\ OneMigrates' /\ MigratorsNeverClash'
    BY <2>2 DEF MInv, TypeOK, IdleHasNothing, OneMigrates, MigratorsNeverClash
  <2>6. ServedSchemaIsComplete'
    BY <2>1, <2>2 DEF MInv, TypeOK, ServedSchemaIsComplete
  <2>. QED
    BY <2>3, <2>4, <2>5, <2>6 DEF MInv
<1>2. ASSUME NEW r \in Replicas, TakeLock(r) PROVE MInv'
  BY <1>2, TakeLockKeeps
<1>3. ASSUME NEW r \in Replicas, Apply(r) PROVE MInv'
  BY <1>3, ApplyKeeps
<1>4. ASSUME NEW r \in Replicas, Commit(r) PROVE MInv'
  BY <1>4, CommitKeeps
<1>5. ASSUME NEW r \in Replicas, Serve(r) PROVE MInv'
  <2>1. /\ UNCHANGED <<schema, version, release, pending, applied, clash>>
        /\ pc[r] = "starting" /\ pc' = [pc EXCEPT ![r] = "serving"]
    BY <1>5 DEF Serve, Go
  <2>2. TypeOK'
    BY <2>1 DEF MInv, TypeOK
  <2>3. MigratesInOrder'
    <3>1. \A s \in Replicas : pc'[s] = "migrating" => pc[s] = "migrating"
      BY <2>1 DEF MInv, TypeOK
    <3>. QED
      BY <2>1, <3>1 DEF MInv, MigratesInOrder
  <2>4. IdleHasNothing' /\ OneMigrates' /\ MigratorsNeverClash'
    BY <2>1 DEF MInv, TypeOK, IdleHasNothing, OneMigrates, MigratorsNeverClash
  <2>5. ServedSchemaIsComplete'
    BY <2>1 DEF MInv, TypeOK, ServedSchemaIsComplete
  <2>. QED
    BY <2>2, <2>3, <2>4, <2>5 DEF MInv
<1>6. ASSUME NEW r \in Replicas, Exit(r) PROVE MInv'
  BY <1>6, StopKeeps DEF Exit
<1>7. CASE UNCHANGED vars
  BY <1>7 DEF vars, MInv, TypeOK, IdleHasNothing, OneMigrates, MigratesInOrder,
     ServedSchemaIsComplete, MigratorsNeverClash, Above
<1>. QED
  BY <1>1, <1>2, <1>3, <1>4, <1>5, <1>6, <1>7 DEF Next, Proceed
-----------------------------------------------------------------------------
\* Every variable keeps its type, for any replicas and releases.
THEOREM MigrationsTyped == Spec => []TypeOK
<1>1. MInv => TypeOK
  BY DEF MInv
<1>. QED
  BY <1>1, MigrationsInit, MigrationsStep, PTL DEF Spec

\* The database has the revisions up to its version once and in order, and those
\* of every replica that serves, whichever boots, crashes and rollbacks there were.
THEOREM SchemaIsComplete == Spec => []ServedSchemaIsComplete
<1>1. MInv => ServedSchemaIsComplete
  BY DEF MInv
<1>. QED
  BY <1>1, MigrationsInit, MigrationsStep, PTL DEF Spec

\* No boot fails because its DDL meets what another replica committed meanwhile.
THEOREM NoClash == Spec => []MigratorsNeverClash
<1>1. MInv => MigratorsNeverClash
  BY DEF MInv
<1>. QED
  BY <1>1, MigrationsInit, MigrationsStep, PTL DEF Spec
=============================================================================
