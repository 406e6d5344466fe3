--------------------------- MODULE SchemaReleases ---------------------------
(***************************************************************************)
(* The migration runner, the readiness check and the release script        *)
(* (packages/integrations/postgres/migrations/runner.py,                   *)
(* apps/backend/app/health.py, infrastructure/gcp/scripts/release-vm.sh).  *)
(*                                                                         *)
(* A release is a directory of migration files.  Migrators are processes   *)
(* that run `upgrade` or `check` for the release they were built from; one *)
(* of them, Vm, belongs to the release script.  An upgrade is one          *)
(* transaction under an advisory lock.  A migration file and its ledger    *)
(* row are both [version, checksum]: the SQL text is known by its hash.    *)
(***************************************************************************)
EXTENDS Integers, Sequences, FiniteSets

CONSTANTS
    Releases,   \* commits of main
    Files,      \* Files[r]: the migration files of release r
    Migrators,  \* processes that may run the migrator
    Vm,         \* the migrator the release script starts
    FirstRelease, \* what is checked out before the first release
    NoOne,      \* nobody holds the advisory lock
    MaxRuns     \* bound: commands and releases started in a behaviour

File == UNION {Files[r] : r \in Releases}

ASSUME ReleasesAssumption ==
    /\ Vm \in Migrators
    /\ NoOne \notin Migrators
    /\ FirstRelease \in Releases
    /\ Files \in [Releases -> SUBSET [version : Nat, checksum : Nat]]
    /\ \A r \in Releases : IsFiniteSet(Files[r])
    /\ MaxRuns \in Nat

VARIABLES
    ledger,  \* committed rows of claims_schema_migrations
    schema,  \* migrations whose SQL is committed, in the order it ran
    lock,    \* holder of the advisory transaction lock
    run,     \* the last command of every migrator
    script,  \* the release script on the VM
    started  \* commands and releases started so far

vars == <<ledger, schema, lock, run, script, started>>

Entries(list) == {list[k] : k \in DOMAIN list}
Versions(rows) == {row.version : row \in rows}

Outcomes == {"None", "Done", "BadFiles", "UnknownVersion", "ChecksumChanged",
             "Conflict", "Failed", "Current", "Pending"}
Phases == {"Idle", "Deploying", "Verifying", "RollingBack", "VerifyingRollback"}
Results == {"None", "Succeeded", "Failed", "RolledBack", "RollbackFailed"}

-----------------------------------------------------------------------------
(* What the runner makes of its files and of the ledger.                   *)

\* load_migrations: a directory with no files, or with two of one version,
\* is refused before the database is opened.
Loads(files) ==
    /\ files # {}
    /\ \A f, g \in files : f.version = g.version => f = g

\* Fault: versions of other releases are tolerated, as a rollback would like.
UnknownIgnored(files, rows) == {}

Unknown(files, rows) == Versions(rows) \ Versions(files)

Changed(file, rows) ==
    \E row \in rows : row.version = file.version /\ row # file

Earliest(files) == CHOOSE f \in files : \A g \in files : f.version <= g.version

\* status and require_current, from one reading of the ledger.
Status(files, rows) ==
    IF ~Loads(files) THEN "BadFiles"
    ELSE IF Unknown(files, rows) # {} THEN "UnknownVersion"
    ELSE IF \E f \in files : Changed(f, rows) THEN "ChecksumChanged"
    ELSE IF Versions(files) \subseteq Versions(rows) THEN "Current"
    ELSE "Pending"

-----------------------------------------------------------------------------
(* One upgrade.                                                            *)

\* The migrator loads its files when it is constructed.
Launched(r) ==
    [release |-> r, pc |-> IF Loads(Files[r]) THEN "Locking" ELSE "Idle",
     seen |-> {}, todo |-> {}, done |-> <<>>,
     outcome |-> IF Loads(Files[r]) THEN "None" ELSE "BadFiles"]

\* Leaving the cursor's block ends the transaction and frees its lock.
Unlock(m) == lock' = IF lock = m THEN NoOne ELSE lock

\* Fault: what ran before the failure stays in the schema.
RollbackLedgerOnly(m, outcome) ==
    /\ Unlock(m)
    /\ run' = [run EXCEPT ![m] = [@ EXCEPT !.pc = "Idle", !.outcome = outcome]]
    /\ schema' = schema \o run[m].done
    /\ UNCHANGED ledger

\* Fault: the lock outlives the transaction that failed.
RollbackKeepsLock(m, outcome) ==
    /\ UNCHANGED <<lock, ledger, schema>>
    /\ run' = [run EXCEPT ![m] = [@ EXCEPT !.pc = "Idle", !.outcome = outcome]]

\* An exception in the block: nothing of the transaction remains.
Rollback(m, outcome) ==
    /\ Unlock(m)
    /\ run' = [run EXCEPT ![m] = [@ EXCEPT !.pc = "Idle", !.outcome = outcome]]
    /\ UNCHANGED <<ledger, schema>>

\* pg_advisory_xact_lock.
Lock(m) ==
    /\ run[m].pc = "Locking"
    /\ lock = NoOne
    /\ lock' = m
    /\ run' = [run EXCEPT ![m].pc = "Reading"]
    /\ UNCHANGED <<ledger, schema, script, started>>

\* The ledger table is made if need be and read under the lock; a version
\* this release does not know ends the upgrade.
ReadLedger(m) ==
    /\ run[m].pc = "Reading"
    /\ IF Unknown(Files[run[m].release], ledger) # {}
       THEN Rollback(m, "UnknownVersion")
       ELSE /\ run' = [run EXCEPT ![m] = [@ EXCEPT
                         !.pc = "Applying", !.seen = ledger,
                         !.todo = Files[run[m].release]]]
            /\ UNCHANGED <<ledger, schema, lock>>
    /\ UNCHANGED <<script, started>>

NextFile(m) == Earliest(run[m].todo)

Applying(m) ==
    /\ run[m].pc = "Applying"
    /\ run[m].todo # {}
    /\ UNCHANGED <<script, started>>

\* The file was applied before and has not been edited since.
SkipApplied(m) ==
    /\ Applying(m)
    /\ NextFile(m) \in run[m].seen
    /\ run' = [run EXCEPT ![m].todo = @ \ {NextFile(m)}]
    /\ UNCHANGED <<ledger, schema, lock>>

RefuseChanged(m) ==
    /\ Applying(m)
    /\ Changed(NextFile(m), run[m].seen)
    /\ Rollback(m, "ChecksumChanged")

\* Whether another transaction holds an uncommitted row of this version; the
\* INSERT then waits for its end.
Contended(m, file) ==
    \E other \in Migrators \ {m} :
        run[other].pc = "Applying"
          /\ file.version \in Versions(Entries(run[other].done))

\* Fault: every file is committed on its own.
ApplyCommitted(m) ==
    /\ Applying(m)
    /\ NextFile(m).version \notin Versions(run[m].seen)
    /\ run' = [run EXCEPT ![m].todo = @ \ {NextFile(m)}]
    /\ ledger' = ledger \cup {NextFile(m)}
    /\ schema' = Append(schema, NextFile(m))
    /\ UNCHANGED lock

\* The SQL runs and its row is inserted; the primary key refuses a version
\* somebody committed after the ledger was read.
Apply(m) ==
    /\ Applying(m)
    /\ NextFile(m).version \notin Versions(run[m].seen)
    /\ ~Contended(m, NextFile(m))
    /\ IF NextFile(m).version \in Versions(ledger)
       THEN Rollback(m, "Conflict")
       ELSE /\ run' = [run EXCEPT ![m] = [@ EXCEPT
                         !.todo = run[m].todo \ {NextFile(m)},
                         !.done = Append(run[m].done, NextFile(m))]]
            /\ UNCHANGED <<ledger, schema, lock>>

Commit(m) ==
    /\ run[m].pc = "Applying"
    /\ run[m].todo = {}
    /\ ledger' = ledger \cup Entries(run[m].done)
    /\ schema' = schema \o run[m].done
    /\ Unlock(m)
    /\ run' = [run EXCEPT ![m] = [@ EXCEPT !.pc = "Idle", !.outcome = "Done"]]
    /\ UNCHANGED <<script, started>>

\* A statement fails, the connection is lost or the process is killed.
Abort(m) ==
    /\ run[m].pc # "Idle"
    /\ Rollback(m, "Failed")
    /\ UNCHANGED <<script, started>>

-----------------------------------------------------------------------------
(* The commands an operator runs by hand, from any checkout.               *)

Upgrade(m, r) ==
    /\ m # Vm
    /\ run[m].pc = "Idle"
    /\ started < MaxRuns
    /\ started' = started + 1
    /\ run' = [run EXCEPT ![m] = Launched(r)]
    /\ UNCHANGED <<ledger, schema, lock, script>>

Check(m, r) ==
    /\ m # Vm
    /\ run[m].pc = "Idle"
    /\ started < MaxRuns
    /\ started' = started + 1
    /\ run' = [run EXCEPT ![m] = [@ EXCEPT
                 !.release = r, !.outcome = Status(Files[r], ledger)]]
    /\ UNCHANGED <<ledger, schema, lock, script>>

-----------------------------------------------------------------------------
(* The release script: one at a time on the VM, under a file lock.         *)

\* The commit is checked out and its deployment begins with the migrator.
Release(target) ==
    /\ script.phase = "Idle"
    /\ run[Vm].pc = "Idle"
    /\ started < MaxRuns
    /\ started' = started + 1
    /\ script' = [phase |-> "Deploying", sha |-> target,
                  previous |-> script.sha, result |-> "None"]
    /\ run' = [run EXCEPT ![Vm] = Launched(target)]
    /\ UNCHANGED <<ledger, schema, lock>>

MigrationEnded == script.phase # "Idle" /\ run[Vm].pc = "Idle"

\* Readiness: every dependency answers, and the schema is current.
Ready(r) == Status(Files[r], ledger) = "Current"

\* Deployment waits until the application is healthy: it starts only after the
\* migrator succeeded, and its health check asks for readiness.
BecomesReady ==
    /\ MigrationEnded
    /\ script.phase \in {"Deploying", "RollingBack"}
    /\ run[Vm].outcome = "Done"
    /\ Ready(script.sha)
    /\ script' = [script EXCEPT
          !.phase = IF script.phase = "Deploying" THEN "Verifying"
                                                  ELSE "VerifyingRollback"]
    /\ UNCHANGED <<ledger, schema, lock, run, started>>

\* The read-only checks pass and the outcome is recorded.  They ask whether
\* the application is alive, not for the schema, which an operator may have
\* upgraded by then.
RecordSuccess ==
    /\ script.phase \in {"Verifying", "VerifyingRollback"}
    /\ script' = [script EXCEPT !.phase = "Idle",
          !.result = IF script.phase = "Verifying" THEN "Succeeded"
                                                   ELSE "RolledBack"]
    /\ UNCHANGED <<ledger, schema, lock, run, started>>

\* The commit asked for is deployed, not the one from before.
FirstAttempt == script.phase \in {"Deploying", "Verifying"}

\* Deployment fails when its migrator did or when it is not ready, and its
\* checks may fail, too, all for reasons outside this module as well.  The
\* commit from before is deployed again, once.
NotDeployed ==
    /\ MigrationEnded
    /\ IF FirstAttempt /\ script.previous # script.sha
       THEN /\ script' = [script EXCEPT !.phase = "RollingBack",
                                        !.sha = script.previous]
            /\ run' = [run EXCEPT ![Vm] = Launched(script.previous)]
       ELSE /\ script' = [script EXCEPT !.phase = "Idle",
                  !.result = IF FirstAttempt THEN "Failed" ELSE "RollbackFailed"]
            /\ UNCHANGED run
    /\ UNCHANGED <<ledger, schema, lock, started>>

-----------------------------------------------------------------------------

Idle == [release |-> FirstRelease, pc |-> "Idle", seen |-> {}, todo |-> {},
         done |-> <<>>, outcome |-> "None"]

Init ==
    /\ ledger = {}
    /\ schema = <<>>
    /\ lock = NoOne
    /\ run = [m \in Migrators |-> Idle]
    /\ script = [phase |-> "Idle", sha |-> FirstRelease,
                 previous |-> FirstRelease, result |-> "None"]
    /\ started = 0

Progress(m) ==
    \/ ReadLedger(m) \/ SkipApplied(m) \/ RefuseChanged(m)
    \/ Apply(m) \/ Commit(m)

Next ==
    \/ \E m \in Migrators : Lock(m) \/ Progress(m) \/ Abort(m)
    \/ \E m \in Migrators, r \in Releases : Upgrade(m, r) \/ Check(m, r)
    \/ \E r \in Releases : Release(r)
    \/ BecomesReady \/ RecordSuccess \/ NotDeployed

\* PostgreSQL answers and serves the waiters of a lock in turn; the script
\* goes on when its migrator, its containers and its checks have ended.
Fairness ==
    /\ \A m \in Migrators : SF_vars(Lock(m)) /\ WF_vars(Progress(m))
    /\ WF_vars(BecomesReady \/ RecordSuccess \/ NotDeployed)

Spec == Init /\ [][Next]_vars /\ Fairness

-----------------------------------------------------------------------------
(* Properties.                                                             *)

RunRecord == [release : Releases, pc : {"Idle", "Locking", "Reading", "Applying"},
              seen : SUBSET File, todo : SUBSET File, done : Seq(File),
              outcome : Outcomes]

\* The ledger and the schema hold migrations of the releases; the lock is
\* held by nobody or by a migrator; an open command has no outcome yet.
TypeOK ==
    /\ ledger \in SUBSET File
    /\ schema \in Seq(File)
    /\ lock \in Migrators \cup {NoOne}
    /\ run \in [Migrators -> RunRecord]
    /\ script \in [phase : Phases,
                   sha : Releases, previous : Releases, result : Results]
    /\ started \in 0 .. MaxRuns
    /\ \A m \in Migrators : run[m].pc # "Idle" => run[m].outcome = "None"

\* Every migration in the ledger ran exactly once and none ran that is not in
\* the ledger, whatever upgrades overlapped, failed or were killed.
AppliedOnce ==
    /\ Entries(schema) = ledger
    /\ \A j, k \in DOMAIN schema : schema[j].version = schema[k].version => j = k

\* The ledger is empty or exactly one release's directory: no upgrade leaves
\* half of its files behind, and two releases never mix.
WholeReleases ==
    \/ ledger = {}
    \/ \E r \in Releases : Loads(Files[r]) /\ ledger = Files[r]

\* Overlapping upgrades wait for one another; none fails because another one
\* applied its files first.
NeverConflicts == \A m \in Migrators : run[m].outcome # "Conflict"

\* A release that became ready, until the next one begins.
Serving ==
    \/ script.phase \in {"Verifying", "VerifyingRollback"}
    \/ script.result \in {"Succeeded", "RolledBack"}

\* From its readiness check on, while its success is verified, recorded and
\* afterwards, a release runs on the whole schema of a release that contains
\* all of its migrations, unedited: what an operator's upgrade commits in the
\* meantime only adds to them, and comes from one directory.
ServesKnownSchema ==
    Serving =>
        \E r \in Releases :
            /\ Loads(Files[r])
            /\ Files[script.sha] \subseteq Files[r]
            /\ Entries(schema) = Files[r]

\* An upgrade that was started ends, and so does a release.
UpgradesEnd ==
    /\ \A m \in Migrators : run[m].pc # "Idle" ~> run[m].pc = "Idle"
    /\ script.phase # "Idle" ~> script.phase = "Idle"

\* "A rollback returns source and images to the former commit"
\* (release-vm.sh:187), relying only on migrations the former code can work
\* with: the former release's own migrator is not what stops it.
RollbackNotRefused ==
    script.result = "RollbackFailed" => run[Vm].outcome # "UnknownVersion"
=============================================================================
