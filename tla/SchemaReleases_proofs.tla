----------------------- MODULE SchemaReleases_proofs -----------------------
(***************************************************************************)
(* What holds of the migration runner and the release script for any       *)
(* history of migration directories, any number of overlapping commands,   *)
(* and wherever they fail.                                                 *)
(***************************************************************************)
EXTENDS SchemaReleases, SequenceTheorems, WellFoundedInduction, TLAPS

\* Every step of the system, under its own name.
LEMMA NextCases ==
  ASSUME Next, NEW P,
         \A m \in Migrators : Lock(m) => P,
         \A m \in Migrators : ReadLedger(m) => P,
         \A m \in Migrators : SkipApplied(m) => P,
         \A m \in Migrators : RefuseChanged(m) => P,
         \A m \in Migrators : Apply(m) => P,
         \A m \in Migrators : Commit(m) => P,
         \A m \in Migrators : Abort(m) => P,
         \A m \in Migrators : \A r \in Releases : Upgrade(m, r) => P,
         \A m \in Migrators : \A r \in Releases : Check(m, r) => P,
         \A r \in Releases : Release(r) => P,
         BecomesReady => P,
         RecordSuccess => P,
         NotDeployed => P
  PROVE  P
BY DEF Next, Progress

-----------------------------------------------------------------------------
(* Operators *)

LEMMA FileType ==
  /\ File \subseteq [version : Nat, checksum : Nat]
  /\ \A r \in Releases : Files[r] \subseteq File
BY ReleasesAssumption DEF File

\* A set of numbers that is not empty has a least one.
LEMMA LeastNat ==
  ASSUME NEW S \in SUBSET Nat, S # {}
  PROVE  \E n \in S : \A k \in S : n <= k
<1>1. PICK n \in S : \A k \in S : ~(<<k, n>> \in OpToRel(<, Nat))
  BY NatLessThanWellFounded, WFMin
<1>2. \A k \in S : ~(k < n)
  BY <1>1 DEF OpToRel
<1> QED
  BY <1>2

\* A set of files that is not empty has an earliest one.
LEMMA EarliestIn ==
  ASSUME NEW files \in SUBSET File, files # {}
  PROVE  /\ Earliest(files) \in files
         /\ \A g \in files : Earliest(files).version <= g.version
<1> DEFINE S == {f.version : f \in files}
<1>1. S \in SUBSET Nat /\ S # {}
  BY FileType
<1>2. PICK n \in S : \A k \in S : n <= k
  <2> HIDE DEF S
  <2> QED
    BY <1>1, LeastNat
<1>3. PICK f \in files : f.version = n
  BY <1>2
<1>4. \A g \in files : f.version <= g.version
  BY <1>2, <1>3
<1> QED
  BY <1>3, <1>4 DEF Earliest

\* Appending a list to another adds its entries.
LEMMA EntriesConcat ==
  ASSUME NEW S, NEW s \in Seq(S), NEW t \in Seq(S)
  PROVE  /\ s \o t \in Seq(S)
         /\ Entries(s \o t) = Entries(s) \cup Entries(t)
<1>1. s \o t \in Seq(S) /\ Len(s \o t) = Len(s) + Len(t)
  OBVIOUS
<1>2. \A k \in 1..Len(s) : (s \o t)[k] = s[k]
  OBVIOUS
<1>3. \A k \in 1..Len(t) : (s \o t)[Len(s) + k] = t[k]
  OBVIOUS
<1>4. ASSUME NEW x \in Entries(s \o t) PROVE x \in Entries(s) \cup Entries(t)
  <2>1. PICK k \in 1..(Len(s) + Len(t)) : x = (s \o t)[k]
    BY <1>1, <1>4 DEF Entries
  <2>2. CASE k <= Len(s)
    BY <1>2, <2>1, <2>2 DEF Entries
  <2>3. CASE k > Len(s)
    <3>1. k - Len(s) \in 1..Len(t) /\ k = Len(s) + (k - Len(s))
      BY <2>1, <2>3
    <3> QED
      BY <1>3, <2>1, <3>1 DEF Entries
  <2> QED
    BY <2>1, <2>2, <2>3
<1>5. ASSUME NEW x \in Entries(s) PROVE x \in Entries(s \o t)
  BY <1>1, <1>2, <1>5 DEF Entries
<1>6. ASSUME NEW x \in Entries(t) PROVE x \in Entries(s \o t)
  <2>1. PICK k \in 1..Len(t) : x = t[k]
    BY <1>6 DEF Entries
  <2>2. Len(s) + k \in 1..Len(s \o t)
    BY <1>1, <2>1
  <2> QED
    BY <1>3, <2>1, <2>2, <1>1 DEF Entries
<1> QED
  BY <1>1, <1>4, <1>5, <1>6

\* No version occurs twice in the list.
OncePer(list) == \A j, k \in DOMAIN list : list[j].version = list[k].version => j = k

LEMMA OncePerConcat ==
  ASSUME NEW s \in Seq(File), NEW t \in Seq(File), OncePer(s), OncePer(t),
         \A k \in DOMAIN t : t[k].version \notin Versions(Entries(s))
  PROVE  OncePer(s \o t)
<1> DEFINE u == s \o t
<1>1. u \in Seq(File) /\ Len(u) = Len(s) + Len(t) /\ DOMAIN u = 1..(Len(s) + Len(t))
  OBVIOUS
<1>2. \A k \in 1..Len(s) : u[k] = s[k]
  OBVIOUS
<1>3. \A k \in 1..(Len(s) + Len(t)) : k > Len(s) =>
        k - Len(s) \in 1..Len(t) /\ u[k] = t[k - Len(s)]
  OBVIOUS
<1>4. \A j \in 1..Len(s), k \in 1..Len(t) : s[j].version # t[k].version
  BY DEF Entries, Versions
<1> HIDE DEF u
<1>5. SUFFICES ASSUME NEW j \in 1..(Len(s) + Len(t)), NEW k \in 1..(Len(s) + Len(t)),
                      u[j].version = u[k].version
               PROVE  j = k
  BY <1>1 DEF OncePer, u
<1>6. CASE j <= Len(s) /\ k <= Len(s)
  BY <1>2, <1>5, <1>6 DEF OncePer
<1>7. CASE j <= Len(s) /\ k > Len(s)
  BY <1>2, <1>3, <1>4, <1>5, <1>7
<1>8. CASE j > Len(s) /\ k <= Len(s)
  BY <1>2, <1>3, <1>4, <1>5, <1>8
<1>9. CASE j > Len(s) /\ k > Len(s)
  <2>1. j - Len(s) = k - Len(s)
    BY <1>3, <1>5, <1>9 DEF OncePer
  <2> QED
    BY <2>1
<1> QED
  BY <1>6, <1>7, <1>8, <1>9

\* "Current" means that the ledger is the directory.
LEMMA StatusCurrent ==
  ASSUME NEW files, NEW rows, Status(files, rows) = "Current"
  PROVE  rows = files /\ Loads(files)
<1>1. /\ Versions(rows) \subseteq Versions(files)
      /\ \A f \in files : ~Changed(f, rows)
      /\ Versions(files) \subseteq Versions(rows)
      /\ Loads(files)
  BY DEF Status, Unknown
<1>2. \A f \in files, row \in rows : row.version = f.version => row = f
  BY <1>1 DEF Changed
<1>3. ASSUME NEW f \in files PROVE f \in rows
  <2>1. PICK row \in rows : row.version = f.version
    BY <1>1 DEF Versions
  <2> QED
    BY <1>2, <2>1
<1>4. ASSUME NEW row \in rows PROVE row \in files
  <2>1. PICK f \in files : f.version = row.version
    BY <1>1 DEF Versions
  <2> QED
    BY <1>2, <2>1
<1> QED
  BY <1>1, <1>3, <1>4

-----------------------------------------------------------------------------
(* The invariant *)

\* An open upgrade works for a directory that loads, and has applied nothing
\* before it holds the lock.  Once it applies, what it read is still the
\* ledger, every version of the ledger is known, and each of its files is
\* yet to be visited, in the ledger, or applied by it.
Upgrading(e, l) ==
  /\ e.pc # "Idle" => Loads(Files[e.release])
  /\ e.pc \in {"Locking", "Reading"} => e.done = <<>>
  /\ e.pc = "Applying" =>
       /\ e.seen = l
       /\ Versions(l) \subseteq Versions(Files[e.release])
       /\ e.todo \subseteq Files[e.release]
       /\ Entries(e.done) \subseteq Files[e.release]
       /\ Files[e.release] \subseteq e.todo \cup e.seen \cup Entries(e.done)
       /\ OncePer(e.done)
       /\ \A k \in DOMAIN e.done :
            /\ e.done[k].version \notin Versions(l)
            /\ e.done[k] \notin e.todo

Holder == \A m \in Migrators : lock = m <=> run[m].pc \in {"Reading", "Applying"}

ScriptRecord == [phase : Phases, sha : Releases, previous : Releases, result : Results]

\* An open release has no result yet, and one that became ready finds every
\* one of its migrations in the ledger.
Scripted(s, l) ==
  /\ s.phase # "Idle" => s.result = "None"
  /\ s.phase \in {"Verifying", "VerifyingRollback"}
       \/ s.result \in {"Succeeded", "RolledBack"}
     => Loads(Files[s.sha]) /\ Files[s.sha] \subseteq l

UpgradeInv ==
  /\ TypeOK
  /\ Holder
  /\ \A m \in Migrators : Upgrading(run[m], ledger)
  /\ AppliedOnce
  /\ WholeReleases
  /\ NeverConflicts
  /\ Scripted(script, ledger)

-----------------------------------------------------------------------------
(* The initial states and the steps *)

THEOREM UpgradeInit == Init => UpgradeInv
<1> SUFFICES ASSUME Init PROVE UpgradeInv
  OBVIOUS
<1> USE DEF Init, Idle
<1>1. Idle \in RunRecord
  BY ReleasesAssumption DEF RunRecord, Outcomes
<1>2. TypeOK
  BY <1>1, ReleasesAssumption DEF TypeOK, Results, Phases
<1>3. Holder
  BY ReleasesAssumption DEF Holder
<1>4. \A m \in Migrators : Upgrading(run[m], ledger)
  BY DEF Upgrading
<1>5. AppliedOnce
  BY DEF AppliedOnce, Entries
<1>6. Scripted(script, ledger)
  BY DEF Scripted
<1> QED
  BY <1>2, <1>3, <1>4, <1>5, <1>6 DEF UpgradeInv, WholeReleases, NeverConflicts

\* A step that gives one migrator the new record e and leaves the database
\* alone keeps the invariant if e satisfies its share of it.
LEMMA OneRun ==
  ASSUME UpgradeInv,
         NEW m \in Migrators, NEW e \in RunRecord,
         run' = [run EXCEPT ![m] = e],
         UNCHANGED <<ledger, schema>>,
         script' \in ScriptRecord, Scripted(script', ledger),
         started' \in 0 .. MaxRuns,
         Upgrading(e, ledger),
         e.pc # "Idle" => e.outcome = "None",
         e.outcome # "Conflict",
         lock' \in Migrators \cup {NoOne},
         lock' = m <=> e.pc \in {"Reading", "Applying"},
         \A o \in Migrators \ {m} : lock' = o <=> lock = o
  PROVE  UpgradeInv'
<1> USE DEF UpgradeInv
<1>1. run \in [Migrators -> RunRecord]
  BY DEF TypeOK
<1>2. run'[m] = e /\ \A o \in Migrators \ {m} : run'[o] = run[o]
  BY <1>1
<1>3. TypeOK'
  BY <1>1, <1>2 DEF TypeOK, ScriptRecord
<1>4. Holder'
  BY <1>2 DEF Holder
<1>5. (\A o \in Migrators : Upgrading(run[o], ledger))'
  BY <1>2
<1>6. AppliedOnce' /\ WholeReleases'
  BY DEF AppliedOnce, WholeReleases
<1>7. NeverConflicts'
  BY <1>2 DEF NeverConflicts
<1> QED
  BY <1>3, <1>4, <1>5, <1>6, <1>7

\* Ending a transaction without its changes keeps the invariant.
LEMMA RollbackStep ==
  ASSUME UpgradeInv, NEW m \in Migrators, NEW outcome \in Outcomes,
         Rollback(m, outcome), outcome # "Conflict",
         UNCHANGED <<script, started>>
  PROVE  UpgradeInv'
<1> DEFINE e == [run[m] EXCEPT !.pc = "Idle", !.outcome = outcome]
<1>1. run[m] \in RunRecord /\ lock \in Migrators \cup {NoOne}
  BY DEF UpgradeInv, TypeOK
<1>2. e \in RunRecord /\ e.pc = "Idle" /\ e.outcome = outcome
  BY <1>1 DEF RunRecord
<1>3. run' = [run EXCEPT ![m] = e]
  BY DEF Rollback
<1>4. Upgrading(e, ledger)
  BY <1>2 DEF Upgrading
<1>5. lock' = IF lock = m THEN NoOne ELSE lock
  BY DEF Rollback, Unlock
<1>6. UNCHANGED <<ledger, schema, script, started>>
  BY DEF Rollback
<1> HIDE DEF e
<1> QED
  BY <1>1, <1>2, <1>3, <1>4, <1>5, <1>6, OneRun, ReleasesAssumption
  DEF UpgradeInv, TypeOK, ScriptRecord

\* The step of the script itself: only its own phase and result matter.
LEMMA ScriptType ==
  ASSUME UpgradeInv
  PROVE  /\ script \in ScriptRecord
         /\ started \in 0 .. MaxRuns
         /\ lock \in Migrators \cup {NoOne}
         /\ run \in [Migrators -> RunRecord]
         /\ ledger \in SUBSET File
         /\ schema \in Seq(File)
BY DEF UpgradeInv, TypeOK, ScriptRecord

\* A command that starts works for a release of the history.
LEMMA LaunchedRun ==
  ASSUME NEW r \in Releases
  PROVE  /\ Launched(r) \in RunRecord
         /\ Launched(r).pc \in {"Idle", "Locking"}
         /\ Launched(r).outcome \in {"None", "BadFiles"}
         /\ Launched(r).pc # "Idle" => Launched(r).outcome = "None"
         /\ \A l : Upgrading(Launched(r), l)
<1>1. Launched(r) \in RunRecord
  BY DEF Launched, RunRecord, Outcomes
<1>2. Launched(r).pc = "Locking" => Loads(Files[r])
  BY DEF Launched
<1>3. Launched(r).done = <<>> /\ Launched(r).release = r
  BY DEF Launched
<1>4. /\ Launched(r).pc \in {"Idle", "Locking"}
      /\ Launched(r).outcome \in {"None", "BadFiles"}
      /\ Launched(r).pc # "Idle" => Launched(r).outcome = "None"
  BY DEF Launched
<1> QED
  BY <1>1, <1>2, <1>3, <1>4 DEF Upgrading

LEMMA LockStep ==
  ASSUME UpgradeInv, NEW m \in Migrators, Lock(m)
  PROVE  UpgradeInv'
<1> DEFINE e == [run[m] EXCEPT !.pc = "Reading"]
<1>1. run[m] \in RunRecord
  BY ScriptType
<1>2. e \in RunRecord /\ e.pc = "Reading" /\ e.outcome = run[m].outcome
      /\ e.done = run[m].done /\ e.release = run[m].release
  BY <1>1 DEF RunRecord
<1>3. run' = [run EXCEPT ![m] = e]
  BY DEF Lock
<1>4. run[m].pc = "Locking" /\ lock = NoOne /\ lock' = m
  BY DEF Lock
<1>5. Upgrading(e, ledger)
  BY <1>2, <1>4 DEF Upgrading, UpgradeInv
<1>6. e.outcome = "None"
  BY <1>2, <1>4 DEF UpgradeInv, TypeOK
<1>7. UNCHANGED <<ledger, schema, script, started>>
  BY DEF Lock
<1>8. Scripted(script, ledger)
  BY DEF UpgradeInv
<1> HIDE DEF e
<1>9. \A o \in Migrators \ {m} : lock' = o <=> lock = o
  BY <1>4, ReleasesAssumption
<1> QED
  BY <1>2, <1>3, <1>4, <1>5, <1>6, <1>7, <1>8, <1>9, ScriptType, OneRun

LEMMA ReadStep ==
  ASSUME UpgradeInv, NEW m \in Migrators, ReadLedger(m)
  PROVE  UpgradeInv'
<1>1. UNCHANGED <<script, started>>
  BY DEF ReadLedger
<1>2. CASE Unknown(Files[run[m].release], ledger) # {}
  BY <1>1, <1>2, RollbackStep DEF ReadLedger, Outcomes
<1>3. CASE Unknown(Files[run[m].release], ledger) = {}
  <2> DEFINE e == [run[m] EXCEPT !.pc = "Applying", !.seen = ledger,
                                 !.todo = Files[run[m].release]]
  <2>1. run[m] \in RunRecord /\ run[m].release \in Releases
    BY ScriptType DEF RunRecord
  <2>2. /\ e \in RunRecord /\ e.pc = "Applying" /\ e.outcome = run[m].outcome
        /\ e.done = run[m].done /\ e.release = run[m].release
        /\ e.seen = ledger /\ e.todo = Files[run[m].release]
    BY <2>1, ScriptType, FileType DEF RunRecord
  <2>3. run' = [run EXCEPT ![m] = e]
    BY <1>3 DEF ReadLedger
  <2>4. run[m].pc = "Reading" /\ UNCHANGED <<ledger, schema, lock>>
    BY <1>3 DEF ReadLedger
  <2>5. lock = m /\ run[m].outcome = "None" /\ run[m].done = <<>>
        /\ Loads(Files[run[m].release])
    BY <2>4 DEF UpgradeInv, Holder, TypeOK, Upgrading
  <2>6. Versions(ledger) \subseteq Versions(Files[run[m].release])
    BY <1>3 DEF Unknown
  <2>7. Scripted(script, ledger)
    BY DEF UpgradeInv
  <2> HIDE DEF e
  <2>8. Upgrading(e, ledger)
    BY <2>2, <2>5, <2>6 DEF Upgrading, Entries, OncePer
  <2> QED
    BY <1>1, <2>2, <2>3, <2>4, <2>5, <2>7, <2>8, ScriptType, OneRun
<1> QED
  BY <1>2, <1>3

\* The file an upgrade looks at is one of those it has to visit.
LEMMA NextIn ==
  ASSUME UpgradeInv, NEW m \in Migrators, Applying(m)
  PROVE  /\ run[m].pc = "Applying"
         /\ NextFile(m) \in run[m].todo
         /\ NextFile(m) \in File
         /\ lock = m
         /\ run[m].outcome = "None"
         /\ Upgrading(run[m], ledger)
         /\ UNCHANGED <<script, started>>
<1>1. run[m].todo \in SUBSET File /\ run[m].todo # {}
  BY ScriptType DEF RunRecord, Applying
<1>2. run[m].pc = "Applying" /\ UNCHANGED <<script, started>>
  BY DEF Applying
<1>3. NextFile(m) \in run[m].todo
  BY <1>1, EarliestIn DEF NextFile
<1> QED
  BY <1>1, <1>2, <1>3 DEF UpgradeInv, Holder, TypeOK

LEMMA SkipStep ==
  ASSUME UpgradeInv, NEW m \in Migrators, SkipApplied(m)
  PROVE  UpgradeInv'
<1> DEFINE f == NextFile(m)
           e == [run[m] EXCEPT !.todo = run[m].todo \ {f}]
<1>1. Applying(m) /\ f \in run[m].seen
  BY DEF SkipApplied
<1>2. /\ run[m].pc = "Applying" /\ lock = m /\ run[m].outcome = "None"
      /\ Upgrading(run[m], ledger) /\ UNCHANGED <<script, started>>
  BY <1>1, NextIn
<1>3. run[m] \in RunRecord
  BY ScriptType
<1> HIDE DEF f
<1>4. /\ e \in RunRecord /\ e.pc = run[m].pc /\ e.outcome = run[m].outcome
      /\ e.done = run[m].done /\ e.release = run[m].release
      /\ e.seen = run[m].seen /\ e.todo = run[m].todo \ {f}
  BY <1>3 DEF RunRecord
<1>5. run' = [run EXCEPT ![m] = e] /\ UNCHANGED <<ledger, schema, lock>>
  BY DEF SkipApplied, f
<1>6. Scripted(script, ledger)
  BY DEF UpgradeInv
<1> HIDE DEF e
<1>7. Upgrading(e, ledger)
  BY <1>1, <1>2, <1>4 DEF Upgrading
<1> QED
  BY <1>2, <1>4, <1>5, <1>6, <1>7, ScriptType, OneRun

LEMMA RefuseStep ==
  ASSUME UpgradeInv, NEW m \in Migrators, RefuseChanged(m)
  PROVE  UpgradeInv'
<1>1. Rollback(m, "ChecksumChanged") /\ UNCHANGED <<script, started>>
  BY DEF RefuseChanged, Applying
<1> QED
  BY <1>1, RollbackStep DEF Outcomes

LEMMA AbortStep ==
  ASSUME UpgradeInv, NEW m \in Migrators, Abort(m)
  PROVE  UpgradeInv'
BY RollbackStep DEF Abort, Outcomes

\* Under the lock the ledger is the one that was read, so the primary key
\* never refuses a version that was not there.
LEMMA ApplyStep ==
  ASSUME UpgradeInv, NEW m \in Migrators, Apply(m)
  PROVE  UpgradeInv'
<1> DEFINE f == NextFile(m)
           todo == run[m].todo \ {f}
           done == Append(run[m].done, f)
           e == [run[m] EXCEPT !.todo = todo, !.done = done]
<1>1. /\ run[m].pc = "Applying" /\ lock = m /\ run[m].outcome = "None"
      /\ f \in run[m].todo /\ f \in File
      /\ Upgrading(run[m], ledger) /\ UNCHANGED <<script, started>>
  BY NextIn DEF Apply
<1>2. f.version \notin Versions(ledger)
  BY <1>1 DEF Apply, Upgrading
<1>3. run' = [run EXCEPT ![m] = e] /\ UNCHANGED <<ledger, schema, lock>>
  BY <1>2 DEF Apply
<1>4. run[m] \in RunRecord
  BY ScriptType
<1>5. run[m].done \in Seq(File) /\ run[m].todo \in SUBSET File
  <2> DEFINE r == run[m]
  <2>1. r \in RunRecord
    BY <1>4
  <2> HIDE DEF r
  <2>2. r.done \in Seq(File) /\ r.todo \in SUBSET File
    BY <2>1 DEF RunRecord
  <2> QED
    BY <2>2 DEF r
<1> HIDE DEF f
<1>6. done \in Seq(File) /\ todo \in SUBSET File
  BY <1>1, <1>5
<1>7. todo = run[m].todo \ {f} /\ done = Append(run[m].done, f)
  OBVIOUS
<1> HIDE DEF todo, done
<1>8. /\ e \in RunRecord /\ e.pc = run[m].pc /\ e.outcome = run[m].outcome
      /\ e.done = done /\ e.release = run[m].release
      /\ e.seen = run[m].seen /\ e.todo = todo
  BY <1>4, <1>6 DEF RunRecord
<1>9. Scripted(script, ledger)
  BY DEF UpgradeInv
<1> HIDE DEF e
<1> DEFINE d == run[m].done
<1>10. /\ Len(e.done) = Len(d) + 1 /\ DOMAIN d = 1..Len(d) /\ Len(d) \in Nat
      /\ DOMAIN e.done = 1..(Len(d) + 1)
      /\ e.done[Len(d) + 1] = f
      /\ \A k \in 1..Len(d) : e.done[k] = d[k]
  BY <1>5, <1>7, <1>8
<1>11. Entries(e.done) = Entries(d) \cup {f}
  <2>1. \A x \in Entries(e.done) : x \in Entries(d) \cup {f}
    BY <1>10 DEF Entries
  <2>2. \A x \in Entries(d) : x \in Entries(e.done)
    BY <1>10 DEF Entries
  <2>3. f \in Entries(e.done)
    BY <1>10 DEF Entries
  <2> QED
    BY <2>1, <2>2, <2>3
<1>12. \A k \in 1..Len(d) : d[k].version # f.version
  <2>1. Loads(Files[run[m].release]) /\ f \in Files[run[m].release]
    BY <1>1 DEF Upgrading
  <2>2. \A k \in 1..Len(d) : d[k] \in Files[run[m].release] /\ d[k] # f
    BY <1>1, <1>10 DEF Upgrading, Entries
  <2> QED
    BY <2>1, <2>2 DEF Loads
<1>13. Upgrading(e, ledger)
  <2> HIDE DEF d
  <2>1. OncePer(e.done)
    <3>1. OncePer(d)
      BY <1>1 DEF Upgrading, d
    <3> QED
      BY <1>10, <1>12, <3>1 DEF OncePer
  <2>2. \A k \in DOMAIN e.done :
          e.done[k].version \notin Versions(ledger) /\ e.done[k] \notin e.todo
    <3>1. \A k \in 1..Len(d) :
            d[k].version \notin Versions(ledger) /\ d[k] \notin run[m].todo
      BY <1>1, <1>10 DEF Upgrading, d
    <3> QED
      BY <1>2, <1>7, <1>8, <1>10, <3>1
  <2>3. Entries(d) \subseteq Files[run[m].release]
    BY <1>1 DEF Upgrading, d
  <2>4. Files[run[m].release] \subseteq run[m].todo \cup run[m].seen \cup Entries(d)
    BY <1>1 DEF Upgrading, d
  <2> QED
    BY <1>1, <1>7, <1>8, <1>11, <2>1, <2>2, <2>3, <2>4 DEF Upgrading
<1> QED
  BY <1>1, <1>3, <1>8, <1>9, <1>13, ScriptType, OneRun

\* When all files are visited, the ledger and what was applied are together
\* the directory: a known version that was not applied now is in the ledger
\* with the same contents.
LEMMA CommittedWhole ==
  ASSUME UpgradeInv, NEW m \in Migrators,
         run[m].pc = "Applying", run[m].todo = {}
  PROVE  ledger \cup Entries(run[m].done) = Files[run[m].release]
<1> DEFINE F == Files[run[m].release]
           D == Entries(run[m].done)
<1>1. /\ run[m].seen = ledger /\ Versions(ledger) \subseteq Versions(F)
      /\ D \subseteq F /\ F \subseteq ledger \cup D
      /\ \A k \in DOMAIN run[m].done : run[m].done[k].version \notin Versions(ledger)
  BY DEF UpgradeInv, Upgrading
<1>2. \A g \in D : g.version \notin Versions(ledger)
  BY <1>1 DEF Entries
<1>3. \A g, h \in ledger : g.version = h.version => g = h
  BY DEF UpgradeInv, AppliedOnce, Entries
<1>4. ASSUME NEW row \in ledger PROVE row \in F
  <2>1. PICK g \in F : g.version = row.version
    BY <1>1 DEF Versions
  <2>2. g \in ledger
    BY <1>1, <1>2, <2>1 DEF Versions
  <2> QED
    BY <1>3, <2>1, <2>2
<1> QED
  BY <1>1, <1>4

LEMMA CommitStep ==
  ASSUME UpgradeInv, NEW m \in Migrators, Commit(m)
  PROVE  UpgradeInv'
<1> DEFINE e == [run[m] EXCEPT !.pc = "Idle", !.outcome = "Done"]
           d == run[m].done
<1>1. run[m].pc = "Applying" /\ run[m].todo = {} /\ UNCHANGED <<script, started>>
  BY DEF Commit
<1>2. /\ ledger' = ledger \cup Entries(d) /\ schema' = schema \o d
      /\ lock' = IF lock = m THEN NoOne ELSE lock
      /\ run' = [run EXCEPT ![m] = e]
  BY DEF Commit, Unlock
<1>3. run[m] \in RunRecord /\ run \in [Migrators -> RunRecord] /\ lock = m
      /\ d \in Seq(File) /\ run[m].release \in Releases
  BY <1>1, ScriptType DEF RunRecord, UpgradeInv, Holder
<1>4. e \in RunRecord /\ e.pc = "Idle" /\ e.outcome = "Done"
  BY <1>3 DEF RunRecord, Outcomes
<1>5. /\ Upgrading(run[m], ledger) /\ Loads(Files[run[m].release])
      /\ OncePer(d)
      /\ \A k \in DOMAIN d : d[k].version \notin Versions(ledger)
  BY <1>1 DEF UpgradeInv, Upgrading
<1>6. ledger' = Files[run[m].release]
  BY <1>1, <1>2, CommittedWhole
<1> HIDE DEF e, d
<1>7. schema' \in Seq(File) /\ Entries(schema') = ledger' /\ OncePer(schema')
  <2>1. schema \in Seq(File) /\ Entries(schema) = ledger /\ OncePer(schema)
    BY ScriptType DEF UpgradeInv, AppliedOnce, OncePer
  <2>2. OncePer(schema \o d)
    BY <1>3, <1>5, <2>1, OncePerConcat
  <2>3. schema \o d \in Seq(File) /\ Entries(schema \o d) = Entries(schema) \cup Entries(d)
    BY <1>3, <2>1, EntriesConcat
  <2> QED
    BY <1>2, <2>1, <2>2, <2>3
<1>8. run'[m] = e /\ \A o \in Migrators \ {m} : run'[o] = run[o]
  BY <1>2, <1>3
<1>9. \A o \in Migrators \ {m} : run[o].pc \notin {"Reading", "Applying"}
  BY <1>3 DEF UpgradeInv, Holder
<1>10. TypeOK'
  <2>1. run' \in [Migrators -> RunRecord]
    BY <1>2, <1>3, <1>4
  <2>2. ledger' \in SUBSET File
    BY <1>3, <1>6, FileType
  <2>3. lock' \in Migrators \cup {NoOne}
    BY <1>2, <1>3
  <2>4. \A o \in Migrators : run'[o].pc # "Idle" => run'[o].outcome = "None"
    BY <1>4, <1>8 DEF UpgradeInv, TypeOK
  <2> QED
    BY <1>1, <1>7, <2>1, <2>2, <2>3, <2>4, ScriptType DEF TypeOK, ScriptRecord
<1>11. Holder'
  <2>1. lock' = NoOne
    BY <1>2, <1>3
  <2> QED
    BY <1>4, <1>8, <1>9, <2>1, ReleasesAssumption DEF Holder
<1>12. ASSUME NEW o \in Migrators PROVE Upgrading(run'[o], ledger')
  <2>1. CASE o = m
    BY <1>4, <1>8, <2>1 DEF Upgrading
  <2>2. CASE o # m
    BY <1>8, <1>9, <2>2 DEF UpgradeInv, Upgrading
  <2> QED
    BY <2>1, <2>2
<1>13. AppliedOnce'
  BY <1>7 DEF AppliedOnce, OncePer
<1>14. WholeReleases'
  BY <1>3, <1>5, <1>6 DEF WholeReleases
<1>15. NeverConflicts'
  BY <1>4, <1>8 DEF UpgradeInv, NeverConflicts
<1>16. Scripted(script', ledger')
  BY <1>1, <1>2 DEF UpgradeInv, Scripted
<1> QED
  BY <1>1, <1>10, <1>11, <1>12, <1>13, <1>14, <1>15, <1>16 DEF UpgradeInv

LEMMA UpgradeStep ==
  ASSUME UpgradeInv, NEW m \in Migrators, NEW r \in Releases, Upgrade(m, r)
  PROVE  UpgradeInv'
<1>1. /\ run[m].pc = "Idle" /\ run' = [run EXCEPT ![m] = Launched(r)]
      /\ started < MaxRuns /\ started' = started + 1
      /\ UNCHANGED <<ledger, schema, lock, script>>
  BY DEF Upgrade
<1>2. lock # m /\ started' \in 0 .. MaxRuns
  BY <1>1, ScriptType, ReleasesAssumption DEF UpgradeInv, Holder
<1>3. Scripted(script, ledger)
  BY DEF UpgradeInv
<1> QED
  BY <1>1, <1>2, <1>3, LaunchedRun, ScriptType, OneRun

LEMMA CheckStep ==
  ASSUME UpgradeInv, NEW m \in Migrators, NEW r \in Releases, Check(m, r)
  PROVE  UpgradeInv'
<1> DEFINE a == Status(Files[r], ledger)
           e == [run[m] EXCEPT !.release = r, !.outcome = a]
<1>1. /\ run[m].pc = "Idle" /\ run' = [run EXCEPT ![m] = e]
      /\ started < MaxRuns /\ started' = started + 1
      /\ UNCHANGED <<ledger, schema, lock, script>>
  BY DEF Check
<1>2. a \in Outcomes /\ a # "Conflict"
  BY DEF Status, Outcomes
<1> HIDE DEF a
<1>3. lock # m /\ started' \in 0 .. MaxRuns
  BY <1>1, ScriptType, ReleasesAssumption DEF UpgradeInv, Holder
<1>4. run[m] \in RunRecord
  BY ScriptType
<1>5. e \in RunRecord /\ e.pc = run[m].pc /\ e.outcome = a
  BY <1>2, <1>4 DEF RunRecord
<1> HIDE DEF e
<1>6. Upgrading(e, ledger)
  BY <1>1, <1>5 DEF Upgrading
<1>7. Scripted(script, ledger)
  BY DEF UpgradeInv
<1> QED
  BY <1>1, <1>2, <1>3, <1>5, <1>6, <1>7, ScriptType, OneRun

LEMMA ReleaseStep ==
  ASSUME UpgradeInv, NEW r \in Releases, Release(r)
  PROVE  UpgradeInv'
<1>1. /\ run[Vm].pc = "Idle" /\ run' = [run EXCEPT ![Vm] = Launched(r)]
      /\ started < MaxRuns /\ started' = started + 1
      /\ UNCHANGED <<ledger, schema, lock>>
  BY DEF Release
<1>2. script \in ScriptRecord
  BY ScriptType DEF ScriptRecord
<1>3. script' \in ScriptRecord /\ Scripted(script', ledger)
  BY <1>2 DEF Release, ScriptRecord, Results, Phases, Scripted
<1>4. lock # Vm /\ started' \in 0 .. MaxRuns
  BY <1>1, ScriptType, ReleasesAssumption DEF UpgradeInv, Holder
<1> QED
  BY <1>1, <1>3, <1>4, LaunchedRun, ScriptType, OneRun, ReleasesAssumption
  DEF ScriptRecord

\* A step of the script alone keeps the invariant.
LEMMA ScriptOnly ==
  ASSUME UpgradeInv, UNCHANGED <<ledger, schema, lock, run, started>>,
         script' \in ScriptRecord, Scripted(script', ledger)
  PROVE  UpgradeInv'
<1>1. TypeOK'
  BY DEF UpgradeInv, TypeOK, ScriptRecord
<1>2. Holder' /\ AppliedOnce' /\ WholeReleases' /\ NeverConflicts'
  BY DEF UpgradeInv, Holder, AppliedOnce, WholeReleases, NeverConflicts
<1>3. (\A m \in Migrators : Upgrading(run[m], ledger))'
  BY DEF UpgradeInv
<1> QED
  BY <1>1, <1>2, <1>3 DEF UpgradeInv

\* The readiness check finds the ledger to be the release's directory.
LEMMA ReadyStep ==
  ASSUME UpgradeInv, BecomesReady
  PROVE  UpgradeInv'
<1> DEFINE phase == IF script.phase = "Deploying" THEN "Verifying" ELSE "VerifyingRollback"
           s == [script EXCEPT !.phase = phase]
<1>1. /\ script' = s /\ UNCHANGED <<ledger, schema, lock, run, started>>
      /\ script.phase # "Idle" /\ Status(Files[script.sha], ledger) = "Current"
  BY DEF BecomesReady, MigrationEnded, Ready
<1>2. phase \in {"Verifying", "VerifyingRollback"}
  OBVIOUS
<1> HIDE DEF phase
<1>3. script \in ScriptRecord /\ script.result = "None"
  BY <1>1, ScriptType DEF UpgradeInv, Scripted
<1>4. /\ s \in ScriptRecord /\ s.phase = phase
      /\ s.sha = script.sha /\ s.result = script.result
  BY <1>2, <1>3 DEF ScriptRecord, Phases
<1>5. Loads(Files[script.sha]) /\ Files[script.sha] = ledger
  BY <1>1, StatusCurrent
<1> HIDE DEF s
<1>6. Scripted(s, ledger)
  BY <1>3, <1>4, <1>5 DEF Scripted
<1> QED
  BY <1>1, <1>4, <1>6, ScriptOnly

LEMMA RecordStep ==
  ASSUME UpgradeInv, RecordSuccess
  PROVE  UpgradeInv'
<1> DEFINE result == IF script.phase = "Verifying" THEN "Succeeded" ELSE "RolledBack"
           s == [script EXCEPT !.phase = "Idle", !.result = result]
<1>1. /\ script' = s /\ UNCHANGED <<ledger, schema, lock, run, started>>
      /\ script.phase \in {"Verifying", "VerifyingRollback"}
  BY DEF RecordSuccess
<1>2. result \in Results
  BY DEF Results
<1> HIDE DEF result
<1>3. script \in ScriptRecord
  BY ScriptType
<1>4. s \in ScriptRecord /\ s.phase = "Idle" /\ s.sha = script.sha
  BY <1>2, <1>3 DEF ScriptRecord, Phases
<1>5. Loads(Files[script.sha]) /\ Files[script.sha] \subseteq ledger
  BY <1>1 DEF UpgradeInv, Scripted
<1> HIDE DEF s
<1>6. Scripted(s, ledger)
  BY <1>4, <1>5 DEF Scripted
<1> QED
  BY <1>1, <1>4, <1>6, ScriptOnly

LEMMA NotDeployedStep ==
  ASSUME UpgradeInv, NotDeployed
  PROVE  UpgradeInv'
<1>1. /\ script.phase # "Idle" /\ run[Vm].pc = "Idle"
      /\ UNCHANGED <<ledger, schema, lock, started>>
  BY DEF NotDeployed, MigrationEnded
<1>2. script \in ScriptRecord /\ script.result = "None"
  BY <1>1, ScriptType DEF UpgradeInv, Scripted
<1>3. CASE FirstAttempt /\ script.previous # script.sha
  <2> DEFINE previous == script.previous
             s == [script EXCEPT !.phase = "RollingBack", !.sha = previous]
  <2>1. script' = s /\ run' = [run EXCEPT ![Vm] = Launched(previous)]
    BY <1>3 DEF NotDeployed
  <2>2. previous \in Releases
    BY <1>2 DEF ScriptRecord
  <2> HIDE DEF previous
  <2>3. s \in ScriptRecord /\ s.result = "None" /\ s.phase = "RollingBack"
    BY <1>2, <2>2 DEF ScriptRecord, Phases
  <2> HIDE DEF s
  <2>4. Scripted(s, ledger)
    BY <2>3 DEF Scripted
  <2>5. lock # Vm
    BY <1>1, ReleasesAssumption DEF UpgradeInv, Holder
  <2> QED
    BY <1>1, <2>1, <2>2, <2>3, <2>4, <2>5, LaunchedRun, ScriptType, OneRun,
       ReleasesAssumption
<1>4. CASE ~(FirstAttempt /\ script.previous # script.sha)
  <2> DEFINE result == IF FirstAttempt THEN "Failed" ELSE "RollbackFailed"
             s == [script EXCEPT !.phase = "Idle", !.result = result]
  <2>1. script' = s /\ UNCHANGED run
    BY <1>4 DEF NotDeployed
  <2>2. result \in {"Failed", "RollbackFailed"}
    OBVIOUS
  <2> HIDE DEF result
  <2>3. s \in ScriptRecord /\ s.phase = "Idle" /\ s.result = result
    BY <1>2, <2>2 DEF ScriptRecord, Phases, Results
  <2> HIDE DEF s
  <2>4. Scripted(s, ledger)
    BY <2>2, <2>3 DEF Scripted
  <2> QED
    BY <1>1, <2>1, <2>3, <2>4, ScriptOnly
<1> QED
  BY <1>3, <1>4

\* Every step keeps the invariant.
THEOREM UpgradeNext == UpgradeInv /\ [Next]_vars => UpgradeInv'
<1>1. ASSUME UpgradeInv, Next PROVE UpgradeInv'
  <2>1. \A m \in Migrators : Lock(m) => UpgradeInv'
    BY <1>1, LockStep
  <2>2. \A m \in Migrators : ReadLedger(m) => UpgradeInv'
    BY <1>1, ReadStep
  <2>3. \A m \in Migrators : SkipApplied(m) => UpgradeInv'
    BY <1>1, SkipStep
  <2>4. \A m \in Migrators : RefuseChanged(m) => UpgradeInv'
    BY <1>1, RefuseStep
  <2>5. \A m \in Migrators : Apply(m) => UpgradeInv'
    BY <1>1, ApplyStep
  <2>6. \A m \in Migrators : Commit(m) => UpgradeInv'
    BY <1>1, CommitStep
  <2>7. \A m \in Migrators : Abort(m) => UpgradeInv'
    BY <1>1, AbortStep
  <2>8. \A m \in Migrators : \A r \in Releases : Upgrade(m, r) => UpgradeInv'
    BY <1>1, UpgradeStep
  <2>9. \A m \in Migrators : \A r \in Releases : Check(m, r) => UpgradeInv'
    BY <1>1, CheckStep
  <2>10. \A r \in Releases : Release(r) => UpgradeInv'
    BY <1>1, ReleaseStep
  <2>11. BecomesReady => UpgradeInv'
    BY <1>1, ReadyStep
  <2>12. RecordSuccess => UpgradeInv'
    BY <1>1, RecordStep
  <2>13. NotDeployed => UpgradeInv'
    BY <1>1, NotDeployedStep
  <2> HIDE DEF UpgradeInv
  <2> DEFINE P == UpgradeInv'
  <2>14. P
    <3> HIDE DEF P
    <3> QED
      BY <1>1, <2>1, <2>2, <2>3, <2>4, <2>5, <2>6, <2>7, <2>8, <2>9, <2>10,
         <2>11, <2>12, <2>13, NextCases DEF P
  <2> QED
    BY <2>14
<1>2. ASSUME UpgradeInv, UNCHANGED vars PROVE UpgradeInv'
  <2>1. script' \in ScriptRecord
    BY <1>2, ScriptType DEF vars
  <2> QED
    BY <1>2, <2>1, ScriptOnly DEF vars, UpgradeInv
<1> QED
  BY <1>1, <1>2

\* The invariant that carries the theorems below.
THEOREM UpgradeInvariance == Spec => []UpgradeInv
BY UpgradeInit, UpgradeNext, PTL DEF Spec

\* The variables of the runner and the script keep their types, and an open
\* command has no outcome.
THEOREM TypeCorrect == Spec => []TypeOK
<1>1. UpgradeInv => TypeOK
  BY DEF UpgradeInv
<1> QED
  BY <1>1, UpgradeInvariance, PTL

\* Every migration in the ledger ran exactly once, and nothing else ran.
THEOREM ExactlyOnce == Spec => []AppliedOnce
<1>1. UpgradeInv => AppliedOnce
  BY DEF UpgradeInv
<1> QED
  BY <1>1, UpgradeInvariance, PTL

\* An upgrade leaves all of its files behind or none, and releases that do
\* not extend each other never mix.
THEOREM AllOrNothing == Spec => []WholeReleases
<1>1. UpgradeInv => WholeReleases
  BY DEF UpgradeInv
<1> QED
  BY <1>1, UpgradeInvariance, PTL

\* The advisory lock keeps overlapping upgrades from failing one another.
THEOREM NoConflicts == Spec => []NeverConflicts
<1>1. UpgradeInv => NeverConflicts
  BY DEF UpgradeInv
<1> QED
  BY <1>1, UpgradeInvariance, PTL

\* From its readiness check until the next release begins, a release runs on
\* the whole schema of a release that contains all of its own migrations,
\* whatever upgrades commit in the meantime.
THEOREM ReleasesServeKnownSchema == Spec => []ServesKnownSchema
<1>1. ASSUME UpgradeInv PROVE ServesKnownSchema
  <2> SUFFICES ASSUME Serving
               PROVE  \E r \in Releases :
                        /\ Loads(Files[r])
                        /\ Files[script.sha] \subseteq Files[r]
                        /\ Entries(schema) = Files[r]
    BY DEF ServesKnownSchema
  <2>1. Loads(Files[script.sha]) /\ Files[script.sha] \subseteq ledger
    BY <1>1 DEF Serving, UpgradeInv, Scripted
  <2>2. ledger # {} /\ Entries(schema) = ledger
    BY <1>1, <2>1 DEF Loads, UpgradeInv, AppliedOnce
  <2>3. PICK r \in Releases : Loads(Files[r]) /\ ledger = Files[r]
    BY <1>1, <2>2 DEF UpgradeInv, WholeReleases
  <2> QED
    BY <2>1, <2>2, <2>3
<1> QED
  BY <1>1, UpgradeInvariance, PTL
=============================================================================
