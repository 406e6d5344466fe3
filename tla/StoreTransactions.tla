-------------------------- MODULE StoreTransactions --------------------------
(***************************************************************************)
(* The PostgreSQL transactions of the API replicas and the scoring workers *)
(* that decide from rows they have counted: wallet challenges and          *)
(* sessions, the reservation of sponsored work, incident fingerprints,     *)
(* feature histories and assessor outcomes. Each runs on a connection of   *)
(* its own at READ COMMITTED, takes advisory locks that last until it      *)
(* ends, reads what is committed, and commits or rolls back as a whole.    *)
(* A request is a call, numbered as it arrives; its number also names the  *)
(* row it inserts. The clock is read before the locks are taken.           *)
(***************************************************************************)
EXTENDS Integers, Sequences, FiniteSets

CONSTANTS
  Workloads,              \* the requests made together and, as bounds, the
                          \* instants the clock shows and how many are made
  Tokens,                 \* bearer sessions opened before: wallet and end
  Indexed, Screened,      \* claims in the index, claims with an assessment
  ChallengeClientLimit, ChallengeWalletLimit,  \* challenges per minute
  ClaimantLimit, ClientMinuteLimit,            \* preparations per minute
  Minute, Day, ChallengeTtl, SessionTtl, Lease,
  MaxCrashes              \* bound: requests whose process dies

ASSUME ClockAssumption ==
  /\ \A w \in Workloads : w.times \subseteq Nat /\ w.calls \in Nat
  /\ {Minute, Day, ChallengeTtl, SessionTtl, Lease} \subseteq Nat \ {0}

ASSUME LimitsAssumption ==
  {ChallengeClientLimit, ChallengeWalletLimit, ClaimantLimit, ClientMinuteLimit}
    \subseteq Nat \ {0}

\* A request is a record of its kind, known by the fields that decide.
ASSUME RequestsAssumption ==
  \A w \in Workloads : \A r \in w.requests :
    /\ r.kind \in {"challenge", "session", "prepare", "screen", "outcome"}
    /\ r.kind \in {"challenge", "prepare"} => r.wallet \in STRING /\ r.client \in STRING
    /\ r.kind = "session" => r.signedBy \in STRING
    /\ r.kind = "prepare" =>
         r.key \in STRING /\ r.claim \in STRING /\ r.policy.quota \in Nat
    /\ r.kind = "screen" => r = [kind |-> "screen", event |-> r.event]
    /\ r.kind = "outcome" => r.claim \in STRING

VARIABLES
  workload,
  clock,
  calls,         \* the requests so far and how far each has come
  challenges,    \* claimant_auth_challenges
  sessions,      \* tokens issued for consumed challenges
  submissions,   \* gasless_claim_submissions
  fingerprints,  \* events in claim_incident_fingerprints
  snapshots,     \* claim_feature_snapshots
  outcomes       \* claim_assessor_outcomes

intakeVars == <<challenges, sessions, submissions>>
reviewVars == <<fingerprints, snapshots, outcomes>>
vars == <<workload, clock, calls, intakeVars, reviewVars>>

Numbers == 1..workload.calls
Screenings == {r \in workload.requests : r.kind = "screen"}
Events == {r.event : r \in Screenings}

\* A screening goes on with a second transaction.
Requests == workload.requests \cup {[r EXCEPT !.kind = "features"] : r \in Screenings}

Errors == {"challenge_limit", "challenge_used", "limit", "conflict", "unauthenticated",
           "ineligible", "not_found", "not_screened", "incident_later", "storage"}

TypeOK ==
  /\ workload \in Workloads
  /\ clock \in {0} \cup workload.times
  /\ calls \in Seq([pc : {"get", "consume", "lock", "read", "done"},
                    req : Requests, now : Nat, taken : 0..2,
                    matches : SUBSET Events, number : Nat,
                    status : {0, 200, 201, 401, 403, 404, 409, 429, 502, 503},
                    error : Errors \cup {"none"}])
  /\ challenges \subseteq [id : Numbers, wallet : STRING, client : STRING,
                           at : Nat, expires : Nat, consumed : BOOLEAN]
  /\ sessions \subseteq [challenge : Numbers, by : Numbers, wallet : STRING, until : Nat]
  /\ submissions \subseteq [id : Numbers, wallet : STRING, client : STRING, key : STRING,
                            claim : STRING, quota : Nat, at : Nat,
                            state : {"unsigned", "signed", "ended"}]
  /\ fingerprints \subseteq Events
  /\ snapshots \subseteq [event : Events, matches : SUBSET Events, prior : Nat]
  /\ outcomes \subseteq [id : Numbers, claim : STRING, revision : Nat \ {0}]

Init ==
  /\ workload \in Workloads
  /\ clock = 0
  /\ calls = <<>>
  /\ challenges = {} /\ sessions = {} /\ submissions = {}
  /\ fingerprints = {} /\ snapshots = {} /\ outcomes = {}

-----------------------------------------------------------------------------
(* Transactions *)

Call(r, pc) ==
  [pc |-> pc, req |-> r, now |-> clock, taken |-> 0, matches |-> {}, number |-> 0,
   status |-> 0, error |-> "none"]

Done(r, status, error) ==
  [pc |-> "done", req |-> r, now |-> 0, taken |-> 0, matches |-> {}, number |-> 0,
   status |-> status, error |-> error]

Arrive(call) ==
  /\ Len(calls) < workload.calls
  /\ calls' = Append(calls, call)
  /\ UNCHANGED <<workload, clock, intakeVars, reviewVars>>

\* Fault: the locks of a request that is refused outlive it, as those of
\* pg_advisory_lock would on a pooled connection.
FinishKeepingLocks(i, status, error) ==
  calls' = [calls EXCEPT ![i] =
    [Done(calls[i].req, status, error) EXCEPT !.taken = IF error # "none" THEN calls[i].taken ELSE 0]]

\* The transaction ends, its locks are released and the request is answered.
Finish(i, status, error) == calls' = [calls EXCEPT ![i] = Done(calls[i].req, status, error)]

\* Fault: one limit's lock is forgotten.
ChallengeLocksWalletOnly(r) == <<<<"wallet", r.wallet>>>>

ChallengeLocks(r) == <<<<"client", r.client>>, <<"wallet", r.wallet>>>>

\* Fault: the locks separate the requests they should serialize.
PreparationLocksByKey(r) == <<<<"key", r.key>>>>

PreparationLocks(r) == <<<<"credential", r.wallet>>, <<"signer", r.wallet>>>>

\* Fault: the lock names the claim, not what the claims may share.
FingerprintLocksByEvent(r) == <<<<"event", r.event.id>>>>

FingerprintLocks(r) == <<<<"fingerprint", r.event.incident>>>>

HistoryLocks(r) == <<<<"history", r.event.insurer>>>>

\* Fault: no lock is taken.
OutcomeLocksNone(r) == <<>>

OutcomeLocks(r) == <<<<"outcome", r.claim>>>>

LocksOf(r) ==
  CASE r.kind = "challenge" -> ChallengeLocks(r)
    [] r.kind = "prepare"   -> PreparationLocks(r)
    [] r.kind = "screen"    -> FingerprintLocks(r)
    [] r.kind = "features"  -> HistoryLocks(r)
    [] r.kind = "outcome"   -> OutcomeLocks(r)
    [] r.kind = "session"   -> <<>>

Holds(i) == {LocksOf(calls[i].req)[k] : k \in 1..calls[i].taken}

\* The features of a claim are refused when its incident is dated after the
\* block of its event.
Unusable(r) == r.kind = "features" /\ r.event.later

\* pg_advisory_xact_lock: the transaction waits for its next lock.
Lock(i) ==
  LET wanted == LocksOf(calls[i].req)
  IN  /\ calls[i].pc = "lock" /\ calls[i].taken < Len(wanted)
      /\ ~Unusable(calls[i].req)
      /\ \A j \in DOMAIN calls \ {i} : wanted[calls[i].taken + 1] \notin Holds(j)
      /\ calls' = [calls EXCEPT ![i].taken = @ + 1]
      /\ UNCHANGED <<workload, clock, intakeVars, reviewVars>>

\* The call holds every lock and is about to count.
Counting(i, kind) ==
  /\ calls[i].pc = "lock" /\ calls[i].req.kind = kind
  /\ calls[i].taken = Len(LocksOf(calls[i].req))

Counted(i, kind) == calls[i].pc = "read" /\ calls[i].req.kind = kind

Proceed(i) ==
  /\ calls' = [calls EXCEPT ![i].pc = "read"]
  /\ UNCHANGED <<workload, clock, intakeVars, reviewVars>>

\* The process or its connection is lost; the server rolls back.
Crash(i) ==
  /\ calls[i].pc # "done"
  /\ Cardinality({j \in DOMAIN calls : calls[j].pc = "done" /\ calls[j].status = 0})
       < MaxCrashes
  /\ Finish(i, 0, "none")
  /\ UNCHANGED <<workload, clock, intakeVars, reviewVars>>

\* What PostgresDatabase.cursor lets through when it rolls back. Only
\* subclasses of PostgresStorageError keep their type; the errors of the
\* challenge repository are not among them.
Raised(error) == IF error \in {"limit", "conflict"} THEN error ELSE "storage"

\* The handler's status for what reaches it. A screening has none: the worker
\* keeps its event for another delivery, as a client would retry.
Status(error) ==
  CASE error \in {"challenge_limit", "limit"} -> 429
    [] error \in {"challenge_used", "unauthenticated"} -> 401
    [] error = "ineligible" -> 403
    [] error = "not_found" -> 404
    [] error \in {"conflict", "not_screened"} -> 409
    [] error \in {"storage", "incident_later"} -> 503

\* Refused before or outside a transaction, and inside one.
Refuse(i, error) ==
  /\ Finish(i, Status(error), error)
  /\ UNCHANGED <<workload, clock, intakeVars, reviewVars>>

RollBack(i, error) ==
  /\ Finish(i, Status(Raised(error)), error)
  /\ UNCHANGED <<workload, clock, intakeVars, reviewVars>>

-----------------------------------------------------------------------------
(* Challenges and sessions: claimant_auth.py and its repository *)

WithinMinute(rows, now) == {s \in rows : s.at >= now - Minute}

\* issue_challenge
IssueChallenge(r) ==
  /\ r.kind = "challenge"
  /\ Arrive(Call(r, "lock"))

CountChallenges(i) ==
  LET r == calls[i].req
      recent == WithinMinute(challenges, calls[i].now)
  IN  /\ Counting(i, "challenge")
      /\ IF \/ Cardinality({c \in recent : c.client = r.client}) >= ChallengeClientLimit
            \/ Cardinality({c \in recent : c.wallet = r.wallet}) >= ChallengeWalletLimit
         THEN RollBack(i, "challenge_limit")
         ELSE Proceed(i)

\* Rows that expired a day ago are deleted on the way.
InsertChallenge(i) ==
  LET now == calls[i].now
  IN  /\ Counted(i, "challenge")
      /\ challenges' = {c \in challenges : c.expires >= now - Day} \cup
           {[id |-> i, wallet |-> calls[i].req.wallet, client |-> calls[i].req.client,
             at |-> now, expires |-> now + ChallengeTtl, consumed |-> FALSE]}
      /\ Finish(i, 201, "none")
      /\ UNCHANGED <<workload, clock, sessions, submissions, reviewVars>>

\* create_session for a challenge answered before.
CreateSession(r) ==
  /\ r.kind = "session"
  /\ r.challenge \in DOMAIN calls
  /\ calls[r.challenge].req.kind = "challenge" /\ calls[r.challenge].status = 201
  /\ Arrive([Call(r, "get") EXCEPT !.now = 0])

\* The row is read, then the clock, and the signature recovered from the
\* message; the transaction that read the row has ended.
VerifyChallenge(i) ==
  LET r == calls[i].req
      found == {c \in challenges : /\ c.id = r.challenge /\ c.wallet = r.signedBy
                                   /\ ~c.consumed /\ c.expires >= clock}
  IN  /\ calls[i].pc = "get"
      /\ IF found = {}
         THEN Refuse(i, "challenge_used")
         ELSE /\ calls' = [calls EXCEPT ![i].pc = "consume", ![i].now = clock]
              /\ UNCHANGED <<workload, clock, intakeVars, reviewVars>>

\* Fault: the update trusts the row that was read.
ConsumeTrusting(c, now) == TRUE

\* The condition of the update, on the row as it is by then.
Consumable(c, now) == ~c.consumed /\ c.expires >= now

ConsumeChallenge(i) ==
  LET r == calls[i].req
      rows == {c \in challenges : c.id = r.challenge}
      spendable == {c \in rows : c.wallet = r.signedBy /\ Consumable(c, calls[i].now)}
  IN  /\ calls[i].pc = "consume"
      /\ IF spendable # {}
         THEN /\ challenges' = (challenges \ rows) \cup
                   {[c EXCEPT !.consumed = TRUE] : c \in spendable}
              /\ sessions' = sessions \cup
                   {[challenge |-> r.challenge, by |-> i, wallet |-> r.signedBy,
                     until |-> calls[i].now + SessionTtl]}
              /\ Finish(i, 200, "none")
              /\ UNCHANGED <<workload, clock, submissions, reviewVars>>
         ELSE RollBack(i, "challenge_used")

\* authenticate: a token that was issued and has not ended.
Authenticated(wallet) ==
  \E s \in sessions \cup Tokens : s.wallet = wallet /\ s.until > clock

-----------------------------------------------------------------------------
(* Sponsored preparations: gasless_service.prepare and begin_preparation *)

\* verify: the policy names the submitter and the insurer, and covers the
\* incident on its date; covered is FALSE for a type or an amount it excludes.
Eligible(r) ==
  LET p == r.policy
  IN  /\ r.wallet \in p.submitters
      /\ r.insurer = p.insurer
      /\ r.incident <= clock \div Day
      /\ p.from <= r.incident /\ r.incident <= p.until
      /\ r.covered

Prepare(r) ==
  /\ r.kind = "prepare"
  /\ Arrive(IF ~Authenticated(r.wallet)
              THEN Done(r, Status("unauthenticated"), "unauthenticated")
            ELSE IF ~Eligible(r) THEN Done(r, Status("ineligible"), "ineligible")
            ELSE Call(r, "lock"))

\* Unsigned rows of the wallet whose lease or deadline has passed are closed.
Reclaimed(wallet, now) ==
  {IF s.wallet = wallet /\ s.state = "unsigned" /\ s.at + Lease < now
   THEN [s EXCEPT !.state = "ended"] ELSE s : s \in submissions}

\* Since midnight UTC.
Today(s, now) == s.at >= (now \div Day) * Day

OverLimit(r, mine, now) ==
  \/ Cardinality(WithinMinute(mine, now)) >= ClaimantLimit
  \/ Cardinality({s \in WithinMinute(submissions, now) : s.client = r.client})
       >= ClientMinuteLimit
  \/ Cardinality({s \in mine : Today(s, now)}) >= r.policy.quota

\* What begin_preparation decides from, once it holds its locks.
Mine(i) == {s \in Reclaimed(calls[i].req.wallet, calls[i].now) : s.wallet = calls[i].req.wallet}
SameKey(i) == {s \in Mine(i) : s.key = calls[i].req.key}
Open(rows) == {s \in rows : s.state # "ended"}

\* A retry returns the existing row, and what was reclaimed is committed.
ReturnExisting(i) ==
  /\ Counting(i, "prepare")
  /\ \E s \in SameKey(i) : s.claim = calls[i].req.claim
  /\ submissions' = Reclaimed(calls[i].req.wallet, calls[i].now)
  /\ Finish(i, 201, "none")
  /\ UNCHANGED <<workload, clock, challenges, sessions, reviewVars>>

\* GaslessSubmissionConflictError and GaslessSubmissionLimitError roll back,
\* and with them what was reclaimed.
RefuseConflict(i) ==
  /\ Counting(i, "prepare")
  /\ \/ \E s \in SameKey(i) : s.claim # calls[i].req.claim
     \/ SameKey(i) = {} /\ Open(Mine(i)) # {}
  /\ RollBack(i, "conflict")

CheckLimits(i) ==
  /\ Counting(i, "prepare")
  /\ SameKey(i) = {} /\ Open(Mine(i)) = {}
  /\ IF OverLimit(calls[i].req, Mine(i), calls[i].now)
     THEN RollBack(i, "limit")
     ELSE Proceed(i)

\* The unique indexes over (credential, key) and over a signer's open rows
\* refuse an insert that the locks should have prevented.
InsertSubmission(i) ==
  LET r == calls[i].req
      new == [id |-> i, wallet |-> r.wallet, client |-> r.client, key |-> r.key,
              claim |-> r.claim, quota |-> r.policy.quota, at |-> calls[i].now,
              state |-> "unsigned"]
  IN  /\ Counted(i, "prepare")
      /\ IF SameKey(i) \cup Open(Mine(i)) # {}
         THEN Finish(i, 502, "storage") /\ UNCHANGED submissions
         ELSE /\ submissions' = Reclaimed(r.wallet, calls[i].now) \cup {new}
              /\ Finish(i, 201, "none")
      /\ UNCHANGED <<workload, clock, challenges, sessions, reviewVars>>

\* Rows a transaction has updated are locked until it ends.
Unlocked(s) ==
  \A i \in DOMAIN calls :
    calls[i].pc = "read" /\ calls[i].req.kind = "prepare" => calls[i].req.wallet # s.wallet

\* Authorization and the relay move a submission on (GaslessRelay).
RelayMoves(s) ==
  /\ Unlocked(s)
  /\ \/ /\ s.state = "unsigned"
        /\ submissions' = (submissions \ {s}) \cup {[s EXCEPT !.state = "signed"]}
     \/ /\ s.state # "ended"
        /\ submissions' = (submissions \ {s}) \cup {[s EXCEPT !.state = "ended"]}
  /\ UNCHANGED <<workload, clock, calls, challenges, sessions, reviewVars>>

-----------------------------------------------------------------------------
(* Screening: the scoring worker has the duplicate detector and then the   *)
(* feature processor call their repositories *)

\* An event whose document the gateway signed is delivered, perhaps again.
Screen(r) ==
  /\ r.kind = "screen"
  /\ Arrive(Call(r, "lock"))

Matches(e) ==
  {d \in fingerprints \ {e} : d.incident = e.incident /\ d.insurer # e.insurer}

\* record_and_find_duplicates
FindDuplicates(i) ==
  /\ Counting(i, "screen")
  /\ calls' = [calls EXCEPT ![i].pc = "read", ![i].matches = Matches(calls[i].req.event)]
  /\ UNCHANGED <<workload, clock, intakeVars, reviewVars>>

\* Its commit; the features follow in a transaction of their own.
CommitFingerprint(i) ==
  LET r == calls[i].req
  IN  /\ Counted(i, "screen")
      /\ fingerprints' = fingerprints \cup {r.event}
      /\ calls' = [calls EXCEPT ![i] =
           [Call([r EXCEPT !.kind = "features"], "lock")
             EXCEPT !.matches = calls[i].matches, !.now = 0]]
      /\ UNCHANGED <<workload, clock, intakeVars, snapshots, outcomes>>

\* process refuses before it opens its transaction, at every delivery; the
\* fingerprint stays.
RefuseFeatures(i) ==
  /\ calls[i].pc = "lock" /\ Unusable(calls[i].req)
  /\ Refuse(i, "incident_later")

\* record_feature_snapshot: the insurer's snapshots so far.
CountHistory(i) ==
  /\ Counting(i, "features")
  /\ calls' = [calls EXCEPT ![i].pc = "read", ![i].number =
       Cardinality({s \in snapshots : s.event.insurer = calls[i].req.event.insurer})]
  /\ UNCHANGED <<workload, clock, intakeVars, reviewVars>>

\* Fault: ON CONFLICT DO UPDATE.
KeptRefreshing(event) == {s \in snapshots : s.event # event}

\* ON CONFLICT DO NOTHING: a snapshot that is there stays.
Kept(event) == snapshots

CommitSnapshot(i) ==
  LET event == calls[i].req.event
      new == [event |-> event, matches |-> calls[i].matches, prior |-> calls[i].number]
  IN  /\ Counted(i, "features")
      /\ snapshots' = IF \E s \in Kept(event) : s.event = event THEN snapshots
                      ELSE Kept(event) \cup {new}
      /\ Finish(i, 200, "none")
      /\ UNCHANGED <<workload, clock, intakeVars, fingerprints, outcomes>>

-----------------------------------------------------------------------------
(* Assessor outcomes *)

\* record_assessor_outcome: the claim is indexed and has been screened.
RecordOutcome(r) ==
  /\ r.kind = "outcome"
  /\ Arrive(IF r.claim \notin Indexed THEN Done(r, Status("not_found"), "not_found")
            ELSE IF r.claim \notin Screened
              THEN Done(r, Status("not_screened"), "not_screened")
            ELSE Call(r, "lock"))

Revisions(c) == {o.revision : o \in {q \in outcomes : q.claim = c}}

\* Fault: the revision is MAX, not MAX + 1.
LatestRevision(c) == Cardinality(Revisions(c))

\* COALESCE(MAX(revision), 0) + 1; revisions are never deleted.
NextRevision(c) ==
  CHOOSE n \in 1..(Cardinality(Revisions(c)) + 1) :
    n \notin Revisions(c) /\ \A m \in Revisions(c) : m < n

ReadRevision(i) ==
  /\ Counting(i, "outcome")
  /\ calls' = [calls EXCEPT ![i].pc = "read", ![i].number = NextRevision(calls[i].req.claim)]
  /\ UNCHANGED <<workload, clock, intakeVars, reviewVars>>

\* UNIQUE (claim, revision) refuses what another transaction has inserted.
CommitOutcome(i) ==
  LET r == calls[i].req
  IN  /\ Counted(i, "outcome")
      /\ IF calls[i].number \in Revisions(r.claim)
         THEN RollBack(i, "storage")
         ELSE /\ outcomes' = outcomes \cup
                   {[id |-> i, claim |-> r.claim, revision |-> calls[i].number]}
              /\ Finish(i, 201, "none")
              /\ UNCHANGED <<workload, clock, intakeVars, fingerprints, snapshots>>

-----------------------------------------------------------------------------
(* Specification *)

Receive ==
  \E r \in workload.requests :
    IssueChallenge(r) \/ CreateSession(r) \/ Prepare(r) \/ Screen(r) \/ RecordOutcome(r)

Tick ==
  /\ \E t \in workload.times : t > clock /\ clock' = t
  /\ UNCHANGED <<workload, calls, intakeVars, reviewVars>>

Serve(i) ==
  \/ Lock(i)
  \/ CountChallenges(i) \/ InsertChallenge(i)
  \/ VerifyChallenge(i) \/ ConsumeChallenge(i)
  \/ ReturnExisting(i) \/ RefuseConflict(i) \/ CheckLimits(i) \/ InsertSubmission(i)
  \/ FindDuplicates(i) \/ CommitFingerprint(i) \/ RefuseFeatures(i)
  \/ CountHistory(i) \/ CommitSnapshot(i)
  \/ ReadRevision(i) \/ CommitOutcome(i)

Next ==
  \/ Receive
  \/ \E i \in DOMAIN calls : Serve(i) \/ Crash(i)
  \/ \E s \in submissions : RelayMoves(s)
  \/ Tick

Spec == Init /\ [][Next]_vars

\* Processes that run go on, and PostgreSQL grants a lock that is free.
FairSpec == Spec /\ WF_vars(\E i \in DOMAIN calls : Serve(i))

-----------------------------------------------------------------------------
(* Properties *)

\* In no minute are more challenges issued to one client or one wallet than
\* the limits allow, whatever replicas issue them and however long a request
\* waited for its locks with an old clock (claimant_auth_repository.py, issue).
ChallengeLimits ==
  \A c \in challenges :
    LET minute == {d \in challenges : c.at - Minute <= d.at /\ d.at <= c.at}
    IN  /\ Cardinality({d \in minute : d.client = c.client}) <= ChallengeClientLimit
        /\ Cardinality({d \in minute : d.wallet = c.wallet}) <= ChallengeWalletLimit

\* A signed challenge opens one session, however often and at whatever
\* replicas it is presented at once (claimant_auth_repository.py, consume).
SessionOnce ==
  \A s, t \in sessions : s.challenge = t.challenge => s = t

\* No wallet is sponsored more often than the per-minute limit allows in any
\* minute, nor more often than its policies' quota on any UTC day, although
\* requests wait for locks with an old clock and midnight may pass meanwhile
\* (gasless_submission_repository.py, begin_preparation).
ClaimantLimits ==
  \A s \in submissions :
    LET mine == {t \in submissions : t.wallet = s.wallet}
        day == {t \in mine : t.at \div Day = s.at \div Day}
    IN  /\ Cardinality({t \in mine : s.at - Minute <= t.at /\ t.at <= s.at}) <= ClaimantLimit
        /\ \E t \in day : Cardinality(day) <= t.quota

\* Of two claims of different insurers about one incident, at least one was
\* screened with the other among its matches, however the two ran
\* (duplicate_repository.py, record_and_find_duplicates).
DuplicatesSeen ==
  \A s, t \in snapshots :
    s.event.incident = t.event.incident /\ s.event.insurer # t.event.insurer
      => t.event \in s.matches \/ s.event \in t.matches

\* The history counts stored for one insurer's claims describe one order:
\* replays and concurrent workers give no count twice, skip none and change
\* none (feature_repository.py, record_feature_snapshot).
HistoryIsAnOrder ==
  \A s \in snapshots :
    LET mine == {t \in snapshots : t.event.insurer = s.event.insurer}
    IN  {t.prior : t \in mine} = 0..(Cardinality(mine) - 1)

\* The revisions of a claim are numbered from 1 without a gap, and an outcome
\* for a screened claim is never refused because another was recorded at the
\* same moment (assessor_outcome_repository.py, record).
OutcomesKept ==
  /\ \A o \in outcomes :
       Revisions(o.claim) = 1..Cardinality({q \in outcomes : q.claim = o.claim})
  /\ \A i \in DOMAIN calls : calls[i].req.kind = "outcome" => calls[i].error # "storage"

\* No preparation fails at the unique indexes over a wallet's keys and its
\* open rows: what was looked for under the locks is still absent when the
\* row is inserted (gasless_submission_repository.py, begin_preparation).
PreparationsFit ==
  \A i \in DOMAIN calls : calls[i].req.kind = "prepare" => calls[i].error # "storage"

\* Every request is answered: the locks are taken in an order that lets
\* nobody wait for ever, and whatever ends a transaction releases them.
RequestsAnswered == []<>(\A i \in DOMAIN calls : calls[i].pc = "done")

=============================================================================
