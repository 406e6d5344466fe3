---------------------- MODULE StoreTransactions_proofs ----------------------
(***************************************************************************)
(* What the advisory locks are worth for any requests, clocks and limits:  *)
(* while a transaction holds its locks, the rows it has counted are the    *)
(* rows that count.                                                        *)
(***************************************************************************)
EXTENDS StoreTransactions, TLAPS, FiniteSetTheorems, SequenceTheorems

\* Every step of the system, under its own name.
LEMMA NextCases ==
  ASSUME Next, NEW P,
         \A r \in workload.requests :
           IssueChallenge(r) \/ CreateSession(r) \/ Prepare(r) \/ Screen(r)
             \/ RecordOutcome(r) => P,
         \A i \in DOMAIN calls : Lock(i) => P,
         \A i \in DOMAIN calls : Crash(i) => P,
         \A i \in DOMAIN calls : RefuseFeatures(i) => P,
         \A i \in DOMAIN calls : CountChallenges(i) => P,
         \A i \in DOMAIN calls : InsertChallenge(i) => P,
         \A i \in DOMAIN calls : VerifyChallenge(i) => P,
         \A i \in DOMAIN calls : ConsumeChallenge(i) => P,
         \A i \in DOMAIN calls : ReturnExisting(i) => P,
         \A i \in DOMAIN calls : RefuseConflict(i) => P,
         \A i \in DOMAIN calls : CheckLimits(i) => P,
         \A i \in DOMAIN calls : InsertSubmission(i) => P,
         \A i \in DOMAIN calls : FindDuplicates(i) => P,
         \A i \in DOMAIN calls : CommitFingerprint(i) => P,
         \A i \in DOMAIN calls : CountHistory(i) => P,
         \A i \in DOMAIN calls : CommitSnapshot(i) => P,
         \A i \in DOMAIN calls : ReadRevision(i) => P,
         \A i \in DOMAIN calls : CommitOutcome(i) => P,
         \A s \in submissions : RelayMoves(s) => P,
         Tick => P
  PROVE  P
BY DEF Next, Receive, Serve

-----------------------------------------------------------------------------
(* Requests and their locks *)

Kinds == {"challenge", "session", "prepare", "screen", "features", "outcome"}

LEMMA RequestTyped ==
  ASSUME workload \in Workloads, NEW r \in Requests
  PROVE  /\ r.kind \in Kinds
         /\ r.kind \in {"challenge", "prepare"} => r.wallet \in STRING /\ r.client \in STRING
         /\ r.kind = "session" => r.signedBy \in STRING
         /\ r.kind = "prepare" =>
              r.key \in STRING /\ r.claim \in STRING /\ r.policy.quota \in Nat
         /\ r.kind = "outcome" => r.claim \in STRING
         /\ r.kind \in {"screen", "features"} => r.event \in Events
<1>1. CASE r \in workload.requests
  BY <1>1, RequestsAssumption DEF Kinds, Events, Screenings
<1>2. CASE r \notin workload.requests
  <2>1. PICK q \in Screenings : r = [q EXCEPT !.kind = "features"]
    BY <1>2 DEF Requests
  <2>2. q \in workload.requests /\ q.kind = "screen" /\ q.event \in Events
    BY DEF Screenings, Events
  <2>3. q = [kind |-> "screen", event |-> q.event]
    BY <2>2, RequestsAssumption
  <2>4. r.kind = "features" /\ r.event = q.event
    BY <2>1, <2>3
  <2> QED
    BY <2>2, <2>4 DEF Kinds
<1> QED
  BY <1>1, <1>2

LEMMA FeaturesTyped ==
  ASSUME workload \in Workloads, NEW r \in Requests, r.kind = "screen"
  PROVE  LET q == [r EXCEPT !.kind = "features"]
         IN  q \in Requests /\ q.kind = "features" /\ q.event = r.event
<1>1. r \in workload.requests
  <2>1. SUFFICES ASSUME NEW q \in Screenings, r = [q EXCEPT !.kind = "features"]
                 PROVE  FALSE
    BY DEF Requests
  <2>2. q = [kind |-> "screen", event |-> q.event]
    BY RequestsAssumption DEF Screenings
  <2> QED
    BY <2>1, <2>2
<1>2. r \in Screenings
  BY <1>1 DEF Screenings
<1>3. r = [kind |-> "screen", event |-> r.event]
  BY <1>1, RequestsAssumption
<1>4. [r EXCEPT !.kind = "features"] \in Requests
  BY <1>2 DEF Requests
<1> QED
  BY <1>3, <1>4

LEMMA LocksKnown ==
  ASSUME NEW r
  PROVE  /\ r.kind = "challenge" => LocksOf(r) = <<<<"client", r.client>>, <<"wallet", r.wallet>>>>
         /\ r.kind = "prepare" =>
              LocksOf(r) = <<<<"credential", r.wallet>>, <<"signer", r.wallet>>>>
         /\ r.kind = "screen" => LocksOf(r) = <<<<"fingerprint", r.event.incident>>>>
         /\ r.kind = "features" => LocksOf(r) = <<<<"history", r.event.insurer>>>>
         /\ r.kind = "outcome" => LocksOf(r) = <<<<"outcome", r.claim>>>>
         /\ r.kind = "session" => LocksOf(r) = <<>>
         /\ r.kind \in Kinds => Len(LocksOf(r)) \in 0..2
<1>1. r.kind = "challenge" => LocksOf(r) = <<<<"client", r.client>>, <<"wallet", r.wallet>>>>
  BY DEF LocksOf, ChallengeLocks
<1>2. r.kind = "prepare" => LocksOf(r) = <<<<"credential", r.wallet>>, <<"signer", r.wallet>>>>
  BY DEF LocksOf, PreparationLocks
<1>3. r.kind = "screen" => LocksOf(r) = <<<<"fingerprint", r.event.incident>>>>
  BY DEF LocksOf, FingerprintLocks
<1>4. r.kind = "features" => LocksOf(r) = <<<<"history", r.event.insurer>>>>
  BY DEF LocksOf, HistoryLocks
<1>5. r.kind = "outcome" => LocksOf(r) = <<<<"outcome", r.claim>>>>
  BY DEF LocksOf, OutcomeLocks
<1>6. r.kind = "session" => LocksOf(r) = <<>>
  BY DEF LocksOf
<1> QED
  BY <1>1, <1>2, <1>3, <1>4, <1>5, <1>6 DEF Kinds

-----------------------------------------------------------------------------
(* Calls and who holds what *)

CallState ==
  [pc : {"get", "consume", "lock", "read", "done"},
   req : Requests, now : Nat, taken : 0..2, matches : SUBSET Events, number : Nat,
   status : {0, 200, 201, 401, 403, 404, 409, 429, 502, 503},
   error : Errors \cup {"none"}]

HeldBy(c) == {LocksOf(c.req)[k] : k \in 1..c.taken}

\* A transaction that reads holds all of its locks, one that has ended none.
CallSound(c) ==
  /\ c.taken <= Len(LocksOf(c.req))
  /\ c.pc = "read" => c.taken = Len(LocksOf(c.req))
  /\ c.pc \in {"get", "consume", "done"} => c.taken = 0
  /\ c.pc # "done" => c.error = "none"

\* No lock has two holders.
CallsInv ==
  /\ workload \in Workloads
  /\ clock \in {0} \cup workload.times
  /\ calls \in Seq(CallState)
  /\ Len(calls) <= workload.calls
  /\ \A i \in DOMAIN calls : CallSound(calls[i])
  /\ \A i, j \in DOMAIN calls : i # j => HeldBy(calls[i]) \cap HeldBy(calls[j]) = {}

LEMMA ClockTyped ==
  ASSUME CallsInv
  PROVE  clock \in Nat /\ workload.calls \in Nat
BY ClockAssumption DEF CallsInv

LEMMA CallTyped ==
  ASSUME CallsInv, NEW i \in DOMAIN calls
  PROVE  /\ i \in 1..Len(calls) /\ i \in Numbers
         /\ calls[i] \in CallState /\ CallSound(calls[i])
         /\ calls[i].req \in Requests /\ calls[i].req.kind \in Kinds
<1>1. /\ i \in 1..Len(calls) /\ calls[i] \in CallState
      /\ Len(calls) \in Nat /\ Len(calls) <= workload.calls
  BY DEF CallsInv
<1>2. calls[i].req \in Requests
  BY <1>1 DEF CallState
<1>3. calls[i].req.kind \in Kinds
  BY <1>2, RequestTyped DEF CallsInv
<1> QED
  BY <1>1, <1>2, <1>3, ClockTyped DEF CallsInv, Numbers

\* The types depend on the workload, which stays.
LEMMA WorkloadKept ==
  ASSUME UNCHANGED workload
  PROVE  /\ Numbers' = Numbers /\ Events' = Events /\ Requests' = Requests
         /\ CallState' = CallState
BY DEF Numbers, Events, Requests, Screenings, CallState

LEMMA StatusKnown ==
  ASSUME NEW e
  PROVE  /\ e = "challenge_limit" => Status(e) = 429
         /\ e = "limit" => Status(e) = 429
         /\ e = "challenge_used" => Status(e) = 401
         /\ e = "unauthenticated" => Status(e) = 401
         /\ e = "ineligible" => Status(e) = 403
         /\ e = "not_found" => Status(e) = 404
         /\ e = "conflict" => Status(e) = 409
         /\ e = "not_screened" => Status(e) = 409
         /\ e = "storage" => Status(e) = 503
         /\ e = "incident_later" => Status(e) = 503
<1>1. e = "challenge_limit" => Status(e) = 429
  BY DEF Status
<1>2. e = "limit" => Status(e) = 429
  BY DEF Status
<1>3. e = "challenge_used" => Status(e) = 401
  BY DEF Status
<1>4. e = "unauthenticated" => Status(e) = 401
  BY DEF Status
<1>5. e = "ineligible" => Status(e) = 403
  BY DEF Status
<1>6. e = "not_found" => Status(e) = 404
  BY DEF Status
<1>7. e = "conflict" => Status(e) = 409
  BY DEF Status
<1>8. e = "not_screened" => Status(e) = 409
  BY DEF Status
<1>9. e = "storage" => Status(e) = 503
  BY DEF Status
<1>10. e = "incident_later" => Status(e) = 503
  BY DEF Status
<1> QED
  BY <1>1, <1>2, <1>3, <1>4, <1>5, <1>6, <1>7, <1>8, <1>9, <1>10

LEMMA StatusTyped ==
  ASSUME NEW e \in Errors
  PROVE  /\ Status(e) \in {401, 403, 404, 409, 429, 503}
         /\ Status(Raised(e)) \in {409, 429, 503}
<1>1. Status(e) \in {401, 403, 404, 409, 429, 503}
  BY StatusKnown DEF Errors
<1>2. Raised(e) = "limit" \/ Raised(e) = "conflict" \/ Raised(e) = "storage"
  BY DEF Raised
<1>3. Status(Raised(e)) \in {409, 429, 503}
  <2> DEFINE f == Raised(e)
  <2> HIDE DEF f
  <2>1. f = "limit" \/ f = "conflict" \/ f = "storage"
    BY <1>2 DEF f
  <2>2. Status(f) \in {409, 429, 503}
    BY <2>1, StatusKnown
  <2> QED
    BY <2>2 DEF f
<1> QED
  BY <1>1, <1>3

LEMMA NewTyped ==
  ASSUME CallsInv, NEW r \in Requests, NEW pc \in {"get", "lock"}
  PROVE  /\ Call(r, pc) \in CallState /\ CallSound(Call(r, pc))
         /\ Call(r, pc).pc = pc /\ Call(r, pc).req = r
         /\ Call(r, pc).error = "none"
         /\ HeldBy(Call(r, pc)) = {}
         /\ Call(r, pc).now = clock
<1> DEFINE c == Call(r, pc)
<1>1. Len(LocksOf(r)) \in Nat
  BY RequestTyped, LocksKnown DEF CallsInv
<1>2. /\ c \in CallState /\ c.pc = pc /\ c.req = r /\ c.taken = 0 /\ c.error = "none"
      /\ c.now = clock
  BY ClockTyped DEF Call, CallState
<1>3. HeldBy(c) = {}
  BY <1>2 DEF HeldBy
<1> QED
  BY <1>1, <1>2, <1>3 DEF CallSound

LEMMA DoneTyped ==
  ASSUME CallsInv, NEW r \in Requests,
         NEW status \in {0, 200, 201, 401, 403, 404, 409, 429, 502, 503},
         NEW error \in Errors \cup {"none"}
  PROVE  LET d == Done(r, status, error)
         IN  /\ d \in CallState /\ CallSound(d)
             /\ d.pc = "done" /\ d.req = r /\ d.error = error
             /\ HeldBy(d) = {}
<1> DEFINE d == Done(r, status, error)
<1>1. Len(LocksOf(r)) \in Nat
  BY RequestTyped, LocksKnown DEF CallsInv
<1>2. d \in CallState /\ d.pc = "done" /\ d.req = r /\ d.taken = 0 /\ d.error = error
  BY DEF Done, CallState
<1>3. HeldBy(d) = {}
  BY <1>2 DEF HeldBy
<1> QED
  BY <1>1, <1>2, <1>3 DEF CallSound

\* One call moves, and takes no lock that another one has.
LEMMA CallMoves ==
  ASSUME CallsInv, NEW i \in DOMAIN calls, NEW d \in CallState,
         calls' = [calls EXCEPT ![i] = d], UNCHANGED <<workload, clock>>, CallSound(d),
         \A j \in DOMAIN calls \ {i} : HeldBy(d) \cap HeldBy(calls[j]) = {}
  PROVE  /\ CallsInv'
         /\ DOMAIN calls' = DOMAIN calls /\ calls'[i] = d
         /\ \A j \in DOMAIN calls \ {i} : calls'[j] = calls[j]
<1>1. calls \in Seq(CallState)
  BY DEF CallsInv
<1>2. calls' \in Seq(CallState) /\ Len(calls') = Len(calls) /\ DOMAIN calls' = DOMAIN calls
  BY <1>1
<1>3. calls'[i] = d /\ \A j \in DOMAIN calls \ {i} : calls'[j] = calls[j]
  BY <1>1
<1>4. \A j \in DOMAIN calls' : CallSound(calls'[j])
  BY <1>2, <1>3 DEF CallsInv
<1>5. \A j, k \in DOMAIN calls' : j # k => HeldBy(calls'[j]) \cap HeldBy(calls'[k]) = {}
  <2> SUFFICES ASSUME NEW j \in DOMAIN calls, NEW k \in DOMAIN calls, j # k
               PROVE  HeldBy(calls'[j]) \cap HeldBy(calls'[k]) = {}
    BY <1>2
  <2>1. CASE j = i
    <3>1. calls'[j] = d /\ calls'[k] = calls[k] /\ k \in DOMAIN calls \ {i}
      BY <2>1, <1>3
    <3>2. HeldBy(d) \cap HeldBy(calls[k]) = {}
      BY <3>1
    <3> QED
      BY <3>1, <3>2
  <2>2. CASE k = i
    <3>1. calls'[k] = d /\ calls'[j] = calls[j] /\ j \in DOMAIN calls \ {i}
      BY <2>2, <1>3
    <3>2. HeldBy(d) \cap HeldBy(calls[j]) = {}
      BY <3>1
    <3> QED
      BY <3>1, <3>2
  <2>3. CASE j # i /\ k # i
    <3>1. calls'[j] = calls[j] /\ calls'[k] = calls[k]
      BY <2>3, <1>3
    <3>2. HeldBy(calls[j]) \cap HeldBy(calls[k]) = {}
      BY DEF CallsInv
    <3> QED
      BY <3>1, <3>2
  <2> QED
    BY <2>1, <2>2, <2>3
<1>6. CallState' = CallState
  BY WorkloadKept
<1>7. /\ workload' \in Workloads /\ clock' \in {0} \cup workload'.times
      /\ calls' \in Seq(CallState') /\ Len(calls') <= workload'.calls
  BY <1>2, <1>6 DEF CallsInv
<1> QED
  BY <1>2, <1>3, <1>4, <1>5, <1>7 DEF CallsInv

-----------------------------------------------------------------------------
(* What the other calls notice of a step *)

\* No call begins to hold counts of kind k, and those that do keep them.
Still(k) ==
  \A j \in DOMAIN calls' :
    calls'[j].pc = "read" /\ calls'[j].req.kind = k
      => j \in DOMAIN calls /\ calls'[j] = calls[j]

EndedStay ==
  \A j \in DOMAIN calls :
    j \in DOMAIN calls' /\ (calls[j].pc = "done" => calls'[j].pc = "done")

OneMoved(i) ==
  /\ DOMAIN calls' = DOMAIN calls
  /\ \A j \in DOMAIN calls \ {i} : calls'[j] = calls[j]

LEMMA MovedStill ==
  ASSUME NEW i \in DOMAIN calls, OneMoved(i), calls[i].pc # "done"
  PROVE  /\ EndedStay
         /\ \A k : calls'[i].pc # "read" \/ calls'[i].req.kind # k => Still(k)
<1>1. \A j \in DOMAIN calls : j \in DOMAIN calls' /\ (j # i => calls'[j] = calls[j])
  BY DEF OneMoved
<1>2. EndedStay
  BY <1>1 DEF EndedStay
<1>3. ASSUME NEW k, calls'[i].pc # "read" \/ calls'[i].req.kind # k
      PROVE  Still(k)
  BY <1>1, <1>3 DEF Still, OneMoved
<1> QED
  BY <1>2, <1>3

\* A transaction ends: its locks are free again.
LEMMA Ends ==
  ASSUME CallsInv, NEW i \in DOMAIN calls, calls[i].pc # "done",
         NEW status \in {0, 200, 201, 401, 403, 404, 409, 429, 502, 503},
         NEW error \in Errors \cup {"none"},
         Finish(i, status, error), UNCHANGED <<workload, clock>>
  PROVE  /\ CallsInv'
         /\ OneMoved(i) /\ EndedStay
         /\ \A k : Still(k)
         /\ calls'[i].pc = "done" /\ calls'[i].req = calls[i].req
         /\ calls'[i].error = error
<1> DEFINE d == Done(calls[i].req, status, error)
<1>1. calls[i].req \in Requests
  BY CallTyped
<1>2. /\ d \in CallState /\ CallSound(d) /\ HeldBy(d) = {}
      /\ d.pc = "done" /\ d.req = calls[i].req /\ d.error = error
  BY <1>1, DoneTyped
<1>3. calls' = [calls EXCEPT ![i] = d]
  BY DEF Finish
<1> HIDE DEF d
<1>a. \A j \in DOMAIN calls \ {i} : HeldBy(d) \cap HeldBy(calls[j]) = {}
  BY <1>2
<1>4. /\ CallsInv' /\ DOMAIN calls' = DOMAIN calls /\ calls'[i] = d
      /\ \A j \in DOMAIN calls \ {i} : calls'[j] = calls[j]
  BY <1>2, <1>3, <1>a, CallMoves
<1>5. OneMoved(i)
  BY <1>4 DEF OneMoved
<1> QED
  BY <1>2, <1>4, <1>5, MovedStill

\* A transaction goes on, with the locks it has.
LEMMA GoesOn ==
  ASSUME CallsInv, NEW i \in DOMAIN calls, calls[i].pc # "done",
         NEW d \in CallState, calls' = [calls EXCEPT ![i] = d],
         d.req = calls[i].req, d.taken = calls[i].taken, d.error = calls[i].error,
         d.pc = "read" => d.taken = Len(LocksOf(d.req)),
         d.pc \in {"get", "consume", "done"} => d.taken = 0,
         UNCHANGED <<workload, clock>>
  PROVE  /\ CallsInv'
         /\ OneMoved(i) /\ EndedStay
         /\ calls'[i] = d
         /\ \A k : d.pc # "read" \/ d.req.kind # k => Still(k)
<1>1. HeldBy(d) = HeldBy(calls[i])
  BY DEF HeldBy
<1>2. \A j \in DOMAIN calls \ {i} : HeldBy(d) \cap HeldBy(calls[j]) = {}
  BY <1>1 DEF CallsInv
<1>3. CallSound(d)
  BY CallTyped DEF CallSound
<1>4. /\ CallsInv' /\ DOMAIN calls' = DOMAIN calls /\ calls'[i] = d
      /\ \A j \in DOMAIN calls \ {i} : calls'[j] = calls[j]
  BY <1>2, <1>3, CallMoves
<1>5. OneMoved(i)
  BY <1>4 DEF OneMoved
<1> QED
  BY <1>4, <1>5, MovedStill

\* A request arrives. It may have been answered at once.
LEMMA Arrival ==
  ASSUME CallsInv, NEW r \in workload.requests,
         IssueChallenge(r) \/ CreateSession(r) \/ Prepare(r) \/ Screen(r) \/ RecordOutcome(r)
  PROVE  /\ CallsInv'
         /\ UNCHANGED <<workload, clock, intakeVars, reviewVars>>
         /\ EndedStay /\ \A k : Still(k)
         /\ \A j \in DOMAIN calls' :
              \/ j \in DOMAIN calls /\ calls'[j] = calls[j]
              \/ /\ calls'[j].pc # "read" /\ calls'[j].req.kind # "features"
                 /\ calls'[j].error # "storage"
<1>1. r \in Requests /\ r.kind # "features"
  BY RequestsAssumption DEF Requests, CallsInv
<1>2. \A pc \in {"get", "lock"} :
        /\ Call(r, pc) \in CallState /\ CallSound(Call(r, pc)) /\ HeldBy(Call(r, pc)) = {}
        /\ Call(r, pc).pc = pc /\ Call(r, pc).req = r /\ Call(r, pc).error = "none"
  BY <1>1, NewTyped
<1>3. \A e \in {"unauthenticated", "ineligible", "not_found", "not_screened"} :
        LET d == Done(r, Status(e), e)
        IN  /\ d \in CallState /\ CallSound(d) /\ HeldBy(d) = {}
            /\ d.pc = "done" /\ d.req = r /\ d.error = e
  <2> SUFFICES ASSUME NEW e \in {"unauthenticated", "ineligible", "not_found", "not_screened"}
               PROVE  LET d == Done(r, Status(e), e)
                      IN  /\ d \in CallState /\ CallSound(d) /\ HeldBy(d) = {}
                          /\ d.pc = "done" /\ d.req = r /\ d.error = e
    OBVIOUS
  <2>1. e \in Errors
    BY DEF Errors
  <2>2. Status(e) \in {401, 403, 404, 409, 429, 503}
    BY <2>1, StatusTyped
  <2> QED
    BY <1>1, <2>1, <2>2, DoneTyped
<1>4. LET c == [Call(r, "get") EXCEPT !.now = 0]
      IN  /\ c \in CallState /\ CallSound(c) /\ HeldBy(c) = {}
          /\ c.pc = "get" /\ c.req = r /\ c.error = "none"
  BY <1>1, <1>2 DEF CallState, CallSound, HeldBy
<1>5. PICK c \in CallState :
        /\ CallSound(c) /\ HeldBy(c) = {} /\ c.req = r /\ c.pc # "read"
        /\ c.error # "storage" /\ Arrive(c)
  <2>1. CASE IssueChallenge(r)
    BY <1>2, <2>1 DEF IssueChallenge
  <2>2. CASE CreateSession(r)
    BY <1>4, <2>2 DEF CreateSession
  <2>3. CASE Prepare(r)
    <3>1. CASE ~Authenticated(r.wallet)
      BY <1>3, <2>3, <3>1 DEF Prepare
    <3>2. CASE Authenticated(r.wallet) /\ ~Eligible(r)
      BY <1>3, <2>3, <3>2 DEF Prepare
    <3>3. CASE Authenticated(r.wallet) /\ Eligible(r)
      BY <1>2, <2>3, <3>3 DEF Prepare
    <3> QED
      BY <3>1, <3>2, <3>3
  <2>4. CASE Screen(r)
    BY <1>2, <2>4 DEF Screen
  <2>5. CASE RecordOutcome(r)
    <3>1. CASE r.claim \notin Indexed
      BY <1>3, <2>5, <3>1 DEF RecordOutcome
    <3>2. CASE r.claim \in Indexed /\ r.claim \notin Screened
      BY <1>3, <2>5, <3>2 DEF RecordOutcome
    <3>3. CASE r.claim \in Indexed /\ r.claim \in Screened
      BY <1>2, <2>5, <3>3 DEF RecordOutcome
    <3> QED
      BY <3>1, <3>2, <3>3
  <2> QED
    BY <2>1, <2>2, <2>3, <2>4, <2>5
<1>6. /\ Len(calls) < workload.calls /\ calls' = Append(calls, c)
      /\ UNCHANGED <<workload, clock, intakeVars, reviewVars>>
  BY <1>5 DEF Arrive
<1>7. calls \in Seq(CallState)
  BY DEF CallsInv
<1>8. /\ calls' \in Seq(CallState) /\ Len(calls') = Len(calls) + 1
      /\ DOMAIN calls' = DOMAIN calls \cup {Len(calls) + 1}
      /\ Len(calls) + 1 \notin DOMAIN calls
      /\ calls'[Len(calls) + 1] = c
      /\ \A j \in DOMAIN calls : calls'[j] = calls[j]
  BY <1>6, <1>7
<1>9. \A j \in DOMAIN calls' :
        (j \in DOMAIN calls /\ calls'[j] = calls[j]) \/ (j \notin DOMAIN calls /\ calls'[j] = c)
  BY <1>8
<1>10. CallsInv'
  <2>1. CallState' = CallState
    BY <1>6, WorkloadKept
  <2>2. Len(calls') <= workload'.calls
    BY <1>6, <1>7, <1>8, ClockTyped
  <2>3. \A j \in DOMAIN calls' : CallSound(calls'[j])
    BY <1>5, <1>9 DEF CallsInv
  <2>4. \A j, k \in DOMAIN calls' : j # k => HeldBy(calls'[j]) \cap HeldBy(calls'[k]) = {}
    <3> SUFFICES ASSUME NEW j \in DOMAIN calls', NEW k \in DOMAIN calls', j # k
                 PROVE  HeldBy(calls'[j]) \cap HeldBy(calls'[k]) = {}
      OBVIOUS
    <3>1. CASE j \in DOMAIN calls /\ k \in DOMAIN calls
      <4>1. calls'[j] = calls[j] /\ calls'[k] = calls[k]
        BY <1>8, <3>1
      <4>2. HeldBy(calls[j]) \cap HeldBy(calls[k]) = {}
        BY <3>1 DEF CallsInv
      <4> QED
        BY <4>1, <4>2
    <3>2. CASE j \notin DOMAIN calls
      <4>1. calls'[j] = c
        BY <1>9, <3>2
      <4> QED
        BY <1>5, <4>1
    <3>3. CASE k \notin DOMAIN calls
      <4>1. calls'[k] = c
        BY <1>9, <3>3
      <4> QED
        BY <1>5, <4>1
    <3> QED
      BY <3>1, <3>2, <3>3
  <2>5. workload' \in Workloads /\ clock' \in {0} \cup workload'.times
    BY <1>6 DEF CallsInv
  <2> QED
    BY <1>8, <2>1, <2>2, <2>3, <2>4, <2>5 DEF CallsInv
<1>11. EndedStay
  BY <1>8 DEF EndedStay
<1>12. \A k : Still(k)
  BY <1>5, <1>9 DEF Still
<1> QED
  BY <1>1, <1>5, <1>6, <1>9, <1>10, <1>11, <1>12

\* A transaction gets its next lock, which nobody holds.
LEMMA LockMoves ==
  ASSUME CallsInv, NEW i \in DOMAIN calls, Lock(i)
  PROVE  /\ CallsInv'
         /\ UNCHANGED <<workload, clock, intakeVars, reviewVars>>
         /\ OneMoved(i) /\ EndedStay /\ \A k : Still(k)
         /\ calls'[i].req = calls[i].req /\ calls'[i].matches = calls[i].matches
         /\ calls[i].pc = "lock" /\ calls'[i].pc = "lock"
         /\ calls'[i].error = calls[i].error
<1> DEFINE c == calls[i]
           n == c.taken + 1
           d == [c EXCEPT !.taken = n]
           wanted == LocksOf(c.req)
<1>1. c \in CallState /\ CallSound(c) /\ c.req.kind \in Kinds
  BY CallTyped
<1>2. /\ c.pc = "lock" /\ c.taken < Len(wanted)
      /\ \A j \in DOMAIN calls \ {i} : wanted[n] \notin Holds(j)
      /\ calls' = [calls EXCEPT ![i] = d]
      /\ UNCHANGED <<workload, clock, intakeVars, reviewVars>>
  BY DEF Lock
<1>3. Len(wanted) \in 0..2 /\ c.taken \in 0..2
  BY <1>1, LocksKnown DEF CallState
<1>a. n \in 0..2 /\ n <= Len(wanted)
  BY <1>2, <1>3
<1>4. /\ d \in CallState /\ d.req = c.req /\ d.taken = n /\ d.pc = "lock"
      /\ d.error = c.error /\ d.matches = c.matches
  <2> HIDE DEF n
  <2> QED
    BY <1>1, <1>2, <1>a DEF CallState
<1>5. CallSound(d)
  BY <1>1, <1>2, <1>a, <1>4 DEF CallSound
<1>6. HeldBy(d) = HeldBy(c) \cup {wanted[n]}
  <2>1. 1..d.taken = (1..c.taken) \cup {n}
    BY <1>3, <1>4
  <2> QED
    BY <1>4, <2>1 DEF HeldBy
<1>7. \A j \in DOMAIN calls \ {i} : HeldBy(d) \cap HeldBy(calls[j]) = {}
  <2> SUFFICES ASSUME NEW j \in DOMAIN calls \ {i}
               PROVE  HeldBy(d) \cap HeldBy(calls[j]) = {}
    OBVIOUS
  <2>1. HeldBy(c) \cap HeldBy(calls[j]) = {}
    BY DEF CallsInv
  <2>2. Holds(j) = HeldBy(calls[j])
    BY DEF Holds, HeldBy
  <2> QED
    BY <1>2, <1>6, <2>1, <2>2
<1> HIDE DEF d
<1>8. /\ CallsInv' /\ DOMAIN calls' = DOMAIN calls /\ calls'[i] = d
      /\ \A j \in DOMAIN calls \ {i} : calls'[j] = calls[j]
  BY <1>2, <1>4, <1>5, <1>7, CallMoves
<1>9. OneMoved(i)
  BY <1>8 DEF OneMoved
<1> QED
  BY <1>2, <1>4, <1>8, <1>9, MovedStill

LEMMA CrashMoves ==
  ASSUME CallsInv, NEW i \in DOMAIN calls, Crash(i)
  PROVE  /\ CallsInv'
         /\ UNCHANGED <<workload, clock, intakeVars, reviewVars>>
         /\ OneMoved(i) /\ EndedStay /\ \A k : Still(k)
         /\ calls'[i].pc = "done" /\ calls'[i].req = calls[i].req
         /\ calls'[i].error = "none"
BY Ends DEF Crash

LEMMA RefuseMoves ==
  ASSUME CallsInv, NEW i \in DOMAIN calls, calls[i].pc # "done",
         NEW e \in Errors, Refuse(i, e) \/ RollBack(i, e)
  PROVE  /\ CallsInv'
         /\ UNCHANGED <<workload, clock, intakeVars, reviewVars>>
         /\ OneMoved(i) /\ EndedStay /\ \A k : Still(k)
         /\ calls'[i].pc = "done" /\ calls'[i].req = calls[i].req
         /\ calls'[i].error = e
<1>1. Status(e) \in {401, 403, 404, 409, 429, 503}
      /\ Status(Raised(e)) \in {409, 429, 503}
  BY StatusTyped
<1>2. PICK status \in {401, 403, 404, 409, 429, 503} : Finish(i, status, e)
  BY <1>1 DEF Refuse, RollBack
<1>3. UNCHANGED <<workload, clock, intakeVars, reviewVars>>
  BY DEF Refuse, RollBack
<1> QED
  BY <1>2, <1>3, Ends

LEMMA ProceedMoves ==
  ASSUME CallsInv, NEW i \in DOMAIN calls, NEW k, Counting(i, k), Proceed(i)
  PROVE  /\ CallsInv'
         /\ UNCHANGED <<workload, clock, intakeVars, reviewVars>>
         /\ OneMoved(i) /\ EndedStay
         /\ \A l : l # k => Still(l)
         /\ calls'[i] = [calls[i] EXCEPT !.pc = "read"]
         /\ calls[i].req.kind = k /\ calls[i].error = "none"
<1> DEFINE d == [calls[i] EXCEPT !.pc = "read"]
<1>1. calls[i] \in CallState /\ CallSound(calls[i])
  BY CallTyped
<1>2. /\ calls[i].pc = "lock" /\ calls[i].req.kind = k
      /\ calls[i].taken = Len(LocksOf(calls[i].req))
  BY DEF Counting
<1>3. calls' = [calls EXCEPT ![i] = d] /\ UNCHANGED <<workload, clock, intakeVars, reviewVars>>
  BY DEF Proceed
<1>4. /\ d \in CallState /\ d.pc = "read" /\ d.req = calls[i].req
      /\ d.taken = calls[i].taken /\ d.error = calls[i].error
  BY <1>1 DEF CallState
<1>5. calls[i].error = "none"
  BY <1>1, <1>2 DEF CallSound
<1> HIDE DEF d
<1>6. /\ CallsInv' /\ OneMoved(i) /\ EndedStay /\ calls'[i] = d
      /\ \A l : d.pc # "read" \/ d.req.kind # l => Still(l)
  BY <1>2, <1>3, <1>4, GoesOn
<1> QED
  BY <1>2, <1>3, <1>4, <1>5, <1>6 DEF d

\* A transaction keeps what it has read.
LEMMA ReadNumber ==
  ASSUME NEW s \in CallState, NEW m \in Nat
  PROVE  LET d == [s EXCEPT !.pc = "read", !.number = m]
         IN  /\ d \in CallState /\ d.pc = "read" /\ d.req = s.req /\ d.number = m
             /\ d.taken = s.taken /\ d.error = s.error /\ d.matches = s.matches
<1> DEFINE q == [s EXCEPT !.pc = "read"]
<1>1. /\ q \in CallState /\ q.pc = "read" /\ q.req = s.req
      /\ q.taken = s.taken /\ q.error = s.error /\ q.matches = s.matches
  BY DEF CallState
<1>2. [s EXCEPT !.pc = "read", !.number = m] = [q EXCEPT !.number = m]
  OBVIOUS
<1> HIDE DEF q
<1>3. LET d == [q EXCEPT !.number = m]
      IN  /\ d \in CallState /\ d.pc = q.pc /\ d.req = q.req /\ d.number = m
          /\ d.taken = q.taken /\ d.error = q.error /\ d.matches = q.matches
  BY <1>1 DEF CallState
<1> QED
  BY <1>1, <1>2, <1>3

LEMMA ReadMatches ==
  ASSUME NEW s \in CallState, NEW m \in SUBSET Events
  PROVE  LET d == [s EXCEPT !.pc = "read", !.matches = m]
         IN  /\ d \in CallState /\ d.pc = "read" /\ d.req = s.req /\ d.matches = m
             /\ d.taken = s.taken /\ d.error = s.error
<1> DEFINE q == [s EXCEPT !.pc = "read"]
<1>1. /\ q \in CallState /\ q.pc = "read" /\ q.req = s.req
      /\ q.taken = s.taken /\ q.error = s.error
  BY DEF CallState
<1>2. [s EXCEPT !.pc = "read", !.matches = m] = [q EXCEPT !.matches = m]
  OBVIOUS
<1> HIDE DEF q
<1>3. LET d == [q EXCEPT !.matches = m]
      IN  /\ d \in CallState /\ d.pc = q.pc /\ d.req = q.req /\ d.matches = m
          /\ d.taken = q.taken /\ d.error = q.error
  BY <1>1 DEF CallState
<1> QED
  BY <1>1, <1>2, <1>3

\* What a transaction holds that has all of its locks.
LEMMA ReaderHolds ==
  ASSUME CallsInv, NEW i \in DOMAIN calls,
         calls[i].pc = "read" \/ calls[i].taken = Len(LocksOf(calls[i].req))
  PROVE  /\ calls[i].req.kind = "challenge" =>
              /\ <<"client", calls[i].req.client>> \in HeldBy(calls[i])
              /\ <<"wallet", calls[i].req.wallet>> \in HeldBy(calls[i])
         /\ calls[i].req.kind = "prepare" =>
              <<"signer", calls[i].req.wallet>> \in HeldBy(calls[i])
         /\ calls[i].req.kind = "screen" =>
              <<"fingerprint", calls[i].req.event.incident>> \in HeldBy(calls[i])
         /\ calls[i].req.kind = "features" =>
              <<"history", calls[i].req.event.insurer>> \in HeldBy(calls[i])
         /\ calls[i].req.kind = "outcome" =>
              <<"outcome", calls[i].req.claim>> \in HeldBy(calls[i])
<1> DEFINE r == calls[i].req
           locks == LocksOf(r)
<1>1. calls[i].taken = Len(locks)
  BY CallTyped DEF CallSound
<1>2. HeldBy(calls[i]) = {locks[k] : k \in 1..Len(locks)}
  BY <1>1 DEF HeldBy
<1> HIDE DEF locks
<1>3. ASSUME NEW a, NEW b, locks = <<a, b>>
      PROVE  a \in HeldBy(calls[i]) /\ b \in HeldBy(calls[i])
  <2>1. Len(locks) = 2 /\ locks[1] = a /\ locks[2] = b
    BY <1>3
  <2> QED
    BY <1>2, <2>1
<1>4. ASSUME NEW a, locks = <<a>>
      PROVE  a \in HeldBy(calls[i])
  <2>1. Len(locks) = 1 /\ locks[1] = a
    BY <1>4
  <2> QED
    BY <1>2, <2>1
<1>5. /\ r.kind = "challenge" => locks = <<<<"client", r.client>>, <<"wallet", r.wallet>>>>
      /\ r.kind = "prepare" => locks = <<<<"credential", r.wallet>>, <<"signer", r.wallet>>>>
      /\ r.kind = "screen" => locks = <<<<"fingerprint", r.event.incident>>>>
      /\ r.kind = "features" => locks = <<<<"history", r.event.insurer>>>>
      /\ r.kind = "outcome" => locks = <<<<"outcome", r.claim>>>>
  BY LocksKnown DEF locks
<1>6. r.kind = "challenge" => /\ <<"client", r.client>> \in HeldBy(calls[i])
                              /\ <<"wallet", r.wallet>> \in HeldBy(calls[i])
  BY <1>3, <1>5
<1>7. r.kind = "prepare" => <<"signer", r.wallet>> \in HeldBy(calls[i])
  BY <1>3, <1>5
<1>8. r.kind = "screen" => <<"fingerprint", r.event.incident>> \in HeldBy(calls[i])
  BY <1>4, <1>5
<1>9. r.kind = "features" => <<"history", r.event.insurer>> \in HeldBy(calls[i])
  BY <1>4, <1>5
<1>10. r.kind = "outcome" => <<"outcome", r.claim>> \in HeldBy(calls[i])
  BY <1>4, <1>5
<1> QED
  BY <1>6, <1>7, <1>8, <1>9, <1>10

-----------------------------------------------------------------------------
(* Assessor outcomes *)

Outcome == [id : Numbers, claim : STRING, revision : Nat \ {0}]

OutcomesOf(T, c) == {o \in T : o.claim = c}

\* The revision in hand is the next one.
Numbered(c, T) ==
  c.pc = "read" /\ c.req.kind = "outcome"
    => c.number = Cardinality(OutcomesOf(T, c.req.claim)) + 1

OutcomesInv ==
  /\ outcomes \subseteq Outcome /\ IsFiniteSet(outcomes)
  /\ OutcomesKept
  /\ \A i \in DOMAIN calls : Numbered(calls[i], outcomes)

\* Nothing is refused by the database.
NoneRefused ==
  \A j \in DOMAIN calls' :
    \/ j \in DOMAIN calls /\ calls'[j] = calls[j]
    \/ calls'[j].error # "storage"

LEMMA OtherOutcomes ==
  ASSUME OutcomesInv, UNCHANGED <<workload, outcomes>>, Still("outcome"), NoneRefused
  PROVE  OutcomesInv'
<1>1. Outcome' = Outcome
  BY WorkloadKept DEF Outcome
<1>2. \A o \in outcomes :
        Revisions(o.claim) = 1..Cardinality({q \in outcomes : q.claim = o.claim})
  BY DEF OutcomesInv, OutcomesKept
<1>3. \A o \in outcomes' :
        {p.revision : p \in {q \in outcomes' : q.claim = o.claim}}
          = 1..Cardinality({q \in outcomes' : q.claim = o.claim})
  BY <1>2 DEF Revisions
<1>4. \A j \in DOMAIN calls' : calls'[j].req.kind = "outcome" => calls'[j].error # "storage"
  BY DEF NoneRefused, OutcomesInv, OutcomesKept
<1>5. OutcomesKept'
  BY <1>3, <1>4 DEF OutcomesKept, Revisions
<1>6. \A j \in DOMAIN calls' : Numbered(calls'[j], outcomes')
  BY DEF OutcomesInv, Still, Numbered
<1>7. outcomes' \subseteq Outcome' /\ IsFiniteSet(outcomes')
  BY <1>1 DEF OutcomesInv
<1> QED
  BY <1>5, <1>6, <1>7 DEF OutcomesInv

LEMMA RevisionsKnown ==
  ASSUME OutcomesInv, NEW c
  PROVE  LET n == Cardinality(OutcomesOf(outcomes, c))
         IN  n \in Nat /\ Revisions(c) = 1..n /\ NextRevision(c) = n + 1
<1> DEFINE T == OutcomesOf(outcomes, c)
           n == Cardinality(T)
<1>1. IsFiniteSet(T)
  BY FS_Subset DEF OutcomesInv, OutcomesOf
<1>2. n \in Nat
  BY <1>1, FS_CardinalityType
<1>3. Revisions(c) = 1..n
  <2>1. CASE T = {}
    <3>1. n = 0
      BY <2>1, FS_EmptySet
    <3>2. Revisions(c) = {}
      BY <2>1 DEF Revisions, OutcomesOf
    <3> QED
      BY <3>1, <3>2
  <2>2. CASE T # {}
    <3>1. PICK o \in outcomes : o.claim = c
      BY <2>2 DEF OutcomesOf
    <3>2. Revisions(o.claim) = 1..Cardinality({q \in outcomes : q.claim = o.claim})
      BY DEF OutcomesInv, OutcomesKept
    <3> QED
      BY <3>1, <3>2 DEF OutcomesOf
  <2> QED
    BY <2>1, <2>2
<1>4. Cardinality(Revisions(c)) = n
  BY <1>2, <1>3, FS_Interval
<1> HIDE DEF n
<1>5. NextRevision(c) = n + 1
  <2>1. NextRevision(c) = CHOOSE m \in 1..(n + 1) : m \notin 1..n /\ \A k \in 1..n : k < m
    BY <1>3, <1>4 DEF NextRevision
  <2>2. n + 1 \in 1..(n + 1) /\ n + 1 \notin 1..n /\ \A k \in 1..n : k < n + 1
    BY <1>2
  <2>3. \A m \in 1..(n + 1) : m \notin 1..n => m = n + 1
    BY <1>2
  <2> QED
    BY <2>1, <2>2, <2>3
<1> QED
  BY <1>2, <1>3, <1>5 DEF n

LEMMA ReadRevisionStep ==
  ASSUME CallsInv, OutcomesInv, NEW i \in DOMAIN calls, ReadRevision(i)
  PROVE  /\ CallsInv' /\ OutcomesInv'
         /\ UNCHANGED <<workload, clock, intakeVars, reviewVars>>
         /\ OneMoved(i) /\ EndedStay /\ \A k : k # "outcome" => Still(k)
         /\ calls'[i].req = calls[i].req /\ calls[i].req.kind = "outcome"
         /\ calls'[i].error = "none"
<1> DEFINE claim == calls[i].req.claim
           n == Cardinality(OutcomesOf(outcomes, claim)) + 1
           d == [calls[i] EXCEPT !.pc = "read", !.number = n]
<1>1. calls[i] \in CallState /\ CallSound(calls[i])
  BY CallTyped
<1>2. /\ calls[i].pc = "lock" /\ calls[i].req.kind = "outcome"
      /\ calls[i].taken = Len(LocksOf(calls[i].req))
  BY DEF ReadRevision, Counting
<1>3. n \in Nat /\ NextRevision(claim) = n
  BY RevisionsKnown
<1>4. UNCHANGED <<workload, clock, intakeVars, reviewVars>>
  BY DEF ReadRevision
<1> HIDE DEF n
<1>5. calls' = [calls EXCEPT ![i] = d]
  BY <1>3 DEF ReadRevision
<1>6. /\ d \in CallState /\ d.pc = "read" /\ d.req = calls[i].req /\ d.number = n
      /\ d.taken = calls[i].taken /\ d.error = calls[i].error
  BY <1>1, <1>3, ReadNumber
<1> HIDE DEF d
<1>7. /\ CallsInv' /\ OneMoved(i) /\ EndedStay /\ calls'[i] = d
      /\ \A k : d.pc # "read" \/ d.req.kind # k => Still(k)
  BY <1>2, <1>4, <1>5, <1>6, GoesOn
<1>8. UNCHANGED <<workload, outcomes>>
  BY <1>4 DEF reviewVars
<1>9. OutcomesInv'
  <2>1. \A j \in DOMAIN calls' : Numbered(calls'[j], outcomes')
    <3> SUFFICES ASSUME NEW j \in DOMAIN calls' PROVE Numbered(calls'[j], outcomes)
      BY <1>8
    <3>1. CASE j = i
      BY <1>6, <1>7, <3>1 DEF Numbered, n
    <3>2. CASE j # i
      BY <1>7, <3>2 DEF OneMoved, OutcomesInv
    <3> QED
      BY <3>1, <3>2
  <2>2. \A j \in DOMAIN calls' : calls'[j].req.kind = "outcome" => calls'[j].error # "storage"
    BY <1>1, <1>2, <1>6, <1>7 DEF OneMoved, OutcomesInv, OutcomesKept, CallSound
  <2>3. \A o \in outcomes :
          Revisions(o.claim) = 1..Cardinality({q \in outcomes : q.claim = o.claim})
    BY DEF OutcomesInv, OutcomesKept
  <2>4. \A o \in outcomes' :
          {p.revision : p \in {q \in outcomes' : q.claim = o.claim}}
            = 1..Cardinality({q \in outcomes' : q.claim = o.claim})
    BY <1>8, <2>3 DEF Revisions
  <2>5. OutcomesKept'
    BY <2>2, <2>4 DEF OutcomesKept, Revisions
  <2>6. Outcome' = Outcome
    BY <1>8, WorkloadKept DEF Outcome
  <2> QED
    BY <1>8, <2>1, <2>5, <2>6 DEF OutcomesInv
<1> QED
  BY <1>1, <1>2, <1>4, <1>6, <1>7, <1>9 DEF CallSound

\* Whoever reads the revisions of a claim has its lock.
LEMMA OneNumbers ==
  ASSUME CallsInv, NEW i \in DOMAIN calls, NEW j \in DOMAIN calls, i # j,
         calls[i].pc = "read", calls[i].req.kind = "outcome",
         calls[j].pc = "read", calls[j].req.kind = "outcome"
  PROVE  calls[i].req.claim # calls[j].req.claim
<1>1. HeldBy(calls[i]) \cap HeldBy(calls[j]) = {}
  BY DEF CallsInv
<1> QED
  BY <1>1, ReaderHolds

LEMMA CommitOutcomeStep ==
  ASSUME CallsInv, OutcomesInv, NEW i \in DOMAIN calls, CommitOutcome(i)
  PROVE  /\ CallsInv' /\ OutcomesInv'
         /\ UNCHANGED <<workload, clock, intakeVars, fingerprints, snapshots>>
         /\ OneMoved(i) /\ EndedStay /\ \A k : Still(k)
         /\ calls'[i].pc = "done" /\ calls'[i].error = "none"
<1> DEFINE r == calls[i].req
           n == Cardinality(OutcomesOf(outcomes, r.claim))
           new == [id |-> i, claim |-> r.claim, revision |-> n + 1]
<1>1. calls[i].pc = "read" /\ r.kind = "outcome"
  BY DEF CommitOutcome, Counted
<1>2. n \in Nat /\ Revisions(r.claim) = 1..n
  BY RevisionsKnown
<1>3. calls[i].number = n + 1
  BY <1>1 DEF OutcomesInv, Numbered
<1>4. calls[i].number \notin Revisions(r.claim)
  BY <1>2, <1>3
<1>5. /\ outcomes' = outcomes \cup {new}
      /\ Finish(i, 201, "none")
      /\ UNCHANGED <<workload, clock, intakeVars, fingerprints, snapshots>>
  BY <1>3, <1>4 DEF CommitOutcome
<1>6. /\ CallsInv' /\ OneMoved(i) /\ EndedStay /\ (\A k : Still(k))
      /\ calls'[i].pc = "done" /\ calls'[i].error = "none"
  BY <1>1, <1>5, Ends
<1>7. new \in Outcome
  BY <1>1, <1>2, CallTyped, RequestTyped DEF Outcome, CallsInv
<1>8. Outcome' = Outcome
  BY <1>5, WorkloadKept DEF Outcome
<1>9. outcomes' \subseteq Outcome' /\ IsFiniteSet(outcomes')
  BY <1>5, <1>7, <1>8, FS_AddElement DEF OutcomesInv
<1>10. new \notin outcomes
  BY <1>2 DEF Revisions
<1>11. \A c : c # r.claim => OutcomesOf(outcomes', c) = OutcomesOf(outcomes, c)
  BY <1>5 DEF OutcomesOf
<1>12. /\ OutcomesOf(outcomes', r.claim) = OutcomesOf(outcomes, r.claim) \cup {new}
       /\ new \notin OutcomesOf(outcomes, r.claim)
       /\ IsFiniteSet(OutcomesOf(outcomes, r.claim))
  BY <1>5, <1>10, FS_Subset DEF OutcomesOf, OutcomesInv
<1>13. Cardinality(OutcomesOf(outcomes', r.claim)) = n + 1
  BY <1>12, FS_AddElement
<1>14. \A o \in outcomes' :
         {p.revision : p \in OutcomesOf(outcomes', o.claim)}
           = 1..Cardinality(OutcomesOf(outcomes', o.claim))
  <2> SUFFICES ASSUME NEW o \in outcomes'
               PROVE  {p.revision : p \in OutcomesOf(outcomes', o.claim)}
                        = 1..Cardinality(OutcomesOf(outcomes', o.claim))
    OBVIOUS
  <2>1. CASE o.claim = r.claim
    <3>1. {p.revision : p \in OutcomesOf(outcomes, r.claim)} = 1..n
      BY <1>2 DEF Revisions, OutcomesOf
    <3>2. {p.revision : p \in OutcomesOf(outcomes', r.claim)} = (1..n) \cup {n + 1}
      BY <1>12, <3>1
    <3>3. (1..n) \cup {n + 1} = 1..(n + 1)
      BY <1>2
    <3> QED
      BY <1>13, <2>1, <3>2, <3>3
  <2>2. CASE o.claim # r.claim
    <3>1. o \in outcomes
      BY <1>5, <2>2
    <3>2. Revisions(o.claim) = 1..Cardinality({q \in outcomes : q.claim = o.claim})
      BY <3>1 DEF OutcomesInv, OutcomesKept
    <3> QED
      BY <1>11, <2>2, <3>2 DEF Revisions, OutcomesOf
  <2> QED
    BY <2>1, <2>2
<1>15. \A j \in DOMAIN calls' : calls'[j].req.kind = "outcome" => calls'[j].error # "storage"
  BY <1>6 DEF OneMoved, OutcomesInv, OutcomesKept
<1>16. OutcomesKept'
  BY <1>14, <1>15 DEF OutcomesKept, Revisions, OutcomesOf
<1>17. \A j \in DOMAIN calls' : Numbered(calls'[j], outcomes')
  <2> SUFFICES ASSUME NEW j \in DOMAIN calls', calls'[j].pc = "read",
                      calls'[j].req.kind = "outcome"
               PROVE  Numbered(calls'[j], outcomes')
    BY DEF Numbered
  <2>1. j # i /\ j \in DOMAIN calls /\ calls'[j] = calls[j]
    BY <1>6 DEF OneMoved
  <2>2. calls[j].req.claim # r.claim
    BY <1>1, <2>1, OneNumbers
  <2>3. Numbered(calls[j], outcomes)
    BY <2>1 DEF OutcomesInv
  <2> QED
    BY <1>11, <2>1, <2>2, <2>3 DEF Numbered
<1> QED
  BY <1>5, <1>6, <1>9, <1>16, <1>17 DEF OutcomesInv

-----------------------------------------------------------------------------
(* Screening: what one claim was told of the others *)

Snapshot == [event : Events, matches : SUBSET Events, prior : Nat]

\* A view is a claim with the matches it was screened with. It is in hand
\* until its snapshot is committed.
InHand(c) == c.pc \in {"lock", "read"} /\ c.req.kind = "features"

Views(T, cs) ==
  {[event |-> s.event, matches |-> s.matches] : s \in T} \cup
  {[event |-> cs[i].req.event, matches |-> cs[i].matches] : i \in {j \in DOMAIN cs : InHand(cs[j])}}

SeeEachOther(V) ==
  \A v, w \in V :
    v.event.incident = w.event.incident /\ v.event.insurer # w.event.insurer
      => v.event \in w.matches \/ w.event \in v.matches

MatchesIn(F, e) == {d \in F \ {e} : d.incident = e.incident /\ d.insurer # e.insurer}

HistoryOf(T, insurer) == {s \in T : s.event.insurer = insurer}

Ordered(T) ==
  \A s \in T : {t.prior : t \in HistoryOf(T, s.event.insurer)}
                 = 0..(Cardinality(HistoryOf(T, s.event.insurer)) - 1)

\* The matches in hand are those that count until the fingerprint is there,
\* the number in hand is the insurer's next.
Matched(c, F) ==
  c.pc = "read" /\ c.req.kind = "screen" => c.matches = MatchesIn(F, c.req.event)

NextInHistory(c, T) ==
  c.pc = "read" /\ c.req.kind = "features"
    => c.number = Cardinality(HistoryOf(T, c.req.event.insurer))

ScreeningInv ==
  /\ fingerprints \subseteq Events
  /\ snapshots \subseteq Snapshot /\ IsFiniteSet(snapshots)
  /\ \A v \in Views(snapshots, calls) : v.event \in fingerprints
  /\ SeeEachOther(Views(snapshots, calls))
  /\ Ordered(snapshots)
  /\ \A i \in DOMAIN calls : Matched(calls[i], fingerprints)
  /\ \A i \in DOMAIN calls : NextInHistory(calls[i], snapshots)

\* What is in hand was in hand.
ViewsKept ==
  \A j \in DOMAIN calls' :
    InHand(calls'[j]) => /\ j \in DOMAIN calls /\ InHand(calls[j])
                         /\ calls'[j].req = calls[j].req
                         /\ calls'[j].matches = calls[j].matches

LEMMA ScreeningTypes ==
  ASSUME UNCHANGED workload
  PROVE  Events' = Events /\ Snapshot' = Snapshot
BY WorkloadKept DEF Snapshot

LEMMA ViewsShrink ==
  ASSUME ViewsKept, UNCHANGED snapshots
  PROVE  Views(snapshots', calls') \subseteq Views(snapshots, calls)
<1> SUFFICES ASSUME NEW v \in Views(snapshots', calls')
             PROVE  v \in Views(snapshots, calls)
  OBVIOUS
<1>1. CASE v \in {[event |-> s.event, matches |-> s.matches] : s \in snapshots'}
  BY <1>1 DEF Views
<1>2. ASSUME NEW j \in DOMAIN calls', InHand(calls'[j]),
             v = [event |-> calls'[j].req.event, matches |-> calls'[j].matches]
      PROVE  v \in Views(snapshots, calls)
  <2>1. /\ j \in DOMAIN calls /\ InHand(calls[j])
        /\ v = [event |-> calls[j].req.event, matches |-> calls[j].matches]
    BY <1>2 DEF ViewsKept
  <2> QED
    BY <2>1 DEF Views
<1> QED
  BY <1>1, <1>2 DEF Views

LEMMA OtherScreening ==
  ASSUME ScreeningInv, UNCHANGED <<workload, fingerprints, snapshots>>,
         Still("screen"), Still("features"), ViewsKept
  PROVE  ScreeningInv'
<1>1. Events' = Events /\ Snapshot' = Snapshot
  BY ScreeningTypes
<1>2. Views(snapshots', calls') \subseteq Views(snapshots, calls)
  BY ViewsShrink
<1> DEFINE V == Views(snapshots, calls)
           V2 == Views(snapshots', calls')
<1>3. (\A v \in V2 : v.event \in fingerprints') /\ SeeEachOther(V2)
  <2>1. (\A v \in V : v.event \in fingerprints) /\ SeeEachOther(V)
    BY DEF ScreeningInv
  <2> HIDE DEF V, V2
  <2> QED
    BY <1>2, <2>1 DEF SeeEachOther, V, V2
<1>4. \A j \in DOMAIN calls' : Matched(calls'[j], fingerprints') /\ NextInHistory(calls'[j], snapshots')
  BY DEF Still, Matched, NextInHistory, ScreeningInv
<1>5. /\ fingerprints' \subseteq Events' /\ snapshots' \subseteq Snapshot'
      /\ IsFiniteSet(snapshots') /\ Ordered(snapshots')
  BY <1>1 DEF ScreeningInv
<1> QED
  BY <1>3, <1>4, <1>5 DEF ScreeningInv

LEMMA MovedViews ==
  ASSUME NEW i \in DOMAIN calls, OneMoved(i),
         InHand(calls'[i]) => /\ InHand(calls[i]) /\ calls'[i].req = calls[i].req
                              /\ calls'[i].matches = calls[i].matches
  PROVE  ViewsKept
BY DEF OneMoved, ViewsKept

LEMMA FindDuplicatesStep ==
  ASSUME CallsInv, ScreeningInv, NEW i \in DOMAIN calls, FindDuplicates(i)
  PROVE  /\ CallsInv' /\ ScreeningInv'
         /\ UNCHANGED <<workload, clock, intakeVars, reviewVars>>
         /\ OneMoved(i) /\ EndedStay /\ \A k : k # "screen" => Still(k)
         /\ calls'[i].error = "none"
<1> DEFINE event == calls[i].req.event
           m == MatchesIn(fingerprints, event)
           d == [calls[i] EXCEPT !.pc = "read", !.matches = m]
<1>1. calls[i] \in CallState /\ CallSound(calls[i])
  BY CallTyped
<1>2. /\ calls[i].pc = "lock" /\ calls[i].req.kind = "screen"
      /\ calls[i].taken = Len(LocksOf(calls[i].req))
  BY DEF FindDuplicates, Counting
<1>3. m \in SUBSET Events /\ Matches(event) = m
  BY DEF ScreeningInv, MatchesIn, Matches
<1>4. UNCHANGED <<workload, clock, intakeVars, reviewVars>>
  BY DEF FindDuplicates
<1> HIDE DEF m
<1>5. calls' = [calls EXCEPT ![i] = d]
  BY <1>3 DEF FindDuplicates
<1>6. /\ d \in CallState /\ d.pc = "read" /\ d.req = calls[i].req /\ d.matches = m
      /\ d.taken = calls[i].taken /\ d.error = calls[i].error
  BY <1>1, <1>3, ReadMatches
<1> HIDE DEF d
<1>7. /\ CallsInv' /\ OneMoved(i) /\ EndedStay /\ calls'[i] = d
      /\ \A k : d.pc # "read" \/ d.req.kind # k => Still(k)
  BY <1>2, <1>4, <1>5, <1>6, GoesOn
<1>8. UNCHANGED <<workload, fingerprints, snapshots>>
  BY <1>4 DEF reviewVars
<1>9. ScreeningInv'
  <2>1. Events' = Events /\ Snapshot' = Snapshot
    BY <1>8, ScreeningTypes
  <2>2. ViewsKept
    BY <1>2, <1>6, <1>7, MovedViews DEF InHand
  <2>3. Views(snapshots', calls') \subseteq Views(snapshots, calls)
    BY <1>8, <2>2, ViewsShrink
  <2>4. /\ \A v \in Views(snapshots', calls') : v.event \in fingerprints'
        /\ SeeEachOther(Views(snapshots', calls'))
    BY <1>8, <2>3 DEF ScreeningInv, SeeEachOther
  <2>5. \A j \in DOMAIN calls' : Matched(calls'[j], fingerprints)
    BY <1>6, <1>7 DEF Matched, m, OneMoved, ScreeningInv
  <2>6. \A j \in DOMAIN calls' : NextInHistory(calls'[j], snapshots)
    BY <1>2, <1>6, <1>7 DEF NextInHistory, OneMoved, ScreeningInv
  <2>7. /\ fingerprints' \subseteq Events' /\ snapshots' \subseteq Snapshot'
        /\ IsFiniteSet(snapshots') /\ Ordered(snapshots')
    BY <1>8, <2>1 DEF ScreeningInv
  <2> QED
    BY <1>8, <2>4, <2>5, <2>6, <2>7 DEF ScreeningInv
<1> QED
  BY <1>1, <1>2, <1>4, <1>6, <1>7, <1>9 DEF CallSound

\* Whoever reads the fingerprints of an incident has its lock, and whoever
\* reads the history of an insurer.
LEMMA OneScreens ==
  ASSUME CallsInv, NEW i \in DOMAIN calls, NEW j \in DOMAIN calls, i # j,
         calls[i].pc = "read", calls[j].pc = "read"
  PROVE  /\ calls[i].req.kind = "screen" /\ calls[j].req.kind = "screen"
              => calls[i].req.event.incident # calls[j].req.event.incident
         /\ calls[i].req.kind = "features" /\ calls[j].req.kind = "features"
              => calls[i].req.event.insurer # calls[j].req.event.insurer
<1>1. HeldBy(calls[i]) \cap HeldBy(calls[j]) = {}
  BY DEF CallsInv
<1>2. ASSUME calls[i].req.kind = "screen", calls[j].req.kind = "screen"
      PROVE  calls[i].req.event.incident # calls[j].req.event.incident
  BY <1>1, <1>2, ReaderHolds
<1>3. ASSUME calls[i].req.kind = "features", calls[j].req.kind = "features"
      PROVE  calls[i].req.event.insurer # calls[j].req.event.insurer
  BY <1>1, <1>3, ReaderHolds
<1> QED
  BY <1>2, <1>3

\* The claim that is added now was compared with all the others.
LEMMA CommitFingerprintStep ==
  ASSUME CallsInv, ScreeningInv, NEW i \in DOMAIN calls, CommitFingerprint(i)
  PROVE  /\ CallsInv' /\ ScreeningInv'
         /\ UNCHANGED <<workload, clock, intakeVars, snapshots, outcomes>>
         /\ OneMoved(i) /\ EndedStay /\ \A k : Still(k)
         /\ calls'[i].error = "none"
<1> DEFINE r == calls[i].req
           q == [r EXCEPT !.kind = "features"]
           c == Call(q, "lock")
           d == [c EXCEPT !.matches = calls[i].matches, !.now = 0]
           new == [event |-> r.event, matches |-> calls[i].matches]
<1>1. /\ calls[i] \in CallState /\ CallSound(calls[i]) /\ r \in Requests
      /\ calls[i].matches \in SUBSET Events
  BY CallTyped DEF CallState
<1>2. calls[i].pc = "read" /\ r.kind = "screen"
  BY DEF CommitFingerprint, Counted
<1>3. /\ fingerprints' = fingerprints \cup {r.event}
      /\ UNCHANGED <<workload, clock, intakeVars, snapshots, outcomes>>
      /\ calls' = [calls EXCEPT ![i] = d]
  BY DEF CommitFingerprint
<1>4. q \in Requests /\ q.kind = "features" /\ q.event = r.event /\ r.event \in Events
  BY <1>1, <1>2, FeaturesTyped, RequestTyped DEF CallsInv
<1> HIDE DEF q
<1>5. /\ c \in CallState /\ CallSound(c) /\ c.pc = "lock" /\ c.req = q
      /\ c.error = "none" /\ HeldBy(c) = {}
  BY <1>4, NewTyped
<1>6. /\ d \in CallState /\ d.pc = "lock" /\ d.req = q /\ d.error = "none"
      /\ d.taken = c.taken /\ d.matches = calls[i].matches
  <2> DEFINE m == calls[i].matches
  <2> HIDE DEF c, m
  <2>1. d = [[c EXCEPT !.matches = m] EXCEPT !.now = 0]
    BY DEF m
  <2> DEFINE e == [c EXCEPT !.matches = m]
  <2>2. /\ e \in CallState /\ e.pc = "lock" /\ e.req = q /\ e.error = "none"
        /\ e.taken = c.taken /\ e.matches = m
    BY <1>1, <1>5 DEF CallState, m
  <2> HIDE DEF e
  <2>3. LET f == [e EXCEPT !.now = 0]
        IN  /\ f \in CallState /\ f.pc = e.pc /\ f.req = e.req /\ f.error = e.error
            /\ f.taken = e.taken /\ f.matches = e.matches
    BY <2>2 DEF CallState
  <2>4. d = [e EXCEPT !.now = 0]
    BY <2>1 DEF e
  <2> QED
    BY <2>2, <2>3, <2>4 DEF m
<1> HIDE DEF c, d
<1>7. HeldBy(d) = {} /\ CallSound(d)
  BY <1>5, <1>6 DEF HeldBy, CallSound
<1>8. /\ CallsInv' /\ DOMAIN calls' = DOMAIN calls /\ calls'[i] = d
      /\ \A j \in DOMAIN calls \ {i} : calls'[j] = calls[j]
  BY <1>3, <1>6, <1>7, CallMoves
<1>9. OneMoved(i)
  BY <1>8 DEF OneMoved
<1>10. EndedStay /\ \A k : Still(k)
  BY <1>2, <1>6, <1>8, <1>9, MovedStill
<1>11. Events' = Events /\ Snapshot' = Snapshot
  BY <1>3, ScreeningTypes
<1>12. calls[i].matches = MatchesIn(fingerprints, r.event)
  BY <1>2 DEF ScreeningInv, Matched
<1>13. Views(snapshots', calls') \subseteq Views(snapshots, calls) \cup {new}
  <2> SUFFICES ASSUME NEW v \in Views(snapshots', calls')
               PROVE  v \in Views(snapshots, calls) \cup {new}
    OBVIOUS
  <2>1. CASE v \in {[event |-> s.event, matches |-> s.matches] : s \in snapshots'}
    BY <1>3, <2>1 DEF Views
  <2>2. ASSUME NEW j \in DOMAIN calls', InHand(calls'[j]),
               v = [event |-> calls'[j].req.event, matches |-> calls'[j].matches]
        PROVE  v \in Views(snapshots, calls) \cup {new}
    <3>1. CASE j = i
      BY <1>4, <1>6, <1>8, <2>2, <3>1
    <3>2. CASE j # i
      <4>1. calls'[j] = calls[j] /\ j \in DOMAIN calls
        BY <1>8, <3>2
      <4> QED
        BY <2>2, <4>1 DEF Views
    <3> QED
      BY <3>1, <3>2
  <2> QED
    BY <2>1, <2>2 DEF Views
<1>14. /\ \A v \in Views(snapshots', calls') : v.event \in fingerprints'
       /\ SeeEachOther(Views(snapshots', calls'))
  <2> DEFINE V == Views(snapshots, calls)
             W == Views(snapshots', calls')
  <2>1. (\A v \in V : v.event \in fingerprints) /\ SeeEachOther(V)
    BY DEF ScreeningInv
  <2>2. W \subseteq V \cup {new}
    BY <1>13
  <2> HIDE DEF V, W
  <2>3. \A v \in V : v.event.incident = r.event.incident /\ v.event.insurer # r.event.insurer
                       => v.event \in new.matches
    BY <1>12, <2>1 DEF MatchesIn
  <2>4. \A v \in W : v.event \in fingerprints'
    BY <1>3, <2>1, <2>2
  <2>5. SeeEachOther(W)
    BY <2>1, <2>2, <2>3 DEF SeeEachOther
  <2> QED
    BY <2>4, <2>5 DEF W
<1>15. \A j \in DOMAIN calls' : Matched(calls'[j], fingerprints')
  <2> SUFFICES ASSUME NEW j \in DOMAIN calls', calls'[j].pc = "read",
                      calls'[j].req.kind = "screen"
               PROVE  Matched(calls'[j], fingerprints')
    BY DEF Matched
  <2>1. j # i /\ j \in DOMAIN calls /\ calls'[j] = calls[j]
    BY <1>6, <1>8
  <2>2. r.event.incident # calls[j].req.event.incident
    BY <1>2, <2>1, OneScreens
  <2>3. MatchesIn(fingerprints', calls[j].req.event) = MatchesIn(fingerprints, calls[j].req.event)
    BY <1>3, <2>2 DEF MatchesIn
  <2> QED
    BY <2>1, <2>3 DEF Matched, ScreeningInv
<1>16. \A j \in DOMAIN calls' : NextInHistory(calls'[j], snapshots')
  BY <1>3, <1>6, <1>8 DEF NextInHistory, ScreeningInv
<1>17. /\ fingerprints' \subseteq Events' /\ snapshots' \subseteq Snapshot'
       /\ IsFiniteSet(snapshots') /\ Ordered(snapshots')
  BY <1>3, <1>4, <1>11 DEF ScreeningInv
<1> QED
  BY <1>3, <1>6, <1>8, <1>9, <1>10, <1>14, <1>15, <1>16, <1>17 DEF ScreeningInv

LEMMA HistoryKnown ==
  ASSUME ScreeningInv, NEW insurer
  PROVE  LET mine == HistoryOf(snapshots, insurer)
         IN  /\ IsFiniteSet(mine) /\ Cardinality(mine) \in Nat
             /\ {t.prior : t \in mine} = 0..(Cardinality(mine) - 1)
<1> DEFINE mine == HistoryOf(snapshots, insurer)
<1>1. IsFiniteSet(mine)
  BY FS_Subset DEF ScreeningInv, HistoryOf
<1>2. Cardinality(mine) \in Nat
  BY <1>1, FS_CardinalityType
<1>3. {t.prior : t \in mine} = 0..(Cardinality(mine) - 1)
  <2>1. CASE mine = {}
    <3>1. Cardinality(mine) = 0
      BY <2>1, FS_EmptySet
    <3>2. {t.prior : t \in mine} = {}
      BY <2>1
    <3> QED
      BY <3>1, <3>2
  <2>2. CASE mine # {}
    <3>1. PICK s \in snapshots : s.event.insurer = insurer
      BY <2>2 DEF HistoryOf
    <3> QED
      BY <3>1 DEF ScreeningInv, Ordered
  <2> QED
    BY <2>1, <2>2
<1> QED
  BY <1>1, <1>2, <1>3

LEMMA CountHistoryStep ==
  ASSUME CallsInv, ScreeningInv, NEW i \in DOMAIN calls, CountHistory(i)
  PROVE  /\ CallsInv' /\ ScreeningInv'
         /\ UNCHANGED <<workload, clock, intakeVars, reviewVars>>
         /\ OneMoved(i) /\ EndedStay /\ \A k : k # "features" => Still(k)
         /\ calls'[i].error = "none"
<1> DEFINE insurer == calls[i].req.event.insurer
           n == Cardinality(HistoryOf(snapshots, insurer))
           d == [calls[i] EXCEPT !.pc = "read", !.number = n]
<1>1. calls[i] \in CallState /\ CallSound(calls[i])
  BY CallTyped
<1>2. /\ calls[i].pc = "lock" /\ calls[i].req.kind = "features"
      /\ calls[i].taken = Len(LocksOf(calls[i].req))
  BY DEF CountHistory, Counting
<1>3. n \in Nat
  BY HistoryKnown
<1>4. UNCHANGED <<workload, clock, intakeVars, reviewVars>>
  BY DEF CountHistory
<1>5. calls' = [calls EXCEPT ![i] = d]
  BY DEF CountHistory, HistoryOf
<1> HIDE DEF n
<1>6. /\ d \in CallState /\ d.pc = "read" /\ d.req = calls[i].req /\ d.number = n
      /\ d.taken = calls[i].taken /\ d.error = calls[i].error
      /\ d.matches = calls[i].matches
  BY <1>1, <1>3, ReadNumber
<1> HIDE DEF d
<1>7. /\ CallsInv' /\ OneMoved(i) /\ EndedStay /\ calls'[i] = d
      /\ \A k : d.pc # "read" \/ d.req.kind # k => Still(k)
  BY <1>2, <1>4, <1>5, <1>6, GoesOn
<1>8. UNCHANGED <<workload, fingerprints, snapshots>>
  BY <1>4 DEF reviewVars
<1>9. ScreeningInv'
  <2>1. Events' = Events /\ Snapshot' = Snapshot
    BY <1>8, ScreeningTypes
  <2>2. ViewsKept
    BY <1>2, <1>6, <1>7, MovedViews DEF InHand
  <2>3. Views(snapshots', calls') \subseteq Views(snapshots, calls)
    BY <1>8, <2>2, ViewsShrink
  <2>4. /\ \A v \in Views(snapshots', calls') : v.event \in fingerprints'
        /\ SeeEachOther(Views(snapshots', calls'))
    BY <1>8, <2>3 DEF ScreeningInv, SeeEachOther
  <2>5. \A j \in DOMAIN calls' : Matched(calls'[j], fingerprints)
    BY <1>2, <1>6, <1>7 DEF Matched, OneMoved, ScreeningInv
  <2>6. \A j \in DOMAIN calls' : NextInHistory(calls'[j], snapshots)
    BY <1>2, <1>6, <1>7 DEF NextInHistory, OneMoved, ScreeningInv, n
  <2>7. /\ fingerprints' \subseteq Events' /\ snapshots' \subseteq Snapshot'
        /\ IsFiniteSet(snapshots') /\ Ordered(snapshots')
    BY <1>8, <2>1 DEF ScreeningInv
  <2> QED
    BY <1>8, <2>4, <2>5, <2>6, <2>7 DEF ScreeningInv
<1> QED
  BY <1>1, <1>2, <1>4, <1>6, <1>7, <1>9 DEF CallSound

\* The view in hand is stored, with the next number of its insurer.
LEMMA CommitSnapshotStep ==
  ASSUME CallsInv, ScreeningInv, NEW i \in DOMAIN calls, CommitSnapshot(i)
  PROVE  /\ CallsInv' /\ ScreeningInv'
         /\ UNCHANGED <<workload, clock, intakeVars, fingerprints, outcomes>>
         /\ OneMoved(i) /\ EndedStay /\ \A k : Still(k)
         /\ calls'[i].pc = "done" /\ calls'[i].error = "none"
<1> DEFINE event == calls[i].req.event
           insurer == event.insurer
           mine == HistoryOf(snapshots, insurer)
           n == Cardinality(mine)
           new == [event |-> event, matches |-> calls[i].matches, prior |-> calls[i].number]
<1>1. /\ calls[i] \in CallState /\ calls[i].req \in Requests
      /\ calls[i].matches \in SUBSET Events
  BY CallTyped DEF CallState
<1>2. calls[i].pc = "read" /\ calls[i].req.kind = "features"
  BY DEF CommitSnapshot, Counted
<1>3. /\ snapshots' = IF \E s \in snapshots : s.event = event THEN snapshots
                      ELSE snapshots \cup {new}
      /\ Finish(i, 200, "none")
      /\ UNCHANGED <<workload, clock, intakeVars, fingerprints, outcomes>>
  BY DEF CommitSnapshot, Kept
<1>4. /\ CallsInv' /\ OneMoved(i) /\ EndedStay /\ (\A k : Still(k))
      /\ calls'[i].pc = "done" /\ calls'[i].error = "none"
  BY <1>2, <1>3, Ends
<1>5. Events' = Events /\ Snapshot' = Snapshot
  BY <1>3, ScreeningTypes
<1>6. ViewsKept
  BY <1>4, MovedViews DEF InHand
<1>7. CASE \E s \in snapshots : s.event = event
  <2>1. UNCHANGED <<workload, fingerprints, snapshots>>
    BY <1>3, <1>7
  <2>2. ScreeningInv'
    BY <2>1, <1>4, <1>6, OtherScreening
  <2> QED
    BY <1>3, <1>4, <2>2
<1>8. CASE ~\E s \in snapshots : s.event = event
  <2>1. snapshots' = snapshots \cup {new} /\ new \notin snapshots
    BY <1>3, <1>8
  <2>2. IsFiniteSet(mine) /\ n \in Nat /\ {t.prior : t \in mine} = 0..(n - 1)
    BY HistoryKnown
  <2>3. calls[i].number = n
    BY <1>2 DEF ScreeningInv, NextInHistory
  <2>4. event \in Events
    BY <1>1, <1>2, RequestTyped DEF CallsInv
  <2>5. new \in Snapshot
    BY <1>1, <2>2, <2>3, <2>4 DEF Snapshot
  <2>6. snapshots' \subseteq Snapshot' /\ IsFiniteSet(snapshots')
    BY <1>5, <2>1, <2>5, FS_AddElement DEF ScreeningInv
  <2>7. /\ \A a : a # insurer => HistoryOf(snapshots', a) = HistoryOf(snapshots, a)
        /\ HistoryOf(snapshots', insurer) = mine \cup {new} /\ new \notin mine
    BY <2>1 DEF HistoryOf
  <2>8. Cardinality(HistoryOf(snapshots', insurer)) = n + 1
    <3>1. IsFiniteSet(mine) /\ new \notin mine
      BY <2>2, <2>7
    <3>2. HistoryOf(snapshots', insurer) = mine \cup {new}
      BY <2>7
    <3> HIDE DEF mine, new
    <3> QED
      BY <3>1, <3>2, FS_AddElement
  <2>9. {t.prior : t \in HistoryOf(snapshots', insurer)} = 0..n
    <3>a. new.prior = n
      BY <2>3
    <3> HIDE DEF mine, new
    <3>1. {t.prior : t \in mine \cup {new}} = {t.prior : t \in mine} \cup {n}
      BY <3>a
    <3>2. 0..n = (0..(n - 1)) \cup {n}
      BY <2>2
    <3> QED
      BY <2>2, <2>7, <3>1, <3>2
  <2>10. Ordered(snapshots')
    <3> SUFFICES ASSUME NEW s \in snapshots'
                 PROVE  {t.prior : t \in HistoryOf(snapshots', s.event.insurer)}
                          = 0..(Cardinality(HistoryOf(snapshots', s.event.insurer)) - 1)
      BY DEF Ordered
    <3>1. CASE s.event.insurer = insurer
      <4>1. n = (n + 1) - 1
        BY <2>2
      <4> QED
        BY <2>8, <2>9, <3>1, <4>1
    <3>2. CASE s.event.insurer # insurer
      <4>1. HistoryOf(snapshots', s.event.insurer) = HistoryOf(snapshots, s.event.insurer)
        BY <2>7, <3>2
      <4>2. s \in snapshots
        BY <2>1, <3>2
      <4> QED
        BY <4>1, <4>2 DEF ScreeningInv, Ordered
    <3> QED
      BY <3>1, <3>2
  <2>11. Views(snapshots', calls') \subseteq Views(snapshots, calls)
    <3> SUFFICES ASSUME NEW v \in Views(snapshots', calls')
                 PROVE  v \in Views(snapshots, calls)
      OBVIOUS
    <3>1. CASE \E s \in snapshots : v = [event |-> s.event, matches |-> s.matches]
      BY <3>1 DEF Views
    <3>2. CASE v = [event |-> new.event, matches |-> new.matches]
      BY <1>2, <3>2 DEF Views, InHand
    <3>3. ASSUME NEW j \in DOMAIN calls', InHand(calls'[j]),
                 v = [event |-> calls'[j].req.event, matches |-> calls'[j].matches]
          PROVE  v \in Views(snapshots, calls)
      <4>1. /\ j \in DOMAIN calls /\ InHand(calls[j])
            /\ v = [event |-> calls[j].req.event, matches |-> calls[j].matches]
        BY <1>6, <3>3 DEF ViewsKept
      <4> QED
        BY <4>1 DEF Views
    <3> QED
      BY <2>1, <3>1, <3>2, <3>3 DEF Views
  <2>12. /\ \A v \in Views(snapshots', calls') : v.event \in fingerprints'
         /\ SeeEachOther(Views(snapshots', calls'))
    BY <1>3, <2>11 DEF ScreeningInv, SeeEachOther
  <2>13. \A j \in DOMAIN calls' : Matched(calls'[j], fingerprints')
    BY <1>3, <1>4 DEF Matched, Still, ScreeningInv
  <2>14. \A j \in DOMAIN calls' : NextInHistory(calls'[j], snapshots')
    <3> SUFFICES ASSUME NEW j \in DOMAIN calls', calls'[j].pc = "read",
                        calls'[j].req.kind = "features"
                 PROVE  NextInHistory(calls'[j], snapshots')
      BY DEF NextInHistory
    <3>1. j # i /\ j \in DOMAIN calls /\ calls'[j] = calls[j]
      BY <1>4 DEF OneMoved
    <3>2. calls[j].req.event.insurer # insurer
      BY <1>2, <3>1, OneScreens
    <3> QED
      BY <2>7, <3>1, <3>2 DEF NextInHistory, ScreeningInv
  <2>15. fingerprints' \subseteq Events'
    BY <1>3, <1>5 DEF ScreeningInv
  <2>16. ScreeningInv'
    BY <2>6, <2>10, <2>12, <2>13, <2>14, <2>15 DEF ScreeningInv
  <2> QED
    BY <1>3, <1>4, <2>16
<1> QED
  BY <1>7, <1>8

LEMMA ScreeningShows ==
  ASSUME ScreeningInv
  PROVE  DuplicatesSeen /\ HistoryIsAnOrder
<1>1. DuplicatesSeen
  <2> SUFFICES ASSUME NEW s \in snapshots, NEW t \in snapshots,
                      s.event.incident = t.event.incident,
                      s.event.insurer # t.event.insurer
               PROVE  t.event \in s.matches \/ s.event \in t.matches
    BY DEF DuplicatesSeen
  <2> DEFINE v == [event |-> s.event, matches |-> s.matches]
             w == [event |-> t.event, matches |-> t.matches]
  <2>1. v \in Views(snapshots, calls) /\ w \in Views(snapshots, calls)
    BY DEF Views
  <2> QED
    BY <2>1 DEF ScreeningInv, SeeEachOther
<1>2. HistoryIsAnOrder
  BY DEF HistoryIsAnOrder, ScreeningInv, Ordered, HistoryOf
<1> QED
  BY <1>1, <1>2

-----------------------------------------------------------------------------
(* Counting rows *)

NoMore(A, B) ==
  /\ Cardinality(A) \in Nat /\ Cardinality(B) \in Nat
  /\ Cardinality(A) <= Cardinality(B)

From(U, T, f) == \A u \in U : \E s \in T : u = f[s]

\* Rows that come one by one from others are no more than those.
LEMMA ImageCount ==
  ASSUME NEW S, IsFiniteSet(S), NEW f, NEW T, From(T, S, f)
  PROVE  IsFiniteSet(T) /\ NoMore(T, S)
<1> DEFINE g == [s \in S |-> f[s]]
           U == {f[s] : s \in S}
<1>1. g \in Surjection(S, U)
  BY DEF Surjection
<1> HIDE DEF g
<1>2. T \subseteq U
  BY DEF From
<1> HIDE DEF U
<1>3. IsFiniteSet(U) /\ Cardinality(U) <= Cardinality(S)
  BY <1>1, FS_Surjection
<1>4. IsFiniteSet(T) /\ Cardinality(T) <= Cardinality(U)
  BY <1>2, <1>3, FS_Subset
<1>5. Cardinality(T) \in Nat /\ Cardinality(U) \in Nat /\ Cardinality(S) \in Nat
  BY <1>3, <1>4, FS_CardinalityType
<1> QED
  BY <1>3, <1>4, <1>5 DEF NoMore

LEMMA GrownCount ==
  ASSUME NEW S, IsFiniteSet(S), NEW x, NEW T, T \subseteq S \cup {x}
  PROVE  /\ IsFiniteSet(T) /\ Cardinality(T) \in Nat /\ Cardinality(S) \in Nat
         /\ Cardinality(T) <= Cardinality(S) + 1
<1> DEFINE U == S \cup {x}
<1>1. IsFiniteSet(U) /\ Cardinality(U) = IF x \in S THEN Cardinality(S) ELSE Cardinality(S) + 1
  BY FS_AddElement
<1>2. Cardinality(S) \in Nat
  BY FS_CardinalityType
<1> HIDE DEF U
<1>3. IsFiniteSet(T) /\ Cardinality(T) <= Cardinality(U)
  BY <1>1, FS_Subset DEF U
<1> QED
  BY <1>1, <1>2, <1>3, FS_CardinalityType

LEMMA FewerCount ==
  ASSUME NEW S, IsFiniteSet(S), NEW T, T \subseteq S
  PROVE  /\ IsFiniteSet(T) /\ Cardinality(T) \in Nat /\ Cardinality(S) \in Nat
         /\ Cardinality(T) <= Cardinality(S)
BY FS_Subset, FS_CardinalityType

MinuteTo(T, at) == {c \in T : at - Minute <= c.at /\ c.at <= at}

InLimit(T, X, limit) ==
  \A c \in T \cap X : Cardinality(MinuteTo(T, c.at) \cap X) <= limit

\* Nobody exceeds a limit who inserts a row, at whatever instant of the past,
\* when fewer rows than the limit are younger than a minute before it: every
\* minute the row falls in holds only such rows.
LEMMA RoomKept ==
  ASSUME NEW T, IsFiniteSet(T), \A t \in T : t.at \in Nat,
         NEW K \in SUBSET T, NEW new, new.at \in Nat, NEW X, NEW limit \in Nat,
         Cardinality(WithinMinute(T, new.at) \cap X) < limit,
         InLimit(T, X, limit)
  PROVE  InLimit(K \cup {new}, X, limit)
<1> SUFFICES ASSUME NEW c \in (K \cup {new}) \cap X
             PROVE  Cardinality(MinuteTo(K \cup {new}, c.at) \cap X) <= limit
  BY DEF InLimit
<1> DEFINE W == MinuteTo(K \cup {new}, c.at) \cap X
           Young == WithinMinute(T, new.at) \cap X
           Old == MinuteTo(T, c.at) \cap X
<1>1. IsFiniteSet(Young) /\ IsFiniteSet(Old)
  BY FS_Subset DEF WithinMinute, MinuteTo
<1>2. c.at \in Nat /\ Minute \in Nat
  BY ClockAssumption
<1>3. CASE new \in W
  <2>1. W \subseteq Young \cup {new}
    BY <1>2, <1>3 DEF MinuteTo, WithinMinute
  <2> HIDE DEF W, Young
  <2>2. Cardinality(W) <= Cardinality(Young) + 1 /\ Cardinality(Young) \in Nat
        /\ Cardinality(W) \in Nat
    BY <1>1, <2>1, GrownCount
  <2>3. Cardinality(Young) < limit
    BY DEF Young
  <2>4. Cardinality(W) <= limit
    BY <2>2, <2>3
  <2> QED
    BY <2>4 DEF W
<1>4. CASE new \notin W
  <2>1. c # new
    BY <1>2, <1>4 DEF MinuteTo
  <2>2. c \in T \cap X
    BY <2>1
  <2>3. W \subseteq Old
    BY <1>4 DEF MinuteTo
  <2>4. Cardinality(Old) <= limit
    BY <2>2 DEF InLimit
  <2> HIDE DEF W, Old
  <2>5. Cardinality(W) <= Cardinality(Old) /\ Cardinality(Old) \in Nat
        /\ Cardinality(W) \in Nat
    BY <1>1, <2>3, FewerCount
  <2>6. Cardinality(W) <= limit
    BY <2>4, <2>5
  <2> QED
    BY <2>6 DEF W
<1> QED
  BY <1>3, <1>4

\* Rows that change in other columns are no more in any minute.
LEMMA ChangedCount ==
  ASSUME NEW T, IsFiniteSet(T), NEW f, NEW U, From(U, T, f),
         \A s \in T : f[s].at = s.at,
         NEW X, NEW Y, \A s \in T : f[s] \in Y => s \in X,
         NEW at
  PROVE  /\ NoMore(MinuteTo(U, at) \cap Y, MinuteTo(T, at) \cap X)
         /\ NoMore(WithinMinute(U, at) \cap Y, WithinMinute(T, at) \cap X)
<1> DEFINE A == MinuteTo(T, at) \cap X
           B == MinuteTo(U, at) \cap Y
           C == WithinMinute(T, at) \cap X
           D == WithinMinute(U, at) \cap Y
<1>1. IsFiniteSet(A) /\ IsFiniteSet(C)
  BY FS_Subset DEF MinuteTo, WithinMinute
<1>2. From(B, A, f) /\ From(D, C, f)
  BY DEF From, MinuteTo, WithinMinute
<1> HIDE DEF A, B, C, D
<1>3. NoMore(B, A)
  BY <1>1, <1>2, ImageCount
<1>4. NoMore(D, C)
  BY <1>1, <1>2, ImageCount
<1> QED
  BY <1>3, <1>4 DEF A, B, C, D

-----------------------------------------------------------------------------
(* Challenges and sessions *)

ChallengeRow == [id : Numbers, wallet : STRING, client : STRING, at : Nat, expires : Nat,
                 consumed : BOOLEAN]
SessionRow == [challenge : Numbers, by : Numbers, wallet : STRING, until : Nat]

Ended(n, cs) == n \in DOMAIN cs /\ cs[n].pc = "done"

OfClient(T, client) == {c \in T : c.client = client}
OfWallet(T, wallet) == {c \in T : c.wallet = wallet}

Limited(T) ==
  \A c \in T :
    /\ Cardinality(OfClient(MinuteTo(T, c.at), c.client)) <= ChallengeClientLimit
    /\ Cardinality(OfWallet(MinuteTo(T, c.at), c.wallet)) <= ChallengeWalletLimit

\* There is room for the challenge that is about to be inserted.
RoomForChallenge(c, T) ==
  c.pc = "read" /\ c.req.kind = "challenge" =>
    /\ Cardinality(OfClient(WithinMinute(T, c.now), c.req.client)) < ChallengeClientLimit
    /\ Cardinality(OfWallet(WithinMinute(T, c.now), c.req.wallet)) < ChallengeWalletLimit

ChallengesInv ==
  /\ challenges \subseteq ChallengeRow /\ IsFiniteSet(challenges)
  /\ sessions \subseteq SessionRow
  /\ \A c \in challenges : Ended(c.id, calls)
  /\ \A s \in sessions : /\ Ended(s.challenge, calls)
                         /\ \A c \in challenges : c.id = s.challenge => c.consumed
  /\ SessionOnce
  /\ Limited(challenges)
  /\ \A i \in DOMAIN calls : RoomForChallenge(calls[i], challenges)

LEMMA ChallengeTypes ==
  ASSUME UNCHANGED workload
  PROVE  ChallengeRow' = ChallengeRow /\ SessionRow' = SessionRow
BY WorkloadKept DEF ChallengeRow, SessionRow

LEMMA EndedKept ==
  ASSUME EndedStay, NEW n, Ended(n, calls)
  PROVE  Ended(n, calls')
BY DEF EndedStay, Ended

LEMMA OtherChallenges ==
  ASSUME ChallengesInv, UNCHANGED <<workload, challenges, sessions>>,
         Still("challenge"), EndedStay
  PROVE  ChallengesInv'
<1>1. ChallengeRow' = ChallengeRow /\ SessionRow' = SessionRow
  BY ChallengeTypes
<1>2. /\ challenges' \subseteq ChallengeRow' /\ IsFiniteSet(challenges')
      /\ sessions' \subseteq SessionRow' /\ Limited(challenges')
  BY <1>1 DEF ChallengesInv
<1>3. \A c \in challenges' : Ended(c.id, calls')
  BY EndedKept DEF ChallengesInv
<1>4. \A s \in sessions' : /\ Ended(s.challenge, calls')
                           /\ \A c \in challenges' : c.id = s.challenge => c.consumed
  BY EndedKept DEF ChallengesInv
<1>5. SessionOnce'
  BY DEF SessionOnce, ChallengesInv
<1>6. \A j \in DOMAIN calls' : RoomForChallenge(calls'[j], challenges')
  BY DEF Still, RoomForChallenge, ChallengesInv
<1> QED
  BY <1>2, <1>3, <1>4, <1>5, <1>6 DEF ChallengesInv

\* Whoever counts the challenges of a client or a wallet has its lock.
LEMMA OneIssues ==
  ASSUME CallsInv, NEW i \in DOMAIN calls, NEW j \in DOMAIN calls, i # j,
         calls[i].pc = "read", calls[j].pc = "read",
         calls[i].req.kind = "challenge", calls[j].req.kind = "challenge"
  PROVE  /\ calls[i].req.client # calls[j].req.client
         /\ calls[i].req.wallet # calls[j].req.wallet
<1>1. HeldBy(calls[i]) \cap HeldBy(calls[j]) = {}
  BY DEF CallsInv
<1>2. calls[i].req.client # calls[j].req.client
  BY <1>1, ReaderHolds
<1>3. calls[i].req.wallet # calls[j].req.wallet
  BY <1>1, ReaderHolds
<1> QED
  BY <1>2, <1>3

LEMMA RefusalKept ==
  ASSUME CallsInv, NEW i \in DOMAIN calls, calls[i].pc # "done",
         NEW e \in Errors, Refuse(i, e) \/ RollBack(i, e)
  PROVE  /\ CallsInv' /\ UNCHANGED <<workload, clock, intakeVars, reviewVars>>
         /\ OneMoved(i) /\ EndedStay /\ (\A k : Still(k)) /\ ViewsKept
         /\ calls'[i].req = calls[i].req /\ calls'[i].error = e
<1>1. /\ CallsInv' /\ UNCHANGED <<workload, clock, intakeVars, reviewVars>>
      /\ OneMoved(i) /\ EndedStay /\ \A k : Still(k)
      /\ calls'[i].pc = "done" /\ calls'[i].req = calls[i].req /\ calls'[i].error = e
  BY RefuseMoves
<1>2. ViewsKept
  BY <1>1, MovedViews DEF InHand
<1> QED
  BY <1>1, <1>2

LEMMA CountChallengesStep ==
  ASSUME CallsInv, ChallengesInv, NEW i \in DOMAIN calls, CountChallenges(i)
  PROVE  /\ CallsInv' /\ ChallengesInv'
         /\ UNCHANGED <<workload, clock, intakeVars, reviewVars>>
         /\ OneMoved(i) /\ EndedStay /\ (\A k : k # "challenge" => Still(k)) /\ ViewsKept
         /\ calls'[i].error # "storage"
<1> DEFINE r == calls[i].req
           recent == WithinMinute(challenges, calls[i].now)
<1>1. /\ calls[i].pc = "lock" /\ r.kind = "challenge" /\ Counting(i, "challenge")
      /\ IF \/ Cardinality({c \in recent : c.client = r.client}) >= ChallengeClientLimit
            \/ Cardinality({c \in recent : c.wallet = r.wallet}) >= ChallengeWalletLimit
         THEN RollBack(i, "challenge_limit")
         ELSE Proceed(i)
  BY DEF CountChallenges, Counting
<1>2. CASE RollBack(i, "challenge_limit")
  <2>1. "challenge_limit" \in Errors
    BY DEF Errors
  <2>2. /\ CallsInv' /\ UNCHANGED <<workload, clock, intakeVars, reviewVars>>
        /\ OneMoved(i) /\ EndedStay /\ (\A k : Still(k)) /\ ViewsKept
        /\ calls'[i].error = "challenge_limit"
    BY <1>1, <1>2, <2>1, RefusalKept
  <2>3. ChallengesInv'
    BY <2>2, OtherChallenges DEF intakeVars
  <2> QED
    BY <2>2, <2>3
<1>3. CASE /\ ~(Cardinality({c \in recent : c.client = r.client}) >= ChallengeClientLimit)
           /\ ~(Cardinality({c \in recent : c.wallet = r.wallet}) >= ChallengeWalletLimit)
           /\ Proceed(i)
  <2>1. /\ CallsInv' /\ UNCHANGED <<workload, clock, intakeVars, reviewVars>>
        /\ OneMoved(i) /\ EndedStay /\ \A k : k # "challenge" => Still(k)
        /\ calls'[i] = [calls[i] EXCEPT !.pc = "read"] /\ calls[i].error = "none"
    BY <1>1, <1>3, ProceedMoves
  <2>2. calls[i] \in CallState
    BY CallTyped
  <2>3. /\ calls'[i].req = r /\ calls'[i].now = calls[i].now /\ calls'[i].error = "none"
        /\ calls'[i].pc = "read"
    BY <2>1, <2>2 DEF CallState
  <2>4. /\ IsFiniteSet(OfClient(recent, r.client)) /\ IsFiniteSet(OfWallet(recent, r.wallet))
    BY FS_Subset DEF ChallengesInv, OfClient, OfWallet, WithinMinute
  <2>5. /\ Cardinality(OfClient(recent, r.client)) \in Nat
        /\ Cardinality(OfWallet(recent, r.wallet)) \in Nat
    BY <2>4, FS_CardinalityType
  <2>6. /\ Cardinality(OfClient(recent, r.client)) < ChallengeClientLimit
        /\ Cardinality(OfWallet(recent, r.wallet)) < ChallengeWalletLimit
    <3> DEFINE m == Cardinality(OfClient(recent, r.client))
               n == Cardinality(OfWallet(recent, r.wallet))
    <3>1. ~(m >= ChallengeClientLimit) /\ ~(n >= ChallengeWalletLimit)
      BY <1>3 DEF OfClient, OfWallet
    <3>2. m \in Nat /\ n \in Nat
      BY <2>5
    <3> HIDE DEF m, n
    <3>3. m < ChallengeClientLimit /\ n < ChallengeWalletLimit
      BY <3>1, <3>2, LimitsAssumption
    <3> QED
      BY <3>3 DEF m, n
  <2>7. UNCHANGED <<workload, challenges, sessions>>
    BY <2>1 DEF intakeVars
  <2>8. \A j \in DOMAIN calls' : RoomForChallenge(calls'[j], challenges)
    BY <2>1, <2>3, <2>6 DEF RoomForChallenge, OneMoved, ChallengesInv
  <2>9. ChallengeRow' = ChallengeRow /\ SessionRow' = SessionRow
    BY <2>7, ChallengeTypes
  <2>10. \A c \in challenges' : Ended(c.id, calls')
    BY <2>1, <2>7, EndedKept DEF ChallengesInv
  <2>11. \A s \in sessions' : /\ Ended(s.challenge, calls')
                              /\ \A c \in challenges' : c.id = s.challenge => c.consumed
    BY <2>1, <2>7, EndedKept DEF ChallengesInv
  <2>12. SessionOnce' /\ Limited(challenges') /\ challenges' \subseteq ChallengeRow'
         /\ IsFiniteSet(challenges') /\ sessions' \subseteq SessionRow'
    BY <2>7, <2>9 DEF SessionOnce, ChallengesInv
  <2>13. ChallengesInv'
    BY <2>7, <2>8, <2>10, <2>11, <2>12 DEF ChallengesInv
  <2>14. ViewsKept
    BY <1>1, <2>1, <2>3, MovedViews DEF InHand
  <2> QED
    BY <2>1, <2>3, <2>13, <2>14
<1> QED
  BY <1>1, <1>2, <1>3

\* The new challenge takes the room that was counted.
LEMMA LimitedGrows ==
  ASSUME CallsInv, ChallengesInv, NEW i \in DOMAIN calls,
         calls[i].pc = "read", calls[i].req.kind = "challenge",
         NEW K \in SUBSET challenges, NEW new,
         new.at = calls[i].now, new.client = calls[i].req.client,
         new.wallet = calls[i].req.wallet
  PROVE  Limited(K \cup {new})
<1> DEFINE r == calls[i].req
           T == challenges
           N == K \cup {new}
<1>1. RoomForChallenge(calls[i], T) /\ Limited(T) /\ IsFiniteSet(T)
  BY DEF ChallengesInv
<1>2. \A c \in T : c.at \in Nat
  BY DEF ChallengesInv, ChallengeRow
<1>3. new.at \in Nat
  BY CallTyped DEF CallState
<1>a. K \in SUBSET T
  OBVIOUS
<1>4. ChallengeClientLimit \in Nat /\ ChallengeWalletLimit \in Nat
  BY LimitsAssumption
<1>5. ASSUME NEW c \in N
      PROVE  Cardinality(OfClient(MinuteTo(N, c.at), c.client)) <= ChallengeClientLimit
  <2> DEFINE X == OfClient(T \cup {new}, c.client)
  <2>1. CASE c.client = r.client
    <3>1. WithinMinute(T, new.at) \cap X = OfClient(WithinMinute(T, calls[i].now), r.client)
      BY <2>1 DEF OfClient, WithinMinute
    <3>2. \A d \in T \cap X : MinuteTo(T, d.at) \cap X = OfClient(MinuteTo(T, d.at), d.client)
      BY DEF OfClient, MinuteTo
    <3>3. Cardinality(WithinMinute(T, new.at) \cap X) < ChallengeClientLimit
      BY <1>1, <3>1 DEF RoomForChallenge
    <3>4. InLimit(T, X, ChallengeClientLimit)
      BY <1>1, <3>2 DEF Limited, InLimit
    <3>5. c \in N \cap X /\ MinuteTo(N, c.at) \cap X = OfClient(MinuteTo(N, c.at), c.client)
      BY DEF OfClient, MinuteTo
    <3> HIDE DEF X, T
    <3>6. InLimit(K \cup {new}, X, ChallengeClientLimit)
      BY <1>1, <1>2, <1>3, <1>4, <1>a, <3>3, <3>4, RoomKept
    <3> QED
      BY <3>5, <3>6 DEF InLimit
  <2>2. CASE c.client # r.client
    <3>1. c \in T
      BY <2>2
    <3>2. /\ OfClient(MinuteTo(N, c.at), c.client) \subseteq OfClient(MinuteTo(T, c.at), c.client)
          /\ IsFiniteSet(OfClient(MinuteTo(T, c.at), c.client))
      BY <1>1, <2>2, FS_Subset DEF OfClient, MinuteTo
    <3>3. Cardinality(OfClient(MinuteTo(T, c.at), c.client)) <= ChallengeClientLimit
      BY <1>1, <3>1 DEF Limited
    <3> DEFINE A == OfClient(MinuteTo(T, c.at), c.client)
               B == OfClient(MinuteTo(N, c.at), c.client)
    <3>4. B \subseteq A /\ IsFiniteSet(A) /\ Cardinality(A) <= ChallengeClientLimit
      BY <3>2, <3>3
    <3> HIDE DEF A, B
    <3>5. Cardinality(B) <= ChallengeClientLimit
      BY <1>4, <3>4, FewerCount
    <3> QED
      BY <3>5 DEF B
  <2> QED
    BY <2>1, <2>2
<1>6. ASSUME NEW c \in N
      PROVE  Cardinality(OfWallet(MinuteTo(N, c.at), c.wallet)) <= ChallengeWalletLimit
  <2> DEFINE X == OfWallet(T \cup {new}, c.wallet)
  <2>1. CASE c.wallet = r.wallet
    <3>1. WithinMinute(T, new.at) \cap X = OfWallet(WithinMinute(T, calls[i].now), r.wallet)
      BY <2>1 DEF OfWallet, WithinMinute
    <3>2. \A d \in T \cap X : MinuteTo(T, d.at) \cap X = OfWallet(MinuteTo(T, d.at), d.wallet)
      BY DEF OfWallet, MinuteTo
    <3>3. Cardinality(WithinMinute(T, new.at) \cap X) < ChallengeWalletLimit
      BY <1>1, <3>1 DEF RoomForChallenge
    <3>4. InLimit(T, X, ChallengeWalletLimit)
      BY <1>1, <3>2 DEF Limited, InLimit
    <3>5. c \in N \cap X /\ MinuteTo(N, c.at) \cap X = OfWallet(MinuteTo(N, c.at), c.wallet)
      BY DEF OfWallet, MinuteTo
    <3> HIDE DEF X, T
    <3>6. InLimit(K \cup {new}, X, ChallengeWalletLimit)
      BY <1>1, <1>2, <1>3, <1>4, <1>a, <3>3, <3>4, RoomKept
    <3> QED
      BY <3>5, <3>6 DEF InLimit
  <2>2. CASE c.wallet # r.wallet
    <3>1. c \in T
      BY <2>2
    <3>2. /\ OfWallet(MinuteTo(N, c.at), c.wallet) \subseteq OfWallet(MinuteTo(T, c.at), c.wallet)
          /\ IsFiniteSet(OfWallet(MinuteTo(T, c.at), c.wallet))
      BY <1>1, <2>2, FS_Subset DEF OfWallet, MinuteTo
    <3>3. Cardinality(OfWallet(MinuteTo(T, c.at), c.wallet)) <= ChallengeWalletLimit
      BY <1>1, <3>1 DEF Limited
    <3> DEFINE A == OfWallet(MinuteTo(T, c.at), c.wallet)
               B == OfWallet(MinuteTo(N, c.at), c.wallet)
    <3>4. B \subseteq A /\ IsFiniteSet(A) /\ Cardinality(A) <= ChallengeWalletLimit
      BY <3>2, <3>3
    <3> HIDE DEF A, B
    <3>5. Cardinality(B) <= ChallengeWalletLimit
      BY <1>4, <3>4, FewerCount
    <3> QED
      BY <3>5 DEF B
  <2> QED
    BY <2>1, <2>2
<1> QED
  BY <1>5, <1>6 DEF Limited

LEMMA InsertChallengeStep ==
  ASSUME CallsInv, ChallengesInv, NEW i \in DOMAIN calls, InsertChallenge(i)
  PROVE  /\ CallsInv' /\ ChallengesInv'
         /\ UNCHANGED <<workload, clock, submissions, reviewVars>>
         /\ OneMoved(i) /\ EndedStay /\ (\A k : Still(k)) /\ ViewsKept
         /\ calls'[i].error # "storage"
<1> DEFINE r == calls[i].req
           now == calls[i].now
           K == {c \in challenges : c.expires >= now - Day}
           new == [id |-> i, wallet |-> r.wallet, client |-> r.client,
                   at |-> now, expires |-> now + ChallengeTtl, consumed |-> FALSE]
<1>1. /\ calls[i].pc = "read" /\ r.kind = "challenge"
      /\ challenges' = K \cup {new}
      /\ Finish(i, 201, "none")
      /\ UNCHANGED <<workload, clock, sessions, submissions, reviewVars>>
  BY DEF InsertChallenge, Counted
<1>2. /\ CallsInv' /\ OneMoved(i) /\ EndedStay /\ (\A k : Still(k))
      /\ calls'[i].pc = "done" /\ calls'[i].error = "none"
  BY <1>1, Ends
<1>3. ViewsKept
  BY <1>2, MovedViews DEF InHand
<1>4. /\ calls[i] \in CallState /\ i \in Numbers /\ r \in Requests
  BY CallTyped
<1>5. r.wallet \in STRING /\ r.client \in STRING /\ now \in Nat
  BY <1>1, <1>4, RequestTyped DEF CallsInv, CallState
<1>6. new \in ChallengeRow
  BY <1>4, <1>5, ClockAssumption DEF ChallengeRow
<1>7. ChallengeRow' = ChallengeRow /\ SessionRow' = SessionRow
  BY <1>1, ChallengeTypes
<1>8. K \subseteq challenges /\ IsFiniteSet(K)
  BY FS_Subset DEF ChallengesInv
<1>9. /\ challenges' \subseteq ChallengeRow' /\ IsFiniteSet(challenges')
      /\ sessions' \subseteq SessionRow'
  BY <1>1, <1>6, <1>7, <1>8, FS_AddElement DEF ChallengesInv
<1>10. /\ new.at = calls[i].now /\ new.client = r.client /\ new.wallet = r.wallet /\ new.id = i
       /\ new.consumed = FALSE
  OBVIOUS
<1> HIDE DEF K, new
<1>11. Limited(challenges')
  BY <1>1, <1>8, <1>10, LimitedGrows
<1>12. i \in DOMAIN calls' /\ Ended(i, calls') /\ ~Ended(i, calls)
  BY <1>1, <1>2 DEF Ended, OneMoved
<1>13. \A c \in challenges' : Ended(c.id, calls')
  BY <1>1, <1>2, <1>8, <1>10, <1>12, EndedKept DEF ChallengesInv
<1>14. \A s \in sessions' : /\ Ended(s.challenge, calls')
                            /\ \A c \in challenges' : c.id = s.challenge => c.consumed
  <2> SUFFICES ASSUME NEW s \in sessions
               PROVE  /\ Ended(s.challenge, calls')
                      /\ \A c \in challenges' : c.id = s.challenge => c.consumed
    BY <1>1
  <2>1. /\ Ended(s.challenge, calls)
        /\ \A c \in challenges : c.id = s.challenge => c.consumed
    BY DEF ChallengesInv
  <2>2. s.challenge # i
    BY <1>12, <2>1
  <2> QED
    BY <1>1, <1>2, <1>8, <1>10, <2>1, <2>2, EndedKept
<1>15. SessionOnce'
  BY <1>1 DEF SessionOnce, ChallengesInv
<1>16. \A j \in DOMAIN calls' : RoomForChallenge(calls'[j], challenges')
  <2> SUFFICES ASSUME NEW j \in DOMAIN calls', calls'[j].pc = "read",
                      calls'[j].req.kind = "challenge"
               PROVE  RoomForChallenge(calls'[j], challenges')
    BY DEF RoomForChallenge
  <2>1. j # i /\ j \in DOMAIN calls /\ calls'[j] = calls[j]
    BY <1>2 DEF OneMoved
  <2>2. calls[j].req.client # r.client /\ calls[j].req.wallet # r.wallet
    BY <1>1, <2>1, OneIssues
  <2> DEFINE q == calls[j].req
             at == calls[j].now
  <2>3. /\ OfClient(WithinMinute(challenges', at), q.client)
             \subseteq OfClient(WithinMinute(challenges, at), q.client)
        /\ OfWallet(WithinMinute(challenges', at), q.wallet)
             \subseteq OfWallet(WithinMinute(challenges, at), q.wallet)
    BY <1>1, <1>8, <1>10, <2>2 DEF OfClient, OfWallet, WithinMinute
  <2>4. /\ IsFiniteSet(OfClient(WithinMinute(challenges, at), q.client))
        /\ IsFiniteSet(OfWallet(WithinMinute(challenges, at), q.wallet))
    BY FS_Subset DEF OfClient, OfWallet, WithinMinute, ChallengesInv
  <2>5. /\ Cardinality(OfClient(WithinMinute(challenges, at), q.client)) < ChallengeClientLimit
        /\ Cardinality(OfWallet(WithinMinute(challenges, at), q.wallet)) < ChallengeWalletLimit
    BY <2>1 DEF ChallengesInv, RoomForChallenge
  <2>6. Cardinality(OfClient(WithinMinute(challenges', at), q.client)) < ChallengeClientLimit
    BY <2>3, <2>4, <2>5, FewerCount, LimitsAssumption
  <2>7. Cardinality(OfWallet(WithinMinute(challenges', at), q.wallet)) < ChallengeWalletLimit
    BY <2>3, <2>4, <2>5, FewerCount, LimitsAssumption
  <2> QED
    BY <2>1, <2>6, <2>7 DEF RoomForChallenge
<1>17. ChallengesInv'
  BY <1>9, <1>11, <1>13, <1>14, <1>15, <1>16 DEF ChallengesInv
<1> QED
  BY <1>1, <1>2, <1>3, <1>17

LEMMA SessionRequests ==
  ASSUME CallsInv, NEW i \in DOMAIN calls, calls[i].pc \in {"get", "consume"}
  PROVE  calls[i].taken = 0 /\ calls[i].error = "none"
BY CallTyped DEF CallSound

LEMMA VerifyChallengeStep ==
  ASSUME CallsInv, ChallengesInv, NEW i \in DOMAIN calls, VerifyChallenge(i)
  PROVE  /\ CallsInv' /\ ChallengesInv'
         /\ UNCHANGED <<workload, clock, intakeVars, reviewVars>>
         /\ OneMoved(i) /\ EndedStay /\ (\A k : Still(k)) /\ ViewsKept
         /\ calls'[i].error # "storage"
<1> DEFINE d == [calls[i] EXCEPT !.pc = "consume", !.now = clock]
<1>1. calls[i].pc = "get"
  BY DEF VerifyChallenge
<1>2. CASE Refuse(i, "challenge_used")
  <2>1. "challenge_used" \in Errors
    BY DEF Errors
  <2>2. /\ CallsInv' /\ UNCHANGED <<workload, clock, intakeVars, reviewVars>>
        /\ OneMoved(i) /\ EndedStay /\ (\A k : Still(k)) /\ ViewsKept
        /\ calls'[i].error = "challenge_used"
    BY <1>1, <1>2, <2>1, RefusalKept
  <2>3. ChallengesInv'
    BY <2>2, OtherChallenges DEF intakeVars
  <2> QED
    BY <2>2, <2>3
<1>3. CASE calls' = [calls EXCEPT ![i] = d] /\ UNCHANGED <<workload, clock, intakeVars, reviewVars>>
  <2>1. /\ d \in CallState /\ d.pc = "consume" /\ d.req = calls[i].req
        /\ d.taken = calls[i].taken /\ d.error = calls[i].error
    <3> DEFINE s == calls[i]
               e == [s EXCEPT !.pc = "consume"]
    <3>1. d = [e EXCEPT !.now = clock]
      OBVIOUS
    <3>2. s \in CallState
      BY CallTyped
    <3> HIDE DEF s
    <3>3. /\ e \in CallState /\ e.pc = "consume" /\ e.req = s.req
          /\ e.taken = s.taken /\ e.error = s.error
      BY <3>2 DEF CallState
    <3> HIDE DEF e
    <3>4. LET f == [e EXCEPT !.now = clock]
          IN  /\ f \in CallState /\ f.pc = e.pc /\ f.req = e.req
              /\ f.taken = e.taken /\ f.error = e.error
      BY <3>3, ClockTyped DEF CallState
    <3> QED
      BY <3>1, <3>3, <3>4 DEF s
  <2>2. calls[i].taken = 0 /\ calls[i].error = "none"
    BY <1>1, SessionRequests
  <2> HIDE DEF d
  <2>3. /\ CallsInv' /\ OneMoved(i) /\ EndedStay /\ calls'[i] = d
        /\ \A k : d.pc # "read" \/ d.req.kind # k => Still(k)
    BY <1>1, <1>3, <2>1, <2>2, GoesOn
  <2>4. \A k : Still(k)
    BY <2>1, <2>3
  <2>5. ViewsKept
    BY <2>1, <2>3, MovedViews DEF InHand
  <2>6. ChallengesInv'
    BY <1>3, <2>3, <2>4, OtherChallenges DEF intakeVars
  <2> QED
    BY <1>3, <2>1, <2>2, <2>3, <2>4, <2>5, <2>6
<1> QED
  BY <1>2, <1>3 DEF VerifyChallenge

\* A row that is consumed keeps the columns that are counted.
LEMMA ConsumedRow ==
  ASSUME NEW c \in ChallengeRow
  PROVE  LET d == [c EXCEPT !.consumed = TRUE]
         IN  /\ d \in ChallengeRow /\ d.id = c.id /\ d.wallet = c.wallet /\ d.client = c.client
             /\ d.at = c.at /\ d.consumed = TRUE
BY DEF ChallengeRow

\* The row is marked and the session stored in one transaction, so that no
\* other session can follow.
LEMMA ConsumeChallengeStep ==
  ASSUME CallsInv, ChallengesInv, NEW i \in DOMAIN calls, ConsumeChallenge(i)
  PROVE  /\ CallsInv' /\ ChallengesInv'
         /\ UNCHANGED <<workload, clock, submissions, reviewVars>>
         /\ OneMoved(i) /\ EndedStay /\ (\A k : Still(k)) /\ ViewsKept
         /\ calls'[i].error # "storage"
<1> DEFINE r == calls[i].req
           now == calls[i].now
           rows == {c \in challenges : c.id = r.challenge}
           spendable == {c \in rows : c.wallet = r.signedBy /\ Consumable(c, now)}
           f == [c \in challenges |-> IF c.id = r.challenge THEN [c EXCEPT !.consumed = TRUE]
                                      ELSE c]
           new == [challenge |-> r.challenge, by |-> i, wallet |-> r.signedBy,
                   until |-> now + SessionTtl]
<1>1. calls[i].pc = "consume"
  BY DEF ConsumeChallenge
<1>2. CASE RollBack(i, "challenge_used")
  <2>1. "challenge_used" \in Errors
    BY DEF Errors
  <2>2. /\ CallsInv' /\ UNCHANGED <<workload, clock, intakeVars, reviewVars>>
        /\ OneMoved(i) /\ EndedStay /\ (\A k : Still(k)) /\ ViewsKept
        /\ calls'[i].error = "challenge_used"
    BY <1>1, <1>2, <2>1, RefusalKept
  <2>3. ChallengesInv'
    BY <2>2, OtherChallenges DEF intakeVars
  <2> QED
    BY <2>2, <2>3 DEF intakeVars
<1>3. CASE /\ spendable # {}
           /\ challenges' = (challenges \ rows) \cup {[c EXCEPT !.consumed = TRUE] : c \in spendable}
           /\ sessions' = sessions \cup {new}
           /\ Finish(i, 200, "none")
           /\ UNCHANGED <<workload, clock, submissions, reviewVars>>
  <2>1. /\ CallsInv' /\ OneMoved(i) /\ EndedStay /\ (\A k : Still(k))
        /\ calls'[i].pc = "done" /\ calls'[i].error = "none"
    BY <1>1, <1>3, Ends
  <2>2. ViewsKept
    BY <2>1, MovedViews DEF InHand
  <2>3. PICK c0 \in challenges : c0.id = r.challenge /\ c0.wallet = r.signedBy /\ ~c0.consumed
    BY <1>3 DEF Consumable
  <2>4. challenges \subseteq ChallengeRow /\ IsFiniteSet(challenges)
    BY DEF ChallengesInv
  <2>5. \A c \in challenges :
          LET d == [c EXCEPT !.consumed = TRUE]
          IN  /\ d \in ChallengeRow /\ d.id = c.id /\ d.wallet = c.wallet
              /\ d.client = c.client /\ d.at = c.at /\ d.consumed = TRUE
    BY <2>4, ConsumedRow
  <2>6. \A c \in challenges :
          /\ f[c] \in ChallengeRow /\ f[c].id = c.id /\ f[c].wallet = c.wallet
          /\ f[c].client = c.client /\ f[c].at = c.at
          /\ c.id = r.challenge => f[c].consumed
          /\ c.id # r.challenge => f[c].consumed = c.consumed
    BY <2>4, <2>5
  <2>7. \A d \in challenges' : \E c \in challenges : d = f[c]
    BY <1>3
  <2>a. From(challenges', challenges, f)
    BY <2>7 DEF From
  <2> HIDE DEF f
  <2>8. IsFiniteSet(challenges')
    BY <2>4, <2>a, ImageCount
  <2>9. ChallengeRow' = ChallengeRow /\ SessionRow' = SessionRow
    BY <1>3, ChallengeTypes
  <2>10. challenges' \subseteq ChallengeRow'
    BY <2>6, <2>7, <2>9
  <2>11. new \in SessionRow
    <3>1. r.challenge \in Numbers /\ r.signedBy \in STRING
      BY <2>3, <2>4 DEF ChallengeRow
    <3>2. now \in Nat /\ i \in Numbers
      BY CallTyped DEF CallState
    <3> QED
      BY <3>1, <3>2, ClockAssumption DEF SessionRow
  <2>12. sessions' \subseteq SessionRow'
    BY <1>3, <2>9, <2>11 DEF ChallengesInv
  <2>13. \A c \in challenges' : Ended(c.id, calls')
    BY <2>1, <2>6, <2>7, EndedKept DEF ChallengesInv
  <2>14. \A s \in sessions : s.challenge # r.challenge
    BY <2>3 DEF ChallengesInv
  <2>15. \A s \in sessions' : /\ Ended(s.challenge, calls')
                              /\ \A c \in challenges' : c.id = s.challenge => c.consumed
    <3> SUFFICES ASSUME NEW s \in sessions'
                 PROVE  /\ Ended(s.challenge, calls')
                        /\ \A c \in challenges' : c.id = s.challenge => c.consumed
      OBVIOUS
    <3>1. CASE s \in sessions
      <4>1. /\ Ended(s.challenge, calls) /\ s.challenge # r.challenge
            /\ \A c \in challenges : c.id = s.challenge => c.consumed
        BY <2>14, <3>1 DEF ChallengesInv
      <4> QED
        BY <2>1, <2>6, <2>7, <4>1, EndedKept
    <3>2. CASE s = new
      <4>1. s.challenge = r.challenge
        BY <3>2
      <4>2. Ended(r.challenge, calls)
        BY <2>3 DEF ChallengesInv
      <4> QED
        BY <2>1, <2>6, <2>7, <4>1, <4>2, EndedKept
    <3> QED
      BY <1>3, <3>1, <3>2
  <2>16. SessionOnce'
    BY <1>3, <2>14 DEF SessionOnce, ChallengesInv
  <2>17. ASSUME NEW at, NEW x
         PROVE  /\ NoMore(OfClient(MinuteTo(challenges', at), x),
                          OfClient(MinuteTo(challenges, at), x))
                /\ NoMore(OfClient(WithinMinute(challenges', at), x),
                          OfClient(WithinMinute(challenges, at), x))
    <3> DEFINE X == OfClient(challenges, x)
               Y == OfClient(challenges', x)
    <3>1. /\ OfClient(MinuteTo(challenges', at), x) = MinuteTo(challenges', at) \cap Y
          /\ OfClient(MinuteTo(challenges, at), x) = MinuteTo(challenges, at) \cap X
          /\ OfClient(WithinMinute(challenges', at), x) = WithinMinute(challenges', at) \cap Y
          /\ OfClient(WithinMinute(challenges, at), x) = WithinMinute(challenges, at) \cap X
      BY DEF OfClient, MinuteTo, WithinMinute
    <3>2. \A c \in challenges : f[c] \in Y => c \in X
      BY <2>6 DEF OfClient
    <3>3. \A c \in challenges : f[c].at = c.at
      BY <2>6
    <3> HIDE DEF X, Y
    <3>4. /\ NoMore(MinuteTo(challenges', at) \cap Y, MinuteTo(challenges, at) \cap X)
          /\ NoMore(WithinMinute(challenges', at) \cap Y, WithinMinute(challenges, at) \cap X)
      BY <2>4, <2>a, <3>2, <3>3, ChangedCount
    <3> QED
      BY <3>1, <3>4
  <2>18. ASSUME NEW at, NEW x
         PROVE  /\ NoMore(OfWallet(MinuteTo(challenges', at), x),
                          OfWallet(MinuteTo(challenges, at), x))
                /\ NoMore(OfWallet(WithinMinute(challenges', at), x),
                          OfWallet(WithinMinute(challenges, at), x))
    <3> DEFINE X == OfWallet(challenges, x)
               Y == OfWallet(challenges', x)
    <3>1. /\ OfWallet(MinuteTo(challenges', at), x) = MinuteTo(challenges', at) \cap Y
          /\ OfWallet(MinuteTo(challenges, at), x) = MinuteTo(challenges, at) \cap X
          /\ OfWallet(WithinMinute(challenges', at), x) = WithinMinute(challenges', at) \cap Y
          /\ OfWallet(WithinMinute(challenges, at), x) = WithinMinute(challenges, at) \cap X
      BY DEF OfWallet, MinuteTo, WithinMinute
    <3>2. \A c \in challenges : f[c] \in Y => c \in X
      BY <2>6 DEF OfWallet
    <3>3. \A c \in challenges : f[c].at = c.at
      BY <2>6
    <3> HIDE DEF X, Y
    <3>4. /\ NoMore(MinuteTo(challenges', at) \cap Y, MinuteTo(challenges, at) \cap X)
          /\ NoMore(WithinMinute(challenges', at) \cap Y, WithinMinute(challenges, at) \cap X)
      BY <2>4, <2>a, <3>2, <3>3, ChangedCount
    <3> QED
      BY <3>1, <3>4
  <2>19. Limited(challenges')
    <3> SUFFICES ASSUME NEW d \in challenges'
                 PROVE  /\ Cardinality(OfClient(MinuteTo(challenges', d.at), d.client)) <= ChallengeClientLimit
                        /\ Cardinality(OfWallet(MinuteTo(challenges', d.at), d.wallet)) <= ChallengeWalletLimit
      BY DEF Limited
    <3>1. PICK c \in challenges : d = f[c]
      BY <2>7
    <3>2. d.at = c.at /\ d.client = c.client /\ d.wallet = c.wallet
      BY <2>6, <3>1
    <3>3. /\ Cardinality(OfClient(MinuteTo(challenges, c.at), c.client)) <= ChallengeClientLimit
          /\ Cardinality(OfWallet(MinuteTo(challenges, c.at), c.wallet)) <= ChallengeWalletLimit
      BY DEF ChallengesInv, Limited
    <3>4. Cardinality(OfClient(MinuteTo(challenges', d.at), d.client)) <= ChallengeClientLimit
      BY <2>17, <3>2, <3>3, LimitsAssumption DEF NoMore
    <3>5. Cardinality(OfWallet(MinuteTo(challenges', d.at), d.wallet)) <= ChallengeWalletLimit
      BY <2>18, <3>2, <3>3, LimitsAssumption DEF NoMore
    <3> QED
      BY <3>4, <3>5
  <2>20. \A j \in DOMAIN calls' : RoomForChallenge(calls'[j], challenges')
    <3> SUFFICES ASSUME NEW j \in DOMAIN calls', calls'[j].pc = "read",
                        calls'[j].req.kind = "challenge"
                 PROVE  RoomForChallenge(calls'[j], challenges')
      BY DEF RoomForChallenge
    <3>1. j \in DOMAIN calls /\ calls'[j] = calls[j]
      BY <2>1 DEF Still
    <3> DEFINE q == calls[j].req
               at == calls[j].now
    <3>2. /\ Cardinality(OfClient(WithinMinute(challenges, at), q.client)) < ChallengeClientLimit
          /\ Cardinality(OfWallet(WithinMinute(challenges, at), q.wallet)) < ChallengeWalletLimit
      BY <3>1 DEF ChallengesInv, RoomForChallenge
    <3>3. Cardinality(OfClient(WithinMinute(challenges', at), q.client)) < ChallengeClientLimit
      BY <2>17, <3>2, LimitsAssumption DEF NoMore
    <3>4. Cardinality(OfWallet(WithinMinute(challenges', at), q.wallet)) < ChallengeWalletLimit
      BY <2>18, <3>2, LimitsAssumption DEF NoMore
    <3> QED
      BY <3>1, <3>3, <3>4 DEF RoomForChallenge
  <2>21. ChallengesInv'
    BY <2>8, <2>10, <2>12, <2>13, <2>15, <2>16, <2>19, <2>20 DEF ChallengesInv
  <2> QED
    BY <1>3, <2>1, <2>2, <2>21
<1> QED
  BY <1>2, <1>3 DEF ConsumeChallenge

LEMMA ChallengesShow ==
  ASSUME ChallengesInv
  PROVE  ChallengeLimits
BY DEF ChallengesInv, Limited, ChallengeLimits, OfClient, OfWallet, MinuteTo

-----------------------------------------------------------------------------
(* Sponsored preparations *)

SubmissionRow == [id : Numbers, wallet : STRING, client : STRING, key : STRING,
                  claim : STRING, quota : Nat, at : Nat,
                  state : {"unsigned", "signed", "ended"}]

Closed(s, w, now) ==
  IF s.wallet = w /\ s.state = "unsigned" /\ s.at + Lease < now
  THEN [s EXCEPT !.state = "ended"] ELSE s

\* The rows of a wallet as a preparation sees them.
MineOf(T, w, now) == {Closed(s, w, now) : s \in OfWallet(T, w)}

TodayOf(T, now) == {s \in T : Today(s, now)}
DayOf(T, at) == {t \in T : t.at \div Day = at \div Day}

Sponsored(T) ==
  \A s \in T :
    /\ Cardinality(OfWallet(MinuteTo(T, s.at), s.wallet)) <= ClaimantLimit
    /\ \E t \in OfWallet(DayOf(T, s.at), s.wallet) :
         Cardinality(OfWallet(DayOf(T, s.at), s.wallet)) <= t.quota

\* There is room for the preparation that is about to be inserted.
RoomForWork(c, T) ==
  c.pc = "read" /\ c.req.kind = "prepare" =>
    /\ Cardinality(WithinMinute(MineOf(T, c.req.wallet, c.now), c.now)) < ClaimantLimit
    /\ Cardinality(TodayOf(MineOf(T, c.req.wallet, c.now), c.now)) < c.req.policy.quota
    /\ \A s \in MineOf(T, c.req.wallet, c.now) : s.key # c.req.key /\ s.state = "ended"

SubmissionsInv ==
  /\ submissions \subseteq SubmissionRow /\ IsFiniteSet(submissions)
  /\ Sponsored(submissions)
  /\ \A i \in DOMAIN calls : RoomForWork(calls[i], submissions)

LEMMA SubmissionTypes ==
  ASSUME UNCHANGED workload
  PROVE  SubmissionRow' = SubmissionRow
BY WorkloadKept DEF SubmissionRow

\* The rows of the wallets that others prepare for stay.
RowsKept ==
  \A j \in DOMAIN calls' :
    calls'[j].pc = "read" /\ calls'[j].req.kind = "prepare"
      => OfWallet(submissions', calls'[j].req.wallet) = OfWallet(submissions, calls'[j].req.wallet)

LEMMA RoomForOthers ==
  ASSUME SubmissionsInv, Still("prepare"), RowsKept
  PROVE  \A j \in DOMAIN calls' : RoomForWork(calls'[j], submissions')
<1> SUFFICES ASSUME NEW j \in DOMAIN calls', calls'[j].pc = "read",
                    calls'[j].req.kind = "prepare"
             PROVE  RoomForWork(calls'[j], submissions')
  BY DEF RoomForWork
<1>1. j \in DOMAIN calls /\ calls'[j] = calls[j]
  BY DEF Still
<1>2. OfWallet(submissions', calls'[j].req.wallet) = OfWallet(submissions, calls'[j].req.wallet)
  BY DEF RowsKept
<1>3. \A now : MineOf(submissions', calls'[j].req.wallet, now)
                 = MineOf(submissions, calls'[j].req.wallet, now)
  BY <1>2 DEF MineOf
<1> QED
  BY <1>1, <1>3 DEF RoomForWork, SubmissionsInv

LEMMA OtherSubmissions ==
  ASSUME SubmissionsInv, UNCHANGED <<workload, submissions>>, Still("prepare")
  PROVE  SubmissionsInv'
<1>1. SubmissionRow' = SubmissionRow
  BY SubmissionTypes
<1>2. RowsKept
  BY DEF RowsKept
<1>3. \A j \in DOMAIN calls' : RoomForWork(calls'[j], submissions')
  BY <1>2, RoomForOthers
<1> QED
  BY <1>1, <1>3 DEF SubmissionsInv

\* What changes the state of rows sponsors no more of them.
StateChanged(U, T, f) ==
  \A s \in T : /\ f[s] \in U /\ f[s] \in SubmissionRow
               /\ f[s].wallet = s.wallet /\ f[s].at = s.at /\ f[s].quota = s.quota

LEMMA SponsoredChanges ==
  ASSUME NEW T, T \subseteq SubmissionRow, IsFiniteSet(T), Sponsored(T), NEW f, NEW U,
         From(U, T, f), StateChanged(U, T, f)
  PROVE  U \subseteq SubmissionRow /\ IsFiniteSet(U) /\ Sponsored(U)
<1>1. U \subseteq SubmissionRow /\ IsFiniteSet(U)
  BY ImageCount DEF From, StateChanged
<1>a. \A s \in T : /\ f[s] \in U /\ f[s].wallet = s.wallet /\ f[s].at = s.at
                   /\ f[s].quota = s.quota
  BY DEF StateChanged
<1>b. \A u \in U : \E s \in T : u = f[s]
  BY DEF From
<1>2. ASSUME NEW u \in U
      PROVE  /\ Cardinality(OfWallet(MinuteTo(U, u.at), u.wallet)) <= ClaimantLimit
             /\ \E t \in OfWallet(DayOf(U, u.at), u.wallet) :
                  Cardinality(OfWallet(DayOf(U, u.at), u.wallet)) <= t.quota
  <2>1. PICK s \in T : u = f[s]
    BY <1>b
  <2>2. u.wallet = s.wallet /\ u.at = s.at
    BY <1>a, <2>1
  <2> DEFINE A == OfWallet(MinuteTo(T, s.at), s.wallet)
             B == OfWallet(MinuteTo(U, u.at), u.wallet)
             C == OfWallet(DayOf(T, s.at), s.wallet)
             D == OfWallet(DayOf(U, u.at), u.wallet)
  <2>3. IsFiniteSet(A) /\ IsFiniteSet(C)
    BY FS_Subset DEF OfWallet, MinuteTo, DayOf
  <2>4. From(B, A, f)
    BY <1>a, <1>b, <2>2 DEF From, OfWallet, MinuteTo
  <2>5. From(D, C, f)
    BY <1>a, <1>b, <2>2 DEF From, OfWallet, DayOf
  <2>6. \A y \in C : f[y] \in D /\ f[y].quota = y.quota /\ y.quota \in Nat
    BY <1>a, <2>2 DEF OfWallet, DayOf, SubmissionRow
  <2>7. Cardinality(A) <= ClaimantLimit /\ \E t \in C : Cardinality(C) <= t.quota
    BY DEF Sponsored
  <2> HIDE DEF A, B, C, D
  <2>8. NoMore(B, A) /\ NoMore(D, C)
    <3>1. NoMore(B, A)
      BY <2>3, <2>4, ImageCount
    <3>2. NoMore(D, C)
      BY <2>3, <2>5, ImageCount
    <3> QED
      BY <3>1, <3>2
  <2>9. Cardinality(B) <= ClaimantLimit
    BY <2>7, <2>8, LimitsAssumption DEF NoMore
  <2>10. PICK t \in C : Cardinality(C) <= t.quota
    BY <2>7
  <2>11. f[t] \in D /\ Cardinality(D) <= f[t].quota
    BY <2>6, <2>8, <2>10 DEF NoMore
  <2> QED
    BY <2>9, <2>11 DEF B, D
<1> QED
  BY <1>1, <1>2 DEF Sponsored

\* Closing what has expired touches the wallet's own rows only.
LEMMA ReclaimedRows ==
  ASSUME SubmissionsInv, NEW w, NEW now
  PROVE  /\ Reclaimed(w, now) \subseteq SubmissionRow /\ IsFiniteSet(Reclaimed(w, now))
         /\ Sponsored(Reclaimed(w, now))
         /\ OfWallet(Reclaimed(w, now), w) = MineOf(submissions, w, now)
         /\ \A x : x # w => OfWallet(Reclaimed(w, now), x) = OfWallet(submissions, x)
<1> DEFINE f == [s \in submissions |-> Closed(s, w, now)]
           U == Reclaimed(w, now)
<1>1. submissions \subseteq SubmissionRow /\ IsFiniteSet(submissions) /\ Sponsored(submissions)
  BY DEF SubmissionsInv
<1>2. U = {Closed(s, w, now) : s \in submissions}
  BY DEF Reclaimed, Closed
<1>3. \A s \in submissions :
        /\ Closed(s, w, now) \in SubmissionRow /\ Closed(s, w, now).wallet = s.wallet
        /\ Closed(s, w, now).at = s.at /\ Closed(s, w, now).quota = s.quota
        /\ s.wallet # w => Closed(s, w, now) = s
  <2> SUFFICES ASSUME NEW s \in SubmissionRow
               PROVE  /\ Closed(s, w, now) \in SubmissionRow /\ Closed(s, w, now).wallet = s.wallet
                      /\ Closed(s, w, now).at = s.at /\ Closed(s, w, now).quota = s.quota
                      /\ s.wallet # w => Closed(s, w, now) = s
    BY <1>1
  <2> DEFINE e == [s EXCEPT !.state = "ended"]
  <2>1. /\ e \in SubmissionRow /\ e.wallet = s.wallet /\ e.at = s.at /\ e.quota = s.quota
    BY DEF SubmissionRow
  <2>2. Closed(s, w, now) = s \/ (s.wallet = w /\ Closed(s, w, now) = e)
    BY DEF Closed
  <2> HIDE DEF e
  <2> QED
    BY <2>1, <2>2
<1>4. From(U, submissions, f) /\ StateChanged(U, submissions, f)
  BY <1>2, <1>3 DEF From, StateChanged
<1>5. OfWallet(U, w) = MineOf(submissions, w, now)
  BY <1>2, <1>3 DEF OfWallet, MineOf
<1>6. ASSUME NEW x, x # w
      PROVE  OfWallet(U, x) = OfWallet(submissions, x)
  BY <1>2, <1>3, <1>6 DEF OfWallet
<1> HIDE DEF f, U
<1>7. U \subseteq SubmissionRow /\ IsFiniteSet(U) /\ Sponsored(U)
  BY <1>1, <1>4, SponsoredChanges
<1> QED
  BY <1>5, <1>6, <1>7 DEF U

LEMMA MineKnown ==
  ASSUME SubmissionsInv, NEW i
  PROVE  Mine(i) = MineOf(submissions, calls[i].req.wallet, calls[i].now)
BY ReclaimedRows DEF Mine, OfWallet

\* Whoever prepares for a wallet has its lock.
LEMMA OnePrepares ==
  ASSUME CallsInv, NEW i \in DOMAIN calls, NEW j \in DOMAIN calls, i # j,
         calls[i].pc = "read" \/ calls[i].taken = Len(LocksOf(calls[i].req)),
         calls[j].pc = "read",
         calls[i].req.kind = "prepare", calls[j].req.kind = "prepare"
  PROVE  calls[i].req.wallet # calls[j].req.wallet
<1>1. HeldBy(calls[i]) \cap HeldBy(calls[j]) = {}
  BY DEF CallsInv
<1> QED
  BY <1>1, ReaderHolds

LEMMA ReturnExistingStep ==
  ASSUME CallsInv, SubmissionsInv, NEW i \in DOMAIN calls, ReturnExisting(i)
  PROVE  /\ CallsInv' /\ SubmissionsInv'
         /\ UNCHANGED <<workload, clock, challenges, sessions, reviewVars>>
         /\ OneMoved(i) /\ EndedStay /\ (\A k : Still(k)) /\ ViewsKept
         /\ calls'[i].error # "storage"
<1> DEFINE w == calls[i].req.wallet
           now == calls[i].now
<1>1. /\ calls[i].pc = "lock" /\ calls[i].req.kind = "prepare"
      /\ calls[i].taken = Len(LocksOf(calls[i].req))
      /\ submissions' = Reclaimed(w, now)
      /\ Finish(i, 201, "none")
      /\ UNCHANGED <<workload, clock, challenges, sessions, reviewVars>>
  BY DEF ReturnExisting, Counting
<1>2. /\ CallsInv' /\ OneMoved(i) /\ EndedStay /\ (\A k : Still(k))
      /\ calls'[i].pc = "done" /\ calls'[i].error = "none"
  BY <1>1, Ends
<1>3. ViewsKept
  BY <1>2, MovedViews DEF InHand
<1>4. /\ submissions' \subseteq SubmissionRow /\ IsFiniteSet(submissions')
      /\ Sponsored(submissions')
      /\ \A x : x # w => OfWallet(submissions', x) = OfWallet(submissions, x)
  BY <1>1, ReclaimedRows
<1>5. RowsKept
  <2> SUFFICES ASSUME NEW j \in DOMAIN calls', calls'[j].pc = "read",
                      calls'[j].req.kind = "prepare"
               PROVE  OfWallet(submissions', calls'[j].req.wallet)
                        = OfWallet(submissions, calls'[j].req.wallet)
    BY DEF RowsKept
  <2>1. j # i /\ j \in DOMAIN calls /\ calls'[j] = calls[j]
    BY <1>2 DEF OneMoved
  <2>2. calls[j].req.wallet # w
    BY <1>1, <2>1, OnePrepares
  <2> QED
    BY <1>4, <2>1, <2>2
<1>6. \A j \in DOMAIN calls' : RoomForWork(calls'[j], submissions')
  BY <1>2, <1>5, RoomForOthers
<1>7. SubmissionRow' = SubmissionRow
  BY <1>1, SubmissionTypes
<1> QED
  BY <1>1, <1>2, <1>3, <1>4, <1>6, <1>7 DEF SubmissionsInv

LEMMA RefuseConflictStep ==
  ASSUME CallsInv, SubmissionsInv, NEW i \in DOMAIN calls, RefuseConflict(i)
  PROVE  /\ CallsInv' /\ SubmissionsInv'
         /\ UNCHANGED <<workload, clock, intakeVars, reviewVars>>
         /\ OneMoved(i) /\ EndedStay /\ (\A k : Still(k)) /\ ViewsKept
         /\ calls'[i].error # "storage"
<1>1. calls[i].pc = "lock" /\ RollBack(i, "conflict")
  BY DEF RefuseConflict, Counting
<1>2. "conflict" \in Errors
  BY DEF Errors
<1>3. /\ CallsInv' /\ UNCHANGED <<workload, clock, intakeVars, reviewVars>>
      /\ OneMoved(i) /\ EndedStay /\ (\A k : Still(k)) /\ ViewsKept
      /\ calls'[i].error = "conflict"
  BY <1>1, <1>2, RefusalKept
<1>4. SubmissionsInv'
  BY <1>3, OtherSubmissions DEF intakeVars
<1> QED
  BY <1>3, <1>4

LEMMA CheckLimitsStep ==
  ASSUME CallsInv, SubmissionsInv, NEW i \in DOMAIN calls, CheckLimits(i)
  PROVE  /\ CallsInv' /\ SubmissionsInv'
         /\ UNCHANGED <<workload, clock, intakeVars, reviewVars>>
         /\ OneMoved(i) /\ EndedStay /\ (\A k : k # "prepare" => Still(k)) /\ ViewsKept
         /\ calls'[i].error # "storage"
<1> DEFINE r == calls[i].req
           now == calls[i].now
           mine == MineOf(submissions, r.wallet, now)
<1>1. /\ calls[i].pc = "lock" /\ r.kind = "prepare" /\ Counting(i, "prepare")
      /\ SameKey(i) = {} /\ Open(Mine(i)) = {}
      /\ IF OverLimit(r, Mine(i), now) THEN RollBack(i, "limit") ELSE Proceed(i)
  BY DEF CheckLimits, Counting
<1>2. CASE RollBack(i, "limit")
  <2>1. "limit" \in Errors
    BY DEF Errors
  <2>2. /\ CallsInv' /\ UNCHANGED <<workload, clock, intakeVars, reviewVars>>
        /\ OneMoved(i) /\ EndedStay /\ (\A k : Still(k)) /\ ViewsKept
        /\ calls'[i].error = "limit"
    BY <1>1, <1>2, <2>1, RefusalKept
  <2>3. SubmissionsInv'
    BY <2>2, OtherSubmissions DEF intakeVars
  <2> QED
    BY <2>2, <2>3
<1>3. CASE ~OverLimit(r, Mine(i), now) /\ Proceed(i)
  <2>1. /\ CallsInv' /\ UNCHANGED <<workload, clock, intakeVars, reviewVars>>
        /\ OneMoved(i) /\ EndedStay /\ \A k : k # "prepare" => Still(k)
        /\ calls'[i] = [calls[i] EXCEPT !.pc = "read"] /\ calls[i].error = "none"
    BY <1>1, <1>3, ProceedMoves
  <2>2. calls[i] \in CallState /\ r \in Requests
    BY CallTyped
  <2>3. /\ calls'[i].req = r /\ calls'[i].now = now /\ calls'[i].error = "none"
        /\ calls'[i].pc = "read"
    BY <2>1, <2>2 DEF CallState
  <2>4. IsFiniteSet(mine)
    <3>1. /\ OfWallet(Reclaimed(r.wallet, now), r.wallet) = mine
          /\ IsFiniteSet(Reclaimed(r.wallet, now))
      BY ReclaimedRows
    <3>2. mine \subseteq Reclaimed(r.wallet, now)
      BY <3>1 DEF OfWallet
    <3> HIDE DEF mine
    <3> QED
      BY <3>1, <3>2, FS_Subset
  <2>5. Mine(i) = mine
    BY MineKnown
  <2> DEFINE m == Cardinality(WithinMinute(mine, now))
             n == Cardinality(TodayOf(mine, now))
  <2>6. ~(m >= ClaimantLimit) /\ ~(n >= r.policy.quota)
    BY <1>3, <2>5 DEF OverLimit, TodayOf
  <2>7. m \in Nat /\ n \in Nat
    <3> HIDE DEF mine
    <3>1. IsFiniteSet(WithinMinute(mine, now)) /\ IsFiniteSet(TodayOf(mine, now))
      BY <2>4, FS_Subset DEF WithinMinute, TodayOf
    <3> QED
      BY <3>1, FS_CardinalityType
  <2>8. ClaimantLimit \in Nat /\ r.policy.quota \in Nat
    BY <1>1, <2>2, RequestTyped, LimitsAssumption DEF CallsInv
  <2> HIDE DEF m, n
  <2>9. m < ClaimantLimit /\ n < r.policy.quota
    BY <2>6, <2>7, <2>8
  <2>a. \A s \in mine : s.key # r.key /\ s.state = "ended"
    BY <1>1, <2>5 DEF SameKey, Open
  <2>10. RoomForWork(calls'[i], submissions)
    BY <2>3, <2>9, <2>a DEF RoomForWork, m, n
  <2>11. UNCHANGED <<workload, submissions>>
    BY <2>1 DEF intakeVars
  <2>12. \A j \in DOMAIN calls' : RoomForWork(calls'[j], submissions)
    BY <2>1, <2>10 DEF OneMoved, SubmissionsInv
  <2>13. SubmissionRow' = SubmissionRow
    BY <2>11, SubmissionTypes
  <2>14. SubmissionsInv'
    BY <2>11, <2>12, <2>13 DEF SubmissionsInv
  <2>15. ViewsKept
    BY <1>1, <2>1, <2>3, MovedViews DEF InHand
  <2> QED
    BY <2>1, <2>3, <2>14, <2>15
<1> QED
  BY <1>1, <1>2, <1>3

LEMMA DayStarts ==
  ASSUME NEW at \in Nat, NEW now \in Nat, at \div Day = now \div Day
  PROVE  at >= (now \div Day) * Day
<1>1. Day \in Nat \ {0}
  BY ClockAssumption
<1>2. (at \div Day) * Day <= at
  BY <1>1, Z3
<1>3. (now \div Day) * Day <= at
  BY <1>2
<1>4. (now \div Day) * Day \in Int
  BY <1>1
<1> DEFINE x == (now \div Day) * Day
<1> HIDE DEF x
<1>5. x <= at /\ x \in Int
  BY <1>3, <1>4 DEF x
<1>6. at >= x
  BY <1>5
<1> QED
  BY <1>6 DEF x

\* The new row takes the room that was counted, of the minute and of the day.
LEMMA SponsoredGrows ==
  ASSUME NEW T, T \subseteq SubmissionRow, IsFiniteSet(T), Sponsored(T),
         NEW new \in SubmissionRow,
         Cardinality(WithinMinute(OfWallet(T, new.wallet), new.at)) < ClaimantLimit,
         Cardinality(TodayOf(OfWallet(T, new.wallet), new.at)) < new.quota
  PROVE  Sponsored(T \cup {new})
<1> DEFINE N == T \cup {new}
           w == new.wallet
           mine == OfWallet(T, w)
<1>1. new.at \in Nat /\ new.quota \in Nat /\ \A t \in T : t.at \in Nat /\ t.quota \in Nat
  BY DEF SubmissionRow
<1>2. ASSUME NEW s \in N
      PROVE  Cardinality(OfWallet(MinuteTo(N, s.at), s.wallet)) <= ClaimantLimit
  <2>1. CASE s.wallet = w
    <3> DEFINE X == OfWallet(N, w)
    <3>1. WithinMinute(T, new.at) \cap X = WithinMinute(mine, new.at)
      BY DEF OfWallet, WithinMinute
    <3>2. Cardinality(WithinMinute(T, new.at) \cap X) < ClaimantLimit
      BY <3>1
    <3>3. \A d \in T \cap X : MinuteTo(T, d.at) \cap X = OfWallet(MinuteTo(T, d.at), d.wallet)
      BY DEF OfWallet, MinuteTo
    <3>4. InLimit(T, X, ClaimantLimit)
      BY <3>3 DEF InLimit, Sponsored
    <3>5. s \in N \cap X /\ MinuteTo(N, s.at) \cap X = OfWallet(MinuteTo(N, s.at), s.wallet)
      BY <2>1 DEF OfWallet, MinuteTo
    <3>6. T \in SUBSET T /\ ClaimantLimit \in Nat /\ \A t \in T : t.at \in Nat
      BY <1>1, LimitsAssumption
    <3> HIDE DEF X
    <3>7. InLimit(T \cup {new}, X, ClaimantLimit)
      BY <1>1, <3>2, <3>4, <3>6, RoomKept
    <3> QED
      BY <3>5, <3>7 DEF InLimit
  <2>2. CASE s.wallet # w
    <3>1. s \in T
      BY <2>2
    <3>2. OfWallet(MinuteTo(N, s.at), s.wallet) = OfWallet(MinuteTo(T, s.at), s.wallet)
      BY <2>2 DEF OfWallet, MinuteTo
    <3> QED
      BY <3>1, <3>2 DEF Sponsored
  <2> QED
    BY <2>1, <2>2
<1>3. ASSUME NEW s \in N
      PROVE  \E t \in OfWallet(DayOf(N, s.at), s.wallet) :
               Cardinality(OfWallet(DayOf(N, s.at), s.wallet)) <= t.quota
  <2> DEFINE D == OfWallet(DayOf(N, s.at), s.wallet)
             C == OfWallet(DayOf(T, s.at), s.wallet)
             today == TodayOf(mine, new.at)
  <2>1. CASE new \in D
    <3>1. w = s.wallet /\ new.at \div Day = s.at \div Day
      BY <2>1 DEF OfWallet, DayOf
    <3>2. ASSUME NEW d \in D, d # new
          PROVE  d \in today
      <4>1. d \in T /\ d.wallet = w /\ d.at \div Day = new.at \div Day
        BY <3>1, <3>2 DEF OfWallet, DayOf
      <4>2. d.at >= (new.at \div Day) * Day
        BY <1>1, <4>1, DayStarts
      <4> QED
        BY <4>1, <4>2 DEF OfWallet, TodayOf, Today
    <3>3. D \subseteq today \cup {new}
      BY <3>2
    <3>4. IsFiniteSet(today)
      BY FS_Subset DEF TodayOf, OfWallet
    <3>5. Cardinality(today) < new.quota
      OBVIOUS
    <3> HIDE DEF D, today
    <3>6. /\ Cardinality(D) \in Nat /\ Cardinality(today) \in Nat
          /\ Cardinality(D) <= Cardinality(today) + 1
      BY <3>3, <3>4, GrownCount
    <3>7. Cardinality(D) <= new.quota
      BY <1>1, <3>5, <3>6
    <3>8. \E t \in D : Cardinality(D) <= t.quota
      BY <2>1, <3>7
    <3> QED
      BY <3>8 DEF D
  <2>2. CASE new \notin D
    <3>1. D = C
      BY <2>2 DEF OfWallet, DayOf
    <3>2. s # new
      BY <2>2 DEF OfWallet, DayOf
    <3>3. \E t \in C : Cardinality(C) <= t.quota
      BY <3>2 DEF Sponsored
    <3> QED
      BY <3>1, <3>3
  <2> QED
    BY <2>1, <2>2
<1>4. \A s \in N : /\ Cardinality(OfWallet(MinuteTo(N, s.at), s.wallet)) <= ClaimantLimit
                   /\ \E t \in OfWallet(DayOf(N, s.at), s.wallet) :
                        Cardinality(OfWallet(DayOf(N, s.at), s.wallet)) <= t.quota
  BY <1>2, <1>3
<1> QED
  BY <1>4 DEF Sponsored

LEMMA InsertSubmissionStep ==
  ASSUME CallsInv, SubmissionsInv, NEW i \in DOMAIN calls, InsertSubmission(i)
  PROVE  /\ CallsInv' /\ SubmissionsInv'
         /\ UNCHANGED <<workload, clock, challenges, sessions, reviewVars>>
         /\ OneMoved(i) /\ EndedStay /\ (\A k : Still(k)) /\ ViewsKept
         /\ calls'[i].error = "none"
<1> DEFINE r == calls[i].req
           now == calls[i].now
           T == Reclaimed(r.wallet, now)
           new == [id |-> i, wallet |-> r.wallet, client |-> r.client, key |-> r.key,
                   claim |-> r.claim, quota |-> r.policy.quota, at |-> now,
                   state |-> "unsigned"]
<1>1. calls[i].pc = "read" /\ r.kind = "prepare" /\ RoomForWork(calls[i], submissions)
  BY DEF InsertSubmission, Counted, SubmissionsInv
<1>2. SameKey(i) \cup Open(Mine(i)) = {}
  BY <1>1, MineKnown DEF SameKey, Open, RoomForWork
<1>3. /\ submissions' = T \cup {new} /\ Finish(i, 201, "none")
      /\ UNCHANGED <<workload, clock, challenges, sessions, reviewVars>>
  BY <1>2 DEF InsertSubmission
<1>4. /\ CallsInv' /\ OneMoved(i) /\ EndedStay /\ (\A k : Still(k))
      /\ calls'[i].pc = "done" /\ calls'[i].error = "none"
  BY <1>1, <1>3, Ends
<1>5. ViewsKept
  BY <1>4, MovedViews DEF InHand
<1>6. SubmissionsInv'
  <2>1. /\ T \subseteq SubmissionRow /\ IsFiniteSet(T) /\ Sponsored(T)
        /\ OfWallet(T, r.wallet) = MineOf(submissions, r.wallet, now)
        /\ \A x : x # r.wallet => OfWallet(T, x) = OfWallet(submissions, x)
    BY ReclaimedRows
  <2>3. /\ Cardinality(WithinMinute(OfWallet(T, r.wallet), now)) < ClaimantLimit
        /\ Cardinality(TodayOf(OfWallet(T, r.wallet), now)) < r.policy.quota
    BY <1>1, <2>1 DEF RoomForWork
  <2>4. new \in SubmissionRow
    <3>1. calls[i] \in CallState /\ i \in Numbers /\ r \in Requests
      BY CallTyped
    <3>2. /\ r.wallet \in STRING /\ r.client \in STRING /\ r.key \in STRING
          /\ r.claim \in STRING /\ r.policy.quota \in Nat /\ now \in Nat
      BY <1>1, <3>1, RequestTyped DEF CallsInv, CallState
    <3> QED
      BY <3>1, <3>2 DEF SubmissionRow
  <2>5. new.wallet = r.wallet /\ new.at = now /\ new.quota = r.policy.quota
    OBVIOUS
  <2> HIDE DEF T, new
  <2>6. Sponsored(T \cup {new})
    BY <2>1, <2>3, <2>4, <2>5, SponsoredGrows
  <2>7. SubmissionRow' = SubmissionRow
    BY <1>3, SubmissionTypes
  <2>8. submissions' \subseteq SubmissionRow' /\ IsFiniteSet(submissions')
    BY <1>3, <2>1, <2>4, <2>7, FS_AddElement
  <2>9. RowsKept
    <3> SUFFICES ASSUME NEW j \in DOMAIN calls', calls'[j].pc = "read",
                        calls'[j].req.kind = "prepare"
                 PROVE  OfWallet(submissions', calls'[j].req.wallet)
                          = OfWallet(submissions, calls'[j].req.wallet)
      BY DEF RowsKept
    <3>1. j # i /\ j \in DOMAIN calls /\ calls'[j] = calls[j]
      BY <1>4 DEF OneMoved
    <3>2. calls[j].req.wallet # r.wallet
      BY <1>1, <3>1, OnePrepares
    <3>3. OfWallet(T \cup {new}, calls[j].req.wallet) = OfWallet(T, calls[j].req.wallet)
      BY <2>5, <3>2 DEF OfWallet
    <3> QED
      BY <1>3, <2>1, <3>1, <3>2, <3>3
  <2>10. \A j \in DOMAIN calls' : RoomForWork(calls'[j], submissions')
    BY <1>4, <2>9, RoomForOthers
  <2> QED
    BY <1>3, <2>6, <2>8, <2>10 DEF SubmissionsInv
<1> QED
  BY <1>3, <1>4, <1>5, <1>6

\* The relay waits for the rows of a wallet that is being prepared for.
LEMMA RelayMovesStep ==
  ASSUME CallsInv, SubmissionsInv, NEW s \in submissions, RelayMoves(s)
  PROVE  /\ SubmissionsInv'
         /\ UNCHANGED <<workload, clock, calls, challenges, sessions, reviewVars>>
<1>1. UNCHANGED <<workload, clock, calls, challenges, sessions, reviewVars>>
  BY DEF RelayMoves
<1>2. PICK st \in {"signed", "ended"} :
        submissions' = (submissions \ {s}) \cup {[s EXCEPT !.state = st]}
  BY DEF RelayMoves
<1> DEFINE d == [s EXCEPT !.state = st]
           f == [t \in submissions |-> IF t = s THEN d ELSE t]
<1>3. submissions \subseteq SubmissionRow /\ IsFiniteSet(submissions) /\ Sponsored(submissions)
  BY DEF SubmissionsInv
<1>4. d \in SubmissionRow /\ d.wallet = s.wallet /\ d.at = s.at /\ d.quota = s.quota
  <2>1. s \in SubmissionRow
    BY <1>3
  <2> QED
    BY <2>1 DEF SubmissionRow
<1> HIDE DEF d
<1>5. submissions' = (submissions \ {s}) \cup {d}
  BY <1>2 DEF d
<1>6. From(submissions', submissions, f) /\ StateChanged(submissions', submissions, f)
  BY <1>3, <1>4, <1>5 DEF From, StateChanged
<1> HIDE DEF f
<1>7. submissions' \subseteq SubmissionRow /\ IsFiniteSet(submissions') /\ Sponsored(submissions')
  BY <1>3, <1>6, SponsoredChanges
<1>8. \A x : x # s.wallet => OfWallet(submissions', x) = OfWallet(submissions, x)
  BY <1>4, <1>5 DEF OfWallet
<1>9. RowsKept
  BY <1>1, <1>8 DEF RowsKept, RelayMoves, Unlocked
<1>10. Still("prepare")
  BY <1>1 DEF Still
<1>11. \A j \in DOMAIN calls' : RoomForWork(calls'[j], submissions')
  BY <1>9, <1>10, RoomForOthers
<1>12. SubmissionRow' = SubmissionRow
  BY <1>1, SubmissionTypes
<1> QED
  BY <1>1, <1>7, <1>11, <1>12 DEF SubmissionsInv

LEMMA SubmissionsShow ==
  ASSUME SubmissionsInv
  PROVE  ClaimantLimits
<1> SUFFICES ASSUME NEW s \in submissions
             PROVE  LET mine == {t \in submissions : t.wallet = s.wallet}
                        day == {t \in mine : t.at \div Day = s.at \div Day}
                    IN  /\ Cardinality({t \in mine : s.at - Minute <= t.at /\ t.at <= s.at})
                             <= ClaimantLimit
                        /\ \E t \in day : Cardinality(day) <= t.quota
  BY DEF ClaimantLimits
<1> DEFINE mine == {t \in submissions : t.wallet = s.wallet}
           day == {t \in mine : t.at \div Day = s.at \div Day}
<1>1. {t \in mine : s.at - Minute <= t.at /\ t.at <= s.at}
        = OfWallet(MinuteTo(submissions, s.at), s.wallet)
  BY DEF OfWallet, MinuteTo
<1>2. day = OfWallet(DayOf(submissions, s.at), s.wallet)
  BY DEF OfWallet, DayOf
<1>3. /\ Cardinality(OfWallet(MinuteTo(submissions, s.at), s.wallet)) <= ClaimantLimit
      /\ \E t \in OfWallet(DayOf(submissions, s.at), s.wallet) :
           Cardinality(OfWallet(DayOf(submissions, s.at), s.wallet)) <= t.quota
  BY DEF SubmissionsInv, Sponsored
<1> HIDE DEF mine, day
<1>4. Cardinality({t \in mine : s.at - Minute <= t.at /\ t.at <= s.at}) <= ClaimantLimit
  BY <1>1, <1>3
<1>5. \E t \in day : Cardinality(day) <= t.quota
  BY <1>2, <1>3
<1> QED
  BY <1>4, <1>5 DEF mine, day

-----------------------------------------------------------------------------
(* The invariant of the store *)

StoreInv ==
  /\ CallsInv
  /\ ChallengesInv
  /\ SubmissionsInv
  /\ ScreeningInv
  /\ OutcomesInv
  /\ PreparationsFit

LEMMA StoreInit ==
  ASSUME Init
  PROVE  StoreInv
<1>1. /\ workload \in Workloads /\ clock = 0 /\ calls = <<>> /\ DOMAIN calls = {}
      /\ challenges = {} /\ sessions = {} /\ submissions = {}
      /\ fingerprints = {} /\ snapshots = {} /\ outcomes = {}
  BY DEF Init
<1>2. CallsInv
  BY <1>1, ClockAssumption DEF CallsInv
<1>3. IsFiniteSet({})
  BY FS_EmptySet
<1>4. ChallengesInv
  BY <1>1, <1>3 DEF ChallengesInv, SessionOnce, Limited
<1>5. SubmissionsInv
  BY <1>1, <1>3 DEF SubmissionsInv, Sponsored
<1>6. ScreeningInv
  <2>1. Views(snapshots, calls) = {}
    BY <1>1 DEF Views
  <2> QED
    BY <1>1, <1>3, <2>1 DEF ScreeningInv, SeeEachOther, Ordered
<1>7. OutcomesInv
  BY <1>1, <1>3 DEF OutcomesInv, OutcomesKept
<1> QED
  BY <1>1, <1>2, <1>4, <1>5, <1>6, <1>7 DEF StoreInv, PreparationsFit

LEMMA PreparationsStillFit ==
  ASSUME PreparationsFit, NoneRefused
  PROVE  PreparationsFit'
BY DEF PreparationsFit, NoneRefused

LEMMA MovedUnrefused ==
  ASSUME NEW i \in DOMAIN calls, OneMoved(i), calls'[i].error # "storage"
  PROVE  NoneRefused
BY DEF OneMoved, NoneRefused

\* A step that changes no table leaves every part of the invariant.
LEMMA QuietStep ==
  ASSUME StoreInv, CallsInv', UNCHANGED <<workload, intakeVars, reviewVars>>,
         \A k : Still(k), EndedStay, ViewsKept, NoneRefused
  PROVE  StoreInv'
<1>1. UNCHANGED <<workload, challenges, sessions, submissions, fingerprints, snapshots, outcomes>>
  BY DEF intakeVars, reviewVars
<1>2. ChallengesInv'
  BY <1>1, OtherChallenges DEF StoreInv
<1>3. SubmissionsInv'
  BY <1>1, OtherSubmissions DEF StoreInv
<1>4. ScreeningInv'
  BY <1>1, OtherScreening DEF StoreInv
<1>5. OutcomesInv'
  BY <1>1, OtherOutcomes DEF StoreInv
<1>10. PreparationsFit'
  BY PreparationsStillFit DEF StoreInv
<1> QED
  BY <1>2, <1>3, <1>4, <1>5, <1>10 DEF StoreInv

\* A request is received, waits for a lock, or ends without an effect.
LEMMA AnyCallStep ==
  ASSUME StoreInv
  PROVE  /\ \A r \in workload.requests :
              IssueChallenge(r) \/ CreateSession(r) \/ Prepare(r) \/ Screen(r)
                \/ RecordOutcome(r) => StoreInv'
         /\ \A i \in DOMAIN calls : Lock(i) => StoreInv'
         /\ \A i \in DOMAIN calls : Crash(i) => StoreInv'
         /\ \A i \in DOMAIN calls : RefuseFeatures(i) => StoreInv'
         /\ Tick => StoreInv'
<1>a. CallsInv
  BY DEF StoreInv
<1>1. ASSUME NEW r \in workload.requests,
             IssueChallenge(r) \/ CreateSession(r) \/ Prepare(r) \/ Screen(r) \/ RecordOutcome(r)
      PROVE  StoreInv'
  <2>1. /\ CallsInv' /\ UNCHANGED <<workload, clock, intakeVars, reviewVars>>
        /\ EndedStay /\ \A k : Still(k)
        /\ \A j \in DOMAIN calls' :
             \/ j \in DOMAIN calls /\ calls'[j] = calls[j]
             \/ /\ calls'[j].pc # "read" /\ calls'[j].req.kind # "features"
                /\ calls'[j].error # "storage"
    BY <1>a, <1>1, Arrival
  <2>2. ViewsKept
    BY <2>1 DEF ViewsKept, InHand
  <2>3. NoneRefused
    BY <2>1 DEF NoneRefused
  <2> QED
    BY <2>1, <2>2, <2>3, QuietStep
<1>2. ASSUME NEW i \in DOMAIN calls, Lock(i)
      PROVE  StoreInv'
  <2>1. /\ CallsInv' /\ UNCHANGED <<workload, clock, intakeVars, reviewVars>>
        /\ OneMoved(i) /\ EndedStay /\ (\A k : Still(k))
        /\ calls'[i].req = calls[i].req /\ calls'[i].matches = calls[i].matches
        /\ calls[i].pc = "lock" /\ calls'[i].pc = "lock" /\ calls'[i].error = calls[i].error
    BY <1>a, <1>2, LockMoves
  <2>2. ViewsKept
    BY <2>1, MovedViews DEF InHand
  <2>3. calls[i].error = "none"
    BY <1>a, <2>1, CallTyped DEF CallSound
  <2>4. NoneRefused
    BY <2>1, <2>3, MovedUnrefused
  <2> QED
    BY <2>1, <2>2, <2>4, QuietStep
<1>3. ASSUME NEW i \in DOMAIN calls, Crash(i)
      PROVE  StoreInv'
  <2>1. /\ CallsInv' /\ UNCHANGED <<workload, clock, intakeVars, reviewVars>>
        /\ OneMoved(i) /\ EndedStay /\ (\A k : Still(k))
        /\ calls'[i].pc = "done" /\ calls'[i].error = "none"
    BY <1>a, <1>3, CrashMoves
  <2>2. ViewsKept
    BY <2>1, MovedViews DEF InHand
  <2>3. NoneRefused
    BY <2>1, MovedUnrefused
  <2> QED
    BY <2>1, <2>2, <2>3, QuietStep
<1>4. ASSUME NEW i \in DOMAIN calls, RefuseFeatures(i)
      PROVE  StoreInv'
  <2>1. calls[i].pc # "done" /\ Refuse(i, "incident_later")
    BY <1>4 DEF RefuseFeatures
  <2>2. "incident_later" \in Errors
    BY DEF Errors
  <2>3. /\ CallsInv' /\ UNCHANGED <<workload, clock, intakeVars, reviewVars>>
        /\ OneMoved(i) /\ EndedStay /\ (\A k : Still(k))
        /\ calls'[i].pc = "done" /\ calls'[i].error = "incident_later"
    BY <1>a, <2>1, <2>2, RefuseMoves
  <2>4. ViewsKept
    BY <2>3, MovedViews DEF InHand
  <2>5. NoneRefused
    BY <2>3, MovedUnrefused
  <2> QED
    BY <2>3, <2>4, <2>5, QuietStep
<1>5. ASSUME Tick
      PROVE  StoreInv'
  <2>1. /\ clock' \in workload.times
        /\ UNCHANGED <<workload, calls, intakeVars, reviewVars>>
    BY <1>5 DEF Tick
  <2>2. CallsInv'
    BY <1>a, <2>1, WorkloadKept DEF CallsInv
  <2>3. (\A k : Still(k)) /\ EndedStay /\ ViewsKept /\ NoneRefused
    BY <2>1 DEF Still, EndedStay, ViewsKept, NoneRefused
  <2> QED
    BY <2>1, <2>2, <2>3, QuietStep
<1> QED
  BY <1>1, <1>2, <1>3, <1>4, <1>5

LEMMA ChallengeStep ==
  ASSUME StoreInv, NEW i \in DOMAIN calls,
         CountChallenges(i) \/ InsertChallenge(i) \/ VerifyChallenge(i) \/ ConsumeChallenge(i)
  PROVE  StoreInv'
<1>1. CallsInv /\ ChallengesInv
  BY DEF StoreInv
<1>2. /\ CallsInv' /\ ChallengesInv'
      /\ UNCHANGED <<workload, submissions, fingerprints, snapshots, outcomes>>
      /\ OneMoved(i) /\ (\A k : k # "challenge" => Still(k)) /\ ViewsKept
      /\ calls'[i].error # "storage"
  <2>1. CASE CountChallenges(i)
    BY <1>1, <2>1, CountChallengesStep DEF intakeVars, reviewVars
  <2>2. CASE InsertChallenge(i)
    BY <1>1, <2>2, InsertChallengeStep DEF reviewVars
  <2>3. CASE VerifyChallenge(i)
    BY <1>1, <2>3, VerifyChallengeStep DEF intakeVars, reviewVars
  <2>4. CASE ConsumeChallenge(i)
    BY <1>1, <2>4, ConsumeChallengeStep DEF reviewVars
  <2> QED
    BY <2>1, <2>2, <2>3, <2>4
<1>3. Still("prepare") /\ Still("screen") /\ Still("features") /\ Still("outcome")
  BY <1>2
<1>4. NoneRefused
  BY <1>2, MovedUnrefused
<1>5. SubmissionsInv'
  BY <1>2, <1>3, OtherSubmissions DEF StoreInv
<1>6. ScreeningInv'
  BY <1>2, <1>3, OtherScreening DEF StoreInv
<1>7. OutcomesInv'
  BY <1>2, <1>3, <1>4, OtherOutcomes DEF StoreInv
<1>10. PreparationsFit'
  BY <1>4, PreparationsStillFit DEF StoreInv
<1> QED
  BY <1>2, <1>5, <1>6, <1>7, <1>10 DEF StoreInv

LEMMA PreparationStep ==
  ASSUME StoreInv, NEW i \in DOMAIN calls,
         ReturnExisting(i) \/ RefuseConflict(i) \/ CheckLimits(i) \/ InsertSubmission(i)
  PROVE  StoreInv'
<1>1. CallsInv /\ SubmissionsInv
  BY DEF StoreInv
<1>2. /\ CallsInv' /\ SubmissionsInv'
      /\ UNCHANGED <<workload, challenges, sessions, fingerprints, snapshots, outcomes>>
      /\ OneMoved(i) /\ EndedStay /\ (\A k : k # "prepare" => Still(k)) /\ ViewsKept
      /\ calls'[i].error # "storage"
  <2>1. CASE ReturnExisting(i)
    BY <1>1, <2>1, ReturnExistingStep DEF reviewVars
  <2>2. CASE RefuseConflict(i)
    BY <1>1, <2>2, RefuseConflictStep DEF intakeVars, reviewVars
  <2>3. CASE CheckLimits(i)
    BY <1>1, <2>3, CheckLimitsStep DEF intakeVars, reviewVars
  <2>4. CASE InsertSubmission(i)
    BY <1>1, <2>4, InsertSubmissionStep DEF reviewVars
  <2> QED
    BY <2>1, <2>2, <2>3, <2>4
<1>3. Still("challenge") /\ Still("screen") /\ Still("features") /\ Still("outcome")
  BY <1>2
<1>4. NoneRefused
  BY <1>2, MovedUnrefused
<1>5. ChallengesInv'
  BY <1>2, <1>3, OtherChallenges DEF StoreInv
<1>6. ScreeningInv'
  BY <1>2, <1>3, OtherScreening DEF StoreInv
<1>7. OutcomesInv'
  BY <1>2, <1>3, <1>4, OtherOutcomes DEF StoreInv
<1>10. PreparationsFit'
  BY <1>4, PreparationsStillFit DEF StoreInv
<1> QED
  BY <1>2, <1>5, <1>6, <1>7, <1>10 DEF StoreInv

LEMMA ScreeningStep ==
  ASSUME StoreInv, NEW i \in DOMAIN calls,
         FindDuplicates(i) \/ CommitFingerprint(i) \/ CountHistory(i) \/ CommitSnapshot(i)
  PROVE  StoreInv'
<1>1. CallsInv /\ ScreeningInv
  BY DEF StoreInv
<1>2. /\ CallsInv' /\ ScreeningInv'
      /\ UNCHANGED <<workload, challenges, sessions, submissions, outcomes>>
      /\ OneMoved(i) /\ EndedStay
      /\ \A k : k # "screen" /\ k # "features" => Still(k)
      /\ calls'[i].error = "none"
  <2>1. CASE FindDuplicates(i)
    BY <1>1, <2>1, FindDuplicatesStep DEF intakeVars, reviewVars
  <2>2. CASE CommitFingerprint(i)
    BY <1>1, <2>2, CommitFingerprintStep DEF intakeVars
  <2>3. CASE CountHistory(i)
    BY <1>1, <2>3, CountHistoryStep DEF intakeVars, reviewVars
  <2>4. CASE CommitSnapshot(i)
    BY <1>1, <2>4, CommitSnapshotStep DEF intakeVars
  <2> QED
    BY <2>1, <2>2, <2>3, <2>4
<1>3. Still("challenge") /\ Still("prepare") /\ Still("outcome")
  BY <1>2
<1>4. NoneRefused
  BY <1>2, MovedUnrefused
<1>5. ChallengesInv'
  BY <1>2, <1>3, OtherChallenges DEF StoreInv
<1>6. SubmissionsInv'
  BY <1>2, <1>3, OtherSubmissions DEF StoreInv
<1>7. OutcomesInv'
  BY <1>2, <1>3, <1>4, OtherOutcomes DEF StoreInv
<1>10. PreparationsFit'
  BY <1>4, PreparationsStillFit DEF StoreInv
<1> QED
  BY <1>2, <1>5, <1>6, <1>7, <1>10 DEF StoreInv

LEMMA OutcomeStep ==
  ASSUME StoreInv, NEW i \in DOMAIN calls, ReadRevision(i) \/ CommitOutcome(i)
  PROVE  StoreInv'
<1>1. CallsInv /\ OutcomesInv
  BY DEF StoreInv
<1>2. /\ CallsInv' /\ OutcomesInv'
      /\ UNCHANGED <<workload, challenges, sessions, submissions, fingerprints, snapshots>>
      /\ OneMoved(i) /\ EndedStay /\ (\A k : k # "outcome" => Still(k))
      /\ ~InHand(calls'[i]) /\ calls'[i].error # "storage"
  <2>1. CASE ReadRevision(i)
    BY <1>1, <2>1, ReadRevisionStep DEF intakeVars, reviewVars, InHand
  <2>2. CASE CommitOutcome(i)
    BY <1>1, <2>2, CommitOutcomeStep DEF intakeVars, InHand
  <2> QED
    BY <2>1, <2>2
<1>3. Still("challenge") /\ Still("prepare") /\ Still("screen") /\ Still("features")
  BY <1>2
<1>4. ViewsKept
  BY <1>2, MovedViews
<1>5. ChallengesInv'
  BY <1>2, <1>3, OtherChallenges DEF StoreInv
<1>6. SubmissionsInv'
  BY <1>2, <1>3, OtherSubmissions DEF StoreInv
<1>7. ScreeningInv'
  BY <1>2, <1>3, <1>4, OtherScreening DEF StoreInv
<1>10. PreparationsFit'
  BY <1>2, MovedUnrefused, PreparationsStillFit DEF StoreInv
<1> QED
  BY <1>2, <1>5, <1>6, <1>7, <1>10 DEF StoreInv

LEMMA RelayStep ==
  ASSUME StoreInv, NEW s \in submissions, RelayMoves(s)
  PROVE  StoreInv'
<1>1. CallsInv /\ SubmissionsInv
  BY DEF StoreInv
<1>2. /\ SubmissionsInv'
      /\ UNCHANGED <<workload, clock, calls, challenges, sessions, reviewVars>>
  BY <1>1, RelayMovesStep
<1>3. UNCHANGED <<workload, clock, calls, challenges, sessions, fingerprints, snapshots, outcomes>>
  BY <1>2 DEF reviewVars
<1>4. CallsInv'
  BY <1>1, <1>3, WorkloadKept DEF CallsInv
<1>5. (\A k : Still(k)) /\ EndedStay /\ ViewsKept /\ NoneRefused
  BY <1>3 DEF Still, EndedStay, ViewsKept, NoneRefused
<1>6. ChallengesInv'
  BY <1>3, <1>5, OtherChallenges DEF StoreInv
<1>7. ScreeningInv'
  BY <1>3, <1>5, OtherScreening DEF StoreInv
<1>8. OutcomesInv'
  BY <1>3, <1>5, OtherOutcomes DEF StoreInv
<1>10. PreparationsFit'
  BY <1>5, PreparationsStillFit DEF StoreInv
<1> QED
  BY <1>2, <1>4, <1>6, <1>7, <1>8, <1>10 DEF StoreInv

LEMMA StoreStep ==
  ASSUME StoreInv, [Next]_vars
  PROVE  StoreInv'
<1>1. CASE Next
  BY <1>1, AnyCallStep, ChallengeStep, PreparationStep, ScreeningStep, OutcomeStep, RelayStep,
     NextCases
<1>2. CASE UNCHANGED vars
  <2>1. UNCHANGED <<workload, clock, calls, intakeVars, reviewVars>>
    BY <1>2 DEF vars
  <2>2. CallsInv'
    BY <2>1, WorkloadKept DEF StoreInv, CallsInv
  <2>3. (\A k : Still(k)) /\ EndedStay /\ ViewsKept /\ NoneRefused
    BY <2>1 DEF Still, EndedStay, ViewsKept, NoneRefused
  <2> QED
    BY <2>1, <2>2, <2>3, QuietStep
<1> QED
  BY <1>1, <1>2

LEMMA StoreAlways == Spec => []StoreInv
<1>1. Init => StoreInv
  BY StoreInit
<1>2. StoreInv /\ [Next]_vars => StoreInv'
  BY StoreStep
<1> QED
  BY <1>1, <1>2, PTL DEF Spec

-----------------------------------------------------------------------------
(* Theorems *)

\* Every table and every call keeps its type, for any requests and clocks.
THEOREM TypeCorrect == Spec => []TypeOK
<1>1. StoreInv => TypeOK
  BY DEF StoreInv, TypeOK, CallsInv, CallState, ChallengesInv, ChallengeRow, SessionRow,
         SubmissionsInv, SubmissionRow, ScreeningInv, Snapshot, OutcomesInv, Outcome
<1> QED
  BY <1>1, StoreAlways, PTL

\* No advisory lock has two holders, and a transaction that decides from what
\* it has counted has all of its locks (postgres/database.py, cursor, and the
\* pg_advisory_xact_lock calls of the repositories).
LocksExclude ==
  /\ \A i, j \in DOMAIN calls : i # j => Holds(i) \cap Holds(j) = {}
  /\ \A i \in DOMAIN calls :
       calls[i].pc = "read" => calls[i].taken = Len(LocksOf(calls[i].req))

THEOREM LocksAreExclusive == Spec => []LocksExclude
<1>1. StoreInv => LocksExclude
  BY DEF StoreInv, CallsInv, CallSound, LocksExclude, Holds, HeldBy
<1> QED
  BY <1>1, StoreAlways, PTL

\* No minute holds more challenges of a client or a wallet than the limits
\* (claimant_auth_repository.py, issue).
THEOREM ChallengesLimited == Spec => []ChallengeLimits
<1>1. StoreInv => ChallengeLimits
  BY ChallengesShow DEF StoreInv
<1> QED
  BY <1>1, StoreAlways, PTL

\* A signed challenge opens one session (claimant_auth_repository.py, consume).
THEOREM OneSession == Spec => []SessionOnce
<1>1. StoreInv => SessionOnce
  BY DEF StoreInv, ChallengesInv
<1> QED
  BY <1>1, StoreAlways, PTL

\* No wallet is sponsored beyond its limit per minute or its quota of the day
\* (gasless_submission_repository.py, begin_preparation).
THEOREM ClaimantsLimited == Spec => []ClaimantLimits
<1>1. StoreInv => ClaimantLimits
  BY SubmissionsShow DEF StoreInv
<1> QED
  BY <1>1, StoreAlways, PTL

\* The unique indexes refuse no preparation: the locks come first
\* (gasless_submission_repository.py, begin_preparation).
THEOREM PreparationsAlwaysFit == Spec => []PreparationsFit
<1>1. StoreInv => PreparationsFit
  BY DEF StoreInv
<1> QED
  BY <1>1, StoreAlways, PTL

\* Of two claims that are duplicates at least one was told of the other
\* (duplicate_repository.py, record_and_find_duplicates).
THEOREM DuplicatesAreSeen == Spec => []DuplicatesSeen
<1>1. StoreInv => DuplicatesSeen
  BY ScreeningShows DEF StoreInv
<1> QED
  BY <1>1, StoreAlways, PTL

\* The history counts of an insurer's claims describe one order
\* (feature_repository.py, record_feature_snapshot).
THEOREM HistoriesAreOrders == Spec => []HistoryIsAnOrder
<1>1. StoreInv => HistoryIsAnOrder
  BY ScreeningShows DEF StoreInv
<1> QED
  BY <1>1, StoreAlways, PTL

\* Outcomes are numbered from 1 without a gap and none is refused by the
\* unique index (assessor_outcome_repository.py, record).
THEOREM OutcomesAreKept == Spec => []OutcomesKept
<1>1. StoreInv => OutcomesKept
  BY DEF StoreInv, OutcomesInv
<1> QED
  BY <1>1, StoreAlways, PTL
=============================================================================
