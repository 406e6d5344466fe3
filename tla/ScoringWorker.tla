---------------------------- MODULE ScoringWorker ----------------------------
(***************************************************************************)
(* The scoring workers: a Kafka consumer group whose members take one      *)
(* event at a time through verification, scoring and the assessment        *)
(* transaction, and commit the offset last. A rebalance may give a         *)
(* partition to a second worker while the first is still inside its        *)
(* handler; people assess claims on the same contract. One event per       *)
(* claim: a claim stands for its event id. The two transactions of the     *)
(* features stage are in StoreTransactions.                                *)
(***************************************************************************)
EXTENDS Integers, Sequences, FiniteSets

CONSTANTS
  Workers,
  Claims,
  Topics,          \* contents the topic may have: a sequence per partition
  Outputs,         \* per claim, the decisions the model artifacts give
  HumanDecisions,  \* decisions people anchor
  NoRecord,        \* an event without a row in claim_assessments
  MaxFailures,     \* bound: crashes, transient errors and receipt timeouts
  MaxRebalances    \* bound: partitions taken from a worker that is running


VARIABLES
  valid,         \* claims whose stored document passes the worker's checks
  topic,         \* per partition, the events published
  committed,     \* per partition, the group's committed offset
  owner,         \* per partition, the member it is assigned to
  records,       \* claim_assessments
  deadLetters,   \* claims in the dead-letter file
  chain,         \* per claim, the assessments anchored so far
  txs,           \* assessment transactions of the shared wallet, by nonce
  worker,        \* each process's own state
  failures,
  rebalances

kafkaVars == <<topic, committed, owner>>
storeVars == <<records, deadLetters>>
vars == <<valid, kafkaVars, storeVars, chain, txs, worker, failures, rebalances>>

Decision == [status : {"UnderReview", "Flagged", "Approved", "Rejected"},
             score : Nat]

\* The model decides between two outcomes; the others are people's.
ASSUME OutputsAssumption ==
  Outputs \in [Claims -> SUBSET {d \in Decision : d.status \in {"UnderReview", "Flagged"}}]

ASSUME HumanDecisionsAssumption == HumanDecisions \subseteq Decision

\* tx is transaction_hash: the number of a transaction, 0 for NULL.
Record == [decision : Decision, tx : Nat,
           state : {"scored", "completed", "failed"}]

ASSUME GroupAssumption ==
  /\ Workers # {}
  /\ Topics \subseteq Seq(Seq(Claims))
  /\ NoRecord \notin Record
  /\ MaxFailures \in Nat /\ MaxRebalances \in Nat

Down == [pc |-> "down", part |-> 0, offset |-> 0, rec |-> NoRecord,
         tx |-> 0]

TypeOK ==
  /\ valid \subseteq Claims
  /\ topic \in Topics
  /\ \A p \in DOMAIN topic : committed[p] \in 0..Len(topic[p])
  /\ owner \in [DOMAIN topic -> Workers]
  /\ records \in [Claims -> Record \cup {NoRecord}]
  /\ deadLetters \subseteq Claims
  /\ chain \in [Claims -> Seq(Decision)]
  /\ txs \in Seq([claim : Claims, decision : Decision,
                  result : {"pending", "success", "reverted"}])
  /\ worker \in [Workers ->
       [pc : {"down", "idle", "load", "score", "chain", "send", "wait", "complete",
              "failed", "conflict", "quarantine", "commit"},
        part : Nat, offset : Nat, rec : Record \cup {NoRecord}, tx : Nat]]
  /\ failures \in 0..MaxFailures
  /\ rebalances \in 0..MaxRebalances

Init ==
  /\ valid \in SUBSET Claims
  /\ topic \in Topics
  /\ committed = [p \in DOMAIN topic |-> 0]
  /\ owner = [p \in DOMAIN topic |-> CHOOSE w \in Workers : TRUE]
  /\ records = [c \in Claims |-> NoRecord]
  /\ deadLetters = {}
  /\ chain = [c \in Claims |-> <<>>]
  /\ txs = <<>>
  /\ worker = [w \in Workers |-> Down]
  /\ failures = 0
  /\ rebalances = 0

-----------------------------------------------------------------------------
(* The contract and the wallet's transactions *)

Status(c) == IF chain[c] = <<>> THEN "Submitted" ELSE chain[c][Len(chain[c])].status

Lifecycle ==
  {<<"Submitted", "UnderReview">>, <<"Submitted", "Flagged">>,
   <<"UnderReview", "Approved">>, <<"UnderReview", "Rejected">>,
   <<"UnderReview", "Flagged">>,
   <<"Flagged", "Approved">>, <<"Flagged", "Rejected">>}

\* assessClaim accepts: a legal transition, and the score set by the first
\* assessment is kept.
Accepts(c, d) ==
  /\ <<Status(c), d.status>> \in Lifecycle
  /\ chain[c] # <<>> => d.score = chain[c][1].score

Anchor(c, d) == chain' = [chain EXCEPT ![c] = Append(@, d)]

\* Transactions of one wallet are mined in nonce order.
Mine(i) ==
  LET t == txs[i]
  IN  /\ t.result = "pending"
      /\ \A j \in 1..(i - 1) : txs[j].result # "pending"
      /\ \/ /\ Accepts(t.claim, t.decision)
            /\ Anchor(t.claim, t.decision)
            /\ txs' = [txs EXCEPT ![i].result = "success"]
         \/ /\ ~Accepts(t.claim, t.decision)
            /\ txs' = [txs EXCEPT ![i].result = "reverted"]
            /\ UNCHANGED chain
      /\ UNCHANGED <<valid, kafkaVars, storeVars, worker, failures, rebalances>>

\* A person assesses the claim with another tool.
HumanAssess(c, d) ==
  /\ Accepts(c, d)
  /\ Anchor(c, d)
  /\ UNCHANGED <<valid, kafkaVars, storeVars, txs, worker, failures, rebalances>>

-----------------------------------------------------------------------------
(* Kafka *)

Running(w) == worker[w].pc # "down"

\* The group moves a partition: from a member that is gone, or, when a member
\* joins or exceeds max.poll.interval.ms, from one still inside its handler.
Rebalance(p, w) ==
  /\ Running(w) /\ owner[p] # w
  /\ owner' = [owner EXCEPT ![p] = w]
  /\ IF Running(owner[p])
     THEN rebalances < MaxRebalances /\ rebalances' = rebalances + 1
     ELSE UNCHANGED rebalances
  /\ UNCHANGED <<valid, topic, committed, storeVars, chain, txs, worker, failures>>

-----------------------------------------------------------------------------
(* The worker *)

Event(w) == topic[worker[w].part][worker[w].offset]

Goto(w, pc) == worker' = [worker EXCEPT ![w].pc = pc]

Failing == failures < MaxFailures /\ failures' = failures + 1

\* main: the process starts and joins the group.
Start(w) ==
  /\ ~Running(w)
  /\ Goto(w, "idle")
  /\ UNCHANGED <<valid, kafkaVars, storeVars, chain, txs, failures, rebalances>>

\* process_next: poll returns the first uncommitted event of a partition.
Poll(w, p) ==
  /\ worker[w].pc = "idle"
  /\ owner[p] = w /\ committed[p] < Len(topic[p])
  /\ worker' = [worker EXCEPT ![w] =
       [Down EXCEPT !.pc = "load", !.part = p, !.offset = committed[p] + 1]]
  /\ UNCHANGED <<valid, kafkaVars, storeVars, chain, txs, failures, rebalances>>

Completed(rec) == rec # NoRecord /\ rec.state = "completed"

\* The document has the schema and the gateway's HMAC over the parties that
\* the event names.
Authorized(c) == c \in valid

\* get_by_event_id, the download and the checks of the document. Other bytes
\* than the anchored ones are a failure that is retried (Stop).
Load(w) ==
  LET c == Event(w)
  IN  /\ worker[w].pc = "load"
      /\ worker' = [worker EXCEPT
           ![w].rec = records[c],
           ![w].pc = CASE Completed(records[c]) -> "commit"
                       [] ~Completed(records[c]) /\ ~Authorized(c) -> "quarantine"
                       [] OTHER -> "score"]
      /\ UNCHANGED <<valid, kafkaVars, storeVars, chain, txs, failures, rebalances>>

\* save_scored: replaces whatever is there unless it is completed.
SaveScored(c, rec) ==
  records' = IF Completed(records[c]) THEN records
             ELSE [records EXCEPT ![c] = rec]

\* The record read at the start is used again; otherwise the claim is scored.
Score(w) ==
  /\ worker[w].pc = "score"
  /\ \/ /\ worker[w].rec # NoRecord
        /\ Goto(w, "chain")
        /\ UNCHANGED records
     \/ \E d \in Outputs[Event(w)] :
          LET rec == [decision |-> d, tx |-> 0, state |-> "scored"]
          IN  /\ worker[w].rec = NoRecord
              /\ SaveScored(Event(w), rec)
              /\ worker' = [worker EXCEPT ![w].pc = "chain", ![w].rec = rec]
  /\ UNCHANGED <<valid, kafkaVars, deadLetters, chain, txs,
                 failures, rebalances>>

\* get_claim: assess it, repair the record of an earlier attempt, or conflict.
ReadChain(w) ==
  LET c == Event(w)
      matching == chain[c] # <<>> /\ chain[c][Len(chain[c])] = worker[w].rec.decision
  IN  /\ worker[w].pc = "chain"
      /\ worker' = [worker EXCEPT
           ![w].tx = worker[w].rec.tx,
           ![w].pc = IF Status(c) = "Submitted" THEN "send"
                     ELSE IF matching THEN "complete" ELSE "conflict"]
      /\ UNCHANGED <<valid, kafkaVars, storeVars, chain, txs, failures, rebalances>>

\* assess_claim up to the broadcast. Building the transaction estimates its
\* gas, which fails when the contract would refuse it.
Send(w) ==
  LET c == Event(w)
      d == worker[w].rec.decision
  IN  /\ worker[w].pc = "send"
      /\ \/ /\ Accepts(c, d)
            /\ txs' = Append(txs, [claim |-> c, decision |-> d, result |-> "pending"])
            /\ worker' = [worker EXCEPT ![w].pc = "wait", ![w].tx = Len(txs) + 1]
         \/ ~Accepts(c, d) /\ Goto(w, "failed") /\ UNCHANGED txs
      /\ UNCHANGED <<valid, kafkaVars, storeVars, chain, failures, rebalances>>

\* Fault: a broadcast transaction counts as an assessment.
TrustBroadcast(w) ==
  /\ worker[w].pc = "wait"
  /\ Goto(w, "complete")
  /\ UNCHANGED <<valid, kafkaVars, storeVars, chain, txs, failures, rebalances>>

\* The receipt: a reverted transaction is an error.
Receipt(w) ==
  /\ worker[w].pc = "wait"
  /\ txs[worker[w].tx].result # "pending"
  /\ Goto(w, IF txs[worker[w].tx].result = "success" THEN "complete" ELSE "failed")
  /\ UNCHANGED <<valid, kafkaVars, storeVars, chain, txs, failures, rebalances>>

\* mark_completed
MarkCompleted(w) ==
  /\ worker[w].pc = "complete"
  /\ records' = [records EXCEPT ![Event(w)].state = "completed",
                                ![Event(w)].tx = worker[w].tx]
  /\ Goto(w, "commit")
  /\ UNCHANGED <<valid, kafkaVars, deadLetters, chain, txs,
                 failures, rebalances>>

\* Fault: the row's state names the error.
MarkFailedNaming(w) ==
  /\ worker[w].pc \in {"failed", "conflict"}
  /\ records' = [records EXCEPT ![Event(w)].state = worker[w].pc]
  /\ IF worker[w].pc = "conflict" THEN Goto(w, "quarantine")
     ELSE worker' = [worker EXCEPT ![w] = Down]
  /\ UNCHANGED <<valid, kafkaVars, deadLetters, chain, txs,
                 failures, rebalances>>

\* mark_failed, whatever the row's state; a conflict is then quarantined, any
\* other error ends the process.
MarkFailed(w) ==
  /\ worker[w].pc \in {"failed", "conflict"}
  /\ records' = [records EXCEPT ![Event(w)].state = "failed"]
  /\ IF worker[w].pc = "conflict" THEN Goto(w, "quarantine")
     ELSE worker' = [worker EXCEPT ![w] = Down]
  /\ UNCHANGED <<valid, kafkaVars, deadLetters, chain, txs,
                 failures, rebalances>>

\* Fault: the rejection is not written.
SkipRejected(w) ==
  /\ worker[w].pc = "quarantine"
  /\ Goto(w, "commit")
  /\ UNCHANGED <<valid, kafkaVars, storeVars, chain, txs, failures, rebalances>>


\* QuarantiningClaimHandler: write the rejection, then return normally.
Quarantine(w) ==
  /\ worker[w].pc = "quarantine"
  /\ deadLetters' = deadLetters \cup {Event(w)}
  /\ Goto(w, "commit")
  /\ UNCHANGED <<valid, kafkaVars, records, chain, txs,
                 failures, rebalances>>

\* The synchronous commit. Kafka refuses it from a member that lost the
\* partition, and the error ends the process.
Commit(w) ==
  /\ worker[w].pc = "commit"
  /\ IF owner[worker[w].part] = w
     THEN /\ committed' = [committed EXCEPT ![worker[w].part] = worker[w].offset]
          /\ worker' = [worker EXCEPT ![w] = [Down EXCEPT !.pc = "idle"]]
     ELSE worker' = [worker EXCEPT ![w] = Down] /\ UNCHANGED committed
  /\ UNCHANGED <<valid, topic, owner, storeVars, chain, txs, failures, rebalances>>

\* A crash, or a transient error outside the chain steps: open transactions
\* are rolled back and the process ends.
Stop(w) ==
  /\ worker[w].pc \notin {"down", "idle"}
  /\ Failing
  /\ worker' = [worker EXCEPT ![w] = Down]
  /\ UNCHANGED <<valid, kafkaVars, storeVars, chain, txs, rebalances>>

\* A transient error or a receipt timeout in the chain steps.
Raise(w) ==
  /\ worker[w].pc \in {"chain", "send", "wait", "complete"}
  /\ Failing
  /\ Goto(w, "failed")
  /\ UNCHANGED <<valid, kafkaVars, storeVars, chain, txs, rebalances>>

WorkerStep(w) ==
  \/ Start(w) \/ (\E p \in DOMAIN topic : Poll(w, p)) \/ Load(w)
  \/ Score(w)
  \/ ReadChain(w) \/ Send(w) \/ Receipt(w)
  \/ MarkCompleted(w) \/ MarkFailed(w) \/ Quarantine(w) \/ Commit(w)

Next ==
  \/ \E w \in Workers : WorkerStep(w) \/ Stop(w) \/ Raise(w)
  \/ \E p \in DOMAIN topic, w \in Workers : Rebalance(p, w)
  \/ \E i \in DOMAIN txs : Mine(i)
  \/ \E c \in Claims, d \in HumanDecisions : HumanAssess(c, d)

Spec == Init /\ [][Next]_vars

\* Workers are restarted and keep running; a pending transaction is mined.
FairSpec ==
  /\ Spec
  /\ \A w \in Workers : WF_vars(WorkerStep(w))
  /\ WF_vars(\E i \in DOMAIN txs : Mine(i))

-----------------------------------------------------------------------------
(* Properties *)

Anchored(c, d) == \E i \in DOMAIN chain[c] : chain[c][i] = d

Settled(c) ==
  \/ c \in deadLetters
  \/ records[c] # NoRecord /\ Anchored(c, records[c].decision)

\* An offset is committed only when its claim is rejected on record, or its
\* stored decision is anchored: no crash, lost reply or lost partition lets a
\* claim be skipped (events.py, process_next).
CommittedSettled ==
  \A p \in DOMAIN topic : \A o \in 1..committed[p] : Settled(topic[p][o])

\* While the model artifact does not change, a record is completed only with
\* the decision the contract holds.
CompletedAnchored ==
  \A c \in Claims : Completed(records[c]) => Anchored(c, records[c].decision)


\* "a completed record is immutable" (assessment_repository.py, save_scored).
CompletedIsImmutable ==
  [][\A c \in Claims : Completed(records[c]) => records'[c] = records[c]]_vars

=============================================================================
