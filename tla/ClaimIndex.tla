----------------------------- MODULE ClaimIndex -----------------------------
(***************************************************************************)
(* The listener and the PostgreSQL claim index it maintains. A listener    *)
(* drains confirmed block ranges: every log is projected into the index,   *)
(* every submission's bytes are verified and its event published to Kafka  *)
(* or quarantined, and only then is the checkpoint saved. Any step may     *)
(* fail or be cut by a crash, and two listeners may overlap while a        *)
(* container is replaced.                                                  *)
(***************************************************************************)
EXTENDS ChainLogs

CONSTANTS
  Listeners,     \* listener processes
  MaxBlockRange,
  NoRow,         \* a claim without a row in indexed_claims
  StartBlocks,   \* values LISTENER_START_BLOCK may have
  MaxFailures    \* bound: crashes and transient failures of the listeners

\* Block 0 is accepted; the listener refuses a smaller number and a range
\* without a block.
ASSUME ListenerAssumption ==
  /\ StartBlocks \subseteq 0..(MaxHead + 1)
  /\ MaxBlockRange \in Nat \ {0}
  /\ NoRow \notin Log
ASSUME FailuresAssumption == MaxFailures \in Nat

VARIABLES
  startBlock,    \* LISTENER_START_BLOCK
  events,        \* claim_index_events: the logs recorded
  rows,          \* indexed_claims: the log each claim's row was written from
  checkpoint,    \* claim_index_checkpoints.last_processed_block
  deadLetters,   \* submissions recorded in the dead-letter file
  published,     \* submissions whose event Kafka stores
  listener,      \* each process's own state
  failures

indexVars == <<startBlock, events, rows, checkpoint, deadLetters, published>>
vars == <<chainVars, indexVars, listener, failures>>

NoCheckpoint == -1

\* last is last_processed in main, which a failed drain does not update;
\* done is last_processed inside process_to_safe_head.
Down == [pc |-> "down", last |-> 0, done |-> 0, latest |-> 0, end |-> 0,
         todo |-> <<>>]

TypeOK ==
  /\ ChainTypeOK
  /\ startBlock \in StartBlocks
  /\ events \subseteq Log
  /\ rows \in [1..MaxClaims -> Log \cup {NoRow}]
  /\ checkpoint \in {NoCheckpoint} \cup 0..MaxHead
  /\ deadLetters \subseteq Log
  /\ published \subseteq Log
  /\ listener \in [Listeners ->
       [pc : {"down", "idle", "draining", "log", "verify"},
        last : -1..MaxHead, done : -1..MaxHead, latest : 0..MaxHead,
        end : 0..MaxHead, todo : Seq(Log)]]
  /\ failures \in 0..MaxFailures

Init ==
  /\ ChainInit
  /\ startBlock \in StartBlocks
  /\ events = {}
  /\ rows = [c \in 1..MaxClaims |-> NoRow]
  /\ checkpoint = NoCheckpoint
  /\ deadLetters = {}
  /\ published = {}
  /\ listener = [l \in Listeners |-> Down]
  /\ failures = 0

-----------------------------------------------------------------------------
(* The repository's transactions *)

\* Fault: a replayed submission resets the row.
IndexSubmittedAnyPosition(log) ==
  /\ events' = events \cup {log}
  /\ rows' = [rows EXCEPT ![log.claim] = log]

\* index_claim_submitted: one transaction, position-ordered.
IndexSubmitted(log) ==
  /\ events' = events \cup {log}
  /\ rows' = IF rows[log.claim] # NoRow /\ ~AtOrAfter(log, rows[log.claim])
             THEN rows ELSE [rows EXCEPT ![log.claim] = log]

\* index_claim_assessed. Without a row the transaction is rolled back.
IndexAssessed(log) ==
  /\ rows[log.claim] # NoRow
  /\ events' = events \cup {log}
  /\ rows' = IF AtOrAfter(log, rows[log.claim])
             THEN [rows EXCEPT ![log.claim] = log] ELSE rows

\* save_checkpoint: a conditional upsert.
SaveCheckpoint(block) ==
  checkpoint' = IF checkpoint <= block THEN block ELSE checkpoint

-----------------------------------------------------------------------------
(* The listener process *)

Goto(l, pc) == listener' = [listener EXCEPT ![l].pc = pc]

\* main: load the checkpoint, or begin one block before the start block.
Start(l) ==
  /\ listener[l].pc = "down"
  /\ listener' = [listener EXCEPT ![l] =
       [Down EXCEPT !.pc = "idle",
                    !.last = IF checkpoint = NoCheckpoint
                             THEN startBlock - 1 ELSE checkpoint]]
  /\ UNCHANGED <<chainVars, indexVars, failures>>

\* main: sample the head and enter process_to_safe_head.
Poll(l) ==
  /\ listener[l].pc = "idle"
  /\ head - Confirmations > listener[l].last
  /\ listener' = [listener EXCEPT ![l].pc = "draining",
                                  ![l].latest = head,
                                  ![l].done = listener[l].last]
  /\ UNCHANGED <<chainVars, indexVars, failures>>

\* Fault: the newest blocks are read as well.
UnconfirmedHead(latest) == latest

SafeBlock(latest) == latest - Confirmations

\* process_range: both event queries, merged in chain order.
LogsIn(from, to) == SubSeq(logs, Upto(from - 1) + 1, Upto(to))

RangeEnd(l) ==
  LET safe == SafeBlock(listener[l].latest)
      bound == listener[l].done + MaxBlockRange
  IN  IF safe < bound THEN safe ELSE bound

\* process_latest up to the dispatch of the first log.
FetchRange(l) ==
  /\ listener[l].pc = "draining"
  /\ listener[l].done < SafeBlock(listener[l].latest)
  /\ listener' = [listener EXCEPT
       ![l].pc = "log",
       ![l].end = RangeEnd(l),
       ![l].todo = LogsIn(listener[l].done + 1, RangeEnd(l))]
  /\ UNCHANGED <<chainVars, indexVars, failures>>

\* process_to_safe_head returns: only now does main's variable move.
Drained(l) ==
  /\ listener[l].pc = "draining"
  /\ listener[l].done >= SafeBlock(listener[l].latest)
  /\ listener' = [listener EXCEPT ![l] =
       [Down EXCEPT !.pc = "idle", !.last = listener[l].done]]
  /\ UNCHANGED <<chainVars, indexVars, failures>>

HandleSubmitted(l) ==
  /\ listener[l].pc = "log" /\ listener[l].todo # <<>>
  /\ Head(listener[l].todo).status = "Submitted"
  /\ IndexSubmitted(Head(listener[l].todo))
  /\ Goto(l, "verify")
  /\ UNCHANGED <<chainVars, startBlock, checkpoint, deadLetters, published, failures>>

HandleAssessed(l) ==
  /\ listener[l].pc = "log" /\ listener[l].todo # <<>>
  /\ Head(listener[l].todo).status # "Submitted"
  /\ IndexAssessed(Head(listener[l].todo))
  /\ listener' = [listener EXCEPT ![l].todo = Tail(@)]
  /\ UNCHANGED <<chainVars, startBlock, checkpoint, deadLetters, published, failures>>

\* _verified_payload: what can come of a download. A gateway may answer with
\* other bytes than the pointer's, whatever these are.
Verification(content) ==
  (IF content = "matching" THEN {"verified"} ELSE {}) \cup {"permanent"}

LogDone(l) ==
  listener' = [listener EXCEPT ![l].pc = "log", ![l].todo = Tail(@)]

\* The rest of _handle_claim_submitted: verify and wait for Kafka.
Publish(l) ==
  /\ listener[l].pc = "verify"
  /\ "verified" \in Verification(Head(listener[l].todo).content)
  /\ published' = published \cup {Head(listener[l].todo)}
  /\ LogDone(l)
  /\ UNCHANGED <<chainVars, startBlock, events, rows, checkpoint, deadLetters, failures>>

\* Fault: a permanent error is logged and not recorded.
DropSilently(l) ==
  /\ listener[l].pc = "verify"
  /\ "permanent" \in Verification(Head(listener[l].todo).content)
  /\ LogDone(l)
  /\ UNCHANGED <<chainVars, startBlock, events, rows, checkpoint, deadLetters, published,
                 failures>>

\* PermanentClaimEventError: process_range records it and goes on.
Quarantine(l) ==
  /\ listener[l].pc = "verify"
  /\ "permanent" \in Verification(Head(listener[l].todo).content)
  /\ deadLetters' = deadLetters \cup {Head(listener[l].todo)}
  /\ LogDone(l)
  /\ UNCHANGED <<chainVars, startBlock, events, rows, checkpoint, published, failures>>

\* The range is finished: save its end and go on draining.
FinishRange(l) ==
  /\ listener[l].pc = "log" /\ listener[l].todo = <<>>
  /\ SaveCheckpoint(listener[l].end)
  /\ listener' = [listener EXCEPT ![l].pc = "draining",
                                  ![l].done = listener[l].end]
  /\ UNCHANGED <<chainVars, startBlock, events, rows, deadLetters, published, failures>>

\* Fault: a failed range counts as processed.
AbandonRange(l) ==
  /\ listener' = [listener EXCEPT ![l] =
       [Down EXCEPT !.pc = "idle", !.last = listener[l].end]]

\* main's except branch: poll again from the last value it knows.
GiveUp(l) ==
  /\ listener' = [listener EXCEPT ![l] =
       [Down EXCEPT !.pc = "idle", !.last = listener[l].last]]

Failing == failures < MaxFailures /\ failures' = failures + 1

\* RPC, IPFS, PostgreSQL or Kafka fails before its effect.
Fail(l) ==
  /\ listener[l].pc \in {"draining", "log", "verify"}
  /\ Failing
  /\ GiveUp(l)
  /\ UNCHANGED <<chainVars, indexVars>>

\* flush times out, and Kafka has stored the event all the same.
PublishUnacknowledged(l) ==
  /\ listener[l].pc = "verify"
  /\ "verified" \in Verification(Head(listener[l].todo).content)
  /\ Failing
  /\ published' = published \cup {Head(listener[l].todo)}
  /\ GiveUp(l)
  /\ UNCHANGED <<chainVars, startBlock, events, rows, checkpoint, deadLetters>>

\* index_claim_assessed raises: the claim's submission was never indexed.
MissingSubmission(l) ==
  /\ listener[l].pc = "log" /\ listener[l].todo # <<>>
  /\ Head(listener[l].todo).status # "Submitted"
  /\ rows[Head(listener[l].todo).claim] = NoRow
  /\ GiveUp(l)
  /\ UNCHANGED <<chainVars, indexVars, failures>>

\* The shutdown signal, seen between polls and between ranges.
Shutdown(l) ==
  /\ listener[l].pc \in {"idle", "draining"}
  /\ Failing
  /\ listener' = [listener EXCEPT ![l] = Down]
  /\ UNCHANGED <<chainVars, indexVars>>

Crash(l) ==
  /\ listener[l].pc \in {"log", "verify"}
  /\ Failing
  /\ listener' = [listener EXCEPT ![l] = Down]
  /\ UNCHANGED <<chainVars, indexVars>>

ListenerStep(l) ==
  \/ Start(l) \/ Poll(l) \/ FetchRange(l) \/ Drained(l)
  \/ HandleSubmitted(l) \/ HandleAssessed(l) \/ MissingSubmission(l)
  \/ Publish(l) \/ Quarantine(l) \/ FinishRange(l)

Disturb(l) ==
  Fail(l) \/ PublishUnacknowledged(l) \/ Shutdown(l) \/ Crash(l)

Next ==
  \/ \E l \in Listeners : ListenerStep(l) \/ Disturb(l)
  \/ ChainNext /\ UNCHANGED <<indexVars, listener, failures>>

Spec == Init /\ [][Next]_vars

FairSpec == Spec /\ \A l \in Listeners : WF_vars(ListenerStep(l))

-----------------------------------------------------------------------------
(* Properties *)

\* The saved checkpoint vouches for every earlier log: it is recorded, its
\* claim has a row at least as new, and a submission is published or
\* quarantined. Neither a crash nor a failed range lets it run ahead
\* (claims_listener.py, process_latest).
CheckpointComplete ==
  \A log \in LogSet : log.block \in startBlock..checkpoint =>
    /\ log \in events
    /\ rows[log.claim] # NoRow /\ AtOrAfter(rows[log.claim], log)
    /\ log.status = "Submitted" => log \in published \cup deadLetters

\* However often ranges are replayed, and by however many listeners, a row
\* shows the newest recorded log of its claim.
RowsAreNewest ==
  \A c \in 1..MaxClaims : rows[c] # NoRow =>
    /\ rows[c] \in events
    /\ \A log \in events : log.claim = c => AtOrAfter(rows[c], log)

\* Nothing read from a block that a reorganization could still replace is
\* recorded or published.
OnlyFinalLogs == events \cup published \subseteq LogSet

\* Kafka gets an event only after its log is indexed and its bytes have
\* been found to match the anchored hash.
PublishedVerified ==
  \A log \in published : log \in events /\ log.content = "matching"

\* A listener that lags, or repeats ranges after a failure, never moves the
\* shared checkpoint backwards.
CheckpointNeverRegresses == [][checkpoint' >= checkpoint]_vars

\* What readers of the index see is a registry: claims appear in order and
\* their status only moves along the contract's lifecycle.
Projection ==
  LET indexed == {c \in 1..MaxClaims : rows[c] # NoRow}
  IN  IF startBlock <= 1
      THEN [c \in 1..Cardinality(indexed) |->
              [insurer |-> rows[c].content, permit |-> "none",
               status |-> rows[c].status, score |-> 0]]
      ELSE <<>>

Anchors == INSTANCE ClaimAnchors
  WITH claims <- Projection, Accounts <- Contents,
       PermitIds <- {}, NoPermit <- "none", Scores <- {0}

ImplementsAnchors == Anchors!Spec

\* With the replay origin at the deployment block, every confirmed submission
\* is in the end published or quarantined, whatever failed on the way.
SubmissionsSettled ==
  \A tx \in 0..MaxLogs :
    (/\ startBlock <= 1
     /\ \E log \in LogSet : /\ log.tx = tx /\ log.status = "Submitted"
                            /\ log.block <= SafeBlock(head))
      ~> (\E log \in published \cup deadLetters : log.tx = tx)

=============================================================================
