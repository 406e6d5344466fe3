---------------------------- MODULE GaslessRelay ----------------------------
(***************************************************************************)
(* The sponsored-submission outbox: the API that fills it, the relay       *)
(* workers that drain it and the Ethereum account they spend from.         *)
(*                                                                         *)
(*   rows      table gasless_claim_submissions with gasless_relay_attempts *)
(*   nextNonce table gasless_relayer_nonces                                *)
(*   prep,auth API requests in flight (prepare, authorize)                 *)
(*   elapsed   the clocks each row has outlived                            *)
(*   wk        the relay workers between two of their I/O calls            *)
(*   mempool, mined, height, reorgs                                        *)
(*             the chain as the relayer's RPC node shows it                *)
(*                                                                         *)
(* One database transaction, one RPC read or one RPC write is one action.  *)
(* Rows are numbered in creation order, a transaction hash is the pair of  *)
(* a row and a fee (fees of one row strictly increase), and the only       *)
(* sender of the relayer account is this outbox.                           *)
(***************************************************************************)
EXTENDS Integers, FiniteSets

CONSTANTS
  MaxSubs,        \* rows ever created
  Signers,        \* wallets that sign forward requests
  NoSigner,
  Workers,        \* relay worker processes
  MaxFee,         \* fee levels up to the sponsorship cap
  BatchLimit,     \* run_once(limit)
  Confirmations,  \* CONFIRMATION_BLOCKS
  MaxReorgs,      \* reorganisations of at most Confirmations blocks
  StallAllowed    \* may a reorg regrow the chain inside one worker pass?

ASSUME RelayAssumption ==
  /\ MaxSubs \in Nat \ {0}
  /\ MaxFee \in Nat \ {0}
  /\ BatchLimit \in Nat \ {0}
  /\ Confirmations \in Nat
  /\ MaxReorgs \in Nat
  /\ NoSigner \notin Signers
  /\ StallAllowed \in BOOLEAN

VARIABLES rows, nextNonce, prep, auth, elapsed, wk, mempool, mined, height,
          reorgs

apiVars   == <<prep, auth>>
dbVars    == <<rows, nextNonce>>
chainVars == <<mempool, mined, height, reorgs>>
vars      == <<dbVars, apiVars, elapsed, wk, chainVars>>

-----------------------------------------------------------------------------
(* Vocabulary *)

Subs == 1..MaxSubs
Fees == 1..MaxFee

States == {"none", "preparing", "prepared", "authorized", "signed",
           "broadcast", "confirmed", "failed", "expired"}

ActiveStates == {"preparing", "prepared", "authorized", "signed", "broadcast"}

RelayStates == {"authorized", "signed", "broadcast"}

Terminal == {"confirmed", "failed", "expired"}

Row == [state : States, signer : Signers \cup {NoSigner}, fnonce : Nat,
        nonce : Nat, fee : Fees \cup {0}, attempts : SUBSET Fees,
        block : Nat]

NoRow == [state |-> "none", signer |-> NoSigner, fnonce |-> 0, nonce |-> 0,
          fee |-> 0, attempts |-> {}, block |-> 0]

Clocks == {"lease", "deadline", "chainDeadline"}

Tx == [sub : Subs, nonce : Nat, fee : Fees \cup {0}]

Mined == [sub : Subs, nonce : Nat, fee : Fees \cup {0}, block : Nat,
          ok : BOOLEAN]

NoReceipt == [sub |-> 0, nonce |-> 0, fee |-> 0, block |-> 0, ok |-> FALSE]

Snapshot == [sub : Subs, row : Row]

Worker ==
  [pc : {"idle", "sign", "persist", "receipt", "repair", "verify", "send",
         "mark", "stuck", "replace", "resend", "remark", "depth", "confirm",
         "fail"},
   batch : SUBSET Snapshot, sub : Subs \cup {0}, cur : Row,
   fee : Fees \cup {0}, pend : Nat, rcpt : Mined \cup {NoReceipt}]

Idle == [pc |-> "idle", batch |-> {}, sub |-> 0, cur |-> NoRow, fee |-> 0,
         pend |-> 0, rcpt |-> NoReceipt]

Prep == [pc : {"idle", "running", "ready"}, nonce : Nat]

NoPrep == [pc |-> "idle", nonce |-> 0]

TypeOK ==
  /\ rows \in [Subs -> Row]
  /\ nextNonce \in Nat
  /\ prep \in [Subs -> Prep]
  /\ auth \in [Subs -> BOOLEAN]
  /\ elapsed \in [Subs -> SUBSET Clocks]
  /\ wk \in [Workers -> Worker]
  /\ mempool \subseteq Tx
  /\ mined \subseteq Mined
  /\ IsFiniteSet(mined)
  /\ height \in Nat
  /\ reorgs \in 0..MaxReorgs

Init ==
  /\ rows = [r \in Subs |-> NoRow]
  /\ nextNonce = 0
  /\ prep = [r \in Subs |-> NoPrep]
  /\ auth = [r \in Subs |-> FALSE]
  /\ elapsed = [r \in Subs |-> {}]
  /\ wk = [w \in Workers |-> Idle]
  /\ mempool = {}
  /\ mined = {}
  /\ height = 0
  /\ reorgs = 0

-----------------------------------------------------------------------------
(* What the chain answers *)

\* eth_getTransactionCount(relayer, "latest").
AccountNonce == Cardinality(mined)

\* ERC2771Forwarder.nonces(signer): only a successful execute consumes one.
ForwarderNonce(s) ==
  Cardinality({m \in mined : m.ok /\ rows[m.sub].signer = s})

\* ERC2771Forwarder.verify of the stored request and its recorded signature.
Valid(r) ==
  /\ rows[r].fnonce = ForwarderNonce(rows[r].signer)
  /\ "chainDeadline" \notin elapsed[r]

\* eth_getTransactionCount(relayer, "pending").
IsPendingNonce(n) ==
  LET queued == {t.nonce : t \in mempool}
  IN  /\ n >= AccountNonce
      /\ n \notin queued
      /\ AccountNonce..(n - 1) \subseteq queued

\* Receipts of the attempts the database lists for row r.
Receipts(r) ==
  {m \in mined : m.sub = r /\ m.fee \in rows[r].attempts}

Final(m) == m.block + Confirmations <= height

-----------------------------------------------------------------------------
(* API: prepare, authorize and status requests *)

LeaseExpired(r) == rows[r].state = "preparing" /\ "lease" \in elapsed[r]

DeadlineExpired(r, states) ==
  rows[r].state \in states /\ "deadline" \in elapsed[r]

\* Fault: abandoned preparations keep their lease for ever.
ReclaimedWithoutLease(r) ==
  IF DeadlineExpired(r, {"prepared", "authorized"})
  THEN [rows[r] EXCEPT !.state = "expired"] ELSE rows[r]

\* Fault: the deadline also expires rows that already own signed bytes.
ReclaimedAfterSigning(r) ==
  CASE LeaseExpired(r) -> [rows[r] EXCEPT !.state = "failed"]
    [] DeadlineExpired(r, {"prepared", "authorized", "signed"}) ->
         [rows[r] EXCEPT !.state = "expired"]
    [] OTHER -> rows[r]

Reclaimed(r) ==
  CASE LeaseExpired(r) -> [rows[r] EXCEPT !.state = "failed"]
    [] DeadlineExpired(r, {"prepared", "authorized"}) ->
         [rows[r] EXCEPT !.state = "expired"]
    [] OTHER -> rows[r]

\* The table after the lazy expiry updates on the rows of S.
Reclaim(S) == [r \in Subs |-> IF r \in S THEN Reclaimed(r) ELSE rows[r]]

RowsOf(s) == {r \in Subs : rows[r].signer = s}

IsNext(r) == \A q \in Subs : (rows[q].state = "none") <=> (q >= r)

\* begin_preparation for a fresh idempotency key. A conflict with an active
\* row raises, which also rolls the expiry updates back: no step.
BeginPreparation(r, s) ==
  LET reclaimed == Reclaim(RowsOf(s))
  IN  /\ IsNext(r)
      /\ \A q \in RowsOf(s) : reclaimed[q].state \notin ActiveStates
      /\ rows' = [reclaimed EXCEPT
                    ![r] = [NoRow EXCEPT !.state = "preparing", !.signer = s]]
      /\ prep' = [prep EXCEPT ![r].pc = "running"]
      /\ UNCHANGED <<nextNonce, auth, elapsed, wk, chainVars>>

\* begin_preparation for the key of row r: returns it, keeping the expiries.
RetryPreparation(r) ==
  /\ rows[r].state # "none"
  /\ rows' = Reclaim(RowsOf(rows[r].signer))
  /\ UNCHANGED <<nextNonce, apiVars, elapsed, wk, chainVars>>

\* IPFS round trip done; prepare_request reads the forwarder nonce.
PrepareRequest(r) ==
  /\ prep[r].pc = "running"
  /\ prep' = [prep EXCEPT ![r] = [pc |-> "ready",
                                  nonce |-> ForwarderNonce(rows[r].signer)]]
  /\ UNCHANGED <<dbVars, auth, elapsed, wk, chainVars>>

\* Fault: mark_prepared updates whatever state the row is in.
MarkPreparedBlind(r) ==
  /\ prep[r].pc = "ready"
  /\ rows' = [rows EXCEPT ![r].state = "prepared", ![r].fnonce = prep[r].nonce]
  /\ prep' = [prep EXCEPT ![r] = NoPrep]
  /\ UNCHANGED <<nextNonce, auth, elapsed, wk, chainVars>>

\* mark_prepared: compare-and-set from preparing. When the row has moved on,
\* the handler's mark_preparation_failed finds nothing to update either.
MarkPrepared(r) ==
  /\ prep[r].pc = "ready"
  /\ rows' = IF rows[r].state = "preparing"
             THEN [rows EXCEPT ![r].state = "prepared",
                               ![r].fnonce = prep[r].nonce]
             ELSE rows
  /\ prep' = [prep EXCEPT ![r] = NoPrep]
  /\ UNCHANGED <<nextNonce, auth, elapsed, wk, chainVars>>

\* IPFS, RPC or storage error: mark_preparation_failed.
PreparationFails(r) ==
  /\ prep[r].pc # "idle"
  /\ rows' = IF rows[r].state = "preparing"
             THEN [rows EXCEPT ![r].state = "failed"] ELSE rows
  /\ prep' = [prep EXCEPT ![r] = NoPrep]
  /\ UNCHANGED <<nextNonce, auth, elapsed, wk, chainVars>>

\* The API replica serving row r dies; only the lease can free the row.
ApiCrash(r) ==
  /\ prep[r].pc # "idle" \/ auth[r]
  /\ prep' = [prep EXCEPT ![r] = NoPrep]
  /\ auth' = [auth EXCEPT ![r] = FALSE]
  /\ UNCHANGED <<dbVars, elapsed, wk, chainVars>>

\* get_for_credential, on its own (status) or opening authorize.
ReadStatus(r) ==
  /\ LeaseExpired(r) \/ DeadlineExpired(r, {"prepared", "authorized"})
  /\ rows' = Reclaim({r})
  /\ UNCHANGED <<nextNonce, apiVars, elapsed, wk, chainVars>>

\* authorize, first half: a row read while prepared must pass
\* forwarder.verify; one read while preparing is left to the store, which
\* takes it if it is prepared by then. A signature stored that way which does
\* not verify is refused by the worker: the steps of ExceedGasCap.
VerifyAuthorization(r) ==
  /\ \/ /\ rows[r].state = "prepared"
        /\ ~DeadlineExpired(r, {"prepared"})
        /\ Valid(r)
     \/ rows[r].state = "preparing" /\ ~LeaseExpired(r)
  /\ auth' = [auth EXCEPT ![r] = TRUE]
  /\ UNCHANGED <<dbVars, prep, elapsed, wk, chainVars>>

\* store.authorize compares the deadline with the clock of the request's
\* start; a deadline that has passed by then raises and changes nothing.
StoreAuthorization(r) ==
  /\ auth[r]
  /\ auth' = [auth EXCEPT ![r] = FALSE]
  /\ \/ /\ rows[r].state = "prepared"
        /\ rows' = [rows EXCEPT ![r].state = "authorized"]
     \/ /\ rows[r].state # "prepared" \/ "deadline" \in elapsed[r]
        /\ rows' = rows
  /\ UNCHANGED <<nextNonce, prep, elapsed, wk, chainVars>>

Api ==
  \E r \in Subs :
    \/ \E s \in Signers : BeginPreparation(r, s)
    \/ RetryPreparation(r)
    \/ PrepareRequest(r)
    \/ MarkPrepared(r)
    \/ PreparationFails(r)
    \/ ApiCrash(r)
    \/ ReadStatus(r)
    \/ VerifyAuthorization(r)
    \/ StoreAuthorization(r)

-----------------------------------------------------------------------------
(* Relay worker: run_once and process *)

Rank(row) == CASE row.state = "signed" -> 0
               [] row.state = "broadcast" -> 1
               [] OTHER -> 2

\* ORDER BY state rank, created_at.
Before(a, b) ==
  \/ Rank(a.row) < Rank(b.row)
  \/ Rank(a.row) = Rank(b.row) /\ a.sub < b.sub

Candidates(table) ==
  {[sub |-> r, row |-> table[r]] :
     r \in {q \in Subs : table[q].state \in RelayStates}}

FirstOf(S) ==
  {a \in S : Cardinality({b \in S : Before(b, a)}) < BatchLimit}

\* list_relay_candidates: one transaction expires and reads the batch.
Poll(w) ==
  LET reclaimed ==
        [r \in Subs |-> IF DeadlineExpired(r, {"authorized"})
                        THEN Reclaimed(r) ELSE rows[r]]
  IN  /\ wk[w] = Idle
      /\ Candidates(rows) # {}
      /\ rows' = reclaimed
      /\ wk' = [wk EXCEPT ![w].batch = FirstOf(Candidates(reclaimed))]
      /\ UNCHANGED <<nextNonce, apiVars, elapsed, chainVars>>

\* Next record of the batch, as it was when the batch was read.
Take(w) ==
  /\ wk[w].pc = "idle"
  /\ \E a \in wk[w].batch :
       /\ \A b \in wk[w].batch : ~Before(b, a)
       /\ wk' = [wk EXCEPT ![w] =
                   [Idle EXCEPT
                      !.pc = IF a.row.state = "authorized"
                             THEN "sign" ELSE "receipt",
                      !.batch = wk[w].batch \ {a},
                      !.sub = a.sub, !.cur = a.row]]
  /\ UNCHANGED <<dbVars, apiVars, elapsed, chainVars>>

\* process returns; run_once goes on with the rest of the batch.
Done(w) == wk' = [wk EXCEPT ![w] = [Idle EXCEPT !.batch = wk[w].batch]]

\* A GaslessSubmissionConflictError leaves process and run_once.
Abort(w) == wk' = [wk EXCEPT ![w] = Idle]

Step(w, pc) == wk' = [wk EXCEPT ![w].pc = pc]

\* A retryable dependency error: record_relay_error keeps the state.
RetryLater(w) ==
  /\ wk[w].pc \in {"sign", "receipt", "verify", "send", "stuck", "resend",
                   "depth"}
  /\ Done(w)
  /\ UNCHANGED <<dbVars, apiVars, elapsed, chainVars>>

\* prepare_relay_signer and pending_nonce: the request verifies, the quoted
\* fee is above the row's and the estimate fits the gas cap.
Quote(w, next) ==
  /\ Valid(wk[w].sub)
  /\ \E fee \in Fees, n \in 0..nextNonce :
       /\ fee > wk[w].cur.fee
       /\ IsPendingNonce(n)
       /\ wk' = [wk EXCEPT ![w].pc = next, ![w].fee = fee,
                           ![w].pend = IF next = "persist" THEN n ELSE 0]
  /\ UNCHANGED <<dbVars, apiVars, elapsed, chainVars>>

PrepareSigner(w) == wk[w].pc = "sign" /\ Quote(w, "persist")

\* _is_stuck: same nonce, higher fee.
BumpFee(w) == wk[w].pc = "stuck" /\ Quote(w, "replace")

\* Not _is_stuck: the record waits for its receipt.
NotStuck(w) ==
  /\ wk[w].pc = "stuck"
  /\ Done(w)
  /\ UNCHANGED <<dbVars, apiVars, elapsed, chainVars>>

\* Fault: a request that stopped verifying is retried for ever.
RejectRequestRetries(w) ==
  /\ wk[w].pc \in {"sign", "stuck"}
  /\ ~Valid(wk[w].sub)
  /\ Done(w)
  /\ UNCHANGED <<dbVars, apiVars, elapsed, chainVars>>

\* verify_signature fails inside prepare_relay_signer: terminal.
RejectRequest(w) ==
  /\ wk[w].pc \in {"sign", "stuck"}
  /\ ~Valid(wk[w].sub)
  /\ Step(w, "fail")
  /\ UNCHANGED <<dbVars, apiVars, elapsed, chainVars>>

\* The gas estimate exceeds the configured cap, or the stored signature was
\* never verified and is wrong: terminal, whether or not earlier bytes of the
\* row are on the network.
ExceedGasCap(w) ==
  /\ wk[w].pc \in {"sign", "stuck"}
  /\ Valid(wk[w].sub)
  /\ Step(w, "fail")
  /\ UNCHANGED <<dbVars, apiVars, elapsed, chainVars>>

\* The required bump exceeds the sponsorship cap: the row waits.
ExceedFeeCap(w) ==
  /\ wk[w].pc \in {"sign", "stuck"}
  /\ Valid(wk[w].sub)
  /\ wk[w].cur.fee = MaxFee
  /\ Done(w)
  /\ UNCHANGED <<dbVars, apiVars, elapsed, chainVars>>

\* Fault: the allocator is trusted to the RPC alone.
ReservedNonceFromRpc(w) == wk[w].pend

\* Fault: the last reservation is taken for the next one.
ReservedNonceOffByOne(w) ==
  IF wk[w].pend >= nextNonce THEN wk[w].pend - 1 ELSE nextNonce - 1

\* The larger of the RPC's pending nonce and the next reservation.
ReservedNonce(w) ==
  IF wk[w].pend > nextNonce THEN wk[w].pend ELSE nextNonce

\* persist_signed_transaction, under the relayer nonce lock and row lock.
PersistSigned(w) ==
  LET r == wk[w].sub
      n == ReservedNonce(w)
      signed == [rows[r] EXCEPT !.state = "signed", !.nonce = n,
                                !.fee = wk[w].fee, !.attempts = {wk[w].fee}]
  IN  /\ wk[w].pc = "persist"
      /\ \/ /\ rows[r].attempts = {}
            /\ rows[r].state = "authorized"
            /\ nextNonce' = n + 1
            /\ rows' = [rows EXCEPT ![r] = signed]
            /\ wk' = [wk EXCEPT ![w].pc = "receipt", ![w].cur = signed,
                                ![w].fee = 0, ![w].pend = 0]
         \/ /\ rows[r].attempts # {}
            /\ rows[r].state \in {"signed", "broadcast"}
            /\ wk' = [wk EXCEPT ![w].pc = "receipt", ![w].cur = rows[r],
                                ![w].fee = 0, ![w].pend = 0]
            /\ UNCHANGED dbVars
         \/ /\ rows[r].attempts # {}
            /\ rows[r].state \notin {"signed", "broadcast"}
            /\ Done(w)
            /\ UNCHANGED dbVars
         \/ /\ rows[r].attempts = {}
            /\ rows[r].state # "authorized"
            /\ Abort(w)
            /\ UNCHANGED dbVars
      /\ UNCHANGED <<apiVars, elapsed, chainVars>>

\* _receipt_for_any_attempt over every hash in the attempt history.
CheckReceipt(w) ==
  LET found == Receipts(wk[w].sub)
      signed == wk[w].cur.state = "signed"
  IN  /\ wk[w].pc = "receipt"
      /\ \/ \E m \in found :
              wk' = [wk EXCEPT ![w].pc = IF signed THEN "repair" ELSE "depth",
                               ![w].rcpt = m]
         \/ found = {} /\ Step(w, IF signed THEN "verify" ELSE "stuck")
      /\ UNCHANGED <<dbVars, apiVars, elapsed, chainVars>>

\* mark_broadcast; next is where a worker that got its row back goes on.
MarkBroadcast(w, next) ==
  LET r == wk[w].sub
      sent == [rows[r] EXCEPT !.state = "broadcast"]
  IN  /\ \/ /\ rows[r].state \in {"signed", "broadcast"}
            /\ rows' = [rows EXCEPT ![r] = sent]
            /\ IF next = "done" THEN Done(w)
               ELSE wk' = [wk EXCEPT ![w].pc = next, ![w].cur = sent]
         \/ /\ rows[r].state = "confirmed"
            /\ IF next = "depth" THEN Step(w, "depth") ELSE Done(w)
            /\ UNCHANGED rows
         \/ /\ rows[r].state \notin {"signed", "broadcast", "confirmed"}
            /\ Abort(w)
            /\ UNCHANGED rows
      /\ UNCHANGED <<nextNonce, apiVars, elapsed, chainVars>>

\* A receipt for a row still stored as signed: record the broadcast first.
RepairBroadcast(w) == wk[w].pc = "repair" /\ MarkBroadcast(w, "depth")

RecordBroadcast(w) == wk[w].pc = "mark" /\ MarkBroadcast(w, "receipt")

RecordRebroadcast(w) == wk[w].pc = "remark" /\ MarkBroadcast(w, "done")

\* verify_signature before gas is spent on stored bytes.
VerifyBeforeSend(w) ==
  /\ wk[w].pc = "verify"
  /\ Step(w, IF Valid(wk[w].sub) THEN "send" ELSE "fail")
  /\ UNCHANGED <<dbVars, apiVars, elapsed, chainVars>>

CurrentTx(w) == [sub |-> wk[w].sub, nonce |-> wk[w].cur.nonce,
                 fee |-> wk[w].cur.fee]

IsMined(t) ==
  \E m \in mined : m.sub = t.sub /\ m.nonce = t.nonce /\ m.fee = t.fee

\* broadcast: accepted or already known; "nonce too low" is a success only
\* when these exact bytes mined, else relayer_nonce_conflict.
Send(w) ==
  LET t == CurrentTx(w)
      sent == Step(w, IF wk[w].pc = "send" THEN "mark" ELSE "remark")
  IN  /\ wk[w].pc \in {"send", "resend"}
      /\ \/ /\ t.nonce >= AccountNonce
            /\ mempool' = mempool \cup {t}
            /\ sent
         \/ /\ t.nonce < AccountNonce
            /\ IF IsMined(t) THEN sent ELSE Done(w)
            /\ UNCHANGED mempool
      /\ UNCHANGED <<dbVars, apiVars, elapsed, mined, height, reorgs>>

\* The node took the bytes but its reply never arrived: retried later.
LoseReply(w) ==
  /\ wk[w].pc \in {"send", "resend"}
  /\ CurrentTx(w).nonce >= AccountNonce
  /\ mempool' = mempool \cup {CurrentTx(w)}
  /\ Done(w)
  /\ UNCHANGED <<dbVars, apiVars, elapsed, mined, height, reorgs>>

\* Fault: the attempt history keeps the newest hash only.
BumpedOverwrites(r, fee) ==
  [rows[r] EXCEPT !.state = "signed", !.fee = fee, !.attempts = {fee}]

\* Fault: the replacement is signed for a fresh nonce.
BumpedFreshNonce(r, fee) ==
  [rows[r] EXCEPT !.state = "signed", !.fee = fee, !.nonce = nextNonce,
                  !.attempts = @ \cup {fee}]

\* The row after a fee bump: the history only grows.
Bumped(r, fee) ==
  [rows[r] EXCEPT !.state = "signed", !.fee = fee, !.attempts = @ \cup {fee}]

\* persist_replacement_transaction: same nonce, strictly higher fee.
PersistReplacement(w) ==
  LET r == wk[w].sub
      bumped == Bumped(r, wk[w].fee)
  IN  /\ wk[w].pc = "replace"
      /\ \/ /\ rows[r].state = "signed"
            /\ wk' = [wk EXCEPT ![w].pc = "resend", ![w].cur = rows[r],
                                ![w].fee = 0]
            /\ UNCHANGED rows
         \/ /\ rows[r].state = "broadcast"
            /\ wk[w].fee > rows[r].fee
            /\ rows' = [rows EXCEPT ![r] = bumped]
            /\ wk' = [wk EXCEPT ![w].pc = "resend", ![w].cur = bumped,
                                ![w].fee = 0]
         \/ /\ \/ rows[r].state \notin {"signed", "broadcast"}
               \/ rows[r].state = "broadcast" /\ wk[w].fee <= rows[r].fee
            /\ Abort(w)
            /\ UNCHANGED rows
      /\ UNCHANGED <<nextNonce, apiVars, elapsed, chainVars>>

\* Fault: any receipt is taken for a confirmed one.
CheckDepthAtOnce(w) ==
  /\ wk[w].pc = "depth"
  /\ Step(w, IF wk[w].rcpt.ok THEN "confirm" ELSE "fail")
  /\ UNCHANGED <<dbVars, apiVars, elapsed, chainVars>>

\* has_confirmations, then confirm: a reverted receipt is terminal.
CheckDepth(w) ==
  /\ wk[w].pc = "depth"
  /\ IF Final(wk[w].rcpt)
     THEN Step(w, IF wk[w].rcpt.ok THEN "confirm" ELSE "fail")
     ELSE Done(w)
  /\ UNCHANGED <<dbVars, apiVars, elapsed, chainVars>>

\* mark_confirmed; the same receipt again is accepted, another conflicts.
\* Hash and block determine the claim id.
MarkConfirmed(w) ==
  LET r == wk[w].sub
  IN  /\ wk[w].pc = "confirm"
      /\ \/ /\ rows[r].state \in {"signed", "broadcast"}
            /\ rows' = [rows EXCEPT ![r].state = "confirmed",
                                    ![r].fee = wk[w].rcpt.fee,
                                    ![r].block = wk[w].rcpt.block]
            /\ Done(w)
         \/ /\ rows[r].state \notin {"signed", "broadcast"}
            /\ IF /\ rows[r].state = "confirmed"
                  /\ rows[r].fee = wk[w].rcpt.fee
                  /\ rows[r].block = wk[w].rcpt.block
               THEN Done(w) ELSE Abort(w)
            /\ UNCHANGED rows
      /\ UNCHANGED <<nextNonce, apiVars, elapsed, chainVars>>

\* Fault: a terminal error overwrites whatever another worker stored.
RecordFailureBlind(w) ==
  /\ wk[w].pc = "fail"
  /\ rows' = [rows EXCEPT ![wk[w].sub].state = "failed"]
  /\ Done(w)
  /\ UNCHANGED <<nextNonce, apiVars, elapsed, chainVars>>

\* record_relay_error with terminal = TRUE.
RecordFailure(w) ==
  LET r == wk[w].sub
  IN  /\ wk[w].pc = "fail"
      /\ rows' = IF rows[r].state \in RelayStates
                 THEN [rows EXCEPT ![r].state = "failed"] ELSE rows
      /\ Done(w)
      /\ UNCHANGED <<nextNonce, apiVars, elapsed, chainVars>>

\* The process dies, or a storage error ends the pass: nothing in memory
\* survives to the next poll.
Crash(w) ==
  /\ wk[w] # Idle
  /\ Abort(w)
  /\ UNCHANGED <<dbVars, apiVars, elapsed, chainVars>>

\* What a healthy worker does next.
Advance(w) ==
  \/ Poll(w)
  \/ Take(w)
  \/ PrepareSigner(w)
  \/ PersistSigned(w)
  \/ CheckReceipt(w)
  \/ RepairBroadcast(w)
  \/ VerifyBeforeSend(w)
  \/ Send(w)
  \/ RecordBroadcast(w)
  \/ RecordRebroadcast(w)
  \/ BumpFee(w)
  \/ RejectRequest(w)
  \/ ExceedFeeCap(w)
  \/ PersistReplacement(w)
  \/ CheckDepth(w)
  \/ MarkConfirmed(w)
  \/ RecordFailure(w)

\* What holds it up: waiting, errors and crashes.
Disturb(w) ==
  \/ NotStuck(w)
  \/ RetryLater(w)
  \/ LoseReply(w)
  \/ Crash(w)

Relay(w) == Advance(w) \/ Disturb(w) \/ ExceedGasCap(w)

-----------------------------------------------------------------------------
(* Chain and clocks *)

\* Any propagated transaction with the account's next nonce may be mined;
\* its other same-nonce attempts die. execute reverts on a stale forwarder
\* nonce or deadline, and may revert inside the registry.
Mine(t) ==
  /\ t \in mempool
  /\ t.nonce = AccountNonce
  /\ \E ok \in BOOLEAN :
       /\ ok => Valid(t.sub)
       /\ mined' = mined \cup {[sub |-> t.sub, nonce |-> t.nonce,
                                fee |-> t.fee, block |-> height + 1,
                                ok |-> ok]}
  /\ mempool' = {u \in mempool : u.nonce # t.nonce}
  /\ height' = height + 1
  /\ UNCHANGED <<dbVars, apiVars, elapsed, wk, reorgs>>

\* An empty block matters only while some receipt is not yet final.
NextBlock ==
  /\ \E m \in mined : ~Final(m)
  /\ height' = height + 1
  /\ UNCHANGED <<dbVars, apiVars, elapsed, wk, mempool, mined, reorgs>>

\* A heavier chain replaces the last d blocks; their transactions return to
\* the mempool. Unless StallAllowed, no worker sits between its receipt read
\* and its depth read while that happens.
Reorg(d) ==
  LET dropped == {m \in mined : m.block > height - d}
  IN  /\ reorgs < MaxReorgs
      /\ dropped # {}
      /\ \/ StallAllowed
         \/ \A w \in Workers : wk[w].pc \notin {"repair", "depth"}
      /\ mined' = mined \ dropped
      /\ mempool' = mempool \cup {[sub |-> m.sub, nonce |-> m.nonce,
                                   fee |-> m.fee] : m \in dropped}
      /\ height' = height + 1
      /\ reorgs' = reorgs + 1
      /\ UNCHANGED <<dbVars, apiVars, elapsed, wk>>

\* Nodes forget transactions they cannot place.
Evict(t) ==
  /\ t \in mempool
  /\ mempool' = mempool \ {t}
  /\ UNCHANGED <<dbVars, apiVars, elapsed, wk, mined, height, reorgs>>

\* The ten-minute lease, the deadline by the database clock and the deadline
\* by block timestamps run out independently of each other.
Elapse(r, c) ==
  /\ c \notin elapsed[r]
  /\ CASE c = "lease" -> rows[r].state = "preparing"
       [] c = "deadline" -> rows[r].state \in {"prepared", "authorized"}
       [] OTHER -> \/ rows[r].state \in ActiveStates \ {"preparing"}
                   \/ \E t \in mempool : t.sub = r
  /\ elapsed' = [elapsed EXCEPT ![r] = @ \cup {c}]
  /\ UNCHANGED <<dbVars, apiVars, wk, chainVars>>

Chain ==
  \/ \E t \in mempool : Mine(t) \/ Evict(t)
  \/ NextBlock
  \/ \E d \in 1..Confirmations : Reorg(d)
  \/ \E r \in Subs, c \in Clocks : Elapse(r, c)

Next == Api \/ (\E w \in Workers : Relay(w)) \/ Chain

Spec == Init /\ [][Next]_vars

\* Workers keep polling, blocks keep coming, clocks keep running, and from
\* some point on RPC and database answer and the last send is old enough to
\* count as stuck (fees are capped, so sends are finite). A healthy worker
\* waits too, at the fee cap and for depth, and those steps stay allowed.
Fairness ==
  /\ \A w \in Workers : WF_vars(Advance(w))
  /\ WF_vars(NextBlock)
  /\ \A r \in Subs, c \in Clocks : WF_vars(Elapse(r, c))
  /\ <>[][\A w \in Workers : Disturb(w) => Advance(w)]_vars

FairSpec == Spec /\ Fairness

-----------------------------------------------------------------------------
(* Safety *)

\* begin_preparation, the lease and every compare-and-set together keep two
\* browser tabs from holding the same wallet's forwarder nonce: a wallet has
\* at most one row that is not finished.
OneActivePerSigner ==
  \A q, r \in Subs :
    /\ q # r
    /\ rows[q].state \in ActiveStates
    /\ rows[r].state \in ActiveStates
    => rows[q].signer # rows[r].signer

\* persist_signed_transaction reserves a relayer nonce once: no two rows own
\* the same one, whatever the RPC said was pending, and the allocator is
\* already past every nonce a row owns.
NoncesOwned ==
  \A r \in Subs :
    rows[r].attempts # {} =>
      /\ rows[r].nonce < nextNonce
      /\ \A q \in Subs \ {r} :
           rows[q].attempts # {} => rows[q].nonce # rows[r].nonce

\* Signed bytes are committed before they are sent: whatever the network
\* holds or has mined is an attempt the database lists for its row.
PersistedBeforeSent ==
  \A t \in mempool \cup mined :
    /\ t.nonce = rows[t.sub].nonce
    /\ t.fee \in rows[t.sub].attempts

\* Replacements, replays by a second worker and replays after a crash spend
\* the relayer's gas at most once for one row.
OneMinedAttempt ==
  \A m, n \in mined : m.sub = n.sub => m = n

\* A row reads confirmed only when exactly the transaction it names is on
\* the chain in the block it names, succeeded, and lies too deep to be
\* reorganised away.
ConfirmedIsFinal ==
  \A r \in Subs :
    rows[r].state = "confirmed" =>
      \E m \in mined :
        /\ m.sub = r /\ m.fee = rows[r].fee /\ m.block = rows[r].block
        /\ m.ok /\ Final(m)

\* The lazy expiry never races a signer: an expired row owns no nonce and no
\* transaction, so releasing its wallet is safe.
ExpiredUnsigned ==
  \A r \in Subs : rows[r].state = "expired" => rows[r].attempts = {}

\* Every transaction of the API and of the relay workers is a legal step of
\* the workflow's state machine.
Lifecycle ==
  INSTANCE OutboxLifecycle WITH
    state  <- [r \in Subs |-> rows[r].state],
    signer <- [r \in Subs |-> rows[r].signer]

ImplementsLifecycle == Lifecycle!Spec

\* An abandoned request frees its wallet: a row that holds a wallet either
\* ends or becomes one that the wallet's next request sweeps away.
WalletFreed ==
  \A r \in Subs :
    (rows[r].state \in ActiveStates) ~> (Reclaimed(r).state \in Terminal)

\* No request stays in the outbox for ever, whatever happens to its
\* transactions: evicted, capped or behind a nonce gap it ends by its deadline.
AuthorizedTerminates ==
  \A r \in Subs :
    (rows[r].state = "authorized") ~> (rows[r].state \in Terminal)

\* A terminal relay error proves that the request cannot go on: a failed row
\* never has a successful claim transaction on the chain.
FailedNotAnchored ==
  \A r \in Subs :
    rows[r].state = "failed" => ~\E m \in mined : m.sub = r /\ m.ok

=============================================================================
