------------------------- MODULE GaslessRelay_proofs -------------------------
(***************************************************************************)
(* What holds of the sponsored-submission outbox for any number of rows,   *)
(* wallets, relay workers, fee levels, confirmations and reorganisations.  *)
(***************************************************************************)
EXTENDS GaslessRelay, FiniteSetTheorems, TLAPS

\* Every step of the system, under its own name.
LEMMA NextCases ==
  ASSUME Next, NEW P,
         \A r \in Subs, s \in Signers : BeginPreparation(r, s) => P,
         \A r \in Subs : RetryPreparation(r) => P,
         \A r \in Subs : PrepareRequest(r) => P,
         \A r \in Subs : MarkPrepared(r) => P,
         \A r \in Subs : PreparationFails(r) => P,
         \A r \in Subs : ApiCrash(r) => P,
         \A r \in Subs : ReadStatus(r) => P,
         \A r \in Subs : VerifyAuthorization(r) => P,
         \A r \in Subs : StoreAuthorization(r) => P,
         \A w \in Workers : Poll(w) => P,
         \A w \in Workers : Take(w) => P,
         \A w \in Workers : PrepareSigner(w) => P,
         \A w \in Workers : PersistSigned(w) => P,
         \A w \in Workers : CheckReceipt(w) => P,
         \A w \in Workers : RepairBroadcast(w) => P,
         \A w \in Workers : VerifyBeforeSend(w) => P,
         \A w \in Workers : Send(w) => P,
         \A w \in Workers : RecordBroadcast(w) => P,
         \A w \in Workers : RecordRebroadcast(w) => P,
         \A w \in Workers : BumpFee(w) => P,
         \A w \in Workers : RejectRequest(w) => P,
         \A w \in Workers : ExceedFeeCap(w) => P,
         \A w \in Workers : PersistReplacement(w) => P,
         \A w \in Workers : CheckDepth(w) => P,
         \A w \in Workers : MarkConfirmed(w) => P,
         \A w \in Workers : RecordFailure(w) => P,
         \A w \in Workers : NotStuck(w) => P,
         \A w \in Workers : RetryLater(w) => P,
         \A w \in Workers : LoseReply(w) => P,
         \A w \in Workers : Crash(w) => P,
         \A w \in Workers : ExceedGasCap(w) => P,
         \A t \in mempool : Mine(t) => P,
         \A t \in mempool : Evict(t) => P,
         NextBlock => P,
         \A d \in 1..Confirmations : Reorg(d) => P,
         \A r \in Subs, c \in Clocks : Elapse(r, c) => P
  PROVE  P
<1>1. CASE Api
  BY <1>1 DEF Api
<1>2. ASSUME NEW w \in Workers, Relay(w) PROVE P
  BY <1>2 DEF Relay, Advance, Disturb
<1>3. CASE Chain
  BY <1>3 DEF Chain
<1> QED
  BY <1>1, <1>2, <1>3 DEF Next

-----------------------------------------------------------------------------
(* Types *)

\* A worker that is not idle works on some row, and one about to persist a
\* transaction has been quoted a fee for it.
Fit(v) ==
  /\ v.pc # "idle" => v.sub \in Subs
  /\ v.pc \in {"persist", "replace"} => v.fee \in Fees

Engaged == \A w \in Workers : Fit(wk[w])

TypeInv == TypeOK /\ Engaged

LEMMA ConstantsTyped ==
  /\ NoRow \in Row
  /\ Idle \in Worker
  /\ NoPrep \in Prep
  /\ Idle.pc = "idle"
  /\ Fit(Idle)
BY DEF Fit, NoRow, Row, States, Idle, Worker, Snapshot, NoReceipt, NoPrep, Prep

LEMMA TypeInit == Init => TypeInv
BY ConstantsTyped, RelayAssumption, FS_EmptySet
DEF Init, TypeInv, TypeOK, Engaged

\* The worker that takes a step keeps its type if its new record has it.
LEMMA WorkerTyped ==
  ASSUME TypeInv, NEW w \in Workers, NEW v \in Worker,
         Fit(v),
         wk' = [wk EXCEPT ![w] = v]
  PROVE  wk' \in [Workers -> Worker] /\ Engaged'
BY DEF TypeInv, TypeOK, Engaged

LEMMA DoneTyped ==
  ASSUME TypeInv, NEW w \in Workers, Done(w)
  PROVE  wk' \in [Workers -> Worker] /\ Engaged'
<1>1. [Idle EXCEPT !.batch = wk[w].batch] \in Worker
  BY ConstantsTyped DEF TypeInv, TypeOK, Worker
<1>2. Fit([Idle EXCEPT !.batch = wk[w].batch])
  BY DEF Idle, Fit
<1> QED
  BY <1>1, <1>2, WorkerTyped DEF Done

LEMMA AbortTyped ==
  ASSUME TypeInv, NEW w \in Workers, Abort(w)
  PROVE  wk' \in [Workers -> Worker] /\ Engaged'
BY ConstantsTyped, WorkerTyped DEF Abort

LEMMA StepTyped ==
  ASSUME TypeInv, NEW w \in Workers, wk[w].pc # "idle",
         NEW pc \in {"send", "mark", "remark", "verify", "stuck", "depth",
                     "confirm", "fail"},
         Step(w, pc)
  PROVE  wk' \in [Workers -> Worker] /\ Engaged'
<1>1. wk[w] \in Worker /\ wk[w].sub \in Subs
  BY DEF TypeInv, TypeOK, Engaged, Fit
<1> DEFINE v == [wk[w] EXCEPT !.pc = pc]
<1>2. v \in Worker /\ Fit(v)
  BY <1>1 DEF Fit, Worker
<1>3. wk' = [wk EXCEPT ![w] = v]
  BY DEF Step, TypeInv, TypeOK
<1> HIDE DEF v
<1> QED
  BY <1>2, <1>3, WorkerTyped

LEMMA ReclaimedTyped ==
  ASSUME TypeOK, NEW r \in Subs
  PROVE  Reclaimed(r) \in Row
<1>1. rows[r] \in Row
  BY DEF TypeOK
<1> QED
  BY <1>1 DEF Reclaimed, Row, States

\* A step that at most moves one row to another state.
LEMMA StateTyped ==
  ASSUME TypeOK, NEW r \in Subs, NEW st \in States,
         rows' = rows \/ rows' = [rows EXCEPT ![r].state = st]
  PROVE  rows' \in [Subs -> Row]
<1> DEFINE v == [rows[r] EXCEPT !.state = st]
<1>1. rows[r] \in Row
  BY DEF TypeOK
<1>2. v \in Row
  BY <1>1 DEF Row
<1>3. rows' = rows \/ rows' = [rows EXCEPT ![r] = v]
  BY DEF TypeOK
<1> HIDE DEF v
<1> QED
  BY <1>2, <1>3 DEF TypeOK

LEMMA QuoteTyped ==
  ASSUME TypeInv, NEW w \in Workers, wk[w].pc # "idle",
         NEW next \in {"persist", "replace"}, Quote(w, next)
  PROVE  wk' \in [Workers -> Worker] /\ Engaged'
<1>1. wk[w] \in Worker /\ wk[w].sub \in Subs
  BY DEF TypeInv, TypeOK, Engaged, Fit
<1>2. PICK fee \in Fees, n \in 0..nextNonce :
        wk' = [wk EXCEPT ![w].pc = next, ![w].fee = fee,
                         ![w].pend = IF next = "persist" THEN n ELSE 0]
  BY DEF Quote
<1>3. n \in Nat
  BY DEF TypeInv, TypeOK
<1> DEFINE v == [wk[w] EXCEPT !.pc = next, !.fee = fee,
                              !.pend = IF next = "persist" THEN n ELSE 0]
<1>4. v \in Worker /\ Fit(v)
  BY <1>1, <1>3 DEF Fit, Worker
<1>5. wk' = [wk EXCEPT ![w] = v]
  BY <1>1, <1>2
<1> HIDE DEF v
<1> QED
  BY <1>4, <1>5, WorkerTyped

LEMMA MarkBroadcastTyped ==
  ASSUME TypeInv, NEW w \in Workers, wk[w].pc # "idle",
         NEW next \in {"receipt", "depth", "done"}, MarkBroadcast(w, next)
  PROVE  TypeInv'
<1> DEFINE r == wk[w].sub
           sent == [rows[r] EXCEPT !.state = "broadcast"]
<1>1. wk[w] \in Worker /\ r \in Subs
  BY DEF TypeInv, TypeOK, Engaged, Fit
<1>2. rows[r] \in Row /\ sent \in Row
  <2>1. rows[r] \in Row
    BY <1>1 DEF TypeInv, TypeOK
  <2> QED
    BY <2>1 DEF Row, States
<1>3. rows' \in [Subs -> Row]
  BY <1>1, StateTyped DEF MarkBroadcast, TypeInv, States
<1>4. wk' \in [Workers -> Worker] /\ Engaged'
  <2>1. CASE Done(w) \/ Abort(w)
    BY <2>1, DoneTyped, AbortTyped
  <2>2. CASE Step(w, "depth")
    BY <2>2, StepTyped
  <2>3. CASE /\ next # "done"
             /\ wk' = [wk EXCEPT ![w].pc = next, ![w].cur = sent]
    <3> DEFINE v == [wk[w] EXCEPT !.pc = next, !.cur = sent]
    <3>1. v \in Worker /\ Fit(v)
      BY <1>1, <1>2, <2>3 DEF Fit, Worker
    <3>2. wk' = [wk EXCEPT ![w] = v]
      BY <2>3 DEF TypeInv, TypeOK
    <3> HIDE DEF v
    <3> QED
      BY <3>1, <3>2, WorkerTyped
  <2> QED
    BY <2>1, <2>2, <2>3 DEF MarkBroadcast
<1> QED
  BY <1>3, <1>4 DEF MarkBroadcast, TypeInv, TypeOK, apiVars, chainVars

\* Every action keeps the types; one named step per action.
LEMMA TypeStep == TypeInv /\ [Next]_vars => TypeInv'
<1> SUFFICES ASSUME TypeInv, [Next]_vars PROVE TypeInv'
  OBVIOUS
<1>0. TypeOK
  BY DEF TypeInv
<1> USE DEF apiVars, dbVars, chainVars
<1>r. ASSUME NEW r \in Subs, NEW v \in Row, rows' = [rows EXCEPT ![r] = v]
      PROVE  rows' \in [Subs -> Row]
  BY <1>0, <1>r DEF TypeOK
<1>f. \A s : ForwarderNonce(s) \in Nat
  <2>1. ASSUME NEW s
        PROVE  ForwarderNonce(s) \in Nat
    <3>1. {m \in mined : m.ok /\ rows[m.sub].signer = s} \in SUBSET mined
      OBVIOUS
    <3>2. IsFiniteSet({m \in mined : m.ok /\ rows[m.sub].signer = s})
      BY <1>0, <3>1, FS_Subset DEF TypeOK
    <3> QED
      BY <3>2, FS_CardinalityType DEF ForwarderNonce
  <2> QED
    BY <2>1
<1>w. ASSUME NEW w \in Workers, wk[w].pc # "idle"
      PROVE  wk[w] \in Worker /\ wk[w].sub \in Subs /\ rows[wk[w].sub] \in Row
  BY <1>w DEF TypeInv, TypeOK, Engaged, Fit
<1>1. CASE UNCHANGED vars
  BY <1>0, <1>1 DEF TypeInv, TypeOK, Engaged, vars
<1>2. CASE Next
  <2>1. ASSUME NEW r \in Subs, NEW s \in Signers, BeginPreparation(r, s)
        PROVE  TypeInv'
    <3>1. [NoRow EXCEPT !.state = "preparing", !.signer = s] \in Row
      BY DEF NoRow, Row, States
    <3>2. Reclaim(RowsOf(s)) \in [Subs -> Row]
      BY <1>0, ReclaimedTyped DEF Reclaim, TypeOK
    <3>3. rows' \in [Subs -> Row]
      BY <2>1, <3>1, <3>2 DEF BeginPreparation
    <3>4. prep' \in [Subs -> Prep]
      BY <1>0, <2>1 DEF BeginPreparation, TypeOK, Prep
    <3> QED
      BY <2>1, <3>3, <3>4 DEF BeginPreparation, TypeInv, TypeOK, Engaged
  <2>2. ASSUME NEW r \in Subs, RetryPreparation(r) \/ ReadStatus(r)
        PROVE  TypeInv'
    <3>1. \A S : Reclaim(S) \in [Subs -> Row]
      BY <1>0, ReclaimedTyped DEF Reclaim, TypeOK
    <3>2. rows' \in [Subs -> Row]
      BY <2>2, <3>1 DEF RetryPreparation, ReadStatus
    <3> QED
      BY <2>2, <3>2 DEF RetryPreparation, ReadStatus, TypeInv, TypeOK, Engaged
  <2>3. ASSUME NEW r \in Subs, PrepareRequest(r)
        PROVE  TypeInv'
    <3>1. prep' \in [Subs -> Prep]
      BY <1>0, <1>f, <2>3 DEF PrepareRequest, TypeOK, Prep
    <3> QED
      BY <2>3, <3>1 DEF PrepareRequest, TypeInv, TypeOK, Engaged
  <2>4. ASSUME NEW r \in Subs, MarkPrepared(r)
        PROVE  TypeInv'
    <3>1. rows' \in [Subs -> Row]
      <4> DEFINE v == [rows[r] EXCEPT !.state = "prepared",
                                      !.fnonce = prep[r].nonce]
      <4>1. rows[r] \in Row /\ prep[r].nonce \in Nat
        BY <1>0 DEF TypeOK, Prep
      <4>2. v \in Row
        BY <4>1 DEF Row, States
      <4>3. rows' = rows \/ rows' = [rows EXCEPT ![r] = v]
        BY <1>0, <2>4 DEF MarkPrepared, TypeOK
      <4> HIDE DEF v
      <4> QED
        BY <1>0, <1>r, <4>2, <4>3 DEF TypeOK
    <3>2. prep' \in [Subs -> Prep]
      BY <1>0, <2>4, ConstantsTyped DEF MarkPrepared, TypeOK
    <3> QED
      BY <2>4, <3>1, <3>2 DEF MarkPrepared, TypeInv, TypeOK, Engaged
  <2>5. ASSUME NEW r \in Subs, PreparationFails(r)
        PROVE  TypeInv'
    <3>1. rows' \in [Subs -> Row]
      BY <1>0, <2>5, StateTyped DEF PreparationFails, States
    <3>2. prep' \in [Subs -> Prep]
      BY <1>0, <2>5, ConstantsTyped DEF PreparationFails, TypeOK
    <3> QED
      BY <2>5, <3>1, <3>2 DEF PreparationFails, TypeInv, TypeOK, Engaged
  <2>6. ASSUME NEW r \in Subs, ApiCrash(r)
        PROVE  TypeInv'
    BY <1>0, <2>6, ConstantsTyped DEF ApiCrash, TypeInv, TypeOK, Engaged
  <2>7. ASSUME NEW r \in Subs, VerifyAuthorization(r)
        PROVE  TypeInv'
    BY <1>0, <2>7 DEF VerifyAuthorization, TypeInv, TypeOK, Engaged
  <2>8. ASSUME NEW r \in Subs, StoreAuthorization(r)
        PROVE  TypeInv'
    <3>1. rows' \in [Subs -> Row]
      BY <1>0, <2>8, StateTyped DEF StoreAuthorization, States
    <3> QED
      BY <2>8, <3>1 DEF StoreAuthorization, TypeInv, TypeOK, Engaged
  <2>9. ASSUME NEW w \in Workers, Poll(w)
        PROVE  TypeInv'
    <3> DEFINE reclaimed ==
                 [r \in Subs |-> IF DeadlineExpired(r, {"authorized"})
                                 THEN Reclaimed(r) ELSE rows[r]]
               batch == FirstOf(Candidates(reclaimed))
               v == [wk[w] EXCEPT !.batch = batch]
    <3>1. reclaimed \in [Subs -> Row]
      BY <1>0, ReclaimedTyped DEF TypeOK
    <3>2. rows' = reclaimed /\ wk' = [wk EXCEPT ![w].batch = batch]
      BY <2>9 DEF Poll
    <3> HIDE DEF reclaimed
    <3>3. batch \subseteq Snapshot
      BY <3>1 DEF FirstOf, Candidates, Snapshot
    <3> HIDE DEF batch
    <3>4. v \in Worker /\ Fit(v) /\ wk' = [wk EXCEPT ![w] = v]
      BY <1>0, <2>9, <3>2, <3>3, ConstantsTyped DEF Fit, Poll, Worker, TypeOK, Idle
    <3> HIDE DEF v
    <3>5. wk' \in [Workers -> Worker] /\ Engaged'
      BY <3>4, WorkerTyped
    <3> QED
      BY <2>9, <3>1, <3>2, <3>5 DEF Poll, TypeInv, TypeOK
  <2>10. ASSUME NEW w \in Workers, Take(w)
         PROVE  TypeInv'
    <3>1. PICK a \in wk[w].batch :
            wk' = [wk EXCEPT ![w] =
                     [Idle EXCEPT
                        !.pc = IF a.row.state = "authorized"
                               THEN "sign" ELSE "receipt",
                        !.batch = wk[w].batch \ {a},
                        !.sub = a.sub, !.cur = a.row]]
      BY <2>10 DEF Take
    <3> DEFINE v == [Idle EXCEPT
                        !.pc = IF a.row.state = "authorized"
                               THEN "sign" ELSE "receipt",
                        !.batch = wk[w].batch \ {a},
                        !.sub = a.sub, !.cur = a.row]
    <3>2. a \in Snapshot /\ wk[w].batch \subseteq Snapshot
      BY <1>0 DEF TypeOK, Worker
    <3>3. v \in Worker /\ Fit(v)
      BY <3>2, ConstantsTyped DEF Fit, Idle, Worker, Snapshot
    <3>4. wk' = [wk EXCEPT ![w] = v]
      BY <3>1
    <3> HIDE DEF v
    <3>5. wk' \in [Workers -> Worker] /\ Engaged'
      BY <3>3, <3>4, WorkerTyped
    <3> QED
      BY <2>10, <3>5 DEF Take, TypeInv, TypeOK
  <2>11. ASSUME NEW w \in Workers, PrepareSigner(w) \/ BumpFee(w)
         PROVE  TypeInv'
    <3>1. wk' \in [Workers -> Worker] /\ Engaged'
      BY <2>11, QuoteTyped DEF PrepareSigner, BumpFee
    <3> QED
      BY <2>11, <3>1 DEF PrepareSigner, BumpFee, Quote, TypeInv, TypeOK
  <2>12. ASSUME NEW w \in Workers, PersistSigned(w)
         PROVE  TypeInv'
    <3> DEFINE r == wk[w].sub
               n == ReservedNonce(w)
               signed == [rows[r] EXCEPT !.state = "signed", !.nonce = n,
                                 !.fee = wk[w].fee, !.attempts = {wk[w].fee}]
    <3>1. wk[w] \in Worker /\ r \in Subs /\ rows[r] \in Row
      BY <1>w, <2>12 DEF PersistSigned
    <3>2. n \in Nat /\ nextNonce \in Nat
      BY <1>0, <3>1 DEF ReservedNonce, TypeOK, Worker
    <3>3. CASE /\ wk[w].fee \in Fees
               /\ nextNonce' = n + 1
               /\ rows' = [rows EXCEPT ![r] = signed]
               /\ wk' = [wk EXCEPT ![w].pc = "receipt", ![w].cur = signed,
                                   ![w].fee = 0, ![w].pend = 0]
      <4>1. signed \in Row
        BY <3>1, <3>2, <3>3 DEF Row, States
      <4> DEFINE v == [wk[w] EXCEPT !.pc = "receipt", !.cur = signed,
                                    !.fee = 0, !.pend = 0]
      <4> HIDE DEF signed, n
      <4>2. v \in Worker /\ Fit(v)
        BY <3>1, <4>1 DEF Fit, Worker
      <4>3. wk' = [wk EXCEPT ![w] = v]
        BY <1>0, <3>3 DEF TypeOK
      <4> HIDE DEF v
      <4>4. wk' \in [Workers -> Worker] /\ Engaged'
        BY <4>2, <4>3, WorkerTyped
      <4>5. rows' \in [Subs -> Row]
        BY <1>r, <3>1, <3>3, <4>1
      <4> QED
        BY <2>12, <3>2, <3>3, <4>4, <4>5 DEF PersistSigned, TypeInv, TypeOK
    <3>4. CASE /\ UNCHANGED dbVars
               /\ wk' = [wk EXCEPT ![w].pc = "receipt", ![w].cur = rows[r],
                                   ![w].fee = 0, ![w].pend = 0]
      <4> DEFINE v == [wk[w] EXCEPT !.pc = "receipt", !.cur = rows[r],
                                    !.fee = 0, !.pend = 0]
      <4>1. v \in Worker /\ Fit(v)
        BY <3>1 DEF Fit, Worker
      <4>2. wk' = [wk EXCEPT ![w] = v]
        BY <1>0, <3>4 DEF TypeOK
      <4> HIDE DEF v
      <4>3. wk' \in [Workers -> Worker] /\ Engaged'
        BY <4>1, <4>2, WorkerTyped
      <4> QED
        BY <2>12, <3>4, <4>3 DEF PersistSigned, TypeInv, TypeOK
    <3>5. CASE UNCHANGED dbVars /\ (Done(w) \/ Abort(w))
      <4>1. wk' \in [Workers -> Worker] /\ Engaged'
        BY <3>5, DoneTyped, AbortTyped
      <4> QED
        BY <2>12, <3>5, <4>1 DEF PersistSigned, TypeInv, TypeOK
    <3>6. wk[w].fee \in Fees
      BY <2>12 DEF PersistSigned, TypeInv, Engaged, Fit
    <3> QED
      BY <2>12, <3>3, <3>4, <3>5, <3>6 DEF PersistSigned
  <2>13. ASSUME NEW w \in Workers, CheckReceipt(w)
         PROVE  TypeInv'
    <3>1. wk[w] \in Worker /\ wk[w].sub \in Subs
      BY <1>w, <2>13 DEF CheckReceipt
    <3>2. ASSUME NEW m \in Receipts(wk[w].sub), NEW pc \in {"repair", "depth"},
                 wk' = [wk EXCEPT ![w].pc = pc, ![w].rcpt = m]
          PROVE  wk' \in [Workers -> Worker] /\ Engaged'
      <4> DEFINE v == [wk[w] EXCEPT !.pc = pc, !.rcpt = m]
      <4>1. m \in Mined
        BY <1>0 DEF Receipts, TypeOK
      <4>2. v \in Worker /\ Fit(v)
        BY <3>1, <4>1 DEF Fit, Worker
      <4>3. wk' = [wk EXCEPT ![w] = v]
        BY <1>0, <3>2 DEF TypeOK
      <4> HIDE DEF v
      <4> QED
        BY <4>2, <4>3, WorkerTyped
    <3>3. wk' \in [Workers -> Worker] /\ Engaged'
      BY <2>13, <3>2, StepTyped DEF CheckReceipt
    <3> QED
      BY <2>13, <3>3 DEF CheckReceipt, TypeInv, TypeOK
  <2>14. ASSUME NEW w \in Workers,
                RepairBroadcast(w) \/ RecordBroadcast(w) \/ RecordRebroadcast(w)
         PROVE  TypeInv'
    BY <2>14, MarkBroadcastTyped
    DEF RepairBroadcast, RecordBroadcast, RecordRebroadcast
  <2>15. ASSUME NEW w \in Workers,
                \/ VerifyBeforeSend(w)
                \/ RejectRequest(w)
                \/ ExceedGasCap(w)
                \/ ExceedFeeCap(w)
                \/ CheckDepth(w)
                \/ NotStuck(w)
                \/ RetryLater(w)
                \/ Crash(w)
         PROVE  TypeInv'
    <3>1. wk' \in [Workers -> Worker] /\ Engaged'
      BY <2>15, StepTyped, DoneTyped, AbortTyped
      DEF VerifyBeforeSend, RejectRequest, ExceedGasCap, ExceedFeeCap,
          CheckDepth, NotStuck, RetryLater, Crash
    <3> QED
      BY <2>15, <3>1
      DEF VerifyBeforeSend, RejectRequest, ExceedGasCap, ExceedFeeCap,
          CheckDepth, NotStuck, RetryLater, Crash, TypeInv, TypeOK
  <2>16. ASSUME NEW w \in Workers, Send(w) \/ LoseReply(w)
         PROVE  TypeInv'
    <3>1. wk[w] \in Worker /\ wk[w].sub \in Subs /\ wk[w].pc # "idle"
      BY <1>w, <2>16 DEF Send, LoseReply
    <3>2. wk' \in [Workers -> Worker] /\ Engaged'
      BY <2>16, <3>1, StepTyped, DoneTyped DEF Send, LoseReply
    <3>3. mempool' = mempool \/ mempool' = mempool \cup {CurrentTx(w)}
      BY <2>16 DEF Send, LoseReply
    <3>4. CurrentTx(w) \in Tx
      BY <3>1 DEF CurrentTx, Tx, Worker, Row
    <3>5. mempool' \subseteq Tx
      BY <1>0, <3>3, <3>4 DEF TypeOK
    <3> QED
      BY <2>16, <3>2, <3>5
      DEF Send, LoseReply, TypeInv, TypeOK
  <2>17. ASSUME NEW w \in Workers, PersistReplacement(w)
         PROVE  TypeInv'
    <3> DEFINE r == wk[w].sub
               row == IF rows[r].state = "signed" THEN rows[r]
                      ELSE Bumped(r, wk[w].fee)
    <3>1. wk[w] \in Worker /\ r \in Subs /\ rows[r] \in Row /\ wk[w].fee \in Fees
      BY <1>w, <2>17 DEF PersistReplacement, TypeInv, Engaged, Fit
    <3>2. row \in Row
      BY <3>1 DEF Bumped, Row, States
    <3>3. rows' \in [Subs -> Row]
      BY <1>0, <1>r, <2>17, <3>1, <3>2 DEF PersistReplacement, TypeOK
    <3>4. CASE wk' = [wk EXCEPT ![w].pc = "resend", ![w].cur = row, ![w].fee = 0]
      <4> DEFINE v == [wk[w] EXCEPT !.pc = "resend", !.cur = row, !.fee = 0]
      <4> HIDE DEF row
      <4>1. v \in Worker /\ Fit(v)
        BY <3>1, <3>2 DEF Fit, Worker
      <4>2. wk' = [wk EXCEPT ![w] = v]
        BY <1>0, <3>4 DEF TypeOK
      <4> HIDE DEF v
      <4>3. wk' \in [Workers -> Worker] /\ Engaged'
        BY <4>1, <4>2, WorkerTyped
      <4> QED
        BY <2>17, <3>3, <4>3 DEF PersistReplacement, TypeInv, TypeOK
    <3>5. CASE Abort(w)
      <4>1. wk' \in [Workers -> Worker] /\ Engaged'
        BY <3>5, AbortTyped
      <4> QED
        BY <2>17, <3>3, <4>1 DEF PersistReplacement, TypeInv, TypeOK
    <3> QED
      BY <2>17, <3>4, <3>5 DEF PersistReplacement
  <2>18. ASSUME NEW w \in Workers, MarkConfirmed(w)
         PROVE  TypeInv'
    <3>1. wk[w] \in Worker /\ wk[w].sub \in Subs /\ rows[wk[w].sub] \in Row
      BY <1>w, <2>18 DEF MarkConfirmed
    <3>2. wk[w].rcpt.fee \in Fees \cup {0} /\ wk[w].rcpt.block \in Nat
      BY <3>1 DEF Worker, Mined, NoReceipt
    <3> DEFINE v == [rows[wk[w].sub] EXCEPT !.state = "confirmed",
                                            !.fee = wk[w].rcpt.fee,
                                            !.block = wk[w].rcpt.block]
    <3>3. v \in Row
      BY <3>1, <3>2 DEF Row, States
    <3>4. rows' = rows \/ rows' = [rows EXCEPT ![wk[w].sub] = v]
      BY <1>0, <2>18, <3>1 DEF MarkConfirmed, TypeOK
    <3> HIDE DEF v
    <3>5. rows' \in [Subs -> Row]
      BY <1>0, <1>r, <3>1, <3>3, <3>4 DEF TypeOK
    <3>6. wk' \in [Workers -> Worker] /\ Engaged'
      BY <2>18, DoneTyped, AbortTyped DEF MarkConfirmed
    <3> QED
      BY <2>18, <3>5, <3>6 DEF MarkConfirmed, TypeInv, TypeOK
  <2>19. ASSUME NEW w \in Workers, RecordFailure(w)
         PROVE  TypeInv'
    <3>1. wk[w].sub \in Subs /\ rows[wk[w].sub] \in Row
      BY <1>w, <2>19 DEF RecordFailure
    <3>2. rows' \in [Subs -> Row]
      BY <1>0, <2>19, <3>1, StateTyped DEF RecordFailure, States
    <3>3. wk' \in [Workers -> Worker] /\ Engaged'
      BY <2>19, DoneTyped DEF RecordFailure
    <3> QED
      BY <2>19, <3>2, <3>3 DEF RecordFailure, TypeInv, TypeOK
  <2>20. ASSUME NEW t \in mempool, Mine(t)
         PROVE  TypeInv'
    <3>1. PICK ok \in BOOLEAN :
            mined' = mined \cup {[sub |-> t.sub, nonce |-> t.nonce,
                                  fee |-> t.fee, block |-> height + 1,
                                  ok |-> ok]}
      BY <2>20 DEF Mine
    <3>2. t \in Tx /\ height \in Nat
      BY <1>0 DEF TypeOK
    <3>3. [sub |-> t.sub, nonce |-> t.nonce, fee |-> t.fee,
           block |-> height + 1, ok |-> ok] \in Mined
      BY <3>2 DEF Tx, Mined
    <3>4. mined' \subseteq Mined /\ IsFiniteSet(mined')
      BY <1>0, <3>1, <3>3, FS_AddElement DEF TypeOK
    <3> QED
      BY <1>0, <2>20, <3>2, <3>4 DEF Mine, TypeInv, TypeOK, Engaged
  <2>21. ASSUME NEW t \in mempool, Evict(t)
         PROVE  TypeInv'
    BY <1>0, <2>21 DEF Evict, TypeInv, TypeOK, Engaged
  <2>22. NextBlock => TypeInv'
    BY <1>0 DEF NextBlock, TypeInv, TypeOK, Engaged
  <2>23. ASSUME NEW d \in 1..Confirmations, Reorg(d)
         PROVE  TypeInv'
    <3>1. mined' \subseteq mined
      BY <2>23 DEF Reorg
    <3>2. mined' \subseteq Mined /\ IsFiniteSet(mined')
      BY <1>0, <3>1, FS_Subset DEF TypeOK
    <3>3. mempool' \subseteq Tx
      BY <1>0, <2>23 DEF Reorg, TypeOK, Mined, Tx
    <3>4. height' \in Nat /\ reorgs' \in 0..MaxReorgs
      BY <1>0, <2>23, RelayAssumption DEF Reorg, TypeOK
    <3> QED
      BY <2>23, <3>2, <3>3, <3>4 DEF Reorg, TypeInv, TypeOK, Engaged
  <2>24. ASSUME NEW r \in Subs, NEW c \in Clocks, Elapse(r, c)
         PROVE  TypeInv'
    BY <1>0, <2>24 DEF Elapse, TypeInv, TypeOK, Engaged
  <2> QED
    BY <1>2, <2>1, <2>2, <2>3, <2>4, <2>5, <2>6, <2>7, <2>8, <2>9, <2>10,
       <2>11, <2>12, <2>13, <2>14, <2>15, <2>16, <2>17, <2>18, <2>19, <2>20,
       <2>21, <2>22, <2>23, <2>24, NextCases
<1> QED
  BY <1>1, <1>2

\* Type correctness of the outbox, its workers and the chain they see.
THEOREM TypeCorrect == Spec => []TypeOK
<1>1. Init => TypeInv
  BY TypeInit
<1>2. TypeInv /\ [Next]_vars => TypeInv'
  BY TypeStep
<1> QED
  BY <1>1, <1>2, PTL DEF Spec, TypeInv

-----------------------------------------------------------------------------
(* What one transaction can do to one row *)

StateMoves ==
  {<<"preparing", "failed">>, <<"prepared", "expired">>,
   <<"authorized", "expired">>, <<"prepared", "authorized">>,
   <<"authorized", "failed">>, <<"signed", "failed">>,
   <<"broadcast", "failed">>, <<"signed", "broadcast">>,
   <<"broadcast", "broadcast">>}

Moved(r) ==
  \E st \in States :
    /\ <<rows[r].state, st>> \in StateMoves
    /\ rows'[r] = [rows[r] EXCEPT !.state = st]

Opened(r) ==
  \E s \in Signers :
    /\ rows[r].state = "none"
    /\ rows'[r] = [NoRow EXCEPT !.state = "preparing", !.signer = s]
    /\ \A q \in Subs \ {r} :
         rows'[q].signer = s => rows'[q].state \notin ActiveStates

Prepared(r) ==
  \E n \in Nat :
    /\ rows[r].state = "preparing"
    /\ rows'[r] = [rows[r] EXCEPT !.state = "prepared", !.fnonce = n]

SignedFirst(r) ==
  \E n \in Nat, fee \in Fees :
    /\ rows[r].state = "authorized"
    /\ rows[r].attempts = {}
    /\ n >= nextNonce
    /\ nextNonce' = n + 1
    /\ rows'[r] = [rows[r] EXCEPT !.state = "signed", !.nonce = n,
                                  !.fee = fee, !.attempts = {fee}]
    /\ \A q \in Subs \ {r} : rows'[q] = rows[q]

SignedAgain(r) ==
  \E fee \in Fees :
    /\ rows[r].state = "broadcast"
    /\ rows'[r] = Bumped(r, fee)

Confirmed(r) ==
  \E w \in Workers :
    /\ wk[w].pc = "confirm"
    /\ wk[w].sub = r
    /\ rows[r].state \in {"signed", "broadcast"}
    /\ rows'[r] = [rows[r] EXCEPT !.state = "confirmed",
                                  !.fee = wk[w].rcpt.fee,
                                  !.block = wk[w].rcpt.block]

Change(r) ==
  \/ rows'[r] = rows[r]
  \/ Moved(r)
  \/ Opened(r)
  \/ Prepared(r)
  \/ SignedFirst(r)
  \/ SignedAgain(r)
  \/ Confirmed(r)

\* The lazy expiry updates at most ran over the rows of S.
Swept(S) == \A r \in S : rows'[r] = rows[r] \/ rows'[r] = Reclaimed(r)

Alone(q) == \A r \in Subs \ {q} : rows'[r] = rows[r]

\* A transaction sweeps, opens a row while it sweeps, or changes one row.
Shape ==
  \/ Swept(Subs)
  \/ \E q \in Subs : Opened(q) /\ Swept(Subs \ {q})
  \/ \E q \in Subs :
       /\ Alone(q)
       /\ Moved(q) \/ Prepared(q) \/ SignedFirst(q) \/ SignedAgain(q)
          \/ Confirmed(q)

LEMMA ReclaimMoves ==
  ASSUME TypeOK, NEW r \in Subs,
         rows'[r] = Reclaimed(r)
  PROVE  rows'[r] = rows[r] \/ Moved(r)
<1>1. rows[r] \in Row
  BY DEF TypeOK
<1>2. CASE LeaseExpired(r)
  <2>1. rows'[r] = [rows[r] EXCEPT !.state = "failed"]
    BY <1>2 DEF Reclaimed, LeaseExpired, DeadlineExpired
  <2>2. <<rows[r].state, "failed">> \in StateMoves
    BY <1>2 DEF LeaseExpired, StateMoves
  <2> QED
    BY <2>1, <2>2 DEF Moved, States
<1>3. CASE ~LeaseExpired(r) /\ DeadlineExpired(r, {"prepared", "authorized"})
  <2>1. rows'[r] = [rows[r] EXCEPT !.state = "expired"]
    BY <1>3 DEF Reclaimed
  <2>2. <<rows[r].state, "expired">> \in StateMoves
    BY <1>3 DEF DeadlineExpired, StateMoves
  <2> QED
    BY <2>1, <2>2 DEF Moved, States
<1>4. CASE /\ ~LeaseExpired(r)
           /\ ~DeadlineExpired(r, {"prepared", "authorized"})
  BY <1>4 DEF Reclaimed
<1> QED
  BY <1>2, <1>3, <1>4

\* A transaction that moves one row by its state only.
LEMMA MoveChanges ==
  ASSUME TypeOK, NEW q \in Subs, NEW st \in States,
         \/ rows' = rows
         \/ /\ rows' = [rows EXCEPT ![q].state = st]
            /\ <<rows[q].state, st>> \in StateMoves
  PROVE  Shape
<1>1. CASE rows' = rows
  BY <1>1 DEF Shape, Swept
<1>2. CASE rows' # rows
  <2>1. Alone(q)
    BY <1>2 DEF TypeOK, Alone
  <2>2. rows'[q] = [rows[q] EXCEPT !.state = st]
    BY <1>2 DEF TypeOK
  <2> QED
    BY <1>2, <2>1, <2>2 DEF Moved, Shape
<1> QED
  BY <1>1, <1>2

LEMMA TransactionShape == TypeInv /\ [Next]_vars => Shape
<1> SUFFICES ASSUME TypeInv, [Next]_vars PROVE Shape
  OBVIOUS
<1> USE DEF dbVars
<1>0. TypeOK
  BY DEF TypeInv
<1>w. ASSUME NEW w \in Workers, wk[w].pc # "idle"
      PROVE  wk[w] \in Worker /\ wk[w].sub \in Subs /\ rows[wk[w].sub] \in Row
  BY <1>w DEF TypeInv, TypeOK, Engaged, Fit
<1>1. ASSUME UNCHANGED rows
      PROVE  Shape
  BY <1>1 DEF Shape, Swept
<1>2. CASE UNCHANGED vars
  BY <1>1, <1>2 DEF vars
<1>3. CASE Next
  <2>1. ASSUME NEW q \in Subs, NEW s \in Signers, BeginPreparation(q, s)
        PROVE  Shape
    <3>1. /\ rows' = [Reclaim(RowsOf(s)) EXCEPT
                        ![q] = [NoRow EXCEPT !.state = "preparing", !.signer = s]]
          /\ \A r \in RowsOf(s) : Reclaim(RowsOf(s))[r].state \notin ActiveStates
          /\ rows[q].state = "none"
      BY <2>1 DEF BeginPreparation, IsNext, Subs
    <3>2. ASSUME NEW r \in Subs \ {q}
          PROVE  /\ rows'[r] = rows[r] \/ rows'[r] = Reclaimed(r)
                 /\ rows'[r].signer = s => rows'[r].state \notin ActiveStates
      <4>1. rows'[r] = IF r \in RowsOf(s) THEN Reclaimed(r) ELSE rows[r]
        BY <3>1 DEF Reclaim
      <4>2. rows'[r] = rows[r] \/ Moved(r)
        BY <1>0, <4>1, ReclaimMoves
      <4>3. rows'[r].signer = rows[r].signer
        BY <1>0, <4>2 DEF Moved, TypeOK, Row
      <4>4. r \in RowsOf(s) => rows'[r].state \notin ActiveStates
        BY <3>1 DEF Reclaim
      <4> QED
        BY <4>1, <4>3, <4>4 DEF RowsOf
    <3>3. rows'[q] = [NoRow EXCEPT !.state = "preparing", !.signer = s]
      BY <3>1 DEF Reclaim
    <3>4. \A r \in Subs \ {q} :
            rows'[r].signer = s => rows'[r].state \notin ActiveStates
      BY <3>2
    <3>5. Opened(q)
      BY <3>1, <3>3, <3>4, Zenon DEF Opened
    <3>6. Swept(Subs \ {q})
      BY <3>2 DEF Swept
    <3> QED
      BY <3>5, <3>6 DEF Shape
  <2>2. ASSUME NEW q \in Subs, RetryPreparation(q) \/ ReadStatus(q)
        PROVE  Shape
    BY <2>2 DEF RetryPreparation, ReadStatus, Reclaim, Shape, Swept
  <2>3. ASSUME NEW q \in Subs, MarkPrepared(q)
        PROVE  Shape
    <3>1. Alone(q)
      BY <1>0, <2>3 DEF MarkPrepared, TypeOK, Alone
    <3>2. prep[q].nonce \in Nat
      BY <1>0 DEF TypeOK, Prep
    <3>3. \/ rows'[q] = rows[q]
          \/ /\ rows[q].state = "preparing"
             /\ rows'[q] = [rows[q] EXCEPT !.state = "prepared",
                                           !.fnonce = prep[q].nonce]
      BY <1>0, <2>3 DEF MarkPrepared, TypeOK
    <3>4. CASE rows'[q] = rows[q]
      BY <3>1, <3>4 DEF Alone, Shape, Swept
    <3> QED
      BY <3>1, <3>2, <3>3, <3>4 DEF Prepared, Shape
  <2>4. ASSUME NEW q \in Subs, PreparationFails(q)
        PROVE  Shape
    BY <1>0, <2>4, MoveChanges DEF PreparationFails, StateMoves, States
  <2>5. ASSUME NEW q \in Subs, StoreAuthorization(q)
        PROVE  Shape
    BY <1>0, <2>5, MoveChanges DEF StoreAuthorization, StateMoves, States
  <2>6. ASSUME NEW w \in Workers, Poll(w)
        PROVE  Shape
    BY <2>6 DEF Poll, Shape, Swept
  <2>7. ASSUME NEW w \in Workers, PersistSigned(w)
        PROVE  Shape
    <3> DEFINE q == wk[w].sub
               n == ReservedNonce(w)
    <3>1. wk[w] \in Worker /\ q \in Subs /\ wk[w].fee \in Fees
      BY <1>w, <2>7 DEF PersistSigned, TypeInv, Engaged, Fit
    <3>2. n \in Nat /\ n >= nextNonce
      BY <1>0, <3>1 DEF ReservedNonce, TypeOK, Worker
    <3>3. CASE /\ rows[q].attempts = {}
               /\ rows[q].state = "authorized"
               /\ nextNonce' = n + 1
               /\ rows' = [rows EXCEPT ![q] =
                             [rows[q] EXCEPT !.state = "signed", !.nonce = n,
                                             !.fee = wk[w].fee,
                                             !.attempts = {wk[w].fee}]]
      <4> HIDE DEF n
      <4>1. Alone(q)
        BY <3>3 DEF Alone
      <4>2. rows'[q] = [rows[q] EXCEPT !.state = "signed", !.nonce = n,
                                       !.fee = wk[w].fee,
                                       !.attempts = {wk[w].fee}]
        BY <1>0, <3>1, <3>3 DEF TypeOK
      <4>3. SignedFirst(q)
        BY <3>1, <3>2, <3>3, <4>1, <4>2 DEF SignedFirst, Alone
      <4> QED
        BY <3>1, <4>1, <4>3 DEF Shape
    <3> QED
      BY <1>1, <2>7, <3>3 DEF PersistSigned
  <2>8. ASSUME NEW w \in Workers,
               RepairBroadcast(w) \/ RecordBroadcast(w) \/ RecordRebroadcast(w)
        PROVE  Shape
    <3>1. wk[w].sub \in Subs
      BY <1>w, <2>8 DEF RepairBroadcast, RecordBroadcast, RecordRebroadcast
    <3>2. \/ rows' = rows
          \/ /\ rows' = [rows EXCEPT ![wk[w].sub].state = "broadcast"]
             /\ <<rows[wk[w].sub].state, "broadcast">> \in StateMoves
      BY <2>8 DEF RepairBroadcast, RecordBroadcast, RecordRebroadcast,
                  MarkBroadcast, StateMoves
    <3> QED
      BY <1>0, <3>1, <3>2, MoveChanges DEF States
  <2>9. ASSUME NEW w \in Workers, PersistReplacement(w)
        PROVE  Shape
    <3> DEFINE q == wk[w].sub
    <3>1. q \in Subs /\ wk[w].fee \in Fees
      BY <1>w, <2>9 DEF PersistReplacement, TypeInv, Engaged, Fit
    <3>2. \/ rows' = rows
          \/ /\ rows[q].state = "broadcast"
             /\ rows' = [rows EXCEPT ![q] = Bumped(q, wk[w].fee)]
      BY <2>9 DEF PersistReplacement
    <3>3. CASE rows' # rows
      <4>1. Alone(q)
        BY <1>0, <3>2, <3>3 DEF TypeOK, Alone
      <4>2. rows[q].state = "broadcast" /\ rows'[q] = Bumped(q, wk[w].fee)
        BY <1>0, <3>1, <3>2, <3>3 DEF TypeOK
      <4> QED
        BY <3>1, <4>1, <4>2 DEF Shape, SignedAgain
    <3> QED
      BY <1>1, <3>3
  <2>10. ASSUME NEW w \in Workers, MarkConfirmed(w)
         PROVE  Shape
    <3> DEFINE q == wk[w].sub
    <3>1. q \in Subs /\ wk[w].pc = "confirm"
      BY <1>w, <2>10 DEF MarkConfirmed
    <3>2. \/ rows' = rows
          \/ /\ rows[q].state \in {"signed", "broadcast"}
             /\ rows' = [rows EXCEPT ![q] = [rows[q] EXCEPT
                           !.state = "confirmed", !.fee = wk[w].rcpt.fee,
                           !.block = wk[w].rcpt.block]]
      BY <1>0, <2>10, <3>1 DEF MarkConfirmed, TypeOK
    <3>3. CASE rows' # rows
      <4>1. Alone(q)
        BY <1>0, <3>2, <3>3 DEF TypeOK, Alone
      <4>2. /\ rows[q].state \in {"signed", "broadcast"}
            /\ rows'[q] = [rows[q] EXCEPT !.state = "confirmed",
                                          !.fee = wk[w].rcpt.fee,
                                          !.block = wk[w].rcpt.block]
        BY <1>0, <3>1, <3>2, <3>3 DEF TypeOK
      <4>3. Confirmed(q)
        BY <3>1, <4>2 DEF Confirmed
      <4> QED
        BY <3>1, <4>1, <4>3 DEF Shape
    <3> QED
      BY <1>1, <3>3
  <2>11. ASSUME NEW w \in Workers, RecordFailure(w)
         PROVE  Shape
    <3>1. wk[w].sub \in Subs
      BY <1>w, <2>11 DEF RecordFailure
    <3>2. \/ rows' = rows
          \/ /\ rows' = [rows EXCEPT ![wk[w].sub].state = "failed"]
             /\ <<rows[wk[w].sub].state, "failed">> \in StateMoves
      BY <2>11 DEF RecordFailure, RelayStates, StateMoves
    <3> QED
      BY <1>0, <3>1, <3>2, MoveChanges DEF States
  <2> QED
    BY <1>1, <1>3, <2>1, <2>2, <2>3, <2>4, <2>5, <2>6, <2>7, <2>8, <2>9,
       <2>10, <2>11, NextCases
    DEF PrepareRequest, ApiCrash, VerifyAuthorization, Take, PrepareSigner,
        BumpFee, Quote, CheckReceipt, VerifyBeforeSend, RejectRequest,
        ExceedGasCap, ExceedFeeCap, CheckDepth, NotStuck, RetryLater, Crash,
        Send, LoseReply, Mine, Evict, NextBlock, Reorg, Elapse
<1> QED
  BY <1>2, <1>3

LEMMA RowChange == TypeInv /\ [Next]_vars => \A r \in Subs : Change(r)
<1> SUFFICES ASSUME TypeInv, [Next]_vars, NEW r \in Subs PROVE Change(r)
  OBVIOUS
<1>1. ASSUME NEW S, Swept(S), r \in S PROVE Change(r)
  BY <1>1, ReclaimMoves DEF Swept, Change, TypeInv
<1> QED
  BY <1>1, TransactionShape DEF Shape, Alone, Change

\* The allocator moves only together with a first signature.
LEMMA AllocatorStep ==
  ASSUME TypeInv, [Next]_vars
  PROVE  nextNonce' = nextNonce \/ \E r \in Subs : SignedFirst(r)
<1>1. ASSUME NEW w \in Workers, PersistSigned(w), nextNonce' # nextNonce
      PROVE  SignedFirst(wk[w].sub) /\ wk[w].sub \in Subs
  <2> DEFINE q == wk[w].sub
             n == ReservedNonce(w)
  <2>1. /\ wk[w] \in Worker /\ q \in Subs /\ wk[w].fee \in Fees
        /\ rows \in [Subs -> Row] /\ nextNonce \in Nat
    BY <1>1 DEF PersistSigned, TypeInv, TypeOK, Engaged, Fit
  <2>2. n \in Nat /\ n >= nextNonce
    BY <2>1 DEF ReservedNonce, Worker
  <2>3. /\ rows[q].attempts = {}
        /\ rows[q].state = "authorized"
        /\ nextNonce' = n + 1
        /\ rows' = [rows EXCEPT ![q] =
                      [rows[q] EXCEPT !.state = "signed", !.nonce = n,
                                      !.fee = wk[w].fee,
                                      !.attempts = {wk[w].fee}]]
    BY <1>1 DEF PersistSigned, dbVars
  <2> HIDE DEF n
  <2>4. \A r \in Subs \ {q} : rows'[r] = rows[r]
    BY <2>1, <2>3
  <2>5. rows'[q] = [rows[q] EXCEPT !.state = "signed", !.nonce = n,
                                   !.fee = wk[w].fee,
                                   !.attempts = {wk[w].fee}]
    BY <2>1, <2>3
  <2> QED
    BY <2>1, <2>2, <2>3, <2>4, <2>5 DEF SignedFirst
<1>2. CASE UNCHANGED vars
  BY <1>2 DEF vars, dbVars
<1>3. CASE Next
  BY <1>1, <1>3, NextCases
  DEF BeginPreparation, RetryPreparation, PrepareRequest, MarkPrepared,
      PreparationFails, ApiCrash, ReadStatus, VerifyAuthorization,
      StoreAuthorization, Poll, Take, PrepareSigner, BumpFee, Quote,
      CheckReceipt, RepairBroadcast, RecordBroadcast, RecordRebroadcast,
      MarkBroadcast, VerifyBeforeSend, RejectRequest, ExceedGasCap,
      ExceedFeeCap, PersistReplacement, CheckDepth, MarkConfirmed,
      RecordFailure, NotStuck, RetryLater, Crash, Send, LoseReply, Mine,
      Evict, NextBlock, Reorg, Elapse, dbVars
<1> QED
  BY <1>2, <1>3

-----------------------------------------------------------------------------
(* Histories: who owns signed bytes *)

Unsigned == {"none", "preparing", "prepared", "authorized", "expired"}

\* Signed bytes exist exactly while the state says they may, and the bytes a
\* row would send are in its history.
SignedRows ==
  \A r \in Subs :
    /\ rows[r].state \in Unsigned => rows[r].attempts = {}
    /\ rows[r].state \in {"signed", "broadcast"} => rows[r].fee \in rows[r].attempts

LEMMA SignedRowsStep ==
  TypeInv /\ SignedRows /\ [Next]_vars => SignedRows'
<1> SUFFICES ASSUME TypeInv, SignedRows, [Next]_vars, NEW r \in Subs
             PROVE  /\ rows'[r].state \in Unsigned => rows'[r].attempts = {}
                    /\ rows'[r].state \in {"signed", "broadcast"}
                         => rows'[r].fee \in rows'[r].attempts
  BY DEF SignedRows
<1>1. rows[r] \in Row /\ Change(r)
  BY RowChange DEF TypeInv, TypeOK
<1>2. /\ rows[r].state \in Unsigned => rows[r].attempts = {}
      /\ rows[r].state \in {"signed", "broadcast"}
           => rows[r].fee \in rows[r].attempts
  BY DEF SignedRows
<1>3. CASE rows'[r] = rows[r]
  BY <1>2, <1>3
<1>4. CASE Moved(r)
  BY <1>1, <1>2, <1>4 DEF Moved, StateMoves, Unsigned, Row
<1>5. CASE Opened(r)
  BY <1>5 DEF Opened, NoRow, Unsigned
<1>6. CASE Prepared(r)
  BY <1>1, <1>2, <1>6 DEF Prepared, Unsigned, Row
<1>7. CASE SignedFirst(r)
  BY <1>1, <1>7 DEF SignedFirst, Unsigned, Row
<1>8. CASE SignedAgain(r)
  BY <1>1, <1>8 DEF SignedAgain, Bumped, Unsigned, Row
<1>9. CASE Confirmed(r)
  BY <1>1, <1>9 DEF Confirmed, Unsigned, Row
<1> QED
  BY <1>1, <1>3, <1>4, <1>5, <1>6, <1>7, <1>8, <1>9 DEF Change

\* A row that owns a nonce keeps it, and its history only grows.
LEMMA HistoryGrows ==
  ASSUME TypeInv, SignedRows, [Next]_vars, NEW r \in Subs,
         rows[r].attempts # {}
  PROVE  /\ rows'[r].nonce = rows[r].nonce
         /\ rows[r].attempts \subseteq rows'[r].attempts
<1>1. rows[r] \in Row /\ Change(r)
  BY RowChange DEF TypeInv, TypeOK
<1>2. rows[r].state \notin Unsigned
  BY DEF SignedRows
<1>3. CASE Moved(r)
  BY <1>1, <1>3 DEF Moved, Row
<1>4. CASE SignedAgain(r)
  BY <1>1, <1>4 DEF SignedAgain, Bumped, Row
<1>5. CASE Confirmed(r)
  BY <1>1, <1>5 DEF Confirmed, Row
<1> QED
  BY <1>1, <1>2, <1>3, <1>4, <1>5
  DEF Change, Opened, Prepared, SignedFirst, Unsigned

LEMMA RowsInductive == Spec => [](TypeInv /\ SignedRows)
<1>1. Init => TypeInv /\ SignedRows
  <2>1. Init => SignedRows
    BY DEF Init, NoRow, SignedRows, Unsigned
  <2> QED
    BY <2>1, TypeInit
<1>2. TypeInv /\ SignedRows /\ [Next]_vars => (TypeInv /\ SignedRows)'
  BY TypeStep, SignedRowsStep
<1> QED
  BY <1>1, <1>2, PTL DEF Spec

\* An expired row owns no nonce and no transaction, for any interleaving of
\* the lazy expiry with signing.
THEOREM ExpiryBeforeSigning == Spec => []ExpiredUnsigned
<1>1. SignedRows => ExpiredUnsigned
  BY DEF SignedRows, ExpiredUnsigned, Unsigned
<1> QED
  BY <1>1, RowsInductive, PTL

-----------------------------------------------------------------------------
(* One open row for each wallet *)

LEMMA ActiveStep ==
  TypeInv /\ OneActivePerSigner /\ [Next]_vars => OneActivePerSigner'
<1> SUFFICES ASSUME TypeInv, OneActivePerSigner, [Next]_vars,
                    NEW q \in Subs, NEW r \in Subs, q # r,
                    rows'[q].state \in ActiveStates,
                    rows'[r].state \in ActiveStates,
                    rows'[q].signer = rows'[r].signer
             PROVE  FALSE
  BY DEF OneActivePerSigner
\* A row that is open after the step was open for the same wallet before it,
\* or has just been opened.
<1>1. ASSUME NEW p \in Subs, rows'[p].state \in ActiveStates
      PROVE  \/ /\ rows[p].state \in ActiveStates
                /\ rows'[p].signer = rows[p].signer
             \/ Opened(p)
  <2>1. rows[p] \in Row /\ Change(p)
    BY RowChange DEF TypeInv, TypeOK
  <2>2. CASE Moved(p)
    BY <1>1, <2>1, <2>2 DEF Moved, StateMoves, ActiveStates, Row
  <2>3. CASE Prepared(p)
    BY <2>1, <2>3 DEF Prepared, ActiveStates, Row
  <2>4. CASE SignedFirst(p)
    BY <2>1, <2>4 DEF SignedFirst, ActiveStates, Row
  <2>5. CASE SignedAgain(p)
    BY <2>1, <2>5 DEF SignedAgain, Bumped, ActiveStates, Row
  <2>6. CASE Confirmed(p)
    BY <2>1, <2>6 DEF Confirmed, ActiveStates, Row
  <2> QED
    BY <1>1, <2>1, <2>2, <2>3, <2>4, <2>5, <2>6 DEF Change
\* Opening a row requires every other row of the wallet to be closed.
<1>2. ASSUME NEW p \in Subs, NEW o \in Subs, p # o, Opened(p),
             rows'[o].state \in ActiveStates
      PROVE  rows'[o].signer # rows'[p].signer
  <2>1. PICK s \in Signers :
          /\ rows'[p] = [NoRow EXCEPT !.state = "preparing", !.signer = s]
          /\ \A t \in Subs \ {p} :
               rows'[t].signer = s => rows'[t].state \notin ActiveStates
    BY <1>2 DEF Opened
  <2>2. rows'[p].signer = s
    BY <2>1 DEF NoRow
  <2> QED
    BY <1>2, <2>1, <2>2
<1>3. ~Opened(q) /\ ~Opened(r)
  BY <1>2
<1> QED
  BY <1>1, <1>3 DEF OneActivePerSigner

\* Two browser tabs never hold the same wallet's forwarder nonce: a wallet
\* has at most one open row, for any number of API replicas and workers.
THEOREM WalletsSerialized == Spec => []OneActivePerSigner
<1>1. Init => OneActivePerSigner
  BY DEF Init, NoRow, OneActivePerSigner, ActiveStates
<1>2. TypeInv /\ OneActivePerSigner /\ [Next]_vars => OneActivePerSigner'
  BY ActiveStep
<1> QED
  BY <1>1, <1>2, RowsInductive, PTL DEF Spec

-----------------------------------------------------------------------------
(* Relayer nonces *)

LEMMA NonceStep ==
  TypeInv /\ SignedRows /\ NoncesOwned /\ [Next]_vars => NoncesOwned'
<1> SUFFICES ASSUME TypeInv, SignedRows, NoncesOwned, [Next]_vars
             PROVE  NoncesOwned'
  OBVIOUS
<1>0. nextNonce \in Nat /\ \A r \in Subs : rows[r] \in Row
  BY DEF TypeInv, TypeOK
\* Only a first signature touches the allocator or gives a row a nonce.
<1>1. CASE \E p \in Subs : SignedFirst(p)
  <2>1. PICK p \in Subs : SignedFirst(p)
    BY <1>1
  <2>2. PICK n \in Nat, fee \in Fees :
          /\ n >= nextNonce
          /\ nextNonce' = n + 1
          /\ rows'[p] = [rows[p] EXCEPT !.state = "signed", !.nonce = n,
                                        !.fee = fee, !.attempts = {fee}]
          /\ \A q \in Subs \ {p} : rows'[q] = rows[q]
    BY <2>1 DEF SignedFirst
  <2>3. rows'[p].nonce = n
    BY <1>0, <2>2 DEF Row
  <2>8. n < nextNonce'
    BY <2>2
  <2>4. \A q \in Subs \ {p} :
          rows'[q].attempts # {} => rows'[q].nonce < nextNonce
    BY <2>2 DEF NoncesOwned
  <2>5. \A q \in Subs \ {p} : rows'[q].nonce \in Nat
    BY <1>0, <2>2 DEF Row
  <2>6. \A q \in Subs \ {p}, o \in Subs \ {p} :
          q # o /\ rows'[q].attempts # {} /\ rows'[o].attempts # {}
            => rows'[q].nonce # rows'[o].nonce
    BY <2>2 DEF NoncesOwned
  \* The new nonce is the allocator's: every other row lies below it.
  <2>7. ASSUME NEW r \in Subs, rows'[r].attempts # {}
        PROVE  /\ rows'[r].nonce < nextNonce'
               /\ \A q \in Subs \ {r} :
                    rows'[q].attempts # {} => rows'[q].nonce # rows'[r].nonce
    <3>1. CASE r = p
      <4>1. rows'[r].nonce = n /\ n < nextNonce'
        BY <2>3, <2>8, <3>1
      <4>2. ASSUME NEW q \in Subs \ {r}, rows'[q].attempts # {}
            PROVE  rows'[q].nonce # n
        <5>1. rows'[q].nonce \in Nat /\ rows'[q].nonce < nextNonce
          BY <2>4, <2>5, <3>1, <4>2
        <5> QED
          BY <1>0, <2>2, <5>1
      <4> QED
        BY <4>1, <4>2
    <3>2. CASE r # p
      <4>1. rows'[r].nonce \in Nat /\ rows'[r].nonce < nextNonce
        BY <2>4, <2>5, <2>7, <3>2
      <4>2. rows'[r].nonce < nextNonce' /\ rows'[r].nonce # n
        BY <1>0, <2>2, <4>1
      <4>3. ASSUME NEW q \in Subs \ {r}, rows'[q].attempts # {}
            PROVE  rows'[q].nonce # rows'[r].nonce
        <5>1. CASE q = p
          BY <2>3, <4>2, <5>1
        <5>2. CASE q # p
          BY <2>6, <2>7, <3>2, <4>3, <5>2
        <5> QED
          BY <5>1, <5>2
      <4> QED
        BY <4>2, <4>3
    <3> QED
      BY <3>1, <3>2
  <2> QED
    BY <2>7 DEF NoncesOwned
<1>2. CASE ~\E p \in Subs : SignedFirst(p)
  <2>1. nextNonce' = nextNonce
    BY <1>2, AllocatorStep
  <2>2. ASSUME NEW r \in Subs, rows'[r].attempts # {}
        PROVE  rows[r].attempts # {} /\ rows'[r].nonce = rows[r].nonce
    <3>1. rows[r] \in Row /\ Change(r) /\ ~SignedFirst(r)
      BY <1>0, <1>2, RowChange
    <3>2. CASE Moved(r)
      BY <2>2, <3>1, <3>2 DEF Moved, Row
    <3>3. CASE Opened(r)
      BY <2>2, <3>3 DEF Opened, NoRow
    <3>4. CASE Prepared(r)
      BY <2>2, <3>1, <3>4 DEF Prepared, Row
    <3>5. CASE SignedAgain(r)
      BY <3>1, <3>5 DEF SignedAgain, Bumped, SignedRows, Row
    <3>6. CASE Confirmed(r)
      BY <2>2, <3>1, <3>6 DEF Confirmed, Row
    <3> QED
      BY <2>2, <3>1, <3>2, <3>3, <3>4, <3>5, <3>6 DEF Change
  <2> QED
    BY <2>1, <2>2 DEF NoncesOwned
<1> QED
  BY <1>1, <1>2

\* No relayer nonce is ever reserved twice, whatever the RPC reports as
\* pending and however many workers sign.
THEOREM NoncesUnique == Spec => []NoncesOwned
<1>1. Init => NoncesOwned
  BY DEF Init, NoRow, NoncesOwned
<1>2. TypeInv /\ SignedRows /\ NoncesOwned /\ [Next]_vars => NoncesOwned'
  BY NonceStep
<1> QED
  BY <1>1, <1>2, RowsInductive, PTL DEF Spec

-----------------------------------------------------------------------------
(* The workflow's state machine *)

\* Sweeping makes a row lapse in the abstract machine.
LEMMA SweptLapses ==
  ASSUME TypeInv, NEW r \in Subs,
         rows'[r] = rows[r] \/ rows'[r] = Reclaimed(r)
  PROVE  /\ \/ rows'[r].state = rows[r].state
            \/ <<rows[r].state, rows'[r].state>> \in Lifecycle!Lapse
         /\ rows'[r].signer = rows[r].signer
<1>1. rows[r] \in Row
  BY DEF TypeInv, TypeOK
<1> QED
  BY <1>1 DEF Reclaimed, LeaseExpired, DeadlineExpired, Row, Lifecycle!Lapse

\* A row that changes alone takes one edge or lapses.
LEMMA AloneMoves ==
  ASSUME TypeInv, NEW r \in Subs,
         Moved(r) \/ Prepared(r) \/ SignedFirst(r) \/ SignedAgain(r)
           \/ Confirmed(r)
  PROVE  /\ \/ rows'[r].state = rows[r].state
            \/ <<rows[r].state, rows'[r].state>> \in Lifecycle!Lapse
            \/ <<rows[r].state, rows'[r].state>> \in Lifecycle!Edge
         /\ rows'[r].signer = rows[r].signer
<1>1. rows[r] \in Row
  BY DEF TypeInv, TypeOK
<1> USE DEF Lifecycle!Lapse, Lifecycle!Edge
<1>2. CASE Moved(r)
  BY <1>1, <1>2 DEF Moved, StateMoves, Row
<1>3. CASE Prepared(r)
  BY <1>1, <1>3 DEF Prepared, Row
<1>4. CASE SignedFirst(r)
  BY <1>1, <1>4 DEF SignedFirst, Row
<1>5. CASE SignedAgain(r)
  BY <1>1, <1>5 DEF SignedAgain, Bumped, Row
<1>6. CASE Confirmed(r)
  BY <1>1, <1>6 DEF Confirmed, Row
<1> QED
  BY <1>2, <1>3, <1>4, <1>5, <1>6

abstractState == [r \in Subs |-> rows[r].state]
abstractSigner == [r \in Subs |-> rows[r].signer]

LEMMA LifecycleStep ==
  ASSUME TypeInv, OneActivePerSigner', [Next]_vars
  PROVE  [Lifecycle!Next]_<<abstractState, abstractSigner>>
<1>1. Lifecycle!Exclusive'
  BY DEF OneActivePerSigner, ActiveStates, Lifecycle!Exclusive, Lifecycle!Open
<1> USE DEF abstractState, abstractSigner
<1>2. CASE Swept(Subs)
  <2>1. \A r \in Subs :
          /\ \/ rows'[r].state = rows[r].state
             \/ <<rows[r].state, rows'[r].state>> \in Lifecycle!Lapse
          /\ rows'[r].signer = rows[r].signer
    BY <1>2, SweptLapses DEF Swept
  <2>2. Lifecycle!Expire
    BY <2>1 DEF Lifecycle!Expire, Lifecycle!Lapses
  <2> QED
    BY <1>1, <2>2 DEF Lifecycle!Next
<1>3. ASSUME NEW q \in Subs, Opened(q), Swept(Subs \ {q})
      PROVE  Lifecycle!Next
  <2>1. PICK s \in Signers :
          /\ rows[q].state = "none"
          /\ rows'[q] = [NoRow EXCEPT !.state = "preparing", !.signer = s]
    BY <1>3 DEF Opened
  <2>2. rows'[q].state = "preparing" /\ rows'[q].signer = s
    BY <2>1 DEF NoRow
  <2>3. \A r \in Subs \ {q} :
          /\ \/ rows'[r].state = rows[r].state
             \/ <<rows[r].state, rows'[r].state>> \in Lifecycle!Lapse
          /\ rows'[r].signer = rows[r].signer
    BY <1>3, SweptLapses DEF Swept
  <2>4. Lifecycle!Begin(q, s)
    BY <2>1, <2>2, <2>3 DEF Lifecycle!Begin, Lifecycle!Lapses
  <2> QED
    BY <1>1, <2>4 DEF Lifecycle!Next
<1>4. ASSUME NEW q \in Subs, Alone(q),
             Moved(q) \/ Prepared(q) \/ SignedFirst(q) \/ SignedAgain(q)
               \/ Confirmed(q)
      PROVE  Lifecycle!Next
  <2>1. /\ \/ rows'[q].state = rows[q].state
           \/ <<rows[q].state, rows'[q].state>> \in Lifecycle!Lapse
           \/ <<rows[q].state, rows'[q].state>> \in Lifecycle!Edge
        /\ rows'[q].signer = rows[q].signer
    BY <1>4, AloneMoves
  <2>2. \A r \in Subs \ {q} : rows'[r] = rows[r]
    BY <1>4 DEF Alone
  <2>3. CASE <<rows[q].state, rows'[q].state>> \in Lifecycle!Edge
    <3>1. Lifecycle!Move(q)
      BY <2>1, <2>2, <2>3 DEF Lifecycle!Move
    <3> QED
      BY <1>1, <3>1 DEF Lifecycle!Next
  <2>4. CASE <<rows[q].state, rows'[q].state>> \notin Lifecycle!Edge
    <3>1. Lifecycle!Expire
      BY <2>1, <2>2, <2>4 DEF Lifecycle!Expire, Lifecycle!Lapses
    <3> QED
      BY <1>1, <3>1 DEF Lifecycle!Next
  <2> QED
    BY <2>3, <2>4
<1> QED
  BY <1>2, <1>3, <1>4, TransactionShape DEF Shape

\* Every transaction of the API and of the workers is a step of the
\* workflow's state machine, or leaves the row states alone.
THEOREM LifecycleImplemented == Spec => ImplementsLifecycle
<1>1. Init => Lifecycle!Init
  BY DEF Init, NoRow, Lifecycle!Init
<1>2. TypeInv /\ OneActivePerSigner' /\ [Next]_vars
        => [Lifecycle!Next]_<<abstractState, abstractSigner>>
  BY LifecycleStep
<1> QED
  BY <1>1, <1>2, RowsInductive, WalletsSerialized, PTL
  DEF Spec, ImplementsLifecycle, Lifecycle!Spec, abstractState, abstractSigner

-----------------------------------------------------------------------------
(* What workers carry from one call to the next *)

Owning == {"receipt", "repair", "verify", "send", "mark", "stuck", "replace",
           "resend", "remark", "depth", "confirm"}

\* The bytes of a row as somebody read it are still in its history.
Backed(table, r, row) ==
  row.nonce = table[r].nonce /\ row.fee \in table[r].attempts

Sound(table, v) ==
  /\ \A a \in v.batch :
       /\ a.row.state \in RelayStates
       /\ a.row.state # "authorized" => Backed(table, a.sub, a.row)
  /\ v.pc \in Owning => Backed(table, v.sub, v.cur)

WorkersSound == \A w \in Workers : Sound(rows, wk[w])

LEMMA SoundStays ==
  ASSUME TypeInv, SignedRows, [Next]_vars, NEW v \in Worker, Fit(v),
         Sound(rows, v)
  PROVE  Sound(rows', v)
<1>1. ASSUME NEW r \in Subs, NEW row, Backed(rows, r, row)
      PROVE  Backed(rows', r, row)
  BY <1>1, HistoryGrows DEF Backed
<1>2. \A a \in v.batch : a.sub \in Subs
  BY DEF Worker, Snapshot
<1>3. v.pc \in Owning => v.sub \in Subs
  BY DEF Owning, Fit
<1> QED
  BY <1>1, <1>2, <1>3 DEF Sound

\* What a worker has just read or written is backed.
LEMMA OwnRowBacked ==
  ASSUME SignedRows', NEW r \in Subs,
         rows'[r].state \in {"signed", "broadcast"}
  PROVE  Backed(rows', r, rows'[r])
BY DEF SignedRows, Backed

LEMMA WorkersSoundStep ==
  TypeInv /\ SignedRows /\ WorkersSound /\ [Next]_vars => WorkersSound'
<1> SUFFICES ASSUME TypeInv, SignedRows, WorkersSound, [Next]_vars
             PROVE  WorkersSound'
  OBVIOUS
<1> USE DEF dbVars
<1>t. TypeInv' /\ SignedRows'
  BY TypeStep, SignedRowsStep
<1>w. ASSUME NEW w \in Workers
      PROVE  /\ wk[w] \in Worker /\ Fit(wk[w]) /\ Sound(rows, wk[w])
             /\ wk'[w] \in Worker /\ Fit(wk'[w])
             /\ Sound(rows', wk[w])
  <2>1. /\ wk[w] \in Worker /\ Fit(wk[w]) /\ Sound(rows, wk[w])
        /\ wk'[w] \in Worker /\ Fit(wk'[w])
    BY <1>t DEF TypeInv, TypeOK, Engaged, WorkersSound
  <2> QED
    BY <2>1, SoundStays
\* Only the acting worker's record needs a look.
<1>1. ASSUME NEW w \in Workers, Sound(rows', wk'[w]),
             \A u \in Workers \ {w} : wk'[u] = wk[u]
      PROVE  WorkersSound'
  <2>1. \A u \in Workers : Sound(rows', wk'[u])
    BY <1>w, <1>1
  <2> QED
    BY <2>1 DEF WorkersSound
<1>2. ASSUME UNCHANGED wk PROVE WorkersSound'
  <2>1. \A u \in Workers : Sound(rows', wk'[u])
    BY <1>w, <1>2
  <2> QED
    BY <2>1 DEF WorkersSound
<1>3. ASSUME NEW w \in Workers, Done(w) \/ Abort(w) PROVE WorkersSound'
  <2>1. wk'[w].batch \subseteq wk[w].batch /\ wk'[w].pc = "idle"
    BY <1>3 DEF Done, Abort, Idle, TypeInv, TypeOK
  <2>2. Sound(rows', wk'[w])
    BY <1>w, <2>1 DEF Sound, Owning
  <2>3. \A u \in Workers \ {w} : wk'[u] = wk[u]
    BY <1>3 DEF Done, Abort, TypeInv, TypeOK
  <2> QED
    BY <1>1, <2>2, <2>3
\* The worker goes on with the same record in hand.
<1>4. ASSUME NEW w \in Workers, wk[w].pc \in Owning,
             wk'[w].batch = wk[w].batch, wk'[w].sub = wk[w].sub,
             wk'[w].cur = wk[w].cur,
             \A u \in Workers \ {w} : wk'[u] = wk[u]
      PROVE  WorkersSound'
  <2>1. Sound(rows', wk'[w])
    BY <1>w, <1>4 DEF Sound
  <2> QED
    BY <1>1, <1>4, <2>1
<1>5. ASSUME NEW w \in Workers, NEW pc, Step(w, pc), wk[w].pc \in Owning
      PROVE  WorkersSound'
  <2>1. /\ wk'[w].batch = wk[w].batch /\ wk'[w].sub = wk[w].sub
        /\ wk'[w].cur = wk[w].cur
        /\ \A u \in Workers \ {w} : wk'[u] = wk[u]
    BY <1>5 DEF Step, TypeInv, TypeOK, Worker
  <2> QED
    BY <1>4, <1>5, <2>1
\* The worker leaves the record alone, or has not signed it yet.
<1>6. ASSUME NEW w \in Workers, wk'[w].batch = wk[w].batch,
             wk'[w].pc \notin Owning,
             \A u \in Workers \ {w} : wk'[u] = wk[u]
      PROVE  WorkersSound'
  <2>1. Sound(rows', wk'[w])
    BY <1>w, <1>6 DEF Sound
  <2> QED
    BY <1>1, <1>6, <2>1
\* The worker has re-read the record it works on.
<1>7. ASSUME NEW w \in Workers, wk'[w].batch = wk[w].batch,
             wk'[w].sub \in Subs,
             rows'[wk'[w].sub].state \in {"signed", "broadcast"},
             wk'[w].cur = rows'[wk'[w].sub],
             \A u \in Workers \ {w} : wk'[u] = wk[u]
      PROVE  WorkersSound'
  <2>1. Backed(rows', wk'[w].sub, wk'[w].cur)
    BY <1>t, <1>7, OwnRowBacked
  <2>2. Sound(rows', wk'[w])
    BY <1>w, <1>7, <2>1 DEF Sound
  <2> QED
    BY <1>1, <1>7, <2>2
<1>8. CASE UNCHANGED vars
  BY <1>2, <1>8 DEF vars
<1>9. CASE Next
  <2>1. ASSUME NEW w \in Workers, Poll(w) PROVE WorkersSound'
    <3>1. /\ wk'[w].batch = FirstOf(Candidates(rows'))
          /\ wk'[w].pc = "idle"
          /\ \A u \in Workers \ {w} : wk'[u] = wk[u]
      BY <2>1 DEF Poll, Idle, TypeInv, TypeOK
    <3>2. ASSUME NEW a \in FirstOf(Candidates(rows'))
          PROVE  /\ a.row.state \in RelayStates
                 /\ a.row.state # "authorized" => Backed(rows', a.sub, a.row)
      <4>1. PICK r \in Subs : /\ a = [sub |-> r, row |-> rows'[r]]
                              /\ rows'[r].state \in RelayStates
        BY DEF FirstOf, Candidates
      <4> QED
        BY <1>t, <4>1, OwnRowBacked DEF RelayStates
    <3>3. Sound(rows', wk'[w])
      BY <3>1, <3>2 DEF Sound, Owning
    <3> QED
      BY <1>1, <3>1, <3>3
  <2>2. ASSUME NEW w \in Workers, Take(w) PROVE WorkersSound'
    <3>1. PICK a \in wk[w].batch :
            wk' = [wk EXCEPT ![w] =
                     [Idle EXCEPT
                        !.pc = IF a.row.state = "authorized"
                               THEN "sign" ELSE "receipt",
                        !.batch = wk[w].batch \ {a},
                        !.sub = a.sub, !.cur = a.row]]
      BY <2>2 DEF Take
    <3>2. /\ wk'[w].batch = wk[w].batch \ {a}
          /\ wk'[w].sub = a.sub
          /\ wk'[w].cur = a.row
          /\ wk'[w].pc = IF a.row.state = "authorized"
                         THEN "sign" ELSE "receipt"
          /\ \A u \in Workers \ {w} : wk'[u] = wk[u]
      BY <3>1 DEF Idle, TypeInv, TypeOK
    <3>3. Sound(rows', wk[w])
      BY <1>w
    <3>4. Sound(rows', wk'[w])
      BY <3>2, <3>3 DEF Sound, Owning
    <3> QED
      BY <1>1, <3>2, <3>4
  <2>3. ASSUME NEW w \in Workers, PrepareSigner(w) PROVE WorkersSound'
    <3>1. /\ wk'[w].batch = wk[w].batch /\ wk'[w].pc = "persist"
          /\ \A u \in Workers \ {w} : wk'[u] = wk[u]
      BY <1>w, <2>3 DEF PrepareSigner, Quote, TypeInv, TypeOK, Worker
    <3> QED
      BY <1>6, <3>1 DEF Owning
  <2>4. ASSUME NEW w \in Workers, BumpFee(w) PROVE WorkersSound'
    <3>1. /\ wk'[w].batch = wk[w].batch /\ wk'[w].sub = wk[w].sub
          /\ wk'[w].cur = wk[w].cur /\ wk[w].pc = "stuck"
          /\ \A u \in Workers \ {w} : wk'[u] = wk[u]
      BY <1>w, <2>4 DEF BumpFee, Quote, TypeInv, TypeOK, Worker
    <3> QED
      BY <1>4, <3>1 DEF Owning
  <2>5. ASSUME NEW w \in Workers, PersistSigned(w) PROVE WorkersSound'
    <3> DEFINE r == wk[w].sub
               signed == [rows[r] EXCEPT !.state = "signed",
                                         !.nonce = ReservedNonce(w),
                                         !.fee = wk[w].fee,
                                         !.attempts = {wk[w].fee}]
    <3>1. r \in Subs /\ rows \in [Subs -> Row] /\ wk[w] \in Worker
      BY <2>5 DEF PersistSigned, TypeInv, TypeOK, Engaged, Fit
    <3>2. ASSUME NEW v, v.batch = wk[w].batch, v.sub = r, v.cur = rows'[r],
                 rows'[r].state \in {"signed", "broadcast"},
                 wk' = [wk EXCEPT ![w] = v]
          PROVE  WorkersSound'
      <4>1. wk'[w] = v /\ \A u \in Workers \ {w} : wk'[u] = wk[u]
        BY <3>2 DEF TypeInv, TypeOK
      <4> QED
        BY <1>7, <3>1, <3>2, <4>1
    <3>3. CASE /\ rows' = [rows EXCEPT ![r] = signed]
               /\ wk' = [wk EXCEPT ![w].pc = "receipt", ![w].cur = signed,
                                   ![w].fee = 0, ![w].pend = 0]
      <4> DEFINE v == [wk[w] EXCEPT !.pc = "receipt", !.cur = signed,
                                    !.fee = 0, !.pend = 0]
      <4>1. rows'[r] = signed /\ signed.state = "signed"
        BY <3>1, <3>3 DEF Row
      <4>2. v.batch = wk[w].batch /\ v.sub = r /\ v.cur = signed
        BY <3>1 DEF Worker
      <4>3. wk' = [wk EXCEPT ![w] = v]
        BY <3>3 DEF TypeInv, TypeOK
      <4> HIDE DEF v, signed
      <4> QED
        BY <3>2, <4>1, <4>2, <4>3
    <3>4. CASE /\ rows[r].state \in {"signed", "broadcast"}
               /\ rows' = rows
               /\ wk' = [wk EXCEPT ![w].pc = "receipt", ![w].cur = rows[r],
                                   ![w].fee = 0, ![w].pend = 0]
      <4> DEFINE v == [wk[w] EXCEPT !.pc = "receipt", !.cur = rows[r],
                                    !.fee = 0, !.pend = 0]
      <4>1. v.batch = wk[w].batch /\ v.sub = r /\ v.cur = rows[r]
        BY <3>1 DEF Worker
      <4>2. wk' = [wk EXCEPT ![w] = v]
        BY <3>4 DEF TypeInv, TypeOK
      <4> HIDE DEF v
      <4> QED
        BY <3>2, <3>4, <4>1, <4>2
    <3> QED
      BY <1>3, <2>5, <3>3, <3>4 DEF PersistSigned
  <2>6. ASSUME NEW w \in Workers, CheckReceipt(w) PROVE WorkersSound'
    <3>1. /\ wk'[w].batch = wk[w].batch /\ wk'[w].sub = wk[w].sub
          /\ wk'[w].cur = wk[w].cur /\ wk[w].pc = "receipt"
          /\ \A u \in Workers \ {w} : wk'[u] = wk[u]
      BY <1>w, <2>6 DEF CheckReceipt, Step, TypeInv, TypeOK, Worker
    <3> QED
      BY <1>4, <3>1 DEF Owning
  <2>7. ASSUME NEW w \in Workers, NEW next, MarkBroadcast(w, next),
               wk[w].pc \in {"repair", "mark", "remark"}
        PROVE  WorkersSound'
    <3> DEFINE r == wk[w].sub
               sent == [rows[r] EXCEPT !.state = "broadcast"]
    <3>1. r \in Subs /\ rows \in [Subs -> Row] /\ wk[w] \in Worker
      BY <2>7 DEF TypeInv, TypeOK, Engaged, Fit
    <3>2. CASE /\ rows' = [rows EXCEPT ![r] = sent]
               /\ wk' = [wk EXCEPT ![w].pc = next, ![w].cur = sent]
      <4>1. rows'[r] = sent /\ sent.state = "broadcast"
        BY <3>1, <3>2 DEF Row
      <4>2. /\ wk'[w].batch = wk[w].batch /\ wk'[w].sub = r
            /\ wk'[w].cur = sent
            /\ \A u \in Workers \ {w} : wk'[u] = wk[u]
        BY <3>1, <3>2 DEF TypeInv, TypeOK, Worker
      <4> HIDE DEF sent
      <4> QED
        BY <1>7, <3>1, <4>1, <4>2
    <3>3. CASE Step(w, "depth")
      BY <1>5, <2>7, <3>3 DEF Owning
    <3> QED
      BY <1>3, <2>7, <3>2, <3>3 DEF MarkBroadcast
  <2>8. ASSUME NEW w \in Workers, PersistReplacement(w) PROVE WorkersSound'
    <3> DEFINE r == wk[w].sub
               bumped == Bumped(r, wk[w].fee)
    <3>1. /\ r \in Subs /\ rows \in [Subs -> Row] /\ wk[w] \in Worker
          /\ wk[w].fee \in Fees
      BY <2>8 DEF PersistReplacement, TypeInv, TypeOK, Engaged, Fit
    <3>2. ASSUME NEW row, rows'[r] = row, row.state = "signed",
                 wk' = [wk EXCEPT ![w].pc = "resend", ![w].cur = row,
                                  ![w].fee = 0]
          PROVE  WorkersSound'
      <4>1. /\ wk'[w].batch = wk[w].batch /\ wk'[w].sub = r
            /\ wk'[w].cur = row
            /\ \A u \in Workers \ {w} : wk'[u] = wk[u]
        BY <3>1, <3>2 DEF TypeInv, TypeOK, Worker
      <4> QED
        BY <1>7, <3>1, <3>2, <4>1
    <3>3. bumped.state = "signed"
      BY <3>1 DEF Bumped, Row
    <3> HIDE DEF bumped
    <3>4. CASE /\ rows' = [rows EXCEPT ![r] = bumped]
               /\ wk' = [wk EXCEPT ![w].pc = "resend", ![w].cur = bumped,
                                   ![w].fee = 0]
      BY <3>1, <3>2, <3>3, <3>4
    <3>5. CASE /\ rows[r].state = "signed"
               /\ rows' = rows
               /\ wk' = [wk EXCEPT ![w].pc = "resend", ![w].cur = rows[r],
                                   ![w].fee = 0]
      BY <3>2, <3>5
    <3> QED
      BY <1>3, <2>8, <3>4, <3>5 DEF PersistReplacement, bumped
  <2>9. ASSUME NEW w \in Workers,
               RejectRequest(w) \/ ExceedGasCap(w)
        PROVE  WorkersSound'
    <3>1. /\ wk'[w].batch = wk[w].batch /\ wk'[w].pc = "fail"
          /\ \A u \in Workers \ {w} : wk'[u] = wk[u]
      BY <1>w, <2>9 DEF RejectRequest, ExceedGasCap, Step, TypeInv, TypeOK,
                        Worker
    <3> QED
      BY <1>6, <3>1 DEF Owning
  <2>10. ASSUME NEW w \in Workers, VerifyBeforeSend(w) \/ Send(w)
         PROVE  WorkersSound'
    BY <1>3, <1>5, <2>10 DEF VerifyBeforeSend, Send, Owning
  <2>11. ASSUME NEW w \in Workers, CheckDepth(w) PROVE WorkersSound'
    BY <1>3, <1>5, <2>11 DEF CheckDepth, Owning
  <2> QED
    BY <1>2, <1>3, <1>9, <2>1, <2>2, <2>3, <2>4, <2>5, <2>6, <2>7, <2>8,
       <2>9, <2>10, <2>11, NextCases
    DEF BeginPreparation, RetryPreparation, PrepareRequest, MarkPrepared,
        PreparationFails, ApiCrash, ReadStatus, VerifyAuthorization,
        StoreAuthorization, RepairBroadcast, RecordBroadcast,
        RecordRebroadcast, ExceedFeeCap, MarkConfirmed, RecordFailure,
        NotStuck, RetryLater, LoseReply, Crash, Mine, Evict, NextBlock,
        Reorg, Elapse
<1> QED
  BY <1>8, <1>9

LEMMA WorkersCarryBacked == Spec => []WorkersSound
<1>1. Init => WorkersSound
  BY DEF Init, Idle, WorkersSound, Sound, Owning
<1>2. TypeInv /\ SignedRows /\ WorkersSound /\ [Next]_vars => WorkersSound'
  BY WorkersSoundStep
<1> QED
  BY <1>1, <1>2, RowsInductive, PTL DEF Spec

-----------------------------------------------------------------------------
(* Nothing is sent before it is stored *)

Same(t, u) == t.sub = u.sub /\ t.nonce = u.nonce /\ t.fee = u.fee

\* Whatever the network holds it held before, or a worker has just sent it.
LEMMA NetworkStep ==
  ASSUME TypeInv, [Next]_vars, NEW t \in mempool' \cup mined'
  PROVE  \/ \E u \in mempool \cup mined : Same(t, u)
         \/ \E w \in Workers :
              wk[w].pc \in {"send", "resend"} /\ t = CurrentTx(w)
<1> USE DEF chainVars
<1>1. CASE UNCHANGED <<mempool, mined>>
  BY <1>1 DEF Same
<1>2. CASE UNCHANGED vars
  BY <1>1, <1>2 DEF vars
<1>3. CASE Next
  <2>1. ASSUME NEW w \in Workers, Send(w) \/ LoseReply(w)
        PROVE  \/ \E u \in mempool \cup mined : Same(t, u)
               \/ wk[w].pc \in {"send", "resend"} /\ t = CurrentTx(w)
    BY <2>1 DEF Send, LoseReply, Same
  <2>2. ASSUME NEW u \in mempool, Mine(u)
        PROVE  \E v \in mempool \cup mined : Same(t, v)
    BY <2>2 DEF Mine, Same
  <2>3. ASSUME NEW u \in mempool, Evict(u)
        PROVE  \E v \in mempool \cup mined : Same(t, v)
    BY <2>3 DEF Evict, Same
  <2>4. ASSUME NEW d \in 1..Confirmations, Reorg(d)
        PROVE  \E v \in mempool \cup mined : Same(t, v)
    BY <2>4 DEF Reorg, Same
  <2> QED
    BY <1>1, <1>3, <2>1, <2>2, <2>3, <2>4, NextCases
    DEF BeginPreparation, RetryPreparation, PrepareRequest, MarkPrepared,
        PreparationFails, ApiCrash, ReadStatus, VerifyAuthorization,
        StoreAuthorization, Poll, Take, PrepareSigner, BumpFee, Quote,
        PersistSigned, CheckReceipt, RepairBroadcast, RecordBroadcast,
        RecordRebroadcast, MarkBroadcast, VerifyBeforeSend, RejectRequest,
        ExceedGasCap, ExceedFeeCap, PersistReplacement, CheckDepth,
        MarkConfirmed, RecordFailure, NotStuck, RetryLater, Crash, NextBlock,
        Elapse
<1> QED
  BY <1>2, <1>3

\* However workers crash, overlap or replay, and whatever the network does,
\* every transaction it holds or has mined is an attempt stored for its row.
THEOREM StoredBeforeSent == Spec => []PersistedBeforeSent
<1>1. Init => PersistedBeforeSent
  BY DEF Init, PersistedBeforeSent
<1>2. ASSUME TypeInv, SignedRows, WorkersSound, PersistedBeforeSent,
             [Next]_vars
      PROVE  PersistedBeforeSent'
  <2> SUFFICES ASSUME NEW t \in mempool' \cup mined'
               PROVE  Backed(rows', t.sub, t)
    BY DEF PersistedBeforeSent, Backed
  <2>1. ASSUME NEW r \in Subs, NEW row, Backed(rows, r, row)
        PROVE  Backed(rows', r, row)
    BY <1>2, <2>1, HistoryGrows DEF Backed
  <2>2. ASSUME NEW u \in mempool \cup mined, Same(t, u)
        PROVE  Backed(rows', t.sub, t)
    <3>1. u.sub \in Subs
      BY <1>2 DEF TypeInv, TypeOK, Tx, Mined
    <3>2. Backed(rows, u.sub, u)
      BY <1>2 DEF PersistedBeforeSent, Backed
    <3>3. Backed(rows', u.sub, u)
      BY <2>1, <3>1, <3>2
    <3> QED
      BY <2>2, <3>3 DEF Backed, Same
  <2>3. ASSUME NEW w \in Workers, wk[w].pc \in {"send", "resend"},
               t = CurrentTx(w)
        PROVE  Backed(rows', t.sub, t)
    <3>1. wk[w].sub \in Subs
      BY <1>2, <2>3 DEF TypeInv, Engaged, Fit
    <3>2. Backed(rows, wk[w].sub, wk[w].cur)
      BY <1>2, <2>3 DEF WorkersSound, Sound, Owning
    <3>3. Backed(rows', wk[w].sub, wk[w].cur)
      BY <2>1, <3>1, <3>2
    <3> QED
      BY <2>3, <3>3 DEF Backed, CurrentTx
  <2> QED
    BY <1>2, <2>2, <2>3, NetworkStep
<1> QED
  BY <1>1, <1>2, RowsInductive, WorkersCarryBacked, PTL DEF Spec

-----------------------------------------------------------------------------
(* Confirmed is final *)

AtReceipt == {"repair", "depth", "confirm"}

\* A worker past its receipt read holds a receipt of its row that the chain
\* still has, and one about to confirm holds a final success.
Held(v) ==
  /\ v.pc \in AtReceipt => v.rcpt \in mined /\ v.rcpt.sub = v.sub
  /\ v.pc = "confirm" => v.rcpt.ok /\ Final(v.rcpt)

ReceiptsHeld == \A w \in Workers : Held(wk[w])

\* A final block outlives every reorganisation.
LEMMA FinalStays ==
  ASSUME TypeInv, [Next]_vars, NEW m \in mined, Final(m)
  PROVE  m \in mined' /\ m.block + Confirmations <= height'
<1> USE DEF chainVars
<1>0. height \in Nat /\ m.block \in Nat /\ Confirmations \in Nat
  BY RelayAssumption DEF TypeInv, TypeOK, Mined
<1>1. ASSUME m \in mined', height' \in {height, height + 1}
      PROVE  m \in mined' /\ m.block + Confirmations <= height'
  BY <1>0, <1>1 DEF Final
<1>2. CASE UNCHANGED vars
  BY <1>1, <1>2 DEF vars
<1>3. CASE Next
  <2>1. ASSUME NEW d \in 1..Confirmations, Reorg(d)
        PROVE  m \in mined'
    <3>1. ~(m.block > height - d)
      BY <1>0 DEF Final
    <3> QED
      BY <2>1, <3>1 DEF Reorg
  <2> QED
    BY <1>1, <1>3, <2>1, NextCases
    DEF BeginPreparation, RetryPreparation, PrepareRequest, MarkPrepared,
        PreparationFails, ApiCrash, ReadStatus, VerifyAuthorization,
        StoreAuthorization, Poll, Take, PrepareSigner, BumpFee, Quote,
        PersistSigned, CheckReceipt, RepairBroadcast, RecordBroadcast,
        RecordRebroadcast, MarkBroadcast, VerifyBeforeSend, RejectRequest,
        ExceedGasCap, ExceedFeeCap, PersistReplacement, CheckDepth,
        MarkConfirmed, RecordFailure, NotStuck, RetryLater, Crash, NextBlock,
        Send, LoseReply, Mine, Evict, Reorg, Elapse
<1> QED
  BY <1>2, <1>3

\* Between its receipt read and its depth read a worker is not overtaken.
LEMMA HeldReceiptStays ==
  ASSUME TypeInv, ReceiptsHeld, [Next]_vars, ~StallAllowed,
         NEW w \in Workers, wk[w].pc \in AtReceipt
  PROVE  wk[w].rcpt \in mined'
<1>1. wk[w].rcpt \in mined
  BY DEF ReceiptsHeld, Held
<1>2. CASE wk[w].pc = "confirm"
  BY <1>1, <1>2, FinalStays DEF ReceiptsHeld, Held
<1>3. CASE wk[w].pc \in {"repair", "depth"}
  <2> USE DEF chainVars
  <2>1. CASE UNCHANGED vars
    BY <1>1, <2>1 DEF vars
  <2>2. CASE Next
    BY <1>1, <1>3, <2>2, NextCases
    DEF BeginPreparation, RetryPreparation, PrepareRequest, MarkPrepared,
        PreparationFails, ApiCrash, ReadStatus, VerifyAuthorization,
        StoreAuthorization, Poll, Take, PrepareSigner, BumpFee, Quote,
        PersistSigned, CheckReceipt, RepairBroadcast, RecordBroadcast,
        RecordRebroadcast, MarkBroadcast, VerifyBeforeSend, RejectRequest,
        ExceedGasCap, ExceedFeeCap, PersistReplacement, CheckDepth,
        MarkConfirmed, RecordFailure, NotStuck, RetryLater, Crash, NextBlock,
        Send, LoseReply, Mine, Evict, Reorg, Elapse
  <2> QED
    BY <2>1, <2>2
<1> QED
  BY <1>2, <1>3 DEF AtReceipt

\* How a worker comes to hold a receipt.
LEMMA ReceiptSteps ==
  ASSUME TypeInv, [Next]_vars, NEW w \in Workers, wk'[w].pc \in AtReceipt
  PROVE  \/ wk'[w] = wk[w]
         \/ /\ wk'[w].pc \in {"repair", "depth"}
            /\ wk'[w].sub = wk[w].sub
            /\ wk'[w].rcpt \in Receipts(wk[w].sub)
            /\ UNCHANGED chainVars
         \/ /\ wk[w].pc = "repair"
            /\ wk'[w].pc = "depth"
            /\ wk'[w].sub = wk[w].sub /\ wk'[w].rcpt = wk[w].rcpt
         \/ /\ wk[w].pc = "depth"
            /\ wk'[w].pc = "confirm"
            /\ wk'[w].sub = wk[w].sub /\ wk'[w].rcpt = wk[w].rcpt
            /\ wk[w].rcpt.ok /\ Final(wk[w].rcpt)
            /\ UNCHANGED chainVars
<1> DEFINE Goal ==
      \/ wk'[w] = wk[w]
      \/ /\ wk'[w].pc \in {"repair", "depth"}
         /\ wk'[w].sub = wk[w].sub
         /\ wk'[w].rcpt \in Receipts(wk[w].sub)
         /\ UNCHANGED chainVars
      \/ /\ wk[w].pc = "repair"
         /\ wk'[w].pc = "depth"
         /\ wk'[w].sub = wk[w].sub /\ wk'[w].rcpt = wk[w].rcpt
      \/ /\ wk[w].pc = "depth"
         /\ wk'[w].pc = "confirm"
         /\ wk'[w].sub = wk[w].sub /\ wk'[w].rcpt = wk[w].rcpt
         /\ wk[w].rcpt.ok /\ Final(wk[w].rcpt)
         /\ UNCHANGED chainVars
<1>0. wk[w] \in Worker /\ wk \in [Workers -> Worker]
  BY DEF TypeInv, TypeOK
<1>1. ASSUME UNCHANGED wk PROVE Goal
  BY <1>1
<1>2. ASSUME NEW u \in Workers, NEW v, wk' = [wk EXCEPT ![u] = v],
             v.pc \notin AtReceipt
      PROVE  Goal
  BY <1>0, <1>2
<1>3. ASSUME NEW u \in Workers, Done(u) \/ Abort(u) PROVE Goal
  <2>1. ASSUME NEW b PROVE [Idle EXCEPT !.batch = b].pc \notin AtReceipt
    BY DEF Idle, AtReceipt
  <2>2. Idle.pc \notin AtReceipt
    BY DEF Idle, AtReceipt
  <2> QED
    BY <1>2, <1>3, <2>1, <2>2 DEF Done, Abort
<1>4. ASSUME NEW u \in Workers, NEW pc, Step(u, pc), pc \notin AtReceipt
      PROVE  Goal
  <2> DEFINE v == [wk[u] EXCEPT !.pc = pc]
  <2>1. wk' = [wk EXCEPT ![u] = v]
    BY <1>4 DEF Step
  <2>2. v.pc = pc
    BY <1>0 DEF Worker
  <2> HIDE DEF v
  <2> QED
    BY <1>2, <1>4, <2>1, <2>2
\* Everything before the receipt read leaves the worker before it.
<1>5. ASSUME NEW u \in Workers,
             Poll(u) \/ Take(u) \/ PrepareSigner(u) \/ BumpFee(u)
               \/ PersistSigned(u) \/ PersistReplacement(u)
      PROVE  Goal
  <2>1. wk' # wk /\ u = w => wk'[w].pc \notin AtReceipt
    <3>1. CASE Poll(u)
      BY <1>0, <3>1 DEF Poll, Idle, AtReceipt
    <3>2. CASE Take(u)
      <4>1. PICK a \in wk[u].batch :
              wk' = [wk EXCEPT ![u] =
                       [Idle EXCEPT
                          !.pc = IF a.row.state = "authorized"
                                 THEN "sign" ELSE "receipt",
                          !.batch = wk[u].batch \ {a},
                          !.sub = a.sub, !.cur = a.row]]
        BY <3>2 DEF Take
      <4>2. u = w => wk'[w].pc \in {"sign", "receipt"}
        BY <1>0, <4>1 DEF Idle
      <4> QED
        BY <4>2 DEF AtReceipt
    <3>3. CASE PrepareSigner(u) \/ BumpFee(u)
      <4>1. \E fee, n, next :
              /\ wk' = [wk EXCEPT ![u].pc = next, ![u].fee = fee,
                                  ![u].pend = n]
              /\ next \in {"persist", "replace"}
        BY <3>3 DEF PrepareSigner, BumpFee, Quote
      <4>2. u = w => wk'[w].pc \in {"persist", "replace"}
        BY <1>0, <4>1 DEF Worker
      <4> QED
        BY <4>2 DEF AtReceipt
    <3>4. CASE PersistSigned(u)
      <4>1. u = w => wk'[w].pc \in {"receipt", "idle"}
        BY <1>0, <3>4 DEF PersistSigned, Worker, Done, Abort, Idle
      <4> QED
        BY <4>1 DEF AtReceipt
    <3>5. CASE PersistReplacement(u)
      <4>1. u = w => wk'[w].pc \in {"resend", "idle"}
        BY <1>0, <3>5 DEF PersistReplacement, Worker, Done, Abort, Idle
      <4> QED
        BY <4>1 DEF AtReceipt
    <3> QED
      BY <1>5, <3>1, <3>2, <3>3, <3>4, <3>5
  <2>2. u # w => wk'[w] = wk[w]
    BY <1>0, <1>5 DEF Poll, Take, PrepareSigner, BumpFee, Quote,
                      PersistSigned, PersistReplacement, Done, Abort
  <2> QED
    BY <2>1, <2>2
<1>6. ASSUME NEW u \in Workers, CheckReceipt(u) PROVE Goal
  <2>1. CASE u # w
    BY <1>0, <1>6, <2>1 DEF CheckReceipt, Step
  <2>2. CASE u = w
    <3> DEFINE signed == wk[w].cur.state = "signed"
    <3>1. ASSUME NEW m \in Receipts(wk[w].sub), NEW pc \in {"repair", "depth"},
                 wk' = [wk EXCEPT ![w].pc = pc, ![w].rcpt = m]
          PROVE  Goal
      <4>1. wk'[w].pc = pc /\ wk'[w].rcpt = m /\ wk'[w].sub = wk[w].sub
        BY <1>0, <3>1 DEF Worker
      <4>2. UNCHANGED chainVars
        BY <1>6 DEF CheckReceipt
      <4> QED
        BY <3>1, <4>1, <4>2
    <3>2. ASSUME NEW m \in Receipts(wk[w].sub),
                 wk' = [wk EXCEPT ![w].pc = IF signed THEN "repair" ELSE "depth",
                                  ![w].rcpt = m]
          PROVE  Goal
      <4> HIDE DEF Goal, signed
      <4>1. CASE signed
        BY <3>1, <3>2, <4>1
      <4>2. CASE ~signed
        BY <3>1, <3>2, <4>2
      <4> QED
        BY <4>1, <4>2
    <3>3. CASE Step(w, IF signed THEN "verify" ELSE "stuck")
      <4> HIDE DEF Goal, signed
      <4>1. (IF signed THEN "verify" ELSE "stuck") \notin AtReceipt
        BY DEF AtReceipt
      <4> QED
        BY <1>4, <3>3, <4>1
    <3> HIDE DEF Goal
    <3> QED
      BY <1>6, <2>2, <3>2, <3>3 DEF CheckReceipt
  <2> QED
    BY <2>1, <2>2
<1>7. ASSUME NEW u \in Workers, RepairBroadcast(u) PROVE Goal
  <2>1. \/ Abort(u) \/ Done(u)
        \/ Step(u, "depth")
        \/ \E row : wk' = [wk EXCEPT ![u].pc = "depth", ![u].cur = row]
    BY <1>7 DEF RepairBroadcast, MarkBroadcast
  <2>2. CASE Step(u, "depth")
    BY <1>0, <1>7, <2>2 DEF RepairBroadcast, Step, Worker
  <2>3. ASSUME NEW row, wk' = [wk EXCEPT ![u].pc = "depth", ![u].cur = row]
        PROVE  Goal
    BY <1>0, <1>7, <2>3 DEF RepairBroadcast, Worker
  <2> QED
    BY <1>3, <2>1, <2>2, <2>3
<1>8. ASSUME NEW u \in Workers, RecordBroadcast(u) \/ RecordRebroadcast(u)
      PROVE  Goal
  <2>1. \/ Abort(u) \/ Done(u)
        \/ \E row : wk' = [wk EXCEPT ![u].pc = "receipt", ![u].cur = row]
    BY <1>8 DEF RecordBroadcast, RecordRebroadcast, MarkBroadcast
  <2>2. ASSUME NEW row, wk' = [wk EXCEPT ![u].pc = "receipt", ![u].cur = row]
        PROVE  Goal
    BY <1>0, <2>2 DEF Worker, AtReceipt
  <2> QED
    BY <1>3, <2>1, <2>2
<1>9. ASSUME NEW u \in Workers, CheckDepth(u) PROVE Goal
  <2>1. CASE Step(u, "confirm") /\ wk[u].rcpt.ok /\ Final(wk[u].rcpt)
    BY <1>0, <1>9, <2>1 DEF CheckDepth, Step, Worker
  <2> QED
    BY <1>3, <1>4, <1>9, <2>1 DEF CheckDepth, AtReceipt
<1>10. ASSUME NEW u \in Workers,
              VerifyBeforeSend(u) \/ Send(u) \/ RejectRequest(u)
                \/ ExceedGasCap(u)
       PROVE  Goal
  BY <1>3, <1>4, <1>10
  DEF VerifyBeforeSend, Send, RejectRequest, ExceedGasCap, AtReceipt
<1> SUFFICES Goal
  OBVIOUS
<1> HIDE DEF Goal
<1>11. CASE UNCHANGED vars
  BY <1>1, <1>11 DEF vars
<1>12. CASE Next
  BY <1>1, <1>3, <1>5, <1>6, <1>7, <1>8, <1>9, <1>10, <1>12, NextCases
  DEF BeginPreparation, RetryPreparation, PrepareRequest, MarkPrepared,
      PreparationFails, ApiCrash, ReadStatus, VerifyAuthorization,
      StoreAuthorization, ExceedFeeCap, MarkConfirmed, RecordFailure,
      NotStuck, RetryLater, LoseReply, Crash, Mine, Evict, NextBlock, Reorg,
      Elapse
<1> QED
  BY <1>11, <1>12

LEMMA ReceiptsHeldStep ==
  ASSUME TypeInv, ReceiptsHeld, [Next]_vars, ~StallAllowed
  PROVE  ReceiptsHeld'
<1> SUFFICES ASSUME NEW w \in Workers, wk'[w].pc \in AtReceipt
             PROVE  /\ wk'[w].rcpt \in mined' /\ wk'[w].rcpt.sub = wk'[w].sub
                    /\ wk'[w].pc = "confirm" =>
                         /\ wk'[w].rcpt.ok
                         /\ wk'[w].rcpt.block + Confirmations <= height'
  BY DEF ReceiptsHeld, Held, AtReceipt, Final
<1>1. /\ wk[w].pc \in AtReceipt =>
           wk[w].rcpt \in mined /\ wk[w].rcpt.sub = wk[w].sub
      /\ wk[w].pc = "confirm" => wk[w].rcpt.ok /\ Final(wk[w].rcpt)
  BY DEF ReceiptsHeld, Held
<1>2. CASE wk'[w] = wk[w]
  <2>1. wk[w].rcpt \in mined'
    BY <1>2, HeldReceiptStays
  <2>2. ASSUME wk[w].pc = "confirm"
        PROVE  /\ wk[w].rcpt.ok
               /\ wk[w].rcpt.block + Confirmations <= height'
    <3>1. wk[w].rcpt \in mined
      BY <1>1, <2>2 DEF AtReceipt
    <3> QED
      BY <1>1, <2>2, <3>1, FinalStays
  <2> QED
    BY <1>1, <1>2, <2>1, <2>2
<1>3. CASE /\ wk'[w].pc \in {"repair", "depth"}
           /\ wk'[w].sub = wk[w].sub
           /\ wk'[w].rcpt \in Receipts(wk[w].sub)
           /\ UNCHANGED chainVars
  BY <1>3 DEF Receipts, chainVars
<1>4. CASE /\ wk[w].pc = "repair"
           /\ wk'[w].pc = "depth"
           /\ wk'[w].sub = wk[w].sub /\ wk'[w].rcpt = wk[w].rcpt
  BY <1>1, <1>4, HeldReceiptStays DEF AtReceipt
<1>5. CASE /\ wk[w].pc = "depth"
           /\ wk'[w].pc = "confirm"
           /\ wk'[w].sub = wk[w].sub /\ wk'[w].rcpt = wk[w].rcpt
           /\ wk[w].rcpt.ok /\ Final(wk[w].rcpt)
           /\ UNCHANGED chainVars
  BY <1>1, <1>5 DEF AtReceipt, chainVars, Final
<1> QED
  BY <1>2, <1>3, <1>4, <1>5, ReceiptSteps

\* When no worker stalls across a reorganisation, a confirmed row names a
\* successful transaction that lies too deep to be undone: for any number of
\* workers, replacements and reorganisations.
THEOREM ConfirmedFinal ==
  ASSUME ~StallAllowed
  PROVE  Spec => []ConfirmedIsFinal
<1>1. Init => ReceiptsHeld /\ ConfirmedIsFinal
  BY DEF Init, Idle, NoRow, ReceiptsHeld, Held, AtReceipt, ConfirmedIsFinal
<1>2. TypeInv /\ ReceiptsHeld /\ [Next]_vars => ReceiptsHeld'
  BY ReceiptsHeldStep
<1>3. ASSUME TypeInv, ReceiptsHeld, ConfirmedIsFinal, [Next]_vars
      PROVE  ConfirmedIsFinal'
  <2> SUFFICES ASSUME NEW r \in Subs, rows'[r].state = "confirmed"
               PROVE  \E m \in mined' : /\ m.sub = r
                                        /\ m.fee = rows'[r].fee
                                        /\ m.block = rows'[r].block
                                        /\ m.ok
                                        /\ m.block + Confirmations <= height'
    BY DEF ConfirmedIsFinal, Final
  <2>1. rows[r] \in Row /\ Change(r)
    BY <1>3, RowChange DEF TypeInv, TypeOK
  <2>2. \/ /\ rows[r].state = "confirmed"
           /\ rows'[r].fee = rows[r].fee /\ rows'[r].block = rows[r].block
        \/ Confirmed(r)
    BY <2>1 DEF Change, Moved, StateMoves, Opened, NoRow, Prepared,
                SignedFirst, SignedAgain, Bumped, Row
  <2>3. CASE /\ rows[r].state = "confirmed"
             /\ rows'[r].fee = rows[r].fee /\ rows'[r].block = rows[r].block
    BY <1>3, <2>3, FinalStays DEF ConfirmedIsFinal
  <2>4. CASE Confirmed(r)
    <3>1. PICK w \in Workers :
            /\ wk[w].pc = "confirm"
            /\ wk[w].sub = r
            /\ rows'[r] = [rows[r] EXCEPT !.state = "confirmed",
                                          !.fee = wk[w].rcpt.fee,
                                          !.block = wk[w].rcpt.block]
      BY <2>4 DEF Confirmed
    <3>2. /\ wk[w].rcpt \in mined /\ wk[w].rcpt.sub = r
          /\ wk[w].rcpt.ok /\ Final(wk[w].rcpt)
      BY <1>3, <3>1 DEF ReceiptsHeld, Held, AtReceipt
    <3>3. /\ wk[w].rcpt \in mined'
          /\ wk[w].rcpt.block + Confirmations <= height'
      BY <1>3, <3>2, FinalStays
    <3>4. /\ rows'[r].fee = wk[w].rcpt.fee
          /\ rows'[r].block = wk[w].rcpt.block
      BY <2>1, <3>1 DEF Row
    <3> QED
      BY <3>2, <3>3, <3>4
  <2> QED
    BY <2>2, <2>3, <2>4
<1> QED
  BY <1>1, <1>2, <1>3, RowsInductive, PTL DEF Spec

-----------------------------------------------------------------------------
(* The account's nonces on the chain *)

\* Mined transactions use the nonces from zero on, once each, in block order:
\* what makes a reorganisation cut the sequence at its end.
ChainOrdered ==
  /\ \A m, n \in mined : m.nonce = n.nonce => m = n
  /\ \A m \in mined : \A i \in 0..m.nonce : \E n \in mined : n.nonce = i
  /\ \A m, n \in mined : m.nonce < n.nonce => m.block < n.block
  /\ \A m \in mined : m.block <= height

LEMMA MinedTyped ==
  ASSUME TypeInv
  PROVE  /\ IsFiniteSet(mined)
         /\ Cardinality(mined) \in Nat
         /\ \A m \in mined : m.nonce \in Nat /\ m.block \in Nat
         /\ height \in Nat
BY FS_CardinalityType DEF TypeInv, TypeOK, Mined

\* No mined nonce reaches the account's next one.
LEMMA NoncesBelow ==
  ASSUME TypeInv, ChainOrdered, NEW m \in mined
  PROVE  m.nonce < AccountNonce
<1> DEFINE S == {n \in mined : n.nonce <= m.nonce}
           T == 0..m.nonce
           f == [n \in S |-> n.nonce]
<1>1. IsFiniteSet(S) /\ Cardinality(S) <= Cardinality(mined)
  BY MinedTyped, FS_Subset
<1>2. f \in Surjection(S, T)
  <2>1. f \in [S -> T]
    BY MinedTyped
  <2>2. \A i \in T : \E n \in S : f[n] = i
    BY MinedTyped DEF ChainOrdered
  <2> QED
    BY <2>1, <2>2 DEF Surjection
<1>3. Cardinality(T) = m.nonce + 1
  <2>1. m.nonce \in Nat
    BY MinedTyped
  <2>2. Cardinality(0..m.nonce) = IF 0 > m.nonce THEN 0 ELSE m.nonce - 0 + 1
    BY <2>1, FS_Interval
  <2> QED
    BY <2>1, <2>2
<1>4. Cardinality(T) <= Cardinality(S)
  <2> HIDE DEF S, T, f
  <2> QED
    BY <1>1, <1>2, FS_Surjection
<1>5. Cardinality(S) \in Nat
  <2> HIDE DEF S, T, f
  <2> QED
    BY <1>1, FS_CardinalityType
<1> HIDE DEF S, T, f
<1> QED
  BY <1>1, <1>3, <1>4, <1>5, MinedTyped DEF AccountNonce

\* Every nonce below the account's next one is mined.
LEMMA NoncesFill ==
  ASSUME TypeInv, ChainOrdered
  PROVE  \A i \in 0..(AccountNonce - 1) : \E n \in mined : n.nonce = i
<1> DEFINE T == 0..(AccountNonce - 1)
           f == [n \in mined |-> n.nonce]
<1>0. AccountNonce \in Nat
  BY MinedTyped DEF AccountNonce
<1>1. f \in Injection(mined, T)
  <2>1. f \in [mined -> T]
    BY <1>0, MinedTyped, NoncesBelow
  <2>2. \A m, n \in mined : f[m] = f[n] => m = n
    BY DEF ChainOrdered
  <2> QED
    BY <2>1, <2>2 DEF Injection, IsInjective
<1>2. IsFiniteSet(T) /\ Cardinality(T) = Cardinality(mined)
  BY <1>0, FS_Interval DEF AccountNonce
<1>3. f \in Surjection(mined, T)
  <2> HIDE DEF T, f
  <2> QED
    BY <1>1, <1>2, FS_Injection
<1> QED
  BY <1>3 DEF Surjection

LEMMA ChainOrderedStep ==
  TypeInv /\ ChainOrdered /\ [Next]_vars => ChainOrdered'
<1> SUFFICES ASSUME TypeInv, ChainOrdered, [Next]_vars
             PROVE  ChainOrdered'
  OBVIOUS
<1> USE DEF chainVars
<1>0. /\ height \in Nat
      /\ \A m \in mined : m.nonce \in Nat /\ m.block \in Nat
  BY MinedTyped
<1>1. ASSUME mined' = mined, height' \in {height, height + 1}
      PROVE  ChainOrdered'
  BY <1>0, <1>1 DEF ChainOrdered
<1>2. CASE UNCHANGED vars
  BY <1>1, <1>2 DEF vars
<1>3. ASSUME NEW t \in mempool, Mine(t) PROVE ChainOrdered'
  <2>1. PICK ok \in BOOLEAN :
          mined' = mined \cup {[sub |-> t.sub, nonce |-> t.nonce,
                               fee |-> t.fee, block |-> height + 1, ok |-> ok]}
    BY <1>3 DEF Mine
  <2> DEFINE new == [sub |-> t.sub, nonce |-> t.nonce, fee |-> t.fee,
                     block |-> height + 1, ok |-> ok]
  <2>2. /\ mined' = mined \cup {new}
        /\ new.nonce = AccountNonce
        /\ new.block = height + 1
        /\ height' = height + 1
        /\ AccountNonce \in Nat
    BY <1>3, <2>1, MinedTyped DEF Mine, AccountNonce
  <2> HIDE DEF new
  <2>3. \A m \in mined : /\ m.nonce < new.nonce
                         /\ m.block < new.block
    BY <1>0, <2>2, NoncesBelow DEF ChainOrdered
  <2>4. \A m, n \in mined' : m.nonce = n.nonce => m = n
    BY <1>0, <2>2, <2>3 DEF ChainOrdered
  <2>5. \A m, n \in mined' : m.nonce < n.nonce => m.block < n.block
    BY <1>0, <2>2, <2>3 DEF ChainOrdered
  <2>6. \A m \in mined' : m.block <= height'
    BY <1>0, <2>2 DEF ChainOrdered
  <2>7. ASSUME NEW m \in mined', NEW i \in 0..m.nonce
        PROVE  \E n \in mined' : n.nonce = i
    <3>1. CASE m \in mined
      BY <2>2, <2>7, <3>1 DEF ChainOrdered
    <3>2. CASE m = new /\ i = AccountNonce
      BY <2>2, <3>2
    <3>3. CASE m = new /\ i # AccountNonce
      <4>1. i \in 0..(AccountNonce - 1)
        BY <2>2, <2>7, <3>3
      <4> QED
        BY <2>2, <4>1, NoncesFill
    <3> QED
      BY <2>2, <2>7, <3>1, <3>2, <3>3
  <2> QED
    BY <2>4, <2>5, <2>6, <2>7 DEF ChainOrdered
\* Whatever has a lower nonce than a survivor lies in an earlier block, so it
\* survives as well.
<1>4. ASSUME NEW d \in 1..Confirmations, Reorg(d) PROVE ChainOrdered'
  <2>0. d \in Nat
    BY RelayAssumption
  <2>1. /\ mined' = {m \in mined : ~(m.block > height - d)}
        /\ height' = height + 1
    BY <1>4 DEF Reorg
  <2>2. mined' \subseteq mined
    BY <2>1
  <2>3. ASSUME NEW m \in mined', NEW i \in 0..m.nonce
        PROVE  \E n \in mined' : n.nonce = i
    <3>1. PICK n \in mined : n.nonce = i
      BY <2>2, <2>3 DEF ChainOrdered
    <3>2. CASE n.nonce = m.nonce
      BY <2>2, <3>1, <3>2 DEF ChainOrdered
    <3>3. CASE n.nonce # m.nonce
      <4>1. n.nonce < m.nonce
        BY <1>0, <2>2, <2>3, <3>1, <3>3
      <4>2. n.block < m.block
        BY <2>2, <4>1 DEF ChainOrdered
      <4>3. m.block <= height - d
        BY <1>0, <2>0, <2>1, <2>2
      <4>4. n \in mined'
        BY <1>0, <2>0, <2>1, <2>2, <4>2, <4>3
      <4> QED
        BY <3>1, <4>4
    <3> QED
      BY <3>2, <3>3
  <2>4. \A m \in mined' : m.block <= height'
    BY <1>0, <2>1, <2>2 DEF ChainOrdered
  <2> QED
    BY <2>2, <2>3, <2>4 DEF ChainOrdered
<1>5. CASE Next
  BY <1>1, <1>3, <1>4, <1>5, NextCases
  DEF BeginPreparation, RetryPreparation, PrepareRequest, MarkPrepared,
      PreparationFails, ApiCrash, ReadStatus, VerifyAuthorization,
      StoreAuthorization, Poll, Take, PrepareSigner, BumpFee, Quote,
      PersistSigned, CheckReceipt, RepairBroadcast, RecordBroadcast,
      RecordRebroadcast, MarkBroadcast, VerifyBeforeSend, RejectRequest,
      ExceedGasCap, ExceedFeeCap, PersistReplacement, CheckDepth,
      MarkConfirmed, RecordFailure, NotStuck, RetryLater, Crash, NextBlock,
      Send, LoseReply, Evict, Elapse
<1> QED
  BY <1>2, <1>5

\* The relayer pays at most once for one row: crashes, replays and fee bumps
\* of any number of workers never get two attempts of a row mined.
THEOREM GasSpentOnce == Spec => []OneMinedAttempt
<1>1. Init => ChainOrdered
  BY DEF Init, ChainOrdered
<1>2. TypeInv /\ ChainOrdered /\ [Next]_vars => ChainOrdered'
  BY ChainOrderedStep
<1>3. ChainOrdered /\ PersistedBeforeSent => OneMinedAttempt
  BY DEF ChainOrdered, PersistedBeforeSent, OneMinedAttempt
<1> QED
  BY <1>1, <1>2, <1>3, RowsInductive, StoredBeforeSent, PTL DEF Spec

=============================================================================
