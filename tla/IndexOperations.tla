--------------------------- MODULE IndexOperations ---------------------------
(***************************************************************************)
(* The readers of the claim index, running while the listener writes it:   *)
(* the reconciler, which compares it page by page with the contract at the *)
(* checkpoint's block; an operator paging through the event history; and   *)
(* the operations snapshot, which combines stored progress with a later    *)
(* sample of the chain head. None of them changes the index.               *)
(***************************************************************************)
EXTENDS ClaimIndex

CONSTANT PageSize   \* rows of one database page

ASSUME PageSizeAssumption == PageSize \in Nat \ {0}

VARIABLE session    \* the read in progress, and the answer it gave

opsVars == <<vars, session>>

Empty == [c \in {} |-> {}]

Idle == [kind |-> "none", pc |-> "done", at |-> 0, before |-> {}, page |-> 0,
         byId |-> Empty, seen |-> {}, result |-> {}, ok |-> TRUE]

OpsInit == Init /\ session = Idle

Indexed == {c \in 1..MaxClaims : rows[c] # NoRow}

Begin(kind, pc) ==
  session' = [Idle EXCEPT !.kind = kind, !.pc = pc, !.at = checkpoint,
                          !.before = events, !.page = 1]

-----------------------------------------------------------------------------
(* ClaimIndexReconciler *)

\* reconcile refuses to run without a checkpoint.
ReconcileStart ==
  /\ session.pc = "done"
  /\ checkpoint # NoCheckpoint
  /\ Begin("reconcile", "pages")
  /\ UNCHANGED vars

\* list_claims: OFFSET page p of the rows, newest claim first.
ClaimsPage(p) ==
  {c \in Indexed :
     Cardinality({d \in Indexed : d > c}) \in (p - 1) * PageSize .. p * PageSize - 1}

Collected(p) ==
  [c \in DOMAIN session.byId \cup ClaimsPage(p) |->
     IF c \in ClaimsPage(p) THEN rows[c] ELSE session.byId[c]]

\* Fault: the number of pages is fixed by the first page's total.
EnoughAtFirst(p) ==
  Cardinality({c \in Indexed : \E l \in session.before : l.claim = c}) <= p * PageSize

\* Whether the loop of reconcile ends after page p.
LastPage(p) ==
  \/ ClaimsPage(p) = {}
  \/ Cardinality(DOMAIN Collected(p)) >= Cardinality(Indexed)

ReconcilePage ==
  /\ session.kind = "reconcile" /\ session.pc = "pages"
  /\ session' = [session EXCEPT
       !.byId = Collected(session.page),
       !.page = @ + 1,
       !.pc = IF LastPage(session.page) THEN "compare" ELSE "pages"]
  /\ UNCHANGED vars

\* _same_public_state
SamePublicState(chain, row) ==
  chain.content = row.content /\ chain.status = row.status

\* Fault: the contract is read at the newest block.
CompareAtHead(at) == head

\* The block every contract read is pinned to.
CompareBlock(at) == at

\* The three difference categories, tagged. ok says that the index held
\* nothing beyond the checkpoint and stood still during the comparison.
ReconcileCompare ==
  LET at    == CompareBlock(session.at)
      found == DOMAIN session.byId
      chain == 1..CountAt(at)
  IN  /\ session.kind = "reconcile" /\ session.pc = "compare"
      /\ session' = [session EXCEPT
           !.pc = "done",
           !.ok = /\ events = session.before
                  /\ \A l \in events : l.block <= session.at,
           !.result =
             {<<"missing", c>> : c \in chain \ found} \cup
             {<<"unexpected", c>> : c \in found \ chain} \cup
             {<<"mismatched", c>> : c \in
                {d \in chain \cap found :
                   ~SamePublicState(StateAt(d, at), session.byId[d])}}]
      /\ UNCHANGED vars

-----------------------------------------------------------------------------
(* search_events *)

SearchStart ==
  /\ session.pc = "done"
  /\ Begin("search", "pages")
  /\ UNCHANGED vars

\* Fault: pages are counted from the newest event (OFFSET).
OffsetBelow(seen) ==
  {e \in events :
     Cardinality({f \in events : f # e /\ AtOrAfter(f, e)}) >= Cardinality(seen)}

\* The keyset condition: strictly before the last event already returned.
Below(seen) == {e \in events : \A s \in seen : ~AtOrAfter(e, s)}

SearchPage ==
  LET left == Below(session.seen)
      page == {e \in left :
                 Cardinality({f \in left : f # e /\ AtOrAfter(f, e)}) < PageSize}
  IN  /\ session.kind = "search" /\ session.pc = "pages"
      /\ session' = [session EXCEPT
           !.seen = @ \cup page,
           !.ok = @ /\ page \cap session.seen = {},
           !.pc = IF page = left THEN "done" ELSE "pages"]
      /\ UNCHANGED vars

-----------------------------------------------------------------------------
(* IndexerOperationsService.snapshot *)

SnapshotRead ==
  /\ session.pc = "done"
  /\ Begin("snapshot", "sample")
  /\ UNCHANGED vars

\* Fault: the newest block is compared without its confirmations' distance.
LagOffByOne(latest, indexed) ==
  LET safe == latest - Confirmations - 1
  IN  IF safe > indexed THEN safe - indexed ELSE 0

BlockLag(latest, indexed) ==
  LET safe == IF latest > Confirmations THEN latest - Confirmations ELSE 0
  IN  IF safe > indexed THEN safe - indexed ELSE 0

\* available: the RPC answered; aged: the checkpoint is older than
\* stale_after_seconds.
OperationsState(indexed, available, latest, aged) ==
  CASE indexed = NoCheckpoint                      -> "uninitialized"
    [] indexed # NoCheckpoint /\ (~available \/ indexed > latest) -> "degraded"
    [] OTHER ->
         IF BlockLag(latest, indexed) = 0 THEN "healthy"
         ELSE IF aged THEN "stalled" ELSE "catching_up"

SnapshotSample ==
  /\ session.kind = "snapshot" /\ session.pc = "sample"
  /\ \E available, aged \in BOOLEAN :
       session' = [session EXCEPT
         !.pc = "done",
         !.result = {OperationsState(session.at, available, head, aged)}]
  /\ UNCHANGED vars

-----------------------------------------------------------------------------
Read ==
  \/ ReconcileStart \/ ReconcilePage \/ ReconcileCompare
  \/ SearchStart \/ SearchPage
  \/ SnapshotRead \/ SnapshotSample

OpsNext == Read \/ (Next /\ UNCHANGED session)

OpsSpec == OpsInit /\ [][OpsNext]_opsVars

-----------------------------------------------------------------------------
(* Properties *)

Reconciled == session.kind = "reconcile" /\ session.pc = "done"

\* While the listener keeps inserting rows, the drifting pages of list_claims
\* never make the reconciler report a claim missing that was indexed when the
\* comparison began.
NoFalseMissing ==
  Reconciled =>
    \A c \in 1..MaxClaims :
      <<"missing", c>> \in session.result => \A l \in session.before : l.claim # c

\* Against an index that stands still at its checkpoint, the report is exact:
\* the claims submitted before the replay origin are missing, nothing else
\* differs.
ReconciliationExact ==
  (Reconciled /\ session.ok) =>
    session.result =
      {<<"missing", l.claim>> : l \in
         {m \in LogSet : /\ m.status = "Submitted"
                         /\ m.block < startBlock
                         /\ m.block <= session.at}}

\* A walk through the pages of the event history returns every event that was
\* recorded when it began, and none twice, whatever is inserted meanwhile.
WalkComplete ==
  session.kind = "search" =>
    /\ session.ok
    /\ session.pc = "done" => session.before \subseteq session.seen

\* The dashboard says "healthy" only when the index holds every log that is
\* confirmed at the moment the head is sampled, though its progress was read
\* before.
HealthyMeansCaughtUp ==
  [][(session.kind = "snapshot" /\ session.pc = "sample"
        /\ session'.result = {"healthy"})
       => \A l \in LogSet : l.block \in startBlock..SafeBlock(head) => l \in events]_opsVars

=============================================================================
