------------------------ MODULE IndexOperations_proofs ------------------------
(***************************************************************************)
(* What the readers of the claim index may rely on while the listeners     *)
(* write it, for any number of rows, any page size and any interleaving.   *)
(***************************************************************************)
EXTENDS IndexOperations, ClaimIndex_proofs

-----------------------------------------------------------------------------
(* Pages of claims *)

RowsOf(r) == {c \in 1..MaxClaims : r[c] # NoRow}

\* Where a claim stands in list_claims: how many rows come before it.
Rank(S, c) == Cardinality({d \in S : d > c})

LEMMA RankTyped ==
  ASSUME NEW S \in SUBSET Nat, IsFiniteSet(S), NEW c
  PROVE  IsFiniteSet({d \in S : d > c}) /\ Rank(S, c) \in Nat
<1>1. {d \in S : d > c} \in SUBSET S
  OBVIOUS
<1>2. IsFiniteSet({d \in S : d > c})
  BY <1>1, FS_Subset
<1> QED
  BY <1>2, FS_CardinalityType DEF Rank

\* New rows only push a claim to later pages.
LEMMA RankGrows ==
  ASSUME NEW S \in SUBSET Nat, NEW T \in SUBSET Nat, S \subseteq T, IsFiniteSet(T), NEW c
  PROVE  Rank(S, c) <= Rank(T, c)
<1> DEFINE A == {d \in S : d > c}
           B == {d \in T : d > c}
<1>1. A \in SUBSET B
  OBVIOUS
<1>2. IsFiniteSet(B)
  BY RankTyped
<1> HIDE DEF A, B
<1>3. Cardinality(A) <= Cardinality(B)
  BY <1>1, <1>2, FS_Subset
<1> QED
  BY <1>3 DEF Rank, A, B

\* The claim just above another one is one place before it.
LEMMA RankAbove ==
  ASSUME NEW S \in SUBSET Nat, IsFiniteSet(S), NEW c \in S, Rank(S, c) # 0
  PROVE  \E d \in S : d > c /\ Rank(S, c) = Rank(S, d) + 1
<1> DEFINE A == {d \in S : d > c}
<1>1. A # {}
  <2>1. SUFFICES ASSUME A = {} PROVE FALSE
    OBVIOUS
  <2> HIDE DEF A
  <2> QED
    BY <2>1, FS_EmptySet DEF Rank, A
<1>2. PICK d \in A : \A e \in A : d <= e
  <2>1. A \in SUBSET Nat
    OBVIOUS
  <2> HIDE DEF A
  <2> QED
    BY <1>1, <2>1, LeastNat
<1> DEFINE B == {e \in S : e > d}
<1>3. A = B \cup {d} /\ d \notin B
  <2>1. d \in S /\ d > c /\ d \in Nat /\ c \in Nat
    BY <1>2
  <2>2. \A e \in S : e > c => e = d \/ e > d
    BY <1>2
  <2>3. \A e \in S : e > d => e > c
    BY <2>1
  <2>4. d \notin B
    BY <2>1
  <2>5. \A e : e \in A <=> e \in B \cup {d}
    BY <2>1, <2>2, <2>3
  <2> HIDE DEF A, B
  <2> QED
    BY <2>4, <2>5
<1>4. IsFiniteSet(B)
  BY RankTyped
<1>5. Cardinality(B \cup {d}) = Cardinality(B) + 1
  <2> HIDE DEF A, B
  <2> QED
    BY <1>3, <1>4, FS_AddElement
<1>6. Rank(S, c) = Rank(S, d) + 1
  BY <1>3, <1>5 DEF Rank
<1> QED
  BY <1>2, <1>6

\* The places are taken without a gap: a page after which rows follow is full,
\* and an empty page is the last.
LEMMA NoRankSkipped ==
  ASSUME NEW S \in SUBSET Nat, IsFiniteSet(S), NEW k \in Nat,
         NEW c \in S, Rank(S, c) >= k
  PROVE  \E d \in S : Rank(S, d) = k
<1> DEFINE T == {Rank(S, d) - k : d \in {e \in S : Rank(S, e) >= k}}
<1>1. \A d \in S : Rank(S, d) \in Nat
  BY RankTyped
<1>2. T \in SUBSET Nat /\ Rank(S, c) - k \in T
  BY <1>1
<1>3. PICK n \in T : \A m \in T : n <= m
  <2> HIDE DEF T
  <2> QED
    BY <1>2, LeastNat
<1>4. PICK d \in S : Rank(S, d) >= k /\ n = Rank(S, d) - k
  BY <1>3
<1>5. ASSUME n # 0 PROVE FALSE
  <2>1. Rank(S, d) # 0 /\ Rank(S, d) > k
    BY <1>1, <1>4, <1>5
  <2>2. PICK e \in S : Rank(S, d) = Rank(S, e) + 1
    BY <2>1, RankAbove
  <2>3. Rank(S, e) >= k /\ Rank(S, e) - k < n
    BY <1>1, <1>4, <2>1, <2>2
  <2>4. Rank(S, e) - k \in T
    BY <2>3
  <2>5. Rank(S, e) - k \in Int /\ n \in Int
    BY <1>1, <1>4
  <2> QED
    BY <1>3, <2>3, <2>4, <2>5
<1>6. n = 0
  BY <1>5
<1>7. Rank(S, d) = k
  BY <1>1, <1>4, <1>6
<1> QED
  BY <1>7

-----------------------------------------------------------------------------
(* The invariant of a read in progress *)

Session(s) ==
  s \in [kind : {"none", "reconcile", "search", "snapshot"},
         pc : {"done", "pages", "compare", "sample"}, at : Int, before : SUBSET Log,
         page : Nat, byId : {s.byId}, seen : SUBSET Log, result : {s.result},
         ok : BOOLEAN]

\* The claims a replay that begins later than their submission never records.
Skipped(v, at) ==
  {<<"missing", l.claim>> : l \in
     {m \in v.logs : m.status = "Submitted" /\ m.block < v.start /\ m.block <= at}}

\* No claim indexed at the beginning is lost: it is collected, or it stands on
\* a later page. Rows collected while nothing was recorded are the rows still.
ReconcileSound(v, r, s) ==
  /\ s.at # NoCheckpoint
  /\ s.pc \in {"pages", "compare", "done"}
  /\ s.page \in Nat \ {0}
  /\ DOMAIN s.byId \subseteq RowsOf(r)
  /\ \A m \in s.before :
       \/ m.claim \in DOMAIN s.byId
       \/ s.pc = "pages" /\ Rank(RowsOf(r), m.claim) >= (s.page - 1) * PageSize
  /\ v.events = s.before => \A c \in DOMAIN s.byId : s.byId[c] = r[c]
  /\ s.pc = "done" =>
       /\ \A m \in s.before : <<"missing", m.claim>> \notin s.result
       /\ s.ok => s.result = Skipped(v, s.at)

\* An event not yet returned is below all that are.
SearchSound(v, s) ==
  /\ s.ok /\ s.pc \in {"pages", "done"} /\ s.seen \subseteq v.events
  /\ \A m \in s.before \ s.seen : \A e \in s.seen : Earlier(m, e)
  /\ s.pc = "done" => s.before \subseteq s.seen

ReadSound(v, r, s) ==
  /\ s.kind # "none" =>
       /\ s.before \subseteq v.events
       /\ s.at # NoCheckpoint => s.at >= v.start /\ Claimed(v, s.at)
  /\ s.kind = "reconcile" => ReconcileSound(v, r, s)
  /\ s.kind = "search" => SearchSound(v, s)
  /\ s.kind = "snapshot" /\ s.pc = "sample" => s.result = {}

OpsInv ==
  /\ IndexInv /\ EventsClosed
  /\ Session(session) /\ ReadSound(View, rows, session)

-----------------------------------------------------------------------------
(* The index moves under a read *)

\* A row stays, and changes only with the records.
LEMMA RowsKept ==
  ASSUME IndexInv, IndexInv', Kept(View, View')
  PROVE  /\ RowsOf(rows) \subseteq RowsOf(rows')
         /\ events' = events => rows' = rows
<1>0. /\ rows \in [1..MaxClaims -> Log \cup {NoRow}] /\ rows' \in [1..MaxClaims -> Log \cup {NoRow}]
      /\ RowsNewest /\ RowsNewest' /\ events \subseteq events'
  BY DEF IndexInv, TypeOK, Kept, View
<1>1. \A c \in 1..MaxClaims : rows[c] # NoRow => rows'[c] # NoRow
  <2> SUFFICES ASSUME NEW c \in 1..MaxClaims, rows[c] # NoRow PROVE rows'[c] # NoRow
    OBVIOUS
  <2>1. rows[c] \in events' /\ rows[c].claim = c
    BY <1>0 DEF RowsNewest
  <2> QED
    BY <1>0, <2>1 DEF RowsNewest
<1>2. ASSUME events' = events PROVE rows' = rows
  <2> SUFFICES ASSUME NEW c \in 1..MaxClaims PROVE rows'[c] = rows[c]
    <3>1. /\ rows = [c \in 1..MaxClaims |-> rows[c]]
          /\ rows' = [c \in 1..MaxClaims |-> rows'[c]]
      BY <1>0
    <3> QED
      BY <3>1
  <2>1. \A m \in events : m.claim = c =>
          /\ rows[c] # NoRow /\ rows'[c] # NoRow
          /\ AtOrAfter(rows[c], m) /\ AtOrAfter(rows'[c], m)
    BY <1>0, <1>2 DEF RowsNewest, AtOrAfter
  <2>2. rows[c] # NoRow => rows[c] \in events /\ rows[c].claim = c
    BY <1>0 DEF RowsNewest
  <2>3. rows'[c] # NoRow => rows'[c] \in events /\ rows'[c].claim = c
    BY <1>0, <1>2 DEF RowsNewest
  <2>4. events \subseteq LogSet /\ logs \in Seq(Log) /\ ChainOrdered
    BY Typed DEF IndexInv, EventsFinal
  <2>5. CASE rows[c] = NoRow
    BY <2>1, <2>3, <2>5
  <2>6. CASE rows[c] # NoRow
    <3>1. rows[c] \in LogSet /\ rows'[c] \in LogSet
      BY <2>1, <2>2, <2>3, <2>4, <2>6
    <3>2. AtOrAfter(rows[c], rows'[c]) /\ AtOrAfter(rows'[c], rows[c])
      BY <2>1, <2>2, <2>3, <2>6
    <3> QED
      BY <2>4, <3>1, <3>2, LogsDistinct
  <2> QED
    BY <2>5, <2>6
<1> QED
  BY <1>1, <1>2 DEF RowsOf

LEMMA SkippedKept ==
  ASSUME NEW v, NEW w, Kept(v, w), NEW at \in Int, at <= v.safe,
         \A l \in v.logs : l.block \in Int
  PROVE  Skipped(w, at) = Skipped(v, at)
<1>1. \A m : m \in w.logs /\ m.block <= at <=> m \in v.logs /\ m.block <= at
  BY DEF Kept
<1>2. w.start = v.start
  BY DEF Kept
<1>3. {m \in w.logs : m.status = "Submitted" /\ m.block < w.start /\ m.block <= at}
        = {m \in v.logs : m.status = "Submitted" /\ m.block < v.start /\ m.block <= at}
  BY <1>1, <1>2
<1> QED
  BY <1>3 DEF Skipped

LEMMA RowsFinite ==
  ASSUME NEW r
  PROVE  RowsOf(r) \in SUBSET Nat /\ IsFiniteSet(RowsOf(r))
<1>1. MaxClaims \in Nat
  BY BoundsAssumption
<1>2. IsFiniteSet(1..MaxClaims) /\ RowsOf(r) \in SUBSET (1..MaxClaims)
  BY <1>1, FS_Interval DEF RowsOf
<1> QED
  BY <1>1, <1>2, FS_Subset

LEMMA RankOfRow ==
  ASSUME NEW r, NEW c
  PROVE  Rank(RowsOf(r), c) \in Int
<1> DEFINE S == RowsOf(r)
<1>1. S \in SUBSET Nat /\ IsFiniteSet(S)
  BY RowsFinite
<1> HIDE DEF S
<1>2. Rank(S, c) \in Nat
  BY <1>1, RankTyped
<1> QED
  BY <1>2 DEF S

\* Whatever the listeners and the chain do, a read stays sound.
LEMMA ReadKept ==
  ASSUME IndexInv, IndexInv', Kept(View, View'), Session(session),
         ReadSound(View, rows, session)
  PROVE  ReadSound(View', rows', session)
<1> DEFINE s == session
<1>0. /\ View.events \subseteq View'.events /\ View'.start = View.start
      /\ View.start \in Int /\ View.safe \in Int
      /\ View.events = events /\ View'.events = events'
  BY Viewed DEF Kept, View
<1>1. s.at \in Int /\ s.page \in Nat
  BY DEF Session
<1>2. s.kind # "none" => s.before \subseteq View'.events
  BY <1>0 DEF ReadSound
<1>3. s.kind # "none" /\ s.at # NoCheckpoint => s.at >= View'.start /\ Claimed(View', s.at)
  BY <1>0, <1>1, ClaimedKept DEF ReadSound
<1>4. ASSUME s.kind = "reconcile" PROVE ReconcileSound(View', rows', s)
  <2>0. ReconcileSound(View, rows, s) /\ s.before \subseteq events
    BY <1>0, <1>4 DEF ReadSound
  <2>1. /\ RowsOf(rows) \subseteq RowsOf(rows')
        /\ events' = events => rows' = rows
    BY RowsKept
  <2>2. DOMAIN s.byId \subseteq RowsOf(rows')
    BY <2>0, <2>1 DEF ReconcileSound
  <2>3. \A c : Rank(RowsOf(rows), c) <= Rank(RowsOf(rows'), c)
    BY <2>1, RowsFinite, RankGrows
  <2>4. \A c : Rank(RowsOf(rows), c) \in Int /\ Rank(RowsOf(rows'), c) \in Int
    BY RankOfRow
  <2>5. (s.page - 1) * PageSize \in Int
    BY <1>1, PageSizeAssumption
  <2>6. \A m \in s.before :
          \/ m.claim \in DOMAIN s.byId
          \/ s.pc = "pages" /\ Rank(RowsOf(rows'), m.claim) >= (s.page - 1) * PageSize
    <3> DEFINE k == (s.page - 1) * PageSize
    <3>1. \A m \in s.before : \/ m.claim \in DOMAIN s.byId
                              \/ s.pc = "pages" /\ Rank(RowsOf(rows), m.claim) >= k
      BY <2>0 DEF ReconcileSound
    <3>2. k \in Int
      BY <2>5
    <3> HIDE DEF k, s
    <3>3. \A m \in s.before : \/ m.claim \in DOMAIN s.byId
                              \/ s.pc = "pages" /\ Rank(RowsOf(rows'), m.claim) >= k
      BY <2>3, <2>4, <3>1, <3>2
    <3> QED
      BY <3>3 DEF k
  <2>7. View'.events = s.before => \A c \in DOMAIN s.byId : s.byId[c] = rows'[c]
    <3> SUFFICES ASSUME events' = s.before
                 PROVE  \A c \in DOMAIN s.byId : s.byId[c] = rows'[c]
      BY <1>0
    <3>1. events' = events /\ events = s.before
      BY <1>0, <2>0
    <3> QED
      BY <1>0, <2>0, <2>1, <3>1 DEF ReconcileSound
  <2>8. Skipped(View', s.at) = Skipped(View, s.at)
    <3>1. s.at <= View.safe
      BY <1>0, <1>1, <1>4, <2>0 DEF ReadSound, ReconcileSound, Claimed
    <3>2. \A l \in View.logs : l.block \in Int
      BY Typed, Viewed
    <3> QED
      BY <1>1, <3>1, <3>2, SkippedKept
  <2> HIDE DEF s
  <2> QED
    BY <2>0, <2>2, <2>6, <2>7, <2>8 DEF ReconcileSound
<1>5. s.kind = "search" => SearchSound(View', s)
  BY <1>0 DEF ReadSound, SearchSound
<1>6. s.kind = "snapshot" /\ s.pc = "sample" => s.result = {}
  BY DEF ReadSound
<1> QED
  BY <1>2, <1>3, <1>4, <1>5, <1>6 DEF ReadSound

-----------------------------------------------------------------------------
(* The steps of a read *)

LEMMA BeginShape ==
  ASSUME IndexInv, NEW kind \in {"reconcile", "search", "snapshot"},
         NEW pc \in {"pages", "sample"}, Begin(kind, pc)
  PROVE  /\ Session(session')
         /\ session'.kind = kind /\ session'.pc = pc /\ session'.at = checkpoint
         /\ session'.before = events /\ session'.page = 1
         /\ DOMAIN session'.byId = {} /\ session'.seen = {} /\ session'.result = {}
         /\ session'.ok = TRUE
         /\ session'.at # NoCheckpoint =>
              session'.at >= View.start /\ Claimed(View, session'.at)
<1>1. events \subseteq Log /\ checkpoint \in Int /\ 1 \in Nat
  BY Typed DEF IndexInv, TypeOK, NoCheckpoint
<1>2. session' = [kind |-> kind, pc |-> pc, at |-> checkpoint, before |-> events, page |-> 1,
                  byId |-> Empty, seen |-> {}, result |-> {}, ok |-> TRUE]
  BY DEF Begin, Idle
<1>3. /\ session'.kind = kind /\ session'.pc = pc /\ session'.at = checkpoint
      /\ session'.before = events /\ session'.page = 1
      /\ session'.byId = Empty /\ session'.seen = {} /\ session'.result = {}
      /\ session'.ok = TRUE
  BY <1>2
<1>4. Session(session')
  BY <1>1, <1>2, <1>3 DEF Session
<1>5. DOMAIN Empty = {}
  BY DEF Empty
<1> QED
  BY <1>3, <1>4, <1>5, Viewed DEF IndexInv, CheckpointSound

LEMMA BeginSound ==
  ASSUME OpsInv, ReconcileStart \/ SearchStart \/ SnapshotRead
  PROVE  Session(session') /\ ReadSound(View, rows, session')
<1>0. IndexInv /\ View.events = events
  BY Viewed DEF OpsInv
<1>1. CASE ReconcileStart
  <2>1. Begin("reconcile", "pages") /\ checkpoint # NoCheckpoint
    BY <1>1 DEF ReconcileStart
  <2>2. \A c : Rank(RowsOf(rows), c) \in Nat
    <3>1. \A S \in SUBSET Nat : IsFiniteSet(S) => \A c : Rank(S, c) \in Nat
      BY RankTyped
    <3> QED
      BY <3>1, RowsFinite
  <2>3. (1 - 1) * PageSize = 0
    BY PageSizeAssumption
  <2>4. \A m \in session'.before :
          Rank(RowsOf(rows), m.claim) >= (session'.page - 1) * PageSize
    BY <1>0, <2>1, <2>2, <2>3, BeginShape
  <2> QED
    BY <1>0, <2>1, <2>4, BeginShape DEF ReadSound, ReconcileSound
<1>2. CASE SearchStart
  BY <1>0, <1>2, BeginShape DEF SearchStart, ReadSound, SearchSound
<1>3. CASE SnapshotRead
  BY <1>0, <1>3, BeginShape DEF SnapshotRead, ReadSound
<1> QED
  BY <1>1, <1>2, <1>3

\* A page takes the claims of its places; the loop ends when none is left.
LEMMA PageSound ==
  ASSUME OpsInv, ReconcilePage
  PROVE  Session(session') /\ ReadSound(View, rows, session')
<1> DEFINE s == session
           t == session'
           S == RowsOf(rows)
           P == ClaimsPage(s.page)
           a == (s.page - 1) * PageSize
           b == s.page * PageSize
<1>0. /\ IndexInv /\ Session(s) /\ ReadSound(View, rows, s) /\ View.events = events
      /\ s.kind = "reconcile" /\ s.pc = "pages" /\ s.page \in Nat \ {0}
      /\ ReconcileSound(View, rows, s)
      /\ \A m \in s.before : m.claim \in S
  <2>1. /\ IndexInv /\ Session(s) /\ ReadSound(View, rows, s) /\ View.events = events
        /\ s.kind = "reconcile" /\ s.pc = "pages"
    BY Viewed DEF OpsInv, ReconcilePage
  <2>2. s.before \subseteq events /\ ReconcileSound(View, rows, s)
    BY <2>1 DEF ReadSound
  <2>3. \A m \in events : m.claim \in S
    BY <2>1, Typed DEF IndexInv, RowsNewest, EventsFinal, RowsOf
  <2> QED
    BY <2>1, <2>2, <2>3 DEF ReconcileSound
<1>1. t = [s EXCEPT !.byId = Collected(s.page), !.page = s.page + 1,
                    !.pc = IF LastPage(s.page) THEN "compare" ELSE "pages"]
  BY DEF ReconcilePage
<1>2. /\ t.kind = "reconcile" /\ t.pc = (IF LastPage(s.page) THEN "compare" ELSE "pages")
      /\ t.at = s.at /\ t.before = s.before /\ t.page = s.page + 1
      /\ t.byId = Collected(s.page) /\ t.seen = s.seen /\ t.result = s.result /\ t.ok = s.ok
      /\ Session(t)
  <2>1. s = [kind |-> s.kind, pc |-> s.pc, at |-> s.at, before |-> s.before, page |-> s.page,
             byId |-> s.byId, seen |-> s.seen, result |-> s.result, ok |-> s.ok]
    BY <1>0 DEF Session
  <2>2. t = [kind |-> s.kind, pc |-> (IF LastPage(s.page) THEN "compare" ELSE "pages"),
             at |-> s.at, before |-> s.before, page |-> s.page + 1,
             byId |-> Collected(s.page), seen |-> s.seen, result |-> s.result, ok |-> s.ok]
    BY <1>1, <2>1
  <2> HIDE DEF s, t
  <2>3. /\ t.kind = s.kind /\ t.pc = (IF LastPage(s.page) THEN "compare" ELSE "pages")
        /\ t.at = s.at /\ t.before = s.before /\ t.page = s.page + 1
        /\ t.byId = Collected(s.page) /\ t.seen = s.seen /\ t.result = s.result /\ t.ok = s.ok
    BY <2>2
  <2>4. Session(t)
    BY <1>0, <2>2, <2>3 DEF Session
  <2> QED
    BY <1>0, <2>3, <2>4
<1>3. /\ DOMAIN t.byId = DOMAIN s.byId \cup P
      /\ \A c \in DOMAIN t.byId : t.byId[c] = IF c \in P THEN rows[c] ELSE s.byId[c]
  BY <1>2 DEF Collected
<1>4. a \in Nat /\ b = a + PageSize /\ b \in Nat /\ (t.page - 1) * PageSize = b
  <2>1. \A p \in Nat \ {0}, q \in Nat \ {0} :
          /\ (p - 1) * q \in Nat /\ p * q = (p - 1) * q + q
          /\ p * q \in Nat /\ (p + 1) - 1 = p
    OBVIOUS
  <2> QED
    BY <1>0, <1>2, <2>1, PageSizeAssumption
<1>5. P = {c \in S : Rank(S, c) \in a..(b - 1)}
  BY DEF ClaimsPage, Indexed, Rank, RowsOf
<1>6. S \in SUBSET Nat /\ IsFiniteSet(S) /\ \A c : Rank(S, c) \in Int
  BY RowsFinite, RankOfRow
<1>7. DOMAIN t.byId \subseteq S
  BY <1>0, <1>3, <1>5 DEF ReconcileSound
<1>8. \A m \in s.before : \/ m.claim \in DOMAIN t.byId
                          \/ Rank(S, m.claim) >= b
  <2>1. \A m \in s.before : m.claim \in DOMAIN s.byId \/ Rank(S, m.claim) >= a
    BY <1>0 DEF ReconcileSound
  <2> HIDE DEF a, b, S, P, s, t
  <2>2. \A m \in s.before : m.claim \in P \/ m.claim \in DOMAIN s.byId \/ Rank(S, m.claim) >= b
    BY <1>0, <1>4, <1>5, <1>6, <2>1
  <2> QED
    BY <1>3, <2>2
<1>9. ASSUME LastPage(s.page) PROVE \A m \in s.before : m.claim \in DOMAIN t.byId
  <2>1. CASE P = {}
    <3>1. \A c \in S : Rank(S, c) < a
      <4> SUFFICES ASSUME NEW c \in S, Rank(S, c) >= a PROVE FALSE
        BY <1>4, <1>6
      <4> HIDE DEF S, a, b, P
      <4>1. PICK d \in S : Rank(S, d) = a
        BY <1>4, <1>6, NoRankSkipped
      <4>2. d \in P
        BY <1>4, <1>5, <4>1, PageSizeAssumption
      <4> QED
        BY <2>1, <4>2
    <3>2. \A m \in s.before : ~(Rank(S, m.claim) >= b)
      <4> SUFFICES ASSUME NEW m \in s.before PROVE ~(Rank(S, m.claim) >= b)
        OBVIOUS
      <4> HIDE DEF S, a, b, P, s
      <4>1. Rank(S, m.claim) < a /\ Rank(S, m.claim) \in Int
        BY <1>0, <1>6, <3>1
      <4> QED
        BY <1>4, <4>1, PageSizeAssumption
    <3> QED
      BY <1>8, <3>2
  <2>2. CASE Cardinality(DOMAIN t.byId) >= Cardinality(S)
    <3> HIDE DEF S
    <3>1. Cardinality(DOMAIN t.byId) <= Cardinality(S)
      BY <1>6, <1>7, FS_Subset
    <3>2. IsFiniteSet(DOMAIN t.byId)
      BY <1>6, <1>7, FS_Subset
    <3>3. Cardinality(DOMAIN t.byId) \in Nat /\ Cardinality(S) \in Nat
      BY <1>6, <3>2, FS_CardinalityType
    <3>4. DOMAIN t.byId = S
      BY <1>6, <1>7, <2>2, <3>1, <3>3, FS_Subset
    <3> QED
      BY <1>0, <3>4
  <2> QED
    BY <1>2, <1>9, <2>1, <2>2 DEF LastPage, Indexed, RowsOf
<1>10. View.events = t.before => \A c \in DOMAIN t.byId : t.byId[c] = rows[c]
  BY <1>0, <1>2, <1>3 DEF ReconcileSound
<1>11. ReconcileSound(View, rows, t)
  <2>1. t.at # NoCheckpoint /\ t.page \in Nat \ {0} /\ t.pc \in {"pages", "compare"}
    BY <1>0, <1>2 DEF ReconcileSound
  <2>2. \A m \in t.before :
          \/ m.claim \in DOMAIN t.byId
          \/ t.pc = "pages" /\ Rank(RowsOf(rows), m.claim) >= (t.page - 1) * PageSize
    BY <1>2, <1>4, <1>8, <1>9
  <2> HIDE DEF t
  <2> QED
    BY <1>7, <1>10, <2>1, <2>2 DEF ReconcileSound
<1> HIDE DEF t
<1>12. ReadSound(View, rows, t)
  BY <1>0, <1>2, <1>11 DEF ReadSound
<1> QED
  BY <1>2, <1>12 DEF t

\* The newest log of a recorded claim is its row, when the index holds what the
\* checkpoint vouches for and nothing beyond.
LEMMA StateIsRow ==
  ASSUME IndexInv, NEW at \in Int, at >= startBlock, Claimed(View, at),
         \A l \in events : l.block <= at, NEW c \in RowsOf(rows)
  PROVE  StateAt(c, at) = rows[c] /\ c \in 1..CountAt(at)
<1> DEFINE row == rows[c]
<1>0. /\ ChainInv /\ logs \in Seq(Log) /\ ChainOrdered /\ LogSet \subseteq Log
      /\ startBlock \in Int /\ events \subseteq LogSet
  BY Typed DEF IndexInv, EventsFinal
<1>1. /\ row \in events /\ row.claim = c /\ row \in LogSet /\ row \in Log
      /\ \A m \in events : m.claim = c => AtOrAfter(row, m)
      /\ row.block <= at /\ row.block >= startBlock
  BY <1>0 DEF RowsOf, IndexInv, RowsNewest, EventsFinal
<1>2. row \in LogsOf(c, at)
  BY <1>1 DEF LogsOf
<1>3. /\ StateAt(c, at) \in LogsOf(c, at)
      /\ \A m \in LogsOf(c, at) : AtOrAfter(StateAt(c, at), m)
  BY <1>0, <1>2, StateAtNewest
<1> HIDE DEF row
<1>4. /\ StateAt(c, at) \in LogSet /\ StateAt(c, at) \in Log /\ StateAt(c, at).claim = c
      /\ StateAt(c, at).block <= at
      /\ AtOrAfter(StateAt(c, at), row)
  BY <1>0, <1>2, <1>3 DEF LogsOf
<1>5. StateAt(c, at).block >= startBlock
  <2>1. StateAt(c, at).block \in Int /\ row.block \in Int
    BY <1>1, <1>4 DEF Log
  <2> QED
    BY <1>0, <1>1, <1>4, <2>1 DEF AtOrAfter
<1>6. StateAt(c, at) \in events
  <2>1. StateAt(c, at).block \in Int
    BY <1>4 DEF Log
  <2>2. StateAt(c, at).block \in startBlock..at
    BY <1>0, <1>4, <1>5, <2>1
  <2> QED
    BY <1>4, <2>2, Viewed DEF Claimed, Settled
<1>7. StateAt(c, at) = row
  BY <1>0, <1>1, <1>4, <1>6, LogsDistinct
<1>8. c \in 1..CountAt(at)
  BY <1>0, <1>1, ClaimsCounted
<1> QED
  BY <1>7, <1>8 DEF row

\* A counted claim has no row exactly when it was submitted before the replay
\* origin.
LEMMA MissingIsSkipped ==
  ASSUME IndexInv, EventsClosed, NEW at \in Int, at >= startBlock, Claimed(View, at),
         \A l \in events : l.block <= at
  PROVE  {<<"missing", c>> : c \in (1..CountAt(at)) \ RowsOf(rows)} = Skipped(View, at)
<1> DEFINE Late == {m \in LogSet : m.status = "Submitted" /\ m.block < startBlock /\ m.block <= at}
<1>0. /\ ChainInv /\ LogSet \subseteq Log /\ startBlock \in Int /\ events \subseteq LogSet
      /\ \A m \in LogSet : m.block \in Int /\ m.claim \in 1..MaxClaims
  BY Typed DEF IndexInv, EventsFinal
<1>1. ASSUME NEW c \in (1..CountAt(at)) \ RowsOf(rows)
      PROVE  \E m \in Late : m.claim = c
  <2>1. PICK l \in LogSet : l.block <= at /\ l.claim = c
    BY <1>0, ClaimsCounted
  <2>2. PICK m \in LogSet : SubmissionOf(m, l)
    BY <1>0 DEF ChainInv, HistoriesLegal
  <2>3. m.block <= at /\ m.claim = c /\ m.status = "Submitted"
    BY <1>0, <2>1, <2>2 DEF SubmissionOf, AtOrAfter
  <2>4. ASSUME m.block >= startBlock PROVE FALSE
    <3>1. m.block \in startBlock..at
      BY <1>0, <2>3, <2>4
    <3>2. m \in events
      BY <3>1, Viewed DEF Claimed, Settled
    <3>3. rows[c] # NoRow
      BY <2>3, <3>2 DEF IndexInv, RowsNewest
    <3> QED
      BY <1>0, <2>1, <3>3 DEF RowsOf
  <2>5. m.block < startBlock
    BY <1>0, <2>4
  <2> QED
    BY <2>3, <2>5
<1>2. ASSUME NEW m \in Late
      PROVE  m.claim \in (1..CountAt(at)) \ RowsOf(rows)
  <2>1. m.claim \in 1..CountAt(at)
    BY <1>0, ClaimsCounted
  <2>2. ASSUME m.claim \in RowsOf(rows) PROVE FALSE
    <3>1. rows[m.claim] \in events /\ rows[m.claim].claim = m.claim
      BY <2>2 DEF RowsOf, IndexInv, RowsNewest
    <3>2. PICK p \in events : SubmissionOf(p, rows[m.claim])
      BY <3>1 DEF EventsClosed
    <3>3. p \in LogSet /\ p.claim = m.claim /\ p.status = "Submitted" /\ p.block >= startBlock
      BY <1>0, <3>1, <3>2 DEF SubmissionOf, IndexInv, EventsFinal
    <3>4. AtOrAfter(p, m) /\ AtOrAfter(m, p)
      BY <1>0, <3>3 DEF ChainInv, ClaimsNumbered
    <3>5. p = m
      BY <1>0, <3>3, <3>4, Typed, LogsDistinct
    <3> QED
      BY <1>0, <3>3, <3>5
  <2> QED
    BY <2>1, <2>2
<1>3. Skipped(View, at) = {<<"missing", l.claim>> : l \in Late}
  BY Viewed DEF Skipped
<1> HIDE DEF Late
<1> QED
  BY <1>1, <1>2, <1>3

\* The comparison: nothing indexed at the beginning is missing, and against an
\* index that stood still the report is exact.
LEMMA CompareSound ==
  ASSUME OpsInv, ReconcileCompare
  PROVE  Session(session') /\ ReadSound(View, rows, session')
<1> DEFINE s == session
           t == session'
           S == RowsOf(rows)
           chain == 1..CountAt(s.at)
           found == DOMAIN s.byId
           calm == events = s.before /\ \A l \in events : l.block <= s.at
           report == {<<"missing", c>> : c \in chain \ found} \cup
                     {<<"unexpected", c>> : c \in found \ chain} \cup
                     {<<"mismatched", c>> : c \in
                        {d \in chain \cap found :
                           ~SamePublicState(StateAt(d, s.at), s.byId[d])}}
<1>0. /\ IndexInv /\ EventsClosed /\ Session(s) /\ ReadSound(View, rows, s)
      /\ View.events = events /\ View.start = startBlock
      /\ s.kind = "reconcile" /\ s.pc = "compare" /\ s.at \in Int
      /\ ReconcileSound(View, rows, s) /\ s.before \subseteq events
  <2>1. /\ IndexInv /\ EventsClosed /\ Session(s) /\ ReadSound(View, rows, s)
        /\ View.events = events /\ View.start = startBlock
        /\ s.kind = "reconcile" /\ s.pc = "compare"
    BY Viewed DEF OpsInv, ReconcileCompare
  <2>2. s.at \in Int
    BY <2>1 DEF Session
  <2> QED
    BY <2>1, <2>2 DEF ReadSound
<1>1. t = [s EXCEPT !.pc = "done", !.ok = calm, !.result = report]
  BY DEF ReconcileCompare, CompareBlock
<1> HIDE DEF calm, report
<1>2. /\ t.kind = s.kind /\ t.pc = "done" /\ t.at = s.at /\ t.before = s.before
      /\ t.page = s.page /\ t.byId = s.byId /\ t.seen = s.seen
      /\ t.result = report /\ t.ok = calm
      /\ Session(t)
  <2>1. s = [kind |-> s.kind, pc |-> s.pc, at |-> s.at, before |-> s.before, page |-> s.page,
             byId |-> s.byId, seen |-> s.seen, result |-> s.result, ok |-> s.ok]
    BY <1>0 DEF Session
  <2>2. t = [kind |-> s.kind, pc |-> "done", at |-> s.at, before |-> s.before, page |-> s.page,
             byId |-> s.byId, seen |-> s.seen, result |-> report, ok |-> calm]
    BY <1>1, <2>1
  <2>3. calm \in BOOLEAN
    BY DEF calm
  <2> HIDE DEF s, t
  <2>4. /\ t.kind = s.kind /\ t.pc = "done" /\ t.at = s.at /\ t.before = s.before
        /\ t.page = s.page /\ t.byId = s.byId /\ t.seen = s.seen
        /\ t.result = report /\ t.ok = calm
    BY <2>2
  <2>5. Session(t)
    BY <1>0, <2>2, <2>3, <2>4 DEF Session
  <2> QED
    BY <2>4, <2>5
<1>3. \A m \in s.before : m.claim \in found
  BY <1>0 DEF ReconcileSound
<1>4. \A m \in s.before : <<"missing", m.claim>> \notin report
  <2>1. \A c : <<"missing", c>> \in report => c \notin found
    BY DEF report
  <2> QED
    BY <1>3, <2>1
<1>5. ASSUME calm PROVE report = Skipped(View, s.at)
  <2>1. /\ \A l \in events : l.block <= s.at
        /\ s.at >= startBlock /\ Claimed(View, s.at)
    BY <1>0, <1>5 DEF calm, ReadSound, ReconcileSound
  <2>2. found = S /\ \A c \in S : s.byId[c] = rows[c]
    <3>1. found \subseteq S /\ events = s.before
      BY <1>0, <1>5 DEF calm, ReconcileSound
    <3>2. \A c \in S : rows[c] \in events /\ rows[c].claim = c
      BY <1>0 DEF RowsOf, IndexInv, RowsNewest
    <3>3. found = S
      BY <1>3, <3>1, <3>2
    <3> QED
      BY <1>0, <3>1, <3>3 DEF ReconcileSound
  <2>3. \A c \in S : StateAt(c, s.at) = rows[c] /\ c \in chain
    BY <1>0, <2>1, StateIsRow
  <2>4. report = {<<"missing", c>> : c \in chain \ S}
    <3>1. found \ chain = {}
      BY <2>2, <2>3
    <3>2. {d \in chain \cap found : ~SamePublicState(StateAt(d, s.at), s.byId[d])} = {}
      BY <2>2, <2>3 DEF SamePublicState
    <3> QED
      BY <2>2, <3>1, <3>2 DEF report
  <2> QED
    BY <1>0, <2>1, <2>4, MissingIsSkipped
<1> HIDE DEF t
<1>6. ReconcileSound(View, rows, t)
  BY <1>0, <1>2, <1>4, <1>5 DEF ReconcileSound
<1>7. ReadSound(View, rows, t)
  BY <1>0, <1>2, <1>6 DEF ReadSound
<1> QED
  BY <1>2, <1>7 DEF t

\* A page of events takes the newest below the last one, so what is left is
\* below the page.
LEMMA SearchPageSound ==
  ASSUME OpsInv, SearchPage
  PROVE  Session(session') /\ ReadSound(View, rows, session')
<1> DEFINE s == session
           t == session'
           left == Below(s.seen)
           Above(e) == {f \in left : f # e /\ AtOrAfter(f, e)}
           page == {e \in left : Cardinality(Above(e)) < PageSize}
           fresh == s.ok /\ page \cap s.seen = {}
           next == IF page = left THEN "done" ELSE "pages"
<1>0. /\ IndexInv /\ Session(s) /\ ReadSound(View, rows, s) /\ View.events = events
      /\ s.kind = "search" /\ s.pc = "pages" /\ SearchSound(View, s)
      /\ s.before \subseteq events /\ s.seen \subseteq events
      /\ events \subseteq LogSet /\ events \subseteq Log /\ IsFiniteSet(events)
      /\ logs \in Seq(Log) /\ ChainOrdered
  <2>1. /\ IndexInv /\ Session(s) /\ ReadSound(View, rows, s) /\ View.events = events
        /\ s.kind = "search" /\ s.pc = "pages"
    BY Viewed DEF OpsInv, SearchPage
  <2>2. SearchSound(View, s) /\ s.before \subseteq events /\ s.seen \subseteq events
    BY <2>1 DEF ReadSound, SearchSound
  <2>3. /\ events \subseteq LogSet /\ LogSet \subseteq Log /\ IsFiniteSet(LogSet)
        /\ logs \in Seq(Log) /\ ChainOrdered
    BY <2>1, Typed DEF IndexInv, EventsFinal
  <2>4. IsFiniteSet(events)
    BY <2>3, FS_Subset
  <2> QED
    BY <2>1, <2>2, <2>3, <2>4
<1>1. t = [s EXCEPT !.seen = s.seen \cup page, !.ok = fresh, !.pc = next]
  BY DEF SearchPage
<1>2. left \subseteq events /\ \A e \in left, f \in s.seen : Earlier(e, f)
  BY DEF Below, Earlier
<1>3. page \subseteq left /\ page \subseteq Log
  BY <1>0, <1>2
<1>4. page \cap s.seen = {}
  <2> SUFFICES ASSUME NEW e \in page, e \in s.seen PROVE FALSE
    OBVIOUS
  <2>1. Earlier(e, e) /\ e \in Log
    BY <1>0, <1>2, <1>3
  <2> QED
    BY <2>1, LogOrder DEF Earlier
<1>5. ASSUME NEW m \in left \ page, NEW e \in page PROVE Earlier(m, e)
  <2> SUFFICES ASSUME AtOrAfter(m, e) PROVE FALSE
    BY DEF Earlier
  <2>0. m \in events /\ e \in events /\ m \in Log /\ e \in Log /\ m # e
    BY <1>0, <1>2, <1>3, <1>5
  <2>1. Above(m) \in SUBSET Above(e)
    <3> SUFFICES ASSUME NEW f \in left, f # m, AtOrAfter(f, m) PROVE f # e /\ AtOrAfter(f, e)
      OBVIOUS
    <3>1. f \in events /\ f \in Log
      BY <1>0, <1>2
    <3>2. AtOrAfter(f, e)
      BY <2>0, <3>1, LogOrder
    <3>3. f # e
      BY <1>0, <2>0, LogsDistinct
    <3> QED
      BY <3>2, <3>3
  <2>2. IsFiniteSet(Above(e)) /\ IsFiniteSet(Above(m))
    <3>1. Above(e) \in SUBSET events /\ Above(m) \in SUBSET events
      BY <1>2
    <3> HIDE DEF Above
    <3> QED
      BY <1>0, <3>1, FS_Subset
  <2>3. Cardinality(Above(e)) < PageSize /\ ~(Cardinality(Above(m)) < PageSize)
    BY <1>5
  <2> HIDE DEF Above
  <2>4. Cardinality(Above(m)) <= Cardinality(Above(e))
    BY <2>1, <2>2, FS_Subset
  <2>5. Cardinality(Above(m)) \in Nat /\ Cardinality(Above(e)) \in Nat
    BY <2>2, FS_CardinalityType
  <2> QED
    BY <2>3, <2>4, <2>5, PageSizeAssumption
<1>6. \A m \in s.before \ s.seen : m \in left
  BY <1>0 DEF SearchSound, Below, Earlier
<1> HIDE DEF page, left, next
<1>7. /\ t.kind = s.kind /\ t.pc = next /\ t.at = s.at /\ t.before = s.before
      /\ t.page = s.page /\ t.byId = s.byId /\ t.result = s.result
      /\ t.seen = s.seen \cup page /\ t.ok = TRUE
      /\ Session(t)
  <2>1. s = [kind |-> s.kind, pc |-> s.pc, at |-> s.at, before |-> s.before, page |-> s.page,
             byId |-> s.byId, seen |-> s.seen, result |-> s.result, ok |-> s.ok]
    BY <1>0 DEF Session
  <2>2. fresh = TRUE
    BY <1>0, <1>4 DEF SearchSound, Session
  <2>3. t = [kind |-> s.kind, pc |-> next, at |-> s.at, before |-> s.before, page |-> s.page,
             byId |-> s.byId, seen |-> s.seen \cup page, result |-> s.result, ok |-> TRUE]
    BY <1>1, <2>1, <2>2
  <2>4. next \in {"done", "pages"}
    BY DEF next
  <2> HIDE DEF s, t
  <2>5. /\ t.kind = s.kind /\ t.pc = next /\ t.at = s.at /\ t.before = s.before
        /\ t.page = s.page /\ t.byId = s.byId /\ t.result = s.result
        /\ t.seen = s.seen \cup page /\ t.ok = TRUE
    BY <2>3
  <2>6. s.seen \cup page \subseteq Log
    BY <1>0, <1>3
  <2>7. Session(t)
    BY <1>0, <2>3, <2>4, <2>5, <2>6 DEF Session
  <2> QED
    BY <2>5, <2>7
<1>8. \A m \in t.before \ t.seen : \A e \in t.seen : Earlier(m, e)
  BY <1>0, <1>5, <1>6, <1>7 DEF SearchSound
<1>9. t.pc = "done" => t.before \subseteq t.seen
  BY <1>6, <1>7 DEF next
<1>10. t.pc \in {"pages", "done"} /\ t.seen \subseteq events
  BY <1>0, <1>2, <1>3, <1>7 DEF next
<1> HIDE DEF t
<1>11. SearchSound(View, t)
  BY <1>0, <1>7, <1>8, <1>9, <1>10 DEF SearchSound
<1>12. ReadSound(View, rows, t)
  BY <1>0, <1>7, <1>11 DEF ReadSound
<1> QED
  BY <1>7, <1>12 DEF t

LEMMA SampleSound ==
  ASSUME OpsInv, SnapshotSample
  PROVE  Session(session') /\ ReadSound(View, rows, session')
<1> DEFINE s == session
           t == session'
<1>0. Session(s) /\ ReadSound(View, rows, s) /\ s.kind = "snapshot"
  BY DEF OpsInv, SnapshotSample
<1>1. PICK answer : t = [s EXCEPT !.pc = "done", !.result = answer]
  BY DEF SnapshotSample
<1>2. s = [kind |-> s.kind, pc |-> s.pc, at |-> s.at, before |-> s.before, page |-> s.page,
           byId |-> s.byId, seen |-> s.seen, result |-> s.result, ok |-> s.ok]
  BY <1>0 DEF Session
<1>3. t = [kind |-> s.kind, pc |-> "done", at |-> s.at, before |-> s.before, page |-> s.page,
           byId |-> s.byId, seen |-> s.seen, result |-> answer, ok |-> s.ok]
  BY <1>1, <1>2
<1> HIDE DEF s, t
<1>4. /\ t.kind = s.kind /\ t.pc = "done" /\ t.at = s.at /\ t.before = s.before
      /\ t.page = s.page /\ t.byId = s.byId /\ t.seen = s.seen /\ t.ok = s.ok
      /\ t.result = answer
  BY <1>3
<1>5. Session(t)
  BY <1>0, <1>3, <1>4 DEF Session
<1>6. ReadSound(View, rows, t)
  BY <1>0, <1>4 DEF ReadSound
<1> QED
  BY <1>5, <1>6 DEF t

-----------------------------------------------------------------------------
LEMMA OpsInitial == OpsInit => OpsInv
<1> SUFFICES ASSUME OpsInit PROVE OpsInv
  OBVIOUS
<1>1. IndexInv /\ EventsClosed
  BY IndexInitial, ClosedInitial DEF OpsInit
<1>2. session = [kind |-> "none", pc |-> "done", at |-> 0, before |-> {}, page |-> 0,
                 byId |-> Empty, seen |-> {}, result |-> {}, ok |-> TRUE]
  BY DEF OpsInit, Idle
<1>3. session.kind = "none" /\ Session(session)
  <2>1. session.kind = "none" /\ session.byId = Empty /\ session.result = {}
    BY <1>2
  <2> QED
    BY <1>2, <2>1 DEF Session
<1>4. ReadSound(View, rows, session)
  BY <1>3 DEF ReadSound
<1> QED
  BY <1>1, <1>3, <1>4 DEF OpsInv

LEMMA OpsStep == OpsInv /\ [OpsNext]_opsVars => OpsInv'
<1> SUFFICES ASSUME OpsInv, [OpsNext]_opsVars PROVE OpsInv'
  OBVIOUS
<1>0. IndexInv /\ EventsClosed /\ Session(session) /\ ReadSound(View, rows, session)
  BY DEF OpsInv
<1>1. CASE UNCHANGED session /\ [Next]_vars
  <2>1. IndexInv' /\ EventsClosed' /\ Kept(View, View')
    BY <1>0, <1>1, IndexStep, ClosedStep, SoundStep
  <2>2. ReadSound(View', rows', session)
    BY <1>0, <2>1, ReadKept
  <2> QED
    BY <1>0, <1>1, <2>1, <2>2 DEF OpsInv, Session
<1>2. CASE Read
  <2>1. UNCHANGED vars
    BY <1>2 DEF Read, ReconcileStart, ReconcilePage, ReconcileCompare, SearchStart, SearchPage,
       SnapshotRead, SnapshotSample
  <2>2. IndexInv' /\ EventsClosed'
    BY <1>0, <2>1, IndexStep, ClosedStep
  <2>3. Session(session') /\ ReadSound(View, rows, session')
    BY <1>2, BeginSound, PageSound, CompareSound, SearchPageSound, SampleSound DEF Read
  <2>4. View' = View /\ rows' = rows
    BY <2>1 DEF vars, chainVars, indexVars, View, Settled, LogSet
  <2> QED
    BY <2>2, <2>3, <2>4 DEF OpsInv, Session
<1> QED
  BY <1>1, <1>2 DEF OpsNext, opsVars

THEOREM OpsInvariance == OpsSpec => []OpsInv
BY OpsInitial, OpsStep, PTL DEF OpsSpec

\* The drifting pages of list_claims hide no claim that was indexed when the
\* comparison began, for any page size and whatever is inserted meanwhile.
THEOREM NoClaimMissed == OpsSpec => []NoFalseMissing
<1>1. OpsInv => NoFalseMissing
  BY DEF OpsInv, ReadSound, ReconcileSound, NoFalseMissing, Reconciled
<1> QED
  BY <1>1, OpsInvariance, PTL

\* Against an index that stood still the reconciler's report is exact.
THEOREM ReportIsExact == OpsSpec => []ReconciliationExact
<1>1. OpsInv => ReconciliationExact
  BY Viewed DEF OpsInv, ReadSound, ReconcileSound, ReconciliationExact, Reconciled, Skipped
<1> QED
  BY <1>1, OpsInvariance, PTL

\* The keyset walk returns every event recorded when it began, and none twice.
THEOREM WalkIsComplete == OpsSpec => []WalkComplete
<1>1. OpsInv => WalkComplete
  BY DEF OpsInv, ReadSound, SearchSound, WalkComplete
<1> QED
  BY <1>1, OpsInvariance, PTL

\* "healthy" means that the index holds every log confirmed at that moment.
THEOREM HealthyIsCaughtUp == OpsSpec => HealthyMeansCaughtUp
<1> DEFINE Sampled == session.kind = "snapshot" /\ session.pc = "sample"
                        /\ session'.result = {"healthy"}
           Caught == \A l \in LogSet :
                       l.block \in startBlock..SafeBlock(head) => l \in events
<1>1. OpsInv /\ [OpsNext]_opsVars => (Sampled => Caught)
  <2> SUFFICES ASSUME OpsInv, [OpsNext]_opsVars, Sampled, NEW l \in LogSet,
                      l.block \in startBlock..SafeBlock(head)
               PROVE  l \in events
    OBVIOUS
  <2>0. IndexInv /\ ReadSound(View, rows, session)
    BY DEF OpsInv
  <2>1. SnapshotSample
    <3>1. session' # session
      BY <2>0 DEF ReadSound
    <3> QED
      BY <3>1 DEF OpsNext, opsVars, Read, ReconcileStart, ReconcilePage, ReconcileCompare,
         SearchStart, SearchPage, SnapshotRead
  <2>2. PICK available \in BOOLEAN, aged \in BOOLEAN :
          "healthy" = OperationsState(session.at, available, head, aged)
    <3>1. PICK available \in BOOLEAN, aged \in BOOLEAN :
            session' = [session EXCEPT !.pc = "done",
                          !.result = {OperationsState(session.at, available, head, aged)}]
      BY <2>1 DEF SnapshotSample
    <3>2. session'.result = {OperationsState(session.at, available, head, aged)}
      BY <3>1 DEF OpsInv, Session
    <3> QED
      BY <3>2
  <2>3. session.at # NoCheckpoint /\ BlockLag(head, session.at) = 0
    BY <2>2 DEF OperationsState
  <2>4. session.at \in Int /\ head \in Int /\ Confirmations \in Int /\ startBlock \in Int
    BY <2>0, Typed DEF OpsInv, Session
  <2>5. l.block <= session.at
    <3>1. l.block \in 1..head /\ l.block <= head - Confirmations
      BY <2>0, <2>4, Typed DEF SafeBlock
    <3> QED
      BY <2>3, <2>4, <3>1 DEF BlockLag
  <2>6. Claimed(View, session.at)
    BY <2>0, <2>3 DEF ReadSound
  <2> QED
    BY <2>0, <2>4, <2>5, <2>6, Viewed DEF Claimed, Settled
<1> HIDE DEF Sampled, Caught
<1>2. OpsInv /\ [OpsNext]_opsVars => [Sampled => Caught]_opsVars
  BY <1>1
<1>3. OpsSpec => [][Sampled => Caught]_opsVars
  BY <1>2, OpsInvariance, PTL DEF OpsSpec
<1> QED
  BY <1>3 DEF Sampled, Caught, HealthyMeansCaughtUp

=============================================================================
