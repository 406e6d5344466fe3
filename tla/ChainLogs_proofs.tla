-------------------------- MODULE ChainLogs_proofs --------------------------
(***************************************************************************)
(* What the listener and the reconciler rely on about the chain: its logs  *)
(* are in one order, claims are numbered in it, each claim's logs follow   *)
(* the lifecycle, and no step changes what is confirmed.                   *)
(***************************************************************************)
EXTENDS ChainLogs, FiniteSetTheorems, SequenceTheorems, WellFoundedInduction, TLAPS

\* A set of numbers that is not empty has a least one.
LEMMA LeastNat ==
  ASSUME NEW S \in SUBSET Nat, S # {}
  PROVE  \E n \in S : \A m \in S : n <= m
<1>1. IsWellFoundedOn(OpToRel(<, Nat), Nat)
  BY NatLessThanWellFounded
<1>2. PICK n \in S : \A m \in S : ~(<<m, n>> \in OpToRel(<, Nat))
  BY <1>1, WFMin
<1>3. \A m \in S : ~(m < n)
  BY <1>2 DEF OpToRel
<1> QED
  BY <1>3

\* And a greatest one, if it is bounded.
LEMMA GreatestNat ==
  ASSUME NEW S \in SUBSET Nat, S # {}, NEW b \in Nat, \A n \in S : n <= b
  PROVE  \E n \in S : \A m \in S : m <= n
<1> DEFINE T == {k \in Nat : b - k \in S}
<1>1. T # {}
  <2>1. PICK n \in S : TRUE
    OBVIOUS
  <2>2. b - (b - n) = n /\ b - n \in Nat
    BY <2>1
  <2> QED
    BY <2>1, <2>2
<1>2. PICK k \in T : \A j \in T : k <= j
  <2> HIDE DEF T
  <2> QED
    BY <1>1, LeastNat DEF T
<1>3. ASSUME NEW m \in S PROVE m <= b - k
  <2>1. b - m \in Nat /\ b - (b - m) = m
    BY <1>3
  <2>2. b - m \in T
    BY <2>1
  <2> QED
    BY <1>2, <2>2
<1> QED
  BY <1>2, <1>3

\* Positive numbers that leave no gap are the first ones.
LEMMA NoGap ==
  ASSUME NEW S \in SUBSET (Nat \ {0}), IsFiniteSet(S),
         \A n \in S : n > 1 => n - 1 \in S
  PROVE  S = 1..Cardinality(S)
<1> DEFINE T == (Nat \ {0}) \ S
<1>1. T # {}
  <2>1. SUFFICES ASSUME T = {} PROVE FALSE
    OBVIOUS
  <2>2. S = Nat \ {0}
    BY <2>1
  <2>3. Cardinality(S) \in Nat
    BY FS_CardinalityType
  <2>4. 1..(Cardinality(S) + 1) \in SUBSET S
    BY <2>2, <2>3
  <2>5. Cardinality(1..(Cardinality(S) + 1)) <= Cardinality(S)
    BY <2>4, FS_Subset
  <2>6. Cardinality(1..(Cardinality(S) + 1)) = Cardinality(S) + 1
    BY <2>3, FS_Interval
  <2> QED
    BY <2>3, <2>5, <2>6
<1>2. PICK n \in T : \A m \in T : n <= m
  <2>1. T \in SUBSET Nat
    OBVIOUS
  <2> HIDE DEF T
  <2> QED
    BY <1>1, <2>1, LeastNat
<1>3. \A m \in S : m < n
  <2> DEFINE U == {m \in S : m > n}
  <2>1. ASSUME U # {} PROVE FALSE
    <3>1. PICK m \in U : \A k \in U : m <= k
      <4>1. U \in SUBSET Nat
        OBVIOUS
      <4> HIDE DEF U
      <4> QED
        BY <2>1, <4>1, LeastNat
    <3>2. m - 1 \in S
      BY <3>1, <1>2
    <3>3. m - 1 # n
      BY <3>2, <1>2
    <3>4. m - 1 \in U
      BY <3>1, <3>2, <3>3, <1>2
    <3> QED
      BY <3>1, <3>4
  <2>2. n \notin S
    BY <1>2
  <2> QED
    BY <2>1, <2>2, <1>2
<1>4. \A m \in 1..(n - 1) : m \in S
  BY <1>2
<1>5. S = 1..(n - 1)
  <2>1. n \in Nat
    BY <1>2
  <2>2. \A m \in S : m \in 1..(n - 1)
    BY <1>3, <2>1
  <2> QED
    BY <1>4, <2>2
<1>6. Cardinality(1..(n - 1)) = n - 1
  BY <1>2, FS_Interval
<1> QED
  BY <1>5, <1>6

-----------------------------------------------------------------------------
(* The order of the logs *)

Earlier(l, m) == ~AtOrAfter(l, m)

ChainOrdered == \A i, j \in DOMAIN logs : i < j => Earlier(logs[i], logs[j])

BlocksMined == \A l \in LogSet : l.block \in 1..head

\* The next index of a block is free.
InBlock(S, b) == {l \in S : l.block = b}
IndicesUsed == \A l \in LogSet : l.index < Cardinality(InBlock(LogSet, l.block))

\* A claim is submitted after the one before it, and only once.
ClaimsNumbered ==
  \A m \in LogSet :
    /\ m.claim <= MaxClaims
    /\ m.status = "Submitted" =>
         /\ \A l \in LogSet : l.claim = m.claim => AtOrAfter(l, m)
         /\ m.claim > 1 => \E p \in LogSet : /\ p.status = "Submitted"
                                             /\ p.claim = m.claim - 1
                                             /\ Earlier(p, m)

\* p is the claim's log before m, among those of S.
Precedes(S, p, m) ==
  /\ p.claim = m.claim /\ p.content = m.content
  /\ <<p.status, m.status>> \in Lifecycle
  /\ Earlier(p, m)
  /\ \A l \in S : l.claim = m.claim /\ Earlier(l, m) => AtOrAfter(p, l)

SubmissionOf(p, m) ==
  p.claim = m.claim /\ p.status = "Submitted" /\ AtOrAfter(m, p)

HistoriesLegal ==
  \A m \in LogSet :
    /\ \E p \in LogSet : SubmissionOf(p, m)
    /\ m.status # "Submitted" => \E p \in LogSet : Precedes(LogSet, p, m)

ChainInv ==
  /\ ChainTypeOK
  /\ ChainOrdered /\ BlocksMined /\ IndicesUsed
  /\ ClaimsNumbered /\ HistoriesLegal

LEMMA LogOrder ==
  ASSUME NEW l \in Log, NEW m \in Log, NEW n \in Log
  PROVE  /\ AtOrAfter(l, l)
         /\ AtOrAfter(l, m) \/ AtOrAfter(m, l)
         /\ AtOrAfter(l, m) /\ AtOrAfter(m, n) => AtOrAfter(l, n)
BY DEF AtOrAfter, Log

LEMMA LogSetTyped ==
  ASSUME logs \in Seq(Log)
  PROVE  LogSet \subseteq Log /\ IsFiniteSet(LogSet)
<1>1. LogSet \subseteq Log
  BY DEF LogSet
<1>2. logs \in Surjection(DOMAIN logs, LogSet)
  BY DEF LogSet, Surjection
<1>3. IsFiniteSet(DOMAIN logs)
  <2>1. Len(logs) \in Nat /\ DOMAIN logs = 1..Len(logs)
    OBVIOUS
  <2> QED
    BY <2>1, FS_Interval
<1> QED
  BY <1>1, <1>2, <1>3, FS_Surjection

\* Two different logs are one before the other.
LEMMA LogsDistinct ==
  ASSUME logs \in Seq(Log), ChainOrdered, NEW l \in LogSet, NEW m \in LogSet,
         AtOrAfter(l, m), AtOrAfter(m, l)
  PROVE  l = m
BY DEF LogSet, ChainOrdered, Earlier

\* Logs that are not none have a newest one.
LEMMA NewestExists ==
  ASSUME logs \in Seq(Log), ChainOrdered,
         NEW T \in SUBSET LogSet, T # {}
  PROVE  \E l \in T : \A m \in T : AtOrAfter(l, m)
<1> DEFINE S == {i \in DOMAIN logs : logs[i] \in T}
<1>1. S \in SUBSET Nat /\ Len(logs) \in Nat /\ \A i \in S : i <= Len(logs)
  OBVIOUS
<1>2. S # {}
  BY DEF LogSet
<1>3. PICK i \in S : \A j \in S : j <= i
  <2> HIDE DEF S
  <2> QED
    BY <1>1, <1>2, GreatestNat
<1>4. ASSUME NEW m \in T PROVE AtOrAfter(logs[i], m)
  <2>1. PICK j \in S : m = logs[j]
    BY <1>4 DEF LogSet
  <2>2. j < i \/ j = i
    BY <1>3
  <2>3. AtOrAfter(logs[i], logs[i])
    BY LogSetTyped, LogOrder DEF LogSet
  <2>4. j < i => AtOrAfter(logs[i], logs[j])
    <3>1. logs[i] \in Log /\ logs[j] \in Log
      OBVIOUS
    <3> QED
      BY <3>1, LogOrder DEF ChainOrdered, Earlier
  <2> QED
    BY <2>1, <2>2, <2>3, <2>4
<1> QED
  BY <1>3, <1>4

LEMMA StateAtNewest ==
  ASSUME logs \in Seq(Log), ChainOrdered, NEW c, NEW b, LogsOf(c, b) # {}
  PROVE  /\ StateAt(c, b) \in LogsOf(c, b)
         /\ \A m \in LogsOf(c, b) : AtOrAfter(StateAt(c, b), m)
<1>1. \E l \in LogsOf(c, b) : \A m \in LogsOf(c, b) : AtOrAfter(l, m)
  BY NewestExists DEF LogsOf
<1> QED
  BY <1>1 DEF StateAt

\* The logs up to a block are a prefix.
LEMMA UptoPrefix ==
  ASSUME logs \in Seq(Log), ChainOrdered, NEW b \in Int
  PROVE  /\ Upto(b) \in 0..Len(logs)
         /\ \A i \in DOMAIN logs : logs[i].block <= b <=> i <= Upto(b)
<1> DEFINE S == {i \in DOMAIN logs : logs[i].block <= b}
<1>1. S \in SUBSET Nat /\ Len(logs) \in Nat /\ \A i \in S : i <= Len(logs)
  OBVIOUS
<1>2. ASSUME NEW i \in DOMAIN logs, NEW j \in S, i < j PROVE i \in S
  <2>1. logs[i] \in Log /\ logs[j] \in Log
    OBVIOUS
  <2>2. Earlier(logs[i], logs[j])
    BY <1>2 DEF ChainOrdered
  <2>3. logs[i].block <= logs[j].block
    BY <2>1, <2>2 DEF Earlier, AtOrAfter, Log
  <2> QED
    BY <2>1, <2>3 DEF Log
<1>3. \E n \in 0..Len(logs) : \A i \in DOMAIN logs : i \in S <=> i <= n
  <2>1. CASE S = {}
    BY <1>1, <2>1
  <2>2. CASE S # {}
    <3>1. PICK n \in S : \A j \in S : j <= n
      <4> HIDE DEF S
      <4> QED
        BY <1>1, <2>2, GreatestNat
    <3>2. \A i \in DOMAIN logs : i \in S <=> i <= n
      BY <1>2, <3>1
    <3>3. n \in 0..Len(logs)
      BY <1>1, <3>1
    <3> QED
      BY <3>2, <3>3
  <2> QED
    BY <2>1, <2>2
<1>4. \E n \in 0..Len(logs) : \A i \in DOMAIN logs : logs[i].block <= b <=> i <= n
  BY <1>3
<1> QED
  BY <1>4 DEF Upto

\* A range of blocks is a part of the logs, in order.
LEMMA RangeLogs ==
  ASSUME logs \in Seq(Log), ChainOrdered, NEW from \in Int, NEW to \in Int,
         from <= to + 1
  PROVE  LET s == SubSeq(logs, Upto(from - 1) + 1, Upto(to))
         IN  /\ s \in Seq(Log)
             /\ \A i \in DOMAIN s : s[i] \in LogSet /\ s[i].block \in from..to
             /\ \A i, j \in DOMAIN s : i < j => Earlier(s[i], s[j])
             /\ \A l \in LogSet : l.block \in from..to => \E i \in DOMAIN s : s[i] = l
<1> DEFINE a == Upto(from - 1)
           b == Upto(to)
           s == SubSeq(logs, a + 1, b)
<1>1. /\ a \in 0..Len(logs) /\ b \in 0..Len(logs)
      /\ \A i \in DOMAIN logs : logs[i].block < from <=> i <= a
      /\ \A i \in DOMAIN logs : logs[i].block <= to <=> i <= b
  <2>1. \A i \in DOMAIN logs : logs[i].block \in Int
    <3>1. \A i \in DOMAIN logs : logs[i] \in Log
      OBVIOUS
    <3> QED
      BY <3>1 DEF Log
  <2>2. /\ a \in 0..Len(logs)
        /\ \A i \in DOMAIN logs : logs[i].block <= from - 1 <=> i <= a
    <3>1. from - 1 \in Int
      OBVIOUS
    <3> QED
      BY <3>1, UptoPrefix
  <2>3. /\ b \in 0..Len(logs)
        /\ \A i \in DOMAIN logs : logs[i].block <= to <=> i <= b
    BY UptoPrefix
  <2> HIDE DEF a, b
  <2>4. \A i \in DOMAIN logs : logs[i].block <= from - 1 <=> logs[i].block < from
    BY <2>1
  <2> QED
    BY <2>2, <2>3, <2>4
<1>2. Len(logs) \in Nat /\ DOMAIN logs = 1..Len(logs) /\ \A i \in 1..Len(logs) : logs[i] \in Log
  OBVIOUS
<1> HIDE DEF a, b
<1>3. /\ s \in Seq(Log)
      /\ Len(s) = IF a + 1 <= b THEN b - a ELSE 0
      /\ \A i \in 1..(b - a) : s[i] = logs[a + i]
  <2>1. \A i \in (a + 1)..b : logs[i] \in Log
    BY <1>1, <1>2
  <2>2. a + 1 \in Int /\ b \in Int
    BY <1>1
  <2>3. /\ s \in Seq(Log)
        /\ Len(s) = IF a + 1 <= b THEN b - (a + 1) + 1 ELSE 0
        /\ \A i \in 1..(b - (a + 1) + 1) : s[i] = logs[a + 1 + i - 1]
    BY <2>1, <2>2, SubSeqProperties
  <2> QED
    BY <1>1, <2>3
<1> HIDE DEF s
<1>4. \A i \in DOMAIN s : i \in 1..(b - a) /\ a + i \in DOMAIN logs /\ s[i] = logs[a + i]
  BY <1>1, <1>2, <1>3
<1>5. \A i \in DOMAIN s : s[i] \in LogSet /\ s[i].block \in from..to
  <2> TAKE i \in DOMAIN s
  <2>1. i \in 1..(b - a) /\ a + i \in DOMAIN logs /\ s[i] = logs[a + i]
    BY <1>4
  <2>2. ~(a + i <= a) /\ a + i <= b
    BY <1>1, <2>1
  <2>3. logs[a + i].block \in Int
    BY <1>2, <2>1 DEF Log
  <2> QED
    BY <1>1, <2>1, <2>2, <2>3 DEF LogSet
<1>6. \A i, j \in DOMAIN s : i < j => Earlier(s[i], s[j])
  <2> TAKE i, j \in DOMAIN s
  <2>1. i < j => a + i < a + j
    BY <1>1, <1>4
  <2> QED
    BY <1>4, <2>1 DEF ChainOrdered
<1>7. \A l \in LogSet : l.block \in from..to => \E i \in DOMAIN s : s[i] = l
  <2> SUFFICES ASSUME NEW k \in DOMAIN logs, logs[k].block \in from..to
               PROVE  \E i \in DOMAIN s : s[i] = logs[k]
    BY DEF LogSet
  <2>1. ~(k <= a) /\ k <= b
    BY <1>1
  <2>2. k - a \in 1..(b - a) /\ k - a \in DOMAIN s /\ a + (k - a) = k
    BY <1>1, <1>2, <1>3, <2>1
  <2> QED
    BY <1>3, <2>2
<1> QED
  BY <1>3, <1>5, <1>6, <1>7 DEF s, a, b

\* claimCount() counts the claims that the logs name.
LEMMA ClaimsCounted ==
  ASSUME ChainInv, NEW b \in Int
  PROVE  /\ CountAt(b) \in Nat
         /\ \A c : c \in 1..CountAt(b) <=> \E l \in LogSet : l.block <= b /\ l.claim = c
<1> DEFINE L == {m \in LogSet : m.block <= b}
           C == {l.claim : l \in L}
           f == [l \in L |-> l.claim]
<1>0. logs \in Seq(Log) /\ LogSet \subseteq Log /\ IsFiniteSet(LogSet)
  BY LogSetTyped DEF ChainInv, ChainTypeOK
<1>1. IsFiniteSet(L)
  BY <1>0, FS_Subset
<1>2. IsFiniteSet(C)
  <2>1. f \in Surjection(L, C)
    BY DEF Surjection
  <2> HIDE DEF L, C, f
  <2> QED
    BY <1>1, <2>1, FS_Surjection
<1>3. C \in SUBSET (Nat \ {0})
  BY <1>0 DEF Log
<1>4. \A n \in C : n > 1 => n - 1 \in C
  <2> SUFFICES ASSUME NEW l \in L, l.claim > 1
               PROVE  l.claim - 1 \in C
    OBVIOUS
  <2>1. PICK p \in LogSet : SubmissionOf(p, l)
    BY DEF ChainInv, HistoriesLegal
  <2>2. PICK q \in LogSet : q.claim = p.claim - 1 /\ Earlier(q, p)
    BY <2>1 DEF ChainInv, ClaimsNumbered, SubmissionOf
  <2>3. q.block <= b
    BY <1>0, <2>1, <2>2 DEF SubmissionOf, Earlier, AtOrAfter, Log
  <2> QED
    BY <2>1, <2>2, <2>3 DEF SubmissionOf
<1>5. C = 1..Cardinality(C)
  <2> HIDE DEF C
  <2> QED
    BY <1>2, <1>3, <1>4, NoGap
<1>6. CountAt(b) = Cardinality(C)
  BY DEF CountAt
<1>7. Cardinality(C) \in Nat
  BY <1>2, FS_CardinalityType
<1> QED
  BY <1>5, <1>6, <1>7

-----------------------------------------------------------------------------
(* The steps of the chain *)

\* A new log comes after all others.
LEMMA EmitShape ==
  ASSUME ChainInv, NEW c \in 1..MaxClaims, NEW status \in Statuses,
         NEW content \in Contents, Emit(c, status, content)
  PROVE  /\ ChainTypeOK' /\ ChainOrdered' /\ BlocksMined' /\ IndicesUsed'
         /\ \E new \in Log :
              /\ LogSet' = LogSet \cup {new}
              /\ new.block = head /\ new.claim = c
              /\ new.status = status /\ new.content = content
              /\ \A l \in LogSet : Earlier(l, new)
<1> DEFINE new == [tx |-> emitted, block |-> head,
                   index |-> Cardinality({l \in LogSet : l.block = head}),
                   claim |-> c, status |-> status, content |-> content]
<1>0. /\ logs \in Seq(Log) /\ LogSet \subseteq Log /\ IsFiniteSet(LogSet)
      /\ head \in 1..MaxHead /\ emitted \in 0..MaxLogs
      /\ MaxHead \in Nat /\ MaxLogs \in Nat /\ MaxClaims \in Nat
  BY LogSetTyped, BoundsAssumption DEF ChainInv, ChainTypeOK
<1>1. \A b : IsFiniteSet(InBlock(LogSet, b)) /\ Cardinality(InBlock(LogSet, b)) \in Nat
  <2> TAKE b
  <2>1. InBlock(LogSet, b) \in SUBSET LogSet
    BY DEF InBlock
  <2>2. IsFiniteSet(InBlock(LogSet, b))
    BY <1>0, <2>1, FS_Subset
  <2> QED
    BY <2>2, FS_CardinalityType
<1>2. new \in Log
  <2>1. Cardinality({l \in LogSet : l.block = head}) \in Nat
    BY <1>1 DEF InBlock
  <2>2. c \in Nat \ {0} /\ head \in Nat /\ emitted \in Nat
    BY <1>0
  <2> QED
    BY <2>1, <2>2 DEF Log
<1>3. /\ new.block = head /\ new.claim = c /\ new.status = status
      /\ new.content = content /\ new.index = Cardinality(InBlock(LogSet, head))
  BY DEF InBlock
<1>4. logs' = Append(logs, new) /\ head' = head /\ emitted' = emitted + 1 /\ emitted < MaxLogs
  BY DEF Emit
<1> HIDE DEF new
<1>5. /\ logs' \in Seq(Log)
      /\ Len(logs') = Len(logs) + 1 /\ Len(logs) \in Nat
      /\ DOMAIN logs = 1..Len(logs) /\ DOMAIN logs' = 1..(Len(logs) + 1)
      /\ \A i \in 1..Len(logs) : logs'[i] = logs[i]
      /\ logs'[Len(logs) + 1] = new
  BY <1>0, <1>2, <1>4
<1>6. LogSet' = LogSet \cup {new}
  <2>1. LogSet' = {logs'[i] : i \in 1..(Len(logs) + 1)}
    BY <1>5 DEF LogSet
  <2>2. LogSet = {logs[i] : i \in 1..Len(logs)}
    BY <1>5 DEF LogSet
  <2>3. 1..(Len(logs) + 1) = 1..Len(logs) \cup {Len(logs) + 1}
    BY <1>5
  <2> QED
    BY <1>5, <2>1, <2>2, <2>3
<1>7. \A l \in LogSet : Earlier(l, new)
  <2> TAKE l \in LogSet
  <2>1. l.block \in 1..head /\ l.index < Cardinality(InBlock(LogSet, l.block))
    BY DEF ChainInv, BlocksMined, IndicesUsed
  <2>2. l.block = head => l.index < new.index
    BY <1>3, <2>1
  <2> QED
    BY <1>0, <1>2, <1>3, <2>1, <2>2 DEF Earlier, AtOrAfter, Log
<1>8. ChainTypeOK'
  BY <1>0, <1>4, <1>5 DEF ChainTypeOK
<1>9. ChainOrdered'
  <2> SUFFICES ASSUME NEW i \in 1..(Len(logs) + 1), NEW j \in 1..(Len(logs) + 1), i < j
               PROVE  Earlier(logs'[i], logs'[j])
    BY <1>5 DEF ChainOrdered, Earlier, AtOrAfter
  <2>1. CASE j = Len(logs) + 1
    <3>1. i \in 1..Len(logs)
      BY <1>5, <2>1
    <3> QED
      BY <1>5, <1>7, <2>1, <3>1 DEF LogSet
  <2>2. CASE j # Len(logs) + 1
    <3>1. i \in 1..Len(logs) /\ j \in 1..Len(logs)
      BY <1>5, <2>2
    <3> QED
      BY <1>5, <3>1 DEF ChainInv, ChainOrdered
  <2> QED
    BY <2>1, <2>2
<1>10. BlocksMined'
  BY <1>0, <1>3, <1>4, <1>6 DEF ChainInv, BlocksMined
<1>11. IndicesUsed'
  <2>1. \A b : InBlock(LogSet', b) = IF b = head THEN InBlock(LogSet, b) \cup {new} ELSE InBlock(LogSet, b)
    BY <1>3, <1>6 DEF InBlock
  <2>2. new \notin InBlock(LogSet, head)
    BY <1>0, <1>2, <1>7, LogOrder DEF InBlock, Earlier
  <2>3. Cardinality(InBlock(LogSet, head) \cup {new}) = Cardinality(InBlock(LogSet, head)) + 1
    BY <1>1, <2>2, FS_AddElement
  <2>4. InBlock(LogSet', head) = InBlock(LogSet, head) \cup {new}
    BY <2>1
  <2>5. new.index < Cardinality(InBlock(LogSet', new.block))
    BY <1>1, <1>3, <2>3, <2>4
  <2>6. ASSUME NEW l \in LogSet PROVE l.index < Cardinality(InBlock(LogSet', l.block))
    <3>1. l.index < Cardinality(InBlock(LogSet, l.block)) /\ l.index \in Nat
      BY <1>0 DEF ChainInv, IndicesUsed, Log
    <3>2. CASE l.block = head
      <4>1. Cardinality(InBlock(LogSet, head)) \in Nat
        BY <1>1
      <4> QED
        BY <2>3, <2>4, <3>1, <3>2, <4>1
    <3>3. CASE l.block # head
      <4>1. InBlock(LogSet', l.block) = InBlock(LogSet, l.block)
        BY <2>1, <3>3
      <4> QED
        BY <3>1, <4>1
    <3> QED
      BY <3>2, <3>3
  <2> QED
    BY <1>6, <2>5, <2>6 DEF IndicesUsed
<1> QED
  BY <1>2, <1>3, <1>6, <1>7, <1>8, <1>9, <1>10, <1>11

\* A reorganization keeps whole blocks.
LEMMA ReorgShape ==
  ASSUME ChainInv, NEW depth \in 1..Confirmations, Reorg(depth)
  PROVE  /\ ChainTypeOK' /\ ChainOrdered' /\ BlocksMined' /\ IndicesUsed'
         /\ head' = head
         /\ LogSet' = {l \in LogSet : l.block <= head - depth}
<1> DEFINE k == Upto(head - depth)
<1>0. /\ logs \in Seq(Log) /\ LogSet \subseteq Log /\ ChainOrdered
      /\ head \in 1..MaxHead /\ emitted \in 0..MaxLogs
      /\ head - depth \in Int
  BY LogSetTyped, BoundsAssumption, DepthAssumption DEF ChainInv, ChainTypeOK
<1>1. /\ k \in 0..Len(logs)
      /\ \A i \in DOMAIN logs : logs[i].block <= head - depth <=> i <= k
  BY <1>0, UptoPrefix
<1>2. logs' = SubSeq(logs, 1, k) /\ head' = head /\ emitted' = emitted
  BY DEF Reorg
<1> HIDE DEF k
<1>3. /\ logs' \in Seq(Log) /\ Len(logs') = k /\ DOMAIN logs' = 1..k
      /\ \A i \in 1..k : logs'[i] = logs[i] /\ i \in DOMAIN logs
  <2>1. \A i \in 1..k : logs[i] \in Log /\ i \in DOMAIN logs
    BY <1>0, <1>1
  <2>2. k \in Nat /\ 1 \in Int
    BY <1>0, <1>1
  <2>3. /\ logs' \in Seq(Log)
        /\ Len(logs') = IF 1 <= k THEN k - 1 + 1 ELSE 0
        /\ \A i \in 1..(k - 1 + 1) : logs'[i] = logs[1 + i - 1]
    BY <1>2, <2>1, <2>2, SubSeqProperties
  <2>4. Len(logs') = k
    BY <2>2, <2>3
  <2> QED
    BY <2>1, <2>2, <2>3, <2>4
<1>4. LogSet' = {l \in LogSet : l.block <= head - depth}
  <2>1. LogSet' = {logs[i] : i \in 1..k}
    BY <1>3 DEF LogSet
  <2>2. \A i \in DOMAIN logs : i \in 1..k <=> logs[i].block <= head - depth
    BY <1>0, <1>1
  <2> QED
    BY <1>3, <2>1, <2>2 DEF LogSet
<1>5. ChainTypeOK'
  BY <1>2, <1>3 DEF ChainInv, ChainTypeOK
<1>6. ChainOrdered'
  <2> SUFFICES ASSUME NEW i \in 1..k, NEW j \in 1..k, i < j
               PROVE  Earlier(logs'[i], logs'[j])
    BY <1>3 DEF ChainOrdered, Earlier, AtOrAfter
  <2> QED
    BY <1>0, <1>3 DEF ChainOrdered
<1>7. BlocksMined'
  BY <1>2, <1>4 DEF ChainInv, BlocksMined
<1>8. IndicesUsed'
  <2>1. \A l \in LogSet' : l \in LogSet /\ InBlock(LogSet', l.block) = InBlock(LogSet, l.block)
    BY <1>4 DEF InBlock
  <2> QED
    BY <2>1 DEF ChainInv, IndicesUsed
<1> QED
  BY <1>2, <1>4, <1>5, <1>6, <1>7, <1>8

LEMMA SubmittedStep ==
  ASSUME ChainInv, NEW content \in Contents, EmitSubmitted(content)
  PROVE  ChainInv'
<1> DEFINE c == CountAt(head) + 1
<1>0. /\ logs \in Seq(Log) /\ LogSet \subseteq Log /\ head \in Int
      /\ MaxClaims \in Nat
  BY LogSetTyped, BoundsAssumption DEF ChainInv, ChainTypeOK
<1>1. /\ CountAt(head) \in Nat
      /\ \A n : n \in 1..CountAt(head) <=> \E l \in LogSet : l.block <= head /\ l.claim = n
  BY <1>0, ClaimsCounted
<1>2. c \in 1..MaxClaims /\ "Submitted" \in Statuses
  BY <1>0, <1>1 DEF EmitSubmitted, Statuses
<1>3. /\ ChainTypeOK' /\ ChainOrdered' /\ BlocksMined' /\ IndicesUsed'
      /\ \E new \in Log :
           /\ LogSet' = LogSet \cup {new}
           /\ new.block = head /\ new.claim = c
           /\ new.status = "Submitted" /\ new.content = content
           /\ \A l \in LogSet : Earlier(l, new)
  BY <1>2, EmitShape DEF EmitSubmitted
<1>4. PICK new \in Log :
           /\ LogSet' = LogSet \cup {new}
           /\ new.claim = c /\ new.status = "Submitted"
           /\ \A l \in LogSet : Earlier(l, new)
  BY <1>3
<1>5. \A l \in LogSet : l.claim # c
  <2> SUFFICES ASSUME NEW l \in LogSet PROVE l.claim \in 1..CountAt(head)
    BY <1>1
  <2>1. l.block <= head
    BY <1>0 DEF ChainInv, BlocksMined
  <2> QED
    BY <1>1, <2>1
<1>6. \A l \in LogSet : AtOrAfter(new, l) /\ ~Earlier(new, l)
  BY <1>0, <1>4, LogOrder DEF Earlier
<1>7. AtOrAfter(new, new)
  BY LogOrder
<1>8. c > 1 => \E p \in LogSet : p.status = "Submitted" /\ p.claim = c - 1
  <2> SUFFICES ASSUME c > 1 PROVE \E p \in LogSet : p.status = "Submitted" /\ p.claim = c - 1
    OBVIOUS
  <2>1. PICK l \in LogSet : l.claim = c - 1
    BY <1>1
  <2> QED
    BY <2>1 DEF ChainInv, HistoriesLegal, SubmissionOf
<1> HIDE DEF c
<1>9. ClaimsNumbered'
  <2>1. \A m \in LogSet : m.status = "Submitted" =>
          \A l \in LogSet \cup {new} : l.claim = m.claim => AtOrAfter(l, m)
    BY <1>4, <1>5 DEF ChainInv, ClaimsNumbered
  <2>2. \A l \in LogSet \cup {new} : l.claim = new.claim => AtOrAfter(l, new)
    BY <1>4, <1>5, <1>7
  <2>3. new.claim <= MaxClaims
    BY <1>2, <1>4
  <2>4. new.claim > 1 => \E p \in LogSet : /\ p.status = "Submitted" /\ p.claim = new.claim - 1
                                           /\ Earlier(p, new)
    BY <1>4, <1>8
  <2>5. \A m \in LogSet : /\ m.claim <= MaxClaims
                          /\ m.status = "Submitted" /\ m.claim > 1 =>
                               \E p \in LogSet : /\ p.status = "Submitted"
                                                 /\ p.claim = m.claim - 1 /\ Earlier(p, m)
    BY DEF ChainInv, ClaimsNumbered
  <2> QED
    BY <1>4, <2>1, <2>2, <2>3, <2>4, <2>5 DEF ClaimsNumbered, Earlier, AtOrAfter
<1>10. HistoriesLegal'
  <2>1. \A m \in LogSet : \E p \in LogSet : SubmissionOf(p, m)
    BY DEF ChainInv, HistoriesLegal
  <2>2. SubmissionOf(new, new)
    BY <1>4, <1>7 DEF SubmissionOf
  <2>3. \A m \in LogSet : m.status # "Submitted" => \E p \in LogSet : Precedes(LogSet', p, m)
    BY <1>4, <1>6 DEF ChainInv, HistoriesLegal, Precedes, Earlier, AtOrAfter
  <2>4. \A m \in LogSet : \E p \in LogSet : SubmissionOf(p, m)'
    BY <2>1 DEF SubmissionOf, AtOrAfter
  <2>5. SubmissionOf(new, new)'
    BY <2>2 DEF SubmissionOf, AtOrAfter
  <2> QED
    BY <1>4, <2>3, <2>4, <2>5 DEF HistoriesLegal
<1> QED
  BY <1>3, <1>9, <1>10 DEF ChainInv

LEMMA AssessedStep ==
  ASSUME ChainInv, NEW c \in 1..MaxClaims, NEW status, EmitAssessed(c, status)
  PROVE  ChainInv'
<1> DEFINE state == StateAt(c, head)
<1>0. /\ logs \in Seq(Log) /\ LogSet \subseteq Log /\ head \in Int
      /\ MaxClaims \in Nat /\ ChainOrdered
  BY LogSetTyped, BoundsAssumption DEF ChainInv, ChainTypeOK
<1>1. /\ state \in LogSet /\ state.claim = c
      /\ \A l \in LogSet : l.claim = c => AtOrAfter(state, l)
  <2>1. c \in 1..CountAt(head)
    BY <1>0, ClaimsCounted DEF EmitAssessed
  <2>2. PICK k \in LogSet : k.block <= head /\ k.claim = c
    BY <1>0, <2>1, ClaimsCounted
  <2>3. LogsOf(c, head) # {}
    BY <2>2 DEF LogsOf
  <2>4. state \in LogsOf(c, head) /\ \A l \in LogsOf(c, head) : AtOrAfter(state, l)
    BY <1>0, <2>3, StateAtNewest
  <2>5. \A l \in LogSet : l.block <= head
    BY <1>0 DEF ChainInv, BlocksMined
  <2> QED
    BY <2>4, <2>5 DEF LogsOf
<1>2. <<state.status, status>> \in Lifecycle /\ Emit(c, status, state.content)
  BY DEF EmitAssessed
<1>3. status \in Statuses /\ status # "Submitted" /\ state.content \in Contents
  BY <1>0, <1>1, <1>2 DEF Lifecycle, Statuses, Log
<1>4. /\ ChainTypeOK' /\ ChainOrdered' /\ BlocksMined' /\ IndicesUsed'
      /\ \E new \in Log :
           /\ LogSet' = LogSet \cup {new}
           /\ new.block = head /\ new.claim = c
           /\ new.status = status /\ new.content = state.content
           /\ \A l \in LogSet : Earlier(l, new)
  BY <1>2, <1>3, EmitShape
<1>5. PICK new \in Log :
           /\ LogSet' = LogSet \cup {new}
           /\ new.claim = c /\ new.status = status /\ new.content = state.content
           /\ \A l \in LogSet : Earlier(l, new)
  BY <1>4
<1> HIDE DEF state
<1>6. \A l \in LogSet : AtOrAfter(new, l) /\ ~Earlier(new, l)
  BY <1>0, <1>5, LogOrder DEF Earlier
<1>7. ClaimsNumbered'
  <2>1. \A m \in LogSet : m.status = "Submitted" =>
          \A l \in LogSet \cup {new} : l.claim = m.claim => AtOrAfter(l, m)
    BY <1>6 DEF ChainInv, ClaimsNumbered
  <2>2. new.claim <= MaxClaims
    BY <1>0, <1>5
  <2>3. \A m \in LogSet : /\ m.claim <= MaxClaims
                          /\ m.status = "Submitted" /\ m.claim > 1 =>
                               \E p \in LogSet : /\ p.status = "Submitted"
                                                 /\ p.claim = m.claim - 1 /\ Earlier(p, m)
    BY DEF ChainInv, ClaimsNumbered
  <2> QED
    BY <1>3, <1>5, <2>1, <2>2, <2>3 DEF ClaimsNumbered, Earlier, AtOrAfter
<1>8. HistoriesLegal'
  <2>1. \A m \in LogSet : \E p \in LogSet : SubmissionOf(p, m)'
    BY DEF ChainInv, HistoriesLegal, SubmissionOf, AtOrAfter
  <2>2. \E p \in LogSet : SubmissionOf(p, new)'
    <3>1. PICK p \in LogSet : SubmissionOf(p, state)
      BY <1>1 DEF ChainInv, HistoriesLegal
    <3> QED
      BY <1>1, <1>5, <1>6, <3>1 DEF SubmissionOf, AtOrAfter
  <2>3. \A m \in LogSet : m.status # "Submitted" => \E p \in LogSet : Precedes(LogSet', p, m)
    <3>1. ASSUME NEW m \in LogSet, NEW p, Precedes(LogSet, p, m)
          PROVE  Precedes(LogSet', p, m)
      BY <1>5, <1>6, <3>1 DEF Precedes
    <3> QED
      BY <3>1 DEF ChainInv, HistoriesLegal
  <2>4. AtOrAfter(new, new)
    BY LogOrder
  <2>5. Precedes(LogSet', state, new)
    BY <1>1, <1>2, <1>5, <2>4 DEF Precedes, Earlier
  <2>6. \A m \in LogSet' : \E p \in LogSet : SubmissionOf(p, m)'
    BY <1>5, <2>1, <2>2
  <2>7. \A m \in LogSet' : m.status # "Submitted" => \E p \in LogSet : Precedes(LogSet', p, m)
    BY <1>1, <1>5, <2>3, <2>5
  <2> QED
    BY <1>5, <2>6, <2>7 DEF HistoriesLegal
<1> QED
  BY <1>4, <1>7, <1>8 DEF ChainInv

LEMMA ReorgStep ==
  ASSUME ChainInv, NEW depth \in 1..Confirmations, Reorg(depth)
  PROVE  ChainInv'
<1>0. LogSet \subseteq Log /\ head - depth \in Int
  BY LogSetTyped, BoundsAssumption, DepthAssumption DEF ChainInv, ChainTypeOK
<1>1. /\ ChainTypeOK' /\ ChainOrdered' /\ BlocksMined' /\ IndicesUsed'
      /\ LogSet' = {l \in LogSet : l.block <= head - depth}
  BY ReorgShape
<1>2. ASSUME NEW m \in LogSet', NEW p \in LogSet, AtOrAfter(m, p)
      PROVE  p \in LogSet'
  <2>1. m \in Log /\ p \in Log /\ m.block <= head - depth
    BY <1>0, <1>1
  <2>2. p.block <= m.block
    BY <1>2, <2>1 DEF AtOrAfter, Log
  <2> QED
    BY <1>0, <1>1, <2>1, <2>2 DEF Log
<1>3. \A m \in LogSet', p \in LogSet : Earlier(p, m) => p \in LogSet'
  BY <1>0, <1>1, <1>2, LogOrder DEF Earlier
<1>4. ClaimsNumbered'
  BY <1>1, <1>3 DEF ChainInv, ClaimsNumbered, Earlier, AtOrAfter
<1>5. HistoriesLegal'
  <2> SUFFICES ASSUME NEW m \in LogSet'
               PROVE  /\ \E p \in LogSet' : SubmissionOf(p, m)'
                      /\ m.status # "Submitted" => \E p \in LogSet' : Precedes(LogSet', p, m)
    BY DEF HistoriesLegal
  <2>1. m \in LogSet
    BY <1>1
  <2>2. PICK p \in LogSet : SubmissionOf(p, m)
    BY <2>1 DEF ChainInv, HistoriesLegal
  <2>3. p \in LogSet' /\ SubmissionOf(p, m)'
    BY <1>2, <2>2 DEF SubmissionOf, AtOrAfter
  <2>4. ASSUME m.status # "Submitted" PROVE \E q \in LogSet' : Precedes(LogSet', q, m)
    <3>1. PICK q \in LogSet : Precedes(LogSet, q, m)
      BY <2>1, <2>4 DEF ChainInv, HistoriesLegal
    <3>2. q \in LogSet'
      BY <1>3, <3>1 DEF Precedes
    <3>3. Precedes(LogSet', q, m)
      BY <1>1, <3>1 DEF Precedes, Earlier, AtOrAfter
    <3> QED
      BY <3>2, <3>3
  <2> QED
    BY <2>3, <2>4
<1> QED
  BY <1>1, <1>4, <1>5 DEF ChainInv

LEMMA ChainInitial == ChainInit => ChainInv
<1> SUFFICES ASSUME ChainInit PROVE ChainInv
  OBVIOUS
<1>1. LogSet = {} /\ DOMAIN logs = {}
  BY DEF ChainInit, LogSet
<1>2. ChainTypeOK
  BY BoundsAssumption DEF ChainInit, ChainTypeOK
<1> QED
  BY <1>1, <1>2 DEF ChainInv, ChainOrdered, BlocksMined, IndicesUsed, ClaimsNumbered,
                    HistoriesLegal

LEMMA ChainStep == ChainInv /\ (ChainNext \/ UNCHANGED chainVars) => ChainInv'
<1> SUFFICES ASSUME ChainInv, ChainNext \/ UNCHANGED chainVars PROVE ChainInv'
  OBVIOUS
<1>1. ASSUME logs' = logs, emitted' = emitted, head' \in head..MaxHead
      PROVE  ChainInv'
  <2>1. LogSet' = LogSet
    BY <1>1 DEF LogSet
  <2>2. ChainTypeOK' /\ BlocksMined'
    BY <1>1, <2>1 DEF ChainInv, ChainTypeOK, BlocksMined
  <2> QED
    BY <1>1, <2>1, <2>2 DEF ChainInv, ChainOrdered, IndicesUsed, ClaimsNumbered,
       HistoriesLegal, Precedes, SubmissionOf, Earlier, AtOrAfter
<1>2. head \in 1..MaxHead /\ MaxHead \in Nat
  BY BoundsAssumption DEF ChainInv, ChainTypeOK
<1>3. CASE UNCHANGED chainVars
  BY <1>1, <1>2, <1>3 DEF chainVars
<1>4. CASE Mine
  BY <1>1, <1>2, <1>4 DEF Mine
<1> QED
  BY <1>3, <1>4, SubmittedStep, AssessedStep, ReorgStep DEF ChainNext

\* Whatever happens to the chain, a block under Confirmations others keeps its
\* logs.
LEMMA FinalKept ==
  ASSUME ChainInv, ChainNext \/ UNCHANGED chainVars
  PROVE  /\ head' >= head
         /\ \A l : l \in LogSet /\ l.block <= head - Confirmations => l \in LogSet'
         /\ \A l \in LogSet' : l \in LogSet \/ l.block > head - Confirmations
<1>0. /\ head \in Nat /\ Confirmations \in Nat \ {0} /\ LogSet \subseteq Log
  BY LogSetTyped, BoundsAssumption, DepthAssumption DEF ChainInv, ChainTypeOK
<1>1. CASE logs' = logs /\ (head' = head \/ head' = head + 1)
  BY <1>0, <1>1 DEF LogSet
<1>2. ASSUME NEW c \in 1..MaxClaims, NEW status \in Statuses, NEW content \in Contents,
             Emit(c, status, content)
      PROVE  /\ head' >= head
             /\ \A l : l \in LogSet /\ l.block <= head - Confirmations => l \in LogSet'
             /\ \A l \in LogSet' : l \in LogSet \/ l.block > head - Confirmations
  <2>1. PICK new \in Log : LogSet' = LogSet \cup {new} /\ new.block = head
    BY <1>2, EmitShape
  <2> QED
    BY <1>0, <1>2, <2>1 DEF Emit
<1>3. ASSUME NEW content \in Contents, EmitSubmitted(content)
      PROVE  \E c \in 1..MaxClaims : Emit(c, "Submitted", content)
  <2>1. CountAt(head) \in Nat /\ MaxClaims \in Nat
    BY <1>0, ClaimsCounted, BoundsAssumption
  <2> QED
    BY <1>3, <2>1 DEF EmitSubmitted
<1>4. ASSUME NEW c \in 1..MaxClaims, NEW status, EmitAssessed(c, status)
      PROVE  status \in Statuses /\ \E content \in Contents : Emit(c, status, content)
  <2>1. LogsOf(c, head) # {}
    BY <1>0, <1>4, ClaimsCounted DEF EmitAssessed, LogsOf
  <2>2. StateAt(c, head) \in LogSet
    BY <2>1, StateAtNewest DEF LogsOf, ChainInv, ChainTypeOK
  <2> QED
    BY <1>0, <1>4, <2>2 DEF EmitAssessed, Lifecycle, Statuses, Log
<1>5. ASSUME NEW depth \in 1..Confirmations, Reorg(depth)
      PROVE  /\ head' >= head
             /\ \A l : l \in LogSet /\ l.block <= head - Confirmations => l \in LogSet'
             /\ \A l \in LogSet' : l \in LogSet \/ l.block > head - Confirmations
  <2>1. head' = head /\ LogSet' = {l \in LogSet : l.block <= head - depth}
    BY <1>5, ReorgShape
  <2>2. \A l \in LogSet : l.block \in Nat
    BY <1>0 DEF Log
  <2> QED
    BY <1>0, <2>1, <2>2
<1>6. CASE Mine
  BY <1>1, <1>6 DEF Mine
<1>7. CASE UNCHANGED chainVars
  BY <1>1, <1>7 DEF chainVars
<1>8. "Submitted" \in Statuses
  BY DEF Statuses
<1> QED
  BY <1>2, <1>3, <1>4, <1>5, <1>6, <1>7, <1>8 DEF ChainNext

=============================================================================
