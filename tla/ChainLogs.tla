------------------------------ MODULE ChainLogs ------------------------------
(***************************************************************************)
(* The chain as the listener and the reconciler see it: numbered blocks    *)
(* holding the registry's ClaimSubmitted and ClaimAssessed logs. The       *)
(* newest Confirmations blocks may be replaced; an older one is final.     *)
(* Blocks are filled a log at a time, which no reader notices: the tip is  *)
(* never read.                                                             *)
(***************************************************************************)
EXTENDS Integers, Sequences, FiniteSets

CONSTANTS
  Confirmations,   \* CONFIRMATION_BLOCKS
  Contents,        \* what the pointer of a submission leads to
  Decisions,       \* statuses the assessors give in this instance
  MaxHead,         \* bound: height of the chain
  MaxLogs,         \* bound: logs ever emitted, replaced ones included
  MaxClaims        \* bound: claims in the registry

\* "matching": bytes with the anchored hash; "altered": other bytes;
\* "unsafe": a pointer that target_from_pointer refuses.
ASSUME ContentsAssumption == Contents \subseteq {"matching", "altered", "unsafe"}
ASSUME DepthAssumption == Confirmations \in Nat \ {0}
ASSUME BoundsAssumption == MaxHead \in Nat \ {0} /\ MaxLogs \in Nat /\ MaxClaims \in Nat

VARIABLES
  head,      \* eth.block_number
  logs,      \* the registry's logs, in chain order
  emitted    \* logs ever emitted: the transaction hash of the next one

chainVars == <<head, logs, emitted>>

Statuses == {"Submitted", "UnderReview", "Flagged", "Approved", "Rejected"}

Log == [tx : Nat, block : Nat, index : Nat, claim : Nat \ {0},
        status : Statuses, content : Contents]

ChainTypeOK ==
  /\ head \in 1..MaxHead
  /\ logs \in Seq(Log)
  /\ emitted \in 0..MaxLogs

ChainInit ==
  /\ head = 1
  /\ logs = <<>>
  /\ emitted = 0

LogSet == {logs[i] : i \in DOMAIN logs}

\* (block, log index) order.
AtOrAfter(l, m) ==
  \/ l.block > m.block
  \/ l.block = m.block /\ l.index >= m.index

\* Logs are in chain order: those up to a block come first.
Upto(block) ==
  CHOOSE n \in 0..Len(logs) :
    \A i \in DOMAIN logs : logs[i].block <= block <=> i <= n

LogsOf(c, block) == {l \in LogSet : l.claim = c /\ l.block <= block}

\* getClaim(c) at a block: what its newest log there says.
StateAt(c, block) ==
  CHOOSE l \in LogsOf(c, block) : \A m \in LogsOf(c, block) : AtOrAfter(l, m)

\* claimCount() at a block.
CountAt(block) == Cardinality({l.claim : l \in {m \in LogSet : m.block <= block}})

Emit(c, status, content) ==
  /\ emitted < MaxLogs
  /\ emitted' = emitted + 1
  /\ logs' = Append(logs,
       [tx |-> emitted, block |-> head,
        index |-> Cardinality({l \in LogSet : l.block = head}),
        claim |-> c, status |-> status, content |-> content])
  /\ UNCHANGED head

EmitSubmitted(content) ==
  /\ CountAt(head) < MaxClaims
  /\ Emit(CountAt(head) + 1, "Submitted", content)

Lifecycle ==
  {<<"Submitted", "UnderReview">>, <<"Submitted", "Flagged">>,
   <<"UnderReview", "Approved">>, <<"UnderReview", "Rejected">>,
   <<"UnderReview", "Flagged">>,
   <<"Flagged", "Approved">>, <<"Flagged", "Rejected">>}

EmitAssessed(c, status) ==
  /\ c <= CountAt(head)
  /\ <<StateAt(c, head).status, status>> \in Lifecycle
  /\ Emit(c, status, StateAt(c, head).content)

Mine ==
  /\ head < MaxHead
  /\ head' = head + 1
  /\ UNCHANGED <<logs, emitted>>

\* A reorganization replaces the newest blocks, never a confirmed one.
Reorg(depth) ==
  /\ depth <= Confirmations
  /\ \E l \in LogSet : l.block > head - depth
  /\ logs' = SubSeq(logs, 1, Upto(head - depth))
  /\ UNCHANGED <<head, emitted>>

ChainNext ==
  \/ \E content \in Contents : EmitSubmitted(content)
  \/ \E c \in 1..MaxClaims, status \in Decisions : EmitAssessed(c, status)
  \/ Mine
  \/ \E depth \in 1..Confirmations : Reorg(depth)

=============================================================================
