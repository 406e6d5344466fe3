------------------------ MODULE ScoringWorker_proofs ------------------------
(***************************************************************************)
(* What holds of the scoring workers for any number of members, partitions *)
(* and events, and however often a member fails or loses its partition.    *)
(***************************************************************************)
EXTENDS ScoringWorker, TLAPS, SequenceTheorems

\* Every step of the system, under its own name.
LEMMA NextCases ==
  ASSUME Next, NEW P,
         \A w \in Workers : Start(w) => P,
         \A w \in Workers : \A p \in DOMAIN topic : Poll(w, p) => P,
         \A w \in Workers : Load(w) => P,
         \A w \in Workers : Score(w) => P,
         \A w \in Workers : ReadChain(w) => P,
         \A w \in Workers : Send(w) => P,
         \A w \in Workers : Receipt(w) => P,
         \A w \in Workers : MarkCompleted(w) => P,
         \A w \in Workers : MarkFailed(w) => P,
         \A w \in Workers : Quarantine(w) => P,
         \A w \in Workers : Commit(w) => P,
         \A w \in Workers : Stop(w) => P,
         \A w \in Workers : Raise(w) => P,
         \A p \in DOMAIN topic : \A w \in Workers : Rebalance(p, w) => P,
         \A i \in DOMAIN txs : Mine(i) => P,
         \A c \in Claims : \A d \in HumanDecisions : HumanAssess(c, d) => P
  PROVE  P
BY DEF Next, WorkerStep

-----------------------------------------------------------------------------
(* The invariant *)

\* An open handler is inside its partition; past the scoring it holds a record
\* with one of the model's decisions, and the event has a row.
Handling(e, t, rs) ==
  e.pc \notin {"down", "idle"} =>
    /\ e.part \in DOMAIN t /\ e.offset \in 1..Len(t[e.part])
    /\ e.rec # NoRecord =>
         /\ rs[t[e.part][e.offset]] # NoRecord
         /\ e.rec.decision \in Outputs[t[e.part][e.offset]]
    /\ e.pc \in {"chain", "send", "wait", "complete", "failed", "conflict"} =>
         e.rec # NoRecord

\* A handler that waits for a receipt waits for its own transaction.
Awaiting(e, t, ts) ==
  e.pc = "wait" =>
    /\ e.tx \in 1..Len(ts)
    /\ ts[e.tx].claim = t[e.part][e.offset]
    /\ ts[e.tx].decision = e.rec.decision

TypeInv ==
  /\ TypeOK
  /\ committed \in [DOMAIN topic -> Nat]
  /\ \A c \in Claims : records[c] # NoRecord => records[c].decision \in Outputs[c]
  /\ \A w \in Workers : Handling(worker[w], topic, records)
  /\ \A w \in Workers : Awaiting(worker[w], topic, txs)

\* The contract holds decision d of claim c.
Holds(ch, c, d) == \E i \in DOMAIN ch[c] : ch[c][i] = d

SettledIn(rs, dl, ch, c) ==
  \/ c \in dl
  \/ rs[c] # NoRecord /\ Holds(ch, c, rs[c].decision)

\* Everything before the event of an open handler is settled; at the end of
\* the handler the event is too.
Finishing(e, t, rs, dl, ch) ==
  /\ e.pc \notin {"down", "idle"} =>
       \A o \in 1..(e.offset - 1) : SettledIn(rs, dl, ch, t[e.part][o])
  /\ e.pc = "complete" => Holds(ch, t[e.part][e.offset], e.rec.decision)
  /\ e.pc = "commit" => SettledIn(rs, dl, ch, t[e.part][e.offset])

\* A transaction that succeeded has anchored its decision.
SuccessAnchored ==
  \A i \in 1..Len(txs) :
    txs[i].result = "success" => Holds(chain, txs[i].claim, txs[i].decision)

SettledInv ==
  /\ \A p \in DOMAIN topic : \A o \in 1..committed[p] :
       SettledIn(records, deadLetters, chain, topic[p][o])
  /\ \A c \in Claims : Completed(records[c]) => Holds(chain, c, records[c].decision)
  /\ SuccessAnchored
  /\ \A w \in Workers : Finishing(worker[w], topic, records, deadLetters, chain)

\* A model artifact gives a claim one decision.
Deterministic == \A c \in Claims : \A d, e \in Outputs[c] : d = e

-----------------------------------------------------------------------------
(* Types *)

WorkerState ==
  [pc : {"down", "idle", "load", "score", "chain", "send", "wait", "complete",
         "failed", "conflict", "quarantine", "commit"},
   part : Nat, offset : Nat, rec : Record \cup {NoRecord}, tx : Nat]

Transaction == [claim : Claims, decision : Decision,
                result : {"pending", "success", "reverted"}]

LEMMA DownTyped ==
  /\ Down \in WorkerState /\ Down.pc = "down"
  /\ \A p, o \in Nat :
       [Down EXCEPT !.pc = "load", !.part = p, !.offset = o] \in WorkerState
  /\ [Down EXCEPT !.pc = "idle"] \in WorkerState
  /\ [Down EXCEPT !.pc = "idle"].pc = "idle"
BY DEF Down, WorkerState

LEMMA OutputsTyped ==
  ASSUME NEW c \in Claims, NEW d \in Outputs[c]
  PROVE  d \in Decision /\ d.status \in {"UnderReview", "Flagged"}
BY OutputsAssumption

\* The event of an open handler is a claim.
LEMMA EventTyped ==
  ASSUME TypeInv, NEW w \in Workers, worker[w].pc \notin {"down", "idle"}
  PROVE  /\ Event(w) \in Claims
         /\ worker[w].part \in DOMAIN topic
         /\ worker[w].offset \in 1..Len(topic[worker[w].part])
         /\ worker[w].rec # NoRecord =>
              /\ records[Event(w)] # NoRecord
              /\ worker[w].rec.decision \in Outputs[Event(w)]
         /\ worker[w].pc \in {"chain", "send", "wait", "complete", "failed", "conflict"} =>
              worker[w].rec # NoRecord
<1>1. topic \in Seq(Seq(Claims))
  BY GroupAssumption DEF TypeInv, TypeOK
<1>2. Handling(worker[w], topic, records)
  BY DEF TypeInv
<1> QED
  BY <1>1, <1>2 DEF Handling, Event

\* What one member does leaves the others' handlers in order, while rows are
\* never deleted and transactions never change their contents.
LEMMA OthersKept ==
  ASSUME TypeInv, NEW w \in Workers, topic' = topic,
         worker' \in [Workers -> WorkerState],
         \A v \in Workers \ {w} : worker'[v] = worker[v],
         \A c \in Claims : records[c] # NoRecord => records'[c] # NoRecord,
         Len(txs') \in Nat, Len(txs) <= Len(txs'),
         \A i \in 1..Len(txs) : /\ txs'[i].claim = txs[i].claim
                                /\ txs'[i].decision = txs[i].decision,
         Handling(worker'[w], topic, records'),
         Awaiting(worker'[w], topic, txs')
  PROVE  /\ \A v \in Workers : Handling(worker[v], topic, records)'
         /\ \A v \in Workers : Awaiting(worker[v], topic, txs)'
<1> SUFFICES ASSUME NEW v \in Workers
             PROVE  Handling(worker'[v], topic, records') /\ Awaiting(worker'[v], topic, txs')
  OBVIOUS
<1>1. CASE v = w
  BY <1>1
<1>2. CASE v # w
  <2>1. worker'[v] = worker[v]
    BY <1>2
  <2>2. Handling(worker[v], topic, records) /\ Awaiting(worker[v], topic, txs)
    BY DEF TypeInv
  <2>3. Handling(worker[v], topic, records')
    BY <2>2, EventTyped DEF Handling, Event
  <2>4. txs \in Seq(Transaction)
    BY DEF TypeInv, TypeOK, Transaction
  <2>5. Awaiting(worker[v], topic, txs')
    BY <2>2, <2>4 DEF Awaiting
  <2> QED
    BY <2>1, <2>3, <2>5
<1> QED
  BY <1>1, <1>2

LEMMA TypeInit ==
  Init => TypeInv
<1> SUFFICES ASSUME Init PROVE TypeInv
  OBVIOUS
<1>1. topic \in Seq(Seq(Claims)) /\ topic \in Topics
  BY GroupAssumption DEF Init
<1>2. owner \in [DOMAIN topic -> Workers]
  <2>1. (CHOOSE w \in Workers : TRUE) \in Workers
    BY GroupAssumption
  <2> QED
    BY <2>1 DEF Init
<1>3. worker \in [Workers -> WorkerState] /\ \A w \in Workers : worker[w].pc = "down"
  BY DownTyped DEF Init
<1>4. /\ committed \in [DOMAIN topic -> Nat]
      /\ \A p \in DOMAIN topic : committed[p] \in 0..Len(topic[p])
  BY <1>1 DEF Init
<1>5. /\ chain \in [Claims -> Seq(Decision)]
      /\ txs \in Seq(Transaction)
      /\ records \in [Claims -> Record \cup {NoRecord}]
  BY DEF Init
<1>6. failures \in 0..MaxFailures /\ rebalances \in 0..MaxRebalances
  BY GroupAssumption DEF Init
<1>7. TypeOK
  BY <1>1, <1>2, <1>3, <1>4, <1>5, <1>6 DEF TypeOK, Init, WorkerState, Transaction
<1>8. \A w \in Workers : /\ Handling(worker[w], topic, records)
                         /\ Awaiting(worker[w], topic, txs)
  BY <1>3 DEF Handling, Awaiting
<1> QED
  BY <1>4, <1>7, <1>8 DEF TypeInv, Init

\* A move of the handler's program counter alone.
LEMMA Moved ==
  ASSUME TypeInv, NEW w \in Workers, NEW q, Goto(w, q),
         q \in {"down", "idle", "load", "score", "chain", "send", "wait", "complete",
                "failed", "conflict", "quarantine", "commit"}
  PROVE  /\ worker' \in [Workers -> WorkerState]
         /\ \A v \in Workers \ {w} : worker'[v] = worker[v]
         /\ worker'[w] = [worker[w] EXCEPT !.pc = q]
         /\ worker'[w].pc = q /\ worker'[w].part = worker[w].part
         /\ worker'[w].offset = worker[w].offset
         /\ worker'[w].rec = worker[w].rec /\ worker'[w].tx = worker[w].tx
<1>1. worker \in [Workers -> WorkerState]
  BY DEF TypeInv, TypeOK, WorkerState
<1>2. worker[w] \in WorkerState
  BY <1>1
<1>3. [worker[w] EXCEPT !.pc = q] \in WorkerState
  BY <1>2 DEF WorkerState
<1>4. worker' = [worker EXCEPT ![w] = [worker[w] EXCEPT !.pc = q]]
  BY <1>1 DEF Goto
<1>5. worker'[w] = [worker[w] EXCEPT !.pc = q]
  BY <1>1, <1>4
<1>6. worker' \in [Workers -> WorkerState] /\ \A v \in Workers \ {w} : worker'[v] = worker[v]
  BY <1>1, <1>3, <1>4
<1> QED
  BY <1>2, <1>5, <1>6 DEF WorkerState

\* A handler that is replaced by another state.
LEMMA Replaced ==
  ASSUME TypeInv, NEW w \in Workers, NEW e \in WorkerState,
         worker' = [worker EXCEPT ![w] = e]
  PROVE  /\ worker' \in [Workers -> WorkerState]
         /\ \A v \in Workers \ {w} : worker'[v] = worker[v]
         /\ worker'[w] = e
BY DEF TypeInv, TypeOK, WorkerState

\* The variables of the store, the chain and the group as one step leaves them.
LEMMA TypeKept ==
  ASSUME TypeInv, NEW w \in Workers, UNCHANGED <<valid, topic, owner, rebalances>>,
         worker' \in [Workers -> WorkerState],
         \A v \in Workers \ {w} : worker'[v] = worker[v],
         records' \in [Claims -> Record \cup {NoRecord}],
         \A c \in Claims : records[c] # NoRecord => records'[c] # NoRecord,
         \A c \in Claims : records'[c] # NoRecord => records'[c].decision \in Outputs[c],
         deadLetters' \subseteq Claims, chain' \in [Claims -> Seq(Decision)],
         committed' \in [DOMAIN topic -> Nat],
         \A p \in DOMAIN topic : committed'[p] \in 0..Len(topic[p]),
         failures' \in 0..MaxFailures,
         txs' \in Seq(Transaction), Len(txs) <= Len(txs'),
         \A i \in 1..Len(txs) : /\ txs'[i].claim = txs[i].claim
                                /\ txs'[i].decision = txs[i].decision,
         Handling(worker'[w], topic, records'),
         Awaiting(worker'[w], topic, txs')
  PROVE  TypeInv'
<1>1. Len(txs') \in Nat
  OBVIOUS
<1>2. /\ \A v \in Workers : Handling(worker[v], topic, records)'
      /\ \A v \in Workers : Awaiting(worker[v], topic, txs)'
  BY <1>1, OthersKept
<1>3. TypeOK'
  BY DEF TypeInv, TypeOK, WorkerState, Transaction
<1> QED
  BY <1>2, <1>3 DEF TypeInv

\* The parts of the invariant a step of a handler may leave alone.
LEMMA SameStore ==
  ASSUME TypeInv
  PROVE  /\ records \in [Claims -> Record \cup {NoRecord}]
         /\ \A c \in Claims : records[c] # NoRecord => records[c].decision \in Outputs[c]
         /\ deadLetters \subseteq Claims /\ chain \in [Claims -> Seq(Decision)]
         /\ committed \in [DOMAIN topic -> Nat]
         /\ \A p \in DOMAIN topic : committed[p] \in 0..Len(topic[p])
         /\ failures \in 0..MaxFailures
         /\ txs \in Seq(Transaction) /\ Len(txs) <= Len(txs)
BY DEF TypeInv, TypeOK, Transaction

\* A handler that stops or goes back to polling.
LEMMA ClosedTyped ==
  ASSUME NEW e, e.pc \in {"down", "idle"}, NEW t, NEW rs, NEW ts
  PROVE  Handling(e, t, rs) /\ Awaiting(e, t, ts)
BY DEF Handling, Awaiting

LEMMA TypeStart ==
  ASSUME TypeInv, NEW w \in Workers, Start(w) PROVE TypeInv'
<1>1. worker' \in [Workers -> WorkerState] /\ \A v \in Workers \ {w} : worker'[v] = worker[v]
  BY Moved DEF Start
<1>2. worker'[w].pc = "idle"
  BY Moved DEF Start
<1>3. Handling(worker'[w], topic, records') /\ Awaiting(worker'[w], topic, txs')
  BY <1>2, ClosedTyped
<1> QED
  BY <1>1, <1>3, TypeKept, SameStore DEF Start, kafkaVars, storeVars

LEMMA TypePoll ==
  ASSUME TypeInv, NEW w \in Workers, NEW p \in DOMAIN topic, Poll(w, p) PROVE TypeInv'
<1> DEFINE o == committed[p] + 1
           e == [Down EXCEPT !.pc = "load", !.part = p, !.offset = o]
<1>1. topic \in Seq(Seq(Claims))
  BY GroupAssumption DEF TypeInv, TypeOK
<1>2. p \in Nat /\ o \in Nat /\ o \in 1..Len(topic[p])
  BY <1>1, SameStore DEF Poll
<1>2a. worker' = [worker EXCEPT ![w] = e]
  BY DEF Poll
<1> HIDE DEF o
<1>3. Down \in WorkerState /\ Down.rec = NoRecord
  BY DownTyped DEF Down
<1>4. e \in WorkerState
  BY <1>2, DownTyped
<1>4a. e.pc = "load" /\ e.part = p /\ e.offset = o /\ e.rec = NoRecord
  BY <1>3 DEF WorkerState
<1> HIDE DEF e
<1>5. /\ worker' \in [Workers -> WorkerState] /\ \A v \in Workers \ {w} : worker'[v] = worker[v]
      /\ worker'[w] = e
  BY <1>2a, <1>4, Replaced
<1>6. Handling(worker'[w], topic, records') /\ Awaiting(worker'[w], topic, txs')
  BY <1>2, <1>4a, <1>5 DEF Handling, Awaiting
<1> QED
  BY <1>5, <1>6, TypeKept, SameStore DEF Poll, kafkaVars, storeVars

LEMMA TypeLoad ==
  ASSUME TypeInv, NEW w \in Workers, Load(w) PROVE TypeInv'
<1> DEFINE q == CASE Completed(records[Event(w)]) -> "commit"
                  [] ~Completed(records[Event(w)]) /\ ~Authorized(Event(w)) -> "quarantine"
                  [] OTHER -> "score"
           e == [worker[w] EXCEPT !.rec = records[Event(w)], !.pc = q]
<1>1. worker[w].pc = "load" /\ worker \in [Workers -> WorkerState]
  BY DEF Load, TypeInv, TypeOK, WorkerState
<1>2. Event(w) \in Claims /\ worker[w].part \in DOMAIN topic
      /\ worker[w].offset \in 1..Len(topic[worker[w].part])
  BY <1>1, EventTyped
<1>3. q \in {"commit", "quarantine", "score"}
  OBVIOUS
<1>4. records[Event(w)] \in Record \cup {NoRecord}
  BY <1>2, SameStore
<1>7. worker' = [worker EXCEPT ![w] = e]
  BY <1>1 DEF Load
<1> HIDE DEF q
<1>5. /\ e.pc = q /\ e.part = worker[w].part /\ e.offset = worker[w].offset
      /\ e.rec = records[Event(w)]
  BY <1>1 DEF WorkerState
<1>6. e \in WorkerState
  BY <1>1, <1>3, <1>4 DEF WorkerState
<1> HIDE DEF e
<1>8. /\ worker' \in [Workers -> WorkerState] /\ \A v \in Workers \ {w} : worker'[v] = worker[v]
      /\ worker'[w] = e
  BY <1>6, <1>7, Replaced
<1>9. /\ worker'[w].pc \in {"commit", "quarantine", "score"}
      /\ worker'[w].part = worker[w].part /\ worker'[w].offset = worker[w].offset
      /\ worker'[w].rec = records[Event(w)]
  BY <1>3, <1>5, <1>8
<1>10. records' = records
  BY DEF Load, storeVars
<1>11. records[Event(w)] # NoRecord => records[Event(w)].decision \in Outputs[Event(w)]
  BY <1>2, SameStore
<1>12. Handling(worker'[w], topic, records') /\ Awaiting(worker'[w], topic, txs')
  BY <1>2, <1>9, <1>10, <1>11 DEF Handling, Awaiting, Event
<1> QED
  BY <1>8, <1>12, TypeKept, SameStore DEF Load, kafkaVars, storeVars

LEMMA TypeScore ==
  ASSUME TypeInv, NEW w \in Workers, Score(w) PROVE TypeInv'
<1>1. worker[w].pc = "score" /\ worker \in [Workers -> WorkerState]
  BY DEF Score, TypeInv, TypeOK, WorkerState
<1>2. /\ Event(w) \in Claims /\ worker[w].part \in DOMAIN topic
      /\ worker[w].offset \in 1..Len(topic[worker[w].part])
      /\ worker[w].rec # NoRecord =>
           /\ records[Event(w)] # NoRecord
           /\ worker[w].rec.decision \in Outputs[Event(w)]
  BY <1>1, EventTyped
<1>3. CASE worker[w].rec # NoRecord /\ Goto(w, "chain") /\ UNCHANGED records
  <2>1. /\ worker' \in [Workers -> WorkerState] /\ \A v \in Workers \ {w} : worker'[v] = worker[v]
        /\ worker'[w].pc = "chain" /\ worker'[w].part = worker[w].part
        /\ worker'[w].offset = worker[w].offset /\ worker'[w].rec = worker[w].rec
    BY <1>3, Moved
  <2>2. Handling(worker'[w], topic, records') /\ Awaiting(worker'[w], topic, txs')
    BY <1>2, <1>3, <2>1 DEF Handling, Awaiting, Event
  <2> QED
    BY <1>3, <2>1, <2>2, TypeKept, SameStore DEF Score, kafkaVars
<1>4. ASSUME NEW d \in Outputs[Event(w)], worker[w].rec = NoRecord,
             SaveScored(Event(w), [decision |-> d, tx |-> 0, state |-> "scored"]),
             worker' = [worker EXCEPT ![w].pc = "chain",
                          ![w].rec = [decision |-> d, tx |-> 0, state |-> "scored"]]
      PROVE  TypeInv'
  <2> DEFINE rec == [decision |-> d, tx |-> 0, state |-> "scored"]
             e == [worker[w] EXCEPT !.pc = "chain", !.rec = rec]
  <2>1. rec \in Record /\ rec # NoRecord /\ rec.decision = d
    BY <1>2, <1>4, OutputsTyped, GroupAssumption DEF Record
  <2> HIDE DEF rec
  <2>2. /\ e.pc = "chain" /\ e.part = worker[w].part /\ e.offset = worker[w].offset
        /\ e.rec = rec
    BY <1>1 DEF WorkerState
  <2>3. e \in WorkerState
    BY <1>1, <2>1 DEF WorkerState
  <2>4. worker' = [worker EXCEPT ![w] = e]
    BY <1>1, <1>4 DEF rec
  <2> HIDE DEF e
  <2>5. /\ worker' \in [Workers -> WorkerState] /\ \A v \in Workers \ {w} : worker'[v] = worker[v]
        /\ worker'[w] = e
    BY <2>3, <2>4, Replaced
  <2>6. \/ records' = records /\ Completed(records[Event(w)])
        \/ records' = [records EXCEPT ![Event(w)] = rec]
    BY <1>4 DEF SaveScored, rec
  <2>7. /\ records' \in [Claims -> Record \cup {NoRecord}]
        /\ \A c \in Claims : records[c] # NoRecord => records'[c] # NoRecord
        /\ \A c \in Claims : records'[c] # NoRecord => records'[c].decision \in Outputs[c]
        /\ records'[Event(w)] # NoRecord
    BY <1>2, <1>4, <2>1, <2>6, SameStore DEF Completed
  <2>8. /\ worker'[w].pc = "chain" /\ worker'[w].part = worker[w].part
        /\ worker'[w].offset = worker[w].offset /\ worker'[w].rec = rec
    BY <2>2, <2>5
  <2>9. Handling(worker'[w], topic, records') /\ Awaiting(worker'[w], topic, txs')
    BY <1>2, <1>4, <2>1, <2>7, <2>8 DEF Handling, Awaiting, Event
  <2> QED
    BY <2>5, <2>7, <2>9, TypeKept, SameStore DEF Score, kafkaVars
<1> QED
  BY <1>3, <1>4 DEF Score

\* The steps that only move the handler on, to where it holds a record.
LEMMA TypeMoves ==
  ASSUME TypeInv, NEW w \in Workers, worker[w].pc \notin {"down", "idle"},
         NEW q, Goto(w, q), q \in {"chain", "failed", "conflict", "complete", "quarantine", "commit"},
         q \in {"quarantine", "commit"} \/ worker[w].rec # NoRecord
  PROVE  /\ worker' \in [Workers -> WorkerState]
         /\ \A v \in Workers \ {w} : worker'[v] = worker[v]
         /\ \A rs : Handling(worker[w], topic, rs) => Handling(worker'[w], topic, rs)
         /\ \A ts : Awaiting(worker'[w], topic, ts)
BY Moved DEF Handling, Awaiting

LEMMA TypeReadChain ==
  ASSUME TypeInv, NEW w \in Workers, ReadChain(w) PROVE TypeInv'
<1> DEFINE c == Event(w)
           matching == chain[c] # <<>> /\ chain[c][Len(chain[c])] = worker[w].rec.decision
           q == IF Status(c) = "Submitted" THEN "send"
                ELSE IF matching THEN "complete" ELSE "conflict"
           e == [worker[w] EXCEPT !.tx = worker[w].rec.tx, !.pc = q]
<1>1. worker[w].pc = "chain" /\ worker \in [Workers -> WorkerState]
  BY DEF ReadChain, TypeInv, TypeOK, WorkerState
<1>2. worker[w].rec # NoRecord /\ Handling(worker[w], topic, records)
  BY <1>1, EventTyped DEF TypeInv
<1>3. worker' = [worker EXCEPT ![w] = e]
  BY <1>1 DEF ReadChain
<1>4. q \in {"send", "complete", "conflict"}
  OBVIOUS
<1> HIDE DEF q
<1>5. worker[w] \in WorkerState /\ worker[w].rec.tx \in Nat
  BY <1>1, <1>2 DEF WorkerState, Record
<1>6. e \in WorkerState
  BY <1>4, <1>5 DEF WorkerState
<1>7. /\ e.pc = q /\ e.part = worker[w].part /\ e.offset = worker[w].offset
      /\ e.rec = worker[w].rec
  BY <1>5 DEF WorkerState
<1> HIDE DEF e
<1>8. /\ worker' \in [Workers -> WorkerState] /\ \A v \in Workers \ {w} : worker'[v] = worker[v]
      /\ worker'[w] = e
  BY <1>3, <1>6, Replaced
<1>9. UNCHANGED <<valid, kafkaVars, storeVars, chain, txs, failures, rebalances>>
  BY DEF ReadChain
<1>10. Handling(worker'[w], topic, records') /\ Awaiting(worker'[w], topic, txs')
  BY <1>1, <1>2, <1>4, <1>7, <1>8, <1>9 DEF Handling, Awaiting, storeVars
<1> QED
  BY <1>8, <1>9, <1>10, TypeKept, SameStore DEF kafkaVars, storeVars

LEMMA TypeSend ==
  ASSUME TypeInv, NEW w \in Workers, Send(w) PROVE TypeInv'
<1> DEFINE c == Event(w)
           d == worker[w].rec.decision
<1>1. worker[w].pc = "send" /\ worker \in [Workers -> WorkerState]
      /\ UNCHANGED <<valid, kafkaVars, storeVars, chain, failures, rebalances>>
  BY DEF Send, TypeInv, TypeOK, WorkerState
<1>2. /\ worker[w].rec # NoRecord /\ Handling(worker[w], topic, records)
      /\ c \in Claims /\ d \in Decision
  BY <1>1, EventTyped, OutputsTyped DEF TypeInv
<1>3. CASE Goto(w, "failed") /\ UNCHANGED txs
  BY <1>1, <1>2, <1>3, TypeMoves, TypeKept, SameStore DEF kafkaVars, storeVars
<1>4. CASE /\ txs' = Append(txs, [claim |-> c, decision |-> d, result |-> "pending"])
           /\ worker' = [worker EXCEPT ![w].pc = "wait", ![w].tx = Len(txs) + 1]
  <2> DEFINE t == [claim |-> c, decision |-> d, result |-> "pending"]
             n == Len(txs) + 1
             e == [worker[w] EXCEPT !.pc = "wait", !.tx = n]
  <2>1. t \in Transaction /\ t.claim = c /\ t.decision = d
    BY <1>2 DEF Transaction
  <2>2. /\ txs' \in Seq(Transaction) /\ Len(txs') = n /\ txs'[n] = t
        /\ \A i \in 1..Len(txs) : txs'[i] = txs[i]
        /\ n \in Nat /\ n \in 1..n /\ Len(txs) <= n
    BY <1>4, <2>1, SameStore
  <2>3. worker' = [worker EXCEPT ![w] = e]
    BY <1>1, <1>4
  <2> HIDE DEF t, n
  <2>4. worker[w] \in WorkerState
    BY <1>1
  <2>5. e \in WorkerState
    BY <2>2, <2>4 DEF WorkerState
  <2>6. /\ e.pc = "wait" /\ e.part = worker[w].part /\ e.offset = worker[w].offset
        /\ e.rec = worker[w].rec /\ e.tx = n
    BY <2>4 DEF WorkerState
  <2> HIDE DEF e
  <2>7. /\ worker' \in [Workers -> WorkerState] /\ \A v \in Workers \ {w} : worker'[v] = worker[v]
        /\ worker'[w] = e
    BY <2>3, <2>5, Replaced
  <2>8. Handling(worker'[w], topic, records')
    BY <1>1, <1>2, <2>6, <2>7 DEF Handling, storeVars
  <2>9. Awaiting(worker'[w], topic, txs')
    BY <2>1, <2>2, <2>6, <2>7 DEF Awaiting, Event
  <2> QED
    BY <1>1, <2>2, <2>7, <2>8, <2>9, TypeKept, SameStore DEF kafkaVars, storeVars
<1> QED
  BY <1>3, <1>4 DEF Send

LEMMA TypeReceipt ==
  ASSUME TypeInv, NEW w \in Workers, Receipt(w) PROVE TypeInv'
<1>1. \E q \in {"complete", "failed"} : Goto(w, q)
  BY DEF Receipt
<1>2. worker[w].rec # NoRecord /\ Handling(worker[w], topic, records)
  BY EventTyped DEF Receipt, TypeInv
<1> QED
  BY <1>1, <1>2, TypeMoves, TypeKept, SameStore DEF Receipt, kafkaVars, storeVars

\* A row whose state or transaction changes keeps its decision.
LEMMA RowTyped ==
  ASSUME TypeInv, NEW c \in Claims, records[c] # NoRecord, NEW st \in {"completed", "failed"},
         NEW tx \in Nat,
         \/ records' = [records EXCEPT ![c].state = st]
         \/ records' = [records EXCEPT ![c].state = st, ![c].tx = tx]
  PROVE  /\ records' \in [Claims -> Record \cup {NoRecord}]
         /\ \A b \in Claims : records[b] # NoRecord => /\ records'[b] # NoRecord
                                                       /\ records'[b].decision = records[b].decision
         /\ \A b \in Claims : records'[b] # NoRecord => records[b] # NoRecord
         /\ \A b \in Claims \ {c} : records'[b] = records[b]
         /\ records'[c].state = st
<1>1. records \in [Claims -> Record \cup {NoRecord}] /\ records[c] \in Record
  BY SameStore
<1>2. PICK r \in Record : /\ records' = [records EXCEPT ![c] = r]
                          /\ r.decision = records[c].decision /\ r.state = st
  <2>1. CASE records' = [records EXCEPT ![c].state = st]
    <3> DEFINE r == [records[c] EXCEPT !.state = st]
    <3>1. r \in Record /\ r.decision = records[c].decision /\ r.state = st
      BY <1>1 DEF Record
    <3>2. records' = [records EXCEPT ![c] = r]
      BY <1>1, <2>1
    <3> QED
      BY <3>1, <3>2
  <2>2. CASE records' = [records EXCEPT ![c].state = st, ![c].tx = tx]
    <3> DEFINE r == [records[c] EXCEPT !.state = st, !.tx = tx]
    <3>1. r \in Record /\ r.decision = records[c].decision /\ r.state = st
      BY <1>1 DEF Record
    <3>2. records' = [records EXCEPT ![c] = r]
      BY <1>1, <2>2
    <3> QED
      BY <3>1, <3>2
  <2> QED
    BY <2>1, <2>2
<1> QED
  BY <1>1, <1>2, GroupAssumption

LEMMA TypeMarkCompleted ==
  ASSUME TypeInv, NEW w \in Workers, MarkCompleted(w) PROVE TypeInv'
<1>1. /\ worker[w].rec # NoRecord /\ records[Event(w)] # NoRecord /\ Event(w) \in Claims
      /\ Handling(worker[w], topic, records)
  BY EventTyped DEF MarkCompleted, TypeInv
<1>2. worker[w].tx \in Nat
  BY DEF TypeInv, TypeOK
<1>3. records' = [records EXCEPT ![Event(w)].state = "completed", ![Event(w)].tx = worker[w].tx]
  BY DEF MarkCompleted
<1>4. /\ records' \in [Claims -> Record \cup {NoRecord}]
      /\ \A b \in Claims : records[b] # NoRecord => /\ records'[b] # NoRecord
                                                    /\ records'[b].decision = records[b].decision
      /\ \A b \in Claims : records'[b] # NoRecord => records[b] # NoRecord
  BY <1>1, <1>2, <1>3, RowTyped
<1>5. \A b \in Claims : records'[b] # NoRecord => records'[b].decision \in Outputs[b]
  BY <1>4, SameStore
<1>6. /\ worker' \in [Workers -> WorkerState]
      /\ \A v \in Workers \ {w} : worker'[v] = worker[v]
      /\ \A rs : Handling(worker[w], topic, rs) => Handling(worker'[w], topic, rs)
      /\ Awaiting(worker'[w], topic, txs')
  BY TypeMoves DEF MarkCompleted
<1>7. Handling(worker[w], topic, records')
  BY <1>1, <1>4 DEF Handling, Event, MarkCompleted
<1> QED
  BY <1>4, <1>5, <1>6, <1>7, TypeKept, SameStore DEF MarkCompleted, kafkaVars

LEMMA TypeMarkFailed ==
  ASSUME TypeInv, NEW w \in Workers, MarkFailed(w) PROVE TypeInv'
<1>1. /\ worker[w].rec # NoRecord /\ records[Event(w)] # NoRecord /\ Event(w) \in Claims
      /\ Handling(worker[w], topic, records) /\ worker[w].pc \in {"failed", "conflict"}
  BY EventTyped DEF MarkFailed, TypeInv
<1>2. 0 \in Nat /\ records' = [records EXCEPT ![Event(w)].state = "failed"]
  BY DEF MarkFailed
<1>3. /\ records' \in [Claims -> Record \cup {NoRecord}]
      /\ \A b \in Claims : records[b] # NoRecord => /\ records'[b] # NoRecord
                                                    /\ records'[b].decision = records[b].decision
      /\ \A b \in Claims : records'[b] # NoRecord => records[b] # NoRecord
  BY <1>1, <1>2, RowTyped
<1>4. \A b \in Claims : records'[b] # NoRecord => records'[b].decision \in Outputs[b]
  BY <1>3, SameStore
<1>5. /\ worker' \in [Workers -> WorkerState]
      /\ \A v \in Workers \ {w} : worker'[v] = worker[v]
      /\ Handling(worker'[w], topic, records') /\ Awaiting(worker'[w], topic, txs')
  <2>1. CASE Goto(w, "quarantine")
    <3>1. Handling(worker[w], topic, records')
      BY <1>1, <1>3 DEF Handling, Event
    <3> QED
      BY <1>1, <2>1, <3>1, TypeMoves
  <2>2. CASE worker' = [worker EXCEPT ![w] = Down]
    <3>1. /\ worker' \in [Workers -> WorkerState]
          /\ \A v \in Workers \ {w} : worker'[v] = worker[v]
          /\ worker'[w].pc = "down"
      BY <2>2, DownTyped, Replaced
    <3> QED
      BY <3>1, ClosedTyped
  <2> QED
    BY <2>1, <2>2 DEF MarkFailed
<1> QED
  BY <1>3, <1>4, <1>5, TypeKept, SameStore DEF MarkFailed, kafkaVars

LEMMA TypeQuarantine ==
  ASSUME TypeInv, NEW w \in Workers, Quarantine(w) PROVE TypeInv'
<1>1. Event(w) \in Claims /\ Handling(worker[w], topic, records)
  BY EventTyped DEF Quarantine, TypeInv
<1>2. deadLetters' \subseteq Claims
  BY <1>1, SameStore DEF Quarantine
<1>3. /\ worker' \in [Workers -> WorkerState]
      /\ \A v \in Workers \ {w} : worker'[v] = worker[v]
      /\ Handling(worker'[w], topic, records') /\ Awaiting(worker'[w], topic, txs')
  BY <1>1, TypeMoves DEF Quarantine
<1> QED
  BY <1>2, <1>3, TypeKept, SameStore DEF Quarantine, kafkaVars

LEMMA TypeCommit ==
  ASSUME TypeInv, NEW w \in Workers, Commit(w) PROVE TypeInv'
<1>1. /\ worker[w].part \in DOMAIN topic
      /\ worker[w].offset \in 1..Len(topic[worker[w].part])
  BY EventTyped DEF Commit
<1>2. topic \in Seq(Seq(Claims))
  BY GroupAssumption DEF TypeInv, TypeOK
<1>3. /\ committed' \in [DOMAIN topic -> Nat]
      /\ \A p \in DOMAIN topic : committed'[p] \in 0..Len(topic[p])
  <2>1. CASE committed' = [committed EXCEPT ![worker[w].part] = worker[w].offset]
    BY <1>1, <1>2, <2>1, SameStore
  <2>2. CASE committed' = committed
    BY <2>2, SameStore
  <2> QED
    BY <2>1, <2>2 DEF Commit
<1>4. \/ worker' = [worker EXCEPT ![w] = [Down EXCEPT !.pc = "idle"]]
      \/ worker' = [worker EXCEPT ![w] = Down]
  BY DEF Commit
<1>5. /\ worker' \in [Workers -> WorkerState]
      /\ \A v \in Workers \ {w} : worker'[v] = worker[v]
      /\ worker'[w].pc \in {"idle", "down"}
  BY <1>4, DownTyped, Replaced
<1>6. Handling(worker'[w], topic, records') /\ Awaiting(worker'[w], topic, txs')
  BY <1>5, ClosedTyped
<1> QED
  BY <1>3, <1>5, <1>6, TypeKept, SameStore DEF Commit, storeVars

LEMMA TypeStop ==
  ASSUME TypeInv, NEW w \in Workers, Stop(w) PROVE TypeInv'
<1>1. failures' \in 0..MaxFailures
  BY GroupAssumption, SameStore DEF Stop, Failing
<1>2. /\ worker' \in [Workers -> WorkerState]
      /\ \A v \in Workers \ {w} : worker'[v] = worker[v]
      /\ worker'[w].pc = "down"
  BY DownTyped, Replaced DEF Stop
<1>3. Handling(worker'[w], topic, records') /\ Awaiting(worker'[w], topic, txs')
  BY <1>2, ClosedTyped
<1> QED
  BY <1>1, <1>2, <1>3, TypeKept, SameStore DEF Stop, kafkaVars, storeVars

LEMMA TypeRaise ==
  ASSUME TypeInv, NEW w \in Workers, Raise(w) PROVE TypeInv'
<1>1. failures' \in 0..MaxFailures
  BY GroupAssumption, SameStore DEF Raise, Failing
<1>2. worker[w].rec # NoRecord /\ Handling(worker[w], topic, records)
  BY EventTyped DEF Raise, TypeInv
<1>3. /\ worker' \in [Workers -> WorkerState]
      /\ \A v \in Workers \ {w} : worker'[v] = worker[v]
      /\ Handling(worker'[w], topic, records') /\ Awaiting(worker'[w], topic, txs')
  BY <1>2, TypeMoves DEF Raise, storeVars
<1> QED
  BY <1>1, <1>3, TypeKept, SameStore DEF Raise, kafkaVars, storeVars

LEMMA TypeRebalance ==
  ASSUME TypeInv, NEW w \in Workers, NEW p \in DOMAIN topic, Rebalance(p, w) PROVE TypeInv'
<1>1. owner' \in [DOMAIN topic -> Workers] /\ rebalances' \in 0..MaxRebalances
  BY GroupAssumption DEF Rebalance, TypeInv, TypeOK
<1> QED
  BY <1>1 DEF Rebalance, TypeInv, TypeOK, storeVars

LEMMA TypeAnchor ==
  ASSUME TypeInv, NEW c \in Claims, NEW d \in Decision, Anchor(c, d)
  PROVE  chain' \in [Claims -> Seq(Decision)]
BY SameStore DEF Anchor

LEMMA TypeMine ==
  ASSUME TypeInv, NEW i \in DOMAIN txs, Mine(i) PROVE TypeInv'
<1>1. txs \in Seq(Transaction) /\ i \in 1..Len(txs) /\ txs[i] \in Transaction
  BY SameStore
<1>2. chain' \in [Claims -> Seq(Decision)]
  BY <1>1, TypeAnchor, SameStore DEF Mine, Transaction
<1>3. PICK r \in {"success", "reverted"} : txs' = [txs EXCEPT ![i].result = r]
  BY DEF Mine
<1>4. PICK t \in Transaction : /\ txs' = [txs EXCEPT ![i] = t] /\ t.result = r
                               /\ t.claim = txs[i].claim /\ t.decision = txs[i].decision
  <2> DEFINE t == [txs[i] EXCEPT !.result = r]
  <2>1. /\ t \in Transaction /\ t.result = r
        /\ t.claim = txs[i].claim /\ t.decision = txs[i].decision
    BY <1>1 DEF Transaction
  <2>2. txs' = [txs EXCEPT ![i] = t]
    BY <1>1, <1>3
  <2> QED
    BY <2>1, <2>2
<1>5. /\ txs' \in Seq(Transaction) /\ Len(txs') = Len(txs)
      /\ \A j \in 1..Len(txs) : /\ txs'[j].claim = txs[j].claim
                                /\ txs'[j].decision = txs[j].decision
  BY <1>1, <1>4
<1>6. \A v \in Workers : Awaiting(worker[v], topic, txs')
  BY <1>5 DEF Awaiting, TypeInv
<1>7. UNCHANGED <<valid, topic, committed, owner, records, deadLetters, worker, failures, rebalances>>
  BY DEF Mine, kafkaVars, storeVars
<1>8. TypeOK'
  BY <1>2, <1>5, <1>7 DEF TypeInv, TypeOK, Transaction
<1> QED
  BY <1>6, <1>7, <1>8 DEF TypeInv

LEMMA TypeHumanAssess ==
  ASSUME TypeInv, NEW c \in Claims, NEW d \in HumanDecisions, HumanAssess(c, d) PROVE TypeInv'
<1>1. chain' \in [Claims -> Seq(Decision)]
  BY TypeAnchor, HumanDecisionsAssumption DEF HumanAssess
<1>2. UNCHANGED <<valid, topic, committed, owner, records, deadLetters, txs, worker,
                  failures, rebalances>>
  BY DEF HumanAssess, kafkaVars, storeVars
<1> QED
  BY <1>1, <1>2 DEF TypeInv, TypeOK

LEMMA TypeStep ==
  TypeInv /\ [Next]_vars => TypeInv'
<1> SUFFICES ASSUME TypeInv, [Next]_vars PROVE TypeInv'
  OBVIOUS
<1>1. CASE UNCHANGED vars
  BY <1>1 DEF vars, kafkaVars, storeVars, TypeInv, TypeOK
<1>2. CASE Next
  BY ONLY TypeInv, <1>2, NextCases, TypeStart, TypePoll, TypeLoad, TypeScore, TypeReadChain,
     TypeSend, TypeReceipt, TypeMarkCompleted, TypeMarkFailed, TypeQuarantine, TypeCommit,
     TypeStop, TypeRaise, TypeRebalance, TypeMine, TypeHumanAssess
<1> QED
  BY <1>1, <1>2

\* The worker's invariant holds of every state: an open handler has a real
\* event, and past the scoring a record and a row with the model's decision.
THEOREM Invariance == Spec => []TypeInv
BY TypeInit, TypeStep, PTL DEF Spec

\* The group, the store, the chain and the workers keep their types: no
\* committed offset passes the end of its partition, no row is updated that
\* does not exist, and every anchored decision has a status and a score.
THEOREM TypeCorrect == Spec => []TypeOK
<1>1. TypeInv => TypeOK
  BY DEF TypeInv
<1> QED
  BY <1>1, Invariance, PTL

-----------------------------------------------------------------------------
(* Settled events *)

\* Rows, rejections and anchors are never taken back.
Grows ==
  /\ topic' = topic
  /\ \A c \in Claims : records[c] # NoRecord => records'[c] # NoRecord
  /\ deadLetters \subseteq deadLetters'
  /\ \A c \in Claims : \A d : Holds(chain, c, d) => Holds(chain', c, d)

LEMMA AnchorGrows ==
  ASSUME TypeInv, NEW c \in Claims, NEW d \in Decision, Anchor(c, d)
  PROVE  /\ \A b \in Claims : \A e : Holds(chain, b, e) => Holds(chain', b, e)
         /\ Holds(chain', c, d)
<1>1. chain \in [Claims -> Seq(Decision)]
  BY SameStore
<1>2. chain' = [chain EXCEPT ![c] = Append(chain[c], d)]
  BY DEF Anchor
<1> DEFINE n == Len(chain[c]) + 1
<1>3. /\ chain'[c] = Append(chain[c], d) /\ chain[c] \in Seq(Decision)
      /\ \A b \in Claims \ {c} : chain'[b] = chain[b]
  BY <1>1, <1>2
<1>4. /\ DOMAIN chain'[c] = 1..n /\ chain'[c][n] = d /\ n \in 1..n
      /\ \A i \in DOMAIN chain[c] : i \in DOMAIN chain'[c] /\ chain'[c][i] = chain[c][i]
  BY <1>3
<1>5. Holds(chain', c, d)
  BY <1>4 DEF Holds
<1>6. ASSUME NEW b \in Claims, NEW e, Holds(chain, b, e) PROVE Holds(chain', b, e)
  <2>1. PICK i \in DOMAIN chain[b] : chain[b][i] = e
    BY <1>6 DEF Holds
  <2>2. i \in DOMAIN chain'[b] /\ chain'[b][i] = e
    BY <1>3, <1>4, <2>1
  <2> QED
    BY <2>2 DEF Holds
<1> QED
  BY <1>5, <1>6

LEMMA NothingRecorded ==
  UNCHANGED <<topic, records, deadLetters, chain>> => Grows
BY DEF Grows

\* While a claim has one decision, a settled event stays settled.
LEMMA SettledStays ==
  ASSUME Deterministic, TypeInv, TypeInv', Grows, NEW c \in Claims,
         SettledIn(records, deadLetters, chain, c)
  PROVE  SettledIn(records', deadLetters', chain', c)
<1>1. CASE c \in deadLetters
  BY <1>1 DEF Grows, SettledIn
<1>2. CASE records[c] # NoRecord /\ Holds(chain, c, records[c].decision)
  <2>1. records'[c] # NoRecord
    BY <1>2 DEF Grows
  <2>2. records[c].decision \in Outputs[c] /\ records'[c].decision \in Outputs[c]
    BY <1>2, <2>1 DEF TypeInv
  <2>3. records'[c].decision = records[c].decision
    BY <2>2 DEF Deterministic
  <2> QED
    BY <1>2, <2>1, <2>3 DEF Grows, SettledIn
<1> QED
  BY <1>1, <1>2 DEF SettledIn

\* The parts of the invariant a step may leave alone.
LEMMA Carried ==
  ASSUME Deterministic, TypeInv, TypeInv', SettledInv, Grows
  PROVE  /\ committed' = committed =>
              \A p \in DOMAIN topic : \A o \in 1..committed'[p] :
                SettledIn(records', deadLetters', chain', topic[p][o])
         /\ records' = records =>
              \A c \in Claims : Completed(records'[c]) =>
                Holds(chain', c, records'[c].decision)
         /\ txs' = txs => SuccessAnchored'
         /\ \A v \in Workers : worker'[v] = worker[v] =>
              Finishing(worker'[v], topic, records', deadLetters', chain')
         /\ \A v \in Workers : worker[v].pc \notin {"down", "idle"} =>
              \A o \in 1..(worker[v].offset - 1) :
                SettledIn(records', deadLetters', chain', topic[worker[v].part][o])
<1>1. topic \in Seq(Seq(Claims))
  BY GroupAssumption DEF TypeInv, TypeOK
<1>2. ASSUME NEW p \in DOMAIN topic, NEW o \in 1..committed[p]
      PROVE  SettledIn(records', deadLetters', chain', topic[p][o])
  <2>1. topic[p][o] \in Claims
    BY <1>1, SameStore
  <2> QED
    BY <2>1, SettledStays DEF SettledInv
<1>3. ASSUME NEW c \in Claims, Completed(records[c])
      PROVE  Holds(chain', c, records[c].decision)
  BY <1>3 DEF SettledInv, Grows
<1>4. ASSUME NEW i \in 1..Len(txs), txs[i].result = "success"
      PROVE  Holds(chain', txs[i].claim, txs[i].decision)
  <2>0. txs[i] \in Transaction
    BY SameStore
  <2>1. txs[i].claim \in Claims
    BY <2>0 DEF Transaction
  <2> QED
    BY <1>4, <2>1 DEF SettledInv, SuccessAnchored, Grows
<1>5. ASSUME NEW v \in Workers, worker[v].pc \notin {"down", "idle"},
             NEW o \in 1..(worker[v].offset - 1)
      PROVE  SettledIn(records', deadLetters', chain', topic[worker[v].part][o])
  <2>1. /\ worker[v].part \in DOMAIN topic
        /\ worker[v].offset \in 1..Len(topic[worker[v].part])
    BY <1>5, EventTyped
  <2>2. topic[worker[v].part][o] \in Claims
    BY <1>1, <2>1
  <2> QED
    BY <1>5, <2>2, SettledStays DEF SettledInv, Finishing
<1>6. ASSUME NEW v \in Workers
      PROVE  Finishing(worker[v], topic, records', deadLetters', chain')
  <2>1. Finishing(worker[v], topic, records, deadLetters, chain)
    BY DEF SettledInv
  <2>2. worker[v].pc \in {"complete", "commit"} => Event(v) \in Claims
    BY EventTyped
  <2>3. worker[v].pc = "complete" => Holds(chain', Event(v), worker[v].rec.decision)
    BY <2>1, <2>2 DEF Finishing, Grows, Event
  <2>4. worker[v].pc = "commit" => SettledIn(records', deadLetters', chain', Event(v))
    BY <2>1, <2>2, SettledStays DEF Finishing, Event
  <2> QED
    BY <1>5, <2>3, <2>4 DEF Finishing, Event
<1> QED
  BY <1>2, <1>3, <1>4, <1>5, <1>6 DEF SuccessAnchored

\* The parts, put together.
LEMMA Assembled ==
  ASSUME TypeInv, topic' = topic, NEW w \in Workers,
         \A p \in DOMAIN topic : \A o \in 1..committed'[p] :
           SettledIn(records', deadLetters', chain', topic[p][o]),
         \A c \in Claims : Completed(records'[c]) => Holds(chain', c, records'[c].decision),
         SuccessAnchored',
         \A v \in Workers \ {w} : Finishing(worker'[v], topic, records', deadLetters', chain'),
         Finishing(worker'[w], topic, records', deadLetters', chain')
  PROVE  SettledInv'
BY DEF SettledInv

\* A step that records nothing: what is left is the member's own handler.
LEMMA OnlyHandler ==
  ASSUME Deterministic, TypeInv, TypeInv', SettledInv, NEW w \in Workers,
         UNCHANGED <<topic, records, deadLetters, chain, txs, committed>>,
         \A v \in Workers \ {w} : worker'[v] = worker[v],
         Finishing(worker'[w], topic, records', deadLetters', chain')
  PROVE  SettledInv'
<1>1. Grows
  BY NothingRecorded
<1> QED
  BY <1>1, Carried, Assembled

\* A handler that is closed, or still between its first and its last step.
LEMMA MidHandler ==
  ASSUME Deterministic, TypeInv, TypeInv', SettledInv, Grows, NEW w \in Workers,
         \/ worker'[w].pc \in {"down", "idle"}
         \/ /\ worker[w].pc \notin {"down", "idle"}
            /\ worker'[w].pc \notin {"complete", "commit"}
            /\ worker'[w].part = worker[w].part /\ worker'[w].offset = worker[w].offset
  PROVE  Finishing(worker'[w], topic, records', deadLetters', chain')
BY Carried DEF Finishing

\* What every step of one handler may use.
LEMMA HandlerFields ==
  ASSUME TypeInv, NEW w \in Workers
  PROVE  /\ worker \in [Workers -> WorkerState] /\ worker[w] \in WorkerState
         /\ \A q : Goto(w, q) =>
              /\ \A v \in Workers \ {w} : worker'[v] = worker[v]
              /\ worker'[w].pc = q /\ worker'[w].part = worker[w].part
              /\ worker'[w].offset = worker[w].offset
              /\ worker'[w].rec = worker[w].rec
<1>1. worker \in [Workers -> WorkerState]
  BY DEF TypeInv, TypeOK, WorkerState
<1>2. worker[w] \in WorkerState
  BY <1>1
<1>3. ASSUME NEW q, Goto(w, q)
      PROVE  /\ \A v \in Workers \ {w} : worker'[v] = worker[v]
             /\ worker'[w].pc = q /\ worker'[w].part = worker[w].part
             /\ worker'[w].offset = worker[w].offset
             /\ worker'[w].rec = worker[w].rec
  <2> DEFINE e == [worker[w] EXCEPT !.pc = q]
  <2>1. worker'[w] = e /\ \A v \in Workers \ {w} : worker'[v] = worker[v]
    BY <1>1, <1>3 DEF Goto
  <2>2. /\ e.pc = q /\ e.part = worker[w].part
        /\ e.offset = worker[w].offset /\ e.rec = worker[w].rec
    BY <1>2 DEF WorkerState
  <2> QED
    BY <2>1, <2>2
<1> QED
  BY <1>1, <1>2, <1>3

LEMMA SettledStart ==
  ASSUME Deterministic, TypeInv, TypeInv', SettledInv, NEW w \in Workers, Start(w)
  PROVE  SettledInv'
<1>1. UNCHANGED <<topic, records, deadLetters, chain, txs, committed>>
  BY DEF Start, kafkaVars, storeVars
<1>2. worker'[w].pc = "idle" /\ \A v \in Workers \ {w} : worker'[v] = worker[v]
  BY HandlerFields DEF Start
<1> QED
  BY <1>1, <1>2, NothingRecorded, MidHandler, OnlyHandler

LEMMA SettledPoll ==
  ASSUME Deterministic, TypeInv, TypeInv', SettledInv, NEW w \in Workers,
         NEW p \in DOMAIN topic, Poll(w, p)
  PROVE  SettledInv'
<1> DEFINE o == committed[p] + 1
           e == [Down EXCEPT !.pc = "load", !.part = p, !.offset = o]
<1>1. UNCHANGED <<topic, records, deadLetters, chain, txs, committed>>
  BY DEF Poll, kafkaVars, storeVars
<1>2. worker' = [worker EXCEPT ![w] = e] /\ worker \in [Workers -> WorkerState]
  BY HandlerFields DEF Poll
<1>3. o - 1 = committed[p]
  BY SameStore
<1> HIDE DEF o
<1>4. e.pc = "load" /\ e.part = p /\ e.offset = o
  BY DEF Down
<1> HIDE DEF e
<1>5. worker'[w] = e /\ \A v \in Workers \ {w} : worker'[v] = worker[v]
  BY <1>2
<1>6. \A k \in 1..(o - 1) : SettledIn(records', deadLetters', chain', topic[p][k])
  BY <1>1, <1>3 DEF SettledInv
<1>7. Finishing(worker'[w], topic, records', deadLetters', chain')
  BY <1>4, <1>5, <1>6 DEF Finishing
<1> QED
  BY <1>1, <1>5, <1>7, OnlyHandler

\* A row found completed is settled already.
LEMMA SettledLoad ==
  ASSUME Deterministic, TypeInv, TypeInv', SettledInv, NEW w \in Workers, Load(w)
  PROVE  SettledInv'
<1> DEFINE q == CASE Completed(records[Event(w)]) -> "commit"
                  [] ~Completed(records[Event(w)]) /\ ~Authorized(Event(w)) -> "quarantine"
                  [] OTHER -> "score"
           e == [worker[w] EXCEPT !.rec = records[Event(w)], !.pc = q]
<1>1. UNCHANGED <<topic, records, deadLetters, chain, txs, committed>>
  BY DEF Load, kafkaVars, storeVars
<1>2. worker[w].pc = "load" /\ Event(w) \in Claims
  BY EventTyped DEF Load
<1>3. worker' = [worker EXCEPT ![w] = e]
  BY HandlerFields DEF Load
<1>4. /\ q \in {"commit", "quarantine", "score"}
      /\ q = "commit" => Completed(records[Event(w)])
  OBVIOUS
<1> HIDE DEF q
<1>5. e.pc = q /\ e.part = worker[w].part /\ e.offset = worker[w].offset
  BY HandlerFields DEF WorkerState
<1> HIDE DEF e
<1>6. worker'[w] = e /\ \A v \in Workers \ {w} : worker'[v] = worker[v]
  BY <1>3, HandlerFields
<1>7. q = "commit" => SettledIn(records', deadLetters', chain', Event(w))
  BY <1>1, <1>2, <1>4 DEF SettledInv, SettledIn, Completed
<1>8. \A k \in 1..(worker[w].offset - 1) :
        SettledIn(records', deadLetters', chain', topic[worker[w].part][k])
  BY <1>1, <1>2, NothingRecorded, Carried
<1>9. Finishing(worker'[w], topic, records', deadLetters', chain')
  BY <1>4, <1>5, <1>6, <1>7, <1>8 DEF Finishing, Event
<1> QED
  BY <1>1, <1>6, <1>9, OnlyHandler

\* A new score never replaces a completed row.
LEMMA SettledScore ==
  ASSUME Deterministic, TypeInv, TypeInv', SettledInv, NEW w \in Workers, Score(w)
  PROVE  SettledInv'
<1>1. /\ UNCHANGED <<topic, deadLetters, chain, txs, committed>>
      /\ worker[w].pc = "score" /\ Event(w) \in Claims
  BY EventTyped DEF Score, kafkaVars
<1>2. CASE Goto(w, "chain") /\ UNCHANGED records
  BY <1>1, <1>2, HandlerFields, NothingRecorded, MidHandler, OnlyHandler
<1>3. ASSUME NEW d \in Outputs[Event(w)],
             SaveScored(Event(w), [decision |-> d, tx |-> 0, state |-> "scored"]),
             worker' = [worker EXCEPT ![w].pc = "chain",
                          ![w].rec = [decision |-> d, tx |-> 0, state |-> "scored"]]
      PROVE  SettledInv'
  <2> DEFINE rec == [decision |-> d, tx |-> 0, state |-> "scored"]
             e == [worker[w] EXCEPT !.pc = "chain", !.rec = rec]
  <2>1. /\ rec.state = "scored" /\ rec \in Record
        /\ worker' = [worker EXCEPT ![w] = e]
    BY <1>1, <1>3, HandlerFields, OutputsTyped DEF Record
  <2>2. \/ records' = records
        \/ records' = [records EXCEPT ![Event(w)] = rec]
    BY <1>3 DEF SaveScored
  <2> HIDE DEF rec
  <2>3. e.pc = "chain" /\ e.part = worker[w].part /\ e.offset = worker[w].offset
    BY HandlerFields DEF WorkerState
  <2> HIDE DEF e
  <2>4. worker'[w] = e /\ \A v \in Workers \ {w} : worker'[v] = worker[v]
    BY <2>1, HandlerFields
  <2>5. Grows
    BY <1>1, <2>1, <2>2, SameStore, GroupAssumption DEF Grows
  <2>6. ASSUME NEW c \in Claims, Completed(records'[c])
        PROVE  Holds(chain', c, records'[c].decision)
    <3>1. records'[c] = records[c]
      BY <1>1, <2>1, <2>2, <2>6, SameStore DEF Completed
    <3> QED
      BY <1>1, <2>6, <3>1 DEF SettledInv
  <2>7. Finishing(worker'[w], topic, records', deadLetters', chain')
    BY <1>1, <2>3, <2>4, <2>5, MidHandler
  <2> QED
    BY <1>1, <2>4, <2>5, <2>6, <2>7, Carried, Assembled
<1> QED
  BY <1>2, <1>3 DEF Score

\* A matching assessment on the contract is this claim's decision.
LEMMA SettledReadChain ==
  ASSUME Deterministic, TypeInv, TypeInv', SettledInv, NEW w \in Workers, ReadChain(w)
  PROVE  SettledInv'
<1> DEFINE c == Event(w)
           d == worker[w].rec.decision
           matching == chain[c] # <<>> /\ chain[c][Len(chain[c])] = d
           q == IF Status(c) = "Submitted" THEN "send"
                ELSE IF matching THEN "complete" ELSE "conflict"
           e == [worker[w] EXCEPT !.tx = worker[w].rec.tx, !.pc = q]
<1>1. /\ UNCHANGED <<topic, records, deadLetters, chain, txs, committed>>
      /\ worker[w].pc = "chain" /\ c \in Claims
  BY EventTyped DEF ReadChain, kafkaVars, storeVars
<1>2. worker' = [worker EXCEPT ![w] = e]
  BY <1>1, HandlerFields DEF ReadChain
<1>3. q \in {"send", "complete", "conflict"} /\ (q = "complete" => matching)
  OBVIOUS
<1> HIDE DEF q
<1>4. /\ e.pc = q /\ e.part = worker[w].part /\ e.offset = worker[w].offset
      /\ e.rec = worker[w].rec
  BY HandlerFields DEF WorkerState
<1> HIDE DEF e
<1>5. worker'[w] = e /\ \A v \in Workers \ {w} : worker'[v] = worker[v]
  BY <1>2, HandlerFields
<1>6. matching => Holds(chain, c, d)
  <2>1. chain[c] \in Seq(Decision)
    BY <1>1, SameStore
  <2>2. chain[c] # <<>> => Len(chain[c]) \in DOMAIN chain[c]
    BY <2>1
  <2> QED
    BY <2>2 DEF Holds
<1>7. \A k \in 1..(worker[w].offset - 1) :
        SettledIn(records', deadLetters', chain', topic[worker[w].part][k])
  BY <1>1, NothingRecorded, Carried
<1>8. Finishing(worker'[w], topic, records', deadLetters', chain')
  BY <1>1, <1>3, <1>4, <1>5, <1>6, <1>7 DEF Finishing, Event
<1> QED
  BY <1>1, <1>5, <1>8, OnlyHandler

\* What is broadcast is pending, so nothing is anchored by it yet.
LEMMA SettledSend ==
  ASSUME Deterministic, TypeInv, TypeInv', SettledInv, NEW w \in Workers, Send(w)
  PROVE  SettledInv'
<1>1. /\ UNCHANGED <<topic, records, deadLetters, chain, committed>>
      /\ worker[w].pc = "send" /\ Event(w) \in Claims
  BY EventTyped DEF Send, kafkaVars, storeVars
<1>2. CASE Goto(w, "failed") /\ UNCHANGED txs
  BY <1>1, <1>2, HandlerFields, NothingRecorded, MidHandler, OnlyHandler
<1>3. CASE /\ txs' = Append(txs, [claim |-> Event(w), decision |-> worker[w].rec.decision,
                                 result |-> "pending"])
           /\ worker' = [worker EXCEPT ![w].pc = "wait", ![w].tx = Len(txs) + 1]
  <2> DEFINE t == [claim |-> Event(w), decision |-> worker[w].rec.decision,
                   result |-> "pending"]
             n == Len(txs) + 1
             e == [worker[w] EXCEPT !.pc = "wait", !.tx = n]
  <2>1. txs' = Append(txs, t) /\ t.result = "pending" /\ txs \in Seq(Transaction)
    BY <1>3, SameStore
  <2>2. worker' = [worker EXCEPT ![w] = e]
    BY <1>3, HandlerFields
  <2> HIDE DEF t
  <2>3. /\ Len(txs') = n /\ txs'[n] = t
        /\ \A i \in 1..n : i # n => i \in 1..Len(txs) /\ txs'[i] = txs[i]
    BY <2>1
  <2> HIDE DEF n
  <2>4. /\ e.pc = "wait" /\ e.part = worker[w].part /\ e.offset = worker[w].offset
    BY HandlerFields DEF WorkerState
  <2> HIDE DEF e
  <2>5. worker'[w] = e /\ \A v \in Workers \ {w} : worker'[v] = worker[v]
    BY <2>2, HandlerFields
  <2>6. SuccessAnchored'
    BY <1>1, <2>1, <2>3 DEF SettledInv, SuccessAnchored
  <2>7. Finishing(worker'[w], topic, records', deadLetters', chain')
    BY <1>1, <2>4, <2>5, NothingRecorded, MidHandler
  <2> QED
    BY <1>1, <2>5, <2>6, <2>7, NothingRecorded, Carried, Assembled
<1> QED
  BY <1>2, <1>3 DEF Send

\* A successful receipt is for the handler's own transaction.
LEMMA SettledReceipt ==
  ASSUME Deterministic, TypeInv, TypeInv', SettledInv, NEW w \in Workers, Receipt(w)
  PROVE  SettledInv'
<1>1. /\ UNCHANGED <<topic, records, deadLetters, chain, txs, committed>>
      /\ worker[w].pc = "wait" /\ Event(w) \in Claims
  BY EventTyped DEF Receipt, kafkaVars, storeVars
<1>2. \/ Goto(w, "complete") /\ txs[worker[w].tx].result = "success"
      \/ Goto(w, "failed")
  BY DEF Receipt
<1>3. \/ worker'[w].pc = "complete" /\ txs[worker[w].tx].result = "success"
      \/ worker'[w].pc = "failed"
  BY <1>2, HandlerFields
<1>4. /\ worker'[w].part = worker[w].part /\ worker'[w].offset = worker[w].offset
      /\ worker'[w].rec = worker[w].rec
      /\ \A v \in Workers \ {w} : worker'[v] = worker[v]
  BY <1>2, HandlerFields
<1>5. Awaiting(worker[w], topic, txs)
  BY DEF TypeInv
<1>6. txs[worker[w].tx].result = "success" => Holds(chain, Event(w), worker[w].rec.decision)
  BY <1>1, <1>5 DEF SettledInv, SuccessAnchored, Awaiting, Event
<1>7. \A k \in 1..(worker[w].offset - 1) :
        SettledIn(records', deadLetters', chain', topic[worker[w].part][k])
  BY <1>1, NothingRecorded, Carried
<1>8. Finishing(worker'[w], topic, records', deadLetters', chain')
  BY <1>1, <1>3, <1>4, <1>6, <1>7 DEF Finishing, Event
<1> QED
  BY <1>1, <1>4, <1>8, OnlyHandler

\* A row is completed with the decision that the handler found anchored.
LEMMA SettledMarkCompleted ==
  ASSUME Deterministic, TypeInv, TypeInv', SettledInv, NEW w \in Workers, MarkCompleted(w)
  PROVE  SettledInv'
<1> DEFINE c == Event(w)
<1>1. /\ UNCHANGED <<topic, deadLetters, chain, txs, committed>>
      /\ worker[w].pc = "complete" /\ c \in Claims
      /\ worker[w].rec.decision \in Outputs[c] /\ records[c] # NoRecord
  BY EventTyped DEF MarkCompleted, kafkaVars
<1>2. /\ \A b \in Claims : records[b] # NoRecord => /\ records'[b] # NoRecord
                                                    /\ records'[b].decision = records[b].decision
      /\ \A b \in Claims \ {c} : records'[b] = records[b]
  <2>1. records' = [records EXCEPT ![c].state = "completed", ![c].tx = worker[w].tx]
    BY DEF MarkCompleted
  <2>2. worker[w].tx \in Nat
    BY DEF TypeInv, TypeOK
  <2> QED
    BY <1>1, <2>1, <2>2, RowTyped
<1>3. Grows
  BY <1>1, <1>2 DEF Grows
<1>4. records'[c].decision = worker[w].rec.decision
  BY <1>1, <1>2, SameStore DEF Deterministic
<1>5. Holds(chain', c, records'[c].decision)
  BY <1>1, <1>4 DEF SettledInv, Finishing, Event
<1>6. \A b \in Claims : Completed(records'[b]) => Holds(chain', b, records'[b].decision)
  BY <1>1, <1>2, <1>5 DEF SettledInv
<1>7. /\ worker'[w].pc = "commit" /\ worker'[w].part = worker[w].part
      /\ worker'[w].offset = worker[w].offset
      /\ \A v \in Workers \ {w} : worker'[v] = worker[v]
  BY HandlerFields DEF MarkCompleted
<1>8. SettledIn(records', deadLetters', chain', c)
  BY <1>1, <1>2, <1>5 DEF SettledIn
<1>9. Finishing(worker'[w], topic, records', deadLetters', chain')
  BY <1>1, <1>3, <1>7, <1>8, Carried DEF Finishing, Event
<1> QED
  BY <1>1, <1>3, <1>6, <1>7, <1>9, Carried, Assembled

\* Marking a row failed claims nothing of the contract.
LEMMA SettledMarkFailed ==
  ASSUME Deterministic, TypeInv, TypeInv', SettledInv, NEW w \in Workers, MarkFailed(w)
  PROVE  SettledInv'
<1> DEFINE c == Event(w)
<1>1. /\ UNCHANGED <<topic, deadLetters, chain, txs, committed>>
      /\ worker[w].pc \in {"failed", "conflict"} /\ c \in Claims /\ records[c] # NoRecord
  BY EventTyped DEF MarkFailed, kafkaVars
<1>2. /\ \A b \in Claims : records[b] # NoRecord => records'[b] # NoRecord
      /\ \A b \in Claims \ {c} : records'[b] = records[b]
      /\ records'[c].state = "failed"
  BY <1>1, RowTyped DEF MarkFailed
<1>3. Grows
  BY <1>1, <1>2 DEF Grows
<1>4. \A b \in Claims : Completed(records'[b]) => Holds(chain', b, records'[b].decision)
  BY <1>1, <1>2 DEF SettledInv, Completed
<1>5. /\ \A v \in Workers \ {w} : worker'[v] = worker[v]
      /\ \/ worker'[w].pc = "down"
         \/ /\ worker'[w].pc = "quarantine" /\ worker'[w].part = worker[w].part
            /\ worker'[w].offset = worker[w].offset
  <2>1. CASE Goto(w, "quarantine")
    BY <2>1, HandlerFields
  <2>2. CASE worker' = [worker EXCEPT ![w] = Down]
    BY <2>2, DownTyped, Replaced
  <2> QED
    BY <2>1, <2>2 DEF MarkFailed
<1>6. Finishing(worker'[w], topic, records', deadLetters', chain')
  BY <1>1, <1>3, <1>5, MidHandler
<1> QED
  BY <1>1, <1>3, <1>4, <1>5, <1>6, Carried, Assembled

\* The rejection is on record before the handler returns.
LEMMA SettledQuarantine ==
  ASSUME Deterministic, TypeInv, TypeInv', SettledInv, NEW w \in Workers, Quarantine(w)
  PROVE  SettledInv'
<1>1. /\ UNCHANGED <<topic, records, chain, txs, committed>>
      /\ worker[w].pc = "quarantine" /\ deadLetters' = deadLetters \cup {Event(w)}
  BY DEF Quarantine, kafkaVars
<1>2. Grows
  BY <1>1 DEF Grows
<1>3. /\ worker'[w].pc = "commit" /\ worker'[w].part = worker[w].part
      /\ worker'[w].offset = worker[w].offset
      /\ \A v \in Workers \ {w} : worker'[v] = worker[v]
  BY HandlerFields DEF Quarantine
<1>4. SettledIn(records', deadLetters', chain', Event(w))
  BY <1>1 DEF SettledIn
<1>5. Finishing(worker'[w], topic, records', deadLetters', chain')
  BY <1>1, <1>2, <1>3, <1>4, Carried DEF Finishing, Event
<1> QED
  BY <1>1, <1>2, <1>3, <1>5, Carried, Assembled

\* The offset that is committed, whichever member commits it and whatever the
\* group's offset was, has only settled events before it.
LEMMA SettledCommit ==
  ASSUME Deterministic, TypeInv, TypeInv', SettledInv, NEW w \in Workers, Commit(w)
  PROVE  SettledInv'
<1>1. /\ UNCHANGED <<topic, records, deadLetters, chain, txs>>
      /\ worker[w].pc = "commit" /\ worker[w].part \in DOMAIN topic
      /\ worker[w].offset \in 1..Len(topic[worker[w].part])
  BY EventTyped DEF Commit, storeVars
<1>2. /\ worker'[w].pc \in {"down", "idle"}
      /\ \A v \in Workers \ {w} : worker'[v] = worker[v]
  BY DownTyped, Replaced DEF Commit
<1>3. \A o \in 1..worker[w].offset :
        SettledIn(records', deadLetters', chain', topic[worker[w].part][o])
  <2> SUFFICES ASSUME NEW o \in 1..worker[w].offset
               PROVE  SettledIn(records', deadLetters', chain', topic[worker[w].part][o])
    OBVIOUS
  <2>1. topic \in Seq(Seq(Claims)) /\ worker[w].offset \in Nat
    BY <1>1, GroupAssumption DEF TypeInv, TypeOK
  <2>2. o = worker[w].offset \/ o \in 1..(worker[w].offset - 1)
    BY <2>1
  <2> QED
    BY <1>1, <2>2 DEF SettledInv, Finishing
<1>4. \A p \in DOMAIN topic : \A o \in 1..committed'[p] :
        SettledIn(records', deadLetters', chain', topic[p][o])
  <2>1. CASE committed' = [committed EXCEPT ![worker[w].part] = worker[w].offset]
    <3>1. /\ committed'[worker[w].part] = worker[w].offset
          /\ \A p \in DOMAIN topic \ {worker[w].part} : committed'[p] = committed[p]
      BY <1>1, <2>1, SameStore
    <3> QED
      BY <1>1, <1>3, <3>1 DEF SettledInv
  <2>2. CASE committed' = committed
    BY <1>1, <2>2 DEF SettledInv
  <2> QED
    BY <2>1, <2>2 DEF Commit
<1>5. Grows
  BY <1>1, NothingRecorded
<1>6. Finishing(worker'[w], topic, records', deadLetters', chain')
  BY <1>2, <1>5, MidHandler
<1> QED
  BY <1>1, <1>2, <1>4, <1>5, <1>6, Carried, Assembled

LEMMA SettledStop ==
  ASSUME Deterministic, TypeInv, TypeInv', SettledInv, NEW w \in Workers, Stop(w)
  PROVE  SettledInv'
<1>1. UNCHANGED <<topic, records, deadLetters, chain, txs, committed>>
  BY DEF Stop, kafkaVars, storeVars
<1>2. worker'[w].pc = "down" /\ \A v \in Workers \ {w} : worker'[v] = worker[v]
  BY DownTyped, Replaced DEF Stop
<1> QED
  BY <1>1, <1>2, NothingRecorded, MidHandler, OnlyHandler

LEMMA SettledRaise ==
  ASSUME Deterministic, TypeInv, TypeInv', SettledInv, NEW w \in Workers, Raise(w)
  PROVE  SettledInv'
<1>1. /\ UNCHANGED <<topic, records, deadLetters, chain, txs, committed>>
      /\ worker[w].pc \in {"chain", "send", "wait", "complete"}
  BY DEF Raise, kafkaVars, storeVars
<1>2. /\ worker'[w].pc = "failed" /\ worker'[w].part = worker[w].part
      /\ worker'[w].offset = worker[w].offset
      /\ \A v \in Workers \ {w} : worker'[v] = worker[v]
  BY HandlerFields DEF Raise
<1> QED
  BY <1>1, <1>2, NothingRecorded, MidHandler, OnlyHandler

\* A step in which no worker takes part and only the contract changes.
LEMMA SettledOutside ==
  ASSUME Deterministic, TypeInv, TypeInv', SettledInv, Grows,
         UNCHANGED <<topic, records, deadLetters, worker, committed>>,
         SuccessAnchored'
  PROVE  SettledInv'
BY Carried DEF SettledInv

LEMMA SettledRebalance ==
  ASSUME Deterministic, TypeInv, TypeInv', SettledInv, NEW w \in Workers,
         NEW p \in DOMAIN topic, Rebalance(p, w)
  PROVE  SettledInv'
<1>1. UNCHANGED <<topic, records, deadLetters, chain, txs, worker, committed>>
  BY DEF Rebalance, storeVars
<1> QED
  BY <1>1, NothingRecorded, Carried, SettledOutside

\* The receipt of a transaction leaves the others, and its contents, alone.
LEMMA Receipted ==
  ASSUME TypeInv, NEW i \in 1..Len(txs), NEW res, txs' = [txs EXCEPT ![i].result = res]
  PROVE  /\ Len(txs') = Len(txs) /\ txs'[i].result = res
         /\ \A j \in 1..Len(txs) : j # i => txs'[j] = txs[j]
         /\ txs'[i].claim = txs[i].claim /\ txs'[i].decision = txs[i].decision
<1> DEFINE t == [txs[i] EXCEPT !.result = res]
<1>1. txs \in Seq(Transaction) /\ txs[i] \in Transaction
  BY SameStore
<1>2. txs' = [txs EXCEPT ![i] = t]
  BY <1>1
<1>3. t.result = res /\ t.claim = txs[i].claim /\ t.decision = txs[i].decision
  BY <1>1 DEF Transaction
<1> HIDE DEF t
<1>4. Len(txs') = Len(txs) /\ txs'[i] = t /\ \A j \in 1..Len(txs) : j # i => txs'[j] = txs[j]
  BY <1>1, <1>2
<1> QED
  BY <1>3, <1>4

LEMMA SettledMine ==
  ASSUME Deterministic, TypeInv, TypeInv', SettledInv, NEW i \in DOMAIN txs, Mine(i)
  PROVE  SettledInv'
<1>1. UNCHANGED <<topic, records, deadLetters, worker, committed>>
  BY DEF Mine, kafkaVars, storeVars
<1>2. txs \in Seq(Transaction) /\ i \in 1..Len(txs) /\ txs[i] \in Transaction
  BY SameStore
<1>3. txs[i].claim \in Claims /\ txs[i].decision \in Decision
  BY <1>2 DEF Transaction
<1>4. CASE /\ Anchor(txs[i].claim, txs[i].decision)
           /\ txs' = [txs EXCEPT ![i].result = "success"]
  <2>1. /\ \A b \in Claims : \A e : Holds(chain, b, e) => Holds(chain', b, e)
        /\ Holds(chain', txs[i].claim, txs[i].decision)
    BY <1>3, <1>4, AnchorGrows
  <2>2. Grows
    BY <1>1, <2>1 DEF Grows
  <2>5. /\ Len(txs') = Len(txs)
        /\ \A j \in 1..Len(txs) : j # i => txs'[j] = txs[j]
        /\ txs'[i].claim = txs[i].claim /\ txs'[i].decision = txs[i].decision
    BY <1>2, <1>4, Receipted
  <2>6. \A j \in 1..Len(txs) : txs[j].claim \in Claims
    <3>1. \A j \in 1..Len(txs) : txs[j] \in Transaction
      BY <1>2
    <3> QED
      BY <3>1 DEF Transaction
  <2>7. SuccessAnchored'
    BY <2>1, <2>5, <2>6 DEF SettledInv, SuccessAnchored
  <2> QED
    BY <1>1, <2>2, <2>7, SettledOutside
<1>5. CASE txs' = [txs EXCEPT ![i].result = "reverted"] /\ UNCHANGED chain
  <2>1. Grows
    BY <1>1, <1>5, NothingRecorded
  <2>4. /\ Len(txs') = Len(txs) /\ txs'[i].result = "reverted"
        /\ \A j \in 1..Len(txs) : j # i => txs'[j] = txs[j]
    BY <1>2, <1>5, Receipted
  <2>5. SuccessAnchored'
    BY <1>5, <2>4 DEF SettledInv, SuccessAnchored
  <2> QED
    BY <1>1, <2>1, <2>5, SettledOutside
<1> QED
  BY <1>4, <1>5 DEF Mine

LEMMA SettledHumanAssess ==
  ASSUME Deterministic, TypeInv, TypeInv', SettledInv, NEW c \in Claims,
         NEW d \in HumanDecisions, HumanAssess(c, d)
  PROVE  SettledInv'
<1>1. UNCHANGED <<topic, records, deadLetters, worker, committed, txs>>
  BY DEF HumanAssess, kafkaVars, storeVars
<1>2. \A b \in Claims : \A e : Holds(chain, b, e) => Holds(chain', b, e)
  BY AnchorGrows, HumanDecisionsAssumption DEF HumanAssess
<1>3. Grows
  BY <1>1, <1>2 DEF Grows
<1> QED
  BY <1>1, <1>3, Carried, SettledOutside

LEMMA SettledInit ==
  Init => SettledInv
<1> SUFFICES ASSUME Init PROVE SettledInv
  OBVIOUS
<1>1. \A w \in Workers : worker[w].pc = "down"
  BY DownTyped DEF Init
<1>2. \A w \in Workers : Finishing(worker[w], topic, records, deadLetters, chain)
  BY <1>1 DEF Finishing
<1>3. \A p \in DOMAIN topic : 1..committed[p] = {}
  BY DEF Init
<1>4. SuccessAnchored /\ \A c \in Claims : ~Completed(records[c])
  BY DEF Init, SuccessAnchored, Completed
<1> QED
  BY <1>2, <1>3, <1>4 DEF SettledInv

LEMMA SettledStep ==
  ASSUME Deterministic
  PROVE  TypeInv /\ SettledInv /\ [Next]_vars => SettledInv'
<1> SUFFICES ASSUME TypeInv, SettledInv, [Next]_vars PROVE SettledInv'
  OBVIOUS
<1>1. TypeInv'
  BY TypeStep
<1>2. CASE UNCHANGED vars
  BY <1>2 DEF vars, kafkaVars, storeVars, SettledInv, SuccessAnchored
<1>3. CASE Next
  BY ONLY Deterministic, TypeInv, <1>1, SettledInv, <1>3, NextCases, SettledStart, SettledPoll,
     SettledLoad, SettledScore, SettledReadChain, SettledSend, SettledReceipt,
     SettledMarkCompleted, SettledMarkFailed, SettledQuarantine, SettledCommit,
     SettledStop, SettledRaise, SettledRebalance, SettledMine, SettledHumanAssess
<1> QED
  BY <1>2, <1>3

\* The invariant behind both results: what comes before an open handler's
\* event is settled, and a handler that is about to complete a row or commit an
\* offset has found its decision anchored or its rejection recorded.
THEOREM SettledInvariance ==
  ASSUME Deterministic
  PROVE  Spec => []SettledInv
<1>1. TypeInv /\ SettledInv /\ [Next]_vars => SettledInv'
  BY SettledStep
<1> QED
  BY <1>1, SettledInit, Invariance, PTL DEF Spec

\* While a model artifact gives each claim one decision, no crash, failed
\* receipt, rebalance or late commit lets the group pass an event that is
\* neither rejected on record nor assessed on the contract as stored.
THEOREM NoEventSkipped ==
  ASSUME Deterministic
  PROVE  Spec => []CommittedSettled
<1>1. SettledInv => CommittedSettled
  BY DEF SettledInv, CommittedSettled, Settled, SettledIn, Anchored, Holds
<1> QED
  BY <1>1, SettledInvariance, PTL

\* While a model artifact gives each claim one decision, a row says completed
\* only when the contract holds the decision of the row.
THEOREM CompletedMeansAnchored ==
  ASSUME Deterministic
  PROVE  Spec => []CompletedAnchored
<1>1. SettledInv => CompletedAnchored
  BY DEF SettledInv, CompletedAnchored, Anchored, Holds
<1> QED
  BY <1>1, SettledInvariance, PTL

=============================================================================
