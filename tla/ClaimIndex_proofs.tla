-------------------------- MODULE ClaimIndex_proofs --------------------------
(***************************************************************************)
(* What holds of the claim index for any number of listeners, claims and   *)
(* blocks, any confirmation depth and page of blocks, and however often a  *)
(* range fails or a listener dies.                                         *)
(***************************************************************************)
EXTENDS ClaimIndex, ChainLogs_proofs

\* Every step of the system, under its own name.
LEMMA NextCases ==
  ASSUME Next, NEW P,
         \A l \in Listeners : Start(l) => P,
         \A l \in Listeners : Poll(l) => P,
         \A l \in Listeners : FetchRange(l) => P,
         \A l \in Listeners : Drained(l) => P,
         \A l \in Listeners : HandleSubmitted(l) => P,
         \A l \in Listeners : HandleAssessed(l) => P,
         \A l \in Listeners : MissingSubmission(l) => P,
         \A l \in Listeners : Publish(l) => P,
         \A l \in Listeners : Quarantine(l) => P,
         \A l \in Listeners : FinishRange(l) => P,
         \A l \in Listeners : Fail(l) => P,
         \A l \in Listeners : PublishUnacknowledged(l) => P,
         \A l \in Listeners : Shutdown(l) => P,
         \A l \in Listeners : Crash(l) => P,
         ChainNext /\ UNCHANGED <<indexVars, listener, failures>> => P
  PROVE  P
BY DEF Next, ListenerStep, Disturb

-----------------------------------------------------------------------------
(* The invariant *)

\* What is recorded is final, and published only when it is recorded.
EventsFinal ==
  /\ \A log \in events : /\ log \in LogSet
                         /\ log.block \in startBlock..(head - Confirmations)
  /\ published \cup deadLetters \subseteq events
  /\ \A log \in published : log.content = "matching"

RowsNewest ==
  /\ \A c \in 1..MaxClaims : rows[c] # NoRow =>
       /\ rows[c] \in events /\ rows[c].claim = c
       /\ \A log \in events : log.claim = c => AtOrAfter(rows[c], log)
  /\ \A log \in events : rows[log.claim] # NoRow

\* The logs the listeners are done with.
Settled ==
  {log \in events : log.status = "Submitted" => log \in published \cup deadLetters}

\* What the listeners share, as their own states depend on it.
View == [start |-> startBlock, safe |-> head - Confirmations, logs |-> LogSet,
         events |-> events, settled |-> Settled]

\* Everything up to b is final and done with.
Claimed(v, b) ==
  /\ b < v.start \/ b <= v.safe
  /\ \A log \in v.logs : log.block \in v.start..b => log \in v.settled

\* The logs a listener still has to handle, in chain order: the others of its
\* range are settled.
TodoSound(v, todo, end) ==
  /\ end <= v.safe
  /\ \A i \in DOMAIN todo : todo[i] \in v.logs /\ todo[i].block \in v.start..end
  /\ \A i, j \in DOMAIN todo : i < j => Earlier(todo[i], todo[j])
  /\ \A log \in v.logs : log.block \in v.start..end =>
       log \in v.settled \/ \E i \in DOMAIN todo : todo[i] = log

ListenerSound(v, s) ==
  /\ s.pc # "down" => Claimed(v, s.last) /\ s.last >= v.start - 1
  /\ s.pc \in {"draining", "log", "verify"} =>
       /\ Claimed(v, s.done) /\ s.done >= v.start - 1
       /\ s.latest - Confirmations <= v.safe
  /\ s.pc \in {"log", "verify"} => s.end > s.done /\ TodoSound(v, s.todo, s.end)
  /\ s.pc = "verify" => /\ s.todo # <<>>
                        /\ s.todo[1].status = "Submitted" /\ s.todo[1] \in v.events

CheckpointSound ==
  checkpoint # NoCheckpoint => Claimed(View, checkpoint) /\ checkpoint >= startBlock

IndexInv ==
  /\ ChainInv
  /\ TypeOK
  /\ EventsFinal /\ RowsNewest /\ CheckpointSound
  /\ \A l \in Listeners : ListenerSound(View, listener[l])

-----------------------------------------------------------------------------
(* What every step keeps *)

LEMMA Typed ==
  ASSUME IndexInv
  PROVE  /\ logs \in Seq(Log) /\ LogSet \subseteq Log /\ IsFiniteSet(LogSet) /\ ChainOrdered
         /\ head \in 1..MaxHead /\ MaxHead \in Nat \ {0} /\ MaxClaims \in Nat
         /\ Confirmations \in Nat \ {0} /\ MaxBlockRange \in Nat \ {0}
         /\ startBlock \in 0..(MaxHead + 1) /\ startBlock \in StartBlocks
         /\ checkpoint \in {NoCheckpoint} \cup 0..MaxHead
         /\ NoRow \notin Log
         /\ \A log \in LogSet : log.claim \in 1..MaxClaims /\ log.block \in 1..head
<1>1. ChainInv /\ TypeOK
  BY DEF IndexInv
<1>2. logs \in Seq(Log) /\ head \in 1..MaxHead /\ ChainOrdered
  BY <1>1 DEF ChainInv, ChainTypeOK
<1>3. LogSet \subseteq Log /\ IsFiniteSet(LogSet)
  BY <1>2, LogSetTyped
<1>4. startBlock \in StartBlocks /\ checkpoint \in {NoCheckpoint} \cup 0..MaxHead
  BY <1>1 DEF TypeOK
<1>5. \A log \in LogSet : log.claim \in 1..MaxClaims /\ log.block \in 1..head
  <2> TAKE log \in LogSet
  <2>1. log.claim \in Nat \ {0} /\ log.claim <= MaxClaims
    BY <1>1, <1>3 DEF Log, ChainInv, ClaimsNumbered
  <2>2. log.block \in 1..head
    BY <1>1 DEF ChainInv, BlocksMined
  <2> QED
    BY <2>1, <2>2, BoundsAssumption
<1> QED
  BY <1>2, <1>3, <1>4, <1>5, BoundsAssumption, DepthAssumption, ListenerAssumption

\* What a listener's own record says.
State == [pc : {"down", "idle", "draining", "log", "verify"},
          last : -1..MaxHead, done : -1..MaxHead, latest : 0..MaxHead,
          end : 0..MaxHead, todo : Seq(Log)]

LEMMA ListenerTyped ==
  ASSUME IndexInv
  PROVE  /\ listener \in [Listeners -> State]
         /\ \A l \in Listeners : /\ listener[l].last \in Int /\ listener[l].done \in Int
                                 /\ listener[l].latest \in Int /\ listener[l].end \in Int
                                 /\ listener[l].todo \in Seq(Log)
                                 /\ ListenerSound(View, listener[l])
<1>1. listener \in [Listeners -> State]
  BY DEF IndexInv, TypeOK, State
<1>2. \A l \in Listeners : listener[l] \in State
  BY <1>1
<1> QED
  BY <1>1, <1>2, Typed DEF IndexInv, State

LEMMA HeadFirst ==
  ASSUME NEW todo \in Seq(Log), todo # <<>>
  PROVE  /\ Head(todo) = todo[1] /\ 1 \in DOMAIN todo /\ todo[1] \in Log
         /\ Tail(todo) \in Seq(Log)
         /\ Len(todo) \in Nat \ {0} /\ DOMAIN todo = 1..Len(todo)
         /\ DOMAIN Tail(todo) = 1..(Len(todo) - 1)
         /\ \A i \in 1..(Len(todo) - 1) : Tail(todo)[i] = todo[i + 1]
BY HeadTailProperties

\* No step forgets a record, or replaces a final log.
Kept(v, w) ==
  /\ v.start \in Nat /\ v.safe \in Int /\ w.safe \in Int
  /\ w.start = v.start /\ w.safe >= v.safe
  /\ v.events \subseteq w.events /\ v.settled \subseteq w.settled
  /\ \A log \in v.logs : log.block <= v.safe => log \in w.logs
  /\ \A log \in w.logs : log.block \in Int /\ (log \in v.logs \/ log.block > v.safe)

LEMMA ClaimedKept ==
  ASSUME NEW v, NEW w, Kept(v, w), NEW b \in Int, Claimed(v, b)
  PROVE  Claimed(w, b)
BY DEF Claimed, Kept

LEMMA TodoKept ==
  ASSUME NEW v, NEW w, Kept(v, w), NEW todo, NEW end \in Int, TodoSound(v, todo, end)
  PROVE  TodoSound(w, todo, end)
BY DEF TodoSound, Kept

\* A listener that does not move stays sound whatever the others do.
LEMMA SoundKept ==
  ASSUME NEW v, NEW w, Kept(v, w), NEW s, ListenerSound(v, s),
         s.last \in Int, s.done \in Int, s.latest \in Int, s.end \in Int
  PROVE  ListenerSound(w, s)
<1>0. v.start = w.start /\ v.safe \in Int /\ w.safe \in Int /\ v.safe <= w.safe
      /\ Confirmations \in Nat /\ v.events \subseteq w.events
  BY DepthAssumption DEF Kept
<1> QED
  BY <1>0, ClaimedKept, TodoKept DEF ListenerSound

\* A listener's step leaves the chain alone and only adds records.
LEMMA RecordsKept ==
  ASSUME IndexInv, UNCHANGED chainVars, startBlock' = startBlock,
         events \subseteq events', published \subseteq published',
         deadLetters \subseteq deadLetters'
  PROVE  Kept(View, View')
<1>1. LogSet' = LogSet /\ head' = head
  BY DEF LogSet, chainVars
<1>2. \A log \in LogSet : log.block \in Int
  BY Typed
<1>3. Settled \subseteq Settled'
  BY DEF Settled
<1>4. /\ startBlock \in Nat /\ head - Confirmations \in Int
  BY Typed
<1> QED
  BY <1>1, <1>2, <1>3, <1>4 DEF Kept, View

LEMMA ChainKept ==
  ASSUME IndexInv, ChainNext, UNCHANGED <<indexVars, listener, failures>>
  PROVE  Kept(View, View') /\ ChainInv'
<1>0. ChainInv
  BY DEF IndexInv
<1>1. ChainInv'
  BY <1>0, ChainStep
<1>2. LogSet' \subseteq Log /\ head' \in 1..MaxHead
  <2>1. ChainTypeOK'
    BY <1>1 DEF ChainInv
  <2>2. \A i \in DOMAIN logs' : logs'[i] \in Log
    BY <2>1 DEF ChainTypeOK
  <2> QED
    BY <2>1, <2>2 DEF ChainTypeOK, LogSet
<1>3. \A log \in LogSet' : log.block \in Int
  BY <1>2 DEF Log
<1>4. /\ head' >= head
      /\ \A l : l \in LogSet /\ l.block <= head - Confirmations => l \in LogSet'
      /\ \A l \in LogSet' : l \in LogSet \/ l.block > head - Confirmations
  BY <1>0, FinalKept
<1>5. Settled' = Settled /\ startBlock' = startBlock /\ events' = events
  BY DEF Settled, indexVars
<1>6. /\ startBlock \in Nat /\ head \in Int /\ head' \in Int /\ Confirmations \in Int
      /\ head' >= head
  BY <1>2, <1>4, Typed
<1>7. /\ head - Confirmations \in Int /\ head' - Confirmations \in Int
      /\ head - Confirmations <= head' - Confirmations
  <2>1. \A h \in Int : h - Confirmations \in Int
    BY <1>6
  <2>2. \A h \in Int : head <= h => head - Confirmations <= h - Confirmations
    BY <1>6
  <2> QED
    BY <1>6, <2>1, <2>2
<1>8. /\ View.start = startBlock /\ View.safe = head - Confirmations /\ View.logs = LogSet
      /\ View.events = events /\ View.settled = Settled
      /\ View'.start = startBlock' /\ View'.safe = head' - Confirmations
      /\ View'.logs = LogSet' /\ View'.events = events' /\ View'.settled = Settled'
  BY DEF View
<1>9. Kept(View, View')
  BY <1>3, <1>4, <1>5, <1>6, <1>7, <1>8 DEF Kept
<1> QED
  BY <1>1, <1>9

\* A final log recorded in either of the two ways leaves each row the newest
\* of its claim.
LEMMA RecordStep ==
  ASSUME IndexInv, NEW log \in LogSet,
         log.block \in startBlock..(head - Confirmations),
         IndexSubmitted(log) \/ IndexAssessed(log),
         UNCHANGED chainVars, startBlock' = startBlock, UNCHANGED <<published, deadLetters>>
  PROVE  /\ EventsFinal' /\ RowsNewest'
         /\ events' = events \cup {log} /\ events' \subseteq Log
         /\ rows' \in [1..MaxClaims -> Log \cup {NoRow}]
<1> DEFINE c == log.claim
<1>0. /\ LogSet \subseteq Log /\ log \in Log /\ c \in 1..MaxClaims /\ NoRow \notin Log
      /\ rows \in [1..MaxClaims -> Log \cup {NoRow}] /\ events \subseteq Log
      /\ EventsFinal /\ RowsNewest
  BY Typed DEF IndexInv, TypeOK
<1>1. LogSet' = LogSet /\ head' = head
  BY DEF LogSet, chainVars
<1>2. events' = events \cup {log}
  BY DEF IndexSubmitted, IndexAssessed
<1>3. EventsFinal'
  BY <1>0, <1>1, <1>2 DEF EventsFinal
<1>4. \/ rows' = [rows EXCEPT ![c] = log] /\ (rows[c] = NoRow \/ AtOrAfter(log, rows[c]))
      \/ rows' = rows /\ rows[c] # NoRow /\ ~AtOrAfter(log, rows[c])
  BY DEF IndexSubmitted, IndexAssessed
<1>5. rows' \in [1..MaxClaims -> Log \cup {NoRow}]
  BY <1>0, <1>4
<1>6. \A d \in 1..MaxClaims : d # c => rows'[d] = rows[d]
  BY <1>0, <1>4
<1>7. /\ rows'[c] # NoRow /\ rows'[c] \in events' /\ rows'[c].claim = c
      /\ AtOrAfter(rows'[c], log)
      /\ \A m \in events : m.claim = c => AtOrAfter(rows'[c], m)
  <2>1. CASE rows' = [rows EXCEPT ![c] = log] /\ rows[c] = NoRow
    <3>1. rows'[c] = log
      BY <1>0, <2>1
    <3>2. \A m \in events : m.claim # c
      BY <1>0, <2>1 DEF RowsNewest
    <3> QED
      BY <1>0, <1>2, <3>1, <3>2, LogOrder
  <2>2. CASE rows' = [rows EXCEPT ![c] = log] /\ rows[c] # NoRow /\ AtOrAfter(log, rows[c])
    <3>1. rows'[c] = log
      BY <1>0, <2>2
    <3>2. rows[c] \in Log /\ \A m \in events : m.claim = c => AtOrAfter(rows[c], m)
      BY <1>0, <2>2 DEF RowsNewest
    <3>3. \A m \in events : m.claim = c => AtOrAfter(log, m)
      BY <1>0, <2>2, <3>2, LogOrder
    <3> QED
      BY <1>0, <1>2, <3>1, <3>3, LogOrder
  <2>3. CASE rows' = rows /\ rows[c] # NoRow /\ ~AtOrAfter(log, rows[c])
    <3>1. /\ rows[c] \in events /\ rows[c].claim = c
          /\ \A m \in events : m.claim = c => AtOrAfter(rows[c], m)
      BY <1>0, <2>3 DEF RowsNewest
    <3>2. AtOrAfter(rows[c], log)
      BY <1>0, <2>3, <3>1, LogOrder
    <3> QED
      BY <1>2, <2>3, <3>1, <3>2
  <2> QED
    BY <1>4, <2>1, <2>2, <2>3
<1> HIDE DEF c
<1>8. log.claim = c
  BY DEF c
<1>9. RowsNewest'
  <2>1. ASSUME NEW d \in 1..MaxClaims, rows'[d] # NoRow
        PROVE  /\ rows'[d] \in events' /\ rows'[d].claim = d
               /\ \A m \in events' : m.claim = d => AtOrAfter(rows'[d], m)
    <3>1. CASE d = c
      BY <1>2, <1>7, <3>1
    <3>2. CASE d # c
      BY <1>0, <1>2, <1>6, <1>8, <2>1, <3>2 DEF RowsNewest
    <3> QED
      BY <3>1, <3>2
  <2>2. \A m \in events' : rows'[m.claim] # NoRow
    <3> SUFFICES ASSUME NEW m \in events', m.claim # c PROVE rows'[m.claim] # NoRow
      BY <1>7
    <3>1. m \in events /\ m.claim \in 1..MaxClaims
      BY <1>0, <1>2, <1>8, Typed DEF EventsFinal
    <3> QED
      BY <1>0, <1>6, <3>1 DEF RowsNewest
  <2> QED
    BY <2>1, <2>2 DEF RowsNewest, AtOrAfter
<1> QED
  BY <1>0, <1>2, <1>3, <1>5, <1>9

-----------------------------------------------------------------------------
(* The listeners stay sound *)

ListenersSound ==
  /\ listener \in [Listeners -> State]
  /\ \A l \in Listeners : ListenerSound(View, listener[l])

\* It is enough to look at the listener that moves.
LEMMA OneMoves ==
  ASSUME IndexInv, Kept(View, View'), NEW l \in Listeners, NEW s \in State,
         listener' = [listener EXCEPT ![l] = s],
         ListenerSound(View', s)
  PROVE  ListenersSound'
<1>1. listener \in [Listeners -> State]
  BY ListenerTyped
<1>2. listener' \in [Listeners -> State]
  BY <1>1
<1>3. ASSUME NEW k \in Listeners PROVE ListenerSound(View', listener'[k])
  <2>1. CASE k = l
    BY <1>1, <2>1
  <2>2. CASE k # l
    <3>1. listener'[k] = listener[k]
      BY <1>1, <2>2
    <3>2. ListenerSound(View', listener[k])
      BY ListenerTyped, SoundKept
    <3> QED
      BY <3>1, <3>2
  <2> QED
    BY <2>1, <2>2
<1> QED
  BY <1>2, <1>3 DEF ListenersSound

LEMMA NothingRecorded ==
  ASSUME IndexInv, UNCHANGED <<chainVars, indexVars>>
  PROVE  View' = View /\ Kept(View, View')
<1>1. View' = View
  BY DEF View, Settled, LogSet, chainVars, indexVars
<1>2. Kept(View, View')
  BY RecordsKept DEF indexVars
<1> QED
  BY <1>1, <1>2

\* The fields of the shared view.
LEMMA Viewed ==
  ASSUME IndexInv
  PROVE  /\ View.start = startBlock /\ View.safe = head - Confirmations /\ View.logs = LogSet
         /\ View.events = events /\ View.settled = Settled
         /\ View.start \in Nat /\ View.safe \in Int
BY Typed DEF View

\* A listener that waits: it knows one block up to which all is settled.
LEMMA WaitingSound ==
  ASSUME NEW v, NEW s, s.pc = "idle", Claimed(v, s.last), s.last >= v.start - 1
  PROVE  ListenerSound(v, s)
BY DEF ListenerSound

LEMMA DownTyped ==
  ASSUME IndexInv
  PROVE  /\ Down \in State /\ \A v : ListenerSound(v, Down)
         /\ \A last \in -1..MaxHead : [Down EXCEPT !.pc = "idle", !.last = last] \in State
<1>1. MaxHead \in Nat /\ <<>> \in Seq(Log)
  BY Typed
<1>2. 0 \in -1..MaxHead /\ 0 \in 0..MaxHead
  BY <1>1
<1> QED
  BY <1>1, <1>2 DEF Down, State, ListenerSound

LEMMA StartSound ==
  ASSUME IndexInv, NEW l \in Listeners, Start(l)
  PROVE  ListenersSound'
<1> DEFINE last == IF checkpoint = NoCheckpoint THEN startBlock - 1 ELSE checkpoint
           s == [Down EXCEPT !.pc = "idle", !.last = last]
<1>1. listener' = [listener EXCEPT ![l] = s] /\ View' = View /\ Kept(View, View')
  BY NothingRecorded DEF Start
<1>2. last \in -1..MaxHead
  BY Typed
<1>3. Claimed(View, last) /\ last >= View.start - 1
  <2>1. CASE checkpoint = NoCheckpoint
    BY <2>1, Viewed, Typed DEF Claimed
  <2>2. CASE checkpoint # NoCheckpoint
    <3>1. checkpoint \in Int /\ startBlock \in Int
      BY Typed DEF NoCheckpoint
    <3>2. Claimed(View, checkpoint) /\ checkpoint >= startBlock
      BY <2>2 DEF IndexInv, CheckpointSound
    <3> QED
      BY <2>2, <3>1, <3>2, Viewed
  <2> QED
    BY <2>1, <2>2
<1> HIDE DEF last
<1>4. s \in State /\ s.pc = "idle" /\ s.last = last
  BY <1>2, DownTyped DEF Down
<1> HIDE DEF s
<1>5. ListenerSound(View', s)
  BY <1>1, <1>3, <1>4, WaitingSound
<1> QED
  BY <1>1, <1>4, <1>5, OneMoves

\* Giving up, or being done, leaves a listener with a block it has claimed.
LEMMA RestSound ==
  ASSUME IndexInv, Kept(View, View'), NEW l \in Listeners, NEW last \in -1..MaxHead,
         Claimed(View, last), last >= startBlock - 1,
         listener' = [listener EXCEPT ![l] = [Down EXCEPT !.pc = "idle", !.last = last]]
  PROVE  ListenersSound'
<1> DEFINE s == [Down EXCEPT !.pc = "idle", !.last = last]
<1>1. s \in State /\ s.pc = "idle" /\ s.last = last
  BY DownTyped DEF Down
<1>2. Claimed(View', last) /\ last >= View'.start - 1
  BY ClaimedKept, Viewed DEF Kept
<1>3. listener' = [listener EXCEPT ![l] = s]
  OBVIOUS
<1> HIDE DEF s
<1>4. ListenerSound(View', s)
  BY <1>1, <1>2, WaitingSound
<1> QED
  BY <1>1, <1>3, <1>4, OneMoves

LEMMA GiveUpSound ==
  ASSUME IndexInv, Kept(View, View'), NEW l \in Listeners, listener[l].pc # "down", GiveUp(l)
  PROVE  ListenersSound'
<1>1. listener[l] \in State /\ ListenerSound(View, listener[l])
  BY ListenerTyped
<1>2. listener[l].last \in -1..MaxHead
  BY <1>1 DEF State
<1>3. Claimed(View, listener[l].last) /\ listener[l].last >= startBlock - 1
  BY <1>1, Viewed DEF ListenerSound
<1> QED
  BY <1>2, <1>3, RestSound DEF GiveUp

LEMMA PollSound ==
  ASSUME IndexInv, NEW l \in Listeners, Poll(l)
  PROVE  ListenersSound'
<1> DEFINE s == [listener[l] EXCEPT !.pc = "draining", !.latest = head, !.done = listener[l].last]
<1>0. listener \in [Listeners -> State] /\ listener[l] \in State /\ ListenerSound(View, listener[l])
  BY ListenerTyped
<1>1. listener' = [listener EXCEPT ![l] = s] /\ View' = View /\ Kept(View, View')
  BY <1>0, NothingRecorded DEF Poll
<1>2. head \in 0..MaxHead /\ head - Confirmations <= View.safe
  BY Typed, Viewed
<1>3. s \in State
  BY <1>0, <1>2 DEF State
<1>4. s.pc = "draining" /\ s.latest = head /\ s.done = listener[l].last /\ s.last = listener[l].last
  BY <1>0 DEF State
<1>5. Claimed(View, s.last) /\ s.last >= View.start - 1
  BY <1>0, <1>4 DEF ListenerSound, Poll
<1> HIDE DEF s
<1>6. ListenerSound(View', s)
  BY <1>1, <1>2, <1>4, <1>5 DEF ListenerSound
<1> QED
  BY <1>1, <1>3, <1>6, OneMoves

LEMMA DrainedSound ==
  ASSUME IndexInv, NEW l \in Listeners, Drained(l)
  PROVE  ListenersSound'
<1>0. listener[l] \in State /\ ListenerSound(View, listener[l])
  BY ListenerTyped
<1>1. Kept(View, View')
  BY NothingRecorded DEF Drained
<1>2. listener[l].done \in -1..MaxHead
  BY <1>0 DEF State
<1>3. Claimed(View, listener[l].done) /\ listener[l].done >= startBlock - 1
  BY <1>0, Viewed DEF ListenerSound, Drained
<1> QED
  BY <1>1, <1>2, <1>3, RestSound DEF Drained

LEMMA FetchRangeSound ==
  ASSUME IndexInv, NEW l \in Listeners, FetchRange(l)
  PROVE  ListenersSound'
<1> DEFINE old == listener[l]
           end == RangeEnd(l)
           todo == LogsIn(old.done + 1, end)
           s == [old EXCEPT !.pc = "log", !.end = end, !.todo = todo]
<1>0. listener \in [Listeners -> State] /\ old \in State /\ ListenerSound(View, old)
  BY ListenerTyped
<1>1. listener' = [listener EXCEPT ![l] = s] /\ View' = View /\ Kept(View, View')
  BY <1>0, NothingRecorded DEF FetchRange
<1>2. old.done \in -1..MaxHead /\ old.latest \in 0..MaxHead
  BY <1>0 DEF State
<1>3. /\ Claimed(View, old.done) /\ old.done >= View.start - 1
      /\ Claimed(View, old.last) /\ old.last >= View.start - 1
      /\ old.latest - Confirmations <= View.safe
  BY <1>0 DEF FetchRange, ListenerSound
<1>4. end \in 0..MaxHead /\ end > old.done /\ end <= old.latest - Confirmations
  <2>1. /\ old.done < old.latest - Confirmations
        /\ end = IF old.latest - Confirmations < old.done + MaxBlockRange
                 THEN old.latest - Confirmations ELSE old.done + MaxBlockRange
    BY DEF FetchRange, RangeEnd, SafeBlock
  <2>2. /\ MaxBlockRange \in Nat \ {0} /\ Confirmations \in Nat \ {0} /\ MaxHead \in Nat
        /\ old.done \in Int /\ old.latest \in Int /\ old.done >= -1 /\ old.latest <= MaxHead
    BY <1>2, Typed
  <2> HIDE DEF old, end
  <2> QED
    BY <2>1, <2>2
<1>5. /\ todo \in Seq(Log)
      /\ \A i \in DOMAIN todo : todo[i] \in LogSet /\ todo[i].block \in (old.done + 1)..end
      /\ \A i, j \in DOMAIN todo : i < j => Earlier(todo[i], todo[j])
      /\ \A m \in LogSet : m.block \in (old.done + 1)..end => \E i \in DOMAIN todo : todo[i] = m
  <2>1. old.done + 1 \in Int /\ end \in Int /\ old.done + 1 <= end + 1
    BY <1>2, <1>4
  <2> HIDE DEF end, old
  <2> QED
    BY <2>1, Typed, RangeLogs DEF LogsIn
<1>6. s \in State
  BY <1>0, <1>4, <1>5 DEF State
<1>7. /\ s.pc = "log" /\ s.end = end /\ s.todo = todo
      /\ s.done = old.done /\ s.last = old.last /\ s.latest = old.latest
  BY <1>0 DEF State
<1> HIDE DEF s, end, todo
<1>8. TodoSound(View, todo, end)
  <2>1. end <= View.safe
    BY <1>2, <1>3, <1>4, Viewed, Typed
  <2>2. \A i \in DOMAIN todo : todo[i] \in View.logs /\ todo[i].block \in View.start..end
    BY <1>2, <1>3, <1>5, Viewed
  <2>3. \A m \in View.logs : m.block \in View.start..end =>
          m \in View.settled \/ \E i \in DOMAIN todo : todo[i] = m
    BY <1>2, <1>3, <1>4, <1>5, Viewed DEF Claimed
  <2> QED
    BY <1>5, <2>1, <2>2, <2>3 DEF TodoSound
<1>9. ListenerSound(View, s)
  BY <1>3, <1>4, <1>7, <1>8 DEF ListenerSound
<1> QED
  BY <1>1, <1>6, <1>9, OneMoves

\* What a listener knows of the log it is about to handle.
LEMMA FirstTodo ==
  ASSUME IndexInv, NEW l \in Listeners, listener[l].pc \in {"log", "verify"},
         listener[l].todo # <<>>
  PROVE  LET log == listener[l].todo[1]
         IN  /\ Head(listener[l].todo) = log /\ log \in LogSet /\ log \in Log
             /\ log.block \in startBlock..(head - Confirmations)
<1> DEFINE s == listener[l]
<1>1. s.todo \in Seq(Log) /\ s.end \in Int /\ ListenerSound(View, s)
  BY ListenerTyped
<1>2. TodoSound(View, s.todo, s.end)
  BY <1>1 DEF ListenerSound
<1>3. Head(s.todo) = s.todo[1] /\ 1 \in DOMAIN s.todo /\ s.todo[1] \in Log
  BY <1>1, HeadFirst
<1>4. s.todo[1] \in LogSet /\ s.todo[1].block \in startBlock..s.end /\ s.end <= head - Confirmations
  BY <1>2, <1>3, Viewed DEF TodoSound
<1> HIDE DEF s
<1>5. s.todo[1].block \in startBlock..(head - Confirmations)
  <2>1. \A b \in startBlock..s.end : b \in startBlock..(head - Confirmations)
    BY <1>1, <1>4, Typed
  <2> QED
    BY <1>4, <2>1
<1> QED
  BY <1>3, <1>4, <1>5 DEF s

\* When the first log is settled, the rest is what remains to be done.
LEMMA RestTodo ==
  ASSUME NEW v, NEW w, Kept(v, w), NEW todo \in Seq(Log), todo # <<>>, NEW end \in Int,
         TodoSound(v, todo, end), todo[1] \in w.settled
  PROVE  TodoSound(w, Tail(todo), end)
<1>1. TodoSound(w, todo, end)
  BY TodoKept
<1>2. /\ Tail(todo) \in Seq(Log)
      /\ Len(todo) \in Nat \ {0} /\ DOMAIN todo = 1..Len(todo)
      /\ DOMAIN Tail(todo) = 1..(Len(todo) - 1)
      /\ \A i \in 1..(Len(todo) - 1) : Tail(todo)[i] = todo[i + 1]
  BY HeadFirst
<1>3. \A i \in DOMAIN Tail(todo) : i + 1 \in DOMAIN todo /\ Tail(todo)[i] = todo[i + 1]
  BY <1>2
<1>4. \A i, j \in DOMAIN Tail(todo) : i < j => Earlier(Tail(todo)[i], Tail(todo)[j])
  <2> SUFFICES ASSUME NEW i \in DOMAIN Tail(todo), NEW j \in DOMAIN Tail(todo), i < j
               PROVE  Earlier(todo[i + 1], todo[j + 1])
    BY <1>3
  <2>1. i + 1 < j + 1
    BY <1>2
  <2> QED
    BY <1>1, <1>3, <2>1 DEF TodoSound
<1>5. \A i \in DOMAIN todo : i # 1 => i - 1 \in DOMAIN Tail(todo) /\ Tail(todo)[i - 1] = todo[i]
  BY <1>2
<1>6. \A m \in w.logs : m.block \in w.start..end =>
        m \in w.settled \/ \E i \in DOMAIN Tail(todo) : Tail(todo)[i] = m
  BY <1>1, <1>5 DEF TodoSound
<1> QED
  BY <1>1, <1>3, <1>4, <1>6 DEF TodoSound

\* A listener goes on with the next log once the first one is settled.
LEMMA NextLogSound ==
  ASSUME IndexInv, Kept(View, View'), NEW l \in Listeners,
         listener[l].pc \in {"log", "verify"}, listener[l].todo # <<>>,
         listener[l].todo[1] \in View'.settled,
         listener' = [listener EXCEPT ![l] =
           [listener[l] EXCEPT !.pc = "log", !.todo = Tail(listener[l].todo)]]
  PROVE  ListenersSound'
<1> DEFINE old == listener[l]
           s == [old EXCEPT !.pc = "log", !.todo = Tail(old.todo)]
<1>0. /\ listener \in [Listeners -> State] /\ old \in State /\ ListenerSound(View, old)
      /\ old.todo \in Seq(Log) /\ old.end \in Int
      /\ old.last \in Int /\ old.done \in Int /\ old.latest \in Int
  BY ListenerTyped
<1>1. Tail(old.todo) \in Seq(Log)
  BY <1>0, HeadFirst
<1>2. s \in State
  BY <1>0, <1>1 DEF State
<1>3. /\ s.pc = "log" /\ s.todo = Tail(old.todo) /\ s.end = old.end
      /\ s.done = old.done /\ s.last = old.last /\ s.latest = old.latest
  BY <1>0 DEF State
<1>4. ListenerSound(View', old)
  BY <1>0, SoundKept
<1>5. TodoSound(View', Tail(old.todo), old.end)
  <2>1. TodoSound(View, old.todo, old.end)
    BY <1>0 DEF ListenerSound
  <2> QED
    BY <1>0, <2>1, RestTodo
<1>6. listener' = [listener EXCEPT ![l] = s]
  OBVIOUS
<1> HIDE DEF s
<1>7. ListenerSound(View', s)
  BY <1>3, <1>4, <1>5 DEF ListenerSound
<1> QED
  BY <1>2, <1>6, <1>7, OneMoves

\* The transaction of index_claim_submitted or index_claim_assessed.
LEMMA HandledRecords ==
  ASSUME IndexInv, NEW l \in Listeners, HandleSubmitted(l) \/ HandleAssessed(l)
  PROVE  /\ EventsFinal' /\ RowsNewest' /\ Kept(View, View')
         /\ events' = events \cup {listener[l].todo[1]} /\ events' \subseteq Log
         /\ rows' \in [1..MaxClaims -> Log \cup {NoRow}]
<1>1. /\ listener[l].pc = "log" /\ listener[l].todo # <<>>
      /\ IndexSubmitted(Head(listener[l].todo)) \/ IndexAssessed(Head(listener[l].todo))
      /\ UNCHANGED <<chainVars, startBlock, deadLetters, published>>
  BY DEF HandleSubmitted, HandleAssessed
<1>2. /\ Head(listener[l].todo) = listener[l].todo[1]
      /\ listener[l].todo[1] \in LogSet
      /\ listener[l].todo[1].block \in startBlock..(head - Confirmations)
  BY <1>1, FirstTodo
<1>3. /\ EventsFinal' /\ RowsNewest'
      /\ events' = events \cup {listener[l].todo[1]} /\ events' \subseteq Log
      /\ rows' \in [1..MaxClaims -> Log \cup {NoRow}]
  BY <1>1, <1>2, RecordStep
<1>4. Kept(View, View')
  BY <1>1, <1>3, RecordsKept
<1> QED
  BY <1>3, <1>4

LEMMA HandleSubmittedSound ==
  ASSUME IndexInv, NEW l \in Listeners, HandleSubmitted(l)
  PROVE  ListenersSound'
<1> DEFINE old == listener[l]
           s == [old EXCEPT !.pc = "verify"]
<1>0. /\ listener \in [Listeners -> State] /\ old \in State
      /\ old.todo \in Seq(Log) /\ old.end \in Int
      /\ old.last \in Int /\ old.done \in Int /\ old.latest \in Int
      /\ ListenerSound(View, old)
  BY ListenerTyped
<1>1. Kept(View, View') /\ old.todo[1] \in View'.events
  BY HandledRecords DEF View
<1>2. /\ old.pc = "log" /\ old.todo # <<>> /\ old.todo[1].status = "Submitted"
      /\ listener' = [listener EXCEPT ![l] = s]
  BY <1>0, FirstTodo DEF HandleSubmitted, Goto
<1>3. s \in State
  BY <1>0 DEF State
<1>4. /\ s.pc = "verify" /\ s.todo = old.todo /\ s.end = old.end
      /\ s.done = old.done /\ s.last = old.last /\ s.latest = old.latest
  BY <1>0 DEF State
<1>5. ListenerSound(View', old)
  BY <1>0, <1>1, SoundKept
<1> HIDE DEF s
<1>6. ListenerSound(View', s)
  BY <1>1, <1>2, <1>4, <1>5 DEF ListenerSound
<1> QED
  BY <1>1, <1>2, <1>3, <1>6, OneMoves

LEMMA HandleAssessedSound ==
  ASSUME IndexInv, NEW l \in Listeners, HandleAssessed(l)
  PROVE  ListenersSound'
<1>0. listener \in [Listeners -> State] /\ listener[l] \in State
  BY ListenerTyped
<1>1. /\ listener[l].pc = "log" /\ listener[l].todo # <<>>
      /\ listener[l].todo[1].status # "Submitted"
      /\ listener' = [listener EXCEPT ![l].todo = Tail(@)]
  BY FirstTodo DEF HandleAssessed
<1>2. listener' = [listener EXCEPT ![l] =
        [listener[l] EXCEPT !.pc = "log", !.todo = Tail(listener[l].todo)]]
  <2>1. [listener[l] EXCEPT !.todo = Tail(listener[l].todo)]
          = [listener[l] EXCEPT !.pc = "log", !.todo = Tail(listener[l].todo)]
    BY <1>0, <1>1 DEF State
  <2> QED
    BY <1>0, <1>1, <2>1
<1>3. Kept(View, View') /\ events' = events \cup {listener[l].todo[1]}
  BY HandledRecords
<1>4. listener[l].todo[1] \in View'.settled
  BY <1>1, <1>3 DEF View, Settled
<1> QED
  BY <1>1, <1>2, <1>3, <1>4, NextLogSound

LEMMA PublishSound ==
  ASSUME IndexInv, NEW l \in Listeners, Publish(l) \/ Quarantine(l)
  PROVE  ListenersSound'
<1>0. listener \in [Listeners -> State] /\ ListenerSound(View, listener[l])
  BY ListenerTyped
<1>1. listener[l].pc = "verify" /\ LogDone(l)
  BY DEF Publish, Quarantine
<1>2. /\ listener[l].todo # <<>> /\ listener[l].todo[1] \in events
      /\ Head(listener[l].todo) = listener[l].todo[1]
  BY <1>0, <1>1, FirstTodo, Viewed DEF ListenerSound
<1>3. Kept(View, View')
  BY RecordsKept DEF Publish, Quarantine
<1>4. listener[l].todo[1] \in View'.settled
  BY <1>2 DEF View, Settled, Publish, Quarantine
<1>5. listener' = [listener EXCEPT ![l] =
        [listener[l] EXCEPT !.pc = "log", !.todo = Tail(listener[l].todo)]]
  BY <1>0, <1>1 DEF LogDone
<1> QED
  BY <1>1, <1>2, <1>3, <1>4, <1>5, NextLogSound

\* A range without logs left is settled as a whole.
LEMMA FinishedRange ==
  ASSUME IndexInv, NEW l \in Listeners, FinishRange(l)
  PROVE  /\ Claimed(View, listener[l].end) /\ listener[l].end >= startBlock
         /\ listener[l].end \in 0..MaxHead
         /\ Kept(View, View') /\ View' = View
<1> DEFINE s == listener[l]
<1>1. s.end \in 0..MaxHead /\ s.done \in Int /\ ListenerSound(View, s)
  BY ListenerTyped DEF State
<1>2. s.pc = "log" /\ s.todo = <<>>
  BY DEF FinishRange
<1>3. TodoSound(View, <<>>, s.end) /\ s.end > s.done /\ s.done >= startBlock - 1
  BY <1>1, <1>2, Viewed DEF ListenerSound
<1>4. DOMAIN <<>> = {}
  OBVIOUS
<1>5. Claimed(View, s.end)
  BY <1>3, <1>4 DEF TodoSound, Claimed
<1>6. s.end >= startBlock
  BY <1>1, <1>3, Typed
<1>7. View' = View
  BY DEF FinishRange, View, Settled, LogSet, chainVars
<1>8. Kept(View, View')
  BY RecordsKept DEF FinishRange
<1> QED
  BY <1>1, <1>5, <1>6, <1>7, <1>8

LEMMA FinishRangeSound ==
  ASSUME IndexInv, NEW l \in Listeners, FinishRange(l)
  PROVE  ListenersSound'
<1> DEFINE old == listener[l]
           s == [old EXCEPT !.pc = "draining", !.done = old.end]
<1>0. listener \in [Listeners -> State] /\ old \in State /\ ListenerSound(View, old)
  BY ListenerTyped
<1>1. /\ Claimed(View, old.end) /\ old.end >= View.start - 1 /\ old.end \in 0..MaxHead
      /\ Kept(View, View') /\ View' = View
  BY FinishedRange, Viewed
<1>2. listener' = [listener EXCEPT ![l] = s] /\ old.pc = "log"
  BY <1>0 DEF FinishRange
<1>3. s \in State
  <2>1. old.end \in -1..MaxHead
    BY <1>1, Typed
  <2> QED
    BY <1>0, <2>1 DEF State
<1>4. /\ s.pc = "draining" /\ s.done = old.end /\ s.last = old.last /\ s.latest = old.latest
  BY <1>0 DEF State
<1> HIDE DEF s
<1>5. ListenerSound(View, s)
  BY <1>0, <1>1, <1>2, <1>4 DEF ListenerSound
<1> QED
  BY <1>1, <1>2, <1>3, <1>5, OneMoves

LEMMA DisturbSound ==
  ASSUME IndexInv, NEW l \in Listeners, Disturb(l) \/ MissingSubmission(l)
  PROVE  ListenersSound'
<1>0. listener \in [Listeners -> State]
  BY ListenerTyped
<1>1. CASE Fail(l) \/ MissingSubmission(l)
  BY <1>1, NothingRecorded, GiveUpSound DEF Fail, MissingSubmission
<1>2. CASE PublishUnacknowledged(l)
  <2>1. Kept(View, View')
    BY <1>2, RecordsKept DEF PublishUnacknowledged
  <2> QED
    BY <1>2, <2>1, GiveUpSound DEF PublishUnacknowledged
<1>3. CASE Shutdown(l) \/ Crash(l)
  <2>1. listener' = [listener EXCEPT ![l] = Down] /\ Kept(View, View')
    BY <1>3, NothingRecorded DEF Shutdown, Crash
  <2>2. Down \in State /\ ListenerSound(View', Down)
    BY DownTyped
  <2> QED
    BY <2>1, <2>2, OneMoves
<1> QED
  BY <1>1, <1>2, <1>3 DEF Disturb

LEMMA ChainSound ==
  ASSUME IndexInv, ChainNext, UNCHANGED <<indexVars, listener, failures>>
  PROVE  ListenersSound'
<1>1. Kept(View, View')
  BY ChainKept
<1>2. \A l \in Listeners : ListenerSound(View', listener[l])
  BY <1>1, ListenerTyped, SoundKept
<1> QED
  BY <1>2, ListenerTyped DEF ListenersSound

LEMMA SoundStep == IndexInv /\ [Next]_vars => ListenersSound' /\ Kept(View, View')
<1> SUFFICES ASSUME IndexInv, [Next]_vars PROVE ListenersSound' /\ Kept(View, View')
  OBVIOUS
<1>1. CASE UNCHANGED vars
  <2>1. View' = View /\ Kept(View, View')
    BY <1>1, NothingRecorded DEF vars
  <2> QED
    BY <1>1, <2>1, ListenerTyped DEF ListenersSound, vars
<1>2. CASE Next
  <2>1. ListenersSound'
    BY <1>2, NextCases, StartSound, PollSound, FetchRangeSound, DrainedSound,
       HandleSubmittedSound, HandleAssessedSound, PublishSound, FinishRangeSound,
       DisturbSound, ChainSound DEF Disturb
  <2>2. Kept(View, View')
    <3>1. \A l \in Listeners : HandleSubmitted(l) \/ HandleAssessed(l) => Kept(View, View')
      BY HandledRecords
    <3>2. \A l \in Listeners : FinishRange(l) => Kept(View, View')
      BY FinishedRange
    <3>3. \A l \in Listeners :
            Publish(l) \/ Quarantine(l) \/ PublishUnacknowledged(l) => Kept(View, View')
      BY RecordsKept DEF Publish, Quarantine, PublishUnacknowledged
    <3>4. \A l \in Listeners :
            \/ Start(l) \/ Poll(l) \/ FetchRange(l) \/ Drained(l) \/ MissingSubmission(l)
            \/ Fail(l) \/ Shutdown(l) \/ Crash(l)
            => Kept(View, View')
      BY NothingRecorded DEF Start, Poll, FetchRange, Drained, MissingSubmission, Fail,
         Shutdown, Crash
    <3> QED
      BY <1>2, <3>1, <3>2, <3>3, <3>4, NextCases, ChainKept
  <2> QED
    BY <2>1, <2>2
<1> QED
  BY <1>1, <1>2

-----------------------------------------------------------------------------
(* The records stay sound *)

\* Steps that do not touch the index: what it holds stays final.
LEMMA RecordsFinal ==
  ASSUME IndexInv, Kept(View, View'), UNCHANGED <<startBlock, events, rows>>,
         published' \cup deadLetters' \subseteq events,
         \A log \in published' : log.content = "matching"
  PROVE  /\ EventsFinal' /\ RowsNewest'
         /\ events' \subseteq Log /\ published' \subseteq Log /\ deadLetters' \subseteq Log
         /\ rows' \in [1..MaxClaims -> Log \cup {NoRow}]
<1>1. /\ EventsFinal /\ RowsNewest /\ events \subseteq Log
      /\ rows \in [1..MaxClaims -> Log \cup {NoRow}]
  BY DEF IndexInv, TypeOK
<1>2. /\ \A log \in LogSet : log.block <= head - Confirmations => log \in LogSet'
      /\ head - Confirmations \in Int /\ head' - Confirmations \in Int
      /\ head - Confirmations <= head' - Confirmations
  BY DEF Kept, View
<1>3. \A log \in events : /\ log \in LogSet'
                          /\ log.block \in startBlock..(head' - Confirmations)
  <2> TAKE log \in events
  <2>1. log \in LogSet /\ log.block \in startBlock..(head - Confirmations)
    BY <1>1 DEF EventsFinal
  <2>2. startBlock \in Int
    BY Typed
  <2>3. \A s, t \in Int : s <= t => \A b \in startBlock..s : b <= s /\ b \in startBlock..t
    BY <2>2
  <2> QED
    BY <1>2, <2>1, <2>3
<1>4. EventsFinal'
  BY <1>3 DEF EventsFinal
<1>5. RowsNewest'
  BY <1>1 DEF RowsNewest, AtOrAfter
<1> QED
  BY <1>1, <1>4, <1>5

\* The checkpoint stays sound when nothing saves it.
LEMMA CheckpointKept ==
  ASSUME IndexInv, Kept(View, View'), UNCHANGED <<startBlock, checkpoint>>
  PROVE  CheckpointSound'
<1>1. checkpoint # NoCheckpoint =>
        Claimed(View, checkpoint) /\ checkpoint >= startBlock /\ checkpoint \in Int
  BY Typed DEF IndexInv, CheckpointSound, NoCheckpoint
<1>2. checkpoint # NoCheckpoint => Claimed(View', checkpoint)
  BY <1>1, ClaimedKept
<1> QED
  BY <1>1, <1>2 DEF CheckpointSound

\* A listener saves the end of a range that is settled.
LEMMA CheckpointSaved ==
  ASSUME IndexInv, NEW l \in Listeners, FinishRange(l)
  PROVE  CheckpointSound' /\ checkpoint' \in {NoCheckpoint} \cup 0..MaxHead
<1>1. /\ Claimed(View, listener[l].end) /\ listener[l].end >= startBlock
      /\ listener[l].end \in 0..MaxHead /\ View' = View
  BY FinishedRange
<1>2. /\ checkpoint' = IF checkpoint <= listener[l].end THEN listener[l].end ELSE checkpoint
      /\ startBlock' = startBlock
  BY DEF FinishRange, SaveCheckpoint
<1>3. /\ checkpoint # NoCheckpoint => Claimed(View, checkpoint) /\ checkpoint >= startBlock
      /\ checkpoint \in {NoCheckpoint} \cup 0..MaxHead
  BY Typed DEF IndexInv, CheckpointSound
<1>4. checkpoint' # NoCheckpoint => Claimed(View', checkpoint') /\ checkpoint' >= startBlock
  BY <1>1, <1>2, <1>3
<1>5. CheckpointSound'
  BY <1>2, <1>4 DEF CheckpointSound
<1> QED
  BY <1>1, <1>2, <1>3, <1>5

\* What may be said of a log that a listener is verifying.
LEMMA VerifiedLog ==
  ASSUME IndexInv, NEW l \in Listeners, listener[l].pc = "verify"
  PROVE  /\ Head(listener[l].todo) \in events
         /\ "verified" \in Verification(Head(listener[l].todo).content)
              => Head(listener[l].todo).content = "matching"
<1>1. ListenerSound(View, listener[l])
  BY ListenerTyped
<1>2. listener[l].todo # <<>> /\ listener[l].todo[1] \in events
  BY <1>1, Viewed DEF ListenerSound
<1>3. Head(listener[l].todo) = listener[l].todo[1]
  BY <1>2, FirstTodo
<1> QED
  BY <1>2, <1>3 DEF Verification

RecordsSound ==
  /\ EventsFinal /\ RowsNewest /\ CheckpointSound
  /\ startBlock \in StartBlocks
  /\ events \subseteq Log /\ published \subseteq Log /\ deadLetters \subseteq Log
  /\ rows \in [1..MaxClaims -> Log \cup {NoRow}]
  /\ checkpoint \in {NoCheckpoint} \cup 0..MaxHead

LEMMA RecordsStep ==
  ASSUME IndexInv, [Next]_vars, Kept(View, View')
  PROVE  RecordsSound'
<1>0. /\ EventsFinal /\ published \cup deadLetters \subseteq events
      /\ \A log \in published : log.content = "matching"
      /\ published \subseteq Log /\ deadLetters \subseteq Log
      /\ startBlock \in StartBlocks /\ checkpoint \in {NoCheckpoint} \cup 0..MaxHead
  BY DEF IndexInv, TypeOK, EventsFinal
<1>1. ASSUME UNCHANGED <<startBlock, events, rows, checkpoint>>,
             published' \cup deadLetters' \subseteq events,
             \A log \in published' : log.content = "matching"
      PROVE  RecordsSound'
  BY <1>0, <1>1, RecordsFinal, CheckpointKept DEF RecordsSound
<1>2. CASE UNCHANGED indexVars
  BY <1>0, <1>1, <1>2 DEF indexVars
<1>3. ASSUME NEW l \in Listeners, HandleSubmitted(l) \/ HandleAssessed(l)
      PROVE  RecordsSound'
  <2>1. /\ EventsFinal' /\ RowsNewest' /\ events' \subseteq Log
        /\ rows' \in [1..MaxClaims -> Log \cup {NoRow}]
    BY <1>3, HandledRecords
  <2>2. UNCHANGED <<startBlock, checkpoint, published, deadLetters>>
    BY <1>3 DEF HandleSubmitted, HandleAssessed
  <2> QED
    BY <1>0, <2>1, <2>2, CheckpointKept DEF RecordsSound
<1>4. ASSUME NEW l \in Listeners, Publish(l) \/ Quarantine(l) \/ PublishUnacknowledged(l)
      PROVE  RecordsSound'
  <2>1. /\ Head(listener[l].todo) \in events
        /\ "verified" \in Verification(Head(listener[l].todo).content)
             => Head(listener[l].todo).content = "matching"
    BY <1>4, VerifiedLog DEF Publish, Quarantine, PublishUnacknowledged
  <2> QED
    BY <1>0, <1>1, <1>4, <2>1 DEF Publish, Quarantine, PublishUnacknowledged
<1>5. ASSUME NEW l \in Listeners, FinishRange(l)
      PROVE  RecordsSound'
  <2>1. UNCHANGED <<startBlock, events, rows, published, deadLetters>>
    BY <1>5 DEF FinishRange
  <2>2. /\ EventsFinal' /\ RowsNewest'
        /\ events' \subseteq Log /\ published' \subseteq Log /\ deadLetters' \subseteq Log
        /\ rows' \in [1..MaxClaims -> Log \cup {NoRow}]
    BY <1>0, <2>1, RecordsFinal
  <2> QED
    BY <1>0, <1>5, <2>1, <2>2, CheckpointSaved DEF RecordsSound
<1>6. CASE UNCHANGED vars
  BY <1>2, <1>6 DEF vars
<1>7. \A l \in Listeners :
        \/ Start(l) \/ Poll(l) \/ FetchRange(l) \/ Drained(l) \/ MissingSubmission(l)
        \/ Fail(l) \/ Shutdown(l) \/ Crash(l)
        => RecordsSound'
  BY <1>2 DEF Start, Poll, FetchRange, Drained, MissingSubmission, Fail, Shutdown, Crash
<1>8. CASE Next
  BY <1>2, <1>3, <1>4, <1>5, <1>7, <1>8, NextCases
<1> QED
  BY <1>6, <1>8

LEMMA FailuresCounted ==
  ASSUME IndexInv, [Next]_vars
  PROVE  failures' \in 0..MaxFailures
<1>1. failures \in 0..MaxFailures
  BY DEF IndexInv, TypeOK
<1>2. CASE UNCHANGED failures
  BY <1>1, <1>2
<1>3. CASE Failing
  <2>1. \A n \in 0..MaxFailures : n < MaxFailures => n + 1 \in 0..MaxFailures
    BY FailuresAssumption
  <2> QED
    BY <1>1, <1>3, <2>1 DEF Failing
<1>4. \A l \in Listeners :
        \/ Fail(l) \/ PublishUnacknowledged(l) \/ Shutdown(l) \/ Crash(l) => Failing
  BY DEF Fail, PublishUnacknowledged, Shutdown, Crash
<1>5. \A l \in Listeners :
        \/ Start(l) \/ Poll(l) \/ FetchRange(l) \/ Drained(l)
        \/ HandleSubmitted(l) \/ HandleAssessed(l) \/ MissingSubmission(l)
        \/ Publish(l) \/ Quarantine(l) \/ FinishRange(l)
        => UNCHANGED failures
  BY DEF Start, Poll, FetchRange, Drained, HandleSubmitted, HandleAssessed,
     MissingSubmission, Publish, Quarantine, FinishRange
<1> QED
  BY <1>2, <1>3, <1>4, <1>5, NextCases DEF vars

LEMMA ChainVarsStep ==
  ASSUME IndexInv, [Next]_vars
  PROVE  ChainInv' /\ (ChainNext \/ UNCHANGED chainVars)
<1>1. ChainInv
  BY DEF IndexInv
<1>2. \A l \in Listeners : ListenerStep(l) \/ Disturb(l) => UNCHANGED chainVars
  BY DEF ListenerStep, Disturb, Start, Poll, FetchRange, Drained, HandleSubmitted,
     HandleAssessed, MissingSubmission, Publish, Quarantine, FinishRange, Fail,
     PublishUnacknowledged, Shutdown, Crash
<1>3. ChainNext \/ UNCHANGED chainVars
  BY <1>2 DEF Next, vars
<1> QED
  BY <1>1, <1>3, ChainStep

LEMMA IndexInitial == Init => IndexInv
<1> SUFFICES ASSUME Init PROVE IndexInv
  OBVIOUS
<1>1. ChainInv /\ ChainTypeOK
  BY ChainInitial DEF Init, ChainInv
<1>2. MaxHead \in Nat /\ <<>> \in Seq(Log) /\ MaxFailures \in Nat
  BY BoundsAssumption, FailuresAssumption
<1>3. Down \in State /\ \A v : ListenerSound(v, Down)
  BY <1>2 DEF Down, State, ListenerSound
<1>4. TypeOK
  BY <1>1, <1>2, <1>3 DEF Init, TypeOK, State, NoCheckpoint
<1>5. EventsFinal /\ RowsNewest /\ CheckpointSound
  BY DEF Init, EventsFinal, RowsNewest, CheckpointSound
<1> QED
  BY <1>1, <1>3, <1>4, <1>5 DEF IndexInv, Init

LEMMA IndexStep == IndexInv /\ [Next]_vars => IndexInv'
<1> SUFFICES ASSUME IndexInv, [Next]_vars PROVE IndexInv'
  OBVIOUS
<1>1. ListenersSound' /\ Kept(View, View')
  BY SoundStep
<1>2. RecordsSound'
  BY <1>1, RecordsStep
<1>3. failures' \in 0..MaxFailures
  BY FailuresCounted
<1>4. ChainInv'
  BY ChainVarsStep
<1>5. TypeOK'
  BY <1>1, <1>2, <1>3, <1>4 DEF TypeOK, ListenersSound, RecordsSound, ChainInv, State
<1> QED
  BY <1>1, <1>2, <1>4, <1>5 DEF IndexInv, ListenersSound, RecordsSound

THEOREM Invariance == Spec => []IndexInv
BY IndexInitial, IndexStep, PTL DEF Spec

-----------------------------------------------------------------------------
(* What the runs check *)

\* Every variable keeps its type, for any number of listeners and blocks.
THEOREM TypeCorrect == Spec => []TypeOK
<1>1. IndexInv => TypeOK
  BY DEF IndexInv
<1> QED
  BY <1>1, Invariance, PTL

\* The saved checkpoint vouches for every earlier log.
THEOREM CheckpointIsComplete == Spec => []CheckpointComplete
<1>1. IndexInv => CheckpointComplete
  <2> SUFFICES ASSUME IndexInv, NEW log \in LogSet, log.block \in startBlock..checkpoint
               PROVE  /\ log \in events
                      /\ rows[log.claim] # NoRow /\ AtOrAfter(rows[log.claim], log)
                      /\ log.status = "Submitted" => log \in published \cup deadLetters
    BY DEF CheckpointComplete
  <2>1. checkpoint # NoCheckpoint
    BY Typed DEF NoCheckpoint
  <2>2. log \in Settled
    BY <2>1, Viewed DEF IndexInv, CheckpointSound, Claimed
  <2>3. log \in events /\ log.claim \in 1..MaxClaims
    BY <2>2, Typed DEF Settled
  <2> QED
    BY <2>2, <2>3 DEF IndexInv, RowsNewest, Settled
<1> QED
  BY <1>1, Invariance, PTL

\* However often logs are replayed, a row shows its claim's newest record.
THEOREM RowsAreTheNewest == Spec => []RowsAreNewest
<1>1. IndexInv => RowsAreNewest
  BY DEF IndexInv, RowsNewest, RowsAreNewest
<1> QED
  BY <1>1, Invariance, PTL

\* Nothing that a reorganization can still replace is recorded or published.
THEOREM RecordsAreFinal == Spec => []OnlyFinalLogs
<1>1. IndexInv => OnlyFinalLogs
  BY DEF IndexInv, EventsFinal, OnlyFinalLogs
<1> QED
  BY <1>1, Invariance, PTL

\* Kafka's events are indexed and their bytes match the anchored hash.
THEOREM PublishedAreVerified == Spec => []PublishedVerified
<1>1. IndexInv => PublishedVerified
  BY DEF IndexInv, EventsFinal, PublishedVerified
<1> QED
  BY <1>1, Invariance, PTL

\* No listener moves the shared checkpoint backwards.
THEOREM CheckpointMonotonic == Spec => CheckpointNeverRegresses
<1>1. IndexInv /\ [Next]_vars => checkpoint' >= checkpoint
  <2> SUFFICES ASSUME IndexInv, [Next]_vars PROVE checkpoint' >= checkpoint
    OBVIOUS
  <2>0. checkpoint \in Int
    BY Typed DEF NoCheckpoint
  <2>1. CASE UNCHANGED checkpoint
    BY <2>0, <2>1
  <2>2. ASSUME NEW l \in Listeners, FinishRange(l) PROVE checkpoint' >= checkpoint
    <3>1. listener[l].end \in Int
      BY ListenerTyped
    <3> QED
      BY <2>0, <2>2, <3>1 DEF FinishRange, SaveCheckpoint
  <2>3. \A l \in Listeners :
          \/ Start(l) \/ Poll(l) \/ FetchRange(l) \/ Drained(l)
          \/ HandleSubmitted(l) \/ HandleAssessed(l) \/ MissingSubmission(l)
          \/ Publish(l) \/ Quarantine(l)
          \/ Fail(l) \/ PublishUnacknowledged(l) \/ Shutdown(l) \/ Crash(l)
          => UNCHANGED checkpoint
    BY DEF Start, Poll, FetchRange, Drained, HandleSubmitted, HandleAssessed,
       MissingSubmission, Publish, Quarantine, Fail, PublishUnacknowledged, Shutdown,
       Crash, indexVars
  <2> QED
    BY <2>1, <2>2, <2>3, NextCases DEF vars, indexVars
<1>2. IndexInv /\ [Next]_vars => [checkpoint' >= checkpoint]_vars
  BY <1>1
<1> QED
  BY <1>2, Invariance, PTL DEF Spec, CheckpointNeverRegresses

-----------------------------------------------------------------------------
(* The index implements the registry's promise *)

\* No record is ahead of an earlier log of the replayed chain, and no claim is
\* recorded without its submission.
EventsClosed ==
  /\ \A m \in events, p \in LogSet :
       Earlier(p, m) /\ p.block >= startBlock => p \in events
  /\ \A m \in events : \E p \in events : SubmissionOf(p, m)

\* The next log of a listener comes after nothing but records.
LEMMA EarlierRecorded ==
  ASSUME IndexInv, NEW l \in Listeners, listener[l].pc = "log", listener[l].todo # <<>>,
         NEW p \in LogSet, Earlier(p, listener[l].todo[1]), p.block >= startBlock
  PROVE  p \in events
<1> DEFINE s == listener[l]
<1>1. s.todo \in Seq(Log) /\ s.end \in Int /\ TodoSound(View, s.todo, s.end)
  BY ListenerTyped DEF ListenerSound
<1>2. s.todo[1] \in Log /\ 1 \in DOMAIN s.todo /\ s.todo[1].block \in startBlock..s.end
  BY <1>1, HeadFirst, Viewed DEF TodoSound
<1>3. p \in Log
  BY Typed
<1>4. p.block \in startBlock..s.end
  <2>1. p.block \in Int /\ startBlock \in Int /\ s.todo[1].block \in Int
    BY <1>2, <1>3, Typed DEF Log
  <2>2. p.block <= s.todo[1].block
    BY <2>1 DEF Earlier, AtOrAfter
  <2> HIDE DEF s
  <2> QED
    BY <1>1, <1>2, <2>1, <2>2
<1>5. \A i \in DOMAIN s.todo : s.todo[i] # p
  <2> SUFFICES ASSUME NEW i \in DOMAIN s.todo, s.todo[i] = p PROVE FALSE
    OBVIOUS
  <2>1. i = 1 \/ 1 < i
    BY <1>1
  <2>2. AtOrAfter(p, s.todo[1])
    <3>1. CASE i = 1
      BY <1>2, <3>1, LogOrder
    <3>2. CASE 1 < i
      <4>1. Earlier(s.todo[1], p)
        BY <1>1, <1>2, <3>2 DEF TodoSound
      <4> QED
        BY <1>2, <1>3, <4>1, LogOrder DEF Earlier
    <3> QED
      BY <2>1, <3>1, <3>2
  <2> QED
    BY <2>2 DEF Earlier
<1>6. p \in Settled
  BY <1>1, <1>4, <1>5, Viewed DEF TodoSound
<1> QED
  BY <1>6 DEF Settled

LEMMA ClosedInitial == Init => EventsClosed
BY DEF Init, EventsClosed

LEMMA ClosedStep == IndexInv /\ EventsClosed /\ [Next]_vars => EventsClosed'
<1> SUFFICES ASSUME IndexInv, EventsClosed, [Next]_vars PROVE EventsClosed'
  OBVIOUS
<1>0. /\ Kept(View, View') /\ startBlock' = startBlock
      /\ LogSet \subseteq Log /\ events \subseteq LogSet
      /\ \A m \in events : m.block <= head - Confirmations
  BY SoundStep, Typed DEF IndexInv, EventsFinal, Kept, View
<1>1. ASSUME NEW m \in events, NEW p \in LogSet', Earlier(p, m) PROVE p \in LogSet
  <2>1. p.block \in Int /\ (p \in LogSet \/ p.block > head - Confirmations)
    BY <1>0 DEF Kept, View
  <2>2. m.block \in Int /\ m.block <= head - Confirmations /\ head - Confirmations \in Int
    BY <1>0, Viewed DEF Log
  <2>3. p.block <= m.block
    BY <1>1, <2>1, <2>2 DEF Earlier, AtOrAfter
  <2> QED
    BY <2>1, <2>2, <2>3
<1>2. ASSUME UNCHANGED events PROVE EventsClosed'
  BY <1>0, <1>1, <1>2 DEF EventsClosed, SubmissionOf, Earlier, AtOrAfter
<1>3. ASSUME NEW l \in Listeners, HandleSubmitted(l) \/ HandleAssessed(l)
      PROVE  EventsClosed'
  <2> DEFINE log == listener[l].todo[1]
  <2>1. /\ listener[l].pc = "log" /\ listener[l].todo # <<>>
        /\ Head(listener[l].todo) = log /\ log \in LogSet /\ log \in Log
        /\ events' = events \cup {log} /\ LogSet' = LogSet
    BY <1>3, HandledRecords, FirstTodo DEF HandleSubmitted, HandleAssessed, LogSet, chainVars
  <2>2. \A p \in LogSet : Earlier(p, log) /\ p.block >= startBlock => p \in events
    BY <2>1, EarlierRecorded
  <2>3. \E p \in events' : SubmissionOf(p, log)
    <3>1. CASE log.status = "Submitted"
      BY <2>1, <3>1, LogOrder DEF SubmissionOf
    <3>2. CASE log.status # "Submitted"
      <4>1. rows[log.claim] # NoRow /\ log.claim \in 1..MaxClaims
        BY <1>3, <2>1, <3>2, Typed DEF HandleSubmitted, HandleAssessed, IndexAssessed
      <4>2. rows[log.claim] \in events /\ rows[log.claim].claim = log.claim
        BY <4>1 DEF IndexInv, RowsNewest
      <4>3. PICK p \in events : SubmissionOf(p, rows[log.claim])
        BY <4>2 DEF EventsClosed
      <4>4. p \in LogSet /\ p.claim = log.claim /\ p.status = "Submitted"
        BY <1>0, <4>2, <4>3 DEF SubmissionOf
      <4>5. AtOrAfter(log, p)
        BY <2>1, <4>4 DEF IndexInv, ChainInv, ClaimsNumbered
      <4> QED
        BY <2>1, <4>3, <4>4, <4>5 DEF SubmissionOf
    <3> QED
      BY <3>1, <3>2
  <2> HIDE DEF log
  <2> QED
    BY <1>0, <2>1, <2>2, <2>3 DEF EventsClosed, SubmissionOf, Earlier, AtOrAfter
<1>4. \A l \in Listeners :
        \/ Start(l) \/ Poll(l) \/ FetchRange(l) \/ Drained(l) \/ MissingSubmission(l)
        \/ Publish(l) \/ Quarantine(l) \/ FinishRange(l)
        \/ Fail(l) \/ PublishUnacknowledged(l) \/ Shutdown(l) \/ Crash(l)
        => UNCHANGED events
  BY DEF Start, Poll, FetchRange, Drained, MissingSubmission, Publish, Quarantine,
     FinishRange, Fail, PublishUnacknowledged, Shutdown, Crash, indexVars
<1> QED
  BY <1>2, <1>3, <1>4, NextCases DEF vars, indexVars

THEOREM RecordsAreClosed == Spec => []EventsClosed
BY ClosedInitial, ClosedStep, Invariance, PTL DEF Spec

\* The claims with a row, and the anchors read from the first n of them.
HasRow == {c \in 1..MaxClaims : rows[c] # NoRow}
Anchored(row) ==
  [insurer |-> row.content, permit |-> "none", status |-> row.status, score |-> 0]
Shown(r, n) == [c \in 1..n |-> Anchored(r[c])]

LEMMA RowsFromFirst ==
  ASSUME IndexInv, EventsClosed, startBlock <= 1
  PROVE  /\ Cardinality(HasRow) \in Nat /\ HasRow = 1..Cardinality(HasRow)
         /\ Projection = Shown(rows, Cardinality(HasRow))
<1>0. IsFiniteSet(HasRow) /\ HasRow \in SUBSET (Nat \ {0})
  <2>0. MaxClaims \in Nat
    BY BoundsAssumption
  <2>1. 1..MaxClaims \in SUBSET (Nat \ {0}) /\ IsFiniteSet(1..MaxClaims)
    BY <2>0, FS_Interval
  <2>2. HasRow \in SUBSET (1..MaxClaims)
    BY DEF HasRow
  <2> QED
    BY <2>1, <2>2, FS_Subset
<1>1. ASSUME NEW c \in HasRow, c > 1 PROVE c - 1 \in HasRow
  <2>1. rows[c] \in events /\ rows[c].claim = c
    BY <1>1 DEF HasRow, IndexInv, RowsNewest
  <2>2. PICK m \in events : SubmissionOf(m, rows[c])
    BY <2>1 DEF EventsClosed
  <2>3. m \in LogSet /\ m.status = "Submitted" /\ m.claim = c
    BY <2>1, <2>2 DEF SubmissionOf, IndexInv, EventsFinal
  <2>4. PICK p \in LogSet : p.claim = c - 1 /\ Earlier(p, m)
    BY <1>1, <2>3 DEF IndexInv, ChainInv, ClaimsNumbered
  <2>5. p.block >= startBlock
    BY <2>4, Typed
  <2>6. p \in events /\ p.claim \in 1..MaxClaims
    BY <2>2, <2>4, <2>5, Typed DEF EventsClosed
  <2> QED
    BY <2>4, <2>6 DEF HasRow, IndexInv, RowsNewest
<1>2. HasRow = 1..Cardinality(HasRow)
  BY <1>0, <1>1, NoGap
<1>3. Projection = Shown(rows, Cardinality(HasRow))
  BY DEF Projection, Shown, Anchored, HasRow
<1> QED
  BY <1>0, <1>2, <1>3, FS_CardinalityType

LEMMA RowsFromFirstNext ==
  (IndexInv /\ EventsClosed /\ startBlock <= 1 =>
     /\ Cardinality(HasRow) \in Nat /\ HasRow = 1..Cardinality(HasRow)
     /\ Projection = Shown(rows, Cardinality(HasRow)))'
BY RowsFromFirst, PTL

Agree(q, r, n) == \A c \in 1..n : q[c] = r[c]

LEMMA ShownAnchored ==
  ASSUME NEW r, NEW q, NEW n \in Nat, NEW m, m = n + 1, Agree(q, r, n),
         NEW last, last = Anchored(q[m])
  PROVE  Shown(q, m) = Append(Shown(r, n), last)
<1> DEFINE S == {Shown(q, m)[c] : c \in 1..(n + 1)}
<1>1. Shown(q, m) \in Seq(S) /\ Len(Shown(q, m)) = n + 1
  BY DEF Shown
<1>2. \A c \in 1..n : Shown(r, n)[c] = Shown(q, m)[c]
  BY DEF Shown, Agree
<1>3. Shown(r, n) \in Seq(S) /\ Len(Shown(r, n)) = n
  <2>1. \A c \in 1..n : Shown(r, n)[c] \in S
    <3>1. \A c \in 1..n : c \in 1..m
      OBVIOUS
    <3> QED
      BY <1>2, <3>1
  <2> HIDE DEF S
  <2> QED
    BY <2>1 DEF Shown
<1>4. n + 1 \in 1..(n + 1) /\ Shown(q, m)[n + 1] = last
  BY DEF Shown
<1>5. last \in S
  BY <1>4
<1> HIDE DEF S
<1>6. /\ Append(Shown(r, n), last) \in Seq(S)
      /\ Len(Append(Shown(r, n), last)) = n + 1
      /\ \A c \in 1..n : Append(Shown(r, n), last)[c] = Shown(r, n)[c]
      /\ Append(Shown(r, n), last)[n + 1] = last
  BY <1>3, <1>5, AppendProperties
<1>7. \A c \in 1..(n + 1) : Append(Shown(r, n), last)[c] = Shown(q, m)[c]
  BY <1>2, <1>4, <1>6
<1> QED
  BY <1>1, <1>6, <1>7, SeqEqual

\* What recording a log does to the rows: nothing, or it adds a claim's
\* submission, or it moves a claim one step along its history.
LEMMA RowsMove ==
  ASSUME IndexInv, EventsClosed, startBlock <= 1,
         NEW l \in Listeners, HandleSubmitted(l) \/ HandleAssessed(l)
  PROVE  \/ rows' = rows
         \/ \E log \in Log :
              /\ log.claim \in 1..MaxClaims /\ rows' = [rows EXCEPT ![log.claim] = log]
              /\ \/ rows[log.claim] = NoRow /\ log.status = "Submitted"
                 \/ /\ rows[log.claim] # NoRow
                    /\ rows[log.claim].content = log.content
                    /\ <<rows[log.claim].status, log.status>> \in Lifecycle
<1> DEFINE log == listener[l].todo[1]
           row == rows[log.claim]
<1>0. /\ listener[l].pc = "log" /\ listener[l].todo # <<>>
      /\ Head(listener[l].todo) = log /\ log \in LogSet /\ log \in Log
      /\ log.claim \in 1..MaxClaims
  BY FirstTodo, Typed DEF HandleSubmitted, HandleAssessed
<1>1. \/ IndexSubmitted(log) /\ log.status = "Submitted"
      \/ IndexAssessed(log) /\ log.status # "Submitted"
  BY <1>0 DEF HandleSubmitted, HandleAssessed
<1>2. row # NoRow =>
        /\ row \in events /\ row \in LogSet /\ row \in Log /\ row.claim = log.claim
        /\ \A m \in events : m.claim = log.claim => AtOrAfter(row, m)
  BY <1>0, Typed DEF IndexInv, RowsNewest, EventsFinal
<1>3. rows \in [1..MaxClaims -> Log \cup {NoRow}]
  BY DEF IndexInv, TypeOK
<1>4. ASSUME row = log PROVE [rows EXCEPT ![log.claim] = log] = rows
  BY <1>0, <1>3, <1>4
<1>5. ASSUME row # NoRow, AtOrAfter(log, row), log.status = "Submitted"
      PROVE  row = log
  <2>1. AtOrAfter(row, log)
    BY <1>0, <1>2, <1>5 DEF IndexInv, ChainInv, ClaimsNumbered
  <2> QED
    BY <1>0, <1>2, <1>5, <2>1, Typed, LogsDistinct
<1>6. ASSUME row # NoRow, AtOrAfter(log, row), log.status # "Submitted", row # log
      PROVE  row.content = log.content /\ <<row.status, log.status>> \in Lifecycle
  <2>1. PICK p \in LogSet : Precedes(LogSet, p, log)
    BY <1>0, <1>6 DEF IndexInv, ChainInv, HistoriesLegal
  <2>2. p \in events /\ p.claim = log.claim
    <3>1. p.block >= startBlock
      BY <2>1, Typed
    <3>2. Earlier(p, log) /\ p.claim = log.claim
      BY <2>1 DEF Precedes
    <3> QED
      BY <1>0, <3>1, <3>2, EarlierRecorded
  <2>3. AtOrAfter(row, p)
    BY <1>2, <1>6, <2>2
  <2>4. Earlier(row, log)
    BY <1>0, <1>2, <1>6, Typed, LogsDistinct DEF Earlier
  <2>5. AtOrAfter(p, row)
    BY <1>2, <1>6, <2>1, <2>4 DEF Precedes
  <2>6. p = row
    BY <1>2, <1>6, <2>1, <2>3, <2>5, Typed, LogsDistinct
  <2> QED
    BY <2>1, <2>6 DEF Precedes
<1>7. \/ rows' = rows
      \/ /\ rows' = [rows EXCEPT ![log.claim] = log]
         /\ row # NoRow => AtOrAfter(log, row)
         /\ log.status # "Submitted" => row # NoRow
  BY <1>1 DEF IndexSubmitted, IndexAssessed
<1>8. CASE rows' = rows \/ row = log
  BY <1>4, <1>7, <1>8
<1>9. CASE rows' # rows /\ row # log
  BY <1>0, <1>5, <1>6, <1>7, <1>9
<1> QED
  BY <1>8, <1>9

LEMMA AnchorsInitial == Init => Anchors!Init
<1> SUFFICES ASSUME Init PROVE Projection = <<>>
  BY DEF Anchors!Init
<1>1. HasRow = {}
  BY DEF Init, HasRow
<1>2. Cardinality(HasRow) = 0
  BY <1>1, FS_EmptySet
<1>3. Projection = IF startBlock <= 1 THEN Shown(rows, Cardinality(HasRow)) ELSE <<>>
  BY DEF Projection, Shown, Anchored, HasRow
<1>4. Shown(rows, 0) = <<>>
  <2>1. Shown(rows, 0) \in Seq({}) /\ Len(Shown(rows, 0)) = 0
    BY DEF Shown
  <2> QED
    BY <2>1, EmptySeq
<1> QED
  BY <1>2, <1>3, <1>4

\* A claim's first row is the next anchor, an anchor's next row its assessment.
LEMMA AnchorsMove ==
  ASSUME IndexInv, EventsClosed, [Next]_vars, startBlock <= 1,
         NEW log \in Log, log.claim \in 1..MaxClaims,
         rows' = [rows EXCEPT ![log.claim] = log],
         \/ rows[log.claim] = NoRow /\ log.status = "Submitted"
         \/ /\ rows[log.claim] # NoRow
            /\ rows[log.claim].content = log.content
            /\ <<rows[log.claim].status, log.status>> \in Lifecycle
  PROVE  Anchors!Next
<1> DEFINE c == log.claim
           n == Cardinality(HasRow)
           m == Cardinality(HasRow')
<1>0. /\ rows \in [1..MaxClaims -> Log \cup {NoRow}] /\ NoRow \notin Log /\ log # NoRow
      /\ log.content \in Contents /\ log.status \in Statuses
  BY Typed DEF IndexInv, TypeOK, Log
<1>1. IndexInv' /\ EventsClosed' /\ startBlock' <= 1
  BY IndexStep, ClosedStep, SoundStep DEF Kept, View
<1>2. n \in Nat /\ HasRow = 1..n /\ Projection = Shown(rows, n)
  BY RowsFromFirst
<1>3. m \in Nat /\ HasRow' = 1..m /\ Projection' = Shown(rows', m)
  BY <1>1, RowsFromFirstNext
<1>4. \A d \in 1..MaxClaims : rows'[d] = IF d = c THEN log ELSE rows[d]
  BY <1>0
<1>5. HasRow' = HasRow \cup {c}
  BY <1>0, <1>4 DEF HasRow
<1>6. c \in HasRow <=> rows[c] # NoRow
  BY DEF HasRow
<1>7. c \in Nat \ {0}
  BY <1>0 DEF Log
<1> HIDE DEF c, n, m
<1>8. CASE rows[c] = NoRow /\ log.status = "Submitted"
  <2>1. c \notin 1..n /\ 1..m = 1..n \cup {c}
    BY <1>2, <1>3, <1>5, <1>6, <1>8
  <2>2. m = n + 1 /\ c = n + 1
    <3>1. c > n
      BY <1>2, <1>7, <2>1
    <3>2. c \in 1..m /\ n + 1 \in 1..c
      BY <1>2, <1>7, <2>1, <3>1
    <3>3. n + 1 \in 1..m
      BY <1>2, <1>3, <1>7, <3>2
    <3>4. n + 1 = c
      BY <1>2, <2>1, <3>3
    <3>5. m \in 1..m
      BY <1>3, <3>2
    <3>6. m = c
      <4>1. m \in 1..n \/ m = c
        BY <2>1, <3>5
      <4> QED
        BY <1>2, <1>3, <1>7, <3>1, <3>2, <4>1
    <3> QED
      BY <3>4, <3>6
  <2>3. Agree(rows', rows, n)
    <3>1. 1..n \in SUBSET (1..MaxClaims)
      BY <1>2 DEF HasRow
    <3> QED
      BY <1>4, <2>1, <3>1 DEF c, Agree
  <2>4. rows'[n + 1] = log
    BY <1>4, <2>2 DEF c
  <2>5. Projection' = Append(Projection, [insurer |-> log.content, permit |-> "none",
                                          status |-> "Submitted", score |-> 0])
    <3>1. Projection' = Append(Projection, Anchored(log))
      <4>1. n \in Nat /\ Anchored(log) = Anchored(rows'[m])
        BY <1>2, <2>2, <2>4
      <4>2. Shown(rows', m) = Append(Shown(rows, n), Anchored(log))
        <5>1. \A q, r : Agree(q, r, n) => Shown(q, m) = Append(Shown(r, n), Anchored(q[m]))
          BY <2>2, <4>1, ShownAnchored
        <5>2. Shown(rows', m) = Append(Shown(rows, n), Anchored(rows'[m]))
          BY <2>3, <5>1, Zenon
        <5> QED
          BY <4>1, <5>2
      <4> QED
        BY <1>2, <1>3, <4>2
    <3> QED
      BY <1>8, <3>1 DEF Anchored
  <2>6. Anchors!Anchor(log.content, "none")
    BY <2>5 DEF Anchors!Anchor, Anchors!Fresh
  <2> QED
    BY <1>0, <2>6 DEF Anchors!Next
<1>9. CASE /\ rows[c] # NoRow
           /\ rows[c].content = log.content
           /\ <<rows[c].status, log.status>> \in Lifecycle
  <2>1. 1..m = 1..n /\ c \in 1..n
    BY <1>2, <1>3, <1>5, <1>6, <1>9
  <2>2. Projection' = Shown(rows', n) /\ DOMAIN Projection = 1..n
    BY <1>2, <1>3, <2>1 DEF Shown
  <2>3. \A d \in 1..n : d \in 1..MaxClaims
    BY <1>2 DEF HasRow
  <2>4. /\ Projection[c].status = rows[c].status /\ Projection[c].score = 0
        /\ \A d \in 1..n : Projection[d] = [insurer |-> rows[d].content, permit |-> "none",
                                            status |-> rows[d].status, score |-> 0]
    BY <1>2, <2>1 DEF Shown, Anchored
  <2>5. Shown(rows', n) = [Projection EXCEPT ![c] =
          [insurer |-> rows[c].content, permit |-> "none", status |-> log.status, score |-> 0]]
    BY <1>2, <1>4, <1>9, <2>1, <2>3 DEF Shown, Anchored, c
  <2>6. [Projection EXCEPT ![c].status = log.status, ![c].score = 0] =
          [Projection EXCEPT ![c] =
             [insurer |-> rows[c].content, permit |-> "none", status |-> log.status, score |-> 0]]
    <3> DEFINE old == [insurer |-> rows[c].content, permit |-> "none",
                       status |-> rows[c].status, score |-> 0]
               new == [insurer |-> rows[c].content, permit |-> "none",
                       status |-> log.status, score |-> 0]
    <3>1. Projection[c] = old
      BY <2>1, <2>4
    <3>2. [[old EXCEPT !.status = log.status] EXCEPT !.score = 0] = new
      <4>1. [old EXCEPT !.status = log.status] = new
        OBVIOUS
      <4>2. [new EXCEPT !.score = 0] = new
        OBVIOUS
      <4> HIDE DEF old, new
      <4> QED
        BY <4>1, <4>2
    <3>3. \A f, v : c \in DOMAIN f =>
            [[f EXCEPT ![c] = v] EXCEPT ![c] = [@ EXCEPT !.score = 0]]
              = [f EXCEPT ![c] = [v EXCEPT !.score = 0]]
      OBVIOUS
    <3> HIDE DEF old, new
    <3>4. [Projection EXCEPT ![c].status = log.status, ![c].score = 0] =
            [[Projection EXCEPT ![c] = [Projection[c] EXCEPT !.status = log.status]]
               EXCEPT ![c] = [@ EXCEPT !.score = 0]]
      OBVIOUS
    <3>5. c \in DOMAIN Projection
      BY <2>1, <2>2
    <3> QED
      BY <3>1, <3>2, <3>3, <3>4, <3>5 DEF new
  <2>7. Anchors!Assess(c, log.status, 0)
    BY <1>9, <2>2, <2>4, <2>5, <2>6 DEF Anchors!Assess, Anchors!Lifecycle, Lifecycle
  <2> QED
    BY <1>0, <2>1, <2>2, <2>7 DEF Anchors!Next, Anchors!Statuses, Statuses
<1> QED
  BY <1>8, <1>9 DEF c

LEMMA AnchorsStep == IndexInv /\ EventsClosed /\ [Next]_vars => [Anchors!Next]_Projection
<1> SUFFICES ASSUME IndexInv, EventsClosed, [Next]_vars PROVE [Anchors!Next]_Projection
  OBVIOUS
<1>1. startBlock' = startBlock
  BY SoundStep DEF Kept, View
<1>2. CASE startBlock > 1
  <2>1. startBlock \in Int
    BY Typed
  <2> QED
    BY <1>1, <1>2, <2>1 DEF Projection
<1>3. CASE rows' = rows
  BY <1>1, <1>3 DEF Projection
<1>4. ASSUME startBlock <= 1, NEW l \in Listeners, HandleSubmitted(l) \/ HandleAssessed(l)
      PROVE  Anchors!Next \/ rows' = rows
  BY <1>4, RowsMove, AnchorsMove
<1>5. \A l \in Listeners :
        \/ Start(l) \/ Poll(l) \/ FetchRange(l) \/ Drained(l) \/ MissingSubmission(l)
        \/ Publish(l) \/ Quarantine(l) \/ FinishRange(l)
        \/ Fail(l) \/ PublishUnacknowledged(l) \/ Shutdown(l) \/ Crash(l)
        => rows' = rows
  BY DEF Start, Poll, FetchRange, Drained, MissingSubmission, Publish, Quarantine,
     FinishRange, Fail, PublishUnacknowledged, Shutdown, Crash, indexVars
<1>6. startBlock > 1 \/ startBlock <= 1
  BY Typed
<1> QED
  BY <1>2, <1>3, <1>4, <1>5, <1>6, NextCases DEF vars, indexVars

\* What readers of the index see is a registry, for any number of listeners:
\* claims appear in order and each follows the contract's lifecycle.
THEOREM IndexImplementsAnchors == Spec => ImplementsAnchors
BY IndexInitial, AnchorsInitial, AnchorsStep, Invariance, RecordsAreClosed, PTL
   DEF Spec, ImplementsAnchors, Anchors!Spec

=============================================================================
