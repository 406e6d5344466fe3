-------------------------- MODULE OutboxLifecycle --------------------------
(***************************************************************************)
(* What the outbox promises of one row whoever touches it: it moves along  *)
(* the workflow's edges only, keeps its wallet for good, and never shares  *)
(* a wallet with another open row. One transaction may let several rows    *)
(* lapse but moves at most one row forward.                                *)
(***************************************************************************)
CONSTANTS Subs, Signers, NoSigner

VARIABLES state, signer

Open == {"preparing", "prepared", "authorized", "signed", "broadcast"}

\* Edges any transaction may take for any number of rows.
Lapse == {<<"preparing", "failed">>, <<"prepared", "expired">>,
          <<"authorized", "expired">>}

Edge ==
  {<<"preparing", "prepared">>, <<"prepared", "authorized">>,
   <<"authorized", "signed">>, <<"authorized", "failed">>,
   <<"signed", "broadcast">>, <<"signed", "confirmed">>,
   <<"signed", "failed">>, <<"broadcast", "signed">>,
   <<"broadcast", "confirmed">>, <<"broadcast", "failed">>}

Exclusive ==
  \A q, r \in Subs :
    /\ q # r
    /\ state[q] \in Open
    /\ state[r] \in Open
    => signer[q] # signer[r]

Init ==
  /\ state = [r \in Subs |-> "none"]
  /\ signer = [r \in Subs |-> NoSigner]

Lapses(S) ==
  \A r \in S : state'[r] = state[r] \/ <<state[r], state'[r]>> \in Lapse

\* A new row is opened for a wallet, in a transaction that may lapse others.
Begin(r, s) ==
  /\ state[r] = "none"
  /\ state'[r] = "preparing"
  /\ DOMAIN state' = Subs
  /\ signer' = [signer EXCEPT ![r] = s]
  /\ Lapses(Subs \ {r})

Move(r) ==
  /\ <<state[r], state'[r]>> \in Edge
  /\ state' = [state EXCEPT ![r] = state'[r]]
  /\ UNCHANGED signer

Expire ==
  /\ DOMAIN state' = Subs
  /\ Lapses(Subs)
  /\ UNCHANGED signer

Next ==
  /\ \/ \E r \in Subs, s \in Signers : Begin(r, s)
     \/ \E r \in Subs : Move(r)
     \/ Expire
  /\ Exclusive'

Spec == Init /\ [][Next]_<<state, signer>>

=============================================================================
