---------------------------- MODULE ClaimAnchors ----------------------------
(***************************************************************************)
(* What the registry promises to everyone who reads it (the listener, the  *)
(* scoring worker, the relayer, an auditor): an append-only list of claim  *)
(* anchors. A permit backs at most one anchor, its insurer never changes,  *)
(* its first assessment fixes the score, and its status only moves forward *)
(* along the lifecycle.                                                    *)
(***************************************************************************)
EXTENDS Integers, Sequences

CONSTANTS
  Accounts,
  PermitIds,
  NoPermit,    \* bytes32(0): an insurer's own submission
  Scores       \* fraud scores, in basis points

VARIABLE claims

Statuses == {"Submitted", "UnderReview", "Flagged", "Approved", "Rejected"}

Lifecycle ==
  {<<"Submitted", "UnderReview">>, <<"Submitted", "Flagged">>,
   <<"UnderReview", "Approved">>, <<"UnderReview", "Rejected">>,
   <<"UnderReview", "Flagged">>,
   <<"Flagged", "Approved">>, <<"Flagged", "Rejected">>}

Claim == [insurer : Accounts, permit : PermitIds \cup {NoPermit},
          status : Statuses, score : Scores \cup {0}]

Fresh(insurer, permit) ==
  [insurer |-> insurer, permit |-> permit,
   status |-> "Submitted", score |-> 0]

Init == claims = <<>>

Anchor(insurer, permit) ==
  /\ \A c \in DOMAIN claims :
       claims[c].permit = permit => permit = NoPermit
  /\ claims' = Append(claims, Fresh(insurer, permit))

Assess(c, status, score) ==
  /\ <<claims[c].status, status>> \in Lifecycle
  /\ claims[c].status # "Submitted" => score = claims[c].score
  /\ claims' = [claims EXCEPT ![c].status = status, ![c].score = score]

Next ==
  \/ \E insurer \in Accounts, permit \in PermitIds \cup {NoPermit} :
       Anchor(insurer, permit)
  \/ \E c \in DOMAIN claims, status \in Statuses, score \in Scores :
       Assess(c, status, score)

Spec == Init /\ [][Next]_claims

=============================================================================
