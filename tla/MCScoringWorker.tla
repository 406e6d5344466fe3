--------------------------- MODULE MCScoringWorker ---------------------------
(* Small contents of the topic and of the model. *)
EXTENDS ScoringWorker

CONSTANTS c1, c2

Review == [status |-> "UnderReview", score |-> 1]
Flag   == [status |-> "Flagged", score |-> 2]

\* The model reviews c1 and flags c2; so might a person.
OneOutput == [c \in {c1, c2} |-> IF c = c1 THEN {Review} ELSE {Flag}]
Human == {Flag}

\* c2's event waits behind c1's.
OnePartition == {<<<<c1, c2>>>>}
OneEvent == {<<<<c1>>>>}

=============================================================================
