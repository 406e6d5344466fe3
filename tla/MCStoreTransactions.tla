------------------------ MODULE MCStoreTransactions ------------------------
(* Requests for StoreTransactions: every workload makes the requests of one  *)
(* table meet; requests of different workloads share neither rows nor locks. *)
EXTENDS StoreTransactions

Challenge(w, c) == [kind |-> "challenge", wallet |-> w, client |-> c]

Session(n, w) == [kind |-> "session", challenge |-> n, signedBy |-> w]

Policy(q) == [submitters |-> {"alice", "bob"}, insurer |-> "i1", from |-> 0, until |-> 1,
              quota |-> q]

Preparation(w, k, c, q) ==
  [kind |-> "prepare", wallet |-> w, client |-> "desk", key |-> k, claim |-> c,
   policy |-> Policy(q), insurer |-> "i1", incident |-> 0, covered |-> c # "excluded"]

Event(n, i, f) ==
  [kind |-> "screen",
   event |-> [id |-> n, insurer |-> i, incident |-> f, later |-> n = 4]]

Outcome(c) == [kind |-> "outcome", claim |-> c]

Load(rs, ts, n) ==
  [requests |-> rs, times |-> ts, calls |-> n]

Intake ==
  {Load({Challenge("alice", "desk"), Challenge("bob", "desk"), Challenge("alice", "home"),
         Challenge("carol", "desk")}, {1, 3}, 3),
   Load({Challenge("alice", "desk"), Session(1, "alice"), Session(1, "bob")}, {3, 4, 11}, 4),
   Load({Preparation("alice", "k1", "c1", 2), Preparation("alice", "k1", "c2", 2),
         Preparation("alice", "k2", "c2", 1), Preparation("alice", "k3", "c3", 2)},
        {1, 4, 7}, 3),
   Load({Preparation("alice", "k1", "c1", 1), Preparation("bob", "k1", "c1", 1),
         Preparation("bob", "k2", "excluded", 2), Preparation("carol", "k1", "c1", 2)},
        {7, 20}, 2),
   Load({Event(1, "i1", "f1"), Event(2, "i2", "f1"), Event(3, "i1", "f2"),
         Event(4, "i1", "f1")}, {}, 3),
   Load({Outcome("c1"), Outcome("c2"), Outcome("c3")}, {}, 3)}

OpenTokens == {[wallet |-> "alice", until |-> 20], [wallet |-> "bob", until |-> 20]}

=============================================================================
