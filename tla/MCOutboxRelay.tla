---------------------------- MODULE MCOutboxRelay ----------------------------
(* Small instances of OutboxRelay for TLC. *)
EXTENDS OutboxRelay, TLC

CONSTANT BackoffCap

(* 2s, 4s, 8s ... as defaultBackoff, with a cap small enough to explore. *)
MCBackoff(n) == IF 2 ^ n < BackoffCap THEN 2 ^ n ELSE BackoffCap

(* Three rows of one workspace ahead of one of another. *)
MCWorkspaceOf == [r \in Rows |-> IF r <= 3 THEN 1 ELSE 2]

(* No definition tells one relay from another. *)
RelaySymmetry == Permutations(Relays)

(* What the fairness properties and the actions' guards read: the message  *)
(* counts decide nothing, and a row that is settled is settled.            *)
FairnessView ==
  <<[r \in Rows |-> IF stored[r] = "absent" \/ Pending(r)
                      THEN <<stored[r], attempts[r], wait[r]>>
                      ELSE <<"settled">>],
    running, drain, disruptions>>
=============================================================================
