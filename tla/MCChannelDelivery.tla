-------------------------- MODULE MCChannelDelivery --------------------------
(* Small instances of ChannelDelivery for TLC. *)
EXTENDS ChannelDelivery, TLC

(* One second after every failure. *)
MCBackoff(n) == 1

MCWorkspaceOf == [r \in Rows |-> 1]

RelaySymmetry == Permutations(Relays)

Held(r) == \E w \in Relays : r \in left[w]

(* What the properties and the guards read.  Once a row is settled and no  *)
(* relay holds it, nothing is sent for it any more: of its log row only    *)
(* LogSettledFirst still asks something.                                   *)
RowView(r) ==
  IF stored[r] = "purged" /\ ~Held(r) THEN <<"purged">>
  ELSE IF (delivered[r] \/ dead[r]) /\ ~Held(r)
    THEN <<"settled",
           delivered[r] /\ status[r] = "queued" /\ r \notin skipped>>
    ELSE <<stored[r], attempts[r], wait[r], delivered[r], dead[r], status[r],
           via[r], posted[r], unrecorded[r],
           status[r] = "queued" /\ r \in skipped>>

DeliveryView ==
  <<[r \in Rows |-> RowView(r)], running, drain, disruptions, connection,
    handler>>
=============================================================================
