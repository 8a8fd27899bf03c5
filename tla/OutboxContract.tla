--------------------------- MODULE OutboxContract ---------------------------
(***************************************************************************)
(* What the transactional outbox promises to the code that writes to it,   *)
(* with no relay, lease, batch or clock in sight: a committed row is sent  *)
(* at least once or given up on, it is settled exactly one way, and        *)
(* nothing is sent for it afterwards.  OutboxRelay is shown to implement   *)
(* this.                                                                   *)
(*                                                                         *)
(* The promise is the header of packages/db/src/outbox.ts ("a committed    *)
(* write always leaves its side effect behind for the relay to drain") and *)
(* the delivery contract in packages/adapters/src/relay.ts.                *)
(***************************************************************************)
EXTENDS Integers

CONSTANT Rows

VARIABLES
  status,   \* where each row stands
  sent      \* whether its message has left the building at least once

vars == <<status, sent>>

Statuses == {"absent", "pending", "delivered", "abandoned", "purged"}

ContractTypeOK ==
  /\ status \in [Rows -> Statuses]
  /\ sent \in [Rows -> BOOLEAN]

Init ==
  /\ status = [r \in Rows |-> "absent"]
  /\ sent = [r \in Rows |-> FALSE]

Move(r, from, to) ==
  /\ status[r] = from
  /\ status' = [status EXCEPT ![r] = to]
  /\ UNCHANGED sent

Commit(r)  == Move(r, "absent", "pending")
Send(r)    == /\ status[r] = "pending"
              /\ sent' = [sent EXCEPT ![r] = TRUE]
              /\ UNCHANGED status
Deliver(r) == sent[r] /\ Move(r, "pending", "delivered")
Abandon(r) == Move(r, "pending", "abandoned")
Purge(r)   == Move(r, "delivered", "purged") \/ Move(r, "abandoned", "purged")

Settle(r) == Deliver(r) \/ Abandon(r)

Next == \E r \in Rows : Commit(r) \/ Send(r) \/ Settle(r) \/ Purge(r)

(* A relay that keeps running settles every pending row. *)
Fairness == \A r \in Rows : WF_vars(Settle(r))

Safety == Init /\ [][Next]_vars
Spec   == Safety /\ Fairness
=============================================================================
