----------------------------- MODULE OutboxRelay -----------------------------
(***************************************************************************)
(* The outbox relays of packages/adapters/src/relay.ts: several processes  *)
(* drain one table.  A drain ranks the due rows without a lock, claims a   *)
(* batch by pushing available_at past a lease, and then dispatches the     *)
(* batch one row after another, recording each row before the next.        *)
(*                                                                         *)
(* Rows are numbered in (created_at, id) order, which is not the order     *)
(* their transactions commit in.  Time is relative: wait[r] is the number  *)
(* of seconds until row r is due, zero standing for every past instant.    *)
(*                                                                         *)
(* One drain is <<rank>> -> <<claim>> -> for each row: dispatch, record.   *)
(* candidates[w] is non-empty between the first two, left[w] from the      *)
(* claim until the last row of the batch is recorded.                      *)
(***************************************************************************)
EXTENDS Integers, FiniteSets

CONSTANTS
  Rows,              \* outbox rows, in (created_at, id) order
  Relays,            \* relay processes over the same table
  WorkspaceOf,       \* the workspace_id of each row
  HoldBacks,         \* the available_at offsets a writer may ask for
  BatchSize,         \* rows claimed per drain
  CandidateBatches,  \* CLAIM_CANDIDATE_BATCHES
  Lease,             \* leaseSeconds
  Backoff(_),        \* backoffSeconds, by attempt
  MaxAttempts,       \* maxAttempts
  DispatchLimit,     \* the longest one dispatch and its recording may take
  MaxDisruptions     \* bound on crashes, stops and lost database replies

ASSUME RelayConstants ==
  /\ Rows \subseteq Nat
  /\ IsFiniteSet(Rows)
  /\ WorkspaceOf \in [Rows -> Nat]
  /\ HoldBacks \subseteq Nat
  /\ BatchSize \in Nat \ {0}
  /\ CandidateBatches \in Nat \ {0}
  /\ Lease \in Nat
  /\ \A n \in 0 .. MaxAttempts : Backoff(n) \in Nat
  /\ MaxAttempts \in Nat \ {0}
  /\ DispatchLimit \in Nat \ {0}
  /\ MaxDisruptions \in Nat

VARIABLES
  \* The table.
  stored,       \* "absent", "stored" or "purged"
  attempts,     \* the attempts column
  wait,         \* seconds until available_at
  delivered,    \* delivered_at is not null
  dead,         \* dead_lettered_at is not null
  \* Each relay process.
  running,      \* #running
  candidates,   \* the ids the ranking statement returned
  batch,        \* the rows of the current claim
  left,         \* those of them not recorded yet
  snapshot,     \* the attempts value each claimed record carries
  outcome,      \* how the current dispatch ended; "none" while in flight
  elapsed,      \* seconds spent on the current row
  \* History, read by properties only.
  sends,        \* messages that left for each row
  blurred,      \* those of them whose success was never recorded
  refused,      \* a dispatch reported a permanent failure
  disruptions   \* crashes, stops and lost replies so far

table   == <<stored, attempts, wait, delivered, dead>>
drain   == <<candidates, batch, left, snapshot, outcome, elapsed>>
history == <<sends, blurred, refused, disruptions>>
vars    == <<table, running, drain, history>>

Outcomes == {"none", "ok", "transient", "permanent"}

TypeOK ==
  /\ stored \in [Rows -> {"absent", "stored", "purged"}]
  /\ attempts \in [Rows -> Nat]
  /\ wait \in [Rows -> Nat]
  /\ delivered \in [Rows -> BOOLEAN]
  /\ dead \in [Rows -> BOOLEAN]
  /\ running \in [Relays -> BOOLEAN]
  /\ candidates \in [Relays -> SUBSET Rows]
  /\ batch \in [Relays -> SUBSET Rows]
  /\ left \in [Relays -> SUBSET Rows]
  /\ \A w \in Relays : left[w] \subseteq batch[w]
  /\ snapshot \in [Relays -> [Rows -> Nat]]
  /\ outcome \in [Relays -> Outcomes]
  /\ elapsed \in [Relays -> 0 .. DispatchLimit]
  /\ sends \in [Rows -> Nat]
  /\ blurred \in [Rows -> Nat]
  /\ refused \in [Rows -> BOOLEAN]
  /\ disruptions \in 0 .. MaxDisruptions

------------------------------------------------------------------------------
(* Which rows a claim may take, and in which order *)

(* Mutant: the re-check of the claim forgets delivered_at. *)
MutPendingThoughDelivered(r) == stored[r] = "stored" /\ ~dead[r]

(* delivered_at is null and dead_lettered_at is null *)
Pending(r) == stored[r] = "stored" /\ ~delivered[r] /\ ~dead[r]
(* Mutant: the claim does not look at available_at, so it sees no lease. *)
MutDueThoughLeased(r) == Pending(r)

(* ... and available_at <= now() *)
Due(r) == Pending(r) /\ wait[r] = 0

DueRows == {r \in Rows : Due(r)}

(* row_number() over (partition by workspace_id order by created_at, id) *)
FairRank(r, S) ==
  Cardinality({q \in S : WorkspaceOf[q] = WorkspaceOf[r] /\ q <= r})

(* Mutant: oldest first, whoever's row it is. *)
MutOldestFirst(q, r, S) == q <= r

(* order by rank, created_at, id, within the rows of S *)
Before(q, r, S) ==
  \/ FairRank(q, S) < FairRank(r, S)
  \/ FairRank(q, S) = FairRank(r, S) /\ q <= r

(* P is the first n rows of E in the order of S: "order by ... limit n" *)
IsFirst(P, n, E, S) ==
  /\ Cardinality(P) = IF Cardinality(E) < n THEN Cardinality(E) ELSE n
  /\ \A p \in P, e \in E \ P : Before(p, e, S)

(* Mutant: the claimed rows are re-sorted by age, not by rank. *)
MutOldestOfBatch(w, r) == r \in left[w] /\ \A q \in left[w] : r <= q

(* The record the sequential loop of drainOnce is working on. *)
IsCurrent(w, r) ==
  /\ r \in left[w]
  /\ \A q \in left[w] : Before(r, q, batch[w])

Idle(w) == candidates[w] = {} /\ left[w] = {}

------------------------------------------------------------------------------
Init ==
  /\ stored = [r \in Rows |-> "absent"]
  /\ attempts = [r \in Rows |-> 0]
  /\ wait = [r \in Rows |-> 0]
  /\ delivered = [r \in Rows |-> FALSE]
  /\ dead = [r \in Rows |-> FALSE]
  /\ running = [w \in Relays |-> TRUE]
  /\ candidates = [w \in Relays |-> {}]
  /\ batch = [w \in Relays |-> {}]
  /\ left = [w \in Relays |-> {}]
  /\ snapshot = [w \in Relays |-> [r \in Rows |-> 0]]
  /\ outcome = [w \in Relays |-> "none"]
  /\ elapsed = [w \in Relays |-> 0]
  /\ sends = [r \in Rows |-> 0]
  /\ blurred = [r \in Rows |-> 0]
  /\ refused = [r \in Rows |-> FALSE]
  /\ disruptions = 0

(* A writer's transaction commits the row it enqueued; a writer that rolls *)
(* back leaves no trace, so there is nothing to model for it.              *)
Enqueue(r) ==
  /\ stored[r] = "absent"
  /\ stored' = [stored EXCEPT ![r] = "stored"]
  /\ \E d \in HoldBacks : wait' = [wait EXCEPT ![r] = d]
  /\ UNCHANGED <<attempts, delivered, dead, running, drain, history>>

(* #claim, first statement: rank the due rows, taking no lock. *)
Rank(w) ==
  /\ running[w] /\ Idle(w)
  /\ DueRows # {}
  /\ \E C \in SUBSET DueRows :
       /\ IsFirst(C, BatchSize * CandidateBatches, DueRows, DueRows)
       /\ candidates' = [candidates EXCEPT ![w] = C]
  /\ UNCHANGED <<table, running, batch, left, snapshot, outcome, elapsed,
                 history>>

(* #claim, second statement: lease the first candidates that are still due. *)
Claim(w) ==
  LET eligible == {r \in candidates[w] : Due(r)}
  IN  /\ candidates[w] # {}
      /\ \E B \in SUBSET eligible :
           /\ IsFirst(B, BatchSize, eligible, candidates[w])
           /\ attempts' = [r \in Rows |->
                             attempts[r] + (IF r \in B THEN 1 ELSE 0)]
           /\ wait' = [r \in Rows |-> IF r \in B THEN Lease ELSE wait[r]]
           /\ batch' = [batch EXCEPT ![w] = B]
           /\ left' = [left EXCEPT ![w] = B]
           /\ snapshot' = [snapshot EXCEPT ![w] =
                [r \in Rows |-> IF r \in B THEN attempts[r] + 1 ELSE 0]]
      /\ candidates' = [candidates EXCEPT ![w] = {}]
      /\ outcome' = [outcome EXCEPT ![w] = "none"]
      /\ elapsed' = [elapsed EXCEPT ![w] = 0]
      /\ UNCHANGED <<stored, delivered, dead, running, history>>

(* options.dispatch(record) returns or throws.  A throw may come after the *)
(* message has left: landed says whether it did.                           *)
DispatchEnds(w, r, o, landed) ==
  /\ IsCurrent(w, r) /\ outcome[w] = "none"
  /\ o = "ok" => landed
  /\ outcome' = [outcome EXCEPT ![w] = o]
  /\ sends' = [sends EXCEPT ![r] = @ + (IF landed THEN 1 ELSE 0)]
  /\ blurred' = [blurred EXCEPT ![r] =
                   @ + (IF landed /\ o # "ok" THEN 1 ELSE 0)]
  /\ refused' = [refused EXCEPT ![r] = @ \/ o = "permanent"]
  /\ UNCHANGED <<table, running, candidates, batch, left, snapshot, elapsed,
                 disruptions>>

------------------------------------------------------------------------------
(* Recording a dispatched row *)

(* The loop goes on to the next record of the batch, or drainOnce returns  *)
(* and the batch is gone.                                                  *)
Advance(w, r) ==
  /\ left' = [left EXCEPT ![w] = @ \ {r}]
  /\ batch' = [batch EXCEPT ![w] = IF left[w] = {r} THEN {} ELSE @]
  /\ snapshot' = [snapshot EXCEPT ![w][r] = 0]
  /\ outcome' = [outcome EXCEPT ![w] = "none"]
  /\ elapsed' = [elapsed EXCEPT ![w] = 0]
  /\ UNCHANGED candidates

(* The process forgets its batch: it died, or drainOnce threw. *)
Forget(w) ==
  /\ candidates' = [candidates EXCEPT ![w] = {}]
  /\ batch' = [batch EXCEPT ![w] = {}]
  /\ left' = [left EXCEPT ![w] = {}]
  /\ snapshot' = [snapshot EXCEPT ![w] = [r \in Rows |-> 0]]
  /\ outcome' = [outcome EXCEPT ![w] = "none"]
  /\ elapsed' = [elapsed EXCEPT ![w] = 0]

(* Mutant: the delivered stamp is lost without an error. *)
MutStampNothing(r) == UNCHANGED table

(* update outbox set delivered_at = now() ... where delivered_at is null.  *)
(* The redaction of the payload is in the same statement, so a row is      *)
(* redacted exactly when it is delivered.                                  *)
StampDelivered(r) ==
  /\ delivered' = [delivered EXCEPT ![r] = @ \/ stored[r] = "stored"]
  /\ UNCHANGED <<stored, attempts, wait, dead>>

(* Mutant: the ceiling is tested with > for >=. *)
MutCeilingOffByOne(w, r) ==
  IF outcome[w] = "permanent" \/ snapshot[w][r] > MaxAttempts
    THEN dead' = [dead EXCEPT ![r] = TRUE]
         /\ UNCHANGED <<stored, attempts, wait, delivered>>
    ELSE wait' = [wait EXCEPT ![r] = 1]
         /\ UNCHANGED <<stored, attempts, delivered, dead>>

(* #markFailed's update: dead-letter at the ceiling or on a permanent      *)
(* failure, otherwise replace the lease by the backoff.  It asks neither   *)
(* whether the row is settled nor whether the claim is still its own.      *)
StampFailed(w, r) ==
  IF outcome[w] = "permanent" \/ snapshot[w][r] >= MaxAttempts
    THEN /\ dead' = [dead EXCEPT ![r] = @ \/ stored[r] = "stored"]
         /\ UNCHANGED <<stored, attempts, wait, delivered>>
    ELSE /\ wait' = [wait EXCEPT ![r] = IF stored[r] = "stored"
                       THEN Backoff(snapshot[w][r]) ELSE @]
         /\ UNCHANGED <<stored, attempts, delivered, dead>>

MarkDelivered(w, r) ==
  /\ IsCurrent(w, r) /\ outcome[w] = "ok"
  /\ StampDelivered(r)
  /\ Advance(w, r)
  /\ UNCHANGED <<running, history>>

MarkFailed(w, r) ==
  /\ IsCurrent(w, r) /\ outcome[w] \in {"transient", "permanent"}
  /\ StampFailed(w, r)
  /\ Advance(w, r)
  /\ UNCHANGED <<running, history>>

Disrupt ==
  /\ disruptions < MaxDisruptions
  /\ disruptions' = disruptions + 1

Blur(w) == [r \in Rows |-> blurred[r] +
              (IF outcome[w] = "ok" /\ IsCurrent(w, r) THEN 1 ELSE 0)]

(* The delivered stamp throws, having been applied or not.  The catch in   *)
(* drainOnce takes that for a failed dispatch.                             *)
MarkDeliveredThrows(w, r, applied) ==
  /\ IsCurrent(w, r) /\ outcome[w] = "ok"
  /\ Disrupt
  /\ IF applied THEN StampDelivered(r) ELSE UNCHANGED table
  /\ outcome' = [outcome EXCEPT ![w] = "transient"]
  /\ blurred' = Blur(w)
  /\ UNCHANGED <<running, candidates, batch, left, snapshot, elapsed, sends,
                 refused>>

(* The failure stamp throws, having been applied or not.  Nothing catches  *)
(* it: drainOnce rejects and the rest of the batch waits for its lease.    *)
MarkFailedThrows(w, r, applied) ==
  /\ IsCurrent(w, r) /\ outcome[w] \in {"transient", "permanent"}
  /\ Disrupt
  /\ IF applied THEN StampFailed(w, r) ELSE UNCHANGED table
  /\ Forget(w)
  /\ UNCHANGED <<running, sends, blurred, refused>>

------------------------------------------------------------------------------
(* Processes and time *)

(* The process dies, at any point of a drain. *)
Crash(w) ==
  /\ running[w] \/ ~Idle(w)
  /\ Disrupt
  /\ running' = [running EXCEPT ![w] = FALSE]
  /\ Forget(w)
  /\ blurred' = Blur(w)
  /\ UNCHANGED <<table, sends, refused>>

(* stop(): no new drain starts, the one in flight runs to its end. *)
Stop(w) ==
  /\ running[w]
  /\ Disrupt
  /\ running' = [running EXCEPT ![w] = FALSE]
  /\ UNCHANGED <<table, drain, sends, blurred, refused>>

(* start(), in the process that replaces a dead or stopped one. *)
Start(w) ==
  /\ ~running[w] /\ Idle(w)
  /\ running' = [running EXCEPT ![w] = TRUE]
  /\ UNCHANGED <<table, drain, history>>

(* Mutant: retention goes by age alone and takes pending rows with it. *)
MutPurgeUnsettled(r) ==
  /\ stored[r] = "stored"
  /\ stored' = [stored EXCEPT ![r] = "purged"]
  /\ UNCHANGED <<attempts, wait, delivered, dead, running, drain, history>>

(* purgeSettledOutbox deletes a settled row once it is old enough; its age *)
(* in days is not modelled, so any settled row may go at any time.         *)
Purge(r) ==
  /\ stored[r] = "stored" /\ (delivered[r] \/ dead[r])
  /\ stored' = [stored EXCEPT ![r] = "purged"]
  /\ UNCHANGED <<attempts, wait, delivered, dead, running, drain, history>>

(* One second passes.  No row takes longer than DispatchLimit to dispatch  *)
(* and record: that is the assumption on the drivers leaseSeconds is set   *)
(* against.                                                                *)
Tick ==
  /\ \A w \in Relays : left[w] # {} => elapsed[w] < DispatchLimit
  /\ wait' = [r \in Rows |-> IF wait[r] > 0 THEN wait[r] - 1 ELSE 0]
  /\ elapsed' = [w \in Relays |->
                   IF left[w] # {} THEN elapsed[w] + 1 ELSE elapsed[w]]
  /\ UNCHANGED <<stored, attempts, delivered, dead, running, candidates,
                 batch, left, snapshot, outcome, history>>

RelayStep(w) ==
  \/ Rank(w)
  \/ Claim(w)
  \/ Start(w)
  \/ \E r \in Rows :
       \/ \E o \in Outcomes \ {"none"}, landed \in BOOLEAN :
            DispatchEnds(w, r, o, landed)
       \/ MarkDelivered(w, r)
       \/ MarkFailed(w, r)

Disruption(w) ==
  \/ Crash(w)
  \/ Stop(w)
  \/ \E r \in Rows, applied \in BOOLEAN :
       MarkDeliveredThrows(w, r, applied) \/ MarkFailedThrows(w, r, applied)

Next ==
  \/ \E r \in Rows : Enqueue(r) \/ Purge(r)
  \/ \E w \in Relays : RelayStep(w) \/ Disruption(w)
  \/ Tick

(* The drain loop polls for ever, its driver calls return, a dead process  *)
(* is restarted by the host, and time passes.  Nothing makes a writer      *)
(* write, a process crash or the retention job run.                        *)
Fairness ==
  /\ \A w \in Relays : WF_vars(RelayStep(w))
  /\ WF_vars(Tick)

Spec == Init /\ [][Next]_vars /\ Fairness

------------------------------------------------------------------------------
(* Properties *)

(* The lease outlasts a whole batch, because drainOnce leases the batch at *)
(* once and dispatches it one row at a time.                               *)
Sized == BatchSize * DispatchLimit < Lease

(* Two relays never work on one row: the point of leasing in #claim.  It   *)
(* needs the lease to outlast a batch, not merely a dispatch.              *)
ExclusiveHold ==
  Sized => \A v, w \in Relays : v # w => left[v] \cap left[w] = {}

(* A row is never both delivered and dead-lettered, whatever #markFailed   *)
(* leaves unchecked, unless the reply to its delivered stamp was lost.     *)
SettledOneWay ==
  Sized => \A r \in Rows : delivered[r] /\ dead[r] => blurred[r] > 0

(* A consumer sees a message twice only when an earlier success went       *)
(* unrecorded: the relay adds no duplicates of its own.                    *)
DuplicatesExplained ==
  Sized => \A r \in Rows : sends[r] <= blurred[r] + 1

(* A row is given up on only after a permanent refusal or MaxAttempts      *)
(* claims, and is claimed past the ceiling only by as many drains as were  *)
(* cut short: the ceiling is tested when a failure is recorded, not when a *)
(* row is claimed.                                                         *)
CeilingKept ==
  Sized => \A r \in Rows :
    /\ dead[r] => refused[r] \/ attempts[r] >= MaxAttempts
    /\ attempts[r] <= MaxAttempts + disruptions

Served(w, ws) == Cardinality({r \in batch[w] \ left[w] : WorkspaceOf[r] = ws})

(* Within a drain no workspace is two rows ahead of one that still has a   *)
(* row waiting: the order of the ranking survives the RETURNING and the    *)
(* re-sort after it.                                                       *)
FairDispatch ==
  \A w \in Relays : \A r \in left[w], q \in batch[w] \ left[w] :
    Served(w, WorkspaceOf[q]) <= Served(w, WorkspaceOf[r]) + 1

RankedBy(w) == candidates[w] = {} /\ candidates'[w] # {}
ClaimedBy(w) == left[w] = {} /\ left'[w] # {}

(* P has two rows of one workspace, and E rows of one that has none in P. *)
ShutsOut(P, E) ==
  /\ \E p, q \in P : p # q /\ WorkspaceOf[p] = WorkspaceOf[q]
  /\ \E e \in E : \A p \in P : WorkspaceOf[p] # WorkspaceOf[e]

(* The candidates of the workspaces no other relay has taken from since    *)
(* this one ranked.                                                        *)
Untouched(w) ==
  {r \in candidates[w] : \A q \in candidates[w] :
     WorkspaceOf[q] = WorkspaceOf[r] => Due(q)}

(* Neither the ranking nor the claim takes two rows of one workspace and   *)
(* leaves out another that had a due row, unless a relay that claimed in   *)
(* between served it: one import does not shut out everybody else.         *)
NoTenantShutOut ==
  [][\A w \in Relays :
       /\ RankedBy(w) => ~ShutsOut(candidates'[w], DueRows)
       /\ ClaimedBy(w) => ~ShutsOut(left'[w], Untouched(w))]_vars

(* The relays implement the contract of the outbox, settling every         *)
(* committed row included, when the lease outlasts a batch.                *)
Contract == INSTANCE OutboxContract WITH
  status <- [r \in Rows |->
    IF stored[r] = "absent" THEN "absent"
    ELSE IF stored[r] = "purged" THEN "purged"
    ELSE IF delivered[r] THEN "delivered"
    ELSE IF dead[r] THEN "abandoned"
    ELSE "pending"],
  sent <- [r \in Rows |-> sends[r] > 0]

ImplementsContract == Contract!Spec
=============================================================================
