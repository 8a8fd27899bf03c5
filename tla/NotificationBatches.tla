-------------------------- MODULE NotificationBatches --------------------------
(***************************************************************************)
(* The batches that turn one member's notifications on one channel into a  *)
(* mail: ensurePendingBatch and notifyRecipients (core/src/notifications), *)
(* claimDueBatches, run by notifications.drainBatches, and sendDigest      *)
(* (core/src/outbox/handlers.ts) with digestItemsFor.                      *)
(*                                                                         *)
(* A notification is written by an operation whose transaction finds or    *)
(* makes the pending batch and commits later; a batch is claimed with the  *)
(* outbox row of its digest in one transaction; the digest reads whatever  *)
(* is in the batch when it is delivered, each time it is delivered: the    *)
(* oldest rows up to one more than a mail may list, less those the member  *)
(* may not see at that moment.                                             *)
(***************************************************************************)
EXTENDS Integers, FiniteSets

CONSTANTS
  Notes,    \* notifications to be batched, each by one operation, the oldest
            \* (created_at, id) the smallest
  Batches,  \* rows of notification_batches
  NoBatch,
  LineLimit \* DIGEST_ITEM_LIMIT, 20 in the code

ASSUME BatchConstants ==
  /\ Notes \subseteq Nat
  /\ NoBatch \notin Batches
  /\ LineLimit \in Nat \ {0}

VARIABLES
  batch,    \* per batch: none, open (not committed), pending, sent
  due,      \* batches whose window has closed
  digest,   \* digests in the outbox that are not settled
  note,     \* per notification: none, writing, lost, placed, committed
  into,     \* the batch it was given
  fate,     \* history: what became of it when the digest was last read
  unsent    \* history: digests settled in the outbox without a mail

batchVars == <<batch, due, digest, note, into, fate, unsent>>

(* A mail listed it, once and for all; or the digest was read while its    *)
(* operation had not committed (straddled), the member might not see it    *)
(* (hidden), or it was beyond what a mail may list (cut).                  *)
Fates == {"none", "mailed", "straddled", "hidden", "cut"}

BatchTypeOK ==
  /\ batch \in [Batches -> {"none", "open", "pending", "sent"}]
  /\ due \subseteq Batches /\ digest \subseteq Batches
  /\ note \in [Notes -> {"none", "looking", "lost", "placed", "committed"}]
  /\ into \in [Notes -> Batches \cup {NoBatch}]
  /\ fate \in [Notes -> Fates] /\ unsent \subseteq Batches

BatchInit ==
  /\ batch = [b \in Batches |-> "none"]
  /\ due = {} /\ digest = {}
  /\ note = [n \in Notes |-> "none"]
  /\ into = [n \in Notes |-> NoBatch]
  /\ fate = [n \in Notes |-> "none"] /\ unsent = {}

Place(n, b) ==
  /\ note' = [note EXCEPT ![n] = "placed"]
  /\ into' = [into EXCEPT ![n] = b]

(* Mutant: the look-up forgets the status. *)
MutFindBatch(n) ==
  /\ note[n] \in {"none", "lost"}
  /\ IF \E b \in Batches : batch[b] \in {"pending", "sent"}
       THEN \E b \in Batches : batch[b] \in {"pending", "sent"} /\ Place(n, b)
       ELSE note' = [note EXCEPT ![n] = "looking"] /\ UNCHANGED into
  /\ UNCHANGED <<batch, due, digest, fate, unsent>>

(* The first look-up, and the second after a lost insert, which throws if  *)
(* the winner's batch has been claimed meanwhile.                          *)
FindBatch(n) ==
  /\ note[n] \in {"none", "lost"}
  /\ IF \E b \in Batches : batch[b] = "pending"
       THEN \E b \in Batches : batch[b] = "pending" /\ Place(n, b)
       ELSE /\ note' = [note EXCEPT ![n] =
                 IF @ = "none" THEN "looking" ELSE "none"]
            /\ UNCHANGED into
  /\ UNCHANGED <<batch, due, digest, fate, unsent>>

(* on conflict do nothing: it waits for an insert under way and loses to a *)
(* pending batch, by notification_batches_one_pending_idx.                 *)
MakeBatch(n) ==
  /\ note[n] = "looking"
  /\ \A b \in Batches : batch[b] # "open"
  /\ IF \E b \in Batches : batch[b] = "pending"
       THEN note' = [note EXCEPT ![n] = "lost"] /\ UNCHANGED <<batch, into>>
       ELSE \E b \in Batches :
              /\ batch[b] = "none"
              /\ batch' = [batch EXCEPT ![b] = "open"]
              /\ Place(n, b)
  /\ UNCHANGED <<due, digest, fate, unsent>>

CommitNote(n) ==
  /\ note[n] = "placed"
  /\ note' = [note EXCEPT ![n] = "committed"]
  /\ batch' = [batch EXCEPT ![into[n]] = IF @ = "open" THEN "pending" ELSE @]
  /\ UNCHANGED <<due, digest, into, fate, unsent>>

(* The operation rolls back, with the batch if that was its own. *)
AbortNote(n) ==
  /\ note[n] \in {"looking", "lost", "placed"}
  /\ note' = [note EXCEPT ![n] = "none"]
  /\ into' = [into EXCEPT ![n] = NoBatch]
  /\ batch' = [b \in Batches |->
       IF batch[b] = "open" /\ into[n] = b THEN "none" ELSE batch[b]]
  /\ fate' = [fate EXCEPT ![n] = "none"]
  /\ UNCHANGED <<due, digest, unsent>>

WindowCloses(b) ==
  /\ batch[b] = "pending" /\ b \notin due
  /\ due' = due \cup {b}
  /\ UNCHANGED <<batch, digest, note, into, fate, unsent>>

(* Mutant: the claim and its outbox row are not one transaction. *)
MutClaimBatch(b) ==
  /\ batch[b] = "pending" /\ b \in due
  /\ batch' = [batch EXCEPT ![b] = "sent"]
  /\ digest' \in {digest, digest \cup {b}}
  /\ UNCHANGED <<due, note, into, fate, unsent>>

(* The update says "still pending": of two drains one gets the batch. *)
ClaimBatch(b) ==
  /\ batch[b] = "pending" /\ b \in due
  /\ batch' = [batch EXCEPT ![b] = "sent"]
  /\ digest' = digest \cup {b}
  /\ UNCHANGED <<due, note, into, fate, unsent>>

(* The k oldest of S. *)
Oldest(k, S) == {n \in S : Cardinality({m \in S : m < n}) < k}

(* digestItemsFor reads what is committed, one row beyond the limit, and   *)
(* only then asks what the member may see: a hidden row takes the place of *)
(* a later one that could be seen.  The mail says how many of the rows     *)
(* read it leaves out; of those behind them it knows nothing.  The relay   *)
(* may deliver the row again.                                              *)
SendDigest(b) ==
  /\ b \in digest
  /\ \E visible \in SUBSET Notes :
       LET rows   == Oldest(LineLimit + 1,
                            {n \in Notes : note[n] = "committed" /\ into[n] = b})
           listed == Oldest(LineLimit, rows \cap visible)
       IN  fate' = [n \in Notes |->
             IF into[n] # b \/ fate[n] = "mailed" THEN fate[n]
             ELSE IF note[n] = "placed" THEN "straddled"
             ELSE IF n \in listed THEN "mailed"
             ELSE IF n \in visible THEN "cut" ELSE "hidden"]
  /\ digest' \in {digest, digest \ {b}}
  /\ UNCHANGED <<batch, due, note, into, unsent>>

(* The outbox row is settled without a mail: acknowledged because the      *)
(* instance's mail settings cannot be read or the member has no address,   *)
(* or dead-lettered at the relay's ceiling.  Nothing writes another.       *)
SettleUnsent(b) ==
  /\ b \in digest
  /\ digest' = digest \ {b}
  /\ unsent' = unsent \cup {b}
  /\ UNCHANGED <<batch, due, note, into, fate>>

BatchNext ==
  \/ \E n \in Notes :
       FindBatch(n) \/ MakeBatch(n) \/ CommitNote(n) \/ AbortNote(n)
  \/ \E b \in Batches :
       WindowCloses(b) \/ ClaimBatch(b) \/ SendDigest(b) \/ SettleUnsent(b)

BatchSpec == BatchInit /\ [][BatchNext]_batchVars

------------------------------------------------------------------------------
(* Properties *)

(* The older notifications of its batch. *)
Elders(n) ==
  {m \in Notes : note[m] = "committed" /\ into[m] = into[n] /\ m < n}

(* A notification that committed is on its way to a mail, its batch        *)
(* waiting for its window or the batch's digest for its delivery, until    *)
(* that digest was settled without a mail or was read.  Then a mail listed *)
(* it, or the member might not see it, or its operation was still open, or *)
(* its batch holds as many older ones as a mail may list.  No batch holds  *)
(* up another: at most one is pending.                                     *)
NothingForgotten ==
  /\ \A n \in Notes : note[n] = "committed" =>
       \/ fate[n] # "none"
       \/ batch[into[n]] = "pending"
       \/ into[n] \in digest \cup unsent
  /\ \A n \in Notes :
       fate[n] = "cut" => Cardinality(Elders(n)) >= LineLimit
  /\ \A b, c \in Batches :
       {batch[b], batch[c]} \subseteq {"open", "pending"} => b = c
=============================================================================
