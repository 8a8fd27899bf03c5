------------------------------ MODULE AuditChain ------------------------------
(***************************************************************************)
(* The audit chain of one workspace, built behind the write path:          *)
(* packages/core/src/audit/chainer.ts, with the rows appendAudit leaves    *)
(* (operations/operation.ts) and the verdict of audit/chain.ts.            *)
(*                                                                         *)
(* Writers insert rows without a position in transactions of their own.    *)
(* Passes of the chainer, from several processes, give the committed ones  *)
(* a position: an advisory lock, the head of the chain, the oldest pending *)
(* rows, one update after another, the commit that shows them all.         *)
(*                                                                         *)
(* Rows are numbered in id order.  A row's hash covers its seq, its        *)
(* content and the hash before it, so it stands for the row itself: prev   *)
(* holds the row whose hash is in prev_hash, Genesis for sixty-four zeros. *)
(* The unique index on (workspace_id, seq) and the append-only trigger are *)
(* left out: what is shown here holds without them.                        *)
(***************************************************************************)
EXTENDS Integers, FiniteSets

CONSTANTS
  Rows,      \* audit_events of one workspace, in id order
  Passes,    \* processes that may run a pass
  BatchSize, \* CHAIN_BATCH
  MaxCrashes \* bound on passes that die

Genesis == 0

ASSUME ChainConstants ==
  /\ Rows \subseteq Nat \ {Genesis}
  /\ IsFiniteSet(Rows)
  /\ BatchSize \in Nat \ {0}
  /\ MaxCrashes \in Nat

VARIABLES
  row,      \* "none", "open" in a writer's transaction, "committed", "lost"
  seq,      \* the seq column, zero for null
  prev,     \* the prev_hash column, as the row it is the hash of
  stage,    \* per pass: idle, locked, headed or writing
  last,     \* prevHash and seq of the loop: the row chained last
  pending,  \* the rows it read and has not numbered yet
  draft,    \* seq as its own transaction sees it
  draftPrev,\* prev likewise
  late,     \* history: rows that committed after a younger one was read
  crashes

columns == <<seq, prev>>
pass    == <<stage, last, pending, draft, draftPrev>>
vars    == <<row, columns, pass, late, crashes>>

TypeOK ==
  /\ row \in [Rows -> {"none", "open", "committed", "lost"}]
  /\ seq \in [Rows -> Nat]
  /\ prev \in [Rows -> Rows \cup {Genesis}]
  /\ stage \in [Passes -> {"idle", "locked", "headed", "writing"}]
  /\ last \in [Passes -> Rows \cup {Genesis}]
  /\ pending \in [Passes -> SUBSET Rows]
  /\ draft \in [Passes -> [Rows -> Nat]]
  /\ draftPrev \in [Passes -> [Rows -> Rows \cup {Genesis}]]
  /\ late \in [Rows -> BOOLEAN]
  /\ crashes \in 0 .. MaxCrashes

Unchained == [r \in Rows |-> 0]

Init ==
  /\ row = [r \in Rows |-> "none"]
  /\ seq = Unchained
  /\ prev = [r \in Rows |-> Genesis]
  /\ stage = [p \in Passes |-> "idle"]
  /\ last = [p \in Passes |-> Genesis]
  /\ pending = [p \in Passes |-> {}]
  /\ draft = [p \in Passes |-> Unchained]
  /\ draftPrev = [p \in Passes |-> [r \in Rows |-> Genesis]]
  /\ late = [r \in Rows |-> FALSE]
  /\ crashes = 0

------------------------------------------------------------------------------
(* Writers *)

(* appendAudit, in the transaction of the operation.  Ids are minted by    *)
(* several processes, so rows need not appear in id order.                 *)
AppendAudit(r) ==
  /\ row[r] = "none"
  /\ row' = [row EXCEPT ![r] = "open"]
  /\ UNCHANGED <<columns, pass, late, crashes>>

(* Read by a pass, or chained by one already. *)
Taken(q) == seq[q] > 0 \/ \E p \in Passes : q \in pending[p] \/ draft[p][q] > 0

(* The operation commits. *)
CommitRow(r) ==
  /\ row[r] = "open"
  /\ row' = [row EXCEPT ![r] = "committed"]
  /\ late' = [late EXCEPT ![r] = \E q \in Rows : q > r /\ Taken(q)]
  /\ UNCHANGED <<columns, pass, crashes>>

(* The operation rolls back, and its audit row with it. *)
LoseRow(r) ==
  /\ row[r] = "open"
  /\ row' = [row EXCEPT ![r] = "lost"]
  /\ UNCHANGED <<columns, pass, late, crashes>>

------------------------------------------------------------------------------
(* A pass *)

PendingRows == {r \in Rows : row[r] = "committed" /\ seq[r] = 0}

(* Mutant: passes do not exclude one another. *)
MutLockNobody(p) ==
  /\ stage[p] = "idle" /\ PendingRows # {}
  /\ stage' = [stage EXCEPT ![p] = "locked"]
  /\ UNCHANGED <<row, columns, last, pending, draft, draftPrev, late, crashes>>

(* pg_advisory_xact_lock, held to the end of the transaction.  Passes over *)
(* a workspace with nothing pending change nothing and are not modelled.   *)
Lock(p) ==
  /\ stage[p] = "idle" /\ PendingRows # {}
  /\ \A other \in Passes : stage[other] = "idle"
  /\ stage' = [stage EXCEPT ![p] = "locked"]
  /\ UNCHANGED <<row, columns, last, pending, draft, draftPrev, late, crashes>>

(* order by seq desc limit 1, among the rows that have one *)
IsHead(h) ==
  IF h = Genesis THEN \A r \in Rows : seq[r] = 0
                 ELSE seq[h] > 0 /\ \A r \in Rows : seq[r] <= seq[h]

ReadHead(p) ==
  /\ stage[p] = "locked"
  /\ \E h \in Rows \cup {Genesis} :
       IsHead(h) /\ last' = [last EXCEPT ![p] = h]
  /\ stage' = [stage EXCEPT ![p] = "headed"]
  /\ draft' = [draft EXCEPT ![p] = seq]
  /\ draftPrev' = [draftPrev EXCEPT ![p] = prev]
  /\ UNCHANGED <<row, columns, pending, late, crashes>>

(* Mutant: a pass takes full batches, and the tail stays a tail. *)
MutFullBatch(p, S) ==
  /\ S \subseteq PendingRows
  /\ \A r \in S, q \in PendingRows \ S : r < q
  /\ Cardinality(S) = BatchSize

(* where seq is null order by id limit BatchSize *)
IsBatch(p, S) ==
  /\ S \subseteq PendingRows
  /\ \A r \in S, q \in PendingRows \ S : r < q
  /\ Cardinality(S) <= BatchSize
  /\ S = PendingRows \/ Cardinality(S) = BatchSize

ReadPending(p) ==
  /\ stage[p] = "headed"
  /\ \E S \in SUBSET PendingRows :
       IsBatch(p, S) /\ pending' = [pending EXCEPT ![p] = S]
  /\ stage' = [stage EXCEPT ![p] = "writing"]
  /\ UNCHANGED <<row, columns, last, draft, draftPrev, late, crashes>>

(* Mutant: prevHash stays the head's for the whole batch. *)
MutPrevOfHead(p, r) ==
  draftPrev' = [draftPrev EXCEPT ![p][r] =
    IF \E h \in Rows : IsHead(h) THEN CHOOSE h \in Rows : IsHead(h)
                                 ELSE Genesis]

LinkTo(p, r) == draftPrev' = [draftPrev EXCEPT ![p][r] = last[p]]

SeqOf(p, x) == IF x = Genesis THEN 0 ELSE draft[p][x]

(* Mutant: the loop takes the rows as they come. *)
MutAnyNext(p, r) == r \in pending[p]

IsNext(p, r) == r \in pending[p] /\ \A q \in pending[p] : r <= q

(* One turn of the loop, seen by nobody else yet. *)
Number(p, r) ==
  /\ stage[p] = "writing"
  /\ IsNext(p, r)
  /\ draft' = [draft EXCEPT ![p][r] = SeqOf(p, last[p]) + 1]
  /\ LinkTo(p, r)
  /\ last' = [last EXCEPT ![p] = r]
  /\ pending' = [pending EXCEPT ![p] = @ \ {r}]
  /\ UNCHANGED <<row, columns, stage, late, crashes>>

EndPass(p) ==
  /\ stage' = [stage EXCEPT ![p] = "idle"]
  /\ last' = [last EXCEPT ![p] = Genesis]
  /\ pending' = [pending EXCEPT ![p] = {}]
  /\ draft' = [draft EXCEPT ![p] = Unchained]
  /\ draftPrev' = [draftPrev EXCEPT ![p] = [r \in Rows |-> Genesis]]

(* The commit: the updates show, and the lock is gone.  The next turn of   *)
(* the outer loop, or the next pass, locks again.                          *)
CommitPass(p) ==
  /\ stage[p] = "writing" /\ pending[p] = {}
  /\ seq' = [r \in Rows |-> IF draft[p][r] > 0 THEN draft[p][r] ELSE seq[r]]
  /\ prev' = [r \in Rows |->
                IF draft[p][r] > 0 THEN draftPrev[p][r] ELSE prev[r]]
  /\ EndPass(p)
  /\ UNCHANGED <<row, late, crashes>>

(* "A pass that dies halfway leaves a shorter chain and a longer tail." *)
CrashPass(p) ==
  /\ stage[p] # "idle" /\ crashes < MaxCrashes
  /\ crashes' = crashes + 1
  /\ EndPass(p)
  /\ UNCHANGED <<row, columns, late>>

PassStep(p) ==
  \/ Lock(p)
  \/ ReadHead(p)
  \/ ReadPending(p)
  \/ \E r \in Rows : Number(p, r)
  \/ CommitPass(p)

Next ==
  \/ \E r \in Rows : AppendAudit(r) \/ CommitRow(r) \/ LoseRow(r)
  \/ \E p \in Passes : PassStep(p) \/ CrashPass(p)

(* The scheduler starts a pass of every workspace each minute, and a pass  *)
(* that runs comes to its end.  No writer has to write or to commit.       *)
Fairness == WF_vars(\E p \in Passes : PassStep(p))

Spec == Init /\ [][Next]_vars /\ Fairness

------------------------------------------------------------------------------
(* Properties *)

(* verifyChain over columns s and p: sequence numbers start at one, have   *)
(* no gap and no repetition, and every row carries the hash of the one     *)
(* before it.                                                              *)
Verifies(s, p) ==
  /\ \A r, q \in Rows : s[r] > 0 /\ s[r] = s[q] => r = q
  /\ \A r \in Rows : s[r] = 1 => p[r] = Genesis
  /\ \A r \in Rows : s[r] > 1 => p[r] \in Rows /\ s[p[r]] = s[r] - 1

(* Whoever verifies the chain, at whatever moment, finds it sound: with    *)
(* passes overlapping, dying halfway and writers committing meanwhile.     *)
ChainVerifies == Verifies(seq, prev)

(* A position, once committed, is never given again or moved, so a hash    *)
(* copied out of the instance stays the hash of its row.                   *)
PositionsAreForever ==
  [][\A r \in Rows : seq[r] > 0 =>
       seq'[r] = seq[r] /\ prev'[r] = prev[r]]_vars

(* "Insertion order is id order": rows are chained in the order they were  *)
(* minted in, but for one whose operation committed after a younger row    *)
(* had been read by a pass.                                                *)
OutOfOrderExplained ==
  \A r, q \in Rows : r < q /\ seq[q] > 0 /\ seq[r] > seq[q] => late[r]

(* No committed row is left without a position, however late it came: a    *)
(* pass catches up again and again.                                        *)
EveryRowChained ==
  []<>(\A r \in Rows : row[r] = "committed" => seq[r] > 0)

(* The committed chain as an auditor reads it, from its first position to  *)
(* its head.                                                               *)
ChainHead == CHOOSE h \in Rows \cup {Genesis} : IsHead(h)
Height    == IF ChainHead = Genesis THEN 0 ELSE seq[ChainHead]
Trail     == [n \in 1 .. Height |-> CHOOSE r \in Rows : seq[r] = n]

Ledger == INSTANCE AuditLedger WITH
  Most  <- Cardinality(Rows),
  done  <- {r \in Rows : row[r] = "committed"},
  trail <- Trail

(* The passes keep the ledger: one list of what was done, written to at    *)
(* its end only, nothing twice in it and nothing that was not done.        *)
ImplementsLedger == Ledger!Spec
=============================================================================
