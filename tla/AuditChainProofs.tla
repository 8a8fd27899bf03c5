--------------------------- MODULE AuditChainProofs ---------------------------
(***************************************************************************)
(* The audit chain verifies at every moment and is only ever extended, for *)
(* every number of rows, passes and crashes and every batch size.          *)
(*                                                                         *)
(* What verifies is not only the committed chain but the uncommitted one   *)
(* of the pass that holds the lock (Drafts): its last row is the head of   *)
(* what it sees, and what it sees extends what everybody sees.             *)
(*                                                                         *)
(* Their order holds because what a pass leaves out of its batch, below a  *)
(* row it takes, is late or not committed yet; and a row that commits once *)
(* a younger one was taken is late for good.                               *)
(***************************************************************************)
EXTENDS AuditChain, FiniteSetTheorems, SequenceTheorems, TLAPS

(* last[p] is the head of the chain s *)
Heads(h, s) ==
  IF h = Genesis THEN \A r \in Rows : s[r] = 0
                 ELSE s[h] > 0 /\ \A r \in Rows : s[r] <= s[h]

(* One pass at a time. *)
Locked ==
  \A p, o \in Passes : stage[p] # "idle" /\ stage[o] # "idle" => p = o

(* A pass that has read the head works on a sound extension of the chain.  *)
DraftOf(p) ==
  /\ Verifies(draft[p], draftPrev[p])
  /\ Heads(last[p], draft[p])
  /\ \A r \in Rows : seq[r] > 0 =>
       draft[p][r] = seq[r] /\ draftPrev[p][r] = prev[r]
  /\ \A r \in pending[p] : draft[p][r] = 0

Drafts ==
  \A p \in Passes :
    /\ stage[p] \in {"headed", "writing"} => DraftOf(p)
    /\ stage[p] = "headed" => draft[p] = seq
    /\ stage[p] # "writing" => pending[p] = {}

ChainInv == Locked /\ ChainVerifies /\ Drafts

------------------------------------------------------------------------------
(* Type correctness *)

LEMMA TypeInit == Init => TypeOK
  BY ChainConstants DEF Init, TypeOK, Unchained, Genesis

LEMMA TypeStep == TypeOK /\ [Next]_vars => TypeOK'
<1> SUFFICES ASSUME TypeOK, [Next]_vars PROVE TypeOK'
  OBVIOUS
<1> USE ChainConstants DEF TypeOK, Genesis
<1>1. ASSUME NEW r \in Rows, AppendAudit(r) PROVE TypeOK'
  BY <1>1 DEF AppendAudit, columns, pass
<1>2. ASSUME NEW r \in Rows, CommitRow(r) PROVE TypeOK'
  BY <1>2 DEF CommitRow, columns, pass
<1>3. ASSUME NEW r \in Rows, LoseRow(r) PROVE TypeOK'
  BY <1>3 DEF LoseRow, columns, pass
<1>4. ASSUME NEW p \in Passes, Lock(p) PROVE TypeOK'
  BY <1>4 DEF Lock, columns
<1>5. ASSUME NEW p \in Passes, ReadHead(p) PROVE TypeOK'
  BY <1>5 DEF ReadHead, columns
<1>6. ASSUME NEW p \in Passes, ReadPending(p) PROVE TypeOK'
  BY <1>6 DEF ReadPending, PendingRows, columns
<1>7. ASSUME NEW p \in Passes, NEW r \in Rows, Number(p, r) PROVE TypeOK'
  <2>1. SeqOf(p, last[p]) \in Nat
    <3>1. last[p] \in Rows \cup {0} /\ draft[p] \in [Rows -> Nat]
      OBVIOUS
    <3> QED
      BY <3>1 DEF SeqOf
  <2>2. draft' \in [Passes -> [Rows -> Nat]]
    BY <1>7, <2>1 DEF Number
  <2>3. draftPrev' \in [Passes -> [Rows -> Rows \cup {0}]]
    BY <1>7 DEF Number, LinkTo
  <2> QED
    BY <1>7, <2>2, <2>3 DEF Number, columns
<1>8. ASSUME NEW p \in Passes, CommitPass(p) PROVE TypeOK'
  BY <1>8 DEF CommitPass, EndPass, Unchained
<1>9. ASSUME NEW p \in Passes, CrashPass(p) PROVE TypeOK'
  BY <1>9 DEF CrashPass, EndPass, Unchained, columns
<1>10. CASE UNCHANGED vars
  BY <1>10 DEF vars, columns, pass
<1> QED
  BY <1>1, <1>2, <1>3, <1>4, <1>5, <1>6, <1>7, <1>8, <1>9, <1>10
  DEF Next, PassStep

(* The columns hold what their types allow, in every state of the chain.   *)
THEOREM TypeCorrect == Spec => []TypeOK
  BY TypeInit, TypeStep, PTL DEF Spec

------------------------------------------------------------------------------
(* Facts about chains *)

(* Numbering the next row after the head extends a sound chain.            *)
LEMMA Extension ==
  ASSUME NEW s \in [Rows -> Nat], NEW p \in [Rows -> Rows \cup {Genesis}],
         NEW h \in Rows \cup {Genesis}, NEW r \in Rows,
         Verifies(s, p), Heads(h, s), s[r] = 0,
         NEW n, n = (IF h = Genesis THEN 0 ELSE s[h]) + 1
  PROVE  /\ Verifies([s EXCEPT ![r] = n], [p EXCEPT ![r] = h])
         /\ Heads(r, [s EXCEPT ![r] = n])
<1> USE ChainConstants DEF Genesis, Heads
<1> DEFINE t == [s EXCEPT ![r] = n]
           q == [p EXCEPT ![r] = h]
<1>1. /\ n \in Nat /\ n > 0
      /\ \A x \in Rows : s[x] < n
      /\ r # 0
  OBVIOUS
<1>2. /\ t[r] = n /\ q[r] = h
      /\ \A x \in Rows : x # r => t[x] = s[x] /\ q[x] = p[x]
      /\ t \in [Rows -> Nat]
  BY <1>1
<1>3. \A x, y \in Rows : t[x] > 0 /\ t[x] = t[y] => x = y
  BY <1>1, <1>2 DEF Verifies
<1>4. \A x \in Rows : t[x] = 1 => q[x] = Genesis
  BY <1>1, <1>2 DEF Verifies
<1>5. ASSUME NEW x \in Rows, t[x] > 1
      PROVE  q[x] \in Rows /\ t[q[x]] = t[x] - 1
  <2>1. CASE x = r
    BY <1>1, <1>2, <1>5, <2>1
  <2>2. CASE x # r
    <3>1. s[x] > 1 /\ p[x] \in Rows /\ s[p[x]] = s[x] - 1
      BY <1>2, <1>5, <2>2 DEF Verifies
    <3>2. p[x] # r
      BY <3>1
    <3> QED
      BY <1>2, <2>2, <3>1, <3>2
  <2> QED
    BY <2>1, <2>2
<1>6. Heads(r, t)
  BY <1>1, <1>2
<1> QED
  BY <1>3, <1>4, <1>5, <1>6 DEF Verifies

------------------------------------------------------------------------------
(* The invariant *)

LEMMA ChainInit == Init => ChainInv
  BY ChainConstants
  DEF Init, ChainInv, Locked, ChainVerifies, Verifies, Drafts, Unchained,
      Genesis

(* A step that leaves the columns and every pass alone. *)
LEMMA WriterStep ==
  ChainInv /\ UNCHANGED <<columns, pass>> => ChainInv'
  BY DEF ChainInv, Locked, ChainVerifies, Verifies, Drafts, DraftOf, Heads,
         columns, pass

LEMMA LockStep ==
  ASSUME TypeOK, ChainInv, NEW p \in Passes, Lock(p)
  PROVE  ChainInv'
<1>1. Locked'
  BY DEF Lock, Locked, TypeOK
<1>2. ChainVerifies'
  BY DEF Lock, ChainInv, ChainVerifies, Verifies, columns
<1>3. \A o \in Passes : stage'[o] \notin {"headed", "writing"}
  BY DEF Lock, TypeOK
<1>4. UNCHANGED pending /\ \A o \in Passes : stage[o] # "writing"
  BY DEF Lock
<1> QED
  BY <1>1, <1>2, <1>3, <1>4 DEF ChainInv, Drafts

LEMMA ReadHeadStep ==
  ASSUME TypeOK, ChainInv, NEW p \in Passes, ReadHead(p)
  PROVE  ChainInv'
<1> USE ChainConstants DEF TypeOK, Genesis
<1>1. Locked'
  BY DEF ReadHead, ChainInv, Locked
<1>2. ChainVerifies'
  BY DEF ReadHead, ChainInv, ChainVerifies, Verifies, columns
<1>3. \A o \in Passes : o # p => stage'[o] = "idle"
  BY DEF ReadHead, ChainInv, Locked
<1>4. /\ draft'[p] = seq /\ draftPrev'[p] = prev
      /\ seq' = seq /\ prev' = prev
      /\ pending'[p] = {} /\ IsHead(last'[p])
  <2>1. pending[p] = {}
    BY DEF ReadHead, ChainInv, Drafts
  <2> QED
    BY <2>1 DEF ReadHead, columns
<1>5. DraftOf(p)'
  BY <1>4 DEF DraftOf, Heads, IsHead, ChainInv, ChainVerifies, Verifies
<1>6. \A o \in Passes : stage'[o] # "writing" => pending'[o] = {}
  <2> SUFFICES ASSUME NEW o \in Passes PROVE pending'[o] = {}
    OBVIOUS
  <2>1. stage[o] # "writing" /\ UNCHANGED pending
    BY DEF ReadHead, ChainInv, Locked
  <2> QED
    BY <2>1 DEF ChainInv, Drafts
<1> QED
  BY <1>1, <1>2, <1>3, <1>4, <1>5, <1>6 DEF ChainInv, Drafts

LEMMA ReadPendingStep ==
  ASSUME TypeOK, ChainInv, NEW p \in Passes, ReadPending(p)
  PROVE  ChainInv'
<1> USE ChainConstants DEF TypeOK, Genesis
<1>1. Locked'
  BY DEF ReadPending, ChainInv, Locked
<1>2. ChainVerifies'
  BY DEF ReadPending, ChainInv, ChainVerifies, Verifies, columns
<1>3. \A o \in Passes : o # p => stage[o] = "idle" /\ stage'[o] = "idle"
  BY DEF ReadPending, ChainInv, Locked
<1>4. /\ DraftOf(p) /\ draft[p] = seq
      /\ UNCHANGED <<seq, prev, draft, draftPrev, last>>
      /\ stage'[p] = "writing"
  BY DEF ReadPending, ChainInv, Drafts, columns
<1>5. \A r \in pending'[p] : draft'[p][r] = 0
  BY <1>4 DEF ReadPending, PendingRows
<1>6. DraftOf(p)'
  BY <1>4, <1>5 DEF DraftOf, Heads, Verifies
<1>7. \A o \in Passes : o # p => pending'[o] = {}
  BY <1>3 DEF ReadPending, ChainInv, Drafts
<1> QED
  BY <1>1, <1>2, <1>3, <1>4, <1>6, <1>7 DEF ChainInv, Drafts

LEMMA NumberStep ==
  ASSUME TypeOK, ChainInv, NEW p \in Passes, NEW r \in Rows, Number(p, r)
  PROVE  ChainInv'
<1> USE DEF TypeOK
<1> DEFINE n == SeqOf(p, last[p]) + 1
<1>1. Locked'
  BY DEF Number, ChainInv, Locked
<1>2. ChainVerifies'
  BY DEF Number, ChainInv, ChainVerifies, Verifies, columns
<1>3. \A o \in Passes : o # p => stage[o] = "idle" /\ stage'[o] = "idle"
  BY DEF Number, ChainInv, Locked
<1>4. /\ DraftOf(p) /\ draft[p][r] = 0 /\ r \in pending[p]
      /\ stage'[p] = "writing"
      /\ UNCHANGED <<seq, prev, stage>>
  BY DEF Number, IsNext, ChainInv, Drafts, DraftOf, columns
<1>5. /\ draft'[p] = [draft[p] EXCEPT ![r] = n]
      /\ draftPrev'[p] = [draftPrev[p] EXCEPT ![r] = last[p]]
      /\ last'[p] = r
      /\ pending'[p] = pending[p] \ {r}
  BY DEF Number, LinkTo
<1>6. Verifies(draft'[p], draftPrev'[p]) /\ Heads(last'[p], draft'[p])
  <2>1. /\ Verifies(draft[p], draftPrev[p]) /\ Heads(last[p], draft[p])
        /\ n = (IF last[p] = Genesis THEN 0 ELSE draft[p][last[p]]) + 1
    BY <1>4 DEF DraftOf, SeqOf
  <2>2. /\ draft[p] \in [Rows -> Nat]
        /\ draftPrev[p] \in [Rows -> Rows \cup {Genesis}]
        /\ last[p] \in Rows \cup {Genesis}
    OBVIOUS
  <2>3. /\ Verifies([draft[p] EXCEPT ![r] = n],
                    [draftPrev[p] EXCEPT ![r] = last[p]])
        /\ Heads(r, [draft[p] EXCEPT ![r] = n])
    <3> HIDE DEF n, TypeOK
    <3> QED
      BY <1>4, <2>1, <2>2, Extension
  <2> QED
    BY <1>5, <2>3
<1>7. \A x \in Rows : seq'[x] > 0 =>
        draft'[p][x] = seq'[x] /\ draftPrev'[p][x] = prev'[x]
  <2> SUFFICES ASSUME NEW x \in Rows, seq[x] > 0
               PROVE  draft'[p][x] = seq[x] /\ draftPrev'[p][x] = prev[x]
    BY <1>4
  <2>1. draft[p][x] = seq[x] /\ draftPrev[p][x] = prev[x] /\ x # r
    BY <1>4 DEF DraftOf
  <2> HIDE DEF n
  <2> QED
    BY <1>5, <2>1
<1>8. \A x \in pending'[p] : draft'[p][x] = 0
  <2> HIDE DEF n
  <2> QED
    BY <1>4, <1>5 DEF DraftOf
<1>9. DraftOf(p)'
  BY <1>6, <1>7, <1>8 DEF DraftOf, Heads, Verifies
<1>10. \A o \in Passes : o # p => pending'[o] = {}
  BY <1>3 DEF Number, ChainInv, Drafts
<1> QED
  BY <1>1, <1>2, <1>3, <1>4, <1>9, <1>10 DEF ChainInv, Drafts

(* Nobody works on a draft when the pass that held the lock has ended. *)
LEMMA EndStep ==
  ASSUME TypeOK, ChainInv, NEW p \in Passes, stage[p] # "idle", EndPass(p)
  PROVE  /\ Locked'
         /\ \A o \in Passes : stage'[o] = "idle" /\ pending'[o] = {}
<1>1. \A o \in Passes : stage'[o] = "idle"
  BY DEF EndPass, ChainInv, Locked, TypeOK
<1>2. \A o \in Passes : pending'[o] = {}
  BY DEF EndPass, ChainInv, Locked, Drafts, TypeOK
<1> QED
  BY <1>1, <1>2 DEF Locked

(* What a pass commits is its draft. *)
LEMMA CommitShows ==
  ASSUME TypeOK, ChainInv, NEW p \in Passes, CommitPass(p)
  PROVE  /\ \A r \in Rows : seq'[r] = draft[p][r]
         /\ \A r \in Rows : seq'[r] > 0 => prev'[r] = draftPrev[p][r]
         /\ DraftOf(p)
<1> USE DEF TypeOK
<1>1. DraftOf(p)
  BY DEF CommitPass, ChainInv, Drafts
<1>2. \A r \in Rows : draft[p][r] \in Nat /\ seq[r] \in Nat
  OBVIOUS
<1> QED
  BY <1>1, <1>2 DEF CommitPass, DraftOf

LEMMA CommitPassStep ==
  ASSUME TypeOK, ChainInv, NEW p \in Passes, CommitPass(p)
  PROVE  ChainInv'
<1>1. /\ Locked'
      /\ \A o \in Passes : stage'[o] = "idle" /\ pending'[o] = {}
  BY EndStep DEF CommitPass
<1>2. /\ \A r \in Rows : seq'[r] = draft[p][r]
      /\ \A r \in Rows : seq'[r] > 0 => prev'[r] = draftPrev[p][r]
      /\ Verifies(draft[p], draftPrev[p])
  BY CommitShows DEF DraftOf
<1>3. \A r \in Rows : draft[p][r] \in Nat
  BY DEF TypeOK
<1>4. ChainVerifies'
  BY <1>2, <1>3 DEF ChainVerifies, Verifies
<1> QED
  BY <1>1, <1>4 DEF ChainInv, Drafts

LEMMA CrashPassStep ==
  ASSUME TypeOK, ChainInv, NEW p \in Passes, CrashPass(p)
  PROVE  ChainInv'
<1>1. /\ Locked'
      /\ \A o \in Passes : stage'[o] = "idle" /\ pending'[o] = {}
  BY EndStep DEF CrashPass
<1>2. ChainVerifies'
  BY DEF CrashPass, ChainInv, ChainVerifies, Verifies, columns
<1> QED
  BY <1>1, <1>2 DEF ChainInv, Drafts

LEMMA ChainStep == TypeOK /\ ChainInv /\ [Next]_vars => ChainInv'
<1> SUFFICES ASSUME TypeOK, ChainInv, [Next]_vars PROVE ChainInv'
  OBVIOUS
<1>1. CASE \E r \in Rows : AppendAudit(r) \/ CommitRow(r) \/ LoseRow(r)
  BY <1>1, WriterStep DEF AppendAudit, CommitRow, LoseRow
<1>2. ASSUME NEW p \in Passes, PassStep(p) PROVE ChainInv'
  BY <1>2, LockStep, ReadHeadStep, ReadPendingStep, NumberStep, CommitPassStep
  DEF PassStep
<1>3. ASSUME NEW p \in Passes, CrashPass(p) PROVE ChainInv'
  BY <1>3, CrashPassStep
<1>4. CASE UNCHANGED vars
  BY <1>4, WriterStep DEF vars
<1> QED
  BY <1>1, <1>2, <1>3, <1>4 DEF Next

LEMMA Invariant == Spec => [](TypeOK /\ ChainInv)
<1>1. Init => TypeOK /\ ChainInv
  BY TypeInit, ChainInit
<1>2. TypeOK /\ ChainInv /\ [Next]_vars => (TypeOK /\ ChainInv)'
  BY TypeStep, ChainStep
<1> QED
  BY <1>1, <1>2, PTL DEF Spec

(* verifyWorkspaceChain never reports a break of a chain nobody tampered   *)
(* with, whatever passes and writers do at that moment.                    *)
THEOREM ChainSound == Spec => []ChainVerifies
  BY Invariant, PTL DEF ChainInv

(* Passes only ever extend the chain: no position is given twice or moved. *)
THEOREM ChainOnlyGrows == Spec => PositionsAreForever
<1> DEFINE Forever == \A r \in Rows : seq[r] > 0 =>
                        seq'[r] = seq[r] /\ prev'[r] = prev[r]
<1>1. TypeOK /\ ChainInv /\ Next => Forever
  <2> SUFFICES ASSUME TypeOK, ChainInv, Next PROVE Forever
    OBVIOUS
  <2>1. ASSUME NEW p \in Passes, CommitPass(p) PROVE Forever
    BY <2>1, CommitShows DEF DraftOf
  <2>2. CASE UNCHANGED columns
    BY <2>2 DEF columns
  <2> QED
    BY <2>1, <2>2 DEF Next, PassStep, AppendAudit, CommitRow, LoseRow, Lock,
       ReadHead, ReadPending, Number, CrashPass
<1>2. TypeOK /\ ChainInv /\ [Next]_vars => [Forever]_vars
  BY <1>1
<1> QED
  BY <1>2, Invariant, PTL DEF Spec, PositionsAreForever

------------------------------------------------------------------------------
(* The order of the chain *)

(* In the chain s no committed row is behind a younger one, or still       *)
(* without a position when a younger one has its own, unless it is late.   *)
Ordered(s) ==
  \A r, q \in Rows :
    r < q /\ s[q] > 0 /\ row[r] = "committed" /\ (s[r] = 0 \/ s[r] > s[q])
      => late[r]

(* A pass that has read its batch skips only rows that come late. *)
BatchOrdered(p) ==
  \A q \in pending[p], r \in Rows \ pending[p] :
    r < q /\ row[r] = "committed" /\ draft[p][r] = 0 => late[r]

(* What is read or chained is committed, so it cannot become late. *)
TakenIsCommitted ==
  /\ \A r \in Rows : seq[r] > 0 => row[r] = "committed"
  /\ \A p \in Passes : \A r \in Rows :
       r \in pending[p] \/ draft[p][r] > 0 => row[r] = "committed"

OrderInv ==
  /\ Ordered(seq)
  /\ \A p \in Passes : stage[p] \in {"headed", "writing"} => Ordered(draft[p])
  /\ \A p \in Passes : BatchOrdered(p)
  /\ TakenIsCommitted

LEMMA OrderInit == Init => OrderInv
  BY DEF Init, Unchained, OrderInv, Ordered, BatchOrdered, TakenIsCommitted

(* A row that commits now is late when a younger one was taken. *)
LEMMA OrderCommitRow ==
  ASSUME TypeOK, OrderInv, NEW x \in Rows, CommitRow(x)
  PROVE  OrderInv'
<1>1. /\ UNCHANGED <<seq, stage, pending, draft>>
      /\ row[x] = "open" /\ row' = [row EXCEPT ![x] = "committed"]
      /\ \A r \in Rows \ {x} : late'[r] = late[r]
  BY DEF CommitRow, columns, pass, TypeOK
<1>2. (\E q \in Rows : q > x /\ Taken(q)) => late'[x]
  BY Zenon DEF CommitRow, TypeOK
<1>3. /\ \A r \in Rows : r # x => row'[r] = row[r]
      /\ \A r \in Rows : row[r] = "committed" => row'[r] = "committed"
  BY <1>1 DEF TypeOK
<1>4. \A q \in Rows : seq[q] > 0 => Taken(q)
  BY DEF Taken
<1>5. \A p \in Passes, q \in Rows : q \in pending[p] \/ draft[p][q] > 0 => Taken(q)
  BY DEF Taken
<1>6. \A q \in Rows : x < q <=> q > x
  BY ChainConstants
<1>7. Ordered(seq)'
  BY <1>1, <1>2, <1>3, <1>4, <1>6 DEF OrderInv, Ordered
<1>8. \A p \in Passes : stage[p] \in {"headed", "writing"} => Ordered(draft[p])'
  BY <1>1, <1>2, <1>3, <1>5, <1>6 DEF OrderInv, Ordered
<1>9. \A p \in Passes : BatchOrdered(p)'
  <2>1. \A p \in Passes : pending[p] \subseteq Rows
    BY DEF TypeOK
  <2>. QED
    BY <1>1, <1>2, <1>3, <1>5, <1>6, <2>1 DEF OrderInv, BatchOrdered
<1>10. TakenIsCommitted'
  BY <1>1, <1>3 DEF OrderInv, TakenIsCommitted
<1>. QED
  BY <1>1, <1>7, <1>8, <1>9, <1>10 DEF OrderInv

(* Steps that leave the chain and what is late alone, and commit no row. *)
LEMMA OrderStill ==
  ASSUME OrderInv, UNCHANGED <<seq, pending, draft, late>>,
         \A r \in Rows : row'[r] = "committed" <=> row[r] = "committed",
         \A p \in Passes : stage'[p] \in {"headed", "writing"}
                             => stage[p] \in {"headed", "writing"}
  PROVE  OrderInv'
  BY DEF OrderInv, Ordered, BatchOrdered, TakenIsCommitted

LEMMA OrderReadHead ==
  ASSUME TypeOK, ChainInv, OrderInv, NEW p \in Passes, ReadHead(p)
  PROVE  OrderInv'
<1>1. /\ UNCHANGED <<row, seq, pending, late>>
      /\ stage' = [stage EXCEPT ![p] = "headed"]
      /\ draft' = [draft EXCEPT ![p] = seq]
      /\ pending[p] = {}
  BY DEF ReadHead, columns, ChainInv, Drafts
<1>2. \A o \in Passes : draft'[o] = IF o = p THEN seq ELSE draft[o]
  BY <1>1 DEF TypeOK
<1>3. \A o \in Passes : stage'[o] = IF o = p THEN "headed" ELSE stage[o]
  BY <1>1 DEF TypeOK
<1>. QED
  BY <1>1, <1>2, <1>3 DEF OrderInv, Ordered, BatchOrdered, TakenIsCommitted

LEMMA OrderReadPending ==
  ASSUME TypeOK, ChainInv, OrderInv, NEW p \in Passes, ReadPending(p)
  PROVE  OrderInv'
<1>1. PICK S \in SUBSET PendingRows :
        IsBatch(p, S) /\ pending' = [pending EXCEPT ![p] = S]
  BY DEF ReadPending
<1>2. /\ UNCHANGED <<row, seq, draft, late>>
      /\ stage' = [stage EXCEPT ![p] = "writing"] /\ stage[p] = "headed"
      /\ draft[p] = seq
  BY DEF ReadPending, columns, ChainInv, Drafts
<1>3. \A o \in Passes : pending'[o] = IF o = p THEN S ELSE pending[o]
  BY <1>1 DEF TypeOK
<1>4. \A o \in Passes : stage'[o] = IF o = p THEN "writing" ELSE stage[o]
  BY <1>2 DEF TypeOK
<1>5. BatchOrdered(p)'
  <2>. SUFFICES ASSUME NEW q \in S, NEW r \in Rows \ S, r < q,
                       row[r] = "committed", seq[r] = 0
                PROVE  FALSE
    BY <1>2, <1>3 DEF BatchOrdered
  <2>1. r \in PendingRows \ S
    BY DEF PendingRows
  <2>2. q < r
    BY <1>1, <2>1 DEF IsBatch
  <2>3. q \in Nat /\ r \in Nat
    BY <1>1, ChainConstants DEF PendingRows
  <2>. QED
    BY <2>2, <2>3
<1>6. \A o \in Passes : BatchOrdered(o)'
  BY <1>2, <1>3, <1>5 DEF OrderInv, BatchOrdered
<1>7. TakenIsCommitted'
  BY <1>2, <1>3 DEF OrderInv, TakenIsCommitted, PendingRows
<1>. QED
  BY <1>2, <1>4, <1>6, <1>7 DEF OrderInv, Ordered

LEMMA OrderNumber ==
  ASSUME TypeOK, ChainInv, OrderInv, NEW p \in Passes, NEW x \in Rows,
         Number(p, x)
  PROVE  OrderInv'
<1> DEFINE n == SeqOf(p, last[p]) + 1
<1>1. /\ UNCHANGED <<row, seq, stage, late>> /\ stage[p] = "writing"
      /\ x \in pending[p] /\ \A q \in pending[p] : x <= q
      /\ pending' = [pending EXCEPT ![p] = pending[p] \ {x}]
      /\ draft' = [draft EXCEPT ![p][x] = n]
  BY DEF Number, IsNext, columns, TypeOK
<1>2. DraftOf(p) /\ draft[p][x] = 0 /\ row[x] = "committed"
  BY <1>1 DEF ChainInv, Drafts, DraftOf, OrderInv, TakenIsCommitted
<1>3. /\ \A r \in Rows : draft[p][r] < n
      /\ n \in Nat \ {0}
  <2>1. /\ \A r \in Rows : draft[p][r] \in Nat
        /\ last[p] \in Rows \cup {Genesis}
    BY DEF TypeOK
  <2>. QED
    BY <1>2, <2>1 DEF DraftOf, Heads, SeqOf
<1>4. \A o \in Passes, r \in Rows :
        draft'[o][r] = IF o = p /\ r = x THEN n ELSE draft[o][r]
  BY <1>1 DEF TypeOK
<1>5. \A o \in Passes :
        pending'[o] = IF o = p THEN pending[p] \ {x} ELSE pending[o]
  BY <1>1 DEF TypeOK
<1>. HIDE DEF n
<1>6. \A r \in Rows : draft[p][r] \in Nat /\ r \in Nat
  BY ChainConstants DEF TypeOK
<1>7. Ordered(draft[p])'
  <2>. SUFFICES ASSUME NEW r \in Rows, NEW q \in Rows, r < q,
                       draft'[p][q] > 0, row[r] = "committed",
                       draft'[p][r] = 0 \/ draft'[p][r] > draft'[p][q]
                PROVE  late[r]
    BY <1>1 DEF Ordered
  <2>1. CASE q = x
    <3>1. r # x /\ draft[p][r] = 0
      BY <1>3, <1>4, <1>6, <2>1
    <3>2. r \notin pending[p]
      BY <1>1, <1>6, <2>1
    <3>. QED
      BY <1>1, <2>1, <3>1, <3>2 DEF OrderInv, BatchOrdered
  <2>2. CASE q # x
    <3>1. draft[p][q] > 0 /\ (draft[p][r] = 0 \/ draft[p][r] > draft[p][q])
      BY <1>2, <1>4, <2>2
    <3>. QED
      BY <1>1, <3>1 DEF OrderInv, Ordered
  <2>. QED
    BY <2>1, <2>2
<1>8. \A o \in Passes : stage'[o] \in {"headed", "writing"} => Ordered(draft[o])'
  BY <1>1, <1>4, <1>7 DEF OrderInv, Ordered
<1>9. \A o \in Passes : BatchOrdered(o)'
  BY <1>1, <1>3, <1>4, <1>5 DEF OrderInv, BatchOrdered
<1>10. TakenIsCommitted'
  BY <1>1, <1>2, <1>4, <1>5 DEF OrderInv, TakenIsCommitted
<1>. QED
  BY <1>1, <1>8, <1>9, <1>10 DEF OrderInv, Ordered

(* The end of a pass leaves no draft behind. *)
LEMMA OrderEnd ==
  ASSUME TypeOK, OrderInv, NEW p \in Passes, EndPass(p), UNCHANGED <<row, late>>,
         \A o \in Passes : stage'[o] = "idle" /\ pending'[o] = {},
         Ordered(seq)', \A r \in Rows : seq'[r] > 0 => row[r] = "committed"
  PROVE  OrderInv'
<1>1. \A o \in Passes, r \in Rows :
        draft'[o][r] = IF o = p THEN 0 ELSE draft[o][r]
  BY DEF EndPass, Unchained, TypeOK
<1>. QED
  BY <1>1 DEF OrderInv, BatchOrdered, TakenIsCommitted

LEMMA OrderNext == TypeOK /\ ChainInv /\ OrderInv /\ [Next]_vars => OrderInv'
<1>. SUFFICES ASSUME TypeOK, ChainInv, OrderInv, [Next]_vars PROVE OrderInv'
  OBVIOUS
<1>1. ASSUME NEW r \in Rows, AppendAudit(r) \/ LoseRow(r) PROVE OrderInv'
  BY <1>1, OrderStill DEF AppendAudit, LoseRow, columns, pass, TypeOK
<1>2. ASSUME NEW p \in Passes, Lock(p) PROVE OrderInv'
  BY <1>2, OrderStill DEF Lock, columns, TypeOK
<1>3. ASSUME NEW p \in Passes, CommitPass(p) PROVE OrderInv'
  <2>1. /\ EndPass(p) /\ UNCHANGED <<row, late>>
        /\ \A o \in Passes : stage'[o] = "idle" /\ pending'[o] = {}
        /\ stage[p] = "writing"
    BY <1>3, EndStep DEF CommitPass
  <2>2. \A r \in Rows : seq'[r] = draft[p][r]
    BY <1>3, CommitShows
  <2>3. Ordered(seq)' /\ \A r \in Rows : seq'[r] > 0 => row[r] = "committed"
    BY <2>1, <2>2 DEF OrderInv, Ordered, TakenIsCommitted
  <2>. QED
    BY <2>1, <2>3, OrderEnd
<1>4. ASSUME NEW p \in Passes, CrashPass(p) PROVE OrderInv'
  <2>1. /\ EndPass(p) /\ UNCHANGED <<row, late, seq>>
        /\ \A o \in Passes : stage'[o] = "idle" /\ pending'[o] = {}
    BY <1>4, EndStep DEF CrashPass, columns
  <2>2. Ordered(seq)' /\ \A r \in Rows : seq'[r] > 0 => row[r] = "committed"
    BY <2>1 DEF OrderInv, Ordered, TakenIsCommitted
  <2>. QED
    BY <2>1, <2>2, OrderEnd
<1>5. CASE UNCHANGED vars
  BY <1>5, OrderStill DEF vars, columns, pass
<1>. QED
  BY <1>1, <1>2, <1>3, <1>4, <1>5, OrderCommitRow, OrderReadHead,
     OrderReadPending, OrderNumber DEF Next, PassStep

(* Rows are chained in the order they were minted in, but for one whose    *)
(* operation committed after a younger row had been read by a pass, for    *)
(* every batch size and whatever passes die.                               *)
THEOREM ChainInOrder == Spec => []OutOfOrderExplained
<1>1. TypeOK /\ OrderInv => OutOfOrderExplained
  <2>. SUFFICES ASSUME TypeOK, OrderInv, NEW r \in Rows, NEW q \in Rows,
                       r < q, seq[q] > 0, seq[r] > seq[q]
                PROVE  late[r]
    BY DEF OutOfOrderExplained
  <2>1. seq[r] > 0
    BY DEF TypeOK
  <2>. QED
    BY <2>1 DEF OrderInv, Ordered, TakenIsCommitted
<1>2. TypeOK /\ ChainInv /\ OrderInv /\ [Next]_vars => OrderInv'
  BY OrderNext
<1>. QED
  BY <1>1, <1>2, OrderInit, Invariant, PTL DEF Spec

------------------------------------------------------------------------------
(* The ledger *)

Top(s, h) == IF h = Genesis THEN 0 ELSE s[h]

(* No position up to that of h is free. *)
Full(s, h) == \A n \in 1 .. Top(s, h) : \E r \in Rows : s[r] = n

(* The committed chain has a head and no gap below it, and so has what the *)
(* pass that holds the lock makes of it.                                   *)
FullInv ==
  /\ \E h \in Rows \cup {Genesis} : Heads(h, seq) /\ Full(seq, h)
  /\ \A p \in Passes :
       stage[p] \in {"headed", "writing"} => Full(draft[p], last[p])

LEMMA FullInit == Init => FullInv
<1>. SUFFICES ASSUME Init PROVE FullInv
  OBVIOUS
<1>1. Heads(Genesis, seq) /\ Full(seq, Genesis)
  BY DEF Init, Unchained, Heads, Full, Top
<1>2. \A p \in Passes : stage[p] = "idle"
  BY DEF Init
<1>. QED
  BY <1>1, <1>2 DEF FullInv

(* Two heads of one chain are as high. *)
LEMMA HeadsAgree ==
  ASSUME NEW s \in [Rows -> Nat], NEW h \in Rows \cup {Genesis},
         NEW g \in Rows \cup {Genesis}, Heads(h, s), Heads(g, s)
  PROVE  Top(s, h) = Top(s, g)
<1>1. CASE h = Genesis \/ g = Genesis
  BY <1>1 DEF Heads, Top
<1>2. CASE h # Genesis /\ g # Genesis
  <2>1. s[h] \in Nat /\ s[g] \in Nat /\ s[h] <= s[g] /\ s[g] <= s[h]
    BY <1>2 DEF Heads
  <2>. QED
    BY <1>2, <2>1 DEF Top
<1>. QED
  BY <1>1, <1>2

LEMMA FullStill ==
  ASSUME FullInv, UNCHANGED <<seq, draft, last>>,
         \A p \in Passes : stage'[p] \in {"headed", "writing"}
                             => stage[p] \in {"headed", "writing"}
  PROVE  FullInv'
  BY DEF FullInv, Full, Top, Heads

LEMMA FullReadHead ==
  ASSUME TypeOK, FullInv, NEW p \in Passes, ReadHead(p)
  PROVE  FullInv'
<1>1. PICK h \in Rows \cup {Genesis} : Heads(h, seq) /\ Full(seq, h)
  BY DEF FullInv
<1>2. PICK g \in Rows \cup {Genesis} :
        Heads(g, seq) /\ last' = [last EXCEPT ![p] = g]
  BY DEF ReadHead, IsHead, Heads
<1>3. Top(seq, h) = Top(seq, g)
  BY <1>1, <1>2, HeadsAgree DEF TypeOK
<1>4. Full(seq, g)
  BY <1>1, <1>3 DEF Full
<1>5. /\ seq' = seq
      /\ \A o \in Passes :
           /\ draft'[o] = IF o = p THEN seq ELSE draft[o]
           /\ last'[o] = IF o = p THEN g ELSE last[o]
           /\ stage'[o] = IF o = p THEN "headed" ELSE stage[o]
  BY <1>2 DEF ReadHead, columns, TypeOK
<1>6. Heads(h, seq)' /\ Full(seq, h)'
  BY <1>1, <1>5 DEF Heads, Full, Top
<1>7. \A o \in Passes :
        stage'[o] \in {"headed", "writing"} => Full(draft'[o], last'[o])
  BY <1>4, <1>5 DEF FullInv
<1>. QED
  BY <1>6, <1>7 DEF FullInv, Full, Top

LEMMA FullNumber ==
  ASSUME TypeOK, ChainInv, FullInv, NEW p \in Passes, NEW r \in Rows,
         Number(p, r)
  PROVE  FullInv'
<1>. DEFINE n == SeqOf(p, last[p]) + 1
            t == [draft[p] EXCEPT ![r] = n]
<1>1. /\ seq' = seq /\ stage' = stage /\ stage[p] = "writing"
      /\ r \in pending[p] /\ draft[p][r] = 0
  BY DEF Number, IsNext, columns, ChainInv, Drafts, DraftOf
<1>2. \A o \in Passes : /\ draft'[o] = IF o = p THEN t ELSE draft[o]
                        /\ last'[o] = IF o = p THEN r ELSE last[o]
  BY DEF Number, TypeOK
<1>3. /\ draft[p] \in [Rows -> Nat] /\ Top(draft[p], last[p]) \in Nat
      /\ n = Top(draft[p], last[p]) + 1 /\ r # Genesis
  <2>1. /\ draft[p] \in [Rows -> Nat] /\ last[p] \in Rows \cup {Genesis}
        /\ r # Genesis
    BY ChainConstants DEF TypeOK
  <2>2. Top(draft[p], last[p]) \in Nat
    BY <2>1 DEF Top, Genesis
  <2>3. SeqOf(p, last[p]) = Top(draft[p], last[p])
    BY DEF Top, SeqOf
  <2>. QED
    BY <2>1, <2>2, <2>3
<1>4. Full(draft[p], last[p])
  BY <1>1 DEF FullInv
<1>. HIDE DEF n
<1>5. Top(t, r) = n /\ t[r] = n
  BY <1>3 DEF Top
<1>6. Full(t, r)
  <2>. SUFFICES ASSUME NEW m \in 1 .. n PROVE \E x \in Rows : t[x] = m
    BY <1>5 DEF Full
  <2>1. CASE m = n
    BY <1>5, <2>1
  <2>2. CASE m # n
    <3>1. m \in 1 .. Top(draft[p], last[p])
      BY <1>3, <2>2
    <3>2. PICK x \in Rows : draft[p][x] = m
      BY <1>4, <3>1 DEF Full
    <3>3. t[x] = m
      BY <1>1, <1>3, <3>1, <3>2
    <3>. QED
      BY <3>3
  <2>. QED
    BY <2>1, <2>2
<1>7. \A o \in Passes :
        stage'[o] \in {"headed", "writing"} => Full(draft'[o], last'[o])
  BY <1>1, <1>2, <1>6 DEF FullInv
<1>8. \E h \in Rows \cup {Genesis} : Heads(h, seq') /\ Full(seq', h)
  BY <1>1 DEF FullInv
<1>. QED
  BY <1>7, <1>8 DEF FullInv, Full, Top, Heads

LEMMA FullCommitPass ==
  ASSUME TypeOK, ChainInv, FullInv, NEW p \in Passes, CommitPass(p)
  PROVE  FullInv'
<1>1. /\ \A r \in Rows : seq'[r] = draft[p][r]
      /\ Heads(last[p], draft[p])
  BY CommitShows DEF DraftOf
<1>2. Full(draft[p], last[p]) /\ last[p] \in Rows \cup {Genesis}
  BY DEF CommitPass, FullInv, TypeOK
<1>3. \A o \in Passes : stage'[o] = "idle"
  BY EndStep DEF CommitPass
<1>4. Heads(last[p], seq') /\ Full(seq', last[p])
  BY <1>1, <1>2 DEF Heads, Full, Top
<1>. QED
  BY <1>2, <1>3, <1>4 DEF FullInv, Full, Top, Heads

LEMMA FullNext == TypeOK /\ ChainInv /\ FullInv /\ [Next]_vars => FullInv'
<1>. SUFFICES ASSUME TypeOK, ChainInv, FullInv, [Next]_vars PROVE FullInv'
  OBVIOUS
<1>1. ASSUME NEW r \in Rows, AppendAudit(r) \/ CommitRow(r) \/ LoseRow(r)
      PROVE  FullInv'
  BY <1>1, FullStill DEF AppendAudit, CommitRow, LoseRow, columns, pass
<1>2. ASSUME NEW p \in Passes, Lock(p) PROVE FullInv'
  BY <1>2, FullStill DEF Lock, columns, TypeOK
<1>3. ASSUME NEW p \in Passes, ReadPending(p) PROVE FullInv'
  BY <1>3, FullStill DEF ReadPending, columns, TypeOK
<1>4. ASSUME NEW p \in Passes, CrashPass(p) PROVE FullInv'
  <2>1. seq' = seq /\ \A o \in Passes : stage'[o] = "idle"
    BY <1>4, EndStep DEF CrashPass, columns
  <2>. QED
    BY <2>1 DEF FullInv, Full, Top, Heads
<1>5. CASE UNCHANGED vars
  BY <1>5, FullStill DEF vars, columns, pass
<1>. QED
  BY <1>1, <1>2, <1>3, <1>4, <1>5, FullReadHead, FullNumber, FullCommitPass
  DEF Next, PassStep

(* The trail is the numbered rows in their order. *)
TrailOK ==
  /\ Height \in Nat
  /\ Trail \in Seq(Rows) /\ Len(Trail) = Height
  /\ \A n \in 1 .. Height : seq[Trail[n]] = n
  /\ \A r \in Rows : seq[r] > 0 => seq[r] \in 1 .. Height /\ Trail[seq[r]] = r

LEMMA TrailIs == TypeOK /\ ChainInv /\ FullInv => TrailOK
<1>. SUFFICES ASSUME TypeOK, ChainInv, FullInv PROVE TrailOK
  OBVIOUS
<1>1. seq \in [Rows -> Nat]
  BY DEF TypeOK
<1>2. PICK h \in Rows \cup {Genesis} : Heads(h, seq) /\ Full(seq, h)
  BY DEF FullInv
<1>3. ChainHead \in Rows \cup {Genesis} /\ Heads(ChainHead, seq)
  <2>1. \A g : IsHead(g) <=> Heads(g, seq)
    BY DEF IsHead, Heads
  <2>2. ChainHead \in Rows \cup {Genesis} /\ IsHead(ChainHead)
    BY <1>2, <2>1 DEF ChainHead
  <2>. QED
    BY <2>1, <2>2
<1>4. Height = Top(seq, ChainHead) /\ Height = Top(seq, h)
  <2>1. Height = Top(seq, ChainHead)
    BY DEF Height, Top
  <2>2. Top(seq, ChainHead) = Top(seq, h)
    BY <1>1, <1>2, <1>3, HeadsAgree
  <2>. QED
    BY <2>1, <2>2
<1>5. Height \in Nat /\ \A r \in Rows : seq[r] <= Height
  BY <1>1, <1>3, <1>4 DEF Top, Heads
<1>6. \A n \in 1 .. Height : \E r \in Rows : seq[r] = n
  BY <1>2, <1>4 DEF Full
<1>. DEFINE e(n) == CHOOSE r \in Rows : seq[r] = n
<1>7. \A n \in 1 .. Height : e(n) \in Rows /\ seq[e(n)] = n
  BY <1>6
<1>8. Trail = [n \in 1 .. Height |-> e(n)]
  BY DEF Trail
<1>. HIDE DEF e
<1>9. Trail \in [1 .. Height -> Rows] /\ \A n \in 1 .. Height : Trail[n] = e(n)
  BY <1>7, <1>8
<1>10. Trail \in Seq(Rows) /\ Len(Trail) = Height
  BY <1>5, <1>9
<1>11. ASSUME NEW r \in Rows, seq[r] > 0
       PROVE  seq[r] \in 1 .. Height /\ Trail[seq[r]] = r
  <2>1. seq[r] \in 1 .. Height
    BY <1>1, <1>5, <1>11
  <2>2. Trail[seq[r]] \in Rows /\ seq[Trail[seq[r]]] = seq[r]
    BY <1>7, <1>9, <2>1
  <2>. QED
    BY <1>11, <2>1, <2>2 DEF ChainInv, ChainVerifies, Verifies
<1>. QED
  BY <1>5, <1>7, <1>9, <1>10, <1>11 DEF TrailOK

LEMMA ListedIs ==
  ASSUME TypeOK, TrailOK, NEW r \in Ledger!Listed
  PROVE  r \in Rows /\ seq[r] > 0
  BY DEF TrailOK, Ledger!Listed

(* A chain in which positions stay grows at the end of its trail. *)
LEMMA TrailGrows ==
  ASSUME TypeOK, TypeOK', TrailOK, TrailOK',
         \A r \in Rows : seq[r] > 0 => seq'[r] = seq[r]
  PROVE  /\ Height <= Height'
         /\ \A n \in 1 .. Height : Trail'[n] = Trail[n]
<1>1. ASSUME NEW n \in 1 .. Height
      PROVE  n \in 1 .. Height' /\ Trail'[n] = Trail[n]
  <2>1. Trail[n] \in Rows /\ seq[Trail[n]] = n
    BY DEF TrailOK
  <2>2. seq'[Trail[n]] = n /\ n > 0
    BY <2>1
  <2>. QED
    BY <2>1, <2>2 DEF TrailOK
<1>2. Height <= Height'
  <2>1. CASE Height = 0
    BY <2>1 DEF TrailOK
  <2>2. CASE Height # 0
    <3>1. Height \in 1 .. Height
      BY <2>2 DEF TrailOK
    <3>. QED
      BY <1>1, <3>1
  <2>. QED
    BY <2>1, <2>2
<1>. QED
  BY <1>1, <1>2

LEMMA TrailStays ==
  ASSUME TypeOK, TypeOK', TrailOK, TrailOK', seq' = seq
  PROVE  Trail' = Trail
<1>1. Height <= Height' /\ \A n \in 1 .. Height : Trail'[n] = Trail[n]
  BY TrailGrows
<1>2. Height' <= Height
  <2>1. CASE Height' = 0
    BY <2>1 DEF TrailOK
  <2>2. CASE Height' # 0
    <3>1. Height' \in 1 .. Height' /\ Trail'[Height'] \in Rows
      BY <2>2 DEF TrailOK
    <3>2. seq[Trail'[Height']] = Height' /\ Height' > 0
      BY <3>1 DEF TrailOK
    <3>. QED
      BY <3>1, <3>2 DEF TrailOK
  <2>. QED
    BY <2>1, <2>2
<1>3. Height' = Height
  BY <1>1, <1>2 DEF TrailOK
<1>. QED
  BY <1>1, <1>3, SeqEqual DEF TrailOK

(* A list that begins like another one is that one with the rest put to it. *)
LEMMA TheRest ==
  \A s, t \in Seq(Rows) :
    Len(s) <= Len(t) /\ (\A n \in 1 .. Len(s) : t[n] = s[n]) =>
      \E u \in Seq(Rows) :
        /\ Len(u) = Len(t) - Len(s) /\ u \in [1 .. Len(u) -> Rows]
        /\ t = s \o u
        /\ \A i \in 1 .. Len(u) : u[i] = t[Len(s) + i]
<1>. SUFFICES ASSUME NEW s \in Seq(Rows), NEW t \in Seq(Rows), Len(s) <= Len(t),
                     \A n \in 1 .. Len(s) : t[n] = s[n]
              PROVE  \E u \in Seq(Rows) :
                       /\ Len(u) = Len(t) - Len(s)
                       /\ u \in [1 .. Len(u) -> Rows]
                       /\ t = s \o u
                       /\ \A i \in 1 .. Len(u) : u[i] = t[Len(s) + i]
  OBVIOUS
<1>. DEFINE n == Len(s)
            m == Len(t)
            u == [i \in 1 .. (m - n) |-> t[n + i]]
<1>1. /\ n \in Nat /\ m \in Nat /\ m - n \in Nat
      /\ s \in [1 .. n -> Rows] /\ t \in [1 .. m -> Rows]
  BY LenProperties
<1>. HIDE DEF n, m
<1>2. \A i \in 1 .. (m - n) : n + i \in 1 .. m
  BY <1>1
<1>3. /\ u \in Seq(Rows) /\ Len(u) = m - n /\ u \in [1 .. (m - n) -> Rows]
      /\ \A i \in 1 .. (m - n) : u[i] = t[n + i]
  BY <1>1, <1>2
<1>. HIDE DEF u
<1>4. /\ s \o u \in Seq(Rows) /\ Len(s \o u) = m
      /\ \A i \in 1 .. m : (s \o u)[i] = IF i <= n THEN s[i] ELSE u[i - n]
  <2>1. n + (m - n) = m
    BY <1>1
  <2>2. /\ s \o u \in Seq(Rows) /\ Len(s \o u) = Len(s) + Len(u)
        /\ \A i \in 1 .. Len(s) + Len(u) : (s \o u)[i] =
              IF i <= Len(s) THEN s[i] ELSE u[i - Len(s)]
    BY <1>3, ConcatProperties
  <2>3. Len(s) = n /\ Len(u) = m - n
    BY <1>3 DEF n
  <2>4. Len(s) + Len(u) = m
    BY <2>1, <2>3
  <2>. QED
    BY <2>2, <2>3, <2>4
<1>5. ASSUME NEW i \in 1 .. m PROVE t[i] = (s \o u)[i]
  <2>1. CASE i <= n
    BY <1>1, <1>4, <2>1 DEF n
  <2>2. CASE ~ (i <= n)
    <3>1. i - n \in 1 .. (m - n) /\ n + (i - n) = i
      BY <1>1, <2>2
    <3>. QED
      BY <1>3, <1>4, <2>2, <3>1
  <2>. QED
    BY <2>1, <2>2
<1>6. t = s \o u
  BY <1>4, <1>5, SeqEqual DEF m
<1>. QED
  BY <1>3, <1>6 DEF n, m

(* What a pass commits is a batch of the ledger. *)
LEMMA PassExtends ==
  ASSUME TypeOK, TypeOK', TrailOK, TrailOK', OrderInv', row' = row,
         \A r \in Rows : seq[r] > 0 => seq'[r] = seq[r]
  PROVE  [Ledger!Next]_(Ledger!vars)
<1>1. /\ Height <= Height' /\ Height \in Nat /\ Height' \in Nat
      /\ \A n \in 1 .. Height : Trail'[n] = Trail[n]
  BY TrailGrows DEF TrailOK
<1>2. /\ Trail \in Seq(Rows) /\ Len(Trail) = Height
      /\ Trail' \in Seq(Rows) /\ Len(Trail') = Height'
      /\ \A n \in 1 .. Height' : Trail'[n] \in Rows /\ seq'[Trail'[n]] = n
  BY DEF TrailOK
<1>3. PICK batch \in Seq(Rows) :
        /\ Len(batch) = Height' - Height /\ batch \in [1 .. Len(batch) -> Rows]
        /\ Trail' = Trail \o batch
        /\ \A i \in 1 .. Len(batch) : batch[i] = Trail'[Height + i]
  <2>1. Len(Trail) <= Len(Trail') /\ \A n \in 1 .. Len(Trail) : Trail'[n] = Trail[n]
    BY <1>1, <1>2
  <2>2. \E u \in Seq(Rows) :
          /\ Len(u) = Len(Trail') - Len(Trail) /\ u \in [1 .. Len(u) -> Rows]
          /\ Trail' = Trail \o u
          /\ \A i \in 1 .. Len(u) : u[i] = Trail'[Len(Trail) + i]
    BY <1>2, <2>1, TheRest, Zenon
  <2>. QED
    BY <1>2, <2>2
<1>. DEFINE k == Len(batch)
<1>4. k \in Nat /\ \A i \in 1 .. k : Height + i \in 1 .. Height'
  <2>1. k = Height' - Height
    BY <1>3
  <2>2. \A g, h \in Nat : h <= g =>
          g - h \in Nat /\ \A i \in 1 .. (g - h) : h + i \in 1 .. g
    OBVIOUS
  <2>. QED
    BY <1>1, <2>1, <2>2
<1>5. \A i, j \in 1 .. k : batch[i] = batch[j] => i = j
  <2>. SUFFICES ASSUME NEW i \in 1 .. k, NEW j \in 1 .. k, batch[i] = batch[j]
                PROVE  i = j
    OBVIOUS
  <2>1. Height + i = Height + j
    BY <1>1, <1>2, <1>3, <1>4
  <2>. QED
    BY <1>1, <1>4, <2>1
<1>6. ASSUME NEW i \in 1 .. k
      PROVE  batch[i] \in {r \in Rows : row[r] = "committed"} \ Ledger!Listed
  <2>1. batch[i] \in Rows /\ seq'[batch[i]] = Height + i /\ Height + i > Height
    <3>1. Height + i \in 1 .. Height' /\ batch[i] = Trail'[Height + i]
      BY <1>3, <1>4
    <3>. QED
      BY <1>1, <1>2, <1>4, <3>1
  <2>2. row[batch[i]] = "committed"
    <3>1. seq'[batch[i]] > 0
      BY <1>1, <1>4, <2>1
    <3>2. \A r \in Rows : seq'[r] > 0 => row'[r] = "committed"
      BY DEF OrderInv, TakenIsCommitted
    <3>. QED
      BY <2>1, <3>1, <3>2
  <2>3. ASSUME batch[i] \in Ledger!Listed PROVE FALSE
    <3>1. seq[batch[i]] > 0
      BY <2>3, ListedIs
    <3>2. seq'[batch[i]] = seq[batch[i]] /\ seq[batch[i]] \in 1 .. Height
      BY <2>1, <3>1 DEF TrailOK
    <3>. QED
      BY <1>1, <2>1, <3>2
  <2>. QED
    BY <2>1, <2>2, <2>3
<1>7. CASE k = 0
  <2>1. Height' = Height
    BY <1>1, <1>3, <1>7
  <2>2. Trail' = Trail
    BY <1>1, <1>2, <2>1, SeqEqual
  <2>. QED
    BY <2>2 DEF Ledger!vars
<1>8. CASE k # 0
  <2>1. batch \in Injection(1 .. k, Rows)
    BY <1>3, <1>5 DEF Injection, IsInjective
  <2>2. k <= Cardinality(Rows) /\ Cardinality(Rows) \in Nat
    <3>1. Cardinality(1 .. k) = k
      BY <1>4, FS_Interval
    <3>. QED
      BY <2>1, <3>1, FS_Injection, FS_CardinalityType, ChainConstants
  <2>3. k \in 1 .. Cardinality(Rows) /\ DOMAIN batch = 1 .. k
    BY <1>3, <1>4, <1>8, <2>2
  <2>. DEFINE todo == {r \in Rows : row[r] = "committed"} \ Ledger!Listed
  <2>4. batch \in [1 .. k -> todo]
    BY <1>3, <1>6, <2>3
  <2>5. batch \in Ledger!Lists(todo)
    BY <1>5, <2>3, <2>4 DEF Ledger!Lists
  <2>. QED
    BY <1>3, <2>5 DEF Ledger!Extend, Ledger!Next
<1>. QED
  BY <1>7, <1>8

LEMMA LedgerInit == Init /\ TypeOK /\ TrailOK => Ledger!Init
<1>. SUFFICES ASSUME Init, TypeOK, TrailOK PROVE Ledger!Init
  OBVIOUS
<1>1. {r \in Rows : row[r] = "committed"} = {}
  BY DEF Init
<1>2. \A r \in Rows : seq[r] = 0
  BY DEF Init, Unchained
<1>3. Height = 0
  <2>. SUFFICES ASSUME Height # 0 PROVE FALSE
    OBVIOUS
  <2>1. 1 \in 1 .. Height
    BY DEF TrailOK
  <2>2. Trail[1] \in Rows /\ seq[Trail[1]] = 1
    BY <2>1 DEF TrailOK
  <2>. QED
    BY <1>2, <2>2
<1>4. Trail = <<>>
  BY <1>3 DEF TrailOK
<1>. QED
  BY <1>1, <1>4 DEF Ledger!Init

LEMMA LedgerNext ==
  TypeOK /\ TypeOK' /\ TrailOK /\ TrailOK' /\ ChainInv /\ OrderInv'
    /\ [Next]_vars => [Ledger!Next]_(Ledger!vars)
<1>. SUFFICES ASSUME TypeOK, TypeOK', TrailOK, TrailOK', ChainInv, OrderInv',
                     [Next]_vars
              PROVE  [Ledger!Next]_(Ledger!vars)
  OBVIOUS
<1>. DEFINE done == {r \in Rows : row[r] = "committed"}
<1>1. ASSUME NEW r \in Rows, CommitRow(r)
      PROVE  [Ledger!Next]_(Ledger!vars)
  <2>1. Trail' = Trail
    BY <1>1, TrailStays DEF CommitRow, columns
  <2>2. r \notin done /\ done' = done \cup {r}
    BY <1>1 DEF CommitRow, TypeOK
  <2>3. Ledger!Commit(r)
    BY <2>1, <2>2 DEF Ledger!Commit
  <2>. QED
    BY <2>3 DEF Ledger!Next
<1>2. ASSUME NEW p \in Passes, CommitPass(p)
      PROVE  [Ledger!Next]_(Ledger!vars)
  <2>1. row' = row /\ \A r \in Rows : seq[r] > 0 => seq'[r] = seq[r]
    BY <1>2, CommitShows DEF CommitPass, DraftOf
  <2>. QED
    BY <2>1, PassExtends
<1>3. ASSUME seq' = seq,
             \A r \in Rows : row'[r] = "committed" <=> row[r] = "committed"
      PROVE  [Ledger!Next]_(Ledger!vars)
  <2>1. Trail' = Trail /\ done' = done
    BY <1>3, TrailStays
  <2>. QED
    BY <2>1 DEF Ledger!vars
<1>4. ASSUME NEW r \in Rows, AppendAudit(r) \/ LoseRow(r)
      PROVE  [Ledger!Next]_(Ledger!vars)
  BY <1>3, <1>4 DEF AppendAudit, LoseRow, columns, TypeOK
<1>5. ASSUME NEW p \in Passes,
             \/ Lock(p) \/ ReadHead(p) \/ ReadPending(p) \/ CrashPass(p)
             \/ \E r \in Rows : Number(p, r)
      PROVE  [Ledger!Next]_(Ledger!vars)
  <2>1. seq' = seq /\ row' = row
    BY <1>5 DEF Lock, ReadHead, ReadPending, CrashPass, Number, columns
  <2>. QED
    BY <1>3, <2>1
<1>6. CASE UNCHANGED vars
  BY <1>3, <1>6 DEF vars, columns
<1>. QED
  BY <1>1, <1>2, <1>4, <1>5, <1>6 DEF Next, PassStep

(* The passes keep the ledger: one list of what was done, written to at    *)
(* its end only, whatever rows commit late and whatever passes die.        *)
THEOREM PassesKeepTheLedger == Spec => ImplementsLedger
<1>1. Init => TypeOK /\ ChainInv /\ OrderInv /\ FullInv
  BY TypeInit, ChainInit, OrderInit, FullInit
<1>2. TypeOK /\ ChainInv /\ OrderInv /\ FullInv /\ [Next]_vars
        => (TypeOK /\ ChainInv /\ OrderInv /\ FullInv)'
  BY TypeStep, ChainStep, OrderNext, FullNext
<1>3. TypeOK /\ ChainInv /\ FullInv => TrailOK
  BY TrailIs
<1>. QED
  BY <1>1, <1>2, <1>3, LedgerInit, LedgerNext, PTL
     DEF Spec, ImplementsLedger, Ledger!Spec
===============================================================================
