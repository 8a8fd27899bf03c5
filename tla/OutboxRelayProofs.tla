-------------------------- MODULE OutboxRelayProofs --------------------------
(***************************************************************************)
(* Proofs about OutboxRelay, for any number of rows, relays, workspaces    *)
(* and any lease, batch size, ceiling and backoff.                         *)
(***************************************************************************)
EXTENDS OutboxRelay, FiniteSetTheorems, TLAPS

------------------------------------------------------------------------------
(* Type correctness *)

LEMMA TypeInit == Init => TypeOK
  BY RelayConstants DEF Init, TypeOK, Outcomes

LEMMA TypeEnqueue == ASSUME TypeOK, NEW r \in Rows, Enqueue(r) PROVE TypeOK'
  BY RelayConstants DEF TypeOK, Enqueue, drain, history

LEMMA TypeRank == ASSUME TypeOK, NEW w \in Relays, Rank(w) PROVE TypeOK'
<1>1. PICK C \in SUBSET DueRows : candidates' = [candidates EXCEPT ![w] = C]
  BY DEF Rank
<1>2. C \subseteq Rows
  BY DEF DueRows
<1>. QED
  BY <1>1, <1>2 DEF TypeOK, Rank, table, history

LEMMA TypeClaim == ASSUME TypeOK, NEW w \in Relays, Claim(w) PROVE TypeOK'
<1>1. PICK B \in SUBSET {r \in candidates[w] : Due(r)} :
        /\ attempts' = [r \in Rows |->
                          attempts[r] + (IF r \in B THEN 1 ELSE 0)]
        /\ wait' = [r \in Rows |-> IF r \in B THEN Lease ELSE wait[r]]
        /\ batch' = [batch EXCEPT ![w] = B]
        /\ left' = [left EXCEPT ![w] = B]
        /\ snapshot' = [snapshot EXCEPT ![w] =
             [r \in Rows |-> IF r \in B THEN attempts[r] + 1 ELSE 0]]
  BY DEF Claim
<1>2. B \subseteq Rows
  BY DEF TypeOK
<1>3. attempts' \in [Rows -> Nat] /\ wait' \in [Rows -> Nat]
  BY <1>1, RelayConstants DEF TypeOK
<1>4. snapshot' \in [Relays -> [Rows -> Nat]]
  BY <1>1, RelayConstants DEF TypeOK
<1>5. /\ batch' \in [Relays -> SUBSET Rows]
      /\ left' \in [Relays -> SUBSET Rows]
      /\ \A v \in Relays : left'[v] \subseteq batch'[v]
  BY <1>1, <1>2 DEF TypeOK
<1>6. /\ candidates' \in [Relays -> SUBSET Rows]
      /\ outcome' \in [Relays -> Outcomes]
      /\ elapsed' \in [Relays -> 0 .. DispatchLimit]
  BY RelayConstants DEF Claim, TypeOK, Outcomes
<1>. QED
  BY <1>3, <1>4, <1>5, <1>6 DEF TypeOK, Claim, history

LEMMA TypeDispatchEnds ==
  ASSUME TypeOK, NEW w \in Relays, NEW r \in Rows,
         NEW o \in Outcomes \ {"none"}, NEW landed \in BOOLEAN,
         DispatchEnds(w, r, o, landed)
  PROVE  TypeOK'
<1>1. /\ sends' \in [Rows -> Nat]
      /\ blurred' \in [Rows -> Nat]
  BY DEF TypeOK, DispatchEnds
<1>2. refused' \in [Rows -> BOOLEAN]
  BY DEF TypeOK, DispatchEnds
<1>3. outcome' \in [Relays -> Outcomes]
  BY DEF TypeOK, DispatchEnds
<1>. QED
  BY <1>1, <1>2, <1>3 DEF TypeOK, DispatchEnds, table

(* The parts of the type invariant that the recording steps share. *)
DrainTypeOK ==
  /\ candidates \in [Relays -> SUBSET Rows]
  /\ batch \in [Relays -> SUBSET Rows]
  /\ left \in [Relays -> SUBSET Rows]
  /\ \A w \in Relays : left[w] \subseteq batch[w]
  /\ snapshot \in [Relays -> [Rows -> Nat]]
  /\ outcome \in [Relays -> Outcomes]
  /\ elapsed \in [Relays -> 0 .. DispatchLimit]

TableTypeOK ==
  /\ stored \in [Rows -> {"absent", "stored", "purged"}]
  /\ attempts \in [Rows -> Nat]
  /\ wait \in [Rows -> Nat]
  /\ delivered \in [Rows -> BOOLEAN]
  /\ dead \in [Rows -> BOOLEAN]

LEMMA TypeAdvance ==
  ASSUME TypeOK, NEW w \in Relays, NEW r \in Rows, Advance(w, r)
  PROVE  DrainTypeOK'
<1>1. snapshot' \in [Relays -> [Rows -> Nat]]
  BY DEF TypeOK, Advance
<1>2. elapsed' \in [Relays -> 0 .. DispatchLimit]
  BY RelayConstants DEF TypeOK, Advance
<1>3. outcome' \in [Relays -> Outcomes]
  BY DEF TypeOK, Advance, Outcomes
<1>. QED
  BY <1>1, <1>2, <1>3 DEF TypeOK, DrainTypeOK, Advance

LEMMA TypeForget ==
  ASSUME TypeOK, NEW w \in Relays, Forget(w)
  PROVE  DrainTypeOK'
<1>1. snapshot' \in [Relays -> [Rows -> Nat]]
  BY DEF TypeOK, Forget
<1>2. elapsed' \in [Relays -> 0 .. DispatchLimit]
  BY RelayConstants DEF TypeOK, Forget
<1>3. outcome' \in [Relays -> Outcomes]
  BY DEF TypeOK, Forget, Outcomes
<1>. QED
  BY <1>1, <1>2, <1>3 DEF TypeOK, DrainTypeOK, Forget

LEMMA TypeStampDelivered ==
  ASSUME TypeOK, NEW r \in Rows, StampDelivered(r)
  PROVE  TableTypeOK'
  BY DEF TypeOK, TableTypeOK, StampDelivered

LEMMA TypeStampFailed ==
  ASSUME TypeOK, NEW w \in Relays, NEW r \in Rows, StampFailed(w, r)
  PROVE  TableTypeOK'
<1>1. CASE outcome[w] = "permanent" \/ snapshot[w][r] >= MaxAttempts
  BY <1>1 DEF TypeOK, TableTypeOK, StampFailed
<1>2. CASE ~(outcome[w] = "permanent" \/ snapshot[w][r] >= MaxAttempts)
  <2>1. snapshot[w][r] \in 0 .. MaxAttempts
    BY <1>2, RelayConstants DEF TypeOK
  <2>2. Backoff(snapshot[w][r]) \in Nat
    BY <2>1, RelayConstants
  <2>. QED
    BY <1>2, <2>2 DEF TypeOK, TableTypeOK, StampFailed
<1>. QED
  BY <1>1, <1>2

LEMMA TypeBlur ==
  ASSUME TypeOK, NEW w \in Relays PROVE Blur(w) \in [Rows -> Nat]
  BY DEF TypeOK, Blur

LEMMA TypeDisrupt ==
  ASSUME TypeOK, Disrupt PROVE disruptions' \in 0 .. MaxDisruptions
  BY RelayConstants DEF TypeOK, Disrupt

LEMMA TypeNext == TypeOK /\ [Next]_vars => TypeOK'
<1>. SUFFICES ASSUME TypeOK, [Next]_vars PROVE TypeOK'
  OBVIOUS
<1>1. CASE UNCHANGED vars
  BY <1>1 DEF TypeOK, vars, table, drain, history
<1>2. ASSUME NEW r \in Rows, Purge(r) PROVE TypeOK'
  BY <1>2 DEF TypeOK, Purge, drain, history
<1>3. ASSUME NEW w \in Relays, Start(w) PROVE TypeOK'
  BY <1>3 DEF TypeOK, Start, table, drain, history
<1>4. ASSUME NEW w \in Relays, NEW r \in Rows, MarkDelivered(w, r)
      PROVE  TypeOK'
  BY <1>4, TypeStampDelivered, TypeAdvance
     DEF TypeOK, TableTypeOK, DrainTypeOK, MarkDelivered, history
<1>5. ASSUME NEW w \in Relays, NEW r \in Rows, MarkFailed(w, r)
      PROVE  TypeOK'
  BY <1>5, TypeStampFailed, TypeAdvance
     DEF TypeOK, TableTypeOK, DrainTypeOK, MarkFailed, history
<1>6. ASSUME NEW w \in Relays, Crash(w) PROVE TypeOK'
  <2>1. disruptions' \in 0 .. MaxDisruptions
    BY <1>6, TypeDisrupt DEF Crash
  <2>2. DrainTypeOK'
    BY <1>6, TypeForget DEF Crash
  <2>3. blurred' \in [Rows -> Nat]
    BY <1>6, TypeBlur DEF Crash
  <2>. QED
    BY <1>6, <2>1, <2>2, <2>3 DEF TypeOK, DrainTypeOK, Crash, table
<1>7. ASSUME NEW w \in Relays, Stop(w) PROVE TypeOK'
  <2>1. disruptions' \in 0 .. MaxDisruptions
    BY <1>7, TypeDisrupt DEF Stop
  <2>. QED
    BY <1>7, <2>1 DEF TypeOK, Stop, table, drain
<1>8. ASSUME NEW w \in Relays, NEW r \in Rows, NEW applied \in BOOLEAN,
             MarkDeliveredThrows(w, r, applied)
      PROVE  TypeOK'
  <2>1. disruptions' \in 0 .. MaxDisruptions
    BY <1>8, TypeDisrupt DEF MarkDeliveredThrows
  <2>2. blurred' \in [Rows -> Nat]
    BY <1>8, TypeBlur DEF MarkDeliveredThrows
  <2>3. TableTypeOK'
    BY <1>8, TypeStampDelivered
       DEF MarkDeliveredThrows, TableTypeOK, TypeOK, table
  <2>4. outcome' \in [Relays -> Outcomes]
    BY <1>8 DEF MarkDeliveredThrows, TypeOK, Outcomes
  <2>. QED
    BY <1>8, <2>1, <2>2, <2>3, <2>4
       DEF TypeOK, TableTypeOK, MarkDeliveredThrows
<1>9. ASSUME NEW w \in Relays, NEW r \in Rows, NEW applied \in BOOLEAN,
             MarkFailedThrows(w, r, applied)
      PROVE  TypeOK'
  <2>1. disruptions' \in 0 .. MaxDisruptions
    BY <1>9, TypeDisrupt DEF MarkFailedThrows
  <2>2. TableTypeOK'
    BY <1>9, TypeStampFailed
       DEF MarkFailedThrows, TableTypeOK, TypeOK, table
  <2>3. DrainTypeOK'
    BY <1>9, TypeForget DEF MarkFailedThrows
  <2>. QED
    BY <1>9, <2>1, <2>2, <2>3
       DEF TypeOK, TableTypeOK, DrainTypeOK, MarkFailedThrows
<1>10. CASE Tick
  <2>1. wait' \in [Rows -> Nat]
    BY <1>10 DEF TypeOK, Tick
  <2>2. elapsed' \in [Relays -> 0 .. DispatchLimit]
    <3>1. ASSUME NEW w \in Relays
          PROVE  (IF left[w] # {} THEN elapsed[w] + 1 ELSE elapsed[w])
                   \in 0 .. DispatchLimit
      <4>1. elapsed[w] \in 0 .. DispatchLimit /\ DispatchLimit \in Nat
        BY RelayConstants DEF TypeOK
      <4>2. left[w] # {} => elapsed[w] < DispatchLimit
        BY <1>10 DEF Tick
      <4>. QED
        BY <4>1, <4>2
    <3>. QED
      BY <1>10, <3>1 DEF Tick
  <2>. QED
    BY <1>10, <2>1, <2>2 DEF TypeOK, Tick, history
<1>. QED
  BY <1>1, <1>2, <1>3, <1>4, <1>5, <1>6, <1>7, <1>8, <1>9, <1>10,
     TypeEnqueue, TypeRank, TypeClaim, TypeDispatchEnds
     DEF Next, RelayStep, Disruption

(* Every behaviour of the relays keeps the tables and the relays' own      *)
(* state well typed; in particular no timer or counter leaves its range.   *)
THEOREM TypeCorrect == Spec => []TypeOK
  BY TypeInit, TypeNext, PTL DEF Spec

------------------------------------------------------------------------------
(* One relay per row *)

(* Why two relays never meet on a row.  A relay holding k unrecorded rows  *)
(* needs at most k * DispatchLimit - elapsed more seconds, and every one   *)
(* of those rows is leased for longer.  Time takes a second off both       *)
(* sides, and going on to the next row takes off at least what it resets,  *)
(* so no held row is due and no other relay can claim it.                  *)
LeaseOutlastsBatch ==
  \A w \in Relays : \A r \in left[w] :
    Cardinality(left[w]) * DispatchLimit < wait[r] + elapsed[w]

Disjoint == \A v, w \in Relays : v # w => left[v] \cap left[w] = {}

HeldIsStored == \A w \in Relays : \A r \in left[w] : stored[r] # "absent"

LeaseInv == LeaseOutlastsBatch /\ Disjoint /\ HeldIsStored

LEMMA MulAtLeast ==
  ASSUME NEW k \in Nat \ {0}, NEW d \in Nat PROVE d <= k * d
  OBVIOUS

LEMMA MulStep ==
  ASSUME NEW k \in Nat \ {0}, NEW d \in Nat PROVE (k - 1) * d = k * d - d
  OBVIOUS

LEMMA MulMono ==
  ASSUME NEW k \in Nat, NEW n \in Nat, NEW d \in Nat, k <= n
  PROVE  k * d <= n * d
  OBVIOUS

LEMMA HeldFinite ==
  ASSUME TypeOK, NEW w \in Relays
  PROVE  /\ IsFiniteSet(left[w])
         /\ Cardinality(left[w]) \in Nat
         /\ left[w] # {} => Cardinality(left[w]) \in Nat \ {0}
<1>1. left[w] \in SUBSET Rows
  BY DEF TypeOK
<1>2. IsFiniteSet(left[w])
  BY <1>1, FS_Subset, RelayConstants
<1>. QED
  BY <1>2, FS_CardinalityType, FS_EmptySet

LEMMA HeldNotDue ==
  ASSUME TypeOK, LeaseInv, NEW w \in Relays, NEW r \in left[w]
  PROVE  wait[r] > 0 /\ ~Due(r)
<1>1. Cardinality(left[w]) \in Nat \ {0}
  BY HeldFinite
<1>2. DispatchLimit <= Cardinality(left[w]) * DispatchLimit
  BY <1>1, MulAtLeast, RelayConstants
<1>3. /\ Cardinality(left[w]) * DispatchLimit < wait[r] + elapsed[w]
      /\ Cardinality(left[w]) * DispatchLimit \in Nat
  BY <1>1, RelayConstants DEF LeaseInv, LeaseOutlastsBatch
<1>4. elapsed[w] \in 0 .. DispatchLimit /\ wait[r] \in Nat
      /\ DispatchLimit \in Nat
  BY RelayConstants DEF TypeOK
<1>5. wait[r] > 0
  BY <1>2, <1>3, <1>4
<1>. QED
  BY <1>5 DEF Due

LEMMA LeaseInit == Init => LeaseInv
  BY DEF Init, LeaseInv, LeaseOutlastsBatch, Disjoint, HeldIsStored

LEMMA LeaseClaim ==
  ASSUME Sized, TypeOK, LeaseInv, NEW w \in Relays, Claim(w)
  PROVE  LeaseInv'
<1>1. PICK B \in SUBSET {r \in candidates[w] : Due(r)} :
        /\ IsFirst(B, BatchSize, {r \in candidates[w] : Due(r)}, candidates[w])
        /\ wait' = [r \in Rows |-> IF r \in B THEN Lease ELSE wait[r]]
        /\ left' = [left EXCEPT ![w] = B]
  BY DEF Claim
<1>2. B \subseteq Rows /\ candidates[w] \subseteq Rows
  BY DEF TypeOK
<1>3. \A r \in B : Due(r)
  OBVIOUS
<1>4. \A v \in Relays : left[v] \cap B = {}
  BY <1>3, HeldNotDue
<1>5. Disjoint'
  BY <1>1, <1>4 DEF LeaseInv, Disjoint, TypeOK
<1>6. HeldIsStored'
  <2>1. stored' = stored
    BY DEF Claim
  <2>2. \A r \in B : stored[r] # "absent"
    BY <1>3 DEF Due, Pending
  <2>. QED
    BY <1>1, <2>1, <2>2 DEF LeaseInv, HeldIsStored, TypeOK
<1>7. LeaseOutlastsBatch'
  <2>1. elapsed' = [elapsed EXCEPT ![w] = 0]
    BY DEF Claim
  <2>2. SUFFICES ASSUME NEW v \in Relays, NEW r \in left'[v]
                 PROVE  Cardinality(left'[v]) * DispatchLimit
                          < wait'[r] + elapsed'[v]
    BY DEF LeaseOutlastsBatch
  <2>3. CASE v = w
    <3>1. left'[v] = B /\ r \in B /\ r \in Rows
      BY <1>1, <1>2, <2>2, <2>3 DEF TypeOK
    <3>2. wait'[r] = Lease /\ elapsed'[v] = 0
      BY <1>1, <2>1, <2>3, <3>1 DEF TypeOK
    <3>3. IsFiniteSet({q \in candidates[w] : Due(q)}) /\ IsFiniteSet(B)
      BY <1>2, FS_Subset, RelayConstants
    <3>4. /\ Cardinality(B) \in Nat
          /\ Cardinality({q \in candidates[w] : Due(q)}) \in Nat
      BY <3>3, FS_CardinalityType
    <3>5. Cardinality(B) <= BatchSize
      BY <1>1, <3>4, RelayConstants DEF IsFirst
    <3>6. Cardinality(B) * DispatchLimit <= BatchSize * DispatchLimit
      BY <3>4, <3>5, MulMono, RelayConstants
    <3>7. /\ Cardinality(B) * DispatchLimit \in Nat
          /\ BatchSize * DispatchLimit \in Nat
          /\ Lease \in Nat
      BY <3>4, RelayConstants
    <3>. QED
      BY <3>1, <3>2, <3>6, <3>7 DEF Sized
  <2>4. CASE v # w
    <3>1. left'[v] = left[v] /\ elapsed'[v] = elapsed[v]
      BY <1>1, <2>1, <2>4 DEF TypeOK
    <3>2. r \in Rows /\ r \notin B
      BY <1>4, <2>2, <3>1 DEF TypeOK
    <3>3. wait'[r] = wait[r]
      BY <1>1, <3>2
    <3>. QED
      BY <2>2, <3>1, <3>3 DEF LeaseInv, LeaseOutlastsBatch
  <2>. QED
    BY <2>3, <2>4
<1>. QED
  BY <1>5, <1>6, <1>7 DEF LeaseInv

(* The relay goes on to its next row; meanwhile the row it recorded may    *)
(* have got any new wait, and the other rows keep theirs.                  *)
LEMMA LeaseAdvance ==
  ASSUME TypeOK, LeaseInv, NEW w \in Relays, NEW r \in left[w],
         Advance(w, r), stored' = stored,
         \A q \in Rows \ {r} : wait'[q] = wait[q]
  PROVE  LeaseInv'
<1>1. /\ left' = [left EXCEPT ![w] = left[w] \ {r}]
      /\ elapsed' = [elapsed EXCEPT ![w] = 0]
  BY DEF Advance, TypeOK
<1>2. \A v \in Relays : left'[v] \subseteq left[v]
  BY <1>1 DEF TypeOK
<1>3. Disjoint' /\ HeldIsStored'
  BY <1>2 DEF LeaseInv, Disjoint, HeldIsStored
<1>4. SUFFICES ASSUME NEW v \in Relays, NEW q \in left'[v]
               PROVE  Cardinality(left'[v]) * DispatchLimit
                        < wait'[q] + elapsed'[v]
  BY <1>3 DEF LeaseInv, LeaseOutlastsBatch
<1>5. q \in left[v] /\ q \in Rows /\ q # r
  BY <1>1, <1>4 DEF LeaseInv, Disjoint, TypeOK
<1>6. wait'[q] = wait[q]
  BY <1>5
<1>7. CASE v = w
  <2>1. left'[v] = left[w] \ {r} /\ elapsed'[v] = 0
    BY <1>1, <1>7 DEF TypeOK
  <2>2. Cardinality(left'[v]) = Cardinality(left[w]) - 1
    BY <2>1, HeldFinite, FS_RemoveElement
  <2>3. Cardinality(left[w]) \in Nat \ {0}
    BY HeldFinite
  <2>4. Cardinality(left'[v]) * DispatchLimit
          = Cardinality(left[w]) * DispatchLimit - DispatchLimit
    BY <2>2, <2>3, MulStep, RelayConstants
  <2>5. Cardinality(left[w]) * DispatchLimit < wait[q] + elapsed[w]
    BY <1>5, <1>7 DEF LeaseInv, LeaseOutlastsBatch
  <2>6. /\ elapsed[w] \in 0 .. DispatchLimit /\ wait[q] \in Nat
        /\ DispatchLimit \in Nat
        /\ Cardinality(left[w]) * DispatchLimit \in Nat
    BY <1>5, <2>3, RelayConstants DEF TypeOK
  <2>. QED
    BY <1>6, <2>1, <2>4, <2>5, <2>6
<1>8. CASE v # w
  <2>1. left'[v] = left[v] /\ elapsed'[v] = elapsed[v]
    BY <1>1, <1>8 DEF TypeOK
  <2>. QED
    BY <1>5, <1>6, <2>1 DEF LeaseInv, LeaseOutlastsBatch
<1>. QED
  BY <1>7, <1>8

(* A relay forgets its batch; the waits of the rows it held are nobody's   *)
(* concern any more.                                                       *)
LEMMA LeaseForget ==
  ASSUME TypeOK, LeaseInv, NEW w \in Relays, Forget(w), stored' = stored,
         \A q \in Rows \ left[w] : wait'[q] = wait[q]
  PROVE  LeaseInv'
<1>1. left' = [left EXCEPT ![w] = {}] /\ elapsed' = [elapsed EXCEPT ![w] = 0]
  BY DEF Forget
<1>2. Disjoint' /\ HeldIsStored'
  BY <1>1 DEF LeaseInv, Disjoint, HeldIsStored, TypeOK
<1>3. SUFFICES ASSUME NEW v \in Relays, NEW q \in left'[v]
               PROVE  Cardinality(left'[v]) * DispatchLimit
                        < wait'[q] + elapsed'[v]
  BY <1>2 DEF LeaseInv, LeaseOutlastsBatch
<1>4. v # w /\ left'[v] = left[v] /\ elapsed'[v] = elapsed[v]
  BY <1>1, <1>3 DEF TypeOK
<1>5. q \in Rows \ left[w]
  BY <1>3, <1>4 DEF LeaseInv, Disjoint, TypeOK
<1>. QED
  BY <1>3, <1>4, <1>5 DEF LeaseInv, LeaseOutlastsBatch

LEMMA LeaseTick == ASSUME TypeOK, LeaseInv, Tick PROVE LeaseInv'
<1>1. left' = left /\ stored' = stored
  BY DEF Tick
<1>2. Disjoint' /\ HeldIsStored'
  BY <1>1 DEF LeaseInv, Disjoint, HeldIsStored
<1>3. SUFFICES ASSUME NEW w \in Relays, NEW r \in left[w]
               PROVE  Cardinality(left[w]) * DispatchLimit
                        < wait'[r] + elapsed'[w]
  BY <1>1, <1>2 DEF LeaseInv, LeaseOutlastsBatch
<1>4. r \in Rows
  BY DEF TypeOK
<1>5. wait'[r] = wait[r] - 1 /\ elapsed'[w] = elapsed[w] + 1
  BY <1>4, HeldNotDue DEF Tick
<1>6. wait[r] \in Nat /\ elapsed[w] \in Nat
  BY <1>4 DEF TypeOK
<1>7. Cardinality(left[w]) * DispatchLimit < wait[r] + elapsed[w]
  BY DEF LeaseInv, LeaseOutlastsBatch
<1>8. wait'[r] + elapsed'[w] = wait[r] + elapsed[w]
  BY <1>5, <1>6
<1>. QED
  BY <1>7, <1>8

(* What a stamp may do to the timers: only the stamped row's wait moves.   *)
LEMMA StampsMoveOneWait ==
  ASSUME TypeOK, NEW w \in Relays, NEW r \in Rows,
         StampDelivered(r) \/ StampFailed(w, r) \/ UNCHANGED table
  PROVE  stored' = stored /\ \A q \in Rows \ {r} : wait'[q] = wait[q]
  BY DEF StampDelivered, StampFailed, TypeOK, table

LEMMA LeaseNext == Sized /\ TypeOK /\ LeaseInv /\ [Next]_vars => LeaseInv'
<1>. SUFFICES ASSUME Sized, TypeOK, LeaseInv, [Next]_vars PROVE LeaseInv'
  OBVIOUS
<1>. USE DEF LeaseInv
<1>1. CASE UNCHANGED vars
  BY <1>1 DEF vars, table, drain, LeaseOutlastsBatch, Disjoint, HeldIsStored
<1>2. ASSUME NEW r \in Rows, Enqueue(r) PROVE LeaseInv'
  <2>1. \A w \in Relays : r \notin left[w]
    BY <1>2 DEF Enqueue, HeldIsStored
  <2>2. left' = left /\ elapsed' = elapsed
    BY <1>2 DEF Enqueue, drain
  <2>3. \A q \in Rows \ {r} : wait'[q] = wait[q] /\ stored'[q] = stored[q]
    BY <1>2 DEF Enqueue, TypeOK
  <2>4. \A w \in Relays : left[w] \subseteq Rows \ {r}
    BY <2>1 DEF TypeOK
  <2>. QED
    BY <2>2, <2>3, <2>4 DEF LeaseOutlastsBatch, Disjoint, HeldIsStored
<1>3. ASSUME NEW r \in Rows, Purge(r) PROVE LeaseInv'
  <2>1. left' = left /\ elapsed' = elapsed /\ wait' = wait
    BY <1>3 DEF Purge, drain
  <2>2. \A q \in Rows : stored[q] # "absent" => stored'[q] # "absent"
    BY <1>3 DEF Purge, TypeOK
  <2>3. \A w \in Relays : left[w] \subseteq Rows
    BY DEF TypeOK
  <2>. QED
    BY <2>1, <2>2, <2>3 DEF LeaseOutlastsBatch, Disjoint, HeldIsStored
<1>4. ASSUME NEW w \in Relays, Rank(w) \/ Start(w) \/ Stop(w) PROVE LeaseInv'
  BY <1>4 DEF Rank, Start, Stop, table, drain, LeaseOutlastsBatch, Disjoint,
              HeldIsStored
<1>5. ASSUME NEW w \in Relays, Claim(w) PROVE LeaseInv'
  BY <1>5, LeaseClaim
<1>6. ASSUME NEW w \in Relays, NEW r \in Rows,
             NEW o \in Outcomes \ {"none"}, NEW landed \in BOOLEAN,
             DispatchEnds(w, r, o, landed)
      PROVE  LeaseInv'
  BY <1>6 DEF DispatchEnds, table, LeaseOutlastsBatch, Disjoint, HeldIsStored
<1>7. ASSUME NEW w \in Relays, NEW r \in Rows,
             MarkDelivered(w, r) \/ MarkFailed(w, r)
      PROVE  LeaseInv'
  <2>1. r \in left[w] /\ Advance(w, r)
    BY <1>7 DEF MarkDelivered, MarkFailed, IsCurrent
  <2>2. stored' = stored /\ \A q \in Rows \ {r} : wait'[q] = wait[q]
    BY <1>7, StampsMoveOneWait DEF MarkDelivered, MarkFailed
  <2>. QED
    BY <2>1, <2>2, LeaseAdvance
<1>8. ASSUME NEW w \in Relays, Crash(w) PROVE LeaseInv'
  BY <1>8, LeaseForget DEF Crash, table
<1>9. ASSUME NEW w \in Relays, NEW r \in Rows, NEW applied \in BOOLEAN,
             MarkDeliveredThrows(w, r, applied)
      PROVE  LeaseInv'
  <2>1. left' = left /\ elapsed' = elapsed /\ wait' = wait /\ stored' = stored
    BY <1>9 DEF MarkDeliveredThrows, StampDelivered, table
  <2>. QED
    BY <2>1 DEF LeaseOutlastsBatch, Disjoint, HeldIsStored
<1>10. ASSUME NEW w \in Relays, NEW r \in Rows, NEW applied \in BOOLEAN,
              MarkFailedThrows(w, r, applied)
       PROVE  LeaseInv'
  <2>1. r \in left[w] /\ Forget(w)
    BY <1>10 DEF MarkFailedThrows, IsCurrent
  <2>2. stored' = stored /\ \A q \in Rows \ {r} : wait'[q] = wait[q]
    BY <1>10, StampsMoveOneWait DEF MarkFailedThrows
  <2>. QED
    BY <2>1, <2>2, LeaseForget
<1>11. CASE Tick
  BY <1>11, LeaseTick
<1>. QED
  BY <1>1, <1>2, <1>3, <1>4, <1>5, <1>6, <1>7, <1>8, <1>9, <1>10, <1>11
     DEF Next, RelayStep, Disruption

(* When the lease outlasts a batch, no two relays ever work on the same    *)
(* row, whatever crashes, failures and retries happen.                     *)
THEOREM RelaysExclusive == Spec => []ExclusiveHold
<1>1. CASE Sized
  <2>1. Init => LeaseInv
    BY LeaseInit
  <2>2. TypeOK /\ LeaseInv /\ [Next]_vars => LeaseInv'
    BY <1>1, LeaseNext
  <2>3. LeaseInv => ExclusiveHold
    BY DEF LeaseInv, Disjoint, ExclusiveHold
  <2>. QED
    BY <2>1, <2>2, <2>3, TypeCorrect, PTL DEF Spec
<1>2. CASE ~Sized
  <2>1. ExclusiveHold
    BY <1>2 DEF ExclusiveHold
  <2>. QED
    BY <2>1, PTL
<1>. QED
  BY <1>1, <1>2

------------------------------------------------------------------------------
(* One way to settle *)

(* A row in hand is not settled, unless the stamp that settled it threw    *)
(* back at the very relay that holds it.                                   *)
HeldIsOpen ==
  \A w \in Relays : \A r \in left[w] :
    ~dead[r] /\ (delivered[r] => blurred[r] > 0)

OneWay == \A r \in Rows : delivered[r] /\ dead[r] => blurred[r] > 0

SettleInv == HeldIsOpen /\ OneWay

LEMMA SettleInit == Init => SettleInv
  BY DEF Init, SettleInv, HeldIsOpen, OneWay

LEMMA BlurGrows ==
  ASSUME TypeOK, NEW w \in Relays, blurred' = Blur(w)
  PROVE  \A r \in Rows : /\ blurred[r] > 0 => blurred'[r] > 0
                         /\ outcome[w] = "ok" /\ IsCurrent(w, r) => blurred'[r] > 0
  BY DEF Blur, TypeOK

(* A failure stamp puts a row on the dead-letter pile only if it is not    *)
(* delivered, or was delivered by a stamp whose reply was lost.            *)
LEMMA SettleStampFailed ==
  ASSUME TypeOK, SettleInv, NEW w \in Relays, NEW r \in left[w],
         StampFailed(w, r), blurred' = blurred
  PROVE  /\ OneWay'
         /\ delivered' = delivered
         /\ \A q \in Rows \ {r} : dead'[q] = dead[q]
<1>1. r \in Rows
  BY DEF TypeOK
<1>2. /\ delivered' = delivered
      /\ \A q \in Rows \ {r} : dead'[q] = dead[q]
  BY DEF StampFailed, TypeOK
<1>. QED
  BY <1>1, <1>2 DEF SettleInv, HeldIsOpen, OneWay

LEMMA SettleNext ==
  TypeOK /\ LeaseInv /\ SettleInv /\ [Next]_vars => SettleInv'
<1>. SUFFICES ASSUME TypeOK, LeaseInv, SettleInv, [Next]_vars
              PROVE  SettleInv'
  OBVIOUS
<1>a. \A w \in Relays : left[w] \subseteq Rows
  BY DEF TypeOK
<1>1. CASE UNCHANGED vars
  BY <1>1 DEF vars, table, drain, history, SettleInv, HeldIsOpen, OneWay
<1>2. ASSUME NEW r \in Rows, Enqueue(r) \/ Purge(r) PROVE SettleInv'
  BY <1>2 DEF Enqueue, Purge, drain, history, SettleInv, HeldIsOpen, OneWay
<1>3. ASSUME NEW w \in Relays, Rank(w) \/ Start(w) \/ Stop(w) PROVE SettleInv'
  BY <1>3 DEF Rank, Start, Stop, table, drain, history, SettleInv,
              HeldIsOpen, OneWay
<1>4. ASSUME NEW w \in Relays, Claim(w) PROVE SettleInv'
  <2>1. PICK B \in SUBSET {r \in candidates[w] : Due(r)} :
          left' = [left EXCEPT ![w] = B]
    BY <1>4 DEF Claim
  <2>2. \A r \in B : ~dead[r] /\ ~delivered[r]
    BY DEF Due, Pending
  <2>3. dead' = dead /\ delivered' = delivered /\ blurred' = blurred
    BY <1>4 DEF Claim, history
  <2>. QED
    BY <2>1, <2>2, <2>3 DEF SettleInv, HeldIsOpen, OneWay, TypeOK
<1>5. ASSUME NEW w \in Relays, NEW r \in Rows,
             NEW o \in Outcomes \ {"none"}, NEW landed \in BOOLEAN,
             DispatchEnds(w, r, o, landed)
      PROVE  SettleInv'
  <2>1. \A q \in Rows : blurred[q] > 0 => blurred'[q] > 0
    BY <1>5 DEF DispatchEnds, TypeOK
  <2>2. left' = left /\ dead' = dead /\ delivered' = delivered
    BY <1>5 DEF DispatchEnds, table
  <2>. QED
    BY <1>a, <2>1, <2>2 DEF SettleInv, HeldIsOpen, OneWay
<1>6. ASSUME NEW w \in Relays, NEW r \in Rows, MarkDelivered(w, r)
      PROVE  SettleInv'
  <2>1. /\ r \in left[w]
        /\ left' = [left EXCEPT ![w] = @ \ {r}]
        /\ dead' = dead /\ blurred' = blurred
        /\ \A q \in Rows \ {r} : delivered'[q] = delivered[q]
    BY <1>6 DEF MarkDelivered, IsCurrent, Advance, StampDelivered, TypeOK,
                history
  <2>2. \A v \in Relays : left'[v] \subseteq left[v] \ {r}
    BY <2>1 DEF LeaseInv, Disjoint, TypeOK
  <2>. QED
    BY <1>a, <2>1, <2>2 DEF SettleInv, HeldIsOpen, OneWay
<1>7. ASSUME NEW w \in Relays, NEW r \in Rows, MarkFailed(w, r)
      PROVE  SettleInv'
  <2>1. /\ r \in left[w]
        /\ left' = [left EXCEPT ![w] = @ \ {r}]
        /\ StampFailed(w, r) /\ blurred' = blurred
    BY <1>7 DEF MarkFailed, IsCurrent, Advance, history
  <2>2. \A v \in Relays : left'[v] \subseteq left[v] \ {r}
    BY <2>1 DEF LeaseInv, Disjoint, TypeOK
  <2>. QED
    BY <1>a, <2>1, <2>2, SettleStampFailed DEF SettleInv, HeldIsOpen
<1>8. ASSUME NEW w \in Relays, NEW r \in Rows, NEW applied \in BOOLEAN,
             MarkDeliveredThrows(w, r, applied)
      PROVE  SettleInv'
  <2>1. r \in left[w] /\ left' = left /\ dead' = dead
    BY <1>8 DEF MarkDeliveredThrows, IsCurrent, StampDelivered, table
  <2>2. \A q \in Rows \ {r} : delivered'[q] = delivered[q]
    BY <1>8 DEF MarkDeliveredThrows, StampDelivered, table, TypeOK
  <2>3. /\ \A q \in Rows : blurred[q] > 0 => blurred'[q] > 0
        /\ blurred'[r] > 0
    BY <1>8, BlurGrows DEF MarkDeliveredThrows
  <2>. QED
    BY <1>a, <2>1, <2>2, <2>3 DEF SettleInv, HeldIsOpen, OneWay
<1>9. ASSUME NEW w \in Relays, NEW r \in Rows, NEW applied \in BOOLEAN,
             MarkFailedThrows(w, r, applied)
      PROVE  SettleInv'
  <2>1. /\ r \in left[w]
        /\ left' = [left EXCEPT ![w] = {}]
        /\ blurred' = blurred
    BY <1>9 DEF MarkFailedThrows, IsCurrent, Forget
  <2>2. \A v \in Relays : left'[v] \subseteq left[v] \ {r}
    BY <2>1 DEF LeaseInv, Disjoint, TypeOK
  <2>3. CASE applied
    BY <1>9, <1>a, <2>1, <2>2, <2>3, SettleStampFailed
       DEF MarkFailedThrows, SettleInv, HeldIsOpen
  <2>4. CASE ~applied
    BY <1>9, <1>a, <2>1, <2>2, <2>4
       DEF MarkFailedThrows, table, SettleInv, HeldIsOpen, OneWay
  <2>. QED
    BY <2>3, <2>4
<1>10. ASSUME NEW w \in Relays, Crash(w) PROVE SettleInv'
  <2>1. \A q \in Rows : blurred[q] > 0 => blurred'[q] > 0
    BY <1>10, BlurGrows DEF Crash
  <2>2. /\ dead' = dead /\ delivered' = delivered
        /\ \A v \in Relays : left'[v] \subseteq left[v]
    BY <1>10 DEF Crash, Forget, table, TypeOK
  <2>. QED
    BY <1>a, <2>1, <2>2 DEF SettleInv, HeldIsOpen, OneWay
<1>11. CASE Tick
  BY <1>11 DEF Tick, history, SettleInv, HeldIsOpen, OneWay
<1>. QED
  BY <1>1, <1>2, <1>3, <1>4, <1>5, <1>6, <1>7, <1>8, <1>9, <1>10, <1>11
     DEF Next, RelayStep, Disruption

(* When the lease outlasts a batch, a row is delivered or dead-lettered    *)
(* but not both, unless the reply to its delivered stamp was lost.         *)
THEOREM RowsSettleOneWay == Spec => []SettledOneWay
<1>1. CASE Sized
  <2>1. Init => LeaseInv /\ SettleInv
    BY LeaseInit, SettleInit
  <2>2. TypeOK /\ LeaseInv /\ SettleInv /\ [Next]_vars
          => (LeaseInv /\ SettleInv)'
    BY <1>1, LeaseNext, SettleNext
  <2>3. SettleInv => SettledOneWay
    BY DEF SettleInv, OneWay, SettledOneWay
  <2>. QED
    BY <2>1, <2>2, <2>3, TypeCorrect, PTL DEF Spec
<1>2. CASE ~Sized
  <2>1. SettledOneWay
    BY <1>2 DEF SettledOneWay
  <2>. QED
    BY <2>1, PTL
<1>. QED
  BY <1>1, <1>2

------------------------------------------------------------------------------
(* What a relay has in hand *)

(* The order of a batch is a total one, so one record is current. *)
LEMMA RankIsNumber ==
  ASSUME NEW S \in SUBSET Rows, NEW r \in Rows
  PROVE  FairRank(r, S) \in Nat
<1>1. {q \in S : WorkspaceOf[q] = WorkspaceOf[r] /\ q <= r} \in SUBSET Rows
  OBVIOUS
<1>. QED
  BY <1>1, FS_Subset, FS_CardinalityType, RelayConstants DEF FairRank

LEMMA OneCurrent ==
  ASSUME TypeOK, NEW w \in Relays, NEW r, NEW q,
         IsCurrent(w, r), IsCurrent(w, q)
  PROVE  r = q
<1>1. batch[w] \in SUBSET Rows /\ r \in Rows /\ q \in Rows
  BY DEF TypeOK, IsCurrent
<1>2. /\ FairRank(r, batch[w]) \in Nat /\ FairRank(q, batch[w]) \in Nat
      /\ r \in Nat /\ q \in Nat
  BY <1>1, RankIsNumber, RelayConstants
<1>3. Before(r, q, batch[w]) /\ Before(q, r, batch[w])
  BY DEF IsCurrent
<1>. QED
  BY <1>2, <1>3 DEF Before

(* A row in hand is still open, or the relay that holds it has just lost   *)
(* the reply to its delivered stamp; the claim that took it was the last   *)
(* one; and how its dispatch ended is what the history says.               *)
Hand(w, r) ==
  /\ delivered[r] => outcome[w] = "transient" /\ IsCurrent(w, r)
  /\ ~delivered[r] => stored[r] = "stored"
  /\ snapshot[w][r] = attempts[r]
  /\ IsCurrent(w, r) /\ outcome[w] = "ok" => sends[r] > 0
  /\ IsCurrent(w, r) /\ outcome[w] = "permanent" => refused[r]

HandInv == \A w \in Relays : \A r \in left[w] : Hand(w, r)

LEMMA HandInit == Init => HandInv
  BY DEF Init, HandInv

(* Steps that leave the drain of w and the row r alone. *)
LEMMA HandStill ==
  ASSUME TypeOK, HandInv, NEW w \in Relays, NEW r \in left[w],
         left'[w] = left[w], batch'[w] = batch[w], outcome'[w] = outcome[w],
         snapshot'[w][r] = snapshot[w][r], attempts'[r] = attempts[r],
         delivered'[r] = delivered[r],
         ~delivered[r] /\ stored[r] = "stored" => stored'[r] = "stored",
         sends[r] > 0 => sends'[r] > 0, refused[r] => refused'[r]
  PROVE  Hand(w, r)'
<1>1. IsCurrent(w, r)' <=> IsCurrent(w, r)
  BY DEF IsCurrent, Before
<1>. QED
  BY <1>1 DEF HandInv, Hand

(* The relay w gives up the row r and nothing else of its batch. *)
LEMMA HandAdvance ==
  ASSUME TypeOK, LeaseInv, HandInv, NEW w \in Relays, NEW r \in Rows,
         IsCurrent(w, r), Advance(w, r), stored' = stored,
         attempts' = attempts, sends' = sends, refused' = refused,
         \A q \in Rows \ {r} : delivered'[q] = delivered[q]
  PROVE  HandInv'
<1>. SUFFICES ASSUME NEW v \in Relays, NEW q \in left'[v] PROVE Hand(v, q)'
  BY DEF HandInv
<1>1. /\ left' = [left EXCEPT ![w] = left[w] \ {r}]
      /\ outcome' = [outcome EXCEPT ![w] = "none"]
      /\ r \in left[w]
  BY DEF Advance, IsCurrent, TypeOK
<1>2. q \in left[v] /\ q \in Rows /\ q # r
  BY <1>1 DEF LeaseInv, Disjoint, TypeOK
<1>3. snapshot'[v][q] = snapshot[v][q]
  BY <1>2 DEF Advance, TypeOK
<1>4. delivered'[q] = delivered[q]
  BY <1>2
<1>5. CASE v = w
  <2>1. outcome'[v] = "none"
    BY <1>1, <1>5 DEF TypeOK
  <2>2. ~delivered[q]
    BY <1>2, <1>5, OneCurrent DEF HandInv, Hand
  <2>. QED
    BY <1>2, <1>3, <1>4, <1>5, <2>1, <2>2 DEF HandInv, Hand
<1>6. CASE v # w
  <2>1. /\ left'[v] = left[v] /\ batch'[v] = batch[v]
        /\ outcome'[v] = outcome[v]
    BY <1>6 DEF Advance, TypeOK
  <2>. QED
    BY <1>2, <1>3, <1>4, <2>1, HandStill
<1>. QED
  BY <1>5, <1>6

(* The relay w forgets its batch, whatever became of the rows in it. *)
LEMMA HandForget ==
  ASSUME TypeOK, LeaseInv, HandInv, NEW w \in Relays, Forget(w),
         stored' = stored, attempts' = attempts, sends' = sends,
         refused' = refused,
         \A q \in Rows \ left[w] : delivered'[q] = delivered[q]
  PROVE  HandInv'
<1>. SUFFICES ASSUME NEW v \in Relays, NEW q \in left'[v] PROVE Hand(v, q)'
  BY DEF HandInv
<1>1. v # w
  BY DEF Forget, TypeOK
<1>2. /\ left'[v] = left[v] /\ batch'[v] = batch[v]
      /\ outcome'[v] = outcome[v] /\ snapshot'[v] = snapshot[v]
  BY <1>1 DEF Forget, TypeOK
<1>3. q \in Rows \ left[w]
  BY <1>1, <1>2 DEF LeaseInv, Disjoint, TypeOK
<1>. QED
  BY <1>2, <1>3, HandStill

LEMMA HandClaim ==
  ASSUME TypeOK, LeaseInv, HandInv, NEW w \in Relays, Claim(w)
  PROVE  HandInv'
<1>. SUFFICES ASSUME NEW v \in Relays, NEW q \in left'[v] PROVE Hand(v, q)'
  BY DEF HandInv
<1>1. PICK B \in SUBSET {r \in candidates[w] : Due(r)} :
        /\ attempts' = [r \in Rows |->
                          attempts[r] + (IF r \in B THEN 1 ELSE 0)]
        /\ batch' = [batch EXCEPT ![w] = B]
        /\ left' = [left EXCEPT ![w] = B]
        /\ snapshot' = [snapshot EXCEPT ![w] =
             [r \in Rows |-> IF r \in B THEN attempts[r] + 1 ELSE 0]]
  BY DEF Claim
<1>2. /\ outcome' = [outcome EXCEPT ![w] = "none"]
      /\ UNCHANGED <<stored, delivered, sends, refused>>
  BY DEF Claim, history
<1>3. CASE v = w
  <2>1. q \in B /\ q \in Rows /\ Due(q)
    BY <1>1, <1>3 DEF TypeOK
  <2>2. outcome'[v] = "none" /\ ~delivered[q] /\ stored[q] = "stored"
    BY <1>2, <1>3, <2>1 DEF TypeOK, Due, Pending
  <2>3. snapshot'[v][q] = attempts'[q]
    BY <1>1, <1>3, <2>1 DEF TypeOK
  <2>. QED
    BY <1>2, <2>2, <2>3 DEF Hand
<1>4. CASE v # w
  <2>1. /\ left'[v] = left[v] /\ batch'[v] = batch[v]
        /\ outcome'[v] = outcome[v] /\ snapshot'[v] = snapshot[v]
    BY <1>1, <1>2, <1>4 DEF TypeOK
  <2>2. q \in Rows /\ q \notin B
    BY <2>1, HeldNotDue DEF TypeOK
  <2>3. attempts'[q] = attempts[q]
    BY <1>1, <2>2 DEF TypeOK
  <2>. QED
    BY <1>2, <2>1, <2>3, HandStill
<1>. QED
  BY <1>3, <1>4

LEMMA HandNext ==
  Sized /\ TypeOK /\ LeaseInv /\ SettleInv /\ HandInv /\ [Next]_vars
    => HandInv'
<1>. SUFFICES ASSUME Sized, TypeOK, LeaseInv, SettleInv, HandInv, [Next]_vars
              PROVE  HandInv'
  OBVIOUS
<1>a. \A w \in Relays : left[w] \subseteq Rows
  BY DEF TypeOK
<1>1. CASE UNCHANGED <<drain, attempts, delivered, sends, refused>>
             /\ \A r \in Rows : stored[r] = "stored" /\ ~delivered[r] /\ ~dead[r]
                                  => stored'[r] = "stored"
  <2>. SUFFICES ASSUME NEW w \in Relays, NEW r \in left[w] PROVE Hand(w, r)'
    BY <1>1 DEF HandInv, drain
  <2>1. ~dead[r]
    BY DEF SettleInv, HeldIsOpen
  <2>. QED
    BY <1>a, <1>1, <2>1, HandStill DEF drain
<1>2. CASE UNCHANGED vars
  BY <1>1, <1>2 DEF vars, table, history
<1>3. ASSUME NEW r \in Rows, Enqueue(r) \/ Purge(r) PROVE HandInv'
  BY <1>1, <1>3 DEF Enqueue, Purge, history, TypeOK
<1>4. ASSUME NEW w \in Relays, Start(w) \/ Stop(w) PROVE HandInv'
  BY <1>1, <1>4 DEF Start, Stop, table, history
<1>5. ASSUME NEW w \in Relays, Rank(w) PROVE HandInv'
  <2>. SUFFICES ASSUME NEW v \in Relays, NEW r \in left[v] PROVE Hand(v, r)'
    BY <1>5 DEF HandInv, Rank
  <2>. QED
    BY <1>5, HandStill DEF Rank, table, history
<1>6. CASE Tick
  <2>. SUFFICES ASSUME NEW v \in Relays, NEW r \in left[v] PROVE Hand(v, r)'
    BY <1>6 DEF HandInv, Tick
  <2>. QED
    BY <1>6, HandStill DEF Tick, history
<1>7. ASSUME NEW w \in Relays, Claim(w) PROVE HandInv'
  BY <1>7, HandClaim
<1>8. ASSUME NEW w \in Relays, NEW r \in Rows,
             NEW o \in Outcomes \ {"none"}, NEW landed \in BOOLEAN,
             DispatchEnds(w, r, o, landed)
      PROVE  HandInv'
  <2>. SUFFICES ASSUME NEW v \in Relays, NEW q \in left[v] PROVE Hand(v, q)'
    BY <1>8 DEF HandInv, DispatchEnds
  <2>1. /\ UNCHANGED <<stored, attempts, delivered, left, batch, snapshot>>
        /\ outcome' = [outcome EXCEPT ![w] = o]
        /\ \A x \in Rows : /\ sends[x] > 0 => sends'[x] > 0
                           /\ refused[x] => refused'[x]
    BY <1>8 DEF DispatchEnds, table, TypeOK
  <2>2. CASE v # w
    <3>1. outcome'[v] = outcome[v]
      BY <2>1, <2>2 DEF TypeOK
    <3>. QED
      BY <1>a, <2>1, <3>1, HandStill
  <2>3. CASE v = w
    <3>1. ~delivered[q]
      BY <1>8, <2>3 DEF HandInv, Hand, DispatchEnds
    <3>2. ASSUME IsCurrent(w, q)
          PROVE  /\ o = "ok" => sends'[q] > 0
                 /\ o = "permanent" => refused'[q]
      <4>1. q = r
        BY <1>8, <3>2, OneCurrent DEF DispatchEnds
      <4>2. o = "ok" => sends'[q] > 0
        BY <1>8, <4>1 DEF DispatchEnds, TypeOK
      <4>3. o = "permanent" => refused'[q]
        BY <1>8, <4>1, Zenon DEF DispatchEnds, TypeOK
      <4>. QED
        BY <4>2, <4>3
    <3>3. IsCurrent(v, q)' <=> IsCurrent(w, q)
      BY <2>1, <2>3 DEF IsCurrent, Before
    <3>4. outcome'[v] = o
      BY <2>1, <2>3 DEF TypeOK
    <3>. QED
      BY <2>1, <2>3, <3>1, <3>2, <3>3, <3>4 DEF HandInv, Hand
  <2>. QED
    BY <2>2, <2>3
<1>9. ASSUME NEW w \in Relays, NEW r \in Rows,
             MarkDelivered(w, r) \/ MarkFailed(w, r)
      PROVE  HandInv'
  <2>1. IsCurrent(w, r) /\ Advance(w, r)
    BY <1>9 DEF MarkDelivered, MarkFailed
  <2>2. /\ UNCHANGED <<stored, attempts, sends, refused>>
        /\ \A q \in Rows \ {r} : delivered'[q] = delivered[q]
    BY <1>9 DEF MarkDelivered, MarkFailed, StampDelivered, StampFailed,
                history, TypeOK
  <2>. QED
    BY <2>1, <2>2, HandAdvance
<1>10. ASSUME NEW w \in Relays, NEW r \in Rows, NEW applied \in BOOLEAN,
              MarkDeliveredThrows(w, r, applied)
       PROVE  HandInv'
  <2>1. /\ UNCHANGED <<stored, attempts, sends, refused, left, batch, snapshot>>
        /\ \A q \in Rows \ {r} : delivered'[q] = delivered[q]
        /\ outcome' = [outcome EXCEPT ![w] = "transient"]
        /\ IsCurrent(w, r) /\ outcome[w] = "ok"
    BY <1>10 DEF MarkDeliveredThrows, StampDelivered, table, TypeOK
  <2>. SUFFICES ASSUME NEW v \in Relays, NEW q \in left[v] PROVE Hand(v, q)'
    BY <2>1 DEF HandInv
  <2>2. CASE v # w
    <3>1. q # r /\ q \in Rows
      BY <1>a, <2>1, <2>2 DEF LeaseInv, Disjoint, IsCurrent
    <3>2. outcome'[v] = outcome[v]
      BY <2>1, <2>2 DEF TypeOK
    <3>. QED
      BY <2>1, <3>1, <3>2, HandStill
  <2>3. CASE v = w
    <3>1. outcome'[v] = "transient"
      BY <2>1, <2>3 DEF TypeOK
    <3>2. ~delivered[q] /\ stored[q] = "stored"
      BY <2>1, <2>3 DEF HandInv, Hand
    <3>3. delivered'[q] => q = r
      BY <1>a, <2>1, <3>2
    <3>4. IsCurrent(v, q)' <=> IsCurrent(w, q)
      BY <2>1, <2>3 DEF IsCurrent, Before
    <3>. QED
      BY <2>1, <2>3, <3>1, <3>2, <3>3, <3>4 DEF HandInv, Hand
  <2>. QED
    BY <2>2, <2>3
<1>11. ASSUME NEW w \in Relays, NEW r \in Rows, NEW applied \in BOOLEAN,
              MarkFailedThrows(w, r, applied)
       PROVE  HandInv'
  <2>1. /\ UNCHANGED <<stored, attempts, delivered, sends, refused>>
        /\ Forget(w)
    BY <1>11 DEF MarkFailedThrows, StampFailed, table
  <2>. QED
    BY <2>1, HandForget
<1>12. ASSUME NEW w \in Relays, Crash(w) PROVE HandInv'
  BY <1>12, HandForget DEF Crash, table
<1>. QED
  BY <1>2, <1>3, <1>4, <1>5, <1>6, <1>7, <1>8, <1>9, <1>10, <1>11, <1>12
     DEF Next, RelayStep, Disruption

(* Everything about the relays that the results below lean on. *)
RelayInv == TypeOK /\ LeaseInv /\ SettleInv /\ HandInv

LEMMA RelayInvInit == Init => RelayInv
  BY TypeInit, LeaseInit, SettleInit, HandInit DEF RelayInv

LEMMA RelayInvNext == Sized /\ RelayInv /\ [Next]_vars => RelayInv'
  BY TypeNext, LeaseNext, SettleNext, HandNext DEF RelayInv

------------------------------------------------------------------------------
(* No duplicates of the relay's own *)

(* A drain ranks only when it has nothing left to dispatch. *)
OneDrain == \A w \in Relays : candidates[w] = {} \/ left[w] = {}

(* The message of r has left, and its relay has still to record it. *)
InFlight(r) == \E w \in Relays : IsCurrent(w, r) /\ outcome[w] = "ok"

(* Only a message whose success is recorded, or about to be, is not paid   *)
(* for by a lost reply.                                                    *)
Spare(r) ==
  /\ sends[r] <= blurred[r] + 1
  /\ ~delivered[r] /\ ~InFlight(r) => sends[r] <= blurred[r]

SpareInv == OneDrain /\ \A r \in Rows : Spare(r)

LEMMA SpareInit == Init => SpareInv
  BY DEF Init, SpareInv, OneDrain, Spare

(* Steps that send no message for r. *)
LEMMA SpareStill ==
  ASSUME TypeOK, TypeOK', SpareInv, NEW r \in Rows,
         sends'[r] = sends[r], blurred[r] <= blurred'[r],
         delivered[r] => delivered'[r],
         InFlight(r) => InFlight(r)' \/ delivered'[r] \/ blurred[r] < blurred'[r]
  PROVE  Spare(r)'
<1>1. /\ sends[r] \in Nat /\ blurred[r] \in Nat
      /\ sends'[r] \in Nat /\ blurred'[r] \in Nat
  BY DEF TypeOK
<1>2. Spare(r)
  BY DEF SpareInv
<1>. QED
  BY <1>1, <1>2 DEF Spare

(* Steps that change the drain of one relay only, and that relay has no    *)
(* message in flight.                                                      *)
LEMMA FlightStill ==
  ASSUME TypeOK, NEW w \in Relays, NEW r \in Rows, InFlight(r),
         ~(IsCurrent(w, r) /\ outcome[w] = "ok"),
         \A v \in Relays \ {w} : /\ left'[v] = left[v] /\ batch'[v] = batch[v]
                                 /\ outcome'[v] = outcome[v]
  PROVE  InFlight(r)'
<1>1. PICK v \in Relays : IsCurrent(v, r) /\ outcome[v] = "ok"
  BY DEF InFlight
<1>2. v # w
  BY <1>1
<1>3. IsCurrent(v, r)' /\ outcome'[v] = "ok"
  BY <1>1, <1>2 DEF IsCurrent, Before
<1>. QED
  BY <1>3 DEF InFlight

LEMMA SpareDispatch ==
  ASSUME TypeOK, TypeOK', LeaseInv, HandInv, SpareInv,
         NEW w \in Relays, NEW r \in Rows,
         NEW o \in Outcomes \ {"none"}, NEW landed \in BOOLEAN,
         DispatchEnds(w, r, o, landed)
  PROVE  SpareInv'
<1>1. OneDrain'
  BY DEF DispatchEnds, SpareInv, OneDrain
<1>2. /\ outcome' = [outcome EXCEPT ![w] = o] /\ outcome[w] = "none"
      /\ IsCurrent(w, r) /\ r \in left[w]
      /\ UNCHANGED <<left, batch, delivered>>
  BY DEF DispatchEnds, IsCurrent, table
<1>3. ASSUME NEW q \in Rows, q # r PROVE Spare(q)'
  <2>1. sends'[q] = sends[q] /\ blurred'[q] = blurred[q] /\ blurred[q] \in Nat
    BY <1>3 DEF DispatchEnds, TypeOK
  <2>2. InFlight(q) => InFlight(q)'
    BY <1>2, FlightStill DEF TypeOK
  <2>. QED
    BY <1>2, <2>1, <2>2, SpareStill
<1>4. Spare(r)'
  <2>1. ~delivered[r]
    BY <1>2 DEF HandInv, Hand
  <2>2. ~InFlight(r)
    BY <1>2 DEF InFlight, IsCurrent, LeaseInv, Disjoint
  <2>3. sends[r] <= blurred[r]
    BY <2>1, <2>2 DEF SpareInv, Spare
  <2>4. /\ sends'[r] = sends[r] + (IF landed THEN 1 ELSE 0)
        /\ blurred'[r] = blurred[r] + (IF landed /\ o # "ok" THEN 1 ELSE 0)
        /\ o = "ok" => landed
        /\ sends[r] \in Nat /\ blurred[r] \in Nat
    BY DEF DispatchEnds, TypeOK
  <2>5. o = "ok" => InFlight(r)'
    <3>1. IsCurrent(w, r)' /\ outcome'[w] = o
      BY <1>2 DEF IsCurrent, Before, TypeOK
    <3>. QED
      BY <3>1 DEF InFlight
  <2>6. CASE o = "ok"
    BY <2>3, <2>4, <2>5, <2>6 DEF Spare
  <2>7. CASE o # "ok"
    BY <2>3, <2>4, <2>7 DEF Spare
  <2>. QED
    BY <2>6, <2>7
<1>. QED
  BY <1>1, <1>3, <1>4 DEF SpareInv

LEMMA SpareNext ==
  Sized /\ RelayInv /\ SpareInv /\ [Next]_vars => SpareInv'
<1>. SUFFICES ASSUME Sized, RelayInv, SpareInv, [Next]_vars PROVE SpareInv'
  OBVIOUS
<1>. USE DEF RelayInv
<1>a. RelayInv'
  BY RelayInvNext
<1>b. \A r \in Rows : blurred[r] \in Nat
  BY DEF TypeOK
<1>c. ASSUME OneDrain', \A r \in Rows : Spare(r)' PROVE SpareInv'
  BY <1>c DEF SpareInv
<1>1. CASE UNCHANGED <<candidates, batch, left, outcome, delivered, sends,
                       blurred>>
  <2>1. \A r \in Rows : InFlight(r) => InFlight(r)'
    BY <1>1 DEF InFlight, IsCurrent, Before
  <2>. QED
    BY <1>a, <1>b, <1>1, <2>1, SpareStill DEF SpareInv, OneDrain
<1>2. CASE UNCHANGED vars
  BY <1>1, <1>2 DEF vars, table, drain, history
<1>3. ASSUME NEW r \in Rows, Enqueue(r) \/ Purge(r) PROVE SpareInv'
  BY <1>1, <1>3 DEF Enqueue, Purge, drain, history
<1>4. ASSUME NEW w \in Relays, Start(w) \/ Stop(w) PROVE SpareInv'
  BY <1>1, <1>4 DEF Start, Stop, table, drain, history
<1>5. CASE Tick
  BY <1>1, <1>5 DEF Tick, history
<1>6. ASSUME NEW w \in Relays, Rank(w) PROVE SpareInv'
  <2>1. OneDrain'
    BY <1>6 DEF Rank, Idle, SpareInv, OneDrain, TypeOK
  <2>2. \A r \in Rows : InFlight(r) => InFlight(r)'
    BY <1>6 DEF Rank, InFlight, IsCurrent, Before
  <2>3. UNCHANGED <<delivered, sends, blurred>>
    BY <1>6 DEF Rank, table, history
  <2>. QED
    BY <1>a, <1>b, <1>c, <2>1, <2>2, <2>3, SpareStill
<1>7. ASSUME NEW w \in Relays, Claim(w) PROVE SpareInv'
  <2>1. left[w] = {}
    BY <1>7 DEF Claim, SpareInv, OneDrain
  <2>2. OneDrain'
    BY <1>7 DEF Claim, SpareInv, OneDrain, TypeOK
  <2>3. \A v \in Relays \ {w} : /\ left'[v] = left[v] /\ batch'[v] = batch[v]
                                /\ outcome'[v] = outcome[v]
    BY <1>7 DEF Claim, TypeOK
  <2>4. \A r \in Rows : InFlight(r) => InFlight(r)'
    BY <2>1, <2>3, FlightStill DEF IsCurrent
  <2>5. UNCHANGED <<delivered, sends, blurred>>
    BY <1>7 DEF Claim, history
  <2>. QED
    BY <1>a, <1>b, <1>c, <2>2, <2>4, <2>5, SpareStill
<1>8. ASSUME NEW w \in Relays, NEW r \in Rows,
             NEW o \in Outcomes \ {"none"}, NEW landed \in BOOLEAN,
             DispatchEnds(w, r, o, landed)
      PROVE  SpareInv'
  BY <1>8, <1>a, SpareDispatch
<1>9. ASSUME NEW w \in Relays, NEW r \in Rows,
             MarkDelivered(w, r) \/ MarkFailed(w, r)
      PROVE  SpareInv'
  <2>1. IsCurrent(w, r) /\ Advance(w, r) /\ UNCHANGED <<sends, blurred>>
    BY <1>9 DEF MarkDelivered, MarkFailed, history
  <2>2. OneDrain'
    BY <2>1 DEF Advance, IsCurrent, SpareInv, OneDrain, TypeOK
  <2>3. \A v \in Relays \ {w} : /\ left'[v] = left[v] /\ batch'[v] = batch[v]
                                /\ outcome'[v] = outcome[v]
    BY <2>1 DEF Advance, TypeOK
  <2>4. \A q \in Rows : delivered[q] => delivered'[q]
    BY <1>9, Zenon DEF MarkDelivered, MarkFailed, StampDelivered, StampFailed,
                       TypeOK
  <2>5. outcome[w] = "ok" => delivered'[r]
    <3>. SUFFICES ASSUME outcome[w] = "ok" PROVE delivered'[r]
      OBVIOUS
    <3>1. MarkDelivered(w, r)
      BY <1>9 DEF MarkFailed
    <3>2. ~delivered[r] /\ stored[r] = "stored"
      BY <2>1 DEF HandInv, Hand, IsCurrent
    <3>. QED
      BY <3>1, <3>2, Zenon DEF MarkDelivered, StampDelivered, TypeOK
  <2>6. \A q \in Rows : InFlight(q) => InFlight(q)' \/ delivered'[q]
    BY <2>1, <2>3, <2>5, OneCurrent, FlightStill
  <2>. QED
    BY <1>a, <1>b, <1>c, <2>1, <2>2, <2>4, <2>6, SpareStill
<1>10. ASSUME NEW w \in Relays, NEW r \in Rows, NEW applied \in BOOLEAN,
              MarkDeliveredThrows(w, r, applied)
       PROVE  SpareInv'
  <2>1. /\ UNCHANGED <<candidates, left, batch, sends>> /\ blurred' = Blur(w)
        /\ outcome' = [outcome EXCEPT ![w] = "transient"]
    BY <1>10 DEF MarkDeliveredThrows
  <2>2. OneDrain'
    BY <2>1 DEF SpareInv, OneDrain
  <2>3. \A q \in Rows : delivered[q] => delivered'[q]
    BY <1>10, Zenon DEF MarkDeliveredThrows, StampDelivered, table, TypeOK
  <2>4. \A q \in Rows : InFlight(q) => InFlight(q)' \/ blurred[q] < blurred'[q]
    <3>. SUFFICES ASSUME NEW q \in Rows, InFlight(q)
                  PROVE  InFlight(q)' \/ blurred[q] < blurred'[q]
      OBVIOUS
    <3>1. CASE IsCurrent(w, q) /\ outcome[w] = "ok"
      BY <1>b, <2>1, <3>1 DEF Blur
    <3>2. CASE ~(IsCurrent(w, q) /\ outcome[w] = "ok")
      BY <2>1, <3>2, FlightStill DEF TypeOK
    <3>. QED
      BY <3>1, <3>2
  <2>5. \A q \in Rows : blurred[q] <= blurred'[q]
    BY <1>b, <2>1 DEF Blur
  <2>. QED
    BY <1>a, <1>c, <2>1, <2>2, <2>3, <2>4, <2>5, SpareStill
<1>11. ASSUME NEW w \in Relays, Forget(w), UNCHANGED <<delivered, sends>>,
              blurred' = Blur(w)
       PROVE  SpareInv'
  <2>1. OneDrain'
    BY <1>11 DEF Forget, SpareInv, OneDrain, TypeOK
  <2>2. \A q \in Rows : InFlight(q) => InFlight(q)' \/ blurred[q] < blurred'[q]
    <3>. SUFFICES ASSUME NEW q \in Rows, InFlight(q)
                  PROVE  InFlight(q)' \/ blurred[q] < blurred'[q]
      OBVIOUS
    <3>1. CASE IsCurrent(w, q) /\ outcome[w] = "ok"
      BY <1>b, <1>11, <3>1 DEF Blur
    <3>2. CASE ~(IsCurrent(w, q) /\ outcome[w] = "ok")
      BY <1>11, <3>2, FlightStill DEF Forget, TypeOK
    <3>. QED
      BY <3>1, <3>2
  <2>3. \A q \in Rows : blurred[q] <= blurred'[q]
    BY <1>b, <1>11 DEF Blur
  <2>. QED
    BY <1>a, <1>c, <1>11, <2>1, <2>2, <2>3, SpareStill
<1>12. ASSUME NEW w \in Relays, NEW r \in Rows, NEW applied \in BOOLEAN,
              MarkFailedThrows(w, r, applied)
       PROVE  SpareInv'
  <2>1. /\ outcome[w] # "ok" /\ Forget(w) /\ UNCHANGED <<sends, blurred>>
        /\ delivered' = delivered
    BY <1>12 DEF MarkFailedThrows, StampFailed, table
  <2>2. Blur(w) = blurred
    BY <1>b, <2>1 DEF Blur, TypeOK
  <2>. QED
    BY <1>11, <2>1, <2>2
<1>13. ASSUME NEW w \in Relays, Crash(w) PROVE SpareInv'
  BY <1>11, <1>13 DEF Crash, table
<1>. QED
  BY <1>2, <1>3, <1>4, <1>5, <1>6, <1>7, <1>8, <1>9, <1>10, <1>12, <1>13
     DEF Next, RelayStep, Disruption

(* When the lease outlasts a batch, a consumer sees a message twice only   *)
(* if the success of an earlier copy went unrecorded: no overlap of        *)
(* drains, restart or retry of the relays sends one of its own.            *)
THEOREM RelaysAddNoDuplicates == Spec => []DuplicatesExplained
<1>1. CASE Sized
  <2>1. Init => RelayInv /\ SpareInv
    BY RelayInvInit, SpareInit
  <2>2. RelayInv /\ SpareInv /\ [Next]_vars => (RelayInv /\ SpareInv)'
    BY <1>1, RelayInvNext, SpareNext
  <2>3. SpareInv => DuplicatesExplained
    BY DEF SpareInv, Spare, DuplicatesExplained
  <2>. QED
    BY <2>1, <2>2, <2>3, PTL DEF Spec
<1>2. CASE ~Sized
  <2>1. DuplicatesExplained
    BY <1>2 DEF DuplicatesExplained
  <2>. QED
    BY <2>1, PTL
<1>. QED
  BY <1>1, <1>2

------------------------------------------------------------------------------
(* The attempts ceiling *)

Held(r) == \E w \in Relays : r \in left[w]

(* A row nobody holds and that is still open is below the ceiling, but for *)
(* the drains that were cut short before they could test it.               *)
Ceiling(r) ==
  /\ dead[r] => refused[r] \/ attempts[r] >= MaxAttempts
  /\ attempts[r] <= MaxAttempts + disruptions
  /\ ~delivered[r] /\ ~dead[r] /\ ~Held(r)
       => attempts[r] < MaxAttempts + disruptions

CeilingInv == \A r \in Rows : Ceiling(r)

LEMMA CeilingInit == Init => CeilingInv
  BY RelayConstants DEF Init, CeilingInv, Ceiling

(* Steps that settle no row they do not find settled, and let go only of   *)
(* rows they settle, or else count as a disruption.                        *)
LEMMA CeilingStill ==
  ASSUME TypeOK, TypeOK', CeilingInv, NEW r \in Rows,
         attempts'[r] = attempts[r], disruptions <= disruptions',
         refused[r] => refused'[r], dead[r] => dead'[r],
         delivered[r] => delivered'[r],
         dead'[r] => dead[r] \/ refused[r] \/ attempts[r] >= MaxAttempts,
         Held(r) => \/ Held(r)'
                    \/ delivered'[r]
                    \/ dead'[r]
                    \/ attempts[r] < MaxAttempts
                    \/ disruptions < disruptions'
  PROVE  Ceiling(r)'
<1>1. /\ attempts[r] \in Nat /\ attempts'[r] \in Nat
      /\ disruptions \in Nat /\ disruptions' \in Nat /\ MaxAttempts \in Nat
  BY RelayConstants DEF TypeOK
<1>2. Ceiling(r)
  BY DEF CeilingInv
<1>3. dead'[r] => refused'[r] \/ attempts'[r] >= MaxAttempts
  BY <1>2 DEF Ceiling
<1>4. attempts'[r] <= MaxAttempts + disruptions'
  BY <1>1, <1>2 DEF Ceiling
<1>5. ASSUME ~delivered'[r], ~dead'[r], ~Held(r)'
      PROVE  attempts'[r] < MaxAttempts + disruptions'
  <2>1. CASE Held(r)
    BY <1>1, <1>2, <1>5, <2>1 DEF Ceiling
  <2>2. CASE ~Held(r)
    BY <1>1, <1>2, <1>5, <2>2 DEF Ceiling
  <2>. QED
    BY <2>1, <2>2
<1>. QED
  BY <1>3, <1>4, <1>5 DEF Ceiling

LEMMA CeilingClaim ==
  ASSUME RelayInv, RelayInv', CeilingInv, NEW w \in Relays, Claim(w),
         left[w] = {}
  PROVE  CeilingInv'
<1>. USE DEF RelayInv
<1>. SUFFICES ASSUME NEW r \in Rows PROVE Ceiling(r)'
  BY DEF CeilingInv
<1>1. PICK B \in SUBSET {q \in candidates[w] : Due(q)} :
        /\ attempts' = [q \in Rows |->
                          attempts[q] + (IF q \in B THEN 1 ELSE 0)]
        /\ left' = [left EXCEPT ![w] = B]
  BY DEF Claim
<1>2. UNCHANGED <<delivered, dead, refused, disruptions>>
  BY DEF Claim, history
<1>3. \A v \in Relays : left'[v] = IF v = w THEN B ELSE left[v]
  BY <1>1 DEF TypeOK
<1>4. CASE r \in B
  <2>1. Due(r)
    BY <1>4
  <2>2. ~delivered[r] /\ ~dead[r] /\ ~Held(r)
    BY <2>1, HeldNotDue DEF Due, Pending, Held
  <2>3. attempts[r] < MaxAttempts + disruptions /\ attempts'[r] = attempts[r] + 1
    BY <1>1, <1>4, <2>2 DEF CeilingInv, Ceiling, TypeOK
  <2>4. Held(r)'
    BY <1>3, <1>4 DEF Held
  <2>5. attempts[r] \in Nat /\ disruptions \in Nat /\ MaxAttempts \in Nat
    BY RelayConstants DEF TypeOK
  <2>6. attempts'[r] <= MaxAttempts + disruptions'
    BY <1>2, <2>3, <2>5
  <2>. QED
    BY <1>2, <2>2, <2>4, <2>6 DEF Ceiling
<1>5. CASE r \notin B
  <2>1. attempts'[r] = attempts[r]
    BY <1>1, <1>5 DEF TypeOK
  <2>2. Held(r) => Held(r)'
    BY <1>3 DEF Held
  <2>3. disruptions <= disruptions'
    BY <1>2 DEF TypeOK
  <2>. QED
    BY <1>2, <2>1, <2>2, <2>3, CeilingStill
<1>. QED
  BY <1>4, <1>5

(* What the failure stamp of the current row does to the row. *)
LEMMA CeilingStamp ==
  ASSUME TypeOK, HandInv, NEW w \in Relays, NEW r \in Rows,
         IsCurrent(w, r), StampFailed(w, r)
  PROVE  /\ UNCHANGED <<attempts, delivered>>
         /\ \A q \in Rows : dead[q] => dead'[q]
         /\ \A q \in Rows \ {r} : dead'[q] = dead[q]
         /\ dead'[r] => dead[r] \/ refused[r] \/ attempts[r] >= MaxAttempts
         /\ delivered[r] \/ dead'[r] \/ attempts[r] < MaxAttempts
<1>1. /\ snapshot[w][r] = attempts[r] /\ attempts[r] \in Nat
      /\ outcome[w] = "permanent" => refused[r]
      /\ ~delivered[r] => stored[r] = "stored"
  BY DEF HandInv, Hand, IsCurrent, TypeOK
<1>2. CASE outcome[w] = "permanent" \/ snapshot[w][r] >= MaxAttempts
  <2>1. /\ dead' = [dead EXCEPT ![r] = dead[r] \/ stored[r] = "stored"]
        /\ UNCHANGED <<attempts, delivered>>
    BY <1>2 DEF StampFailed, TypeOK
  <2>2. dead'[r] <=> dead[r] \/ stored[r] = "stored"
    BY <2>1, Zenon DEF TypeOK
  <2>3. \A q \in Rows \ {r} : dead'[q] = dead[q]
    BY <2>1 DEF TypeOK
  <2>4. refused[r] \/ attempts[r] >= MaxAttempts
    BY <1>1, <1>2
  <2>. QED
    BY <1>1, <2>1, <2>2, <2>3, <2>4
<1>3. CASE ~(outcome[w] = "permanent" \/ snapshot[w][r] >= MaxAttempts)
  <2>1. UNCHANGED <<attempts, delivered, dead>>
    BY <1>3 DEF StampFailed
  <2>2. attempts[r] < MaxAttempts
    BY <1>1, <1>3, RelayConstants
  <2>. QED
    BY <2>1, <2>2
<1>. QED
  BY <1>2, <1>3

LEMMA CeilingNext ==
  Sized /\ RelayInv /\ SpareInv /\ CeilingInv /\ [Next]_vars => CeilingInv'
<1>. SUFFICES ASSUME Sized, RelayInv, SpareInv, CeilingInv, [Next]_vars
              PROVE  CeilingInv'
  OBVIOUS
<1>. USE DEF RelayInv
<1>a. RelayInv'
  BY RelayInvNext
<1>b. disruptions \in Nat /\ disruptions <= disruptions
  BY DEF TypeOK
<1>c. ASSUME \A r \in Rows : Ceiling(r)' PROVE CeilingInv'
  BY <1>c DEF CeilingInv
<1>1. CASE UNCHANGED <<attempts, delivered, dead, left, refused>>
             /\ disruptions <= disruptions'
  <2>1. \A r \in Rows : Held(r) => Held(r)'
    BY <1>1 DEF Held
  <2>. QED
    BY <1>a, <1>c, <1>1, <2>1, CeilingStill
<1>2. CASE UNCHANGED vars
  BY <1>b, <1>1, <1>2 DEF vars, table, drain, history
<1>3. ASSUME NEW r \in Rows, Enqueue(r) \/ Purge(r) PROVE CeilingInv'
  BY <1>b, <1>1, <1>3 DEF Enqueue, Purge, drain, history
<1>4. ASSUME NEW w \in Relays, Rank(w) \/ Start(w) PROVE CeilingInv'
  BY <1>b, <1>1, <1>4 DEF Rank, Start, table, drain, history
<1>5. ASSUME NEW w \in Relays, Stop(w) PROVE CeilingInv'
  BY <1>b, <1>1, <1>5 DEF Stop, Disrupt, table, drain
<1>6. CASE Tick
  BY <1>b, <1>1, <1>6 DEF Tick, history
<1>7. ASSUME NEW w \in Relays, Claim(w) PROVE CeilingInv'
  <2>1. left[w] = {}
    BY <1>7 DEF Claim, SpareInv, OneDrain
  <2>. QED
    BY <1>7, <1>a, <2>1, CeilingClaim
<1>8. ASSUME NEW w \in Relays, NEW r \in Rows,
             NEW o \in Outcomes \ {"none"}, NEW landed \in BOOLEAN,
             DispatchEnds(w, r, o, landed)
      PROVE  CeilingInv'
  <2>1. UNCHANGED <<attempts, delivered, dead, left, disruptions>>
    BY <1>8 DEF DispatchEnds, table
  <2>2. \A q \in Rows : refused[q] => refused'[q]
    BY <1>8, Zenon DEF DispatchEnds, TypeOK
  <2>3. \A q \in Rows : Held(q) => Held(q)'
    BY <2>1 DEF Held
  <2>. QED
    BY <1>a, <1>b, <1>c, <2>1, <2>2, <2>3, CeilingStill
<1>9. ASSUME NEW w \in Relays, NEW r \in Rows,
             MarkDelivered(w, r) \/ MarkFailed(w, r)
      PROVE  CeilingInv'
  <2>1. /\ IsCurrent(w, r) /\ Advance(w, r) /\ UNCHANGED <<refused, disruptions>>
    BY <1>9 DEF MarkDelivered, MarkFailed, history
  <2>2. \A q \in Rows \ {r} : Held(q) => Held(q)'
    <3>1. \A v \in Relays : left[v] \ {r} \subseteq left'[v]
      BY <2>1 DEF Advance, TypeOK
    <3>. QED
      BY <3>1 DEF Held
  <2>3. CASE MarkDelivered(w, r)
    <3>1. ~delivered[r] /\ stored[r] = "stored"
      BY <2>1, <2>3 DEF MarkDelivered, HandInv, Hand, IsCurrent
    <3>2. delivered' = [delivered EXCEPT ![r] = delivered[r] \/ stored[r] = "stored"]
          /\ UNCHANGED <<attempts, dead>>
      BY <2>3 DEF MarkDelivered, StampDelivered, TypeOK
    <3>3. delivered'[r] /\ \A q \in Rows : delivered[q] => delivered'[q]
      BY <3>1, <3>2, Zenon DEF TypeOK
    <3>. QED
      BY <1>a, <1>b, <1>c, <2>1, <2>2, <3>2, <3>3, CeilingStill
  <2>4. CASE MarkFailed(w, r)
    <3>1. StampFailed(w, r)
      BY <2>4 DEF MarkFailed
    <3>. QED
      BY <1>a, <1>b, <1>c, <2>1, <2>2, <3>1, CeilingStamp, CeilingStill
  <2>. QED
    BY <1>9, <2>3, <2>4
<1>10. ASSUME NEW w \in Relays, NEW r \in Rows, NEW applied \in BOOLEAN,
              MarkDeliveredThrows(w, r, applied)
       PROVE  CeilingInv'
  <2>1. UNCHANGED <<attempts, dead, left, refused>> /\ disruptions <= disruptions'
    BY <1>10, <1>b DEF MarkDeliveredThrows, StampDelivered, Disrupt, table
  <2>2. \A q \in Rows : delivered[q] => delivered'[q]
    BY <1>10, Zenon DEF MarkDeliveredThrows, StampDelivered, table, TypeOK
  <2>3. \A q \in Rows : Held(q) => Held(q)'
    BY <2>1 DEF Held
  <2>. QED
    BY <1>a, <1>c, <2>1, <2>2, <2>3, CeilingStill
<1>11. ASSUME NEW w \in Relays, NEW r \in Rows, NEW applied \in BOOLEAN,
              MarkFailedThrows(w, r, applied)
       PROVE  CeilingInv'
  <2>1. /\ IsCurrent(w, r) /\ refused' = refused
        /\ disruptions < disruptions' /\ disruptions <= disruptions'
    BY <1>11, <1>b DEF MarkFailedThrows, Disrupt
  <2>2. /\ UNCHANGED <<attempts, delivered>>
        /\ \A q \in Rows : dead[q] => dead'[q]
        /\ \A q \in Rows :
             dead'[q] => dead[q] \/ refused[q] \/ attempts[q] >= MaxAttempts
    BY <1>11, <2>1, CeilingStamp DEF MarkFailedThrows, table
  <2>. QED
    BY <1>a, <1>b, <1>c, <2>1, <2>2, CeilingStill
<1>12. ASSUME NEW w \in Relays, Crash(w) PROVE CeilingInv'
  <2>1. /\ UNCHANGED <<attempts, delivered, dead, refused>>
        /\ disruptions < disruptions' /\ disruptions <= disruptions'
    BY <1>12, <1>b DEF Crash, Disrupt, table
  <2>. QED
    BY <1>a, <1>b, <1>c, <2>1, CeilingStill
<1>. QED
  BY <1>2, <1>3, <1>4, <1>5, <1>6, <1>7, <1>8, <1>9, <1>10, <1>11, <1>12
     DEF Next, RelayStep, Disruption

(* When the lease outlasts a batch, a row is given up on only after a      *)
(* permanent refusal or MaxAttempts claims, and only a drain cut short     *)
(* lets it be claimed once more than that.                                 *)
THEOREM RelaysKeepCeiling == Spec => []CeilingKept
<1>1. CASE Sized
  <2>1. Init => RelayInv /\ SpareInv /\ CeilingInv
    BY RelayInvInit, SpareInit, CeilingInit
  <2>2. RelayInv /\ SpareInv /\ CeilingInv /\ [Next]_vars
          => (RelayInv /\ SpareInv /\ CeilingInv)'
    BY <1>1, RelayInvNext, SpareNext, CeilingNext
  <2>3. CeilingInv => CeilingKept
    BY DEF CeilingInv, Ceiling, CeilingKept
  <2>. QED
    BY <2>1, <2>2, <2>3, PTL DEF Spec
<1>2. CASE ~Sized
  <2>1. CeilingKept
    BY <1>2 DEF CeilingKept
  <2>. QED
    BY <2>1, PTL
<1>. QED
  BY <1>1, <1>2

------------------------------------------------------------------------------
(* The relays implement the contract *)

(* What the contract sees of the table. *)
StatusOf == [r \in Rows |->
  IF stored[r] = "absent" THEN "absent"
  ELSE IF stored[r] = "purged" THEN "purged"
  ELSE IF delivered[r] THEN "delivered"
  ELSE IF dead[r] THEN "abandoned"
  ELSE "pending"]

SentOf == [r \in Rows |-> sends[r] > 0]

(* A row is settled only after its commit. *)
AbsentIsNew == \A r \in Rows : stored[r] = "absent" => ~delivered[r] /\ ~dead[r]

LEMMA AbsentInit == Init => AbsentIsNew
  BY DEF Init, AbsentIsNew

LEMMA AbsentNext == TypeOK /\ AbsentIsNew /\ [Next]_vars => AbsentIsNew'
<1>. SUFFICES ASSUME TypeOK, AbsentIsNew, [Next]_vars PROVE AbsentIsNew'
  OBVIOUS
<1>1. CASE UNCHANGED <<delivered, dead>>
             /\ \A r \in Rows : stored'[r] = "absent" => stored[r] = "absent"
  BY <1>1 DEF AbsentIsNew
<1>2. CASE UNCHANGED table
  BY <1>2 DEF table, AbsentIsNew
<1>3. ASSUME NEW r \in Rows, Enqueue(r) \/ Purge(r) PROVE AbsentIsNew'
  BY <1>1, <1>3 DEF Enqueue, Purge, TypeOK
<1>4. ASSUME NEW w \in Relays, Rank(w) \/ Start(w) \/ Stop(w) \/ Crash(w)
      PROVE  AbsentIsNew'
  BY <1>2, <1>4 DEF Rank, Start, Stop, Crash
<1>5. ASSUME NEW w \in Relays, Claim(w) PROVE AbsentIsNew'
  BY <1>1, <1>5 DEF Claim
<1>6. CASE Tick
  BY <1>1, <1>6 DEF Tick
<1>7. ASSUME NEW w \in Relays, NEW r \in Rows,
             NEW o \in Outcomes \ {"none"}, NEW landed \in BOOLEAN,
             DispatchEnds(w, r, o, landed)
      PROVE  AbsentIsNew'
  BY <1>2, <1>7 DEF DispatchEnds
<1>8. ASSUME NEW r \in Rows, StampDelivered(r) PROVE AbsentIsNew'
  BY <1>8 DEF StampDelivered, AbsentIsNew, TypeOK
<1>9. ASSUME NEW w \in Relays, NEW r \in Rows, StampFailed(w, r)
      PROVE  AbsentIsNew'
  BY <1>9 DEF StampFailed, AbsentIsNew, TypeOK
<1>10. ASSUME NEW w \in Relays, NEW r \in Rows,
              MarkDelivered(w, r) \/ MarkFailed(w, r)
       PROVE  AbsentIsNew'
  BY <1>8, <1>9, <1>10 DEF MarkDelivered, MarkFailed
<1>11. ASSUME NEW w \in Relays, NEW r \in Rows, NEW applied \in BOOLEAN,
              MarkDeliveredThrows(w, r, applied) \/ MarkFailedThrows(w, r, applied)
       PROVE  AbsentIsNew'
  BY <1>2, <1>8, <1>9, <1>11 DEF MarkDeliveredThrows, MarkFailedThrows
<1>12. CASE UNCHANGED vars
  BY <1>2, <1>12 DEF vars
<1>. QED
  BY <1>3, <1>4, <1>5, <1>6, <1>7, <1>10, <1>11, <1>12
     DEF Next, RelayStep, Disruption

LEMMA ContractInit == Init => Contract!Init
<1>. SUFFICES ASSUME Init PROVE Contract!Init
  OBVIOUS
<1>1. StatusOf = [r \in Rows |-> "absent"]
  BY DEF Init, StatusOf
<1>2. SentOf = [r \in Rows |-> FALSE]
  <2>1. ASSUME NEW r \in Rows PROVE (sends[r] > 0) = FALSE
    BY DEF Init
  <2>. QED
    BY <2>1, Zenon DEF SentOf
<1>. QED
  BY <1>1, <1>2 DEF StatusOf, SentOf, Contract!Init

(* Steps the contract does not see. *)
LEMMA ContractStutter ==
  ASSUME UNCHANGED <<stored, delivered, dead, sends>>
  PROVE  UNCHANGED Contract!vars
  BY DEF Contract!vars

(* A step of the contract that moves one row from one status to another. *)
LEMMA ContractMove ==
  ASSUME NEW r \in Rows, NEW from, NEW to, StatusOf[r] = from, sends' = sends,
         StatusOf'[r] = to, \A q \in Rows \ {r} : StatusOf'[q] = StatusOf[q]
  PROVE  Contract!Move(r, from, to)
<1>1. StatusOf' = [StatusOf EXCEPT ![r] = to]
  BY DEF StatusOf
<1>. QED
  BY <1>1 DEF StatusOf, Contract!Move

(* The delivered stamp of the current row. *)
LEMMA ContractDeliver ==
  ASSUME TypeOK, SettleInv, HandInv, NEW w \in Relays, NEW r \in Rows,
         IsCurrent(w, r), outcome[w] = "ok", StampDelivered(r), sends' = sends
  PROVE  Contract!Deliver(r)
<1>1. ~delivered[r] /\ ~dead[r] /\ stored[r] = "stored" /\ sends[r] > 0
  BY DEF HandInv, Hand, SettleInv, HeldIsOpen, IsCurrent
<1>2. /\ \A q \in Rows \ {r} : delivered'[q] = delivered[q]
      /\ UNCHANGED <<stored, dead>>
  BY DEF StampDelivered, TypeOK
<1>3. delivered'[r]
  BY <1>1, Zenon DEF StampDelivered, TypeOK
<1>4. StatusOf[r] = "pending" /\ StatusOf'[r] = "delivered"
  BY <1>1, <1>2, <1>3 DEF StatusOf
<1>5. \A q \in Rows \ {r} : StatusOf'[q] = StatusOf[q]
  BY <1>2 DEF StatusOf
<1>6. Contract!Move(r, "pending", "delivered")
  BY <1>4, <1>5, ContractMove
<1>. QED
  BY <1>1, <1>6 DEF Contract!Deliver

(* The failure stamp of the current row gives the row up, or changes       *)
(* nothing the contract sees; so it does on a row whose delivered stamp    *)
(* was applied before its reply was lost.                                  *)
LEMMA ContractFail ==
  ASSUME TypeOK, SettleInv, HandInv, NEW w \in Relays, NEW r \in Rows,
         IsCurrent(w, r), StampFailed(w, r), sends' = sends
  PROVE  Contract!Abandon(r) \/ UNCHANGED Contract!vars
<1>1. /\ stored' = stored /\ delivered' = delivered
      /\ \A q \in Rows \ {r} : dead'[q] = dead[q]
  BY DEF StampFailed, TypeOK
<1>2. \A q \in Rows \ {r} : StatusOf'[q] = StatusOf[q]
  BY <1>1 DEF StatusOf
<1>3. ~dead[r] /\ (~delivered[r] => stored[r] = "stored")
  BY DEF HandInv, Hand, SettleInv, HeldIsOpen, IsCurrent
<1>4. CASE delivered[r] \/ ~dead'[r]
  <2>1. StatusOf'[r] = StatusOf[r]
    BY <1>1, <1>3, <1>4 DEF StatusOf
  <2>2. StatusOf' = StatusOf
    BY <1>2, <2>1 DEF StatusOf
  <2>. QED
    BY <2>2 DEF StatusOf, Contract!vars
<1>5. CASE ~delivered[r] /\ dead'[r]
  <2>1. StatusOf[r] = "pending" /\ StatusOf'[r] = "abandoned"
    BY <1>1, <1>3, <1>5 DEF StatusOf
  <2>2. Contract!Move(r, "pending", "abandoned")
    BY <1>2, <2>1, ContractMove
  <2>. QED
    BY <2>2 DEF Contract!Abandon
<1>. QED
  BY <1>4, <1>5

(* One message more for the row r. *)
LEMMA SentOnce ==
  ASSUME sends \in [Rows -> Nat], NEW r \in Rows,
         sends' = [sends EXCEPT ![r] = @ + 1]
  PROVE  SentOf' = [SentOf EXCEPT ![r] = TRUE]
<1>1. \A q \in Rows : sends'[q] > 0 <=> q = r \/ sends[q] > 0
  OBVIOUS
<1>2. ASSUME NEW q \in Rows
      PROVE  (sends'[q] > 0) = IF q = r THEN TRUE ELSE sends[q] > 0
  <2>1. CASE q = r
    <3>1. sends'[q] > 0
      BY <1>1, <2>1
    <3>. QED
      BY <2>1, <3>1, Zenon
  <2>2. CASE q # r
    <3>1. (sends'[q] > 0) <=> (sends[q] > 0)
      BY <1>1, <2>2
    <3>. QED
      BY <2>2, <3>1, Zenon
  <2>. QED
    BY <2>1, <2>2, Zenon
<1>. QED
  BY <1>2, Zenon DEF SentOf

LEMMA ContractNext ==
  Sized /\ RelayInv /\ AbsentIsNew /\ [Next]_vars
    => [Contract!Next]_(Contract!vars)
<1>. SUFFICES ASSUME Sized, RelayInv, AbsentIsNew, [Next]_vars
              PROVE  [Contract!Next]_(Contract!vars)
  OBVIOUS
<1>. USE DEF RelayInv
<1>a. ASSUME UNCHANGED <<table, sends>> PROVE [Contract!Next]_(Contract!vars)
  BY <1>a, ContractStutter DEF table
<1>1. CASE UNCHANGED vars
  BY <1>1, <1>a DEF vars, history
<1>2. ASSUME NEW r \in Rows, Enqueue(r) PROVE [Contract!Next]_(Contract!vars)
  <2>1. /\ stored[r] = "absent" /\ ~delivered[r] /\ ~dead[r]
        /\ stored'[r] = "stored" /\ UNCHANGED <<delivered, dead, sends>>
        /\ \A q \in Rows \ {r} : stored'[q] = stored[q]
    BY <1>2 DEF Enqueue, AbsentIsNew, TypeOK, history
  <2>2. StatusOf[r] = "absent" /\ StatusOf'[r] = "pending"
    BY <2>1 DEF StatusOf
  <2>3. \A q \in Rows \ {r} : StatusOf'[q] = StatusOf[q]
    BY <2>1 DEF StatusOf
  <2>4. Contract!Move(r, "absent", "pending")
    BY <2>1, <2>2, <2>3, ContractMove
  <2>. QED
    BY <2>4 DEF Contract!Commit, Contract!Next
<1>3. ASSUME NEW r \in Rows, Purge(r) PROVE [Contract!Next]_(Contract!vars)
  <2>1. /\ stored[r] = "stored" /\ (delivered[r] \/ dead[r])
        /\ stored'[r] = "purged" /\ UNCHANGED <<delivered, dead, sends>>
        /\ \A q \in Rows \ {r} : stored'[q] = stored[q]
    BY <1>3 DEF Purge, TypeOK, history
  <2>2. /\ StatusOf[r] = IF delivered[r] THEN "delivered" ELSE "abandoned"
        /\ StatusOf'[r] = "purged"
    BY <2>1 DEF StatusOf
  <2>3. \A q \in Rows \ {r} : StatusOf'[q] = StatusOf[q]
    BY <2>1 DEF StatusOf
  <2>4. \/ Contract!Move(r, "delivered", "purged")
        \/ Contract!Move(r, "abandoned", "purged")
    BY <2>1, <2>2, <2>3, ContractMove
  <2>. QED
    BY <2>4 DEF Contract!Purge, Contract!Next
<1>4. ASSUME NEW w \in Relays, Rank(w) \/ Start(w) \/ Stop(w) \/ Crash(w)
      PROVE  [Contract!Next]_(Contract!vars)
  BY <1>4, <1>a DEF Rank, Start, Stop, Crash, history
<1>5. ASSUME NEW w \in Relays, Claim(w) PROVE [Contract!Next]_(Contract!vars)
  BY <1>5, ContractStutter DEF Claim, history
<1>6. CASE Tick
  BY <1>6, ContractStutter DEF Tick, history
<1>7. ASSUME NEW w \in Relays, NEW r \in Rows,
             NEW o \in Outcomes \ {"none"}, NEW landed \in BOOLEAN,
             DispatchEnds(w, r, o, landed)
      PROVE  [Contract!Next]_(Contract!vars)
  <2>1. /\ IsCurrent(w, r) /\ outcome[w] = "none" /\ r \in left[w]
        /\ UNCHANGED <<stored, delivered, dead>>
        /\ sends' = [sends EXCEPT ![r] = @ + (IF landed THEN 1 ELSE 0)]
    BY <1>7 DEF DispatchEnds, IsCurrent, table
  <2>2. CASE ~landed
    <3>1. sends' = sends
      BY <2>1, <2>2 DEF TypeOK
    <3>. QED
      BY <2>1, <3>1, ContractStutter
  <2>3. CASE landed
    <3>1. ~delivered[r] /\ ~dead[r] /\ stored[r] = "stored"
      BY <2>1 DEF HandInv, Hand, SettleInv, HeldIsOpen
    <3>2. StatusOf[r] = "pending" /\ StatusOf' = StatusOf
      BY <2>1, <3>1 DEF StatusOf
    <3>3. SentOf' = [SentOf EXCEPT ![r] = TRUE]
      BY <2>1, <2>3, SentOnce DEF TypeOK
    <3>4. Contract!Send(r)
      BY <3>2, <3>3 DEF StatusOf, SentOf, Contract!Send
    <3>. QED
      BY <3>4 DEF Contract!Next
  <2>. QED
    BY <2>2, <2>3
<1>8. ASSUME NEW w \in Relays, NEW r \in Rows, MarkDelivered(w, r)
      PROVE  [Contract!Next]_(Contract!vars)
  <2>1. Contract!Deliver(r)
    BY <1>8, ContractDeliver DEF MarkDelivered, history
  <2>. QED
    BY <2>1 DEF Contract!Next, Contract!Settle
<1>9. ASSUME NEW w \in Relays, NEW r \in Rows, MarkFailed(w, r)
      PROVE  [Contract!Next]_(Contract!vars)
  <2>1. Contract!Abandon(r) \/ UNCHANGED Contract!vars
    BY <1>9, ContractFail DEF MarkFailed, history
  <2>. QED
    BY <2>1 DEF Contract!Next, Contract!Settle
<1>10. ASSUME NEW w \in Relays, NEW r \in Rows, NEW applied \in BOOLEAN,
              MarkDeliveredThrows(w, r, applied)
       PROVE  [Contract!Next]_(Contract!vars)
  <2>1. CASE applied
    <3>1. Contract!Deliver(r)
      BY <1>10, <2>1, ContractDeliver DEF MarkDeliveredThrows
    <3>. QED
      BY <3>1 DEF Contract!Next, Contract!Settle
  <2>2. CASE ~applied
    BY <1>10, <2>2, <1>a DEF MarkDeliveredThrows
  <2>. QED
    BY <2>1, <2>2
<1>11. ASSUME NEW w \in Relays, NEW r \in Rows, NEW applied \in BOOLEAN,
              MarkFailedThrows(w, r, applied)
       PROVE  [Contract!Next]_(Contract!vars)
  <2>1. CASE applied
    <3>1. Contract!Abandon(r) \/ UNCHANGED Contract!vars
      BY <1>11, <2>1, ContractFail DEF MarkFailedThrows
    <3>. QED
      BY <3>1 DEF Contract!Next, Contract!Settle
  <2>2. CASE ~applied
    BY <1>11, <2>2, <1>a DEF MarkFailedThrows
  <2>. QED
    BY <2>1, <2>2
<1>. QED
  BY <1>1, <1>2, <1>3, <1>4, <1>5, <1>6, <1>7, <1>8, <1>9, <1>10, <1>11
     DEF Next, RelayStep, Disruption

(* When the lease outlasts a batch, every behaviour of the relays is one   *)
(* the outbox's contract allows: a row is sent only while it is pending,   *)
(* is delivered only once it was sent, is settled one way and purged only  *)
(* when settled.  That every committed row is settled in the end is        *)
(* checked by the run.                                                     *)
THEOREM RelaysKeepContract ==
  ASSUME Sized PROVE Spec => Contract!Safety
<1>1. Init => RelayInv /\ AbsentIsNew /\ Contract!Init
  BY RelayInvInit, AbsentInit, ContractInit
<1>2. RelayInv /\ AbsentIsNew /\ [Next]_vars => (RelayInv /\ AbsentIsNew)'
  BY RelayInvNext, AbsentNext DEF RelayInv
<1>3. RelayInv /\ AbsentIsNew /\ [Next]_vars => [Contract!Next]_(Contract!vars)
  BY ContractNext
<1>. QED
  BY <1>1, <1>2, <1>3, PTL DEF Spec, Contract!Safety

------------------------------------------------------------------------------
(* Fairness between workspaces *)

LEMMA NatMin ==
  ASSUME NEW S \in SUBSET Nat, S # {}
  PROVE  \E m \in S : \A n \in S : m <= n
<1> DEFINE Below == {1 .. n : n \in S}
<1>1. IsWellFoundedOn(StrictSubsetOrdering(Nat), FiniteSubsetsOf(Nat))
  BY FS_StrictSubsetOrderingWellFounded
<1>2. Below \subseteq FiniteSubsetsOf(Nat)
  BY FS_Interval DEF FiniteSubsetsOf
<1>3. Below # {}
  OBVIOUS
<1>4. PICK B \in Below : \A C \in Below : <<C, B>> \notin StrictSubsetOrdering(Nat)
  BY <1>1, <1>2, <1>3, WFMin
<1>5. PICK m \in S : B = 1 .. m
  OBVIOUS
<1>6. ASSUME NEW n \in S, n < m PROVE FALSE
  <2>1. 1 .. n \in Below /\ 1 .. n \in SUBSET Nat /\ B \in SUBSET Nat
    BY <1>5
  <2>2. 1 .. n \subseteq B /\ m \in B /\ m \notin 1 .. n
    BY <1>5, <1>6
  <2>3. <<1 .. n, B>> \in StrictSubsetOrdering(Nat)
    BY <2>1, <2>2 DEF StrictSubsetOrdering
  <2>. QED
    BY <1>4, <2>1, <2>3
<1>. QED
  BY <1>6

(* The largest number of a finite set has the fewest members above it. *)
LEMMA NatMax ==
  ASSUME NEW S \in SUBSET Nat, IsFiniteSet(S), S # {}
  PROVE  \E m \in S : \A n \in S : n <= m
<1> DEFINE Above(x) == {y \in S : y > x}
           Sizes == {Cardinality(Above(x)) : x \in S}
<1>1. \A x \in S : IsFiniteSet(Above(x)) /\ Cardinality(Above(x)) \in Nat
  BY FS_Subset, FS_CardinalityType
<1>2. Sizes \in SUBSET Nat /\ Sizes # {}
  BY <1>1
<1>3. PICK k \in Sizes : \A n \in Sizes : k <= n
  BY <1>2, NatMin
<1>4. PICK m \in S : k = Cardinality(Above(m))
  OBVIOUS
<1>5. ASSUME NEW n \in S, n > m PROVE FALSE
  <2>1. m \in Nat /\ n \in Nat /\ n > m /\ \A y \in S : y \in Nat
    BY <1>5
  <2>2. Above(n) \subseteq Above(m) /\ n \in Above(m) /\ n \notin Above(n)
    <3>1. ASSUME NEW y \in S, y > n PROVE y > m
      BY <2>1, <3>1
    <3>2. ~(n > n)
      BY <2>1
    <3>. QED
      BY <2>1, <3>1, <3>2
  <2>3. Cardinality(Above(m)) <= Cardinality(Above(n))
    BY <1>3, <1>4
  <2>. HIDE DEF Above
  <2>4. /\ IsFiniteSet(Above(m)) /\ Above(n) # Above(m)
        /\ Cardinality(Above(m)) \in Nat /\ Cardinality(Above(n)) \in Nat
    BY <1>1, <2>2
  <2>5. /\ Cardinality(Above(n)) <= Cardinality(Above(m))
        /\ Cardinality(Above(m)) = Cardinality(Above(n)) => FALSE
    BY <2>2, <2>4, FS_Subset
  <2>. QED
    BY <2>3, <2>4, <2>5
<1>. QED
  BY <1>5

(* Within a workspace the rank counts the rows up to one. *)
LEMMA RankCounts ==
  ASSUME NEW S \in SUBSET Rows, NEW r \in S, NEW T \in SUBSET S
  PROVE  /\ (\A q \in T : WorkspaceOf[q] = WorkspaceOf[r] /\ q <= r)
              => Cardinality(T) <= FairRank(r, S)
         /\ (\A q \in S : WorkspaceOf[q] = WorkspaceOf[r] /\ q <= r => q \in T)
              => FairRank(r, S) <= Cardinality(T)
<1> DEFINE U == {q \in S : WorkspaceOf[q] = WorkspaceOf[r] /\ q <= r}
<1>1. IsFiniteSet(T) /\ IsFiniteSet(U)
  BY FS_Subset, RelayConstants
<1>2. FairRank(r, S) = Cardinality(U)
  BY DEF FairRank
<1>3. T \subseteq U => Cardinality(T) <= Cardinality(U)
  BY <1>1, FS_Subset
<1>4. U \subseteq T => Cardinality(U) <= Cardinality(T)
  BY <1>1, FS_Subset
<1>. QED
  BY <1>2, <1>3, <1>4

(* What is left of a batch comes after what was dispatched. *)
DispatchedFirst ==
  \A w \in Relays : \A q \in batch[w] \ left[w], r \in left[w] :
    Before(q, r, batch[w])

LEMMA DispatchedInit == Init => DispatchedFirst
  BY DEF Init, DispatchedFirst

LEMMA DispatchedNext ==
  TypeOK /\ DispatchedFirst /\ [Next]_vars => DispatchedFirst'
<1>. SUFFICES ASSUME TypeOK, DispatchedFirst, [Next]_vars
              PROVE  DispatchedFirst'
  OBVIOUS
<1>1. CASE UNCHANGED <<batch, left>>
  BY <1>1 DEF DispatchedFirst, Before
<1>2. ASSUME NEW w \in Relays, Claim(w) PROVE DispatchedFirst'
  <2>. SUFFICES ASSUME NEW v \in Relays, NEW q \in batch'[v] \ left'[v],
                       NEW r \in left'[v]
                PROVE  Before(q, r, batch'[v])
    BY DEF DispatchedFirst, Before
  <2>1. v # w /\ batch'[v] = batch[v] /\ left'[v] = left[v]
    BY <1>2 DEF Claim, TypeOK
  <2>. QED
    BY <2>1 DEF DispatchedFirst
<1>3. ASSUME NEW w \in Relays, Forget(w) PROVE DispatchedFirst'
  <2>. SUFFICES ASSUME NEW v \in Relays, NEW q \in batch'[v] \ left'[v],
                       NEW r \in left'[v]
                PROVE  Before(q, r, batch'[v])
    BY DEF DispatchedFirst, Before
  <2>1. v # w /\ batch'[v] = batch[v] /\ left'[v] = left[v]
    BY <1>3 DEF Forget, TypeOK
  <2>. QED
    BY <2>1 DEF DispatchedFirst
<1>4. ASSUME NEW w \in Relays, NEW r \in Rows, IsCurrent(w, r), Advance(w, r)
      PROVE  DispatchedFirst'
  <2>. SUFFICES ASSUME NEW v \in Relays, NEW q \in batch'[v] \ left'[v],
                       NEW x \in left'[v]
                PROVE  Before(q, x, batch'[v])
    BY DEF DispatchedFirst, Before
  <2>1. CASE v # w
    <3>1. batch'[v] = batch[v] /\ left'[v] = left[v]
      BY <1>4, <2>1 DEF Advance, TypeOK
    <3>. QED
      BY <3>1 DEF DispatchedFirst
  <2>2. CASE v = w
    <3>1. left'[w] = left[w] \ {r} /\ x \in left[w]
      BY <1>4, <2>2 DEF Advance, TypeOK
    <3>2. batch'[w] = batch[w]
      BY <1>4, <2>2, <3>1 DEF Advance, TypeOK
    <3>3. q = r \/ q \in batch[w] \ left[w]
      BY <2>2, <3>1, <3>2
    <3>. QED
      BY <1>4, <2>2, <3>1, <3>2, <3>3 DEF IsCurrent, DispatchedFirst
  <2>. QED
    BY <2>1, <2>2
<1>5. CASE UNCHANGED vars
  BY <1>1, <1>5 DEF vars, drain
<1>6. ASSUME NEW r \in Rows, Enqueue(r) \/ Purge(r) PROVE DispatchedFirst'
  BY <1>1, <1>6 DEF Enqueue, Purge, drain
<1>7. ASSUME NEW w \in Relays, Rank(w) \/ Start(w) \/ Stop(w)
      PROVE  DispatchedFirst'
  BY <1>1, <1>7 DEF Rank, Start, Stop, drain
<1>8. ASSUME NEW w \in Relays, NEW r \in Rows,
             NEW o \in Outcomes \ {"none"}, NEW landed \in BOOLEAN,
             DispatchEnds(w, r, o, landed)
      PROVE  DispatchedFirst'
  BY <1>1, <1>8 DEF DispatchEnds
<1>9. ASSUME NEW w \in Relays, NEW r \in Rows,
             MarkDelivered(w, r) \/ MarkFailed(w, r)
      PROVE  DispatchedFirst'
  BY <1>4, <1>9 DEF MarkDelivered, MarkFailed
<1>10. ASSUME NEW w \in Relays, NEW r \in Rows, NEW applied \in BOOLEAN,
              MarkDeliveredThrows(w, r, applied) \/ MarkFailedThrows(w, r, applied)
       PROVE  DispatchedFirst'
  BY <1>1, <1>3, <1>10 DEF MarkDeliveredThrows, MarkFailedThrows
<1>11. ASSUME NEW w \in Relays, Crash(w) PROVE DispatchedFirst'
  BY <1>3, <1>11 DEF Crash
<1>12. CASE Tick
  BY <1>1, <1>12 DEF Tick
<1>. QED
  BY <1>2, <1>5, <1>6, <1>7, <1>8, <1>9, <1>10, <1>11, <1>12
     DEF Next, RelayStep, Disruption

(* The last row dispatched of one workspace comes before the first row     *)
(* left of another; its rank is at least the number dispatched of the one, *)
(* and the rank of the row left is at most one more than the number        *)
(* dispatched of the other.                                                *)
LEMMA FairFromOrder == TypeOK /\ DispatchedFirst => FairDispatch
<1>. SUFFICES ASSUME TypeOK, DispatchedFirst, NEW w \in Relays,
                     NEW r \in left[w], NEW q \in batch[w] \ left[w]
              PROVE  Served(w, WorkspaceOf[q]) <= Served(w, WorkspaceOf[r]) + 1
  BY DEF FairDispatch
<1> DEFINE S == batch[w]
           D(ws) == {x \in S \ left[w] : WorkspaceOf[x] = ws}
           L == {x \in left[w] : WorkspaceOf[x] = WorkspaceOf[r]}
<1>1. S \in SUBSET Rows /\ left[w] \subseteq S /\ Rows \subseteq Nat
  BY RelayConstants DEF TypeOK
<1>2. \A ws : IsFiniteSet(D(ws)) /\ Cardinality(D(ws)) \in Nat
  BY <1>1, FS_Subset, FS_CardinalityType, RelayConstants
<1>3. PICK a \in D(WorkspaceOf[q]) : \A x \in D(WorkspaceOf[q]) : x <= a
  <2>1. q \in D(WorkspaceOf[q]) /\ D(WorkspaceOf[q]) \in SUBSET Nat
    BY <1>1
  <2>. HIDE DEF D
  <2>. QED
    BY <1>2, <2>1, NatMax
<1>4. PICK b \in L : \A x \in L : b <= x
  <2>1. r \in L /\ L \in SUBSET Nat
    BY <1>1
  <2>. HIDE DEF L
  <2>. QED
    BY <2>1, NatMin
<1>5. Cardinality(D(WorkspaceOf[q])) <= FairRank(a, S)
  BY <1>1, <1>3, RankCounts
<1>6. FairRank(a, S) <= FairRank(b, S)
  <2>1. Before(a, b, S)
    BY <1>3, <1>4 DEF DispatchedFirst
  <2>2. FairRank(a, S) \in Nat /\ FairRank(b, S) \in Nat
    BY <1>1, <1>3, <1>4, RankIsNumber
  <2>. QED
    BY <2>1, <2>2 DEF Before
<1>7. FairRank(b, S) <= Cardinality(D(WorkspaceOf[r])) + 1
  <2>1. D(WorkspaceOf[r]) \cup {b} \in SUBSET S
    BY <1>1, <1>4
  <2>2. \A x \in S : WorkspaceOf[x] = WorkspaceOf[b] /\ x <= b
                       => x \in D(WorkspaceOf[r]) \cup {b}
    <3>. SUFFICES ASSUME NEW x \in S, WorkspaceOf[x] = WorkspaceOf[b], x <= b,
                         x \in left[w]
                  PROVE  x = b
      BY <1>4
    <3>1. b \in Nat /\ x \in Nat
      BY <1>1
    <3>2. b <= x
      BY <1>4
    <3>. QED
      BY <3>1, <3>2
  <2>3. FairRank(b, S) <= Cardinality(D(WorkspaceOf[r]) \cup {b})
    BY <1>1, <1>4, <2>1, <2>2, RankCounts
  <2>4. Cardinality(D(WorkspaceOf[r]) \cup {b})
          = Cardinality(D(WorkspaceOf[r])) + 1
    <3>1. b \notin D(WorkspaceOf[r]) /\ IsFiniteSet(D(WorkspaceOf[r]))
      BY <1>2
    <3>. HIDE DEF D
    <3>. QED
      BY <3>1, FS_AddElement
  <2>. QED
    BY <2>3, <2>4
<1>8. /\ FairRank(a, S) \in Nat /\ FairRank(b, S) \in Nat
      /\ Cardinality(D(WorkspaceOf[q])) \in Nat
      /\ Cardinality(D(WorkspaceOf[r])) \in Nat
  BY <1>1, <1>2, <1>3, <1>4, RankIsNumber
<1>9. Cardinality(D(WorkspaceOf[q])) <= Cardinality(D(WorkspaceOf[r])) + 1
  <2>. HIDE DEF D, S
  <2>. QED
    BY <1>5, <1>6, <1>7, <1>8
<1>. QED
  BY <1>9 DEF Served

(* Within a drain no workspace is ever two rows ahead of one that still    *)
(* has a row waiting, for any batch, ranking and number of workspaces.     *)
THEOREM DrainsAreFair == Spec => []FairDispatch
<1>1. TypeOK /\ DispatchedFirst /\ [Next]_vars => DispatchedFirst'
  BY DispatchedNext
<1>. QED
  BY <1>1, DispatchedInit, FairFromOrder, TypeCorrect, PTL DEF Spec

(* The first rows of an order that ranks within workspaces include one of  *)
(* every workspace before two of any.                                      *)
LEMMA FirstShutNobodyOut ==
  ASSUME NEW S \in SUBSET Rows, NEW E \in SUBSET S, NEW P \in SUBSET E, NEW n,
         IsFirst(P, n, E, S),
         NEW p \in P, NEW q \in P, p < q, WorkspaceOf[p] = WorkspaceOf[q],
         NEW e \in E, {x \in S : WorkspaceOf[x] = WorkspaceOf[e]} \subseteq E,
         \A x \in P : WorkspaceOf[x] # WorkspaceOf[e]
  PROVE  FALSE
<1> DEFINE W == {x \in S : WorkspaceOf[x] = WorkspaceOf[e]}
<1>1. Rows \subseteq Nat
  BY RelayConstants
<1>2. PICK f \in W : \A x \in W : f <= x
  <2>1. e \in W /\ W \in SUBSET Nat
    BY <1>1
  <2>. HIDE DEF W
  <2>. QED
    BY <2>1, NatMin
<1>3. Before(q, f, S)
  BY <1>2 DEF IsFirst
<1>4. Cardinality({p, q}) <= FairRank(q, S)
  BY <1>1, RankCounts
<1>5. Cardinality({p, q}) = 2
  <2>1. q \notin {p} /\ {p, q} = {p} \cup {q}
    BY <1>1
  <2>2. IsFiniteSet({p}) /\ Cardinality({p}) = 1
    BY FS_Singleton
  <2>3. Cardinality({p} \cup {q}) = Cardinality({p}) + 1
    BY <2>1, <2>2, FS_AddElement
  <2>. QED
    BY <2>1, <2>2, <2>3
<1>6. FairRank(f, S) <= Cardinality({f})
  <2>1. \A x \in S : WorkspaceOf[x] = WorkspaceOf[f] /\ x <= f => x \in {f}
    BY <1>1, <1>2
  <2>. QED
    BY <1>2, <2>1, RankCounts
<1>7. Cardinality({f}) = 1
  BY FS_Singleton
<1>8. FairRank(f, S) \in Nat /\ FairRank(q, S) \in Nat
  BY <1>2, RankIsNumber
<1>. QED
  BY <1>3, <1>4, <1>5, <1>6, <1>7, <1>8 DEF Before

LEMMA RankShutsNobodyOut ==
  ASSUME TypeOK, NEW w \in Relays, Rank(w)
  PROVE  ~ShutsOut(candidates'[w], DueRows)
<1>1. PICK C \in SUBSET DueRows :
        /\ IsFirst(C, BatchSize * CandidateBatches, DueRows, DueRows)
        /\ candidates' = [candidates EXCEPT ![w] = C]
  BY DEF Rank
<1>2. candidates'[w] = C /\ DueRows \in SUBSET Rows /\ Rows \subseteq Nat
  BY <1>1, RelayConstants DEF TypeOK, DueRows
<1>3. ASSUME NEW p \in C, NEW q \in C, p # q, WorkspaceOf[p] = WorkspaceOf[q],
             NEW e \in DueRows, \A x \in C : WorkspaceOf[x] # WorkspaceOf[e]
      PROVE  FALSE
  <2>1. p < q \/ q < p
    <3>1. p \in Nat /\ q \in Nat
      BY <1>2
    <3>. QED
      BY <1>3, <3>1
  <2>. HIDE DEF DueRows
  <2>. QED
    BY <1>1, <1>2, <1>3, <2>1, FirstShutNobodyOut
<1>. QED
  BY <1>2, <1>3 DEF ShutsOut

LEMMA ClaimShutsNobodyOut ==
  ASSUME TypeOK, NEW w \in Relays, Claim(w)
  PROVE  ~ShutsOut(left'[w], Untouched(w))
<1> DEFINE S == candidates[w]
           E == {r \in S : Due(r)}
<1>1. PICK B \in SUBSET E :
        /\ IsFirst(B, BatchSize, E, S)
        /\ left' = [left EXCEPT ![w] = B]
  BY DEF Claim
<1>2. left'[w] = B /\ S \in SUBSET Rows /\ Rows \subseteq Nat
  BY <1>1, RelayConstants DEF TypeOK
<1>3. ASSUME NEW p \in B, NEW q \in B, p # q, WorkspaceOf[p] = WorkspaceOf[q],
             NEW e \in Untouched(w), \A x \in B : WorkspaceOf[x] # WorkspaceOf[e]
      PROVE  FALSE
  <2>1. p < q \/ q < p
    <3>1. p \in Nat /\ q \in Nat
      BY <1>2
    <3>. QED
      BY <1>3, <3>1
  <2>2. e \in E /\ {x \in S : WorkspaceOf[x] = WorkspaceOf[e]} \subseteq E
    BY DEF Untouched
  <2>. HIDE DEF E, S
  <2>3. E \subseteq S
    BY DEF E
  <2>. QED
    BY <1>1, <1>2, <1>3, <2>1, <2>2, <2>3, FirstShutNobodyOut
<1>. QED
  BY <1>2, <1>3 DEF ShutsOut

(* Only a ranking fills the candidates of a relay, and only a claim its    *)
(* batch.                                                                  *)
LEMMA WhoFills ==
  ASSUME TypeOK, [Next]_vars, NEW w \in Relays
  PROVE  (RankedBy(w) => Rank(w)) /\ (ClaimedBy(w) => Claim(w))
<1>1. CASE UNCHANGED <<candidates, left>>
  BY <1>1 DEF RankedBy, ClaimedBy
<1>2. CASE UNCHANGED vars
  BY <1>1, <1>2 DEF vars, drain
<1>3. ASSUME NEW r \in Rows, Enqueue(r) \/ Purge(r)
      PROVE  UNCHANGED <<candidates, left>>
  BY <1>3 DEF Enqueue, Purge, drain
<1>4. ASSUME NEW v \in Relays, Rank(v)
      PROVE  (RankedBy(w) => Rank(w)) /\ (ClaimedBy(w) => Claim(w))
  <2>1. left' = left /\ (v # w => candidates'[w] = candidates[w])
    BY <1>4 DEF Rank, TypeOK
  <2>. QED
    BY <1>4, <2>1 DEF RankedBy, ClaimedBy
<1>5. ASSUME NEW v \in Relays, Claim(v)
      PROVE  (RankedBy(w) => Rank(w)) /\ (ClaimedBy(w) => Claim(w))
  <2>1. /\ v # w => left'[w] = left[w]
        /\ candidates'[w] = {} \/ candidates'[w] = candidates[w]
    BY <1>5 DEF Claim, TypeOK
  <2>. QED
    BY <1>5, <2>1 DEF RankedBy, ClaimedBy
<1>6. ASSUME NEW v \in Relays, Start(v) \/ Stop(v)
      PROVE  UNCHANGED <<candidates, left>>
  BY <1>6 DEF Start, Stop, drain
<1>7. ASSUME NEW v \in Relays, Forget(v)
      PROVE  ~RankedBy(w) /\ ~ClaimedBy(w)
  BY <1>7 DEF Forget, RankedBy, ClaimedBy, TypeOK
<1>8. ASSUME NEW v \in Relays, NEW r \in Rows, Advance(v, r)
      PROVE  ~RankedBy(w) /\ ~ClaimedBy(w)
  <2>1. left'[w] \subseteq left[w] /\ candidates' = candidates
    BY <1>8 DEF Advance, TypeOK
  <2>. QED
    BY <2>1 DEF RankedBy, ClaimedBy
<1>9. ASSUME NEW v \in Relays, NEW r \in Rows,
             NEW o \in Outcomes \ {"none"}, NEW landed \in BOOLEAN,
             DispatchEnds(v, r, o, landed)
      PROVE  UNCHANGED <<candidates, left>>
  BY <1>9 DEF DispatchEnds
<1>10. ASSUME NEW v \in Relays, NEW r \in Rows,
              MarkDelivered(v, r) \/ MarkFailed(v, r)
       PROVE  ~RankedBy(w) /\ ~ClaimedBy(w)
  BY <1>8, <1>10 DEF MarkDelivered, MarkFailed
<1>11. ASSUME NEW v \in Relays, NEW r \in Rows, NEW applied \in BOOLEAN,
              MarkDeliveredThrows(v, r, applied)
       PROVE  UNCHANGED <<candidates, left>>
  BY <1>11 DEF MarkDeliveredThrows
<1>12. ASSUME NEW v \in Relays, NEW r \in Rows, NEW applied \in BOOLEAN,
              MarkFailedThrows(v, r, applied)
       PROVE  ~RankedBy(w) /\ ~ClaimedBy(w)
  BY <1>7, <1>12 DEF MarkFailedThrows
<1>13. ASSUME NEW v \in Relays, Crash(v)
       PROVE  ~RankedBy(w) /\ ~ClaimedBy(w)
  BY <1>7, <1>13 DEF Crash
<1>14. CASE Tick
  BY <1>1, <1>14 DEF Tick
<1>. QED
  BY <1>1, <1>2, <1>3, <1>4, <1>5, <1>6, <1>9, <1>10, <1>11, <1>12, <1>13,
     <1>14
     DEF Next, RelayStep, Disruption

(* Neither the ranking nor the claim takes two rows of one workspace and   *)
(* leaves out another that had a due row which no other relay served       *)
(* meanwhile, however many rows and workspaces there are.                  *)
THEOREM NobodyShutOut == Spec => NoTenantShutOut
<1>1. TypeOK /\ [Next]_vars =>
        [\A w \in Relays :
           /\ RankedBy(w) => ~ShutsOut(candidates'[w], DueRows)
           /\ ClaimedBy(w) => ~ShutsOut(left'[w], Untouched(w))]_vars
  BY WhoFills, RankShutsNobodyOut, ClaimShutsNobodyOut
<1>. QED
  BY <1>1, TypeCorrect, PTL DEF Spec, NoTenantShutOut
=============================================================================
