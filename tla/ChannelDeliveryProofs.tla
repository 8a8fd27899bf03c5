------------------------- MODULE ChannelDeliveryProofs -------------------------
(***************************************************************************)
(* Proofs about ChannelDelivery, for any number of messages and relays.    *)
(* Whatever the handler does between its transactions, each of its steps   *)
(* is a step of OutboxRelay or none, so the invariants of the relays hold  *)
(* of the composition; with them, a recipient gets a message once, and the *)
(* log is settled before the outbox row.                                   *)
(***************************************************************************)
EXTENDS ChannelDelivery, OutboxRelayProofs

------------------------------------------------------------------------------
(* The handler is one way for a dispatch to go *)

LEMMA HandlerIsADispatch ==
  ASSUME NEW w \in Relays, HandlerStep(w)
  PROVE  RelayStep(w) \/ UNCHANGED vars
<1>1. ASSUME NEW r \in Rows, NEW o \in {"ok", "transient", "permanent"},
             NEW landed \in BOOLEAN, Return(w, r, o, landed)
      PROVE  RelayStep(w)
  BY <1>1 DEF Return, RelayStep, Outcomes
<1>2. ASSUME NEW r \in Rows, ReadMessage(w, r)
      PROVE  RelayStep(w) \/ UNCHANGED vars
  BY <1>1, <1>2 DEF ReadMessage
<1>3. ASSUME NEW r \in Rows, Send(w, r) PROVE UNCHANGED vars
  BY <1>3 DEF Send
<1>4. ASSUME NEW r \in Rows, WriteStatus(w, r)
      PROVE  RelayStep(w) \/ UNCHANGED vars
  BY <1>1, <1>4 DEF WriteStatus
<1>5. ASSUME NEW r \in Rows, MarkConnection(w, r) PROVE RelayStep(w)
  BY <1>1, <1>5 DEF MarkConnection
<1>6. ASSUME NEW r \in Rows, HandlerThrows(w, r) PROVE RelayStep(w)
  <2>1. (verdict[w] = "sent") \in BOOLEAN
    OBVIOUS
  <2>2. QED
    BY <1>1, <1>6, <2>1 DEF HandlerThrows
<1>7. QED
  BY <1>2, <1>3, <1>4, <1>5, <1>6 DEF HandlerStep

LEMMA ChannelStepIsRelayStep ==
  ASSUME [ChannelNext]_allVars
  PROVE  [Next]_vars
<1>1. ASSUME NEW r \in Rows, Queue(r) PROVE Next
  BY <1>1 DEF Queue, Next
<1>2. ASSUME NEW r \in Rows, Sweep(r) PROVE UNCHANGED vars
  BY <1>2 DEF Sweep
<1>3. CASE Connect \/ Disconnect
  BY <1>3 DEF Connect, Disconnect
<1>4. ASSUME NEW w \in Relays, HandlerStep(w) PROVE [Next]_vars
  BY <1>4, HandlerIsADispatch DEF Next
<1>5. ASSUME NEW w \in Relays, DrainStep(w) PROVE Next
  BY <1>5 DEF DrainStep, RelayStep, Next
<1>6. ASSUME NEW w \in Relays, CrashHandling(w) PROVE Next
  BY <1>6 DEF CrashHandling, Disruption, Next
<1>7. ASSUME NEW w \in Relays, OtherDisruption(w) PROVE Next
  BY <1>7 DEF OtherDisruption, Disruption, Next
<1>8. CASE TimeAndRetention
  BY <1>8 DEF TimeAndRetention, Next
<1>9. CASE UNCHANGED allVars
  BY <1>9 DEF allVars
<1>10. QED
  BY <1>1, <1>2, <1>3, <1>4, <1>5, <1>6, <1>7, <1>8, <1>9 DEF ChannelNext

(* The consumer cut into its transactions is still a consumer: with        *)
(* deliverChannelMessage in place of the one-step dispatch the relays do   *)
(* nothing they could not do before, and what is proved of every step of   *)
(* theirs holds of the composition.                                        *)
THEOREM DeliveryKeepsTheRelays == ChannelSpec => Init /\ [][Next]_vars
<1>1. ChannelInit => Init
  BY DEF ChannelInit
<1>2. [ChannelNext]_allVars => [Next]_vars
  BY ChannelStepIsRelayStep
<1>3. QED
  BY <1>1, <1>2, PTL DEF ChannelSpec

------------------------------------------------------------------------------
(* The shape of the variables *)

LEMMA ToStageType ==
  ASSUME ChannelTypeOK, NEW w \in Relays,
         NEW s \in {"read", "send", "write", "mark"}, NEW v \in Verdicts,
         ToStage(w, s, v)
  PROVE  /\ stage' \in [Relays -> {"read", "send", "write", "mark"}]
         /\ verdict' \in [Relays -> Verdicts]
  BY DEF ToStage, ChannelTypeOK

LEMMA ReturnType ==
  ASSUME ChannelTypeOK, NEW w \in Relays, NEW r, NEW o, NEW landed,
         Return(w, r, o, landed)
  PROVE  /\ stage' \in [Relays -> {"read", "send", "write", "mark"}]
         /\ verdict' \in [Relays -> Verdicts]
<1>1. "none" \in Verdicts
  BY DEF Verdicts
<1>2. QED
  BY <1>1, ToStageType DEF Return

LEMMA HandlerType ==
  ASSUME ChannelTypeOK, NEW w \in Relays, HandlerStep(w)
  PROVE  ChannelTypeOK'
<1>0. \A v \in Verdicts : v \in {"none", "sent", "failed", "suppressed"}
  BY DEF Verdicts
<1>1. ASSUME NEW r \in Rows, ReadMessage(w, r) PROVE ChannelTypeOK'
  <2>1. /\ stage' \in [Relays -> {"read", "send", "write", "mark"}]
        /\ verdict' \in [Relays -> Verdicts]
    BY <1>1, ReturnType, ToStageType DEF ReadMessage, Verdicts
  <2>2. skipped' \in SUBSET Rows
    BY <1>1 DEF ReadMessage, ChannelTypeOK
  <2>3. QED
    BY <1>1, <2>1, <2>2 DEF ReadMessage, messageLog, ChannelTypeOK
<1>2. ASSUME NEW r \in Rows, Send(w, r) PROVE ChannelTypeOK'
  <2>1. PICK v \in Verdicts \ {"none"}, landed \in BOOLEAN :
          /\ ToStage(w, "write", v)
          /\ posted' = [posted EXCEPT ![r] = @ + (IF landed THEN 1 ELSE 0)]
    BY <1>2 DEF Send
  <2>2. posted' \in [Rows -> Nat]
    BY <2>1 DEF ChannelTypeOK
  <2>3. /\ stage' \in [Relays -> {"read", "send", "write", "mark"}]
        /\ verdict' \in [Relays -> Verdicts]
    BY <2>1, ToStageType
  <2>4. QED
    BY <1>2, <2>2, <2>3 DEF Send, messageLog, ChannelTypeOK
<1>3. ASSUME NEW r \in Rows, WriteStatus(w, r) PROVE ChannelTypeOK'
  <2>1. /\ stage' \in [Relays -> {"read", "send", "write", "mark"}]
        /\ verdict' \in [Relays -> Verdicts]
    BY <1>3, ReturnType, ToStageType DEF WriteStatus, Verdicts
  <2>2. status' \in [Rows ->
          {"none", "queued", "sent", "failed", "suppressed", "swept"}]
    BY <1>0, <1>3 DEF WriteStatus, RecordVerdict, ChannelTypeOK
  <2>3. QED
    BY <1>3, <2>1, <2>2 DEF WriteStatus, tallies, ChannelTypeOK
<1>4. ASSUME NEW r \in Rows, MarkConnection(w, r) PROVE ChannelTypeOK'
  BY <1>4, ReturnType DEF MarkConnection, tallies, ChannelTypeOK
<1>5. ASSUME NEW r \in Rows, HandlerThrows(w, r) PROVE ChannelTypeOK'
  <2>1. unrecorded' \in [Rows -> Nat]
    BY <1>5 DEF HandlerThrows, Forgotten, ChannelTypeOK
  <2>2. /\ stage' \in [Relays -> {"read", "send", "write", "mark"}]
        /\ verdict' \in [Relays -> Verdicts]
    BY <1>5, ReturnType DEF HandlerThrows
  <2>3. QED
    BY <1>5, <2>1, <2>2 DEF HandlerThrows, messageLog, ChannelTypeOK
<1>6. QED
  BY <1>1, <1>2, <1>3, <1>4, <1>5 DEF HandlerStep

LEMMA ChannelTypeNext ==
  ASSUME ChannelTypeOK, [ChannelNext]_allVars
  PROVE  ChannelTypeOK'
<1>1. ASSUME UNCHANGED <<messageLog, handler, tallies>> PROVE ChannelTypeOK'
  BY <1>1 DEF messageLog, handler, tallies, ChannelTypeOK
<1>2. ASSUME NEW r \in Rows, Queue(r) PROVE ChannelTypeOK'
  BY <1>2 DEF Queue, handler, tallies, ChannelTypeOK
<1>3. ASSUME NEW r \in Rows, Sweep(r) PROVE ChannelTypeOK'
  BY <1>3 DEF Sweep, handler, tallies, ChannelTypeOK
<1>4. CASE Connect \/ Disconnect
  BY <1>4 DEF Connect, Disconnect, handler, tallies, ChannelTypeOK
<1>5. ASSUME NEW w \in Relays, CrashHandling(w) PROVE ChannelTypeOK'
  <2>1. unrecorded' \in [Rows -> Nat]
    BY <1>5 DEF CrashHandling, Forgotten, ChannelTypeOK
  <2>2. /\ stage' \in [Relays -> {"read", "send", "write", "mark"}]
        /\ verdict' \in [Relays -> Verdicts]
    BY <1>5, ToStageType DEF CrashHandling, Verdicts
  <2>3. QED
    BY <1>5, <2>1, <2>2 DEF CrashHandling, messageLog, ChannelTypeOK
<1>6. QED
  BY <1>1, <1>2, <1>3, <1>4, <1>5, HandlerType
     DEF ChannelNext, DrainStep, OtherDisruption, TimeAndRetention, allVars

------------------------------------------------------------------------------
(* What the relays do to the handlers of others, and to their own *)

(* A row in hand is in the table, or was, and a relay that still ranks has *)
(* nothing in hand.                                                        *)
DrainShape == HeldIsStored /\ OneDrain

LEMMA ForgetGives ==
  ASSUME TypeOK, NEW w \in Relays, Forget(w)
  PROVE  /\ \A v \in Relays : v # w => /\ left'[v] = left[v] /\ batch'[v] = batch[v]
                                       /\ outcome'[v] = outcome[v]
                                       /\ candidates'[v] = candidates[v]
         /\ left'[w] = {} /\ candidates'[w] = {} /\ outcome'[w] = "none"
  BY DEF Forget, TypeOK

LEMMA AdvanceGives ==
  ASSUME TypeOK, NEW w \in Relays, NEW r \in Rows, Advance(w, r)
  PROVE  /\ \A v \in Relays : v # w => /\ left'[v] = left[v] /\ batch'[v] = batch[v]
                                       /\ outcome'[v] = outcome[v]
         /\ left'[w] \subseteq left[w] /\ outcome'[w] = "none"
         /\ candidates' = candidates
  BY DEF Advance, TypeOK

LEMMA ClaimGives ==
  ASSUME TypeOK, NEW w \in Relays, Claim(w)
  PROVE  /\ \A v \in Relays : v # w => /\ left'[v] = left[v] /\ batch'[v] = batch[v]
                                       /\ outcome'[v] = outcome[v]
                                       /\ candidates'[v] = candidates[v]
         /\ \A r \in left'[w] : r \in Rows /\ stored[r] = "stored"
         /\ outcome'[w] = "none" /\ candidates[w] # {} /\ candidates'[w] = {}
         /\ UNCHANGED <<stored, delivered, dead>>
<1>1. PICK B \in SUBSET {r \in candidates[w] : Due(r)} :
        /\ left' = [left EXCEPT ![w] = B]
        /\ batch' = [batch EXCEPT ![w] = B]
  BY DEF Claim
<1>2. \A r \in B : r \in Rows /\ stored[r] = "stored"
  BY DEF Due, Pending, TypeOK
<1>3. QED
  BY <1>1, <1>2 DEF Claim, TypeOK

(* Any step either leaves a relay's drain alone or leaves it without a     *)
(* dispatch that ended well.                                               *)
Undisturbed(v) ==
  left'[v] = left[v] /\ batch'[v] = batch[v] /\ outcome'[v] = outcome[v]

LEMMA DrainShapeNext ==
  ASSUME TypeOK, DrainShape, [Next]_vars
  PROVE  DrainShape'
<1> USE DEF DrainShape, HeldIsStored, OneDrain
<1>1. ASSUME UNCHANGED stored, \A v \in Relays : left'[v] \subseteq left[v],
             \A v \in Relays : candidates'[v] = candidates[v] \/ left[v] = {}
                                 \/ candidates'[v] = {}
      PROVE  DrainShape'
  BY <1>1
<1>2. CASE UNCHANGED vars
  BY <1>1, <1>2 DEF vars, table, drain
<1>3. ASSUME NEW r \in Rows, Enqueue(r) \/ Purge(r) PROVE DrainShape'
  BY <1>3 DEF Enqueue, Purge, drain, TypeOK
<1>4. ASSUME NEW w \in Relays, Rank(w) PROVE DrainShape'
  <2>1. left' = left /\ stored' = stored /\ left[w] = {}
    BY <1>4 DEF Rank, table, Idle
  <2>2. \A v \in Relays : v # w => candidates'[v] = candidates[v]
    BY <1>4 DEF Rank, TypeOK
  <2>3. QED
    BY <2>1, <2>2
<1>5. ASSUME NEW w \in Relays, Claim(w) PROVE DrainShape'
  <2>1. \A r \in left'[w] : stored'[r] # "absent"
    BY <1>5, ClaimGives
  <2>2. QED
    BY <1>5, <2>1, ClaimGives
<1>6. ASSUME NEW w \in Relays, Start(w) \/ Stop(w) PROVE DrainShape'
  BY <1>1, <1>6 DEF Start, Stop, table, drain
<1>7. ASSUME NEW w \in Relays, NEW r \in Rows, NEW o, NEW landed,
             DispatchEnds(w, r, o, landed)
      PROVE  DrainShape'
  BY <1>1, <1>7 DEF DispatchEnds, table
<1>8. ASSUME NEW w \in Relays, NEW r \in Rows,
             MarkDelivered(w, r) \/ MarkFailed(w, r)
      PROVE  DrainShape'
  <2>1. Advance(w, r) /\ UNCHANGED stored
    BY <1>8 DEF MarkDelivered, MarkFailed, StampDelivered, StampFailed
  <2>2. \A v \in Relays : left'[v] \subseteq left[v]
    BY <2>1, AdvanceGives
  <2>3. QED
    BY <1>1, <2>1, <2>2, AdvanceGives
<1>9. ASSUME NEW w \in Relays, NEW r \in Rows, NEW applied \in BOOLEAN,
             MarkDeliveredThrows(w, r, applied)
      PROVE  DrainShape'
  BY <1>1, <1>9 DEF MarkDeliveredThrows, StampDelivered, table
<1>10. ASSUME NEW w \in Relays, Forget(w), UNCHANGED stored PROVE DrainShape'
  <2>1. \A v \in Relays : left'[v] \subseteq left[v]
    BY <1>10, ForgetGives
  <2>2. \A v \in Relays : candidates'[v] = candidates[v] \/ candidates'[v] = {}
    BY <1>10, ForgetGives
  <2>3. QED
    BY <1>1, <1>10, <2>1, <2>2
<1>11. ASSUME NEW w \in Relays, Crash(w) PROVE DrainShape'
  BY <1>10, <1>11 DEF Crash, table
<1>12. ASSUME NEW w \in Relays, NEW r \in Rows, NEW applied \in BOOLEAN,
              MarkFailedThrows(w, r, applied)
       PROVE  DrainShape'
  BY <1>10, <1>12 DEF MarkFailedThrows, StampFailed, table
<1>13. CASE Tick
  BY <1>1, <1>13 DEF Tick
<1>14. QED
  BY <1>2, <1>3, <1>4, <1>5, <1>6, <1>7, <1>8, <1>9, <1>11, <1>12, <1>13
     DEF Next, RelayStep, Disruption

(* What the steps around the handlers leave of a dispatch: all of it, or   *)
(* one that had ended, or never began, and has not ended well.             *)
Around ==
  /\ \A v \in Relays :
       \/ Undisturbed(v)
       \/ outcome'[v] # "ok" /\ (outcome[v] # "none" \/ left[v] = {})
  /\ \A r \in Rows :
       /\ delivered'[r] =>
            delivered[r] \/ \E w \in Relays : IsCurrent(w, r) /\ outcome[w] = "ok"
       /\ stored'[r] = "absent" => stored[r] = "absent"

LEMMA AroundSteps ==
  ASSUME TypeOK, DrainShape,
         \/ \E w \in Relays : DrainStep(w) \/ OtherDisruption(w)
         \/ TimeAndRetention
  PROVE  Around
<1>1. ASSUME UNCHANGED <<stored, delivered>>, \A v \in Relays : Undisturbed(v)
      PROVE  Around
  BY <1>1 DEF Around
<1>2. ASSUME NEW w \in Relays, Rank(w) \/ Start(w) \/ Stop(w) PROVE Around
  BY <1>1, <1>2 DEF Rank, Start, Stop, table, drain, Undisturbed
<1>3. ASSUME NEW w \in Relays, Claim(w) PROVE Around
  <2>1. left[w] = {} /\ outcome'[w] = "none"
    BY <1>3, ClaimGives DEF DrainShape, OneDrain
  <2>2. \A v \in Relays : v # w => Undisturbed(v)
    BY <1>3, ClaimGives DEF Undisturbed
  <2>3. UNCHANGED <<stored, delivered>>
    BY <1>3, ClaimGives
  <2>4. QED
    BY <2>1, <2>2, <2>3 DEF Around
<1>4. ASSUME NEW w \in Relays, NEW r \in Rows, MarkDelivered(w, r) PROVE Around
  <2>1. outcome[w] = "ok" /\ outcome'[w] = "none" /\ IsCurrent(w, r)
    BY <1>4, AdvanceGives DEF MarkDelivered
  <2>2. \A v \in Relays : v # w => Undisturbed(v)
    BY <1>4, AdvanceGives DEF MarkDelivered, Undisturbed
  <2>3. UNCHANGED stored /\ \A q \in Rows : q # r => delivered'[q] = delivered[q]
    BY <1>4 DEF MarkDelivered, StampDelivered, TypeOK
  <2>4. QED
    BY <2>1, <2>2, <2>3 DEF Around
<1>5. ASSUME NEW w \in Relays, NEW r \in Rows, MarkFailed(w, r) PROVE Around
  <2>1. outcome[w] # "none" /\ outcome'[w] = "none"
    BY <1>5, AdvanceGives DEF MarkFailed
  <2>2. \A v \in Relays : v # w => Undisturbed(v)
    BY <1>5, AdvanceGives DEF MarkFailed, Undisturbed
  <2>3. UNCHANGED <<stored, delivered>>
    BY <1>5 DEF MarkFailed, StampFailed
  <2>4. QED
    BY <2>1, <2>2, <2>3 DEF Around
<1>6. ASSUME NEW w \in Relays, NEW r \in Rows, NEW applied \in BOOLEAN,
             MarkDeliveredThrows(w, r, applied)
      PROVE  Around
  <2>1. outcome[w] = "ok" /\ outcome'[w] = "transient" /\ IsCurrent(w, r)
    BY <1>6 DEF MarkDeliveredThrows, TypeOK
  <2>2. \A v \in Relays : v # w => Undisturbed(v)
    BY <1>6 DEF MarkDeliveredThrows, Undisturbed, TypeOK
  <2>3. UNCHANGED stored /\ \A q \in Rows : q # r => delivered'[q] = delivered[q]
    BY <1>6 DEF MarkDeliveredThrows, StampDelivered, TypeOK, table
  <2>4. QED
    BY <2>1, <2>2, <2>3 DEF Around
<1>7. ASSUME NEW w \in Relays, NEW r \in Rows, NEW applied \in BOOLEAN,
             MarkFailedThrows(w, r, applied)
      PROVE  Around
  <2>1. outcome[w] # "none" /\ outcome'[w] = "none"
    BY <1>7, ForgetGives DEF MarkFailedThrows
  <2>2. \A v \in Relays : v # w => Undisturbed(v)
    BY <1>7, ForgetGives DEF MarkFailedThrows, Undisturbed
  <2>3. UNCHANGED <<stored, delivered>>
    BY <1>7 DEF MarkFailedThrows, StampFailed, table
  <2>4. QED
    BY <2>1, <2>2, <2>3 DEF Around
<1>8. CASE Tick
  BY <1>1, <1>8 DEF Tick, Undisturbed
<1>9. ASSUME NEW r \in Rows, Purge(r) PROVE Around
  BY <1>9 DEF Purge, Around, Undisturbed, drain, TypeOK
<1>10. QED
  BY <1>2, <1>3, <1>4, <1>5, <1>6, <1>7, <1>8, <1>9
     DEF DrainStep, OtherDisruption, TimeAndRetention

------------------------------------------------------------------------------
(* The log before the row *)

Sends(w, r, s) == IsCurrent(w, r) /\ stage[w] = s

(* A handler between two of its transactions has the current row of a      *)
(* claim in hand, and its dispatch has not ended.                          *)
StageInv ==
  \A w \in Relays : stage[w] # "read" => outcome[w] = "none" /\ left[w] # {}

(* A message the log shows as waiting was passed over.                     *)
PassedOver(r) == status[r] = "queued" => r \in skipped

(* A dispatch ends well only for a message the log shows as settled, or    *)
(* one there was no driver for.                                            *)
LogInv ==
  /\ \A r \in Rows : stored[r] = "absent" => status[r] = "none" /\ posted[r] = 0
  /\ \A r \in Rows : delivered[r] => PassedOver(r)
  /\ \A w \in Relays, r \in Rows :
       IsCurrent(w, r) /\ outcome[w] = "ok" => PassedOver(r)

ChannelInv ==
  TypeOK /\ ChannelTypeOK /\ DrainShape /\ AbsentIsNew /\ StageInv /\ LogInv

LEMMA CurrentStays ==
  ASSUME NEW v \in Relays, Undisturbed(v), NEW r
  PROVE  IsCurrent(v, r)' <=> IsCurrent(v, r)
  BY DEF Undisturbed, IsCurrent, Before

LEMMA CurrentIsStored ==
  ASSUME TypeOK, DrainShape, NEW w \in Relays, NEW r, IsCurrent(w, r)
  PROVE  r \in Rows /\ r \in left[w] /\ stored[r] # "absent"
  BY DEF IsCurrent, DrainShape, HeldIsStored, TypeOK

LEMMA AroundLog ==
  ASSUME ChannelInv, Around, UNCHANGED <<messageLog, handler, tallies>>
  PROVE  StageInv' /\ LogInv'
<1> USE DEF ChannelInv
<1>1. UNCHANGED <<status, stage, posted, skipped>>
  BY DEF messageLog, handler, tallies
<1>2. StageInv'
  BY <1>1 DEF StageInv, Around, Undisturbed
<1>3. \A w \in Relays, r \in Rows :
        IsCurrent(w, r)' /\ outcome'[w] = "ok" => PassedOver(r)'
  <2> SUFFICES ASSUME NEW w \in Relays, NEW r \in Rows,
                      IsCurrent(w, r)', outcome'[w] = "ok"
               PROVE  PassedOver(r)
    BY <1>1 DEF PassedOver
  <2>1. Undisturbed(w)
    BY DEF Around
  <2>2. IsCurrent(w, r) /\ outcome[w] = "ok"
    BY <2>1, CurrentStays DEF Undisturbed
  <2>3. QED
    BY <2>2 DEF LogInv
<1>4. LogInv'
  BY <1>1, <1>3 DEF LogInv, PassedOver, Around
<1>5. QED
  BY <1>2, <1>4

(* What one transaction of the handler of w, on its current row r, may     *)
(* change: the log row and the tallies of r, never back to waiting, and an *)
(* acknowledgement only once the log row is settled or passed over.        *)
HandlerOn(w, r) ==
  /\ IsCurrent(w, r) /\ outcome[w] = "none"
  /\ UNCHANGED <<stored, delivered, left, batch>>
  /\ \A v \in Relays \ {w} : /\ outcome'[v] = outcome[v]
                             /\ stage'[v] = stage[v]
                             /\ verdict'[v] = verdict[v]
  /\ \A q \in Rows \ {r} : /\ status'[q] = status[q]
                           /\ posted'[q] = posted[q]
                           /\ unrecorded'[q] = unrecorded[q]
  /\ status'[r] = "queued" => status[r] = "queued"
  /\ skipped \subseteq skipped'
  /\ stage'[w] # "read" => outcome'[w] = "none"
  /\ outcome'[w] = "ok" => PassedOver(r)'

LEMMA ReturnGives ==
  ASSUME TypeOK, ChannelTypeOK, NEW w \in Relays, NEW r \in Rows, NEW o,
         NEW landed, Return(w, r, o, landed)
  PROVE  /\ IsCurrent(w, r) /\ outcome[w] = "none"
         /\ UNCHANGED <<stored, delivered, left, batch>>
         /\ \A v \in Relays \ {w} : /\ outcome'[v] = outcome[v]
                                    /\ stage'[v] = stage[v]
                                    /\ verdict'[v] = verdict[v]
         /\ outcome'[w] = o /\ stage'[w] = "read"
  BY DEF Return, DispatchEnds, ToStage, table, TypeOK, ChannelTypeOK

LEMMA StayGives ==
  ASSUME TypeOK, ChannelTypeOK, NEW w \in Relays, NEW r \in Rows, NEW s, NEW v,
         NEW t, At(w, r, t), ToStage(w, s, v), UNCHANGED vars
  PROVE  /\ IsCurrent(w, r) /\ outcome[w] = "none"
         /\ UNCHANGED <<stored, delivered, left, batch, outcome>>
         /\ \A u \in Relays \ {w} : /\ outcome'[u] = outcome[u]
                                    /\ stage'[u] = stage[u]
                                    /\ verdict'[u] = verdict[u]
         /\ outcome'[w] = "none" /\ stage'[w] = s /\ verdict'[w] = v
  BY DEF At, ToStage, vars, table, drain, TypeOK, ChannelTypeOK

LEMMA HandlerIsOn ==
  ASSUME TypeOK, ChannelTypeOK, NEW w \in Relays, NEW r \in Rows,
         \/ ReadMessage(w, r)
         \/ Send(w, r)
         \/ WriteStatus(w, r)
         \/ MarkConnection(w, r)
         \/ HandlerThrows(w, r)
  PROVE  HandlerOn(w, r)
<1>1. CASE ReadMessage(w, r)
  <2>1. UNCHANGED <<status, posted, unrecorded>>
    BY <1>1 DEF ReadMessage, messageLog
  <2>2. CASE /\ status[r] = "swept" /\ Return(w, r, "permanent", FALSE)
             /\ UNCHANGED skipped
    BY <2>1, <2>2, ReturnGives DEF HandlerOn
  <2>3. CASE /\ status[r] \notin {"swept", "queued"} /\ Return(w, r, "ok", TRUE)
             /\ UNCHANGED skipped
    BY <2>1, <2>3, ReturnGives DEF HandlerOn, PassedOver
  <2>4. CASE Return(w, r, "ok", TRUE) /\ skipped' = skipped \cup {r}
    BY <2>1, <2>4, ReturnGives DEF HandlerOn, PassedOver
  <2>5. CASE ToStage(w, "send", "none") /\ UNCHANGED <<vars, skipped>>
    <3>1. At(w, r, "read")
      BY <1>1 DEF ReadMessage
    <3>2. QED
      BY <2>1, <2>5, <3>1, StayGives DEF HandlerOn
  <2>6. QED
    BY <1>1, <2>2, <2>3, <2>4, <2>5 DEF ReadMessage
<1>2. CASE Send(w, r)
  <2>1. PICK v \in Verdicts \ {"none"}, landed \in BOOLEAN :
          /\ ToStage(w, "write", v)
          /\ posted' = [posted EXCEPT ![r] = @ + (IF landed THEN 1 ELSE 0)]
    BY <1>2 DEF Send
  <2>2. /\ At(w, r, "send") /\ UNCHANGED vars
        /\ UNCHANGED <<status, unrecorded, skipped>>
    BY <1>2 DEF Send, messageLog
  <2>3. \A q \in Rows \ {r} : posted'[q] = posted[q]
    BY <2>1 DEF ChannelTypeOK
  <2>4. QED
    BY <2>1, <2>2, <2>3, StayGives DEF HandlerOn
<1>3. CASE WriteStatus(w, r)
  <2>1. UNCHANGED <<posted, unrecorded, skipped>>
    BY <1>3 DEF WriteStatus, tallies
  <2>2. /\ \A q \in Rows \ {r} : status'[q] = status[q]
        /\ status'[r] # "queued"
    BY <1>3 DEF WriteStatus, RecordVerdict, ChannelTypeOK, Verdicts
  <2>3. CASE \E o \in {"ok", "transient"}, landed \in BOOLEAN :
               Return(w, r, o, landed)
    BY <2>1, <2>2, <2>3, ReturnGives DEF HandlerOn, PassedOver
  <2>4. CASE ToStage(w, "mark", "failed") /\ UNCHANGED vars
    <3>1. At(w, r, "write")
      BY <1>3 DEF WriteStatus
    <3>2. QED
      BY <2>1, <2>2, <2>4, <3>1, StayGives DEF HandlerOn
  <2>5. QED
    BY <1>3, <2>3, <2>4 DEF WriteStatus
<1>4. CASE MarkConnection(w, r)
  <2>1. UNCHANGED <<status, posted, unrecorded, skipped>>
    BY <1>4 DEF MarkConnection, tallies
  <2>2. Return(w, r, "transient", FALSE)
    BY <1>4 DEF MarkConnection
  <2>3. QED
    BY <2>1, <2>2, ReturnGives DEF HandlerOn, PassedOver
<1>5. CASE HandlerThrows(w, r)
  <2>1. UNCHANGED <<status, posted, skipped>>
    BY <1>5 DEF HandlerThrows, messageLog
  <2>2. \A q \in Rows \ {r} : unrecorded'[q] = unrecorded[q]
    BY <1>5 DEF HandlerThrows, Forgotten, ChannelTypeOK
  <2>3. Return(w, r, "transient", verdict[w] = "sent")
    BY <1>5 DEF HandlerThrows
  <2>4. QED
    BY <2>1, <2>2, <2>3, ReturnGives DEF HandlerOn
<1>6. QED
  BY <1>1, <1>2, <1>3, <1>4, <1>5

LEMMA HandlerLog ==
  ASSUME ChannelInv, NEW w \in Relays, NEW r \in Rows, HandlerOn(w, r)
  PROVE  StageInv' /\ LogInv'
<1> USE DEF ChannelInv
<1>1. \A v \in Relays, q \in Rows : IsCurrent(v, q)' <=> IsCurrent(v, q)
  BY DEF HandlerOn, IsCurrent, Before
<1>2. r \in left[w] /\ stored[r] # "absent"
  BY CurrentIsStored DEF HandlerOn
<1>3. StageInv'
  BY <1>2 DEF StageInv, HandlerOn
<1>4. \A q \in Rows : stored'[q] = "absent" => status'[q] = "none" /\ posted'[q] = 0
  BY <1>2 DEF LogInv, HandlerOn
<1>5. \A q \in Rows : delivered'[q] => PassedOver(q)'
  BY DEF LogInv, HandlerOn, PassedOver
<1>6. \A v \in Relays, q \in Rows :
        IsCurrent(v, q)' /\ outcome'[v] = "ok" => PassedOver(q)'
  <2> SUFFICES ASSUME NEW v \in Relays, NEW q \in Rows,
                      IsCurrent(v, q), outcome'[v] = "ok"
               PROVE  PassedOver(q)'
    BY <1>1
  <2>1. CASE v = w
    <3>1. q = r
      BY <2>1, OneCurrent DEF HandlerOn
    <3>2. QED
      BY <2>1, <3>1 DEF HandlerOn
  <2>2. CASE v # w
    <3>1. PassedOver(q)
      BY <2>2 DEF HandlerOn, LogInv
    <3>2. QED
      BY <3>1 DEF HandlerOn, PassedOver
  <2>3. QED
    BY <2>1, <2>2
<1>7. QED
  BY <1>3, <1>4, <1>5, <1>6 DEF LogInv

(* A crash leaves its relay without a dispatch, and the others alone.      *)
LEMMA CrashGives ==
  ASSUME TypeOK, ChannelTypeOK, NEW w \in Relays, CrashHandling(w)
  PROVE  /\ \A v \in Relays \ {w} : Undisturbed(v) /\ stage'[v] = stage[v]
                                    /\ verdict'[v] = verdict[v]
         /\ left'[w] = {} /\ outcome'[w] = "none" /\ stage'[w] = "read"
         /\ UNCHANGED <<stored, delivered, status, posted, skipped>>
<1>1. Forget(w) /\ UNCHANGED table
  BY DEF CrashHandling, Crash
<1>2. \A v \in Relays \ {w} : Undisturbed(v)
  BY <1>1, ForgetGives DEF Undisturbed
<1>3. left'[w] = {} /\ outcome'[w] = "none"
  BY <1>1, ForgetGives
<1>4. UNCHANGED <<stored, delivered, status, posted, skipped>>
  BY <1>1 DEF CrashHandling, table, messageLog
<1>5. /\ \A v \in Relays \ {w} : stage'[v] = stage[v] /\ verdict'[v] = verdict[v]
      /\ stage'[w] = "read"
  BY DEF CrashHandling, ToStage, ChannelTypeOK
<1>6. QED
  BY <1>2, <1>3, <1>4, <1>5

LEMMA LogNext ==
  ASSUME ChannelInv, [ChannelNext]_allVars
  PROVE  StageInv' /\ LogInv'
<1> USE DEF ChannelInv
<1>1. ASSUME UNCHANGED <<stored, delivered, drain, stage, posted, status,
                         skipped>>
      PROVE  StageInv' /\ LogInv'
  <2>1. \A v \in Relays, q \in Rows : IsCurrent(v, q)' <=> IsCurrent(v, q)
    BY <1>1 DEF drain, IsCurrent, Before
  <2>2. QED
    BY <1>1, <2>1 DEF StageInv, LogInv, PassedOver, drain
<1>2. CASE UNCHANGED allVars
  BY <1>1, <1>2 DEF allVars, vars, table, handler, tallies, messageLog
<1>3. CASE Connect \/ Disconnect
  BY <1>1, <1>3 DEF Connect, Disconnect, vars, table, handler, tallies
<1>4. ASSUME NEW r \in Rows, Queue(r) PROVE StageInv' /\ LogInv'
  <2>1. UNCHANGED <<drain, delivered, stage, posted, skipped>>
    BY <1>4 DEF Queue, Enqueue, handler, tallies
  <2>2. /\ stored[r] = "absent" /\ stored'[r] = "stored"
        /\ \A q \in Rows \ {r} : stored'[q] = stored[q] /\ status'[q] = status[q]
    BY <1>4 DEF Queue, Enqueue, TypeOK, ChannelTypeOK
  <2>3. ~delivered[r] /\ \A w \in Relays : ~IsCurrent(w, r)
    BY <2>2, CurrentIsStored DEF AbsentIsNew
  <2>4. \A v \in Relays, q \in Rows : IsCurrent(v, q)' <=> IsCurrent(v, q)
    BY <2>1 DEF drain, IsCurrent, Before
  <2>5. StageInv'
    BY <2>1 DEF StageInv, drain
  <2>6. LogInv'
    BY <2>1, <2>2, <2>3, <2>4 DEF LogInv, PassedOver, drain
  <2>7. QED
    BY <2>5, <2>6
<1>5. ASSUME NEW r \in Rows, Sweep(r) PROVE StageInv' /\ LogInv'
  <2>1. UNCHANGED <<drain, delivered, stored, stage, posted, skipped>>
    BY <1>5 DEF Sweep, vars, table, handler, tallies
  <2>2. /\ status[r] # "none" /\ status'[r] = "swept"
        /\ \A q \in Rows \ {r} : status'[q] = status[q]
    BY <1>5 DEF Sweep, ChannelTypeOK
  <2>3. \A v \in Relays, q \in Rows : IsCurrent(v, q)' <=> IsCurrent(v, q)
    BY <2>1 DEF drain, IsCurrent, Before
  <2>4. StageInv'
    BY <2>1 DEF StageInv, drain
  <2>5. LogInv'
    BY <2>1, <2>2, <2>3 DEF LogInv, PassedOver, drain
  <2>6. QED
    BY <2>4, <2>5
<1>6. ASSUME NEW w \in Relays, HandlerStep(w) PROVE StageInv' /\ LogInv'
  <2>1. PICK r \in Rows : HandlerOn(w, r)
    BY <1>6, HandlerIsOn DEF HandlerStep
  <2>2. QED
    BY <2>1, HandlerLog
<1>7. ASSUME NEW w \in Relays, CrashHandling(w) PROVE StageInv' /\ LogInv'
  <2>1. StageInv'
    BY <1>7, CrashGives DEF StageInv, Undisturbed
  <2>2. \A v \in Relays, q \in Rows :
          IsCurrent(v, q)' /\ outcome'[v] = "ok" => PassedOver(q)'
    <3> SUFFICES ASSUME NEW v \in Relays, NEW q \in Rows,
                        IsCurrent(v, q)', outcome'[v] = "ok"
                 PROVE  PassedOver(q)'
      OBVIOUS
    <3>1. Undisturbed(v)
      BY <1>7, CrashGives
    <3>2. IsCurrent(v, q) /\ outcome[v] = "ok"
      BY <3>1, CurrentStays DEF Undisturbed
    <3>3. QED
      BY <1>7, <3>2, CrashGives DEF LogInv, PassedOver
  <2>3. LogInv'
    BY <1>7, <2>2, CrashGives DEF LogInv, PassedOver
  <2>4. QED
    BY <2>1, <2>3
<1>8. ASSUME \/ \E w \in Relays : DrainStep(w) \/ OtherDisruption(w)
             \/ TimeAndRetention
      PROVE  StageInv' /\ LogInv'
  <2>1. UNCHANGED <<messageLog, handler, tallies>>
    BY <1>8 DEF DrainStep, OtherDisruption, TimeAndRetention
  <2>2. Around
    BY <1>8, AroundSteps
  <2>3. QED
    BY <2>1, <2>2, AroundLog
<1>9. QED
  BY <1>2, <1>3, <1>4, <1>5, <1>6, <1>7, <1>8 DEF ChannelNext

LEMMA ChannelInvInit == ChannelInit => ChannelInv
<1> SUFFICES ASSUME ChannelInit PROVE ChannelInv
  OBVIOUS
<1>1. TypeOK /\ AbsentIsNew
  BY TypeInit, AbsentInit DEF ChannelInit
<1>2. ChannelTypeOK
  BY DEF ChannelInit, ChannelTypeOK, Vias, Verdicts
<1>3. DrainShape /\ StageInv /\ LogInv
  BY DEF ChannelInit, Init, DrainShape, HeldIsStored, OneDrain, StageInv, LogInv
<1>4. QED
  BY <1>1, <1>2, <1>3 DEF ChannelInv

LEMMA ChannelInvNext == ChannelInv /\ [ChannelNext]_allVars => ChannelInv'
<1> SUFFICES ASSUME ChannelInv, [ChannelNext]_allVars PROVE ChannelInv'
  OBVIOUS
<1>1. [Next]_vars
  BY ChannelStepIsRelayStep
<1>2. TypeOK' /\ AbsentIsNew' /\ DrainShape'
  BY <1>1, TypeNext, AbsentNext, DrainShapeNext DEF ChannelInv
<1>3. ChannelTypeOK'
  BY ChannelTypeNext DEF ChannelInv
<1>4. StageInv' /\ LogInv'
  BY LogNext
<1>5. QED
  BY <1>2, <1>3, <1>4 DEF ChannelInv

(* The outbox, the message log, the connection and the handlers' own state *)
(* stay well typed, whatever comes between two of their transactions.      *)
THEOREM DeliveryTypesHold == ChannelSpec => []DeliveryTypeOK
<1>1. ChannelInv => DeliveryTypeOK
  BY DEF ChannelInv, DeliveryTypeOK
<1>2. QED
  BY <1>1, ChannelInvInit, ChannelInvNext, PTL DEF ChannelSpec

(* The log row of a message leaves "queued" in a transaction of its own    *)
(* before the handler tells the relay that all is well, and nothing puts   *)
(* it back: whatever crashes, stops or runs twice, an outbox row           *)
(* acknowledged while the log shows its message as waiting was taken by a  *)
(* delivery that had no driver.                                            *)
THEOREM LogComesFirst == ChannelSpec => []LogSettledFirst
<1>1. ChannelInv => LogSettledFirst
  BY DEF ChannelInv, LogInv, PassedOver, LogSettledFirst
<1>2. QED
  BY <1>1, ChannelInvInit, ChannelInvNext, PTL DEF ChannelSpec

------------------------------------------------------------------------------
(* A recipient gets a message once *)

(* What a queued message has cost so far: nothing that is not accounted    *)
(* for, unless a handler is about to write its status.  A handler about to *)
(* call the driver, or that the driver suppressed the message for, adds    *)
(* nothing either.                                                         *)
AddsNothing(w, r) ==
  \/ Sends(w, r, "send")
  \/ Sends(w, r, "write") /\ verdict[w] = "suppressed"

PostLine(r) ==
  /\ posted[r] <= unrecorded[r] + 1
  /\ status[r] = "queued" /\ (\A w \in Relays : ~Sends(w, r, "write"))
       => posted[r] <= unrecorded[r]
  /\ \A w \in Relays : AddsNothing(w, r) => posted[r] <= unrecorded[r]

PostInv == \A r \in Rows : PostLine(r)

(* A row nothing happened to: the same handlers are at it, and it has the  *)
(* same tallies and the same log row, or one that is no longer queued.     *)
LEMMA PostStill ==
  ASSUME NEW r \in Rows, PostLine(r),
         posted'[r] = posted[r], unrecorded'[r] = unrecorded[r],
         status'[r] = "queued" => status[r] = "queued",
         \A w \in Relays, s \in {"send", "write"} :
           /\ Sends(w, r, s)' <=> Sends(w, r, s)
           /\ Sends(w, r, s) => verdict'[w] = verdict[w]
  PROVE  PostLine(r)'
  BY DEF PostLine, AddsNothing

LEMMA AroundPost ==
  ASSUME ChannelInv, PostInv, Around,
         UNCHANGED <<messageLog, handler, tallies>>
  PROVE  PostInv'
<1>1. UNCHANGED <<status, stage, verdict, posted, unrecorded>>
  BY DEF messageLog, handler, tallies
<1>2. ASSUME NEW w \in Relays, NEW r \in Rows, NEW s \in {"send", "write"}
      PROVE  Sends(w, r, s)' <=> Sends(w, r, s)
  <2>1. CASE Undisturbed(w)
    BY <1>1, <2>1, CurrentStays DEF Sends
  <2>2. CASE outcome[w] # "none" \/ left[w] = {}
    BY <1>1, <2>2 DEF ChannelInv, StageInv, Sends
  <2>3. QED
    BY <2>1, <2>2 DEF Around
<1>3. QED
  BY <1>1, <1>2, PostStill DEF PostInv

(* The handler's own transactions.  Nobody else has the row in hand, so    *)
(* whoever posts it next is accounted for.                                 *)
LEMMA HandlerPost ==
  ASSUME ChannelInv, Disjoint, PostInv, NEW w \in Relays, NEW r \in Rows,
         \/ ReadMessage(w, r)
         \/ Send(w, r)
         \/ WriteStatus(w, r)
         \/ MarkConnection(w, r)
         \/ HandlerThrows(w, r)
  PROVE  PostInv'
<1> USE DEF ChannelInv
<1>1. HandlerOn(w, r)
  BY HandlerIsOn
<1>2. \A v \in Relays, q \in Rows : IsCurrent(v, q)' <=> IsCurrent(v, q)
  BY <1>1 DEF HandlerOn, IsCurrent, Before
<1>3. ASSUME NEW q \in Rows, q # r PROVE PostLine(q)'
  <2>1. ~IsCurrent(w, q)
    BY <1>1, <1>3, OneCurrent DEF HandlerOn
  <2>2. ASSUME NEW v \in Relays, NEW s
        PROVE  /\ Sends(v, q, s)' <=> Sends(v, q, s)
               /\ Sends(v, q, s) => verdict'[v] = verdict[v]
    BY <1>1, <1>2, <2>1 DEF Sends, HandlerOn
  <2>3. QED
    BY <1>1, <1>3, <2>2, PostStill DEF HandlerOn, PostInv
<1>4. \A v \in Relays \ {w} : ~IsCurrent(v, r)
  BY <1>1 DEF HandlerOn, IsCurrent, Disjoint
<1>5. posted[r] \in Nat /\ unrecorded[r] \in Nat
  BY DEF ChannelTypeOK
<1>6. PostLine(r)
  BY DEF PostInv
<1>7. IsCurrent(w, r)
  BY <1>1 DEF HandlerOn
<1>8. ASSUME posted'[r] <= unrecorded'[r] + 1,
             status'[r] = "queued" /\ stage'[w] # "write"
               => posted'[r] <= unrecorded'[r],
             stage'[w] = "send" => posted'[r] <= unrecorded'[r],
             stage'[w] = "write" /\ verdict'[w] = "suppressed"
               => posted'[r] <= unrecorded'[r]
      PROVE  PostLine(r)'
  BY <1>2, <1>4, <1>7, <1>8 DEF PostLine, AddsNothing, Sends
<1>9. status[r] = "queued" /\ stage[w] # "write" => posted[r] <= unrecorded[r]
  BY <1>4, <1>6 DEF PostLine, Sends
<1>10. /\ stage[w] = "send" => posted[r] <= unrecorded[r]
       /\ stage[w] = "write" /\ verdict[w] = "suppressed"
            => posted[r] <= unrecorded[r]
  BY <1>6, <1>7 DEF PostLine, AddsNothing, Sends
<1>11. posted[r] <= unrecorded[r] + 1
  BY <1>6 DEF PostLine
<1>12. ASSUME ReadMessage(w, r) PROVE PostLine(r)'
  <2>1. UNCHANGED <<status, posted, unrecorded>> /\ stage[w] = "read"
    BY <1>12 DEF ReadMessage, messageLog, At
  <2>2. stage'[w] # "write" /\ (stage'[w] = "send" => status[r] = "queued")
    BY <1>12 DEF ReadMessage, Return, ToStage, ChannelTypeOK
  <2>3. QED
    BY <1>8, <1>9, <1>11, <2>1, <2>2
<1>13. ASSUME Send(w, r) PROVE PostLine(r)'
  <2>1. PICK v \in Verdicts \ {"none"}, landed \in BOOLEAN :
          /\ v = "suppressed" => ~landed
          /\ ToStage(w, "write", v)
          /\ posted' = [posted EXCEPT ![r] = @ + (IF landed THEN 1 ELSE 0)]
    BY <1>13 DEF Send
  <2>2. stage[w] = "send" /\ UNCHANGED unrecorded
    BY <1>13 DEF Send, At
  <2>3. /\ stage'[w] = "write" /\ verdict'[w] = v
        /\ posted'[r] = posted[r] + (IF landed THEN 1 ELSE 0)
    BY <2>1 DEF ToStage, ChannelTypeOK
  <2>4. posted'[r] <= unrecorded'[r] + 1
    BY <1>5, <1>10, <2>2, <2>3
  <2>5. v = "suppressed" => posted'[r] <= unrecorded'[r]
    BY <1>5, <1>10, <2>1, <2>2, <2>3
  <2>6. QED
    BY <1>8, <2>3, <2>4, <2>5
<1>14. ASSUME WriteStatus(w, r) PROVE PostLine(r)'
  <2>1. UNCHANGED <<posted, unrecorded>> /\ status'[r] # "queued"
    BY <1>14 DEF WriteStatus, RecordVerdict, tallies, ChannelTypeOK, Verdicts
  <2>2. stage'[w] \notin {"send", "write"}
    BY <1>14 DEF WriteStatus, Return, ToStage, ChannelTypeOK
  <2>3. QED
    BY <1>8, <1>11, <2>1, <2>2
<1>15. ASSUME MarkConnection(w, r) PROVE PostLine(r)'
  <2>1. UNCHANGED <<posted, unrecorded, status>> /\ stage[w] = "mark"
    BY <1>15 DEF MarkConnection, tallies, At
  <2>2. stage'[w] = "read"
    BY <1>15, ReturnGives DEF MarkConnection
  <2>3. QED
    BY <1>8, <1>9, <1>11, <2>1, <2>2
<1>16. ASSUME HandlerThrows(w, r) PROVE PostLine(r)'
  <2>1. UNCHANGED <<posted, status>> /\ stage'[w] = "read"
    BY <1>16, ReturnGives DEF HandlerThrows, messageLog
  <2>2. unrecorded'[r] = unrecorded[r] +
          (IF stage[w] = "write" /\ verdict[w] # "suppressed" THEN 1 ELSE 0)
    BY <1>16 DEF HandlerThrows, Forgotten, ChannelTypeOK
  <2>3. unrecorded[r] <= unrecorded'[r]
    BY <1>5, <2>2
  <2>4. status[r] = "queued" => posted[r] <= unrecorded'[r]
    BY <1>5, <1>9, <1>10, <1>11, <2>2
  <2>5. posted[r] <= unrecorded'[r] + 1 /\ unrecorded'[r] \in Nat
    BY <1>5, <1>11, <2>2
  <2>6. QED
    BY <1>8, <2>1, <2>4, <2>5
<1>17. PostLine(r)'
  BY <1>12, <1>13, <1>14, <1>15, <1>16
<1>18. QED
  BY <1>3, <1>17 DEF PostInv

(* A crash forgets at most the one message in flight, and counts it.       *)
LEMMA CrashPost ==
  ASSUME ChannelInv, Disjoint, PostInv, NEW w \in Relays, CrashHandling(w)
  PROVE  PostInv'
<1> USE DEF ChannelInv
<1>1. ASSUME NEW r \in Rows, NEW s \in {"send", "write"}, NEW v \in Relays \ {w}
      PROVE  /\ Sends(v, r, s)' <=> Sends(v, r, s)
             /\ verdict'[v] = verdict[v]
  BY <1>1, CrashGives, CurrentStays DEF Sends
<1>2. \A r \in Rows, s \in {"send", "write"} : ~Sends(w, r, s)'
  BY CrashGives DEF Sends
<1>3. \A r \in Rows : status'[r] = status[r] /\ posted'[r] = posted[r]
  BY CrashGives
<1>4. SUFFICES ASSUME NEW r \in Rows PROVE PostLine(r)'
  BY DEF PostInv
<1>5. posted[r] \in Nat /\ unrecorded[r] \in Nat /\ PostLine(r)
  BY DEF ChannelTypeOK, PostInv
<1>6. CASE IsCurrent(w, r)
  <2>1. Forgotten(w, r)
    BY <1>6, OneCurrent DEF CrashHandling
  <2>2. unrecorded'[r] = unrecorded[r] +
          (IF stage[w] = "write" /\ verdict[w] # "suppressed" THEN 1 ELSE 0)
    BY <2>1 DEF Forgotten, ChannelTypeOK
  <2>3. \A v \in Relays \ {w} : ~IsCurrent(v, r)
    BY <1>6 DEF IsCurrent, Disjoint
  <2>4. \A v \in Relays, s \in {"send", "write"} : ~Sends(v, r, s)'
    BY <1>1, <1>2, <2>3 DEF Sends
  <2>5. status[r] = "queued" => posted[r] <= unrecorded'[r]
    BY <1>5, <1>6, <2>2, <2>3 DEF PostLine, AddsNothing, Sends
  <2>6. posted[r] <= unrecorded'[r] + 1
    BY <1>5, <2>2 DEF PostLine
  <2>7. QED
    BY <1>3, <2>4, <2>5, <2>6 DEF PostLine, AddsNothing
<1>7. CASE ~IsCurrent(w, r)
  <2>1. unrecorded'[r] = unrecorded[r]
    BY <1>7 DEF CrashHandling, Forgotten, ChannelTypeOK
  <2>2. \A v \in Relays, s \in {"send", "write"} :
          /\ Sends(v, r, s)' <=> Sends(v, r, s)
          /\ Sends(v, r, s) => verdict'[v] = verdict[v]
    BY <1>1, <1>2, <1>7 DEF Sends
  <2>3. QED
    BY <1>3, <1>5, <2>1, <2>2, PostStill
<1>8. QED
  BY <1>6, <1>7

LEMMA PostNext ==
  ASSUME ChannelInv, Disjoint, PostInv, [ChannelNext]_allVars
  PROVE  PostInv'
<1>1. ASSUME UNCHANGED <<drain, stage, verdict, posted, unrecorded>>,
             \A r \in Rows : status'[r] = "queued" => status[r] = "queued"
      PROVE  PostInv'
  <2>1. \A v \in Relays, q \in Rows, s \in {"send", "write"} :
          Sends(v, q, s)' <=> Sends(v, q, s)
    BY <1>1 DEF drain, Sends, IsCurrent, Before
  <2>2. QED
    BY <1>1, <2>1, PostStill DEF PostInv
<1>2. CASE UNCHANGED allVars
  BY <1>1, <1>2 DEF allVars, vars, handler, tallies, messageLog
<1>3. CASE Connect \/ Disconnect
  BY <1>1, <1>3 DEF Connect, Disconnect, vars, handler, tallies
<1>4. ASSUME NEW r \in Rows, Queue(r) PROVE PostInv'
  <2>1. UNCHANGED <<drain, stage, verdict, posted, unrecorded>>
    BY <1>4 DEF Queue, Enqueue, handler, tallies
  <2>2. /\ stored[r] = "absent"
        /\ \A q \in Rows \ {r} : status'[q] = status[q]
    BY <1>4 DEF Queue, Enqueue, ChannelInv, ChannelTypeOK
  <2>3. \A v \in Relays, q \in Rows, s \in {"send", "write"} :
          Sends(v, q, s)' <=> Sends(v, q, s)
    BY <2>1 DEF drain, Sends, IsCurrent, Before
  <2>4. posted[r] = 0 /\ unrecorded[r] \in Nat
    BY <2>2 DEF ChannelInv, ChannelTypeOK, LogInv
  <2>5. PostLine(r)'
    BY <2>1, <2>4 DEF PostLine
  <2>6. ASSUME NEW q \in Rows \ {r} PROVE PostLine(q)'
    BY <2>1, <2>2, <2>3, PostStill DEF PostInv
  <2>7. QED
    BY <2>5, <2>6 DEF PostInv
<1>5. ASSUME NEW r \in Rows, Sweep(r) PROVE PostInv'
  <2>1. \A q \in Rows : status'[q] = "queued" => status[q] = "queued"
    BY <1>5 DEF Sweep, ChannelInv, ChannelTypeOK
  <2>2. QED
    BY <1>1, <1>5, <2>1 DEF Sweep, vars, handler, tallies
<1>6. ASSUME NEW w \in Relays, HandlerStep(w) PROVE PostInv'
  BY <1>6, HandlerPost DEF HandlerStep
<1>7. ASSUME NEW w \in Relays, CrashHandling(w) PROVE PostInv'
  BY <1>7, CrashPost
<1>8. ASSUME \/ \E w \in Relays : DrainStep(w) \/ OtherDisruption(w)
             \/ TimeAndRetention
      PROVE  PostInv'
  <2>1. UNCHANGED <<messageLog, handler, tallies>>
    BY <1>8 DEF DrainStep, OtherDisruption, TimeAndRetention
  <2>2. Around
    BY <1>8, AroundSteps DEF ChannelInv
  <2>3. QED
    BY <2>1, <2>2, AroundPost
<1>9. QED
  BY <1>2, <1>3, <1>4, <1>5, <1>6, <1>7, <1>8 DEF ChannelNext

(* "Safe to run twice", for any number of relays, messages and failures:   *)
(* while the lease outlasts a batch, a recipient gets one message more     *)
(* than there were status writes lost after a send, and no other repeat.   *)
THEOREM RecipientsGetItOnce == ChannelSpec => []PostedOnce
<1>1. CASE Sized
  <2>1. ChannelInit => ChannelInv /\ LeaseInv /\ PostInv
    <3> SUFFICES ASSUME ChannelInit PROVE ChannelInv /\ LeaseInv /\ PostInv
      OBVIOUS
    <3>1. LeaseInv
      BY LeaseInit DEF ChannelInit
    <3>2. PostInv
      BY DEF ChannelInit, PostInv, PostLine
    <3>3. QED
      BY <3>1, <3>2, ChannelInvInit
  <2>2. ChannelInv /\ LeaseInv /\ PostInv /\ [ChannelNext]_allVars
          => (ChannelInv /\ LeaseInv /\ PostInv)'
    <3> SUFFICES ASSUME ChannelInv, LeaseInv, PostInv, [ChannelNext]_allVars
                 PROVE  (ChannelInv /\ LeaseInv /\ PostInv)'
      OBVIOUS
    <3>1. ChannelInv'
      BY ChannelInvNext
    <3>2. LeaseInv'
      BY <1>1, ChannelStepIsRelayStep, LeaseNext DEF ChannelInv
    <3>3. PostInv'
      BY PostNext DEF LeaseInv
    <3>4. QED
      BY <3>1, <3>2, <3>3
  <2>3. ChannelInv /\ PostInv => PostedOnce
    <3> SUFFICES ASSUME ChannelInv, PostInv, NEW r \in Rows
                 PROVE  posted[r] <= 1 + unrecorded[r]
      BY DEF PostedOnce
    <3>1. posted[r] \in Nat /\ unrecorded[r] \in Nat
      BY DEF ChannelInv, ChannelTypeOK
    <3>2. posted[r] <= unrecorded[r] + 1
      BY DEF PostInv, PostLine
    <3>3. QED
      BY <3>1, <3>2
  <2>4. QED
    BY <2>1, <2>2, <2>3, PTL DEF ChannelSpec
<1>2. CASE ~Sized
  <2>1. PostedOnce
    BY <1>2 DEF PostedOnce
  <2>2. QED
    BY <2>1, PTL
<1>3. QED
  BY <1>1, <1>2
=============================================================================
