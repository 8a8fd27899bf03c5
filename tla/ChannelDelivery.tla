--------------------------- MODULE ChannelDelivery ---------------------------
(***************************************************************************)
(* The busiest consumer of the outbox: deliverChannelMessage in            *)
(* packages/core/src/outbox/handlers.ts, composed with the relays that     *)
(* call it.  Every outbox row here is a channel.message row, and carries   *)
(* one row of the message log (channel_messages).                          *)
(*                                                                         *)
(* A dispatch of the relay is no longer one step: the handler reads the    *)
(* log row, calls the driver, writes what happened and, when a provider    *)
(* failed, marks the workspace's connection broken, each in a transaction  *)
(* of its own with other relays, administrators and crashes in between.    *)
(***************************************************************************)
EXTENDS OutboxRelay

VARIABLES
  status,      \* channel_messages.status; "swept" once retention deleted it
  via,         \* how it goes: by email, or by the chat provider, to a member
               \* or as a post to a space's channel
  connection,  \* channel_connections.state of the chat provider; "none" while
               \* it has no live row
  stage,       \* how far the handler of each relay's dispatch has come
  verdict,     \* what the driver answered it
  posted,      \* history: messages that reached each recipient
  unrecorded,  \* history: those of them no log row was updated for
  skipped      \* history: messages a delivery passed over without a driver

messageLog == <<status, via, connection>>
handler    == <<stage, verdict>>
tallies    == <<posted, unrecorded, skipped>>
allVars    == <<vars, messageLog, handler, tallies>>

Verdicts == {"none", "sent", "failed", "suppressed"}
Vias     == {"email", "chat", "post"}

ChannelTypeOK ==
  /\ status \in [Rows ->
       {"none", "queued", "sent", "failed", "suppressed", "swept"}]
  /\ via \in [Rows -> Vias]
  /\ connection \in {"connected", "error", "none"}
  /\ stage \in [Relays -> {"read", "send", "write", "mark"}]
  /\ verdict \in [Relays -> Verdicts]
  /\ posted \in [Rows -> Nat]
  /\ unrecorded \in [Rows -> Nat]
  /\ skipped \in SUBSET Rows

(* The outbox under these handlers, and what they keep. *)
DeliveryTypeOK == TypeOK /\ ChannelTypeOK

ChannelInit ==
  /\ Init
  /\ status = [r \in Rows |-> "none"]
  /\ via = [r \in Rows |-> "email"]
  /\ connection = "connected"
  /\ stage = [w \in Relays |-> "read"]
  /\ verdict = [w \in Relays |-> "none"]
  /\ posted = [r \in Rows |-> 0]
  /\ unrecorded = [r \in Rows |-> 0]
  /\ skipped = {}

------------------------------------------------------------------------------
(* The writers' side *)

(* queueChannelMessageInTx: the log row and its outbox row commit at once. *)
(* Routing looks at the connection first; channels.send does not, and the  *)
(* connection may break before the routed row commits.                     *)
Queue(r) ==
  /\ Enqueue(r)
  /\ status' = [status EXCEPT ![r] = "queued"]
  /\ \E v \in Vias : via' = [via EXCEPT ![r] = v]
  /\ UNCHANGED <<connection, handler, tallies>>

(* Mutant: new credentials wait for somebody to verify them. *)
MutConnectUnverified ==
  /\ connection # "connected"
  /\ connection' = "unverified"
  /\ UNCHANGED <<vars, status, via, handler, tallies>>

(* channels.connect: an administrator stores credentials, over a broken    *)
(* connection or as a new row.                                             *)
Connect ==
  /\ connection # "connected"
  /\ connection' = "connected"
  /\ UNCHANGED <<vars, status, via, handler, tallies>>

(* channels.disconnect soft-deletes the row, broken or not. *)
Disconnect ==
  /\ connection # "none"
  /\ connection' = "none"
  /\ UNCHANGED <<vars, status, via, handler, tallies>>

(* sweepMessageLog deletes by age alone, whatever the status. *)
Sweep(r) ==
  /\ status[r] \notin {"none", "swept"}
  /\ status' = [status EXCEPT ![r] = "swept"]
  /\ UNCHANGED <<vars, via, connection, handler, tallies>>

------------------------------------------------------------------------------
(* The handler *)

At(w, r, s) == IsCurrent(w, r) /\ outcome[w] = "none" /\ stage[w] = s

ToStage(w, s, v) ==
  /\ stage' = [stage EXCEPT ![w] = s]
  /\ verdict' = [verdict EXCEPT ![w] = v]

(* The handler returns or throws to the relay. *)
Return(w, r, o, landed) ==
  /\ DispatchEnds(w, r, o, landed)
  /\ ToStage(w, "read", "none")

(* Mutant: a repeat delivery does not look at the status. *)
MutReadWithoutStatus(w, r) ==
  /\ At(w, r, "read")
  /\ status[r] # "swept"
  /\ ToStage(w, "send", "none")
  /\ UNCHANGED <<vars, messageLog, tallies>>

(* The log row is gone: permanent.  It is not queued: somebody delivered   *)
(* it already, so acknowledge.  Otherwise it is for the driver, which      *)
(* every delivery is handed afresh and only when the instance's mail       *)
(* settings could be read, whatever provider the message is for: without   *)
(* one it is acknowledged as it is.                                        *)
ReadMessage(w, r) ==
  /\ At(w, r, "read")
  /\ \/ /\ status[r] = "swept" /\ Return(w, r, "permanent", FALSE)
        /\ UNCHANGED skipped
     \/ /\ status[r] \notin {"swept", "queued"} /\ Return(w, r, "ok", TRUE)
        /\ UNCHANGED skipped
     \/ /\ status[r] = "queued" /\ Return(w, r, "ok", TRUE)
        /\ skipped' = skipped \cup {r}
     \/ /\ status[r] = "queued" /\ ToStage(w, "send", "none")
        /\ UNCHANGED <<vars, skipped>>
  /\ UNCHANGED <<messageLog, posted, unrecorded>>

(* sendChannel opens the connection and calls the driver.  It suppresses   *)
(* when the provider is not connected any more; a driver that throws is a  *)
(* failed send, whether or not the message got through.                    *)
Send(w, r) ==
  /\ At(w, r, "send")
  /\ \E v \in Verdicts \ {"none"}, landed \in BOOLEAN :
       /\ v = "sent" => landed
       /\ v = "suppressed" => ~landed
       /\ via[r] # "email" /\ connection # "connected" => v = "suppressed"
       /\ ToStage(w, "write", v)
       /\ posted' = [posted EXCEPT ![r] = @ + (IF landed THEN 1 ELSE 0)]
  /\ UNCHANGED <<vars, messageLog, unrecorded, skipped>>

(* Mutant: only a message that was sent or failed updates its log row. *)
MutSuppressedStaysQueued(w, r) ==
  status' = [status EXCEPT ![r] =
    IF @ = "swept" \/ verdict[w] = "suppressed" THEN @ ELSE verdict[w]]

(* update channel_messages set status, a row retention deleted excepted *)
RecordVerdict(w, r) ==
  status' = [status EXCEPT ![r] = IF @ = "swept" THEN @ ELSE verdict[w]]

(* The status is written; a failure goes on to the connection when it was  *)
(* a chat message to a member, and is thrown to the relay otherwise: a     *)
(* space whose channel is wrong does not break the connection.             *)
WriteStatus(w, r) ==
  /\ At(w, r, "write")
  /\ RecordVerdict(w, r)
  /\ \/ verdict[w] # "failed" /\ Return(w, r, "ok", TRUE)
     \/ /\ verdict[w] = "failed" /\ via[r] # "chat"
        /\ Return(w, r, "transient", FALSE)
     \/ /\ verdict[w] = "failed" /\ via[r] = "chat"
        /\ ToStage(w, "mark", "failed")
        /\ UNCHANGED vars
  /\ UNCHANGED <<via, connection, tallies>>

(* The live connection is marked broken, whichever credentials failed, and *)
(* the handler throws.                                                     *)
MarkConnection(w, r) ==
  /\ At(w, r, "mark")
  /\ connection' = IF connection = "none" THEN "none" ELSE "error"
  /\ Return(w, r, "transient", FALSE)
  /\ UNCHANGED <<status, via, tallies>>

(* What a message that left and was not written down leaves behind. *)
Forgotten(w, r) ==
  unrecorded' = [unrecorded EXCEPT
    ![r] = @ + (IF stage[w] = "write" /\ verdict[w] # "suppressed"
                  THEN 1 ELSE 0)]

(* Any of the handler's transactions may fail and be thrown to the relay. *)
HandlerThrows(w, r) ==
  /\ IsCurrent(w, r) /\ outcome[w] = "none"
  /\ Forgotten(w, r)
  /\ Return(w, r, "transient", verdict[w] = "sent")
  /\ UNCHANGED <<messageLog, posted, skipped>>

HandlerStep(w) ==
  \E r \in Rows :
    \/ ReadMessage(w, r)
    \/ Send(w, r)
    \/ WriteStatus(w, r)
    \/ MarkConnection(w, r)
    \/ HandlerThrows(w, r)

------------------------------------------------------------------------------
(* The relays around it *)

DrainStep(w) ==
  /\ \/ Rank(w)
     \/ Claim(w)
     \/ Start(w)
     \/ \E r \in Rows : MarkDelivered(w, r) \/ MarkFailed(w, r)
  /\ UNCHANGED <<messageLog, handler, tallies>>

(* A crash takes the handler with it. *)
CrashHandling(w) ==
  /\ Crash(w)
  /\ IF \E r \in Rows : IsCurrent(w, r)
       THEN \E r \in Rows : IsCurrent(w, r) /\ Forgotten(w, r)
       ELSE UNCHANGED unrecorded
  /\ ToStage(w, "read", "none")
  /\ UNCHANGED <<messageLog, posted, skipped>>

OtherDisruption(w) ==
  /\ \/ Stop(w)
     \/ \E r \in Rows, applied \in BOOLEAN :
          MarkDeliveredThrows(w, r, applied) \/ MarkFailedThrows(w, r, applied)
  /\ UNCHANGED <<messageLog, handler, tallies>>

TimeAndRetention ==
  /\ Tick \/ \E r \in Rows : Purge(r)
  /\ UNCHANGED <<messageLog, handler, tallies>>

ChannelNext ==
  \/ \E r \in Rows : Queue(r) \/ Sweep(r)
  \/ Connect
  \/ Disconnect
  \/ \E w \in Relays : \/ HandlerStep(w)
                       \/ DrainStep(w)
                       \/ CrashHandling(w)
                       \/ OtherDisruption(w)
  \/ TimeAndRetention

(* As for the relays: they keep polling, calls return and time passes. *)
ChannelFairness ==
  /\ \A w \in Relays : WF_allVars(HandlerStep(w) \/ DrainStep(w))
  /\ WF_allVars(Tick /\ UNCHANGED <<messageLog, handler, tallies>>)

ChannelSpec == ChannelInit /\ [][ChannelNext]_allVars /\ ChannelFairness

------------------------------------------------------------------------------
(* Properties *)

(* "Safe to run twice": a recipient gets a message twice only when the     *)
(* status write after an earlier send never happened.                      *)
PostedOnce ==
  Sized => \A r \in Rows : posted[r] <= 1 + unrecorded[r]

(* The log is settled before the outbox row is: a message the log still    *)
(* shows as waiting was acknowledged only by a delivery that had no driver *)
(* to hand it to.  Nothing delivers it again, and no crash, lost write or  *)
(* repeat of a delivery leaves a message behind in the same way.           *)
LogSettledFirst ==
  \A r \in Rows :
    stored[r] = "stored" /\ delivered[r] /\ status[r] = "queued"
      => r \in skipped

(* What the handler's comments say of a failure: the relay retries it and, *)
(* at the ceiling, dead-letters it.  So a row is never acknowledged while  *)
(* the log says its message failed.                                        *)
FailureIsRetried ==
  \A r \in Rows :
    stored[r] = "stored" /\ delivered[r] => status[r] # "failed"
=============================================================================
