-------------------------- MODULE ProposalDecisions --------------------------
(***************************************************************************)
(* Deciding what an agent or the copilot proposed: proposals.apply,        *)
(* proposals.dismiss (actions/proposal-decisions.ts), proposals.bulkApply, *)
(* proposals.bulkDismiss (actions/agents.ts) and copilot.applyProposal,    *)
(* dismissProposal and undoProposal (actions/copilot-proposals.ts).        *)
(*                                                                         *)
(* Applying runs the proposed action through callAction, in a transaction  *)
(* of its own that commits before the one that records the decision:       *)
(*   Take...      the reads of load and execute; only proposals.apply      *)
(*                locks the row                                            *)
(*   Perform      the proposed action, committed                           *)
(*   Refuse       the proposed action refused                              *)
(*   Record       the update of the decision, with the commit              *)
(*   Die          the process or its connection is gone: the row lock and  *)
(*                the decision with it, what Perform committed stays       *)
(***************************************************************************)
EXTENDS Integers, FiniteSets

CONSTANTS
  Proposals,   \* rows of proposed_changes
  Copilot,     \* those that belong to a conversation rather than to a run
  Deciders,    \* requests that decide, at most one proposal list each
  Nobody,      \* no request
  MaxDeaths    \* bound on requests and steps that die

ASSUME ProposalConstants ==
  /\ Copilot \subseteq Proposals
  /\ Nobody \notin Deciders
  /\ MaxDeaths \in Nat

VARIABLES
  decision,  \* proposed_changes.status, "none" before the row exists
  undone,    \* proposed_changes.undone_at is not null
  rowLock,   \* the request whose transaction holds the row
  op,        \* per decider: the operation under way
  hand,      \* per decider: the proposals it read as open to it
  ran,       \* per decider: those whose action committed
  left,      \* per decider: those still to be tried
  runs,      \* history: times the proposed action was committed
  reversed,  \* history: times its reverse was committed
  crossed,   \* history: two requests had it in hand at the same time
  lost,      \* history: whoever had performed it died before recording it
  deaths     \* requests and steps that died

rows     == <<decision, undone, rowLock>>
requests == <<op, hand, ran, left>>
decisionVars ==
  <<rows, requests, runs, reversed, crossed, lost, deaths>>

Ops == {"idle", "apply", "bulk", "copilotApply", "copilotDismiss", "undo"}

ProposalTypeOK ==
  /\ decision \in [Proposals -> {"none", "pending", "applied", "dismissed"}]
  /\ undone \in [Proposals -> BOOLEAN]
  /\ rowLock \in [Proposals -> Deciders \cup {Nobody}]
  /\ op \in [Deciders -> Ops]
  /\ hand \in [Deciders -> SUBSET Proposals]
  /\ ran \in [Deciders -> SUBSET Proposals]
  /\ left \in [Deciders -> SUBSET Proposals]
  /\ runs \in [Proposals -> Nat]
  /\ reversed \in [Proposals -> Nat]
  /\ crossed \subseteq Proposals
  /\ lost \subseteq Proposals
  /\ deaths \in Nat

DecisionInit ==
  /\ decision = [p \in Proposals |-> "none"]
  /\ undone = [p \in Proposals |-> FALSE]
  /\ rowLock = [p \in Proposals |-> Nobody]
  /\ op = [d \in Deciders |-> "idle"]
  /\ hand = [d \in Deciders |-> {}]
  /\ ran = [d \in Deciders |-> {}]
  /\ left = [d \in Deciders |-> {}]
  /\ runs = [p \in Proposals |-> 0]
  /\ reversed = [p \in Proposals |-> 0]
  /\ crossed = {}
  /\ lost = {}
  /\ deaths = 0

Pending == {p \in Proposals : decision[p] = "pending"}

(* Whoever has p in hand without holding its row. *)
InHand(p) == \E d \in Deciders : p \in hand[d] /\ op[d] # "apply"

Unlocked(d, S) == \A p \in S : rowLock[p] \in {Nobody, d}

(* copilot.recordProposal: a proposal made in a conversation.  An agent's  *)
(* come with the runs that make them.                                      *)
RecordProposal(p) ==
  /\ p \in Copilot /\ decision[p] = "none"
  /\ decision' = [decision EXCEPT ![p] = "pending"]
  /\ UNCHANGED <<undone, rowLock, requests, runs, reversed, crossed, lost,
                 deaths>>

------------------------------------------------------------------------------
(* Reading what is to be decided *)

(* A dismissal has no action to perform before it is recorded. *)
Take(d, o, S) ==
  /\ op[d] = "idle"
  /\ op' = [op EXCEPT ![d] = o]
  /\ hand' = [hand EXCEPT ![d] = S]
  /\ left' = [left EXCEPT ![d] = IF o = "copilotDismiss" THEN {} ELSE S]
  /\ ran' = [ran EXCEPT ![d] = IF o = "copilotDismiss" THEN S ELSE {}]
  /\ crossed' = crossed \cup {p \in S : InHand(p) \/
       (o # "apply" /\ \E e \in Deciders : p \in hand[e])}
  /\ UNCHANGED <<decision, undone, runs, reversed, lost, deaths>>

(* Mutant: the row is read without the lock, as the two others read it. *)
MutTakeUnlocked(d, p) ==
  /\ p \in Pending \ Copilot
  /\ Take(d, "apply", {p})
  /\ rowLock' = rowLock

(* decidable: an agent's proposal, for no key update, and still pending. *)
TakeToApply(d, p) ==
  /\ p \in Pending \ Copilot
  /\ rowLock[p] = Nobody
  /\ Take(d, "apply", {p})
  /\ rowLock' = [rowLock EXCEPT ![p] = d]

(* The load of proposals.bulkApply: no lock, and copilot proposals too. *)
TakeBulk(d, S) ==
  /\ S # {} /\ S \subseteq Pending
  /\ Take(d, "bulk", S)
  /\ UNCHANGED rowLock

(* ownProposal reads without a lock, for all three copilot operations. *)
TakeFromConversation(d, p) ==
  /\ p \in Copilot
  /\ \/ p \in Pending /\ Take(d, "copilotApply", {p})
     \/ p \in Pending /\ Take(d, "copilotDismiss", {p})
     \/ decision[p] = "applied" /\ ~undone[p] /\ Take(d, "undo", {p})
  /\ UNCHANGED rowLock

------------------------------------------------------------------------------
(* The proposed action, on a connection of its own *)

Perform(d) ==
  /\ \E p \in left[d] :
       /\ left' = [left EXCEPT ![d] = @ \ {p}]
       /\ ran' = [ran EXCEPT ![d] = @ \cup {p}]
       /\ IF op[d] = "undo"
            THEN /\ reversed' = [reversed EXCEPT ![p] = @ + 1]
                 /\ UNCHANGED runs
            ELSE /\ runs' = [runs EXCEPT ![p] = @ + 1]
                 /\ UNCHANGED reversed
  /\ UNCHANGED <<rows, op, hand, crossed, lost, deaths>>

Rest(d) ==
  /\ op' = [op EXCEPT ![d] = "idle"]
  /\ hand' = [hand EXCEPT ![d] = {}]
  /\ ran' = [ran EXCEPT ![d] = {}]
  /\ left' = [left EXCEPT ![d] = {}]
  /\ rowLock' = [p \in Proposals |-> IF rowLock[p] = d THEN Nobody
                                                     ELSE rowLock[p]]

(* A refusal rolls the decision back; bulkApply notes it and goes on. *)
Refuse(d) ==
  /\ \E p \in left[d] :
       IF op[d] = "bulk"
         THEN /\ left' = [left EXCEPT ![d] = @ \ {p}]
              /\ UNCHANGED <<op, hand, ran, rowLock>>
         ELSE Rest(d)
  /\ UNCHANGED <<decision, undone, runs, reversed, crossed, lost, deaths>>

------------------------------------------------------------------------------
(* Recording the decision *)

Outcome(o) == IF o = "copilotDismiss" THEN "dismissed" ELSE "applied"

(* Mutant: every proposal that was named is marked, the refused ones too. *)
MutRecordAll(d) ==
  /\ op[d] # "idle" /\ left[d] = {}
  /\ Unlocked(d, hand[d])
  /\ IF op[d] = "undo"
       THEN /\ undone' = [p \in Proposals |-> undone[p] \/ p \in ran[d]]
            /\ UNCHANGED decision
       ELSE /\ decision' = [p \in Proposals |->
                 IF p \in hand[d] THEN Outcome(op[d]) ELSE decision[p]]
            /\ UNCHANGED undone
  /\ Rest(d)
  /\ UNCHANGED <<runs, reversed, crossed, lost, deaths>>

(* Every update is by id, with no word about the status it replaces. *)
Record(d) ==
  /\ op[d] # "idle" /\ left[d] = {}
  /\ Unlocked(d, ran[d])
  /\ IF op[d] = "undo"
       THEN /\ undone' = [p \in Proposals |-> undone[p] \/ p \in ran[d]]
            /\ UNCHANGED decision
       ELSE /\ decision' = [p \in Proposals |->
                 IF p \in ran[d] THEN Outcome(op[d]) ELSE decision[p]]
            /\ UNCHANGED undone
  /\ Rest(d)
  /\ UNCHANGED <<runs, reversed, crossed, lost, deaths>>

(* Mutant: a proposal decided already is decided again. *)
MutDismissAnything(S) ==
  /\ S # {} /\ \A p \in S : decision[p] # "none"
  /\ \A p \in S : rowLock[p] = Nobody
  /\ decision' = [p \in Proposals |->
       IF p \in S THEN "dismissed" ELSE decision[p]]
  /\ crossed' = crossed \cup {p \in S : InHand(p)}
  /\ UNCHANGED <<undone, rowLock, requests, runs, reversed, lost, deaths>>

(* proposals.dismiss under its lock, and proposals.bulkDismiss, whose one  *)
(* update waits for the rows and dismisses those still pending.            *)
Dismiss(S) ==
  /\ S # {} /\ S \subseteq Pending
  /\ \A p \in S : rowLock[p] = Nobody
  /\ decision' = [p \in Proposals |->
       IF p \in S THEN "dismissed" ELSE decision[p]]
  /\ crossed' = crossed \cup {p \in S : InHand(p)}
  /\ UNCHANGED <<undone, rowLock, requests, runs, reversed, lost, deaths>>

Die(d) ==
  /\ op[d] # "idle" /\ deaths < MaxDeaths
  /\ Rest(d)
  /\ lost' = lost \cup (IF op[d] = "copilotDismiss" THEN {} ELSE ran[d])
  /\ deaths' = deaths + 1
  /\ UNCHANGED <<decision, undone, runs, reversed, crossed>>

Decide(d) ==
  \/ \E p \in Proposals : TakeToApply(d, p) \/ TakeFromConversation(d, p)
  \/ \E S \in SUBSET Proposals : TakeBulk(d, S)
  \/ Perform(d)
  \/ Refuse(d)
  \/ Record(d)
  \/ Die(d)

DecisionNext ==
  \/ \E p \in Proposals : RecordProposal(p)
  \/ \E d \in Deciders : Decide(d)
  \/ \E S \in SUBSET Proposals : Dismiss(S)

------------------------------------------------------------------------------
(* Properties *)

Excused == crossed \cup lost

(* The reason for the lock in decidable, "what makes a double click one    *)
(* decision": a proposed action is performed once.  Again only when a      *)
(* reader without the lock had the proposal in hand at the same time, or   *)
(* whoever performed it died before recording it.                          *)
AppliedOnce ==
  \A p \in Proposals :
    /\ runs[p] > 1 => p \in Excused
    /\ reversed[p] > 1 => p \in Excused

(* A dismissed proposal changed nothing and an applied one did what it     *)
(* proposed: the record and the effect agree although two transactions     *)
(* write them.  In a bulk, what failed is not recorded as applied.         *)
RecordMatchesEffect ==
  \A p \in Proposals :
    /\ decision[p] = "applied" => runs[p] > 0
    /\ decision[p] = "dismissed" /\ runs[p] > 0 => p \in Excused

(* Decided is decided: a proposal goes back to no earlier state, and from  *)
(* dismissed to applied or back only under two crossing requests.          *)
DecisionStands ==
  [][\A p \in Proposals :
       decision[p] \in {"applied", "dismissed"} /\ decision'[p] # decision[p]
         => decision'[p] \in {"applied", "dismissed"} /\ p \in crossed']_decision
=============================================================================
