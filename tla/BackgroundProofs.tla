--------------------------- MODULE BackgroundProofs ---------------------------
(***************************************************************************)
(* Proofs about what goes on behind the operations: the runs of agents and *)
(* the decisions on their proposals (AgentRuns, ProposalDecisions), the    *)
(* cap on concurrent calls (Admission) and the connections these share     *)
(* (ConnectionPool), the batches of a member's notifications               *)
(* (NotificationBatches) and the runners of the data changes               *)
(* (DataChanges), for every number of runs, tasks, relays, deciders,       *)
(* calls, connections, notifications, batches, scripts, rows and runners.  *)
(***************************************************************************)
EXTENDS MCBackground, AuditChainProofs

------------------------------------------------------------------------------
(* A step meets the run it was queued for, and no running run is left      *)
(* without its next row.                                                   *)

(* Nobody decides what is not there. *)
DecidedOnly ==
  \A d \in Deciders : \A p \in hand[d] \cup ran[d] \cup left[d] :
    decision[p] # "none"

(* A task at or after the index has left nothing behind, but for the line  *)
(* of a step that ended its run.                                           *)
FreshTasks ==
  \A r \in Runs, i \in Indices : i >= index[r] =>
    /\ log[r][i] = "none" \/ status[r] \in Ended
    /\ decision[<<r, i>>] = "none"

(* No row is ahead of its run. *)
RowsInTurn ==
  \A r \in Runs :
    /\ \A i \in queued[r] : i <= index[r] /\ status[r] # "none"
    /\ status[r] = "none" => index[r] = 0

Holds(w, r) == phase[w] \in {"loaded", "performed"} /\ job[w][1] = r

Locks == \A r \in Runs, w \in Workers : runLock[r] = w <=> Holds(w, r)

(* What each phase of a step knows of its run. *)
StepsKnow ==
  \A w \in Workers :
    /\ phase[w] \in {"loaded", "performed"} => Current(job[w][1], job[w][2])
    /\ phase[w] = "performed" => kind[w] \in Kinds
    /\ phase[w] # "idle" =>
         job[w][2] <= index[job[w][1]] /\ status[job[w][1]] # "none"
    /\ phase[w] = "done" =>
         status[job[w][1]] # "running" \/ job[w][2] < index[job[w][1]]

AgentInv ==
  /\ ProposalTypeOK /\ RunTypeOK
  /\ DecidedOnly /\ FreshTasks /\ RowsInTurn /\ Locks /\ StepsKnow
  /\ NeverStranded

LEMMA Tasks ==
  /\ Length \in Nat \ {0}
  /\ \A i \in Indices : i \in Int /\ 0 <= i /\ i < Length
  /\ 0 \in Indices
  /\ \A r \in Runs, i \in Indices : <<r, i>> \in Proposals \ Copilot
  /\ NoJob \in Runs \X Indices
BY RunConstants DEF Indices, NoJob

LEMMA Jobs ==
  ASSUME RunTypeOK, NEW w \in Workers
  PROVE  /\ job[w][1] \in Runs /\ job[w][2] \in Indices
         /\ job[w] = <<job[w][1], job[w][2]>>
BY DEF RunTypeOK

LEMMA AgentInitInv == RunInit => AgentInv
<1> SUFFICES ASSUME RunInit PROVE AgentInv
  OBVIOUS
<1> USE DEF RunInit, DecisionInit
<1>1. ProposalTypeOK
  BY DEF ProposalTypeOK, Ops
<1>2. RunTypeOK
  BY Tasks DEF RunTypeOK, Phases, Modes, Unseen, Kinds, Ended
<1>3. DecidedOnly /\ FreshTasks /\ RowsInTurn
  BY Tasks DEF DecidedOnly, FreshTasks, RowsInTurn
<1>4. Locks /\ StepsKnow
  BY RunConstants DEF Locks, StepsKnow, Holds
<1>5. NeverStranded
  BY DEF NeverStranded
<1>6. QED
  BY <1>1, <1>2, <1>3, <1>4, <1>5 DEF AgentInv

------------------------------------------------------------------------------
(* Decisions *)

(* What a decision may do to the table: no row disappears, and one that    *)
(* appears belongs to a conversation.                                      *)
RowsStand ==
  \A p \in Proposals :
    /\ decision'[p] = "none" => decision[p] = "none"
    /\ decision[p] = "none" => decision'[p] = "none" \/ p \in Copilot

LEMMA RestTypes ==
  ASSUME ProposalTypeOK, NEW d \in Deciders, Rest(d)
  PROVE  /\ op' \in [Deciders -> Ops]
         /\ hand' \in [Deciders -> SUBSET Proposals]
         /\ ran' \in [Deciders -> SUBSET Proposals]
         /\ left' \in [Deciders -> SUBSET Proposals]
         /\ rowLock' \in [Proposals -> Deciders \cup {Nobody}]
BY DEF ProposalTypeOK, Rest, Ops

LEMMA TakeKeeps ==
  ASSUME ProposalTypeOK, DecidedOnly, NEW d \in Deciders, NEW o \in Ops,
         NEW S \in SUBSET Proposals, Take(d, o, S),
         \A p \in S : decision[p] # "none",
         rowLock' \in [Proposals -> Deciders \cup {Nobody}]
  PROVE  ProposalTypeOK' /\ DecidedOnly' /\ RowsStand
<1>1. ProposalTypeOK'
  BY DEF ProposalTypeOK, Take
<1>2. DecidedOnly'
  BY DEF DecidedOnly, Take, ProposalTypeOK
<1>3. QED
  BY <1>1, <1>2 DEF RowsStand, Take

LEMMA RecordKeeps ==
  ASSUME ProposalTypeOK, DecidedOnly, NEW d \in Deciders, Record(d)
  PROVE  ProposalTypeOK' /\ DecidedOnly' /\ RowsStand
<1>1. \A o \in Ops : Outcome(o) \in {"applied", "dismissed"}
  BY DEF Outcome
<1>2. decision' \in [Proposals -> {"none", "pending", "applied", "dismissed"}]
  BY <1>1 DEF Record, ProposalTypeOK
<1>3. undone' \in [Proposals -> BOOLEAN]
  BY DEF Record, ProposalTypeOK
<1>4. ProposalTypeOK'
  BY <1>2, <1>3, RestTypes DEF Record, ProposalTypeOK
<1>5. RowsStand
  BY <1>1 DEF RowsStand, Record, DecidedOnly, ProposalTypeOK
<1>6. DecidedOnly'
  BY <1>5 DEF DecidedOnly, Record, Rest, ProposalTypeOK, RowsStand
<1>7. QED
  BY <1>4, <1>5, <1>6

LEMMA DecisionKeeps ==
  ASSUME ProposalTypeOK, DecidedOnly, DecisionNext
  PROVE  ProposalTypeOK' /\ DecidedOnly' /\ RowsStand
<1>0. \A p \in Pending : p \in Proposals /\ decision[p] # "none"
  BY DEF Pending
<1>1. ASSUME NEW d \in Deciders, NEW p \in Proposals, TakeToApply(d, p)
      PROVE  ProposalTypeOK' /\ DecidedOnly' /\ RowsStand
  <2>1. rowLock' \in [Proposals -> Deciders \cup {Nobody}]
    BY <1>1 DEF TakeToApply, ProposalTypeOK
  <2>2. Take(d, "apply", {p}) /\ decision[p] # "none"
    BY <1>0, <1>1 DEF TakeToApply
  <2>3. QED
    BY <2>1, <2>2, TakeKeeps DEF Ops
<1>2. ASSUME NEW d \in Deciders, NEW p \in Proposals, TakeFromConversation(d, p)
      PROVE  ProposalTypeOK' /\ DecidedOnly' /\ RowsStand
  <2>1. rowLock' \in [Proposals -> Deciders \cup {Nobody}]
    BY <1>2 DEF TakeFromConversation, ProposalTypeOK
  <2>2. PICK o \in {"copilotApply", "copilotDismiss", "undo"} :
          Take(d, o, {p}) /\ decision[p] # "none"
    BY <1>0, <1>2 DEF TakeFromConversation
  <2>3. QED
    BY <2>1, <2>2, TakeKeeps DEF Ops
<1>3. ASSUME NEW d \in Deciders, NEW S \in SUBSET Proposals, TakeBulk(d, S)
      PROVE  ProposalTypeOK' /\ DecidedOnly' /\ RowsStand
  <2>1. rowLock' \in [Proposals -> Deciders \cup {Nobody}]
    BY <1>3 DEF TakeBulk, ProposalTypeOK
  <2>2. QED
    BY <1>0, <1>3, <2>1, TakeKeeps DEF Ops, TakeBulk
<1>4. ASSUME NEW d \in Deciders, Perform(d)
      PROVE  ProposalTypeOK' /\ DecidedOnly' /\ RowsStand
  <2>1. PICK p \in left[d] :
          /\ left' = [left EXCEPT ![d] = @ \ {p}]
          /\ ran' = [ran EXCEPT ![d] = @ \cup {p}]
          /\ IF op[d] = "undo"
               THEN /\ reversed' = [reversed EXCEPT ![p] = @ + 1]
                    /\ UNCHANGED runs
               ELSE /\ runs' = [runs EXCEPT ![p] = @ + 1]
                    /\ UNCHANGED reversed
    BY <1>4 DEF Perform
  <2>2. UNCHANGED <<rows, op, hand, crossed, lost, deaths>>
    BY <1>4 DEF Perform
  <2>3. runs' \in [Proposals -> Nat] /\ reversed' \in [Proposals -> Nat]
    BY <2>1 DEF ProposalTypeOK
  <2>4. ProposalTypeOK'
    BY <2>1, <2>2, <2>3 DEF ProposalTypeOK, rows
  <2>5. DecidedOnly'
    BY <2>1, <2>2 DEF DecidedOnly, ProposalTypeOK, rows
  <2>6. QED
    BY <2>2, <2>4, <2>5 DEF RowsStand, rows
<1>5. ASSUME NEW d \in Deciders, Refuse(d)
      PROVE  ProposalTypeOK' /\ DecidedOnly' /\ RowsStand
  <2>1. UNCHANGED <<decision, undone, runs, reversed, crossed, lost, deaths>>
    BY <1>5 DEF Refuse
  <2>2. CASE Rest(d)
    <3>1. ProposalTypeOK'
      BY <2>1, <2>2, RestTypes DEF ProposalTypeOK
    <3>2. DecidedOnly'
      BY <2>1, <2>2 DEF DecidedOnly, Rest, ProposalTypeOK
    <3>3. QED
      BY <2>1, <3>1, <3>2 DEF RowsStand
  <2>3. CASE \E p \in left[d] : /\ left' = [left EXCEPT ![d] = @ \ {p}]
                                /\ UNCHANGED <<op, hand, ran, rowLock>>
    BY <2>1, <2>3 DEF ProposalTypeOK, DecidedOnly, RowsStand
  <2>4. QED
    BY <1>5, <2>2, <2>3 DEF Refuse
<1>6. ASSUME NEW d \in Deciders, Record(d)
      PROVE  ProposalTypeOK' /\ DecidedOnly' /\ RowsStand
  BY <1>6, RecordKeeps
<1>7. ASSUME NEW d \in Deciders, Die(d)
      PROVE  ProposalTypeOK' /\ DecidedOnly' /\ RowsStand
  <2>1. lost' \subseteq Proposals /\ deaths' \in Nat
    BY <1>7 DEF Die, ProposalTypeOK
  <2>2. ProposalTypeOK'
    BY <1>7, <2>1, RestTypes DEF Die, ProposalTypeOK
  <2>3. DecidedOnly'
    BY <1>7 DEF Die, Rest, DecidedOnly, ProposalTypeOK
  <2>4. QED
    BY <1>7, <2>2, <2>3 DEF Die, RowsStand
<1>8. ASSUME NEW S \in SUBSET Proposals, Dismiss(S)
      PROVE  ProposalTypeOK' /\ DecidedOnly' /\ RowsStand
  <2>1. ProposalTypeOK'
    BY <1>8 DEF Dismiss, ProposalTypeOK, requests
  <2>2. RowsStand
    BY <1>0, <1>8 DEF Dismiss, RowsStand, ProposalTypeOK
  <2>3. DecidedOnly'
    BY <1>8, <2>2 DEF Dismiss, DecidedOnly, RowsStand, ProposalTypeOK, requests
  <2>4. QED
    BY <2>1, <2>2, <2>3
<1>9. ASSUME NEW p \in Proposals, RecordProposal(p)
      PROVE  ProposalTypeOK' /\ DecidedOnly' /\ RowsStand
  <2>1. ProposalTypeOK'
    BY <1>9 DEF RecordProposal, ProposalTypeOK, requests
  <2>2. RowsStand
    BY <1>9 DEF RecordProposal, RowsStand, ProposalTypeOK
  <2>3. DecidedOnly'
    BY <1>9, <2>2 DEF RecordProposal, DecidedOnly, RowsStand, ProposalTypeOK,
                      requests
  <2>4. QED
    BY <2>1, <2>2, <2>3
<1>10. QED
  BY <1>1, <1>2, <1>3, <1>4, <1>5, <1>6, <1>7, <1>8, <1>9
     DEF DecisionNext, Decide

(* A decision leaves the runs as they are. *)
LEMMA DecideInv ==
  ASSUME AgentInv, DecisionNext, UNCHANGED <<runRows, agent, cancelling, workers>>
  PROVE  AgentInv'
<1> USE DEF AgentInv
<1>1. ProposalTypeOK' /\ DecidedOnly' /\ RowsStand
  BY DecisionKeeps
<1>2. RunTypeOK'
  BY DEF RunTypeOK, runRows, agent, workers
<1>3. FreshTasks'
  BY <1>1, Tasks DEF FreshTasks, RowsStand, runRows
<1>4. RowsInTurn' /\ Locks' /\ StepsKnow' /\ NeverStranded'
  BY DEF RowsInTurn, Locks, Holds, StepsKnow, Current, NeverStranded, runRows, workers
<1>5. QED
  BY <1>1, <1>2, <1>3, <1>4

------------------------------------------------------------------------------
(* People and the run *)

LEMMA StartRunInv ==
  ASSUME AgentInv, NEW r \in Runs, StartRun(r)
  PROVE  AgentInv'
<1> USE DEF AgentInv
<1>0. /\ status[r] = "none"
      /\ status' = [status EXCEPT ![r] = "running"]
      /\ queued' = [queued EXCEPT ![r] = {0}]
      /\ UNCHANGED <<decisionVars, index, log, runLock, dead, agent, cancelling,
                     workers>>
  BY DEF StartRun
<1>1. index[r] = 0
  BY <1>0 DEF RowsInTurn
<1>2. ProposalTypeOK' /\ DecidedOnly' /\ FreshTasks'
  <2>1. FreshTasks'
    BY <1>0 DEF FreshTasks, RunTypeOK, Ended, decisionVars, rows
  <2>2. QED
    BY <1>0, <2>1 DEF ProposalTypeOK, DecidedOnly, decisionVars, rows, requests
<1>3. RunTypeOK'
  BY <1>0, Tasks DEF RunTypeOK, agent, workers
<1>4. RowsInTurn' /\ NeverStranded'
  BY <1>0, <1>1 DEF RowsInTurn, NeverStranded, RunTypeOK
<1>5. Locks'
  BY <1>0 DEF Locks, Holds, workers
<1>6. StepsKnow'
  BY <1>0, Jobs DEF StepsKnow, Current, workers, RunTypeOK
<1>7. QED
  BY <1>2, <1>3, <1>4, <1>5, <1>6

(* Turning the agent off, changing its mode, and a cancel that only reads  *)
(* or comes to nothing.                                                    *)
LEMMA QuietInv ==
  ASSUME AgentInv, UNCHANGED <<decisionVars, runRows, workers>>,
         enabled' \in BOOLEAN, autonomy' \in Modes, cancelling' \subseteq Runs
  PROVE  AgentInv'
<1> USE DEF AgentInv
<1>1. ProposalTypeOK' /\ DecidedOnly' /\ FreshTasks'
  BY DEF ProposalTypeOK, DecidedOnly, FreshTasks, decisionVars, rows, requests,
         runRows
<1>2. RunTypeOK'
  BY DEF RunTypeOK, runRows, workers
<1>3. RowsInTurn' /\ Locks' /\ StepsKnow' /\ NeverStranded'
  BY DEF RowsInTurn, Locks, Holds, StepsKnow, Current, NeverStranded, runRows, workers
<1>4. QED
  BY <1>1, <1>2, <1>3

LEMMA CancelInv ==
  ASSUME AgentInv, NEW r \in Runs, Cancel(r)
  PROVE  AgentInv'
<1> USE DEF AgentInv
<1>0. /\ r \in cancelling /\ runLock[r] = Nobody
      /\ cancelling' = cancelling \ {r}
      /\ status' = [status EXCEPT ![r] = "cancelled"]
      /\ UNCHANGED <<decisionVars, index, log, runLock, queued, dead, agent,
                     workers>>
  BY DEF Cancel
<1>1. \A w \in Workers : ~Holds(w, r)
  BY <1>0, RunConstants DEF Locks
<1>2. ProposalTypeOK' /\ DecidedOnly' /\ FreshTasks'
  <2>1. FreshTasks'
    BY <1>0 DEF FreshTasks, RunTypeOK, Ended, decisionVars, rows
  <2>2. QED
    BY <1>0, <2>1 DEF ProposalTypeOK, DecidedOnly, decisionVars, rows, requests
<1>3. RunTypeOK'
  BY <1>0 DEF RunTypeOK, agent, workers, Ended
<1>4. RowsInTurn' /\ NeverStranded'
  BY <1>0 DEF RowsInTurn, NeverStranded, RunTypeOK
<1>5. Locks'
  BY <1>0 DEF Locks, Holds, workers
<1>6. StepsKnow'
  BY <1>0, <1>1, Jobs DEF StepsKnow, Current, Holds, workers, RunTypeOK
<1>7. QED
  BY <1>2, <1>3, <1>4, <1>5, <1>6

------------------------------------------------------------------------------
(* A step *)

LEMMA PeekInv ==
  ASSUME AgentInv, NEW w \in Workers, NEW r \in Runs, NEW i \in Indices,
         Peek(w, r, i)
  PROVE  AgentInv'
<1> USE DEF AgentInv
<1>0. /\ phase[w] = "idle" /\ i \in queued[r]
      /\ job' = [job EXCEPT ![w] = <<r, i>>]
      /\ phase' = [phase EXCEPT ![w] =
           IF Current(r, i) THEN "peeked" ELSE "done"]
      /\ UNCHANGED <<decisionVars, runRows, agent, cancelling, seen, kind>>
  BY DEF Peek
<1>1. i <= index[r] /\ status[r] # "none"
  BY <1>0 DEF RowsInTurn
<1>2. ProposalTypeOK' /\ DecidedOnly' /\ FreshTasks' /\ RowsInTurn'
        /\ NeverStranded'
  BY <1>0 DEF ProposalTypeOK, DecidedOnly, FreshTasks, RowsInTurn, NeverStranded,
              decisionVars, rows, requests, runRows
<1>3. RunTypeOK'
  BY <1>0 DEF RunTypeOK, runRows, agent, Phases
<1>4. /\ \A v \in Workers : v # w => phase'[v] = phase[v] /\ job'[v] = job[v]
      /\ phase'[w] \in {"peeked", "done"}
      /\ phase'[w] = "done" => ~Current(r, i)
      /\ job'[w][1] = r /\ job'[w][2] = i
  BY <1>0 DEF RunTypeOK
<1>5. Locks'
  BY <1>0, <1>4 DEF Locks, Holds, runRows
<1>6. StepsKnow'
  <2>1. i \in Int /\ index[r] \in Int
    BY Tasks DEF RunTypeOK
  <2>2. phase'[w] = "done" => status[r] # "running" \/ i < index[r]
    BY <1>1, <1>4, <2>1 DEF Current
  <2>3. QED
    BY <1>0, <1>1, <1>4, <2>2 DEF StepsKnow, Current, runRows
<1>7. QED
  BY <1>2, <1>3, <1>5, <1>6

LEMMA LoadInv ==
  ASSUME AgentInv, NEW w \in Workers, Load(w)
  PROVE  AgentInv'
<1> USE DEF AgentInv
<1> DEFINE r == job[w][1]
<1> DEFINE i == job[w][2]
<1>0. /\ phase[w] = "peeked" /\ runLock[r] = Nobody
      /\ UNCHANGED <<decisionVars, status, index, log, queued, dead, agent,
                     cancelling, job, kind>>
  BY DEF Load, RunOf
<1>1. ProposalTypeOK' /\ DecidedOnly' /\ FreshTasks' /\ RowsInTurn'
        /\ NeverStranded'
  BY <1>0 DEF ProposalTypeOK, DecidedOnly, FreshTasks, RowsInTurn, NeverStranded,
              decisionVars, rows, requests
<1>2. CASE Current(r, i)
  <2>0. /\ phase' = [phase EXCEPT ![w] = "loaded"]
        /\ runLock' = [runLock EXCEPT ![r] = w]
        /\ seen' = [seen EXCEPT ![w] = [enabled |-> enabled, autonomy |-> autonomy]]
    BY <1>2 DEF Load, RunOf, TaskOf
  <2>1. RunTypeOK'
    BY <1>0, <2>0, Jobs DEF RunTypeOK, agent, Phases
  <2>2. \A v \in Workers : v # w => phase'[v] = phase[v]
    BY <2>0 DEF RunTypeOK
  <2>3. phase'[w] = "loaded"
    BY <2>0 DEF RunTypeOK
  <2>4. Locks'
    BY <1>0, <2>0, <2>2, <2>3, Jobs, RunConstants DEF Locks, Holds, RunTypeOK
  <2>5. StepsKnow'
    BY <1>0, <1>2, <2>2, <2>3 DEF StepsKnow, Current
  <2>6. QED
    BY <1>1, <2>1, <2>4, <2>5
<1>3. CASE ~Current(r, i)
  <2>0. /\ phase' = [phase EXCEPT ![w] = "done"]
        /\ UNCHANGED <<runLock, seen>>
    BY <1>3 DEF Load, RunOf, TaskOf
  <2>1. RunTypeOK'
    BY <1>0, <2>0 DEF RunTypeOK, agent, Phases
  <2>2. /\ \A v \in Workers : v # w => phase'[v] = phase[v]
        /\ phase'[w] = "done"
    BY <2>0 DEF RunTypeOK
  <2>3. Locks'
    BY <1>0, <2>0, <2>2 DEF Locks, Holds
  <2>4. StepsKnow'
    <3>1. i \in Int /\ index[r] \in Int /\ i <= index[r]
      BY <1>0, Tasks, Jobs DEF RunTypeOK, StepsKnow
    <3>2. status[r] # "running" \/ i < index[r]
      BY <1>3, <3>1 DEF Current
    <3>3. QED
      BY <1>0, <2>2, <3>2 DEF StepsKnow, Current
  <2>5. QED
    BY <1>1, <2>1, <2>3, <2>4
<1>4. QED
  BY <1>2, <1>3

(* Nobody else is past load in a run whose row is held. *)
LEMMA NobodyElse ==
  ASSUME RunTypeOK, Locks, NEW w \in Workers,
         phase[w] \in {"loaded", "performed"}, NEW v \in Workers, v # w
  PROVE  ~Holds(v, job[w][1])
BY Jobs DEF Locks, Holds

LEMMA HaltInv ==
  ASSUME AgentInv, NEW w \in Workers, Halt(w)
  PROVE  AgentInv'
<1> USE DEF AgentInv
<1> DEFINE r == job[w][1]
<1>0. /\ phase[w] = "loaded" /\ r \in Runs
      /\ runLock' = [runLock EXCEPT ![r] = Nobody]
      /\ phase' = [phase EXCEPT ![w] = "done"]
      /\ seen' = [seen EXCEPT ![w] = Unseen]
      /\ UNCHANGED <<decisionVars, index, queued, dead, agent, cancelling, job,
                     kind>>
  BY Jobs DEF Halt, RunOf
<1> DEFINE i == job[w][2]
<1>1. PICK end \in {"cancelled", "failed"} :
        /\ status' = [status EXCEPT ![r] = end]
        /\ log' = [log EXCEPT ![r][i] =
             IF end = "cancelled" THEN "denied" ELSE "error"]
  BY DEF Halt, RunOf, TaskOf
<1>2. /\ \A v \in Workers : v # w => phase'[v] = phase[v] /\ ~Holds(v, r)
      /\ phase'[w] = "done"
  BY <1>0, NobodyElse DEF RunTypeOK
<1>3. /\ \A q \in Runs : q # r => status'[q] = status[q]
      /\ status'[r] \in {"cancelled", "failed"}
  BY <1>0, <1>1 DEF RunTypeOK
<1>4. ProposalTypeOK' /\ DecidedOnly'
  BY <1>0 DEF ProposalTypeOK, DecidedOnly, decisionVars, rows, requests
<1>5. FreshTasks'
  <2>1. \A q \in Runs : q # r => log'[q] = log[q]
    BY <1>0, <1>1 DEF RunTypeOK
  <2>2. status'[r] \in Ended
    BY <1>3 DEF Ended
  <2>3. QED
    BY <1>0, <1>3, <2>1, <2>2 DEF FreshTasks, decisionVars, rows
<1>5a. RunTypeOK'
  <2>1. log' \in [Runs -> [Indices -> Kinds \cup {"none"}]]
    <3>1. i \in Indices
      BY Jobs
    <3>2. QED
      BY <1>0, <1>1, <3>1 DEF RunTypeOK, Kinds
  <2>2. QED
    BY <1>0, <1>1, <2>1 DEF RunTypeOK, agent, Phases, Ended, Unseen, Modes
<1>6. RowsInTurn' /\ NeverStranded'
  BY <1>0, <1>3 DEF RowsInTurn, NeverStranded
<1>7. Locks'
  BY <1>0, <1>2, RunConstants DEF Locks, Holds, RunTypeOK
<1>8. StepsKnow'
  BY <1>0, <1>2, <1>3, Jobs DEF StepsKnow, Current, Holds
<1>9. QED
  BY <1>4, <1>5, <1>6, <1>7, <1>8, <1>5a

LEMMA PerformInv ==
  ASSUME AgentInv, NEW w \in Workers, PerformTask(w)
  PROVE  AgentInv'
<1> USE DEF AgentInv
<1>0. /\ phase[w] = "loaded"
      /\ phase' = [phase EXCEPT ![w] = "performed"]
      /\ UNCHANGED <<rows, requests, reversed, crossed, lost, deaths, runRows,
                     agent, cancelling, job, seen>>
  BY DEF PerformTask
<1>1. PICK k \in {"applied", "error"} : kind' = [kind EXCEPT ![w] = k]
  BY DEF PerformTask
<1>2. runs' \in [Proposals -> Nat]
  <2>1. job[w] \in Proposals
    BY Jobs, Tasks
  <2>2. runs' = runs \/ runs' = [runs EXCEPT ![job[w]] = @ + 1]
    BY DEF PerformTask
  <2>3. QED
    BY <2>1, <2>2 DEF ProposalTypeOK
<1>3. ProposalTypeOK' /\ DecidedOnly'
  BY <1>0, <1>2 DEF ProposalTypeOK, DecidedOnly, rows, requests
<1>4. FreshTasks' /\ RowsInTurn' /\ NeverStranded'
  BY <1>0 DEF FreshTasks, RowsInTurn, NeverStranded, rows, runRows
<1>5. /\ \A v \in Workers : v # w => phase'[v] = phase[v] /\ kind'[v] = kind[v]
      /\ phase'[w] = "performed" /\ kind'[w] \in Kinds
  BY <1>0, <1>1 DEF RunTypeOK, Kinds
<1>6. RunTypeOK'
  BY <1>0, <1>1 DEF RunTypeOK, runRows, agent, Phases, Kinds
<1>7. Locks'
  BY <1>0, <1>5 DEF Locks, Holds, runRows
<1>8. StepsKnow'
  BY <1>0, <1>5 DEF StepsKnow, Current, runRows
<1>9. QED
  BY <1>3, <1>4, <1>6, <1>7, <1>8

LEMMA AdvanceInv ==
  ASSUME AgentInv, NEW w \in Workers, NEW k \in Kinds, Advance(w, k),
         phase[w] \in {"loaded", "performed"},
         kind' = [kind EXCEPT ![w] = "none"],
         seen' = [seen EXCEPT ![w] = Unseen],
         UNCHANGED <<undone, rowLock, requests, runs, reversed, crossed, lost,
                     deaths, dead, agent, cancelling, job>>
  PROVE  AgentInv'
<1> USE DEF AgentInv
<1> DEFINE r == job[w][1]
<1> DEFINE i == job[w][2]
<1> DEFINE ended == i + 1 = Length
<1>0. /\ r \in Runs /\ i \in Indices /\ job[w] = <<r, i>>
      /\ i \in Int /\ 0 <= i /\ i < Length /\ Length \in Int
      /\ status[r] = "running" /\ index[r] = i
  BY Jobs, Tasks DEF StepsKnow, Current
<1>1. /\ index' = [index EXCEPT ![r] = i + 1]
      /\ log' = [log EXCEPT ![r][i] = k]
      /\ status' = [status EXCEPT ![r] = IF ended THEN "completed" ELSE "running"]
      /\ queued' = [queued EXCEPT ![r] = IF ended THEN @ ELSE @ \cup {i + 1}]
      /\ runLock' = [runLock EXCEPT ![r] = Nobody]
      /\ decision' = IF k = "proposed"
                       THEN [decision EXCEPT ![job[w]] = "pending"] ELSE decision
      /\ phase' = [phase EXCEPT ![w] = "done"]
  BY DEF Advance, RunOf, TaskOf
<1>2. /\ \A v \in Workers : v # w => /\ phase'[v] = phase[v]
                                     /\ kind'[v] = kind[v]
                                     /\ ~Holds(v, r)
      /\ phase'[w] = "done"
  BY <1>1, NobodyElse DEF RunTypeOK
<1>3. /\ \A q \in Runs : q # r => /\ status'[q] = status[q] /\ index'[q] = index[q]
                                  /\ log'[q] = log[q] /\ queued'[q] = queued[q]
      /\ index'[r] = i + 1
      /\ status'[r] \in {"completed", "running"}
      /\ status'[r] = "running" => ~ended
      /\ \A j \in Indices : j # i => log'[r][j] = log[r][j]
      /\ queued'[r] = IF ended THEN queued[r] ELSE queued[r] \cup {i + 1}
  BY <1>0, <1>1 DEF RunTypeOK
<1>4. \A p \in Proposals : p # <<r, i>> => decision'[p] = decision[p]
  BY <1>0, <1>1 DEF ProposalTypeOK
<1>5. ProposalTypeOK'
  <2>1. decision' \in [Proposals -> {"none", "pending", "applied", "dismissed"}]
    BY <1>1 DEF ProposalTypeOK
  <2>2. QED
    BY <2>1 DEF ProposalTypeOK, requests
<1>6. DecidedOnly'
  <2>1. \A p \in Proposals : decision[p] # "none" => decision'[p] # "none"
    BY <1>1 DEF ProposalTypeOK
  <2>2. QED
    BY <2>1 DEF DecidedOnly, ProposalTypeOK, requests
<1>7. RunTypeOK'
  <2>1. index' \in [Runs -> 0 .. Length]
    BY <1>0, <1>1 DEF RunTypeOK
  <2>2. log' \in [Runs -> [Indices -> Kinds \cup {"none"}]]
    BY <1>0, <1>1 DEF RunTypeOK
  <2>3. queued' \in [Runs -> SUBSET Indices]
    <3>1. ended \/ i + 1 \in Indices
      BY <1>0 DEF Indices
    <3>2. QED
      BY <1>0, <1>1, <3>1 DEF RunTypeOK
  <2>4. status' \in [Runs -> Ended \cup {"none", "running"}]
    BY <1>0, <1>1 DEF RunTypeOK, Ended
  <2>5. /\ kind' \in [Workers -> Kinds \cup {"none"}]
        /\ seen' \in [Workers -> [enabled : BOOLEAN, autonomy : Modes]]
        /\ phase' \in [Workers -> Phases]
        /\ runLock' \in [Runs -> Workers \cup {Nobody}]
    BY <1>1 DEF RunTypeOK, Phases, Unseen, Modes
  <2>6. QED
    BY <2>1, <2>2, <2>3, <2>4, <2>5 DEF RunTypeOK, agent
<1>8. FreshTasks'
  <2> SUFFICES ASSUME NEW q \in Runs, NEW j \in Indices, j >= index'[q]
               PROVE  /\ log'[q][j] = "none" \/ status'[q] \in Ended
                      /\ decision'[<<q, j>>] = "none"
    BY DEF FreshTasks
  <2>1. <<q, j>> \in Proposals /\ j \in Int
    BY Tasks
  <2>2. CASE q # r
    BY <1>3, <1>4, <2>1, <2>2 DEF FreshTasks
  <2>3. CASE q = r
    <3>1. j # i /\ j >= index[r]
      BY <1>0, <1>3, <2>1, <2>3
    <3>2. log[r][j] = "none" /\ decision[<<r, j>>] = "none"
      BY <1>0, <2>1, <3>1 DEF FreshTasks, Ended
    <3>3. QED
      BY <1>3, <1>4, <2>1, <2>3, <3>1, <3>2
  <2>4. QED
    BY <2>2, <2>3
<1>9. RowsInTurn'
  <2> SUFFICES ASSUME NEW q \in Runs
               PROVE  /\ \A j \in queued'[q] : j <= index'[q] /\ status'[q] # "none"
                      /\ status'[q] = "none" => index'[q] = 0
    BY DEF RowsInTurn
  <2>1. CASE q # r
    BY <1>3, <2>1 DEF RowsInTurn
  <2>2. CASE q = r
    <3>1. \A j \in queued[r] : j <= i /\ j \in Int
      BY <1>0, Tasks DEF RowsInTurn, RunTypeOK
    <3>2. \A j \in queued'[r] : j <= i + 1
      BY <1>0, <1>3, <3>1
    <3>3. QED
      BY <1>3, <2>2, <3>2
  <2>3. QED
    BY <2>1, <2>2
<1>10. Locks'
  BY <1>1, <1>2, RunConstants DEF Locks, Holds, RunTypeOK
<1>11. StepsKnow'
  <2> SUFFICES ASSUME NEW v \in Workers
      PROVE  /\ phase'[v] \in {"loaded", "performed"} =>
                  status'[job[v][1]] = "running" /\ index'[job[v][1]] = job[v][2]
             /\ phase'[v] = "performed" => kind'[v] \in Kinds
             /\ phase'[v] # "idle" => /\ job[v][2] <= index'[job[v][1]]
                                      /\ status'[job[v][1]] # "none"
             /\ phase'[v] = "done" => \/ status'[job[v][1]] # "running"
                                      \/ job[v][2] < index'[job[v][1]]
    BY DEF StepsKnow, Current
  <2>1. CASE v = w
    BY <1>0, <1>2, <1>3, <2>1
  <2>2. CASE v # w /\ job[v][1] # r
    BY <1>2, <1>3, <2>2, Jobs DEF StepsKnow, Current
  <2>3. CASE v # w /\ job[v][1] = r
    <3>1. job[v][2] \in Int /\ phase'[v] = phase[v]
      BY <1>2, <2>3, Jobs, Tasks
    <3>2. phase[v] \notin {"loaded", "performed"}
      BY <1>2, <2>3 DEF Holds
    <3>3. phase[v] # "idle" => job[v][2] <= i
      BY <1>0, <2>3 DEF StepsKnow
    <3>4. QED
      BY <1>0, <1>3, <2>3, <3>1, <3>2, <3>3
  <2>4. QED
    BY <2>1, <2>2, <2>3
<1>12. NeverStranded'
  <2> SUFFICES ASSUME NEW q \in Runs, status'[q] = "running"
               PROVE  index'[q] \in queued'[q] \/ <<q, index'[q]>> \in dead'
    BY DEF NeverStranded
  <2>1. CASE q # r
    BY <1>3, <2>1 DEF NeverStranded
  <2>2. CASE q = r
    BY <1>3, <2>2
  <2>3. QED
    BY <2>1, <2>2
<1>13. QED
  BY <1>5, <1>6, <1>7, <1>8, <1>9, <1>10, <1>11, <1>12

LEMMA ConcludeInv ==
  ASSUME AgentInv, NEW w \in Workers, Conclude(w)
  PROVE  AgentInv'
<1>1. PICK k \in Kinds : Advance(w, k)
  <2>1. CASE phase[w] = "performed" /\ Advance(w, kind[w])
    BY <2>1 DEF AgentInv, StepsKnow
  <2>2. CASE \E k \in Quiet(w) : Advance(w, k)
    <3>1. Quiet(w) \subseteq Kinds
      BY DEF Quiet, Kinds, AgentInv, RunTypeOK, Modes
    <3>2. QED
      BY <2>2, <3>1
  <2>3. QED
    BY <2>1, <2>2 DEF Conclude
<1>2. QED
  BY <1>1, AdvanceInv DEF Conclude

LEMMA SettleInv ==
  ASSUME AgentInv, NEW w \in Workers, Settle(w)
  PROVE  AgentInv'
<1> USE DEF AgentInv
<1> DEFINE r == job[w][1]
<1> DEFINE i == job[w][2]
<1>0. /\ phase[w] = "done" /\ r \in Runs /\ i \in Indices
      /\ queued' = [queued EXCEPT ![r] = @ \ {i}]
      /\ phase' = [phase EXCEPT ![w] = "idle"]
      /\ job' = [job EXCEPT ![w] = NoJob]
      /\ UNCHANGED <<decisionVars, status, index, log, runLock, dead, agent,
                     cancelling, seen, kind>>
  BY Jobs DEF Settle, RunOf, TaskOf
<1>1. /\ \A v \in Workers : v # w => phase'[v] = phase[v] /\ job'[v] = job[v]
      /\ phase'[w] = "idle"
      /\ \A q \in Runs : queued'[q] = IF q = r THEN queued[r] \ {i} ELSE queued[q]
  BY <1>0 DEF RunTypeOK
<1>2. ProposalTypeOK' /\ DecidedOnly' /\ FreshTasks'
  BY <1>0 DEF ProposalTypeOK, DecidedOnly, FreshTasks, decisionVars, rows, requests
<1>3. RunTypeOK'
  BY <1>0, Tasks DEF RunTypeOK, agent, Phases
<1>4. RowsInTurn' /\ Locks'
  BY <1>0, <1>1 DEF RowsInTurn, Locks, Holds
<1>5. StepsKnow'
  BY <1>0, <1>1 DEF StepsKnow, Current
<1>6. NeverStranded'
  <2>1. status[r] # "running" \/ i # index[r]
    <3>1. i \in Int /\ index[r] \in Int
      BY <1>0, Tasks DEF RunTypeOK
    <3>2. QED
      BY <1>0, <3>1 DEF StepsKnow
  <2>2. QED
    BY <1>0, <1>1, <2>1 DEF NeverStranded
<1>7. QED
  BY <1>2, <1>3, <1>4, <1>5, <1>6

LEMMA DiesInv ==
  ASSUME AgentInv, NEW w \in Workers, StepDies(w)
  PROVE  AgentInv'
<1> USE DEF AgentInv
<1>0. /\ phase' = [phase EXCEPT ![w] = "idle"]
      /\ kind' = [kind EXCEPT ![w] = "none"]
      /\ runLock' = [r \in Runs |-> IF runLock[r] = w THEN Nobody ELSE runLock[r]]
      /\ job' = [job EXCEPT ![w] = NoJob]
      /\ seen' = [seen EXCEPT ![w] = Unseen]
      /\ lost' \in {lost, lost \cup {job[w]}}
      /\ deaths' = deaths + 1
      /\ UNCHANGED <<rows, requests, runs, reversed, crossed, status, index,
                     log, agent, cancelling>>
  BY DEF StepDies
<1>0a. \/ UNCHANGED <<queued, dead>>
       \/ /\ queued' = [queued EXCEPT ![job[w][1]] = @ \ {job[w][2]}]
          /\ dead' = dead \cup {job[w]}
  BY DEF StepDies, RunOf, TaskOf
<1>1. /\ \A v \in Workers : v # w => /\ phase'[v] = phase[v] /\ job'[v] = job[v]
                                     /\ kind'[v] = kind[v]
      /\ phase'[w] = "idle"
  BY <1>0 DEF RunTypeOK
<1>2. ProposalTypeOK'
  <2>1. job[w] \in Proposals
    BY Jobs, Tasks
  <2>2. lost' \subseteq Proposals /\ deaths' \in Nat
    BY <1>0, <2>1 DEF ProposalTypeOK
  <2>3. QED
    BY <1>0, <2>2 DEF ProposalTypeOK, rows, requests
<1>2a. DecidedOnly' /\ FreshTasks'
  BY <1>0 DEF DecidedOnly, FreshTasks, rows, requests
<1>2b. /\ queued' \in [Runs -> SUBSET Indices] /\ dead' \subseteq Runs \X Indices
       /\ \A r \in Runs : queued'[r] \subseteq queued[r]
       /\ \A r \in Runs : \A i \in queued[r] :
            i \in queued'[r] \/ <<r, i>> \in dead'
       /\ dead \subseteq dead'
  <2>1. CASE UNCHANGED <<queued, dead>>
    BY <2>1 DEF RunTypeOK
  <2>2. CASE /\ queued' = [queued EXCEPT ![job[w][1]] = @ \ {job[w][2]}]
             /\ dead' = dead \cup {job[w]}
    <3>1. \A r \in Runs : queued'[r] =
            IF r = job[w][1] THEN queued[r] \ {job[w][2]} ELSE queued[r]
      BY <2>2, Jobs DEF RunTypeOK
    <3>2. queued' \in [Runs -> SUBSET Indices]
      BY <2>2, Jobs DEF RunTypeOK
    <3>3. dead' = dead \cup {<<job[w][1], job[w][2]>>}
      BY <2>2, Jobs
    <3>4. QED
      BY <3>1, <3>2, <3>3, Jobs DEF RunTypeOK
  <2>3. QED
    BY <1>0a, <2>1, <2>2
<1>3. RowsInTurn' /\ NeverStranded'
  <2>1. RowsInTurn'
    BY <1>0, <1>2b DEF RowsInTurn
  <2>2. NeverStranded'
    BY <1>0, <1>2b DEF NeverStranded
  <2>3. QED
    BY <2>1, <2>2
<1>4. RunTypeOK'
  BY <1>0, <1>2b, Tasks DEF RunTypeOK, agent, Phases, Unseen, Modes
<1>5. Locks'
  BY <1>0, <1>1, RunConstants DEF Locks, Holds, RunTypeOK
<1>6. StepsKnow'
  BY <1>0, <1>1 DEF StepsKnow, Current
<1>7. QED
  BY <1>2, <1>2a, <1>3, <1>4, <1>5, <1>6

------------------------------------------------------------------------------
(* The theorems *)

LEMMA AgentStepInv ==
  ASSUME AgentInv, [AgentNext]_runVars
  PROVE  AgentInv'
<1>1. ASSUME NEW r \in Runs, StartRun(r) PROVE AgentInv'
  BY <1>1, StartRunInv
<1>2. ASSUME NEW r \in Runs, ReadToCancel(r) \/ AbandonCancel(r) PROVE AgentInv'
  <2>1. cancelling' \subseteq Runs
    BY <1>2 DEF ReadToCancel, AbandonCancel, AgentInv, RunTypeOK
  <2>2. UNCHANGED <<decisionVars, runRows, agent, workers>>
    BY <1>2 DEF ReadToCancel, AbandonCancel
  <2>3. QED
    BY <2>1, <2>2, QuietInv DEF agent, AgentInv, RunTypeOK
<1>3. ASSUME NEW r \in Runs, Cancel(r) PROVE AgentInv'
  BY <1>3, CancelInv
<1>4. ASSUME NEW on \in BOOLEAN, NEW mode \in Modes, SetAgent(on, mode)
      PROVE  AgentInv'
  BY <1>4, QuietInv DEF SetAgent, AgentInv, RunTypeOK
<1>5. ASSUME NEW w \in Workers, NEW r \in Runs, NEW i \in Indices, Peek(w, r, i)
      PROVE  AgentInv'
  BY <1>5, PeekInv
<1>6. ASSUME NEW w \in Workers, Load(w) PROVE AgentInv'
  BY <1>6, LoadInv
<1>7. ASSUME NEW w \in Workers, Halt(w) PROVE AgentInv'
  BY <1>7, HaltInv
<1>8. ASSUME NEW w \in Workers, PerformTask(w) PROVE AgentInv'
  BY <1>8, PerformInv
<1>9. ASSUME NEW w \in Workers, Conclude(w) PROVE AgentInv'
  BY <1>9, ConcludeInv
<1>10. ASSUME NEW w \in Workers, Settle(w) PROVE AgentInv'
  BY <1>10, SettleInv
<1>11. ASSUME NEW w \in Workers, StepDies(w) PROVE AgentInv'
  BY <1>11, DiesInv
<1>12. CASE DecisionNext /\ UNCHANGED <<runRows, agent, cancelling, workers>>
  BY <1>12, DecideInv
<1>13. CASE UNCHANGED runVars
  <2>1. UNCHANGED <<decisionVars, runRows, agent, cancelling, workers>>
    BY <1>13 DEF runVars
  <2>2. QED
    BY <2>1, QuietInv DEF agent, AgentInv, RunTypeOK
<1>14. QED
  BY <1>1, <1>2, <1>3, <1>4, <1>5, <1>6, <1>7, <1>8, <1>9, <1>10, <1>11,
     <1>12, <1>13 DEF AgentNext, RunNext, WorkerStep

LEMMA AgentInvAlways == AgentSpec => []AgentInv
<1>1. RunInit => AgentInv
  BY AgentInitInv
<1>2. AgentInv /\ [AgentNext]_runVars => AgentInv'
  BY AgentStepInv
<1>3. QED
  BY <1>1, <1>2, PTL DEF AgentSpec

(* The executor's two comments, "locked, so a cancel and a step cannot     *)
(* interleave" and "two relays holding two rows for one run cannot both    *)
(* take the same task", for any number of relays, runs and tasks.          *)
THEOREM StepsMeetTheirRuns == AgentSpec => []StepMeetsItsRun
<1>1. AgentInv => StepMeetsItsRun
  <2> SUFFICES ASSUME AgentInv, NEW w \in Workers,
                      phase[w] \in {"loaded", "performed"}
               PROVE  /\ Current(RunOf(w), TaskOf(w))
                      /\ runLock[RunOf(w)] = w
                      /\ log[RunOf(w)][TaskOf(w)] = "none"
                      /\ decision[job[w]] = "none"
    BY DEF StepMeetsItsRun
  <2> USE DEF AgentInv, RunOf, TaskOf
  <2>1. Current(RunOf(w), TaskOf(w)) /\ runLock[RunOf(w)] = w
    BY Jobs DEF StepsKnow, Locks, Holds
  <2>2. log[RunOf(w)][TaskOf(w)] = "none" /\ decision[job[w]] = "none"
    BY <2>1, Jobs, Tasks DEF FreshTasks, Current, Ended
  <2>3. QED
    BY <2>1, <2>2
<1>2. QED
  BY <1>1, AgentInvAlways, PTL

(* The comment in startRun, that no run says it is running and never will: *)
(* a running run's next task always has its row in the outbox, unless the  *)
(* relay has given up on that row.                                         *)
THEOREM RunsAreNeverStranded == AgentSpec => []NeverStranded
<1>1. AgentInv => NeverStranded
  BY DEF AgentInv
<1>2. QED
  BY <1>1, AgentInvAlways, PTL

(* What a step may do to the status of a run that has ended. *)
LEMMA EndingStep ==
  ASSUME AgentInv, AgentNext, NEW r \in Runs,
         status[r] \in Ended, status'[r] # status[r]
  PROVE  status'[r] = "cancelled" /\ r \in cancelling /\ runLock[r] = Nobody
<1> USE DEF AgentInv
<1>0. status \in [Runs -> Ended \cup {"none", "running"}]
  BY DEF RunTypeOK
<1>1. ASSUME NEW q \in Runs, StartRun(q) PROVE FALSE
  BY <1>0, <1>1 DEF StartRun, Ended
<1>2. ASSUME NEW q \in Runs, Cancel(q)
      PROVE  status'[r] = "cancelled" /\ r \in cancelling /\ runLock[r] = Nobody
  BY <1>0, <1>2 DEF Cancel
<1>3. ASSUME NEW w \in Workers, Halt(w) PROVE FALSE
  <2>1. status[RunOf(w)] = "running"
    BY <1>3 DEF Halt, StepsKnow, Current, RunOf
  <2>2. PICK end \in {"cancelled", "failed"} :
          status' = [status EXCEPT ![RunOf(w)] = end]
    BY <1>3 DEF Halt
  <2>3. QED
    BY <1>0, <2>1, <2>2 DEF Ended
<1>4. ASSUME NEW w \in Workers, Conclude(w) PROVE FALSE
  <2>1. status[RunOf(w)] = "running"
    BY <1>4 DEF Conclude, StepsKnow, Current, RunOf
  <2>2. PICK x : status' = [status EXCEPT ![RunOf(w)] = x]
    BY <1>4 DEF Conclude, Advance
  <2>3. QED
    BY <1>0, <2>1, <2>2 DEF Ended
<1>5. ASSUME status' = status PROVE FALSE
  BY <1>5
<1>6. QED
  BY <1>1, <1>2, <1>3, <1>4, <1>5
     DEF AgentNext, RunNext, WorkerStep, ReadToCancel, AbandonCancel, SetAgent,
         Peek, Load, PerformTask, Settle, StepDies, runRows

(* How a run ended stands, but for a cancel that had read it as running.   *)
THEOREM EndingsStand == AgentSpec => EndingStands
<1>1. AgentInv /\ [AgentNext]_runVars =>
        [\A r \in Runs : status[r] \in Ended /\ status'[r] # status[r] =>
           status'[r] = "cancelled" /\ r \in cancelling
             /\ runLock[r] = Nobody]_status
  BY EndingStep DEF runVars, runRows
<1>2. QED
  BY <1>1, AgentInvAlways, PTL DEF AgentSpec, EndingStands

------------------------------------------------------------------------------
(* What is decided and what was done about it *)

Applying == {"apply", "bulk", "copilotApply"}

(* What a decider has in hand: one proposal unless it decides in bulk, and *)
(* what it read of each still stands, for certain under the lock.          *)
Hands ==
  \A d \in Deciders :
    /\ ran[d] \cup left[d] \subseteq hand[d]
    /\ ran[d] \cap left[d] = {}
    /\ op[d] # "bulk" => \A p, q \in hand[d] : p = q
    /\ op[d] = "idle" => hand[d] = {}
    /\ op[d] = "copilotDismiss" => left[d] = {}
    /\ \A p \in hand[d] :
         /\ op[d] = "apply" => rowLock[p] = d /\ decision[p] = "pending"
         /\ op[d] \in {"bulk", "copilotApply", "copilotDismiss"} =>
              decision[p] = "pending" \/ p \in crossed
         /\ op[d] = "undo" => ~undone[p] \/ p \in crossed

Crossing ==
  \A d, e \in Deciders : d # e => hand[d] \cap hand[e] \subseteq crossed

(* Every decision and every decider that is past its action has an effect  *)
(* to show for it, and what nobody proposed had none.                      *)
Counted ==
  \A p \in Proposals :
    /\ \A d \in Deciders : p \in ran[d] /\ op[d] \in Applying => runs[p] > 0
    /\ decision[p] = "applied" => runs[p] > 0
    /\ decision[p] = "none" /\ p \notin Runs \X Indices => runs[p] = 0

(* Unless requests crossed or died, an effect is the only one, and whoever *)
(* caused it has recorded it or is about to.                               *)
Answered(p) ==
  /\ runs[p] \in {0, 1} /\ reversed[p] \in {0, 1}
  /\ decision[p] = "pending" /\ runs[p] # 0 =>
       \E d \in Deciders : op[d] \in Applying /\ p \in ran[d]
  /\ decision[p] = "dismissed" => runs[p] = 0
  /\ reversed[p] # 0 =>
       undone[p] \/ \E d \in Deciders : op[d] = "undo" /\ p \in ran[d]

Single == \A p \in Proposals \ Excused : Answered(p)

EffectInv == Hands /\ Crossing /\ Counted /\ Single

LEMMA EffectInit == DecisionInit => EffectInv
BY DEF DecisionInit, EffectInv, Hands, Crossing, Counted, Single, Answered,
       Excused

LEMMA EffectIdle ==
  ASSUME EffectInv, UNCHANGED decisionVars
  PROVE  EffectInv'
BY DEF EffectInv, Hands, Crossing, Counted, Single, Answered, Excused,
       decisionVars, rows, requests

(* A decider has one proposal, or decides in bulk. *)
LEMMA OneInHand ==
  ASSUME EffectInv, NEW d \in Deciders, op[d] # "bulk", NEW p \in left[d]
  PROVE  hand[d] = {p} /\ left[d] = {p} /\ ran[d] = {}
BY DEF EffectInv, Hands

(* Whoever else has it in hand crosses. *)
LEMMA OnlyHand ==
  ASSUME EffectInv, NEW d \in Deciders, NEW p \in hand[d], p \notin crossed,
         NEW e \in Deciders, p \in hand[e] \cup ran[e] \cup left[e]
  PROVE  d = e
BY DEF EffectInv, Hands, Crossing

LEMMA TakeEffect ==
  ASSUME ProposalTypeOK, EffectInv, NEW d \in Deciders, NEW o \in Ops \ {"idle"},
         NEW S \in SUBSET Proposals, Take(d, o, S),
         o # "bulk" => \A p, q \in S : p = q,
         o = "apply" => /\ \A p \in S : rowLock[p] = Nobody
                        /\ rowLock' = [p \in Proposals |->
                             IF p \in S THEN d ELSE rowLock[p]],
         o # "apply" => rowLock' = rowLock,
         o # "undo" => S \subseteq Pending,
         o = "undo" => \A p \in S : ~undone[p]
  PROVE  EffectInv'
<1> USE DEF EffectInv
<1>1. /\ op[d] = "idle" /\ hand[d] = {} /\ ran[d] = {} /\ left[d] = {}
      /\ op'[d] = o /\ hand'[d] = S /\ ran'[d] \cup left'[d] = S
      /\ ran'[d] \cap left'[d] = {}
      /\ ran'[d] # {} => o = "copilotDismiss"
      /\ o = "copilotDismiss" => left'[d] = {}
      /\ \A e \in Deciders : e # d => /\ op'[e] = op[e] /\ hand'[e] = hand[e]
                                      /\ ran'[e] = ran[e] /\ left'[e] = left[e]
      /\ UNCHANGED <<decision, undone, runs, reversed, lost, deaths>>
  BY DEF Take, ProposalTypeOK, Hands
<1>2. crossed' = crossed \cup {p \in S : InHand(p) \/
        (o # "apply" /\ \E e \in Deciders : p \in hand[e])}
  BY DEF Take
<1>3. \A e \in Deciders : \A p \in hand[e] : op[e] = "apply" => rowLock[p] = e
  BY DEF Hands
<1>4. \A e \in Deciders : e # d => hand[e] \cap S \subseteq crossed'
  BY <1>2, <1>3, ProposalConstants DEF InHand
<1>5. Crossing'
  BY <1>1, <1>2, <1>4 DEF Crossing
<1>6. Hands'
  <2> SUFFICES ASSUME NEW e \in Deciders
      PROVE  /\ ran'[e] \cup left'[e] \subseteq hand'[e]
             /\ ran'[e] \cap left'[e] = {}
             /\ op'[e] # "bulk" => \A p, q \in hand'[e] : p = q
             /\ op'[e] = "idle" => hand'[e] = {}
             /\ op'[e] = "copilotDismiss" => left'[e] = {}
             /\ \A p \in hand'[e] :
                  /\ op'[e] = "apply" => rowLock'[p] = e /\ decision'[p] = "pending"
                  /\ op'[e] \in {"bulk", "copilotApply", "copilotDismiss"} =>
                       decision'[p] = "pending" \/ p \in crossed'
                  /\ op'[e] = "undo" => ~undone'[p] \/ p \in crossed'
    BY DEF Hands
  <2>1. CASE e = d
    BY <1>1, <2>1 DEF Pending
  <2>2. CASE e # d
    <3>1. \A p \in hand[e] : op[e] = "apply" => rowLock'[p] = e
      <4> SUFFICES ASSUME NEW p \in hand[e], op[e] = "apply"
                   PROVE  rowLock'[p] = e
        OBVIOUS
      <4>1. rowLock[p] = e /\ p \in Proposals
        BY <1>3 DEF ProposalTypeOK
      <4>2. QED
        BY <4>1, ProposalConstants
    <3>2. QED
      BY <1>1, <1>2, <2>2, <3>1 DEF Hands
  <2>3. QED
    BY <2>1, <2>2
<1>7. Counted'
  BY <1>1 DEF Counted, Applying
<1>8. Single'
  <2> SUFFICES ASSUME NEW p \in Proposals, p \notin crossed', p \notin lost'
               PROVE  Answered(p)'
    BY DEF Single, Excused
  <2>1. Answered(p)
    BY <1>1, <1>2 DEF Single, Excused
  <2>2. QED
    BY <1>1, <2>1 DEF Answered
<1>9. QED
  BY <1>5, <1>6, <1>7, <1>8

LEMMA PerformEffect ==
  ASSUME ProposalTypeOK, DecidedOnly, EffectInv, NEW d \in Deciders, Perform(d)
  PROVE  EffectInv'
<1> USE DEF EffectInv
<1>1. PICK p \in left[d] :
        /\ left' = [left EXCEPT ![d] = @ \ {p}]
        /\ ran' = [ran EXCEPT ![d] = @ \cup {p}]
        /\ IF op[d] = "undo"
             THEN /\ reversed' = [reversed EXCEPT ![p] = @ + 1]
                  /\ UNCHANGED runs
             ELSE /\ runs' = [runs EXCEPT ![p] = @ + 1]
                  /\ UNCHANGED reversed
  BY DEF Perform
<1>2. UNCHANGED <<decision, undone, rowLock, op, hand, crossed, lost, deaths>>
  BY DEF Perform, rows
<1>3. /\ p \in hand[d] /\ p \in Proposals /\ p \notin ran[d]
      /\ decision[p] # "none" /\ op[d] # "idle"
      /\ runs[p] \in Nat /\ reversed[p] \in Nat
  BY DEF Hands, DecidedOnly, ProposalTypeOK
<1>4. /\ \A e \in Deciders : e # d => ran'[e] = ran[e] /\ left'[e] = left[e]
      /\ ran'[d] = ran[d] \cup {p} /\ left'[d] = left[d] \ {p}
      /\ \A q \in Proposals : q # p => runs'[q] = runs[q] /\ reversed'[q] = reversed[q]
      /\ op[d] = "undo" => runs'[p] = runs[p] /\ reversed'[p] = reversed[p] + 1
      /\ op[d] # "undo" => runs'[p] = runs[p] + 1 /\ reversed'[p] = reversed[p]
  BY <1>1, <1>3 DEF ProposalTypeOK
<1>5. Hands'
  <2> SUFFICES ASSUME NEW e \in Deciders
      PROVE  /\ ran'[e] \cup left'[e] \subseteq hand[e]
             /\ ran'[e] \cap left'[e] = {}
             /\ left'[e] \subseteq left[e]
    BY <1>2 DEF Hands
  <2>1. QED
    BY <1>3, <1>4 DEF Hands
<1>6. Crossing'
  BY <1>2 DEF Crossing
<1>7. Counted'
  <2> SUFFICES ASSUME NEW q \in Proposals
      PROVE  /\ \A e \in Deciders : q \in ran'[e] /\ op[e] \in Applying => runs'[q] > 0
             /\ decision[q] = "applied" => runs'[q] > 0
             /\ decision[q] = "none" /\ q \notin Runs \X Indices => runs'[q] = 0
    BY <1>2 DEF Counted
  <2>1. CASE q # p
    BY <1>4, <2>1 DEF Counted
  <2>2. CASE q = p
    <3>1. CASE op[d] = "undo"
      BY <1>3, <1>4, <2>2, <3>1 DEF Counted, Applying
    <3>2. CASE op[d] # "undo"
      BY <1>3, <1>4, <2>2, <3>2
    <3>3. QED
      BY <3>1, <3>2
  <2>3. QED
    BY <2>1, <2>2
<1>8. Single'
  <2> SUFFICES ASSUME NEW q \in Proposals, q \notin crossed, q \notin lost
               PROVE  Answered(q)'
    BY <1>2 DEF Single, Excused
  <2>0. Answered(q)
    BY DEF Single, Excused
  <2>1. CASE q # p
    BY <1>2, <1>4, <2>0, <2>1 DEF Answered
  <2>2. CASE q = p
    <3>0. \A e \in Deciders : q \in ran[e] => FALSE
      BY <1>3, <2>2, OnlyHand
    <3>1. CASE op[d] = "undo"
      <4>1. ~undone[q] /\ reversed[q] = 0
        BY <1>3, <2>0, <2>2, <3>0, <3>1 DEF Hands, Answered
      <4>2. reversed'[q] = 1 /\ runs'[q] = runs[q] /\ q \in ran'[d] /\ op'[d] = "undo"
        BY <1>2, <1>3, <1>4, <2>2, <3>1, <4>1
      <4>3. decision[q] = "pending" => runs[q] = 0
        BY <2>0, <3>0 DEF Answered
      <4>4. QED
        BY <1>2, <2>0, <4>2, <4>3 DEF Answered
    <3>2. CASE op[d] # "undo"
      <4>1. op[d] \in Applying /\ decision[q] = "pending"
        <5>1. op[d] # "copilotDismiss"
          BY DEF Hands
        <5>2. QED
          BY <1>3, <2>2, <3>2, <5>1 DEF Hands, Applying, ProposalTypeOK, Ops
      <4>2. runs[q] = 0
        BY <2>0, <3>0, <4>1 DEF Answered
      <4>3. runs'[q] = 1 /\ reversed'[q] = reversed[q] /\ q \in ran'[d] /\ op'[d] \in Applying
        BY <1>2, <1>3, <1>4, <2>2, <3>2, <4>1, <4>2
      <4>4. reversed[q] # 0 => undone[q]
        BY <2>0, <3>0 DEF Answered
      <4>5. QED
        BY <1>2, <2>0, <4>1, <4>3, <4>4 DEF Answered
    <3>3. QED
      BY <3>1, <3>2
  <2>3. QED
    BY <2>1, <2>2
<1>9. QED
  BY <1>5, <1>6, <1>7, <1>8

(* A decider that stops leaves its hands empty and the rest alone.         *)
LEMMA RestHands ==
  ASSUME ProposalTypeOK, EffectInv, NEW d \in Deciders, Rest(d),
         crossed' = crossed,
         \A e \in Deciders : e # d => \A p \in hand[e] :
           /\ op[e] = "apply" => decision'[p] = decision[p]
           /\ p \notin crossed =>
                decision'[p] = decision[p] /\ undone'[p] = undone[p]
  PROVE  /\ Hands' /\ Crossing'
         /\ op'[d] = "idle" /\ ran'[d] = {}
         /\ \A e \in Deciders : e # d => op'[e] = op[e] /\ ran'[e] = ran[e]
<1> USE DEF EffectInv
<1>1. /\ op'[d] = "idle" /\ hand'[d] = {} /\ ran'[d] = {} /\ left'[d] = {}
      /\ \A e \in Deciders : e # d => /\ op'[e] = op[e] /\ hand'[e] = hand[e]
                                      /\ ran'[e] = ran[e] /\ left'[e] = left[e]
      /\ \A p \in Proposals : rowLock[p] # d => rowLock'[p] = rowLock[p]
  BY DEF Rest, ProposalTypeOK
<1>2. Crossing'
  BY <1>1 DEF Crossing
<1>3. Hands'
  <2> SUFFICES ASSUME NEW e \in Deciders
      PROVE  /\ ran'[e] \cup left'[e] \subseteq hand'[e]
             /\ ran'[e] \cap left'[e] = {}
             /\ op'[e] # "bulk" => \A p, q \in hand'[e] : p = q
             /\ op'[e] = "idle" => hand'[e] = {}
             /\ op'[e] = "copilotDismiss" => left'[e] = {}
             /\ \A p \in hand'[e] :
                  /\ op'[e] = "apply" => rowLock'[p] = e /\ decision'[p] = "pending"
                  /\ op'[e] \in {"bulk", "copilotApply", "copilotDismiss"} =>
                       decision'[p] = "pending" \/ p \in crossed'
                  /\ op'[e] = "undo" => ~undone'[p] \/ p \in crossed'
    BY DEF Hands
  <2>1. CASE e = d
    BY <1>1, <2>1
  <2>2. CASE e # d
    <3>1. \A p \in hand[e] : op[e] = "apply" => rowLock'[p] = e
      BY <1>1, <2>2 DEF Hands, ProposalTypeOK
    <3>2. QED
      BY <1>1, <2>2, <3>1 DEF Hands
  <2>3. QED
    BY <2>1, <2>2
<1>4. QED
  BY <1>1, <1>2, <1>3

LEMMA RefuseEffect ==
  ASSUME ProposalTypeOK, EffectInv, NEW d \in Deciders, Refuse(d)
  PROVE  EffectInv'
<1> USE DEF EffectInv
<1>1. PICK p \in left[d] :
        IF op[d] = "bulk"
          THEN /\ left' = [left EXCEPT ![d] = @ \ {p}]
               /\ UNCHANGED <<op, hand, ran, rowLock>>
          ELSE Rest(d)
  BY DEF Refuse
<1>2. UNCHANGED <<decision, undone, runs, reversed, crossed, lost, deaths>>
  BY DEF Refuse
<1>3. CASE op[d] = "bulk"
  <2>1. \A e \in Deciders : left'[e] \subseteq left[e]
    BY <1>1, <1>3 DEF ProposalTypeOK
  <2>2. UNCHANGED <<op, hand, ran, rowLock>>
    BY <1>1, <1>3
  <2>3. Hands' /\ Crossing'
    BY <1>2, <2>1, <2>2 DEF Hands, Crossing
  <2>4. Counted' /\ Single'
    BY <1>2, <2>2 DEF Counted, Single, Answered, Excused
  <2>5. QED
    BY <2>3, <2>4
<1>4. CASE op[d] # "bulk"
  <2>1. Rest(d) /\ ran[d] = {}
    BY <1>1, <1>4, OneInHand
  <2>2. /\ Hands' /\ Crossing'
        /\ op'[d] = "idle" /\ ran'[d] = {}
        /\ \A e \in Deciders : e # d => op'[e] = op[e] /\ ran'[e] = ran[e]
    BY <1>2, <2>1, RestHands
  <2>3. Counted'
    BY <1>2, <2>2 DEF Counted
  <2>4. Single'
    <3> SUFFICES ASSUME NEW q \in Proposals, q \notin crossed, q \notin lost
                 PROVE  Answered(q)'
      BY <1>2 DEF Single, Excused
    <3>1. Answered(q)
      BY DEF Single, Excused
    <3>2. QED
      BY <1>2, <2>1, <2>2, <3>1 DEF Answered
  <2>5. QED
    BY <2>2, <2>3, <2>4
<1>5. QED
  BY <1>3, <1>4

LEMMA DieEffect ==
  ASSUME ProposalTypeOK, EffectInv, NEW d \in Deciders, Die(d)
  PROVE  EffectInv'
<1> USE DEF EffectInv
<1>1. /\ Rest(d)
      /\ lost' = lost \cup (IF op[d] = "copilotDismiss" THEN {} ELSE ran[d])
      /\ UNCHANGED <<decision, undone, runs, reversed, crossed>>
  BY DEF Die
<1>2. /\ Hands' /\ Crossing'
      /\ op'[d] = "idle" /\ ran'[d] = {}
      /\ \A e \in Deciders : e # d => op'[e] = op[e] /\ ran'[e] = ran[e]
  BY <1>1, RestHands
<1>3. Counted'
  BY <1>1, <1>2 DEF Counted
<1>4. Single'
  <2> SUFFICES ASSUME NEW q \in Proposals, q \notin crossed, q \notin lost'
               PROVE  Answered(q)'
    BY <1>1 DEF Single, Excused
  <2>1. Answered(q)
    BY <1>1 DEF Single, Excused
  <2>2. op[d] # "copilotDismiss" => q \notin ran[d]
    BY <1>1
  <2>3. QED
    BY <1>1, <1>2, <2>1, <2>2 DEF Answered, Applying
<1>5. QED
  BY <1>2, <1>3, <1>4

LEMMA DismissEffect ==
  ASSUME ProposalTypeOK, EffectInv, NEW S \in SUBSET Proposals, Dismiss(S)
  PROVE  EffectInv'
<1> USE DEF EffectInv
<1>1. /\ \A p \in S : decision[p] = "pending" /\ rowLock[p] = Nobody
      /\ \A p \in Proposals : decision'[p] =
           IF p \in S THEN "dismissed" ELSE decision[p]
      /\ crossed' = crossed \cup {p \in S : InHand(p)}
      /\ UNCHANGED <<undone, rowLock, op, hand, ran, left, runs, reversed, lost,
                     deaths>>
  BY DEF Dismiss, Pending, requests
<1>2. \A e \in Deciders : \A p \in hand[e] \cap S :
        p \in crossed' /\ op[e] # "apply"
  BY <1>1, ProposalConstants DEF Hands, InHand
<1>3. \A e \in Deciders : \A p \in hand[e] : p \in Proposals
  BY DEF ProposalTypeOK
<1>4. Hands' /\ Crossing'
  <2>1. Crossing'
    BY <1>1 DEF Crossing
  <2>2. Hands'
    BY <1>1, <1>2, <1>3 DEF Hands
  <2>3. QED
    BY <2>1, <2>2
<1>5. Counted'
  BY <1>1 DEF Counted
<1>6. Single'
  <2> SUFFICES ASSUME NEW q \in Proposals, q \notin crossed', q \notin lost
               PROVE  Answered(q)'
    BY <1>1 DEF Single, Excused
  <2>1. Answered(q)
    BY <1>1 DEF Single, Excused
  <2>2. CASE q \in S
    <3>1. \A e \in Deciders : q \notin ran[e]
      BY <1>2, <2>2 DEF Hands
    <3>2. runs[q] = 0
      BY <1>1, <2>1, <2>2, <3>1 DEF Answered
    <3>3. QED
      BY <1>1, <2>1, <2>2, <3>2 DEF Answered
  <2>3. CASE q \notin S
    BY <1>1, <2>1, <2>3 DEF Answered
  <2>4. QED
    BY <2>2, <2>3
<1>7. QED
  BY <1>4, <1>5, <1>6

LEMMA RecordEffect ==
  ASSUME ProposalTypeOK, EffectInv, NEW d \in Deciders, Record(d)
  PROVE  EffectInv'
<1> USE DEF EffectInv
<1>1. /\ op[d] # "idle" /\ left[d] = {} /\ Rest(d)
      /\ \A p \in ran[d] : rowLock[p] \in {Nobody, d}
      /\ UNCHANGED <<runs, reversed, crossed, lost, deaths>>
  BY DEF Record, Unlocked
<1>2. /\ \A p \in Proposals : undone'[p] =
           (undone[p] \/ (op[d] = "undo" /\ p \in ran[d]))
      /\ \A p \in Proposals : decision'[p] =
           IF p \in ran[d] /\ op[d] # "undo" THEN Outcome(op[d]) ELSE decision[p]
  <2>1. CASE op[d] = "undo"
    BY <2>1 DEF Record, ProposalTypeOK
  <2>2. CASE op[d] # "undo"
    BY <2>2 DEF Record, ProposalTypeOK
  <2>3. QED
    BY <2>1, <2>2
<1>3. \A e \in Deciders : e # d => \A p \in hand[e] :
        /\ p \in Proposals
        /\ op[e] = "apply" => p \notin ran[d]
        /\ p \notin crossed => p \notin ran[d]
  BY <1>1, ProposalConstants DEF Hands, Crossing, ProposalTypeOK
<1>4. /\ Hands' /\ Crossing'
      /\ op'[d] = "idle" /\ ran'[d] = {}
      /\ \A e \in Deciders : e # d => op'[e] = op[e] /\ ran'[e] = ran[e]
  <2>1. \A e \in Deciders : e # d => \A p \in hand[e] :
          /\ op[e] = "apply" => decision'[p] = decision[p]
          /\ p \notin crossed =>
               decision'[p] = decision[p] /\ undone'[p] = undone[p]
    BY <1>2, <1>3 DEF ProposalTypeOK
  <2>2. QED
    BY <1>1, <2>1, RestHands
<1>5. op[d] \in Applying \cup {"copilotDismiss", "undo"}
  BY <1>1 DEF ProposalTypeOK, Ops, Applying
<1>6. /\ op[d] \in Applying => Outcome(op[d]) = "applied"
      /\ op[d] = "copilotDismiss" => Outcome(op[d]) = "dismissed"
  BY DEF Outcome, Applying
<1>7. Counted'
  <2> SUFFICES ASSUME NEW q \in Proposals
      PROVE  /\ \A e \in Deciders : q \in ran'[e] /\ op'[e] \in Applying => runs[q] > 0
             /\ decision'[q] = "applied" => runs[q] > 0
             /\ decision'[q] = "none" /\ q \notin Runs \X Indices => runs[q] = 0
    BY <1>1 DEF Counted
  <2>1. \A e \in Deciders : q \in ran'[e] /\ op'[e] \in Applying => runs[q] > 0
    BY <1>4 DEF Counted
  <2>2. CASE q \in ran[d] /\ op[d] # "undo"
    BY <1>2, <1>5, <1>6, <2>1, <2>2 DEF Counted
  <2>3. CASE ~(q \in ran[d] /\ op[d] # "undo")
    BY <1>2, <2>1, <2>3 DEF Counted
  <2>4. QED
    BY <2>2, <2>3
<1>8. Single'
  <2> SUFFICES ASSUME NEW q \in Proposals, q \notin crossed, q \notin lost
               PROVE  Answered(q)'
    BY <1>1 DEF Single, Excused
  <2>0. Answered(q)
    BY DEF Single, Excused
  <2>1. CASE q \notin ran[d]
    BY <1>1, <1>2, <1>4, <2>0, <2>1 DEF Answered
  <2>2. CASE q \in ran[d]
    <3>0. \A e \in Deciders : q \in ran[e] => e = d
      BY <2>2, OnlyHand DEF Hands
    <3>1. CASE op[d] = "undo"
      <4>1. /\ undone'[q] /\ decision'[q] = decision[q]
        BY <1>2, <2>2, <3>1
      <4>2. decision[q] = "pending" => runs[q] = 0
        BY <2>0, <3>0, <3>1 DEF Answered, Applying
      <4>3. QED
        BY <1>1, <2>0, <4>1, <4>2 DEF Answered
    <3>2. CASE op[d] # "undo"
      <4>1. decision'[q] = Outcome(op[d]) /\ undone'[q] = undone[q]
        BY <1>2, <2>2, <3>2 DEF ProposalTypeOK
      <4>2. reversed[q] # 0 => undone[q]
        BY <2>0, <3>0, <3>2 DEF Answered
      <4>3. op[d] = "copilotDismiss" => runs[q] = 0
        <5> SUFFICES ASSUME op[d] = "copilotDismiss" PROVE runs[q] = 0
          OBVIOUS
        <5>1. decision[q] = "pending"
          BY <2>2 DEF Hands
        <5>2. QED
          BY <2>0, <3>0, <5>1 DEF Answered, Applying
      <4>4. QED
        BY <1>1, <1>5, <1>6, <2>0, <3>2, <4>1, <4>2, <4>3 DEF Answered
    <3>3. QED
      BY <3>1, <3>2
  <2>3. QED
    BY <2>1, <2>2
<1>9. QED
  BY <1>4, <1>7, <1>8

(* A row appears that nobody has acted on yet, for a conversation or for a *)
(* run's task.                                                             *)
LEMMA ProposeEffect ==
  ASSUME ProposalTypeOK, DecidedOnly, EffectInv, NEW p \in Proposals,
         decision[p] = "none", decision' = [decision EXCEPT ![p] = "pending"],
         p \in Excused \/ runs[p] = 0,
         UNCHANGED <<undone, rowLock, requests, runs, reversed, crossed, lost>>
  PROVE  EffectInv'
<1> USE DEF EffectInv
<1>1. /\ decision'[p] = "pending"
      /\ \A q \in Proposals : q # p => decision'[q] = decision[q]
      /\ UNCHANGED <<undone, rowLock, op, hand, ran, left, runs, reversed,
                     crossed, lost>>
  BY DEF ProposalTypeOK, requests
<1>2. \A d \in Deciders : p \notin hand[d] /\ hand[d] \subseteq Proposals
  BY DEF DecidedOnly, ProposalTypeOK
<1>3. Hands' /\ Crossing'
  BY <1>1, <1>2 DEF Hands, Crossing
<1>4. Counted'
  BY <1>1 DEF Counted
<1>5. Single'
  BY <1>1 DEF Single, Answered, Excused
<1>6. QED
  BY <1>3, <1>4, <1>5

LEMMA DecideEffect ==
  ASSUME ProposalTypeOK, DecidedOnly, EffectInv, DecisionNext,
         Copilot \cap (Runs \X Indices) = {}
  PROVE  EffectInv'
<1>1. ASSUME NEW d \in Deciders, NEW p \in Proposals, TakeToApply(d, p)
      PROVE  EffectInv'
  <2>1. /\ Take(d, "apply", {p}) /\ {p} \subseteq Pending
        /\ rowLock[p] = Nobody /\ rowLock' = [rowLock EXCEPT ![p] = d]
    BY <1>1 DEF TakeToApply
  <2>2. rowLock' = [q \in Proposals |-> IF q \in {p} THEN d ELSE rowLock[q]]
    BY <2>1 DEF ProposalTypeOK
  <2>3. QED
    BY <2>1, <2>2, TakeEffect DEF Ops
<1>2. ASSUME NEW d \in Deciders, NEW p \in Proposals, TakeFromConversation(d, p)
      PROVE  EffectInv'
  <2>1. rowLock' = rowLock
    BY <1>2 DEF TakeFromConversation
  <2>2. CASE p \in Pending /\ Take(d, "copilotApply", {p})
    BY <2>1, <2>2, TakeEffect DEF Ops
  <2>3. CASE p \in Pending /\ Take(d, "copilotDismiss", {p})
    BY <2>1, <2>3, TakeEffect DEF Ops
  <2>4. CASE ~undone[p] /\ Take(d, "undo", {p})
    BY <2>1, <2>4, TakeEffect DEF Ops
  <2>5. QED
    BY <1>2, <2>2, <2>3, <2>4 DEF TakeFromConversation
<1>3. ASSUME NEW d \in Deciders, NEW S \in SUBSET Proposals, TakeBulk(d, S)
      PROVE  EffectInv'
  BY <1>3, TakeEffect DEF Ops, TakeBulk
<1>4. ASSUME NEW p \in Proposals, RecordProposal(p) PROVE EffectInv'
  <2>1. runs[p] = 0
    BY <1>4 DEF RecordProposal, EffectInv, Counted
  <2>2. QED
    BY <1>4, <2>1, ProposeEffect DEF RecordProposal
<1>5. QED
  BY <1>1, <1>2, <1>3, <1>4, PerformEffect, RefuseEffect, RecordEffect,
     DieEffect, DismissEffect DEF DecisionNext, Decide

------------------------------------------------------------------------------
(* What the log says of a task *)

(* What the log's line for a task says, and what was done about the task.  *)
TaskLine(r, i) ==
  /\ i < index[r] => log[r][i] # "none"
  /\ i >= index[r] /\ log[r][i] # "none" => i = index[r] /\ status[r] \in Ended
  /\ decision[<<r, i>>] # "none" => log[r][i] = "proposed"
  /\ log[r][i] = "applied" => runs[<<r, i>>] > 0
  /\ log[r][i] \in {"denied", "simulated", "error"} /\ runs[<<r, i>>] > 0 =>
       <<r, i>> \in lost
  /\ i >= index[r] /\ runs[<<r, i>>] > 0 =>
       \/ <<r, i>> \in lost
       \/ \E w \in Workers : /\ phase[w] = "performed" /\ kind[w] = "applied"
                             /\ job[w] = <<r, i>>

StepsCount ==
  \A w \in Workers :
    phase[w] = "performed" /\ kind[w] = "applied" => runs[job[w]] > 0

TaskInv == StepsCount /\ \A r \in Runs, i \in Indices : TaskLine(r, i)

LEMMA TaskInit == RunInit => TaskInv
<1> SUFFICES ASSUME RunInit PROVE TaskInv
  OBVIOUS
<1> QED
  BY Tasks DEF RunInit, DecisionInit, TaskInv, TaskLine, StepsCount

(* What leaves the tasks and the steps alone, but for more in lost.        *)
LEMMA TaskIdle ==
  ASSUME TaskInv, lost \subseteq lost',
         UNCHANGED <<decision, runs, index, log, phase, job, kind>>,
         \A r \in Runs : status[r] \in Ended => status'[r] \in Ended
  PROVE  TaskInv'
BY DEF TaskInv, TaskLine, StepsCount

(* A relay on its way to a task or from it.                                *)
LEMMA TaskPasses ==
  ASSUME TaskInv, NEW w \in Workers,
         phase[w] # "performed", phase'[w] # "performed",
         \A v \in Workers : v # w =>
           phase'[v] = phase[v] /\ job'[v] = job[v] /\ kind'[v] = kind[v],
         UNCHANGED <<decision, runs, lost, status, index, log>>
  PROVE  TaskInv'
<1>1. \A v \in Workers : phase'[v] = "performed" /\ kind'[v] = "applied" =>
        runs[job'[v]] > 0
  BY DEF TaskInv, StepsCount
<1>2. ASSUME NEW t, \E v \in Workers : /\ phase[v] = "performed"
                                       /\ kind[v] = "applied" /\ job[v] = t
      PROVE  \E v \in Workers : /\ phase'[v] = "performed"
                                /\ kind'[v] = "applied" /\ job'[v] = t
  <2>1. PICK v \in Workers : /\ phase[v] = "performed"
                             /\ kind[v] = "applied" /\ job[v] = t
    BY <1>2
  <2>2. v # w
    BY <2>1
  <2>3. QED
    BY <2>1, <2>2
<1>3. ASSUME NEW r \in Runs, NEW i \in Indices PROVE TaskLine(r, i)'
  <2>1. TaskLine(r, i)
    BY DEF TaskInv
  <2>2. QED
    BY <1>2, <2>1 DEF TaskLine
<1>4. StepsCount'
  BY <1>1 DEF StepsCount
<1>5. QED
  BY <1>3, <1>4 DEF TaskInv

(* Nobody decides on what no row says, nor undoes what was done.           *)
LEMMA DecisionRuns ==
  ASSUME ProposalTypeOK, DecidedOnly, DecisionNext
  PROVE  /\ \A p \in Proposals : runs'[p] # runs[p] =>
              decision[p] # "none" /\ runs'[p] > 0
         /\ \A p \in Proposals : runs[p] > 0 => runs'[p] > 0
         /\ lost \subseteq lost'
<1>1. ASSUME NEW d \in Deciders, Perform(d)
      PROVE  /\ \A p \in Proposals : runs'[p] # runs[p] =>
                  decision[p] # "none" /\ runs'[p] > 0
             /\ \A p \in Proposals : runs[p] > 0 => runs'[p] > 0
             /\ lost' = lost
  <2>1. PICK p \in left[d] : \/ runs' = [runs EXCEPT ![p] = @ + 1]
                             \/ UNCHANGED runs
    BY <1>1 DEF Perform
  <2>2. decision[p] # "none" /\ p \in Proposals /\ runs[p] \in Nat
    BY DEF DecidedOnly, ProposalTypeOK
  <2>3. QED
    BY <1>1, <2>1, <2>2 DEF Perform, ProposalTypeOK
<1>2. ASSUME runs' = runs, lost \subseteq lost'
      PROVE  /\ \A p \in Proposals : runs'[p] # runs[p] =>
                  decision[p] # "none" /\ runs'[p] > 0
             /\ \A p \in Proposals : runs[p] > 0 => runs'[p] > 0
             /\ lost \subseteq lost'
  BY <1>2
<1>3. ASSUME NEW d \in Deciders, Die(d) PROVE runs' = runs /\ lost \subseteq lost'
  BY <1>3 DEF Die
<1>4. QED
  BY <1>1, <1>2, <1>3 DEF DecisionNext, Decide, RecordProposal, TakeToApply,
     TakeFromConversation, TakeBulk, Take, Refuse, Record, Dismiss

LEMMA TaskDecide ==
  ASSUME AgentInv, TaskInv, DecisionNext,
         UNCHANGED <<runRows, agent, cancelling, workers>>
  PROVE  TaskInv'
<1> USE DEF AgentInv
<1>1. RowsStand
  BY DecisionKeeps
<1>2. UNCHANGED <<status, index, log, phase, job, kind>>
  BY DEF runRows, workers
<1> SUFFICES ASSUME NEW r \in Runs, NEW i \in Indices PROVE TaskLine(r, i)'
  <2>1. StepsCount'
    BY <1>2, Jobs, Tasks, DecisionRuns DEF TaskInv, StepsCount
  <2>2. QED
    BY <2>1 DEF TaskInv
<1> DEFINE t == <<r, i>>
<1>3. t \in Proposals \ Copilot
  BY Tasks
<1>4. /\ runs'[t] # runs[t] => decision[t] # "none"
      /\ runs[t] > 0 => runs'[t] > 0
      /\ lost \subseteq lost'
  BY <1>3, DecisionRuns
<1>5. decision'[t] # "none" => decision[t] # "none"
  BY <1>1, <1>3 DEF RowsStand
<1>6. /\ decision[t] # "none" => log[r][i] = "proposed"
      /\ i >= index[r] => decision[t] = "none"
  BY DEF TaskInv, TaskLine, FreshTasks
<1>7. TaskLine(r, i)
  BY DEF TaskInv
<1>8. QED
  BY <1>2, <1>4, <1>5, <1>6, <1>7 DEF TaskLine

(* What is known of the task of a step that is past load.                  *)
LEMMA TaskAtHand ==
  ASSUME AgentInv, TaskInv, NEW w \in Workers,
         phase[w] \in {"loaded", "performed"}
  PROVE  /\ job[w] \in Proposals /\ index[job[w][1]] = job[w][2]
         /\ status[job[w][1]] = "running" /\ status[job[w][1]] \notin Ended
         /\ decision[job[w]] = "none"
         /\ \A j \in Indices : j >= job[w][2] => log[job[w][1]][j] = "none"
         /\ runs[job[w]] > 0 => \/ job[w] \in lost
                                \/ phase[w] = "performed" /\ kind[w] = "applied"
         /\ \A v \in Workers : v # w /\ phase[v] = "performed" =>
              job[v][1] # job[w][1]
<1> USE DEF AgentInv
<1>1. /\ job[w][1] \in Runs /\ job[w][2] \in Indices
      /\ job[w] = <<job[w][1], job[w][2]>> /\ job[w] \in Proposals
      /\ index[job[w][1]] = job[w][2] /\ status[job[w][1]] = "running"
      /\ job[w][2] >= index[job[w][1]] /\ TaskLine(job[w][1], job[w][2])
  BY Jobs, Tasks DEF StepsKnow, Current, TaskInv
<1>2. status[job[w][1]] \notin Ended
  BY <1>1 DEF Ended
<1>3. \A v \in Workers : v # w /\ phase[v] = "performed" => job[v][1] # job[w][1]
  BY NobodyElse DEF Holds
<1>4. decision[job[w]] = "none"
  BY <1>1 DEF FreshTasks
<1>5. \A j \in Indices : j >= job[w][2] => log[job[w][1]][j] = "none"
  BY <1>1, <1>2 DEF TaskInv, TaskLine
<1>6. runs[job[w]] > 0 => \/ job[w] \in lost
                          \/ phase[w] = "performed" /\ kind[w] = "applied"
  <2> SUFFICES ASSUME runs[job[w]] > 0, job[w] \notin lost
               PROVE  phase[w] = "performed" /\ kind[w] = "applied"
    OBVIOUS
  <2>1. PICK v \in Workers : phase[v] = "performed" /\ kind[v] = "applied"
                               /\ job[v] = job[w]
    BY <1>1 DEF TaskLine
  <2>2. QED
    BY <1>3, <2>1
<1>7. QED
  BY <1>1, <1>2, <1>3, <1>4, <1>5, <1>6

LEMMA TaskHalt ==
  ASSUME AgentInv, TaskInv, NEW w \in Workers, Halt(w)
  PROVE  TaskInv'
<1> USE DEF AgentInv
<1> DEFINE r == job[w][1]
<1> DEFINE i == job[w][2]
<1>0. /\ phase[w] = "loaded" /\ r \in Runs /\ i \in Indices /\ job[w] = <<r, i>>
      /\ phase' = [phase EXCEPT ![w] = "done"]
      /\ UNCHANGED <<decision, runs, lost, index, job, kind>>
  BY Jobs DEF Halt, decisionVars, rows
<1>1. PICK end \in {"cancelled", "failed"} :
        /\ status' = [status EXCEPT ![r] = end]
        /\ log' = [log EXCEPT ![r][i] =
             IF end = "cancelled" THEN "denied" ELSE "error"]
  BY DEF Halt, RunOf, TaskOf
<1>2. /\ \A q \in Runs : q # r => status'[q] = status[q] /\ log'[q] = log[q]
      /\ status'[r] \in Ended
      /\ \A j \in Indices : j # i => log'[r][j] = log[r][j]
      /\ log'[r][i] \in {"denied", "error"}
      /\ \A v \in Workers : v # w => phase'[v] = phase[v]
      /\ phase'[w] = "done"
  BY <1>0, <1>1 DEF RunTypeOK, Ended
<1>3. /\ index[r] = i /\ decision[<<r, i>>] = "none"
      /\ \A j \in Indices : j >= i => log[r][j] = "none"
      /\ runs[<<r, i>>] > 0 => <<r, i>> \in lost
  BY <1>0, TaskAtHand
<1>4. i \in Int
  BY <1>0, Tasks
<1>5. \A v \in Workers :
        /\ phase'[v] = "performed" => phase[v] = "performed" /\ v # w
        /\ phase[v] = "performed" => phase'[v] = "performed"
  BY <1>0, <1>2
<1> SUFFICES ASSUME NEW q \in Runs, NEW j \in Indices PROVE TaskLine(q, j)'
  <2>1. StepsCount'
    BY <1>0, <1>5 DEF TaskInv, StepsCount
  <2>2. QED
    BY <2>1 DEF TaskInv
<1>6. /\ TaskLine(q, j)
      /\ j >= index[q] /\ runs[<<q, j>>] > 0 =>
           \/ <<q, j>> \in lost
           \/ \E v \in Workers : /\ phase'[v] = "performed"
                                 /\ kind[v] = "applied" /\ job[v] = <<q, j>>
  BY <1>5 DEF TaskInv, TaskLine
<1>7. CASE q # r
  BY <1>0, <1>2, <1>6, <1>7 DEF TaskLine
<1>8. CASE q = r /\ j # i
  <2>1. log'[q][j] = log[q][j] /\ status'[q] \in Ended
    BY <1>2, <1>8
  <2>2. j \in Int
    BY Tasks
  <2>3. j > i => log[q][j] = "none"
    BY <1>3, <1>4, <1>8, <2>2
  <2>4. QED
    BY <1>0, <1>3, <1>4, <1>6, <1>8, <2>1, <2>2, <2>3 DEF TaskLine
<1>9. CASE q = r /\ j = i
  <2>1. log'[q][j] \in {"denied", "error"} /\ status'[q] \in Ended
    BY <1>2, <1>9
  <2>2. QED
    BY <1>0, <1>3, <1>4, <1>6, <1>9, <2>1 DEF TaskLine
<1>10. QED
  BY <1>7, <1>8, <1>9

LEMMA TaskPerform ==
  ASSUME AgentInv, TaskInv, EffectInv, NEW w \in Workers, PerformTask(w)
  PROVE  TaskInv' /\ EffectInv'
<1> USE DEF AgentInv
<1> DEFINE t == job[w]
<1>0. /\ phase[w] = "loaded" /\ phase' = [phase EXCEPT ![w] = "performed"]
      /\ UNCHANGED <<decision, undone, rowLock, op, hand, ran, left, reversed,
                     crossed, lost, index, status, log, job>>
  BY DEF PerformTask, rows, requests, runRows
<1>1. \/ kind' = [kind EXCEPT ![w] = "applied"] /\ runs' = [runs EXCEPT ![t] = @ + 1]
      \/ kind' = [kind EXCEPT ![w] = "error"] /\ UNCHANGED runs
  BY DEF PerformTask
<1>2. /\ t \in Proposals /\ decision[t] = "none"
      /\ runs[t] > 0 => t \in lost
      /\ t = <<t[1], t[2]>> /\ t[1] \in Runs /\ t[2] \in Indices
      /\ log[t[1]][t[2]] = "none"
  BY <1>0, Jobs, Tasks, TaskAtHand
<1>3. /\ runs[t] \in Nat
      /\ \A p \in Proposals : p # t => runs'[p] = runs[p]
      /\ runs'[t] \in {runs[t], runs[t] + 1}
      /\ \A v \in Workers : v # w => phase'[v] = phase[v] /\ kind'[v] = kind[v]
      /\ phase'[w] = "performed"
      /\ kind'[w] = "applied" => runs'[t] = runs[t] + 1
      /\ runs'[t] # runs[t] => kind'[w] = "applied"
  <2>1. runs[t] \in Nat /\ runs \in [Proposals -> Nat]
    BY <1>2 DEF ProposalTypeOK
  <2>2. /\ \A v \in Workers : v # w => phase'[v] = phase[v] /\ kind'[v] = kind[v]
        /\ phase'[w] = "performed"
    BY <1>0, <1>1 DEF RunTypeOK
  <2>3. \/ kind'[w] = "applied" /\ runs' = [runs EXCEPT ![t] = @ + 1]
        \/ kind'[w] = "error" /\ runs' = runs
    BY <1>1 DEF RunTypeOK
  <2>4. QED
    BY <1>2, <2>1, <2>2, <2>3
<1>4. EffectInv'
  <2> USE DEF EffectInv
  <2>1. Hands' /\ Crossing'
    BY <1>0 DEF Hands, Crossing
  <2>2. Counted'
    <3>1. \A p \in Proposals : runs[p] > 0 => runs'[p] > 0
      BY <1>3
    <3>2. t \in Runs \X Indices
      BY <1>2
    <3>3. QED
      BY <1>0, <1>3, <3>1, <3>2 DEF Counted
  <2>3. Single'
    <3> SUFFICES ASSUME NEW q \in Proposals, q \notin crossed, q \notin lost
                 PROVE  Answered(q)'
      BY <1>0 DEF Single, Excused
    <3>1. Answered(q)
      BY DEF Single, Excused
    <3>2. q = t => runs'[q] \in {0, 1}
      BY <1>2, <1>3
    <3>3. QED
      BY <1>0, <1>2, <1>3, <3>1, <3>2 DEF Answered
  <2>4. QED
    BY <2>1, <2>2, <2>3
<1>5. TaskInv'
  <2> SUFFICES ASSUME NEW q \in Runs, NEW j \in Indices PROVE TaskLine(q, j)'
    <3>1. ASSUME NEW v \in Workers, phase'[v] = "performed", kind'[v] = "applied"
          PROVE  runs'[job[v]] > 0
      <4>1. CASE v = w
        BY <1>3, <3>1, <4>1
      <4>2. CASE v # w
        <5>1. runs[job[v]] > 0 /\ job[v] \in Proposals
          BY <1>3, <3>1, <4>2, Jobs, Tasks DEF TaskInv, StepsCount
        <5>2. QED
          BY <1>3, <5>1
      <4>3. QED
        BY <4>1, <4>2
    <3>2. QED
      BY <1>0, <3>1 DEF TaskInv, StepsCount
  <2>0. TaskLine(q, j)
    BY DEF TaskInv
  <2>1. <<q, j>> \in Proposals
    BY Tasks
  <2>2. CASE <<q, j>> = t
    <3>1. log[q][j] = "none"
      BY <1>2, <2>2
    <3>2. runs'[t] > 0 => t \in lost \/ kind'[w] = "applied"
      BY <1>2, <1>3
    <3>3. QED
      BY <1>0, <1>2, <1>3, <2>0, <2>2, <3>1, <3>2 DEF TaskLine
  <2>3. CASE <<q, j>> # t
    <3>1. runs'[<<q, j>>] = runs[<<q, j>>]
      BY <1>3, <2>1, <2>3
    <3>2. \A v \in Workers : job[v] = <<q, j>> => v # w
      BY <2>3
    <3>3. QED
      BY <1>0, <1>3, <2>0, <3>1, <3>2 DEF TaskLine
  <2>4. QED
    BY <2>2, <2>3
<1>6. QED
  BY <1>4, <1>5

LEMMA TaskConclude ==
  ASSUME AgentInv, TaskInv, EffectInv, NEW w \in Workers, Conclude(w)
  PROVE  TaskInv' /\ EffectInv'
<1> USE DEF AgentInv
<1> DEFINE r == job[w][1]
<1> DEFINE i == job[w][2]
<1>0. /\ phase[w] \in {"loaded", "performed"}
      /\ UNCHANGED <<undone, rowLock, requests, runs, reversed, crossed, lost, job>>
      /\ kind' = [kind EXCEPT ![w] = "none"]
  BY DEF Conclude
<1>1. PICK k \in Kinds : /\ Advance(w, k)
                         /\ phase[w] = "performed" => k = kind[w]
                         /\ phase[w] = "loaded" => k # "applied"
  <2>1. CASE phase[w] = "performed" /\ Advance(w, kind[w])
    BY <2>1 DEF StepsKnow
  <2>2. CASE phase[w] = "loaded" /\ \E k \in Quiet(w) : Advance(w, k)
    <3>1. Quiet(w) \subseteq Kinds \ {"applied"}
      BY DEF Quiet, Kinds, RunTypeOK, Modes
    <3>2. QED
      BY <2>2, <3>1
  <2>3. QED
    BY <2>1, <2>2 DEF Conclude
<1>2. /\ r \in Runs /\ i \in Indices /\ i \in Int /\ job[w] = <<r, i>>
      /\ job[w] \in Proposals /\ index[r] = i /\ decision[<<r, i>>] = "none"
      /\ \A j \in Indices : j >= i => log[r][j] = "none"
      /\ runs[<<r, i>>] > 0 => \/ <<r, i>> \in lost
                               \/ phase[w] = "performed" /\ kind[w] = "applied"
      /\ \A v \in Workers : v # w /\ phase[v] = "performed" => job[v][1] # r
  BY <1>0, Jobs, Tasks, TaskAtHand
<1>3. /\ index' = [index EXCEPT ![r] = i + 1]
      /\ log' = [log EXCEPT ![r][i] = k]
      /\ decision' = IF k = "proposed"
                       THEN [decision EXCEPT ![job[w]] = "pending"] ELSE decision
      /\ phase' = [phase EXCEPT ![w] = "done"]
      /\ \E x : status' = [status EXCEPT ![r] = x]
  BY <1>1 DEF Advance, RunOf, TaskOf
<1>4. /\ \A q \in Runs : q # r => /\ status'[q] = status[q] /\ log'[q] = log[q]
                                  /\ index'[q] = index[q]
      /\ \A j \in Indices : j # i => log'[r][j] = log[r][j]
      /\ log'[r][i] = k /\ index'[r] = i + 1
  BY <1>2, <1>3 DEF RunTypeOK
<1>5. \A v \in Workers :
        /\ phase'[v] = "performed" => /\ phase[v] = "performed" /\ v # w
                                      /\ kind'[v] = kind[v]
        /\ phase[v] = "performed" /\ v # w =>
             phase'[v] = "performed" /\ kind'[v] = kind[v]
  BY <1>0, <1>3 DEF RunTypeOK
<1>6. k = "proposed" => <<r, i>> \in lost \/ runs[<<r, i>>] = 0
  <2>1. runs[<<r, i>>] \in Nat
    BY <1>2 DEF ProposalTypeOK
  <2>2. QED
    BY <1>1, <1>2, <2>1
<1>7. EffectInv'
  <2>1. CASE k = "proposed"
    BY <1>0, <1>2, <1>3, <1>6, <2>1, ProposeEffect DEF Excused
  <2>2. CASE k # "proposed"
    <3>1. UNCHANGED <<decision, undone, rowLock, op, hand, ran, left, runs,
                      reversed, crossed, lost>>
      BY <1>0, <1>3, <2>2 DEF requests
    <3>2. QED
      BY <3>1 DEF EffectInv, Hands, Crossing, Counted, Single, Answered, Excused
  <2>3. QED
    BY <2>1, <2>2
<1>8. TaskInv'
  <2>1. StepsCount'
    BY <1>0, <1>5 DEF TaskInv, StepsCount
  <2> SUFFICES ASSUME NEW q \in Runs, NEW j \in Indices PROVE TaskLine(q, j)'
    BY <2>1 DEF TaskInv
  <2>2. TaskLine(q, j) /\ <<q, j>> \in Proposals /\ j \in Int
    BY Tasks DEF TaskInv
  <2>3. CASE q # r
    <3>1. decision'[<<q, j>>] = decision[<<q, j>>]
      BY <1>2, <1>3, <2>2, <2>3 DEF ProposalTypeOK
    <3>2. (\E v \in Workers : /\ phase[v] = "performed" /\ kind[v] = "applied"
                              /\ job[v] = <<q, j>>) =>
             \E v \in Workers : /\ phase'[v] = "performed" /\ kind'[v] = "applied"
                                /\ job'[v] = <<q, j>>
      <4> SUFFICES ASSUME NEW v \in Workers, phase[v] = "performed",
                          kind[v] = "applied", job[v] = <<q, j>>
                   PROVE  /\ phase'[v] = "performed" /\ kind'[v] = "applied"
                          /\ job'[v] = <<q, j>>
        OBVIOUS
      <4>1. v # w
        BY <2>3
      <4>2. QED
        BY <1>0, <1>5, <4>1
    <3>3. QED
      BY <1>0, <1>4, <2>2, <2>3, <3>1, <3>2 DEF TaskLine
  <2>4. CASE q = r /\ j # i
    <3>1. /\ decision'[<<q, j>>] = decision[<<q, j>>]
          /\ log'[q][j] = log[q][j] /\ index'[q] = i + 1
      BY <1>2, <1>3, <1>4, <2>2, <2>4 DEF ProposalTypeOK
    <3>2. j > i => log[q][j] = "none"
      BY <1>2, <2>2, <2>4
    <3>3. j > i /\ runs[<<q, j>>] > 0 => <<q, j>> \in lost
      <4> SUFFICES ASSUME j > i, runs[<<q, j>>] > 0, <<q, j>> \notin lost
                   PROVE  FALSE
        OBVIOUS
      <4>1. PICK v \in Workers : phase[v] = "performed" /\ job[v] = <<q, j>>
        BY <1>2, <2>2, <2>4 DEF TaskLine
      <4>2. QED
        BY <1>2, <2>4, <4>1
    <3>4. /\ j < i + 1 => j < index[q]
          /\ j >= i + 1 => j > i
      BY <1>2, <2>2, <2>4
    <3>5. QED
      BY <1>0, <2>2, <2>4, <3>1, <3>2, <3>3, <3>4 DEF TaskLine
  <2>5. CASE q = r /\ j = i
    <3>1. log'[q][j] = k /\ index'[q] = i + 1 /\ k # "none"
      BY <1>4, <2>5 DEF Kinds
    <3>2. decision'[<<q, j>>] # "none" => k = "proposed"
      BY <1>2, <1>3, <2>5
    <3>3. k = "applied" => runs[<<q, j>>] > 0
      BY <1>0, <1>1, <1>2, <2>5 DEF TaskInv, StepsCount
    <3>4. k # "applied" /\ runs[<<q, j>>] > 0 => <<q, j>> \in lost
      BY <1>0, <1>1, <1>2, <2>5
    <3>5. j < i + 1 /\ ~(j >= i + 1)
      BY <1>2, <2>5
    <3>6. QED
      BY <1>0, <3>1, <3>2, <3>3, <3>4, <3>5 DEF TaskLine
  <2>6. QED
    BY <2>3, <2>4, <2>5
<1>9. QED
  BY <1>7, <1>8

LEMMA TaskDies ==
  ASSUME AgentInv, TaskInv, EffectInv, NEW w \in Workers, StepDies(w)
  PROVE  TaskInv' /\ EffectInv'
<1> USE DEF AgentInv
<1>1. /\ phase' = [phase EXCEPT ![w] = "idle"]
      /\ kind' = [kind EXCEPT ![w] = "none"]
      /\ job' = [job EXCEPT ![w] = NoJob]
      /\ lost' = IF kind[w] = "applied" THEN lost \cup {job[w]} ELSE lost
      /\ UNCHANGED <<decision, undone, rowLock, op, hand, ran, left, runs,
                     reversed, crossed, status, index, log>>
  BY DEF StepDies, rows, requests
<1>2. \A v \in Workers :
        /\ phase'[v] = "performed" => v # w
        /\ v # w => phase'[v] = phase[v] /\ kind'[v] = kind[v] /\ job'[v] = job[v]
  BY <1>1 DEF RunTypeOK
<1>3. EffectInv'
  BY <1>1 DEF EffectInv, Hands, Crossing, Counted, Single, Answered, Excused
<1>4. StepsCount'
  BY <1>1, <1>2 DEF TaskInv, StepsCount
<1>5. ASSUME NEW q \in Runs, NEW j \in Indices PROVE TaskLine(q, j)'
  <2>1. TaskLine(q, j)
    BY DEF TaskInv
  <2>2. (\E v \in Workers : /\ phase[v] = "performed" /\ kind[v] = "applied"
                            /\ job[v] = <<q, j>>) =>
          \/ <<q, j>> \in lost'
          \/ \E v \in Workers : /\ phase'[v] = "performed" /\ kind'[v] = "applied"
                                /\ job'[v] = <<q, j>>
    BY <1>1, <1>2
  <2>3. lost \subseteq lost'
    BY <1>1
  <2>4. QED
    BY <1>1, <2>1, <2>2, <2>3 DEF TaskLine
<1>6. QED
  BY <1>3, <1>4, <1>5 DEF TaskInv

(* Everything there is to know of decisions and runs. *)
WorkInv == AgentInv /\ EffectInv /\ TaskInv

LEMMA WorkStepInv ==
  ASSUME WorkInv, [AgentNext]_runVars
  PROVE  WorkInv'
<1> USE DEF WorkInv
<1>0. AgentInv'
  BY AgentStepInv
<1>1. RunTypeOK /\ ProposalTypeOK /\ DecidedOnly
  BY DEF AgentInv
<1>2. ASSUME UNCHANGED decisionVars, UNCHANGED <<index, log, workers>>,
             \A r \in Runs : status[r] \in Ended => status'[r] \in Ended
      PROVE  EffectInv' /\ TaskInv'
  BY <1>2, EffectIdle, TaskIdle DEF decisionVars, rows, workers
<1>3. ASSUME UNCHANGED decisionVars, UNCHANGED <<status, index, log>>,
             NEW w \in Workers, phase[w] # "performed", phase'[w] # "performed",
             \A v \in Workers : v # w =>
               phase'[v] = phase[v] /\ job'[v] = job[v] /\ kind'[v] = kind[v]
      PROVE  EffectInv' /\ TaskInv'
  BY <1>3, EffectIdle, TaskPasses DEF decisionVars, rows
<1>4. ASSUME NEW r \in Runs,
             StartRun(r) \/ ReadToCancel(r) \/ AbandonCancel(r) \/ Cancel(r)
      PROVE  EffectInv' /\ TaskInv'
  <2>1. \A q \in Runs : status[q] \in Ended => status'[q] \in Ended
    BY <1>1, <1>4 DEF StartRun, ReadToCancel, AbandonCancel, Cancel, Ended,
                      runRows, RunTypeOK
  <2>2. UNCHANGED decisionVars /\ UNCHANGED <<index, log, workers>>
    BY <1>4 DEF StartRun, ReadToCancel, AbandonCancel, Cancel, runRows
  <2>3. QED
    BY <1>2, <2>1, <2>2
<1>5. ASSUME NEW on \in BOOLEAN, NEW mode \in Modes, SetAgent(on, mode)
      PROVE  EffectInv' /\ TaskInv'
  BY <1>2, <1>5 DEF SetAgent, runRows
<1>6. ASSUME NEW w \in Workers, NEW r \in Runs, NEW i \in Indices, Peek(w, r, i)
      PROVE  EffectInv' /\ TaskInv'
  <2>1. /\ phase[w] = "idle" /\ phase'[w] \in {"peeked", "done"}
        /\ \A v \in Workers : v # w =>
             phase'[v] = phase[v] /\ job'[v] = job[v] /\ kind'[v] = kind[v]
    BY <1>1, <1>6 DEF Peek, RunTypeOK
  <2>2. QED
    BY <1>3, <1>6, <2>1 DEF Peek, runRows
<1>7. ASSUME NEW w \in Workers, Load(w) PROVE EffectInv' /\ TaskInv'
  <2>1. /\ phase[w] = "peeked" /\ phase'[w] \in {"loaded", "done"}
        /\ \A v \in Workers : v # w =>
             phase'[v] = phase[v] /\ job'[v] = job[v] /\ kind'[v] = kind[v]
    BY <1>1, <1>7 DEF Load, RunTypeOK
  <2>2. QED
    BY <1>3, <1>7, <2>1 DEF Load
<1>8. ASSUME NEW w \in Workers, Halt(w) PROVE EffectInv' /\ TaskInv'
  BY <1>8, EffectIdle, TaskHalt DEF Halt
<1>9. ASSUME NEW w \in Workers, Settle(w) PROVE EffectInv' /\ TaskInv'
  <2>1. /\ phase[w] = "done" /\ phase'[w] = "idle"
        /\ \A v \in Workers : v # w =>
             phase'[v] = phase[v] /\ job'[v] = job[v] /\ kind'[v] = kind[v]
    BY <1>1, <1>9 DEF Settle, RunTypeOK
  <2>2. QED
    BY <1>3, <1>9, <2>1 DEF Settle
<1>10. ASSUME NEW w \in Workers, PerformTask(w) \/ Conclude(w) \/ StepDies(w)
       PROVE  EffectInv' /\ TaskInv'
  BY <1>10, TaskPerform, TaskConclude, TaskDies
<1>11. ASSUME DecisionNext, UNCHANGED <<runRows, agent, cancelling, workers>>
       PROVE  EffectInv' /\ TaskInv'
  <2>1. Copilot \cap (Runs \X Indices) = {}
    BY RunConstants
  <2>2. QED
    BY <1>1, <1>11, <2>1, DecideEffect, TaskDecide
<1>12. ASSUME UNCHANGED runVars PROVE EffectInv' /\ TaskInv'
  BY <1>2, <1>12 DEF runVars, runRows
<1>13. EffectInv' /\ TaskInv'
  BY <1>4, <1>5, <1>6, <1>7, <1>8, <1>9, <1>10, <1>11, <1>12
     DEF AgentNext, RunNext, WorkerStep
<1>14. QED
  BY <1>0, <1>13

LEMMA WorkInvAlways == AgentSpec => []WorkInv
<1>1. RunInit => WorkInv
  BY AgentInitInv, EffectInit, TaskInit DEF WorkInv, RunInit
<1>2. WorkInv /\ [AgentNext]_runVars => WorkInv'
  BY WorkStepInv
<1>3. QED
  BY <1>1, <1>2, PTL DEF AgentSpec

(* What the lock in decidable is for, a double click that is one decision: *)
(* whoever decides, in whatever way, a proposed action is performed once,  *)
(* and reversed once, unless two requests had it in hand or one died.      *)
THEOREM ProposalsApplyOnce == AgentSpec => []AppliedOnce
<1>1. WorkInv => AppliedOnce
  <2> SUFFICES ASSUME WorkInv, NEW p \in Proposals, p \notin Excused
               PROVE  ~(runs[p] > 1) /\ ~(reversed[p] > 1)
    BY DEF AppliedOnce
  <2>1. runs[p] \in {0, 1} /\ reversed[p] \in {0, 1}
    BY DEF WorkInv, EffectInv, Single, Answered
  <2>2. QED
    BY <2>1
<1>2. QED
  BY <1>1, WorkInvAlways, PTL

(* The two transactions of a decision agree: what is recorded as applied   *)
(* was performed, and what is recorded as dismissed was not.               *)
THEOREM RecordsMatchEffects == AgentSpec => []RecordMatchesEffect
<1>1. WorkInv => RecordMatchesEffect
  BY DEF WorkInv, EffectInv, Counted, Single, Answered, RecordMatchesEffect
<1>2. QED
  BY <1>1, WorkInvAlways, PTL

(* The run's log tells a person what happened: an applied task was         *)
(* performed, a denied, simulated or refused one was not, and one proposed *)
(* waits for a decision, but for steps and requests that crossed or died.  *)
THEOREM LogsAreTruthful == AgentSpec => []LogTruthful
<1>1. WorkInv => LogTruthful
  <2> SUFFICES ASSUME WorkInv PROVE LogTruthful
    OBVIOUS
  <2>1. ASSUME NEW r \in Runs, NEW i \in Indices,
               decision[<<r, i>>] = "pending", runs[<<r, i>>] > 0
        PROVE  <<r, i>> \in Excused \/ \E d \in Deciders : <<r, i>> \in ran[d]
    <3>1. <<r, i>> \in Proposals
      BY Tasks
    <3>2. QED
      BY <2>1, <3>1 DEF WorkInv, EffectInv, Single, Answered
  <2>2. \A r \in Runs, i \in Indices : TaskLine(r, i)
    BY DEF WorkInv, TaskInv
  <2>3. QED
    BY <2>1, <2>2 DEF TaskLine, LogTruthful
<1>2. QED
  BY <1>1, WorkInvAlways, PTL

(* What a step may do to a decision that has been made. *)
LEMMA DecisionStep ==
  ASSUME WorkInv, AgentNext, NEW p \in Proposals,
         decision[p] \in {"applied", "dismissed"}, decision'[p] # decision[p]
  PROVE  decision'[p] \in {"applied", "dismissed"} /\ p \in crossed'
<1> USE DEF WorkInv, AgentInv
<1>1. ASSUME NEW d \in Deciders, Record(d)
      PROVE  decision'[p] \in {"applied", "dismissed"} /\ p \in crossed'
  <2>1. /\ decision' = [q \in Proposals |->
             IF q \in ran[d] THEN Outcome(op[d]) ELSE decision[q]]
        /\ op[d] # "undo" /\ op[d] # "idle" /\ crossed' = crossed
    BY <1>1 DEF Record
  <2>2. p \in ran[d] /\ decision'[p] = Outcome(op[d])
    BY <2>1
  <2>3. p \in hand[d] /\ op[d] \in Ops
    BY <2>2 DEF EffectInv, Hands, ProposalTypeOK
  <2>4. p \in crossed
    BY <2>1, <2>3 DEF EffectInv, Hands, Ops
  <2>5. QED
    BY <2>1, <2>2, <2>4 DEF Outcome
<1>2. ASSUME NEW S \in SUBSET Proposals, Dismiss(S) PROVE FALSE
  BY <1>2 DEF Dismiss, Pending
<1>3. ASSUME NEW q \in Proposals, RecordProposal(q) PROVE FALSE
  BY <1>3 DEF RecordProposal, ProposalTypeOK
<1>4. ASSUME NEW w \in Workers, Conclude(w) PROVE FALSE
  <2>1. phase[w] \in {"loaded", "performed"}
    BY <1>4 DEF Conclude
  <2>2. decision[job[w]] = "none"
    BY <2>1, TaskAtHand
  <2>3. decision' = [decision EXCEPT ![job[w]] = "pending"] \/ decision' = decision
    BY <1>4 DEF Conclude, Advance
  <2>4. QED
    BY <2>2, <2>3 DEF ProposalTypeOK
<1>5. ASSUME decision' = decision PROVE FALSE
  BY <1>5
<1>6. QED
  BY <1>1, <1>2, <1>3, <1>4, <1>5
     DEF AgentNext, RunNext, WorkerStep, StartRun, ReadToCancel, Cancel,
         AbandonCancel, SetAgent, Peek, Load, Halt, PerformTask, Settle,
         StepDies, DecisionNext, Decide, TakeToApply, TakeFromConversation,
         TakeBulk, Take, Perform, Refuse, Die, decisionVars, rows

(* Decided is decided, but for two requests that crossed.                  *)
THEOREM DecisionsStand == AgentSpec => DecisionStands
<1>1. WorkInv /\ [AgentNext]_runVars =>
        [\A p \in Proposals :
           decision[p] \in {"applied", "dismissed"} /\ decision'[p] # decision[p]
             => decision'[p] \in {"applied", "dismissed"} /\ p \in crossed']_decision
  BY DecisionStep DEF runVars, decisionVars, rows
<1>2. QED
  BY <1>1, WorkInvAlways, PTL DEF AgentSpec, DecisionStands

------------------------------------------------------------------------------
(* The cap on concurrent calls *)

(* The calls whose slot the counter counts. *)
Lent == Inside \ forgotten

(* What the counter says: a slot for every call it lent one to and every   *)
(* one the dead have left, less those given back that it never lent.       *)
Accounts ==
  /\ AdmissionTypeOK
  /\ counter.value = Cardinality(Lent) + leaked - owed
  /\ ~counter.there =>
       counter.value = 0 /\ Lent = {} /\ leaked = 0 /\ owed = 0
  /\ owed = 0 /\ counter.there => counter.expires
  /\ Cardinality(Running \ forgotten) <= Limit + owed

LEMMA LentFinite ==
  ASSUME AdmissionTypeOK
  PROVE  /\ IsFiniteSet(Lent) /\ IsFiniteSet(Running \ forgotten)
         /\ Cardinality(Lent) \in Nat
         /\ Cardinality(Running \ forgotten) \in Nat
         /\ Cardinality(Running \ forgotten) <= Cardinality(Lent)
<1>1. IsFiniteSet(Lent)
  BY AdmissionConstants, FS_Subset DEF Lent, Inside
<1>2. Running \ forgotten \subseteq Lent
  BY DEF Lent, Inside, Running
<1>3. QED
  BY <1>1, <1>2, FS_Subset, FS_CardinalityType

(* Taking one away from, or adding one to, what the counter counts. *)
LEMMA OneLess ==
  ASSUME NEW S, IsFiniteSet(S), NEW x \in S
  PROVE  Cardinality(S \ {x}) = Cardinality(S) - 1
BY FS_RemoveElement

LEMMA OneMore ==
  ASSUME NEW S, IsFiniteSet(S), NEW x, x \notin S
  PROVE  Cardinality(S \cup {x}) = Cardinality(S) + 1
BY FS_AddElement

LEMMA AccountsInit == AdmissionInit => Accounts
<1> SUFFICES ASSUME AdmissionInit PROVE Accounts
  OBVIOUS
<1>1. Lent = {} /\ Running \ forgotten = {}
  BY DEF AdmissionInit, Lent, Inside, Running
<1>2. Cardinality({}) = 0
  BY FS_EmptySet
<1>3. AdmissionTypeOK
  BY DEF AdmissionInit, AdmissionTypeOK, NoCounter, Inside
<1>4. QED
  BY <1>1, <1>2, <1>3, AdmissionConstants
     DEF AdmissionInit, Accounts, NoCounter

(* What the cache answers to an increment has the shape of a counter. *)
LEMMA IncrType ==
  ASSUME AdmissionTypeOK, NEW delta \in Int, NEW ttl \in BOOLEAN,
         Incr(delta, ttl)
  PROVE  counter' \in [there : BOOLEAN, value : Int, expires : BOOLEAN]
<1> DEFINE x == IF counter.there THEN counter.expires ELSE ttl
<1>1. counter.expires \in BOOLEAN /\ counter.value \in Int
  BY DEF AdmissionTypeOK
<1>2. x \in BOOLEAN
  BY <1>1, Zenon
<1>3. counter.value + delta \in Int
  BY <1>1
<1>4. counter' = [there |-> TRUE, value |-> counter.value + delta, expires |-> x]
  BY DEF Incr
<1>5. QED
  <2> HIDE DEF x
  <2>1. QED
    BY <1>2, <1>3, <1>4, Zenon

LEMMA AskAccounts ==
  ASSUME Accounts, NEW c \in Calls, Ask(c)
  PROVE  Accounts'
<1> DEFINE fresh == IF counter.value + 1 > Limit THEN "refused" ELSE "running"
<1>0. AdmissionTypeOK /\ Limit \in Nat
  BY AdmissionConstants DEF Accounts
<1>1. /\ call' = [call EXCEPT ![c] = fresh]
      /\ c \notin Inside
      /\ UNCHANGED <<forgotten, owed, leaked, killed>>
      /\ counter' = [there |-> TRUE, value |-> counter.value + 1,
           expires |-> IF counter.there THEN counter.expires ELSE TRUE]
  BY DEF Ask, Incr, Inside
<1>2. Inside' = Inside \cup {c}
  BY <1>0, <1>1 DEF Inside, AdmissionTypeOK
<1>3. Lent' = Lent \cup {c} /\ c \notin Lent
  BY <1>0, <1>1, <1>2 DEF Lent, AdmissionTypeOK
<1>4. Cardinality(Lent') = Cardinality(Lent) + 1
  BY <1>0, <1>3, LentFinite, OneMore
<1>5. AdmissionTypeOK'
  <2>1. counter' \in [there : BOOLEAN, value : Int, expires : BOOLEAN]
    <3>1. Incr(1, TRUE)
      BY DEF Ask
    <3>2. 1 \in Int /\ TRUE \in BOOLEAN
      OBVIOUS
    <3>3. QED
      BY <1>0, <3>1, <3>2, IncrType, Zenon
  <2>2. call' \in [Calls -> {"outside", "refused", "running"}]
    BY <1>0, <1>1 DEF AdmissionTypeOK
  <2>3. forgotten' \subseteq Inside'
    BY <1>0, <1>1, <1>2 DEF AdmissionTypeOK
  <2>4. QED
    BY <1>0, <1>1, <2>1, <2>2, <2>3 DEF AdmissionTypeOK
<1>6. Cardinality(Running \ forgotten)' <= Limit + owed'
  <2>1. CASE counter.value + 1 > Limit
    <3>1. (Running \ forgotten)' = Running \ forgotten
      BY <1>0, <1>1, <2>1 DEF Running, Inside, AdmissionTypeOK
    <3>2. QED
      BY <3>1, <1>1 DEF Accounts
  <2>2. CASE ~(counter.value + 1 > Limit)
    <3>1. Cardinality(Lent') <= Limit + owed
      BY <1>0, <1>4, <2>2, LentFinite DEF Accounts, AdmissionTypeOK
    <3>2. QED
      <4>1. Cardinality(Running \ forgotten)' <= Cardinality(Lent')
        <5>1. (Running \ forgotten)' \subseteq Lent' /\ IsFiniteSet(Lent')
          <6>1. IsFiniteSet(Lent')
            BY <1>0, <1>3, LentFinite, FS_AddElement
          <6>2. QED
            BY <6>1 DEF Lent, Running, Inside
        <5>2. QED
          BY <5>1, FS_Subset
      <4>2. /\ Cardinality(Running \ forgotten)' \in Nat
            /\ Cardinality(Lent') \in Nat
        BY <1>5, LentFinite, AdmissionConstants, FS_Subset, FS_CardinalityType
           DEF Lent, Running, Inside
      <4>3. QED
        BY <3>1, <4>1, <4>2, <1>0, <1>1 DEF AdmissionTypeOK
  <2>3. QED
    BY <2>1, <2>2
<1>7. counter'.value = Cardinality(Lent') + leaked' - owed'
  BY <1>0, <1>1, <1>4, LentFinite DEF Accounts, AdmissionTypeOK
<1>8. counter'.there /\ (owed' = 0 => counter'.expires)
  BY <1>0, <1>1 DEF Accounts, AdmissionTypeOK
<1>9. QED
  BY <1>5, <1>6, <1>7, <1>8 DEF Accounts

LEMMA GiveBackAccounts ==
  ASSUME Accounts, NEW c \in Calls, GiveBack(c)
  PROVE  Accounts'
<1>0. AdmissionTypeOK /\ Limit \in Nat
  BY AdmissionConstants DEF Accounts
<1>1. /\ call' = [call EXCEPT ![c] = "outside"]
      /\ c \in Inside
      /\ forgotten' = forgotten \ {c}
      /\ owed' = owed + (IF c \in forgotten THEN 1 ELSE 0)
      /\ UNCHANGED <<leaked, killed>>
      /\ counter' = [there |-> TRUE, value |-> counter.value - 1,
           expires |-> IF counter.there THEN counter.expires ELSE FALSE]
  BY <1>0 DEF GiveBack, Incr, Inside, AdmissionTypeOK
<1>2. Inside' = Inside \ {c}
  BY <1>0, <1>1 DEF Inside, AdmissionTypeOK
<1>3. Lent' = Lent \ {c} /\ (Running \ forgotten)' = (Running \ forgotten) \ {c}
  BY <1>0, <1>1, <1>2 DEF Lent, Running, AdmissionTypeOK
<1>4. AdmissionTypeOK'
  <2>1. owed' \in Nat /\ leaked' \in Nat /\ killed' \in Nat
    BY <1>0, <1>1 DEF AdmissionTypeOK
  <2>2. counter' \in [there : BOOLEAN, value : Int, expires : BOOLEAN]
    <3>1. Incr(-1, FALSE)
      BY DEF GiveBack
    <3>2. -1 \in Int /\ FALSE \in BOOLEAN
      OBVIOUS
    <3>3. QED
      BY <1>0, <3>1, <3>2, IncrType, Zenon
  <2>3. call' \in [Calls -> {"outside", "refused", "running"}]
    BY <1>0, <1>1 DEF AdmissionTypeOK
  <2>4. forgotten' \subseteq Inside'
    BY <1>0, <1>1, <1>2 DEF AdmissionTypeOK
  <2>5. QED
    BY <2>1, <2>2, <2>3, <2>4 DEF AdmissionTypeOK
<1>5. Cardinality(Running \ forgotten)' <= Cardinality(Running \ forgotten)
  BY <1>0, <1>3, LentFinite, FS_Subset
<1>6. Cardinality(Running \ forgotten)' <= Limit + owed'
  <2>1. Cardinality(Running \ forgotten)' \in Nat
    BY <1>0, <1>3, LentFinite, FS_Subset, FS_CardinalityType
  <2>2. QED
    BY <1>0, <1>1, <1>5, <2>1, LentFinite DEF Accounts, AdmissionTypeOK
<1>7. counter'.value = Cardinality(Lent') + leaked' - owed'
  <2>1. CASE c \in forgotten
    <3>1. Lent' = Lent
      BY <1>3, <2>1 DEF Lent
    <3>2. QED
      BY <1>0, <1>1, <2>1, <3>1, LentFinite DEF Accounts, AdmissionTypeOK
  <2>2. CASE c \notin forgotten
    <3>1. c \in Lent
      BY <1>1, <2>2 DEF Lent
    <3>2. Cardinality(Lent') = Cardinality(Lent) - 1
      BY <1>0, <1>3, <3>1, LentFinite, OneLess
    <3>3. QED
      BY <1>0, <1>1, <2>2, <3>2, LentFinite DEF Accounts, AdmissionTypeOK
  <2>3. QED
    BY <2>1, <2>2
<1>8. owed' = 0 => counter'.expires
  <2>1. SUFFICES ASSUME owed' = 0 PROVE counter'.expires
    OBVIOUS
  <2>2. c \notin forgotten /\ owed = 0
    BY <1>0, <1>1, <2>1 DEF AdmissionTypeOK
  <2>3. counter.there
    BY <1>1, <2>2 DEF Accounts, Lent
  <2>4. QED
    BY <1>1, <2>2, <2>3 DEF Accounts
<1>9. QED
  BY <1>1, <1>4, <1>6, <1>7, <1>8 DEF Accounts

LEMMA KillAccounts ==
  ASSUME Accounts, NEW c \in Calls, Kill(c)
  PROVE  Accounts'
<1>0. AdmissionTypeOK /\ Limit \in Nat
  BY AdmissionConstants DEF Accounts
<1>1. /\ call' = [call EXCEPT ![c] = "outside"]
      /\ c \in Inside
      /\ forgotten' = forgotten \ {c}
      /\ leaked' = leaked + (IF c \in forgotten THEN 0 ELSE 1)
      /\ killed' = killed + 1
      /\ counter' = counter /\ owed' = owed
  BY <1>0 DEF Kill, Inside, AdmissionTypeOK
<1>2. Inside' = Inside \ {c}
  BY <1>0, <1>1 DEF Inside, AdmissionTypeOK
<1>3. Lent' = Lent \ {c} /\ (Running \ forgotten)' = (Running \ forgotten) \ {c}
  BY <1>0, <1>1, <1>2 DEF Lent, Running, AdmissionTypeOK
<1>4. AdmissionTypeOK'
  <2>1. owed' \in Nat /\ leaked' \in Nat /\ killed' \in Nat
    BY <1>0, <1>1 DEF AdmissionTypeOK
  <2>2. counter' \in [there : BOOLEAN, value : Int, expires : BOOLEAN]
    <3>1. counter \in [there : BOOLEAN, value : Int, expires : BOOLEAN]
      BY <1>0 DEF AdmissionTypeOK
    <3>2. counter' = counter
      BY <1>1
    <3>3. QED
      BY <3>1, <3>2
  <2>3. call' \in [Calls -> {"outside", "refused", "running"}]
    BY <1>0, <1>1 DEF AdmissionTypeOK
  <2>4. forgotten' \subseteq Inside'
    BY <1>0, <1>1, <1>2 DEF AdmissionTypeOK
  <2>5. QED
    BY <2>1, <2>2, <2>3, <2>4 DEF AdmissionTypeOK
<1>5. Cardinality(Running \ forgotten)' <= Cardinality(Running \ forgotten)
  BY <1>0, <1>3, LentFinite, FS_Subset
<1>6. Cardinality(Running \ forgotten)' <= Limit + owed'
  <2>1. Cardinality(Running \ forgotten)' \in Nat
    BY <1>0, <1>3, LentFinite, FS_Subset, FS_CardinalityType
  <2>2. QED
    BY <1>0, <1>1, <1>5, <2>1, LentFinite DEF Accounts, AdmissionTypeOK
<1>7. counter'.value = Cardinality(Lent') + leaked' - owed'
  <2>1. CASE c \in forgotten
    <3>1. Lent' = Lent
      BY <1>3, <2>1 DEF Lent
    <3>2. QED
      BY <1>0, <1>1, <2>1, <3>1, LentFinite DEF Accounts, AdmissionTypeOK
  <2>2. CASE c \notin forgotten
    <3>1. c \in Lent
      BY <1>1, <2>2 DEF Lent
    <3>2. Cardinality(Lent') = Cardinality(Lent) - 1
      BY <1>0, <1>3, <3>1, LentFinite, OneLess
    <3>3. QED
      BY <1>0, <1>1, <2>2, <3>2, LentFinite DEF Accounts, AdmissionTypeOK
  <2>3. QED
    BY <2>1, <2>2
<1>8. ~counter'.there =>
        counter'.value = 0 /\ Lent' = {} /\ leaked' = 0 /\ owed' = 0
  <2>1. ~counter.there => c \in forgotten
    BY <1>1 DEF Accounts, Lent
  <2>2. QED
    BY <1>0, <1>1, <1>3, <2>1 DEF Accounts, AdmissionTypeOK
<1>9. QED
  BY <1>1, <1>4, <1>6, <1>7, <1>8 DEF Accounts

LEMMA ExpireAccounts ==
  ASSUME Accounts, Expire
  PROVE  Accounts'
<1>1. Lent' = {} /\ (Running \ forgotten)' = {}
  BY DEF Expire, Lent, Running, Inside
<1>2. Cardinality({}) = 0
  BY FS_EmptySet
<1>3. AdmissionTypeOK'
  BY DEF Accounts, Expire, AdmissionTypeOK, NoCounter, Inside
<1>4. QED
  BY <1>1, <1>2, <1>3, AdmissionConstants DEF Accounts, Expire, NoCounter

------------------------------------------------------------------------------
(* The books of the counter are kept by every step. *)
LEMMA AccountsStep == Accounts /\ [AdmissionNext]_slots => Accounts'
<1> SUFFICES ASSUME Accounts, [AdmissionNext]_slots PROVE Accounts'
  OBVIOUS
<1>1. ASSUME NEW c \in Calls, Ask(c) PROVE Accounts'
  BY <1>1, AskAccounts
<1>2. ASSUME NEW c \in Calls, GiveBack(c) PROVE Accounts'
  BY <1>2, GiveBackAccounts
<1>3. ASSUME NEW c \in Calls, Kill(c) PROVE Accounts'
  BY <1>3, KillAccounts
<1>4. CASE Expire
  BY <1>4, ExpireAccounts
<1>5. CASE UNCHANGED slots
  BY <1>5 DEF slots, Accounts, AdmissionTypeOK, Lent, Inside, Running
<1>6. QED
  BY <1>1, <1>2, <1>3, <1>4, <1>5 DEF AdmissionNext

LEMMA AccountsHold == AdmissionSpec => []Accounts
BY AccountsInit, AccountsStep, PTL DEF AdmissionSpec

------------------------------------------------------------------------------
(* The cap on concurrent actions, as CapKept states it: it gives way only  *)
(* to the calls an expired counter has forgotten and to what these give    *)
(* back, for every limit and however many calls come, are refused or die.  *)
THEOREM CapIsKept == AdmissionSpec => []CapKept
<1>1. Accounts => CapKept
  BY DEF Accounts, CapKept
<1>2. QED
  BY <1>1, AccountsHold, PTL

(* What the counter and its calls look like, at any number of calls. *)
THEOREM AdmissionTypeCorrect == AdmissionSpec => []AdmissionTypeOK
<1>1. Accounts => AdmissionTypeOK
  BY DEF Accounts
<1>2. QED
  BY <1>1, AccountsHold, PTL

------------------------------------------------------------------------------
(* The connections *)

(* A caller wants what its call is ready for. *)
WantsFit ==
  \A c \in Here :
    /\ wants[c] = "ask" => call[c] = "outside"
    /\ wants[c] = "work" => call[c] = "running"
    /\ wants[c] = "back" => call[c] # "outside"

(* Whatever goes on at the pool, the counter sees calls that ask, give     *)
(* back and die, as in Admission.                                          *)
LEMMA PoolStepsAdmit == [PoolNext]_poolVars => [AdmissionNext]_slots
<1> SUFFICES ASSUME [PoolNext]_poolVars PROVE [AdmissionNext]_slots
  OBVIOUS
<1>1. ASSUME NEW c \in Callers, WantTransaction(c) \/ EndTransaction(c)
      PROVE  UNCHANGED slots
  BY <1>1 DEF WantTransaction, EndTransaction, Want
<1>2. ASSUME NEW c \in Here, WantAdmission(c) \/ WantRelease(c)
      PROVE  UNCHANGED slots
  BY <1>2 DEF WantAdmission, WantRelease, Want
<1>3. ASSUME NEW c \in Here, Admit(c) \/ Release(c)
      PROVE  AdmissionNext
  BY <1>3, PoolConstants DEF Admit, Release, AdmissionNext
<1>4. ASSUME Around PROVE AdmissionNext
  BY <1>4 DEF Around, AdmissionNext
<1>5. ASSUME UNCHANGED poolVars PROVE UNCHANGED slots
  BY <1>5 DEF poolVars
<1>6. QED
  BY <1>1, <1>2, <1>3, <1>4, <1>5 DEF PoolNext

(* Calls that wait for connections to be admitted, and to give their slot  *)
(* back, are calls of Admission: what is proved of the cap holds of them.  *)
THEOREM PoolKeepsTheCap == PoolSpec => AdmissionSpec
<1>1. PoolInit => AdmissionInit
  BY DEF PoolInit
<1>2. QED
  BY <1>1, PoolStepsAdmit, PTL DEF PoolSpec, AdmissionSpec

LEMMA CallersFinite == IsFiniteSet(Callers)
BY AdmissionConstants, PoolConstants, FS_Subset, FS_Union DEF Callers

LEMMA HoldingFinite ==
  ASSUME PoolTypeOK
  PROVE  IsFiniteSet(holding) /\ Cardinality(holding) \in Nat
BY CallersFinite, FS_Subset, FS_CardinalityType DEF PoolTypeOK, Wanting

LEMMA PoolTypeInit == PoolInit => PoolTypeOK
BY FS_EmptySet, PoolConstants DEF PoolInit, PoolTypeOK, Wanting, Callers

(* A connection is taken only while one is free. *)
LEMMA WantTypes ==
  ASSUME PoolTypeOK, NEW c \in Callers,
         NEW use \in {"ask", "work", "back"}, Want(c, use),
         c \in Unadmitted => use = "work"
  PROVE  PoolTypeOK'
<1>1. wants' \in [Callers -> {"none", "ask", "work", "back"}]
  BY DEF Want, PoolTypeOK
<1>2. \A s \in Unadmitted : wants'[s] \in {"none", "work"}
  BY DEF Want, PoolTypeOK, Callers
<1>3. holding' \subseteq Wanting'
  BY DEF Want, PoolTypeOK, Wanting
<1>4. Cardinality(holding') <= PoolMax
  <2>1. CASE Cardinality(holding) < PoolMax
    <3>1. holding' = holding \cup {c}
      BY <2>1 DEF Want
    <3>2. c \notin holding
      BY DEF Want, PoolTypeOK, Wanting
    <3>3. Cardinality(holding') = Cardinality(holding) + 1
      BY <3>1, <3>2, HoldingFinite, OneMore
    <3>4. QED
      BY <2>1, <3>3, HoldingFinite, PoolConstants
  <2>2. CASE ~(Cardinality(holding) < PoolMax)
    BY <2>2 DEF Want, PoolTypeOK
  <2>3. QED
    BY <2>1, <2>2
<1>5. QED
  BY <1>1, <1>2, <1>3, <1>4 DEF PoolTypeOK

(* One that comes back goes to nobody, or to one that waits. *)
LEMMA LeaveTypes ==
  ASSUME PoolTypeOK, NEW c \in holding, Leave(c)
  PROVE  PoolTypeOK'
<1>0. c \in Callers /\ IsFiniteSet(holding) /\ Cardinality(holding) \in Nat
  BY HoldingFinite DEF PoolTypeOK, Wanting
<1>1. wants' \in [Callers -> {"none", "ask", "work", "back"}]
  BY <1>0 DEF Leave, PoolTypeOK
<1>2. \A s \in Unadmitted : wants'[s] \in {"none", "work"}
  BY <1>0 DEF Leave, PoolTypeOK, Callers
<1>3. holding' \subseteq Wanting' /\ Cardinality(holding') <= PoolMax
  <2>1. /\ IsFiniteSet(holding \ {c})
        /\ Cardinality(holding \ {c}) = Cardinality(holding) - 1
    BY <1>0, FS_RemoveElement
  <2>2. CASE holding' = holding \ {c}
    <3>1. holding' \subseteq Wanting'
      BY <1>0, <2>2 DEF Leave, PoolTypeOK, Wanting
    <3>2. QED
      BY <1>0, <2>1, <2>2, <3>1, PoolConstants DEF PoolTypeOK
  <2>3. ASSUME NEW w \in Waiting, holding' = (holding \ {c}) \cup {w}
        PROVE  holding' \subseteq Wanting' /\ Cardinality(holding') <= PoolMax
    <3>1. w \in Wanting /\ w \notin holding
      BY DEF Waiting
    <3>2. holding' \subseteq Wanting'
      BY <1>0, <2>3, <3>1 DEF Leave, PoolTypeOK, Wanting
    <3>3. Cardinality(holding') = Cardinality(holding)
      BY <1>0, <2>1, <2>3, <3>1, OneMore
    <3>4. QED
      BY <3>2, <3>3 DEF PoolTypeOK
  <2>4. QED
    BY <2>2, <2>3 DEF Leave
<1>4. QED
  BY <1>1, <1>2, <1>3 DEF PoolTypeOK

LEMMA PoolTypeStep == PoolTypeOK /\ [PoolNext]_poolVars => PoolTypeOK'
<1> SUFFICES ASSUME PoolTypeOK, [PoolNext]_poolVars PROVE PoolTypeOK'
  OBVIOUS
<1>0. Here \cap Unadmitted = {}
  BY PoolConstants
<1>1. ASSUME NEW c \in Callers, WantTransaction(c) PROVE PoolTypeOK'
  BY <1>1, WantTypes DEF WantTransaction
<1>2. ASSUME NEW c \in Callers, EndTransaction(c) PROVE PoolTypeOK'
  BY <1>2, LeaveTypes DEF EndTransaction, Working
<1>3. ASSUME NEW c \in Here, WantAdmission(c) \/ WantRelease(c)
      PROVE  PoolTypeOK'
  <2>1. c \in Callers /\ c \notin Unadmitted
    BY <1>0 DEF Callers
  <2>2. QED
    BY <1>3, <2>1, WantTypes DEF WantAdmission, WantRelease
<1>4. ASSUME NEW c \in Here, Admit(c) \/ Release(c) PROVE PoolTypeOK'
  BY <1>4, LeaveTypes DEF Admit, Release
<1>5. ASSUME UNCHANGED <<wants, holding>> PROVE PoolTypeOK'
  BY <1>5 DEF PoolTypeOK, Wanting
<1>6. QED
  BY <1>1, <1>2, <1>3, <1>4, <1>5 DEF PoolNext, Around, poolVars

(* The pool lends no more connections than it has, and only to callers     *)
(* that asked for one.                                                     *)
THEOREM PoolTypeCorrect == PoolSpec => []PoolTypeOK
BY PoolTypeInit, PoolTypeStep, PTL DEF PoolSpec

LEMMA WantsFitStep ==
  ASSUME AdmissionTypeOK, PoolTypeOK, WantsFit, [PoolNext]_poolVars
  PROVE  WantsFit'
<1>0. Here \cap Unadmitted = {} /\ Here \subseteq Callers /\ Here \subseteq Calls
  BY PoolConstants DEF Callers
<1>1. ASSUME NEW c \in Callers, WantTransaction(c) PROVE WantsFit'
  BY <1>0, <1>1 DEF WantTransaction, Want, WantsFit, PoolTypeOK, slots
<1>2. ASSUME NEW c \in Callers, EndTransaction(c) PROVE WantsFit'
  BY <1>0, <1>2 DEF EndTransaction, Leave, WantsFit, PoolTypeOK, slots
<1>3. ASSUME NEW c \in Here, WantAdmission(c) \/ WantRelease(c)
      PROVE  WantsFit'
  BY <1>0, <1>3
     DEF WantAdmission, WantRelease, Want, WantsFit, PoolTypeOK, slots
<1>4. ASSUME NEW c \in Here, Admit(c) \/ Release(c) PROVE WantsFit'
  <2>1. wants' = [wants EXCEPT ![c] = "none"]
    BY <1>4 DEF Admit, Release, Leave
  <2>2. \A d \in Here \ {c} : call'[d] = call[d]
    BY <1>0, <1>4 DEF Admit, Release, Ask, GiveBack, AdmissionTypeOK
  <2>3. QED
    BY <1>0, <2>1, <2>2 DEF WantsFit, PoolTypeOK
<1>5. ASSUME Around PROVE WantsFit'
  <2>1. \A d \in Here : call'[d] = call[d]
    BY <1>0, <1>5
       DEF Around, Ask, GiveBack, Kill, Expire, AdmissionTypeOK
  <2>2. QED
    BY <1>0, <1>5, <2>1 DEF Around, WantsFit
<1>6. ASSUME UNCHANGED poolVars PROVE WantsFit'
  BY <1>6 DEF WantsFit, poolVars, slots
<1>7. QED
  BY <1>1, <1>2, <1>3, <1>4, <1>5, <1>6 DEF PoolNext

LEMMA PoolInvariant == PoolSpec => [](Accounts /\ PoolTypeOK /\ WantsFit)
<1>1. PoolInit => WantsFit
  BY DEF PoolInit, WantsFit, Callers
<1>2. PoolSpec => []Accounts
  BY PoolKeepsTheCap, AccountsHold, PTL
<1>3. Accounts => AdmissionTypeOK
  BY DEF Accounts
<1>4. AdmissionTypeOK /\ PoolTypeOK /\ WantsFit /\ [PoolNext]_poolVars
        => WantsFit'
  BY WantsFitStep
<1>5. QED
  BY <1>1, <1>2, <1>3, <1>4, PoolTypeCorrect, PTL DEF PoolSpec

LEMMA UnionBound ==
  ASSUME NEW S, IsFiniteSet(S), NEW T, IsFiniteSet(T)
  PROVE  /\ IsFiniteSet(S \cup T)
         /\ Cardinality(S \cup T) <= Cardinality(S) + Cardinality(T)
         /\ Cardinality(S) \in Nat /\ Cardinality(T) \in Nat
         /\ Cardinality(S \cup T) \in Nat
<1>1. IsFiniteSet(S \cap T)
  BY FS_Subset
<1>2. Cardinality(S) \in Nat /\ Cardinality(T) \in Nat
        /\ Cardinality(S \cap T) \in Nat
  BY <1>1, FS_CardinalityType
<1>3. /\ IsFiniteSet(S \cup T)
      /\ Cardinality(S \cup T) =
           Cardinality(S) + Cardinality(T) - Cardinality(S \cap T)
  BY FS_Union
<1>4. Cardinality(S \cup T) \in Nat
  BY <1>3, FS_CardinalityType
<1>5. QED
  BY <1>2, <1>3, <1>4

(* Who works is admitted or is a step, so the books of the cap bound the   *)
(* connections as well.                                                    *)
LEMMA WorkIsCounted ==
  ASSUME Accounts, PoolTypeOK, WantsFit
  PROVE  SlotLeft
<1> DEFINE counted == Running \ forgotten
           steps == Working \cap Unadmitted
<1>1. AdmissionTypeOK
  BY DEF Accounts
<1>2. /\ IsFiniteSet(counted) /\ IsFiniteSet(forgotten)
      /\ IsFiniteSet(steps) /\ IsFiniteSet(Working)
  <2>1. IsFiniteSet(forgotten)
    BY <1>1, AdmissionConstants, FS_Subset DEF AdmissionTypeOK, Inside
  <2>2. IsFiniteSet(steps)
    BY PoolConstants, FS_Subset
  <2>3. IsFiniteSet(Working)
    BY HoldingFinite, FS_Subset DEF Working
  <2>4. QED
    BY <1>1, <2>1, <2>2, <2>3, LentFinite
<1>3. Working \subseteq (counted \cup forgotten) \cup steps
  BY PoolConstants
     DEF Working, PoolTypeOK, Wanting, WantsFit, Running, Callers
<1>4. /\ IsFiniteSet(counted \cup forgotten)
      /\ Cardinality(counted \cup forgotten)
           <= Cardinality(counted) + Cardinality(forgotten)
  <2> HIDE DEF counted
  <2>1. QED
    BY <1>2, UnionBound
<1>5. Cardinality(Working)
        <= Cardinality(counted) + Cardinality(forgotten) + Cardinality(steps)
  <2> HIDE DEF counted, steps
  <2> DEFINE admitted == counted \cup forgotten
  <2>1. /\ IsFiniteSet(admitted \cup steps)
        /\ Cardinality(admitted \cup steps)
             <= Cardinality(admitted) + Cardinality(steps)
        /\ Cardinality(admitted) \in Nat /\ Cardinality(steps) \in Nat
        /\ Cardinality(admitted \cup steps) \in Nat
    <3> HIDE DEF admitted
    <3>1. IsFiniteSet(admitted)
      BY <1>4 DEF admitted
    <3>2. QED
      BY <1>2, <3>1, UnionBound
  <2>2. Cardinality(Working) <= Cardinality(admitted \cup steps)
    BY <1>3, <2>1, FS_Subset
  <2>3. /\ Cardinality(Working) \in Nat /\ Cardinality(counted) \in Nat
        /\ Cardinality(forgotten) \in Nat
    BY <1>2, FS_CardinalityType
  <2> HIDE DEF admitted
  <2>4. Cardinality(admitted) <= Cardinality(counted) + Cardinality(forgotten)
    BY <1>4 DEF admitted
  <2>5. QED
    BY <2>1, <2>2, <2>3, <2>4
<1>6. Cardinality(counted) <= Limit + owed
  BY DEF Accounts
<1>7. /\ Cardinality(counted) \in Nat /\ Cardinality(forgotten) \in Nat
      /\ Cardinality(steps) \in Nat /\ Cardinality(Working) \in Nat
  BY <1>2, FS_CardinalityType
<1> HIDE DEF counted
<1>8. QED
  BY <1>1, <1>5, <1>6, <1>7, AdmissionConstants, PoolConstants
     DEF SlotLeft, AdmissionTypeOK

(* One workspace's transactions leave a connection free while the cap and  *)
(* what defeats it, forgotten slots, slots given back to a counter that    *)
(* had not lent them, and steps at work, is below the pool.                *)
THEOREM SlotIsLeft == PoolSpec => []SlotLeft
<1>1. Accounts /\ PoolTypeOK /\ WantsFit => SlotLeft
  BY WorkIsCounted
<1>2. QED
  BY <1>1, PoolInvariant, PTL

(* In a wedge whoever has a connection waits for an inner call, and that   *)
(* for a connection: every action asks for one or the other to have ended. *)
LEMMA WedgeStays ==
  ASSUME Accounts, PoolTypeOK, Wedged, [PoolNext]_poolVars
  PROVE  Wedged'
<1>0. /\ AdmissionTypeOK
      /\ Here \cap Unadmitted = {} /\ Here \subseteq Callers
      /\ Here \subseteq Calls
  BY PoolConstants DEF Callers, Accounts
<1>1. Cardinality(holding) = PoolMax /\ PoolMax \in Nat
  BY PoolConstants DEF Wedged
<1>2. ASSUME NEW c \in Callers,
             NEW use \in {"ask", "work", "back"}, Want(c, use)
      PROVE  Wedged'
  <2>1. holding' = holding /\ wants' = [wants EXCEPT ![c] = use]
          /\ wants[c] = "none" /\ UNCHANGED slots
    BY <1>1, <1>2 DEF Want
  <2>2. Working' = Working
    BY <2>1 DEF Working, PoolTypeOK, Wanting
  <2>3. \A n \in Wanting : n \in Wanting'
    BY <2>1 DEF Wanting, PoolTypeOK
  <2>4. \A d : Inner(d) \cap Wanting \subseteq Inner(d)'
    BY <1>0, <2>1, <2>3 DEF Inner, Wanting
  <2>5. QED
    BY <2>1, <2>2, <2>3, <2>4 DEF Wedged
<1>3. ASSUME NEW c \in Callers, WantTransaction(c) \/ EndTransaction(c)
      PROVE  Wedged'
  <2>1. ~EndTransaction(c)
    BY DEF EndTransaction, Wedged, Working
  <2>2. QED
    BY <1>2, <1>3, <2>1 DEF WantTransaction
<1>4. ASSUME NEW c \in Here,
             WantAdmission(c) \/ WantRelease(c) \/ Admit(c) \/ Release(c)
      PROVE  Wedged'
  <2>1. ~Admit(c) /\ ~Release(c)
    BY DEF Admit, Release, Wedged, Working
  <2>2. QED
    BY <1>0, <1>2, <1>4, <2>1 DEF WantAdmission, WantRelease
<1>5. ASSUME Around PROVE Wedged'
  <2>1. UNCHANGED <<wants, holding>> /\ \A d \in Here : call'[d] = call[d]
    BY <1>0, <1>5
       DEF Around, Ask, GiveBack, Kill, Expire, AdmissionTypeOK
  <2>2. QED
    BY <2>1 DEF Wedged, Working, Wanting, Inner
<1>6. ASSUME UNCHANGED poolVars PROVE Wedged'
  BY <1>6 DEF poolVars, slots, Wedged, Working, Wanting, Inner
<1>7. QED
  BY <1>3, <1>4, <1>5, <1>6 DEF PoolNext

(* A wedged pool stays wedged: there is no limit on the wait for a         *)
(* connection, and an inner call is waited for without one.                *)
THEOREM WedgesStay == PoolSpec => WedgeIsForGood
<1>1. Accounts /\ PoolTypeOK /\ [PoolNext]_poolVars
        => [Wedged => Wedged']_poolVars
  BY WedgeStays
<1>2. QED
  BY <1>1, PoolInvariant, PTL DEF PoolSpec, WedgeIsForGood

(* A wedge needs the whole pool, so while SlotLeft speaks for a connection *)
(* there is none: a cap below the pool keeps it out of one.                *)
THEOREM CapKeepsFromTheWedge ==
  PoolSpec => [](Wedged => PoolMax <= Limit + owed + Cardinality(forgotten)
                                        + Cardinality(Working \cap Unadmitted))
<1>1. ASSUME Accounts, PoolTypeOK, WantsFit, Wedged
      PROVE  PoolMax <= Limit + owed + Cardinality(forgotten)
                          + Cardinality(Working \cap Unadmitted)
  <2>1. Working = holding
    BY <1>1 DEF Wedged, Working
  <2>2. ~(Cardinality(Working) < PoolMax)
    BY <1>1, <2>1, PoolConstants DEF Wedged
  <2>3. QED
    BY <1>1, <2>2, WorkIsCounted DEF SlotLeft
<1>2. QED
  BY <1>1, PoolInvariant, PTL

------------------------------------------------------------------------------
(* The batches of a member's notifications *)

AwaitsMail(b) == batch[b] \in {"open", "pending"}

(* notification_batches_one_pending_idx, with inserts under way. *)
OnePending == \A b, c \in Batches : AwaitsMail(b) /\ AwaitsMail(c) => b = c

(* Who has a batch, and whose is a batch that is not committed yet. *)
Placement ==
  /\ \A n \in Notes :
       IF note[n] \in {"placed", "committed"}
         THEN into[n] \in Batches /\ batch[into[n]] # "none"
         ELSE into[n] = NoBatch
  /\ \A n, m \in Notes :
       /\ into[n] \in Batches /\ batch[into[n]] = "open"
       => note[n] = "placed" /\ (into[m] = into[n] => m = n)

(* No batch somebody was given is closed without a digest to come, but for *)
(* digests that were read or settled without a mail.                       *)
OnItsWay ==
  \A n \in Notes :
    note[n] \in {"placed", "committed"} =>
      \/ AwaitsMail(into[n])
      \/ into[n] \in digest \cup unsent
      \/ fate[n] # "none"

BatchInv == BatchTypeOK /\ OnePending /\ Placement /\ OnItsWay

LEMMA BatchInitInv == BatchInit => BatchInv
BY BatchConstants
   DEF BatchInit, BatchInv, BatchTypeOK, OnePending, Placement, OnItsWay,
       AwaitsMail, Fates

(* A batch found or made for a notification. *)
LEMMA PlaceInv ==
  ASSUME BatchInv, NEW n \in Notes, NEW b \in Batches, Place(n, b),
         note[n] \in {"none", "lost", "looking"},
         UNCHANGED <<due, digest, fate, unsent>>,
         \/ batch[b] = "pending" /\ batch' = batch
         \/ /\ batch[b] = "none" /\ \A c \in Batches : ~AwaitsMail(c)
            /\ batch' = [batch EXCEPT ![b] = "open"]
  PROVE  BatchInv'
<1> USE DEF BatchInv
<1>1. BatchTypeOK'
  BY DEF BatchTypeOK, Place
<1>2. OnePending'
  BY DEF OnePending, AwaitsMail, BatchTypeOK
<1>3. /\ \A m \in Notes : m # n => note'[m] = note[m] /\ into'[m] = into[m]
      /\ note'[n] = "placed" /\ into'[n] = b
      /\ \A c \in Batches : c # b => batch'[c] = batch[c]
      /\ batch'[b] \in {"open", "pending"}
  BY DEF Place, BatchTypeOK
<1>4. batch'[b] = "open" => \A m \in Notes : into[m] # b
  BY BatchConstants DEF Placement, BatchTypeOK
<1>5. Placement'
  BY <1>3, <1>4, BatchConstants DEF Placement
<1>6. OnItsWay'
  BY <1>3, <1>4 DEF OnItsWay, Placement, AwaitsMail
<1>7. QED
  BY <1>1, <1>2, <1>5, <1>6

(* A look-up or an insert that came to nothing. *)
LEMMA UnplacedInv ==
  ASSUME BatchInv, NEW n \in Notes, NEW x \in {"none", "looking", "lost"},
         note[n] \in {"none", "lost", "looking"},
         note' = [note EXCEPT ![n] = x],
         UNCHANGED <<batch, into, due, digest, fate, unsent>>
  PROVE  BatchInv'
<1> USE DEF BatchInv
<1>1. BatchTypeOK' /\ OnePending'
  BY DEF BatchTypeOK, OnePending, AwaitsMail
<1>2. Placement' /\ OnItsWay'
  BY DEF Placement, OnItsWay, AwaitsMail, BatchTypeOK
<1>3. QED
  BY <1>1, <1>2

LEMMA FindInv ==
  ASSUME BatchInv, NEW n \in Notes, FindBatch(n)
  PROVE  BatchInv'
<1>1. CASE \E b \in Batches : batch[b] = "pending"
  <2>1. PICK b \in Batches : batch[b] = "pending" /\ Place(n, b)
    BY <1>1 DEF FindBatch
  <2>2. QED
    BY <2>1, PlaceInv DEF FindBatch
<1>2. CASE ~\E b \in Batches : batch[b] = "pending"
  <2>1. note' = [note EXCEPT ![n] = IF @ = "none" THEN "looking" ELSE "none"]
    BY <1>2 DEF FindBatch
  <2>2. PICK x \in {"none", "looking", "lost"} : note' = [note EXCEPT ![n] = x]
    BY <2>1
  <2>3. QED
    BY <1>2, <2>2, UnplacedInv DEF FindBatch
<1>3. QED
  BY <1>1, <1>2

LEMMA MakeInv ==
  ASSUME BatchInv, NEW n \in Notes, MakeBatch(n)
  PROVE  BatchInv'
<1>1. CASE \E b \in Batches : batch[b] = "pending"
  <2>1. /\ note' = [note EXCEPT ![n] = "lost"]
        /\ note[n] = "looking"
        /\ UNCHANGED <<batch, into, due, digest, fate, unsent>>
    BY <1>1 DEF MakeBatch
  <2>2. QED
    BY <2>1, UnplacedInv
<1>2. CASE ~\E b \in Batches : batch[b] = "pending"
  <2>1. PICK b \in Batches : /\ batch[b] = "none" /\ Place(n, b)
                             /\ batch' = [batch EXCEPT ![b] = "open"]
    BY <1>2 DEF MakeBatch
  <2>2. \A c \in Batches : ~AwaitsMail(c)
    BY <1>2 DEF MakeBatch, AwaitsMail
  <2>3. QED
    BY <2>1, <2>2, PlaceInv DEF MakeBatch
<1>3. QED
  BY <1>1, <1>2

LEMMA CommitInv ==
  ASSUME BatchInv, NEW n \in Notes, CommitNote(n)
  PROVE  BatchInv'
<1> USE DEF BatchInv
<1> DEFINE b == into[n]
<1>1. /\ note[n] = "placed" /\ b \in Batches
      /\ note' = [note EXCEPT ![n] = "committed"]
      /\ batch' = [batch EXCEPT ![b] = IF @ = "open" THEN "pending" ELSE @]
      /\ UNCHANGED <<due, digest, into, fate, unsent>>
  BY DEF CommitNote, Placement
<1>2. /\ \A m \in Notes : m # n => note'[m] = note[m]
      /\ note'[n] = "committed"
      /\ \A c \in Batches : c # b => batch'[c] = batch[c]
      /\ batch'[b] = IF batch[b] = "open" THEN "pending" ELSE batch[b]
  BY <1>1 DEF BatchTypeOK
<1>3. BatchTypeOK' /\ OnePending'
  BY <1>1, <1>2 DEF BatchTypeOK, OnePending, AwaitsMail
<1>4. Placement'
  BY <1>1, <1>2 DEF Placement
<1>5. OnItsWay'
  BY <1>1, <1>2 DEF OnItsWay, Placement, AwaitsMail
<1>6. QED
  BY <1>3, <1>4, <1>5

LEMMA AbortInv ==
  ASSUME BatchInv, NEW n \in Notes, AbortNote(n)
  PROVE  BatchInv'
<1> USE DEF BatchInv
<1>1. /\ note[n] \in {"looking", "lost", "placed"}
      /\ note' = [note EXCEPT ![n] = "none"]
      /\ into' = [into EXCEPT ![n] = NoBatch]
      /\ batch' = [b \in Batches |->
           IF batch[b] = "open" /\ into[n] = b THEN "none" ELSE batch[b]]
      /\ fate' = [fate EXCEPT ![n] = "none"]
      /\ UNCHANGED <<due, digest, unsent>>
  BY DEF AbortNote
<1>2. /\ \A m \in Notes : m # n => note'[m] = note[m] /\ into'[m] = into[m]
      /\ \A m \in Notes : m # n => fate'[m] = fate[m]
      /\ note'[n] = "none" /\ into'[n] = NoBatch
      /\ \A b \in Batches : batch'[b] =
           IF batch[b] = "open" /\ into[n] = b THEN "none" ELSE batch[b]
  BY <1>1 DEF BatchTypeOK
<1>3. BatchTypeOK' /\ OnePending'
  BY <1>1, <1>2 DEF BatchTypeOK, OnePending, AwaitsMail, Fates
<1>4. \A m \in Notes : m # n /\ into[m] \in Batches =>
        batch'[into[m]] = batch[into[m]]
  BY <1>2 DEF Placement
<1>5. Placement'
  BY <1>2, <1>4, BatchConstants DEF Placement
<1>6. OnItsWay'
  BY <1>1, <1>2, <1>4 DEF OnItsWay, Placement, AwaitsMail
<1>7. QED
  BY <1>3, <1>5, <1>6

LEMMA ClaimInv ==
  ASSUME BatchInv, NEW b \in Batches, ClaimBatch(b)
  PROVE  BatchInv'
<1> USE DEF BatchInv
<1>1. /\ batch[b] = "pending" /\ batch' = [batch EXCEPT ![b] = "sent"]
      /\ digest' = digest \cup {b}
      /\ UNCHANGED <<due, note, into, fate, unsent>>
  BY DEF ClaimBatch
<1>2. \A c \in Batches : batch'[c] = IF c = b THEN "sent" ELSE batch[c]
  BY <1>1 DEF BatchTypeOK
<1>3. BatchTypeOK' /\ OnePending'
  BY <1>1, <1>2 DEF BatchTypeOK, OnePending, AwaitsMail
<1>4. Placement'
  BY <1>1, <1>2 DEF Placement
<1>5. OnItsWay'
  BY <1>1, <1>2 DEF OnItsWay, Placement, AwaitsMail
<1>6. QED
  BY <1>3, <1>4, <1>5

(* Whoever was in the batch has a fate, once its digest was read.          *)
LEMMA SendInv ==
  ASSUME BatchInv, NEW b \in Batches, SendDigest(b)
  PROVE  BatchInv'
<1> USE DEF BatchInv
<1>1. /\ digest' \subseteq digest /\ digest \ {b} \subseteq digest'
      /\ UNCHANGED <<batch, due, note, into, unsent>>
  BY DEF SendDigest
<1>2. PICK visible \in SUBSET Notes, listed \in SUBSET Notes :
        fate' = [n \in Notes |->
          IF into[n] # b \/ fate[n] = "mailed" THEN fate[n]
          ELSE IF note[n] = "placed" THEN "straddled"
          ELSE IF n \in listed THEN "mailed"
          ELSE IF n \in visible THEN "cut" ELSE "hidden"]
  <2>1. PICK visible \in SUBSET Notes :
          LET fetched == Oldest(LineLimit + 1,
                {n \in Notes : note[n] = "committed" /\ into[n] = b})
              listed  == Oldest(LineLimit, fetched \cap visible)
          IN  fate' = [n \in Notes |->
                IF into[n] # b \/ fate[n] = "mailed" THEN fate[n]
                ELSE IF note[n] = "placed" THEN "straddled"
                ELSE IF n \in listed THEN "mailed"
                ELSE IF n \in visible THEN "cut" ELSE "hidden"]
    BY DEF SendDigest
  <2> DEFINE fetched == Oldest(LineLimit + 1,
                         {n \in Notes : note[n] = "committed" /\ into[n] = b})
             listed  == Oldest(LineLimit, fetched \cap visible)
  <2>2. listed \in SUBSET Notes
    BY DEF Oldest
  <2> HIDE DEF listed
  <2>3. QED
    BY <2>1, <2>2 DEF listed
<1>3. /\ fate' \in [Notes -> Fates]
      /\ \A n \in Notes :
           /\ into[n] # b => fate'[n] = fate[n]
           /\ into[n] = b => fate'[n] # "none"
  <2>1. fate' \in [Notes -> Fates]
    <3>1. \A n \in Notes : fate[n] \in Fates
      BY DEF BatchTypeOK
    <3>2. {"mailed", "straddled", "hidden", "cut"} \subseteq Fates
      BY DEF Fates
    <3>3. QED
      BY <1>2, <3>1, <3>2
  <2>2. ASSUME NEW n \in Notes
        PROVE  /\ into[n] # b => fate'[n] = fate[n]
               /\ into[n] = b => fate'[n] # "none"
    BY <1>2
  <2>3. QED
    BY <2>1, <2>2
<1>4. BatchTypeOK' /\ OnePending' /\ Placement'
  <2>1. BatchTypeOK'
    BY <1>1, <1>3 DEF BatchTypeOK
  <2>2. OnePending' /\ Placement'
    BY <1>1 DEF OnePending, AwaitsMail, Placement
  <2>3. QED
    BY <2>1, <2>2
<1>5. OnItsWay'
  <2> SUFFICES ASSUME NEW n \in Notes, note[n] \in {"placed", "committed"},
                      ~AwaitsMail(into[n]), into[n] \notin digest' \cup unsent
               PROVE  fate'[n] # "none"
    BY <1>1 DEF OnItsWay, AwaitsMail
  <2>1. into[n] \notin digest => fate[n] # "none"
    BY DEF OnItsWay
  <2>2. into[n] \in digest => into[n] = b
    BY <1>1
  <2>3. QED
    BY <1>3, <2>1, <2>2
<1>6. QED
  BY <1>4, <1>5

LEMMA BatchInvAlways == BatchSpec => []BatchInv
<1>1. BatchInit => BatchInv
  BY BatchInitInv
<1>2. BatchInv /\ [BatchNext]_batchVars => BatchInv'
  <2> SUFFICES ASSUME BatchInv, [BatchNext]_batchVars PROVE BatchInv'
    OBVIOUS
  <2>1. ASSUME NEW n \in Notes, FindBatch(n) PROVE BatchInv'
    BY <2>1, FindInv
  <2>2. ASSUME NEW n \in Notes, MakeBatch(n) PROVE BatchInv'
    BY <2>2, MakeInv
  <2>3. ASSUME NEW n \in Notes, CommitNote(n) PROVE BatchInv'
    BY <2>3, CommitInv
  <2>4. ASSUME NEW n \in Notes, AbortNote(n) PROVE BatchInv'
    BY <2>4, AbortInv
  <2>5. ASSUME NEW b \in Batches, WindowCloses(b) PROVE BatchInv'
    BY <2>5 DEF WindowCloses, BatchInv, BatchTypeOK, OnePending, Placement,
                OnItsWay, AwaitsMail
  <2>6. ASSUME NEW b \in Batches, ClaimBatch(b) PROVE BatchInv'
    BY <2>6, ClaimInv
  <2>7. ASSUME NEW b \in Batches, SendDigest(b) PROVE BatchInv'
    BY <2>7, SendInv
  <2>8. ASSUME NEW b \in Batches, SettleUnsent(b) PROVE BatchInv'
    BY <2>8 DEF SettleUnsent, BatchInv, BatchTypeOK, OnePending, Placement,
                OnItsWay, AwaitsMail
  <2>9. CASE UNCHANGED batchVars
    BY <2>9 DEF batchVars, BatchInv, BatchTypeOK, OnePending, Placement,
                OnItsWay, AwaitsMail
  <2>10. QED
    BY <2>1, <2>2, <2>3, <2>4, <2>5, <2>6, <2>7, <2>8, <2>9 DEF BatchNext
<1>3. QED
  BY <1>1, <1>2, PTL DEF BatchSpec

(* What is left off a mail has at least LineLimit elders in its batch.     *)
CutHasElders ==
  \A n \in Notes : fate[n] = "cut" =>
    note[n] = "committed" /\ Cardinality(Elders(n)) >= LineLimit

LEMMA EldersFinite ==
  ASSUME NEW n \in Notes
  PROVE  IsFiniteSet(Elders(n)) /\ IsFiniteSet(Elders(n)')
<1>1. IsFiniteSet(0 .. n)
  BY BatchConstants, FS_Interval
<1>2. \A m \in Notes : m < n => m \in 0 .. n
  BY BatchConstants
<1>3. Elders(n) \in SUBSET (0 .. n)
  BY <1>2 DEF Elders
<1>4. Elders(n)' \in SUBSET (0 .. n)
  BY <1>2 DEF Elders
<1>5. QED
  BY <1>1, <1>3, <1>4, FS_Subset

(* A batch loses none of its committed notifications. *)
LEMMA CutKept ==
  ASSUME CutHasElders,
         \A n \in Notes :
           /\ note[n] = "committed" => note'[n] = "committed" /\ into'[n] = into[n]
           /\ fate'[n] = "cut" => fate[n] = "cut"
  PROVE  CutHasElders'
<1> SUFFICES ASSUME NEW n \in Notes, fate'[n] = "cut"
             PROVE  (note[n] = "committed" /\ Cardinality(Elders(n)) >= LineLimit)'
  BY DEF CutHasElders
<1>1. note[n] = "committed" /\ Cardinality(Elders(n)) >= LineLimit
  BY DEF CutHasElders
<1>2. Elders(n) \in SUBSET (Elders(n)')
  BY <1>1 DEF Elders
<1>3. Cardinality(Elders(n)) <= Cardinality(Elders(n)')
  BY <1>2, EldersFinite, FS_Subset
<1>4. Cardinality(Elders(n)) \in Nat /\ Cardinality(Elders(n)') \in Nat
  BY EldersFinite, FS_CardinalityType
<1>5. QED
  BY <1>1, <1>3, <1>4, BatchConstants

(* Whoever a reading leaves behind the limit has that many before it,      *)
(* among all rows of the batch or among those the member may see.          *)
LEMMA CutBySend ==
  ASSUME BatchInv, CutHasElders, NEW b \in Batches, SendDigest(b)
  PROVE  CutHasElders'
<1> DEFINE mine    == {n \in Notes : note[n] = "committed" /\ into[n] = b}
           fetched == Oldest(LineLimit + 1, mine)
<1>1. PICK visible \in SUBSET Notes :
        fate' = [n \in Notes |->
          IF into[n] # b \/ fate[n] = "mailed" THEN fate[n]
          ELSE IF note[n] = "placed" THEN "straddled"
          ELSE IF n \in Oldest(LineLimit, fetched \cap visible) THEN "mailed"
          ELSE IF n \in visible THEN "cut" ELSE "hidden"]
  BY DEF SendDigest
<1>2. UNCHANGED <<note, into>>
  BY DEF SendDigest
<1> SUFFICES ASSUME NEW n \in Notes, fate'[n] = "cut"
             PROVE  /\ note[n] = "committed"
                    /\ Cardinality(Elders(n)) >= LineLimit
  BY <1>2 DEF CutHasElders, Elders
<1>3. CASE fate[n] = "cut"
  BY <1>3 DEF CutHasElders
<1>4. CASE fate[n] # "cut"
  <2>1. /\ into[n] = b /\ note[n] # "placed" /\ n \in visible
        /\ n \notin Oldest(LineLimit, fetched \cap visible)
    BY <1>1, <1>4
  <2>2. note[n] = "committed"
    BY <2>1, BatchConstants DEF BatchInv, Placement
  <2> DEFINE before(S) == {m \in S : m < n}
  <2>3. before(mine) = Elders(n)
    BY <2>1 DEF Elders
  <2>4. before(fetched \cap visible) \in SUBSET Elders(n)
    BY <2>1 DEF Elders, Oldest
  <2>5. /\ Cardinality(before(fetched \cap visible)) \in Nat
        /\ Cardinality(Elders(n)) \in Nat
        /\ Cardinality(before(fetched \cap visible)) <= Cardinality(Elders(n))
    BY <2>4, EldersFinite, FS_Subset, FS_CardinalityType
  <2>6. CASE n \in fetched
    <3>1. ~(Cardinality(before(fetched \cap visible)) < LineLimit)
      BY <2>1, <2>6 DEF Oldest
    <3>2. QED
      BY <2>2, <2>5, <3>1, BatchConstants
  <2>7. CASE n \notin fetched
    <3>1. n \in mine
      BY <2>1, <2>2
    <3>2. ~(Cardinality(Elders(n)) < LineLimit + 1)
      BY <2>3, <2>7, <3>1 DEF Oldest
    <3>3. QED
      BY <2>2, <2>5, <3>2, BatchConstants
  <2>8. QED
    BY <2>6, <2>7
<1>5. QED
  BY <1>3, <1>4

LEMMA CutAlways == BatchSpec => []CutHasElders
<1>1. BatchInit => CutHasElders
  BY DEF BatchInit, CutHasElders
<1>2. BatchInv /\ CutHasElders /\ [BatchNext]_batchVars => CutHasElders'
  <2> SUFFICES ASSUME BatchInv, CutHasElders, [BatchNext]_batchVars
               PROVE  CutHasElders'
    OBVIOUS
  <2> USE DEF BatchInv, BatchTypeOK
  <2>1. ASSUME NEW n \in Notes, FindBatch(n) PROVE CutHasElders'
    BY <2>1, CutKept DEF FindBatch, Place
  <2>2. ASSUME NEW n \in Notes, MakeBatch(n) PROVE CutHasElders'
    BY <2>2, CutKept DEF MakeBatch, Place
  <2>3. ASSUME NEW n \in Notes, CommitNote(n) PROVE CutHasElders'
    BY <2>3, CutKept DEF CommitNote
  <2>4. ASSUME NEW n \in Notes, AbortNote(n) PROVE CutHasElders'
    BY <2>4, CutKept DEF AbortNote
  <2>5. ASSUME NEW b \in Batches,
               WindowCloses(b) \/ ClaimBatch(b) \/ SettleUnsent(b)
        PROVE  CutHasElders'
    BY <2>5, CutKept DEF WindowCloses, ClaimBatch, SettleUnsent
  <2>6. ASSUME NEW b \in Batches, SendDigest(b) PROVE CutHasElders'
    BY <2>6, CutBySend
  <2>7. CASE UNCHANGED batchVars
    BY <2>7, CutKept DEF batchVars
  <2>8. QED
    BY <2>1, <2>2, <2>3, <2>4, <2>5, <2>6, <2>7 DEF BatchNext
<1>3. QED
  BY <1>1, <1>2, BatchInvAlways, PTL DEF BatchSpec

------------------------------------------------------------------------------
(* No committed notification is forgotten, and no batch holds up another:  *)
(* NothingForgotten, for operations, drains and deliveries in any number   *)
(* and order, with digests delivered more than once: what no mail went     *)
(* out for was read for a digest, or its digest settled without one; and   *)
(* what the digest cut had as many older ones before it as a mail lists.   *)
THEOREM NoNotificationForgotten == BatchSpec => []NothingForgotten
<1>1. BatchInv /\ CutHasElders => NothingForgotten
  <2> SUFFICES ASSUME BatchInv, CutHasElders PROVE NothingForgotten
    OBVIOUS
  <2>1. ASSUME NEW n \in Notes, note[n] = "committed", AwaitsMail(into[n])
        PROVE  batch[into[n]] = "pending"
    BY <2>1 DEF BatchInv, Placement, AwaitsMail
  <2>2. QED
    BY <2>1 DEF BatchInv, OnItsWay, OnePending, AwaitsMail, CutHasElders,
                  NothingForgotten
<1>2. QED
  BY <1>1, BatchInvAlways, CutAlways, PTL

------------------------------------------------------------------------------
(* The data changes *)

(* Only the runner under the lock is at a script. *)
LockHeld ==
  \A r \in Runners :
    /\ holder # r => at[r] = 0 /\ cursor[r] = NotRead
    /\ cursor[r] # NotRead =>
         /\ at[r] \in Scripts
         /\ cursor[r] = ledger[at[r]].cursor
         /\ ledger[at[r]].checksum = ChecksumOf[r][at[r]]
         /\ ~ledger[at[r]].completed

(* It has left behind it what is complete, and nothing else. *)
InOrder ==
  /\ \A r \in Runners, s \in Scripts : s < at[r] => ledger[s].completed
  /\ \A s \in Scripts : s - 1 \in Scripts /\ by[s] # {} =>
       ledger[s - 1].completed

(* The cursor is the number of rows that were changed, each once. *)
CursorCounts ==
  \A s \in Scripts, i \in Items :
    changed[<<s, i>>] = IF i <= ledger[s].cursor THEN 1 ELSE 0

OneVersion == \A s \in Scripts : by[s] \subseteq {ledger[s].checksum}

(* What is complete, or whose columns are gone, has nothing left to do. *)
WholeScripts ==
  \A s \in Scripts :
    ledger[s].completed \/ schema[s] = "dropped" => ledger[s].cursor = Last

ChangeInv ==
  ChangeTypeOK /\ LockHeld /\ InOrder /\ CursorCounts /\ OneVersion
    /\ WholeScripts

LEMMA Sizes ==
  /\ Last \in Nat /\ Items = 1 .. Last
  /\ Cardinality(Scripts) \in Nat /\ Scripts = 1 .. Cardinality(Scripts)
BY ChangeConstants, FS_CardinalityType DEF Last

LEMMA OwnChecksum ==
  ASSUME NEW r \in Runners, NEW s \in Scripts
  PROVE  ChecksumOf[r][s] \in Checksums /\ ChecksumOf[r][s] # "none"
BY ChangeConstants DEF Checksums

LEMMA NoneYet ==
  ASSUME ChangeTypeOK, OneVersion, NEW s \in Scripts,
         ledger[s].checksum = "none"
  PROVE  by[s] = {}
<1>1. "none" \notin Checksums
  BY ChangeConstants DEF Checksums
<1>2. by[s] \subseteq Checksums /\ by[s] \subseteq {"none"}
  BY DEF ChangeTypeOK, OneVersion
<1>3. QED
  BY <1>1, <1>2

LEMMA ChangeInitInv == ChangeInit => ChangeInv
<1> SUFFICES ASSUME ChangeInit PROVE ChangeInv
  OBVIOUS
<1>1. ChangeTypeOK
  <2>1. ledger \in [Scripts -> [checksum : Checksums \cup {"none"},
                               cursor : 0 .. Last, completed : BOOLEAN]]
    BY Sizes DEF ChangeInit, NoRow
  <2>2. QED
    BY <2>1, Sizes DEF ChangeInit, ChangeTypeOK
<1>2. LockHeld
  BY DEF ChangeInit, LockHeld
<1>3. InOrder
  BY Sizes DEF ChangeInit, InOrder
<1>4. CursorCounts
  BY Sizes DEF ChangeInit, CursorCounts, NoRow
<1>5. OneVersion
  BY DEF ChangeInit, OneVersion
<1>6. WholeScripts
  BY DEF ChangeInit, WholeScripts, NoRow
<1>7. QED
  BY <1>1, <1>2, <1>3, <1>4, <1>5, <1>6 DEF ChangeInv

LEMMA AcquireInv ==
  ASSUME ChangeInv, NEW r \in Runners, Acquire(r)
  PROVE  ChangeInv'
<1> USE DEF ChangeInv
<1>1. ChangeTypeOK'
  BY Sizes DEF ChangeTypeOK, Acquire
<1>2. LockHeld'
  BY ChangeConstants DEF LockHeld, Acquire, ChangeTypeOK
<1>3. InOrder'
  BY Sizes DEF InOrder, Acquire, ChangeTypeOK
<1>4. CursorCounts' /\ OneVersion' /\ WholeScripts'
  BY DEF CursorCounts, OneVersion, WholeScripts, Acquire
<1>5. QED
  BY <1>1, <1>2, <1>3, <1>4

LEMMA SkipInv ==
  ASSUME ChangeInv, NEW r \in Runners, SkipCompleted(r)
  PROVE  ChangeInv'
<1> USE DEF ChangeInv
<1>0. /\ at[r] \in Scripts /\ holder = r /\ ledger[at[r]].completed
      /\ at' = [at EXCEPT ![r] = @ + 1]
      /\ cursor' = [cursor EXCEPT ![r] = NotRead]
      /\ UNCHANGED <<ledger, changed, schema, holder, by, dropped>>
  BY DEF SkipCompleted, Reading, NextScript
<1>1. ChangeTypeOK'
  BY <1>0, Sizes DEF ChangeTypeOK
<1>2. LockHeld'
  BY <1>0 DEF LockHeld, ChangeTypeOK
<1>3. InOrder'
  BY <1>0, Sizes DEF InOrder, ChangeTypeOK
<1>4. CursorCounts' /\ OneVersion' /\ WholeScripts'
  BY <1>0 DEF CursorCounts, OneVersion, WholeScripts
<1>5. QED
  BY <1>1, <1>2, <1>3, <1>4

LEMMA StartInv ==
  ASSUME ChangeInv, NEW r \in Runners, StartScript(r)
  PROVE  ChangeInv'
<1> USE DEF ChangeInv
<1> DEFINE s == at[r]
<1>0. /\ s \in Scripts /\ holder = r /\ ~ledger[s].completed
      /\ ledger[s].checksum \in {"none", ChecksumOf[r][s]}
      /\ ledger' = [ledger EXCEPT ![s].checksum = ChecksumOf[r][s]]
      /\ cursor' = [cursor EXCEPT ![r] = ledger[s].cursor]
      /\ UNCHANGED <<changed, schema, holder, at, by, dropped>>
  BY DEF StartScript, Reading
<1>1. \A x \in Scripts : /\ ledger'[x].cursor = ledger[x].cursor
                         /\ ledger'[x].completed = ledger[x].completed
                         /\ x # s => ledger'[x].checksum = ledger[x].checksum
  BY <1>0 DEF ChangeTypeOK
<1>2. ledger'[s].checksum = ChecksumOf[r][s]
  BY <1>0 DEF ChangeTypeOK
<1>3. ChangeTypeOK'
  <2>1. ledger' \in [Scripts -> [checksum : Checksums \cup {"none"},
                                cursor : 0 .. Last, completed : BOOLEAN]]
    BY <1>0, OwnChecksum DEF ChangeTypeOK
  <2>2. cursor' \in [Runners -> {NotRead} \cup 0 .. Last]
    BY <1>0 DEF ChangeTypeOK
  <2>3. QED
    BY <1>0, <2>1, <2>2 DEF ChangeTypeOK
<1>4. LockHeld'
  BY <1>0, <1>1, <1>2 DEF LockHeld, ChangeTypeOK
<1>5. InOrder'
  BY <1>0, <1>1 DEF InOrder
<1>6. CursorCounts' /\ WholeScripts'
  BY <1>0, <1>1 DEF CursorCounts, WholeScripts
<1>7. OneVersion'
  <2>1. ledger[s].checksum = "none" => by[s] = {}
    BY <1>0, NoneYet
  <2>2. QED
    BY <1>0, <1>1, <1>2, <2>1 DEF OneVersion
<1>8. QED
  BY <1>3, <1>4, <1>5, <1>6, <1>7

LEMMA RetireInv ==
  ASSUME ChangeInv, NEW r \in Runners, RetireScript(r)
  PROVE  ChangeInv'
<1> USE DEF ChangeInv
<1> DEFINE s == at[r]
<1>0. /\ s \in Scripts /\ holder = r
      /\ ledger[s].checksum \in {"none", ChecksumOf[r][s]}
      /\ schema[s] = "dropped"
      /\ ledger' = [ledger EXCEPT ![s].checksum = ChecksumOf[r][s],
                                  ![s].completed = TRUE]
      /\ at' = [at EXCEPT ![r] = @ + 1]
      /\ cursor' = [cursor EXCEPT ![r] = NotRead]
      /\ UNCHANGED <<changed, schema, holder, by, dropped>>
  BY DEF RetireScript, Reading, NextScript
<1>1. \A x \in Scripts : /\ ledger'[x].cursor = ledger[x].cursor
                         /\ x # s => ledger'[x] = ledger[x]
  BY <1>0 DEF ChangeTypeOK
<1>2. ledger'[s].checksum = ChecksumOf[r][s] /\ ledger'[s].completed
  BY <1>0 DEF ChangeTypeOK
<1>3. ChangeTypeOK'
  <2> DEFINE Row == [checksum : Checksums \cup {"none"},
                     cursor : 0 .. Last, completed : BOOLEAN]
  <2>1. ledger \in [Scripts -> Row]
    BY DEF ChangeTypeOK
  <2>2. [ledger[s] EXCEPT !.checksum = ChecksumOf[r][s],
                          !.completed = TRUE] \in Row
    BY <1>0, <2>1, OwnChecksum
  <2>3. ledger' = [ledger EXCEPT ![s] =
          [ledger[s] EXCEPT !.checksum = ChecksumOf[r][s],
                            !.completed = TRUE]]
    BY <1>0, <2>1
  <2>4. ledger' \in [Scripts -> Row]
    <3> HIDE DEF Row
    <3> QED
      BY <1>0, <2>1, <2>2, <2>3
  <2>5. at' \in [Runners -> 0 .. Cardinality(Scripts) + 1]
    BY <1>0, Sizes DEF ChangeTypeOK
  <2>6. QED
    BY <1>0, <2>4, <2>5 DEF ChangeTypeOK
<1>4. LockHeld'
  BY <1>0, <1>1 DEF LockHeld, ChangeTypeOK
<1>5. InOrder'
  <2>1. \A x \in Scripts : ledger[x].completed => ledger'[x].completed
    BY <1>1, <1>2
  <2>2. \A q \in Runners : at[q] \in Nat /\ at'[q] = IF q = r THEN s + 1
                                                      ELSE at[q]
    BY <1>0, Sizes DEF ChangeTypeOK
  <2>3. \A q \in Runners, x \in Scripts :
          x < at'[q] => x < at[q] \/ x = s
    BY <1>0, <2>2, Sizes
  <2>4. \A q \in Runners, x \in Scripts : x < at'[q] => ledger'[x].completed
    BY <1>2, <2>1, <2>3 DEF InOrder
  <2>5. \A x \in Scripts : x - 1 \in Scripts /\ by'[x] # {} =>
          ledger'[x - 1].completed
    BY <1>0, <2>1 DEF InOrder
  <2>6. QED
    BY <2>4, <2>5 DEF InOrder
<1>6. CursorCounts' /\ WholeScripts'
  BY <1>0, <1>1 DEF CursorCounts, WholeScripts
<1>7. OneVersion'
  <2>1. ledger[s].checksum = "none" => by[s] = {}
    BY <1>0, NoneYet
  <2>2. QED
    BY <1>0, <1>1, <1>2, <2>1 DEF OneVersion
<1>8. QED
  BY <1>3, <1>4, <1>5, <1>6, <1>7

LEMMA RunBatchInv ==
  ASSUME ChangeInv, NEW r \in Runners, RunBatch(r)
  PROVE  ChangeInv'
<1> USE DEF ChangeInv
<1> DEFINE s == at[r]
<1> DEFINE old == ledger[s].cursor
<1> DEFINE done == cursor[r] = Last
<1>0. /\ s \in Scripts /\ holder = r /\ schema[s] = "there"
      /\ cursor[r] = old /\ ~ledger[s].completed
      /\ ledger[s].checksum = ChecksumOf[r][s]
      /\ old \in 0 .. Last
  BY DEF RunBatch, LockHeld, ChangeTypeOK
<1>1. /\ changed' = [x \in Scripts \X Items |->
            IF x = <<s, old + 1>> THEN changed[x] + 1 ELSE changed[x]]
      /\ by' = [by EXCEPT ![s] = @ \cup {ChecksumOf[r][s]}]
      /\ ledger' = [ledger EXCEPT ![s].cursor = IF done THEN @ ELSE old + 1,
                                  ![s].completed = done]
      /\ UNCHANGED <<schema, holder, dropped>>
  BY <1>0 DEF RunBatch
<1>2. /\ \A x \in Scripts : x # s => ledger'[x] = ledger[x]
      /\ ledger'[s].checksum = ledger[s].checksum
      /\ ledger'[s].cursor = IF done THEN old ELSE old + 1
      /\ ledger'[s].completed = done
  BY <1>0, <1>1 DEF ChangeTypeOK
<1>3. /\ done => /\ at' = [at EXCEPT ![r] = @ + 1]
                 /\ cursor' = [cursor EXCEPT ![r] = NotRead]
      /\ ~done => /\ at' = at
                  /\ cursor' = [cursor EXCEPT ![r] = old + 1]
  BY <1>0 DEF RunBatch, NextScript
<1>4. ChangeTypeOK'
  <2>1. ledger' \in [Scripts -> [checksum : Checksums \cup {"none"},
                                cursor : 0 .. Last, completed : BOOLEAN]]
    <3>1. CASE done
      BY <1>0, <1>1, <3>1 DEF ChangeTypeOK
    <3>2. CASE ~done
      <4>1. old + 1 \in 0 .. Last
        BY <1>0, <3>2, Sizes
      <4>2. ledger' = [ledger EXCEPT ![s].cursor = old + 1,
                                     ![s].completed = FALSE]
        BY <1>1, <3>2
      <4>3. ledger \in [Scripts -> [checksum : Checksums \cup {"none"},
                                   cursor : 0 .. Last, completed : BOOLEAN]]
        BY DEF ChangeTypeOK
      <4>4. [ledger[s] EXCEPT !.cursor = old + 1, !.completed = FALSE]
              \in [checksum : Checksums \cup {"none"},
                   cursor : 0 .. Last, completed : BOOLEAN]
        BY <1>0, <4>1, <4>3
      <4>5. QED
        BY <1>0, <4>2, <4>3, <4>4
    <3>3. QED
      BY <3>1, <3>2
  <2>2. changed' \in [Scripts \X Items -> Nat]
    BY <1>1 DEF ChangeTypeOK
  <2>3. by' \in [Scripts -> SUBSET Checksums]
    BY <1>0, <1>1, OwnChecksum DEF ChangeTypeOK
  <2>4. at' \in [Runners -> 0 .. Cardinality(Scripts) + 1]
    <3>1. at \in [Runners -> 0 .. Cardinality(Scripts) + 1]
      BY DEF ChangeTypeOK
    <3>2. at[r] + 1 \in 0 .. Cardinality(Scripts) + 1
      BY <1>0, Sizes
    <3>3. QED
      BY <1>3, <3>1, <3>2
  <2>5. cursor' \in [Runners -> {NotRead} \cup 0 .. Last]
    <3>1. cursor \in [Runners -> {NotRead} \cup 0 .. Last]
      BY DEF ChangeTypeOK
    <3>2. ~done => old + 1 \in 0 .. Last
      BY <1>0, Sizes
    <3>3. QED
      BY <1>3, <3>1, <3>2
  <2>6. QED
    BY <1>1, <2>1, <2>2, <2>3, <2>4, <2>5 DEF ChangeTypeOK
<1>5. LockHeld'
  <2>1. CASE done
    BY <1>0, <1>1, <1>3, <2>1 DEF LockHeld, ChangeTypeOK
  <2>2. CASE ~done
    BY <1>0, <1>1, <1>2, <1>3, <2>2 DEF LockHeld, ChangeTypeOK
  <2>3. QED
    BY <2>1, <2>2
<1>6. InOrder'
  <2>1. \A x \in Scripts : ledger[x].completed => ledger'[x].completed
    BY <1>0, <1>2
  <2>2. \A o \in Runners, x \in Scripts : x < at'[o] => ledger'[x].completed
    <3> SUFFICES ASSUME NEW o \in Runners, NEW x \in Scripts, x < at'[o]
                 PROVE  ledger'[x].completed
      OBVIOUS
    <3>1. CASE x < at[o]
      BY <2>1, <3>1 DEF InOrder
    <3>2. CASE ~(x < at[o])
      <4>1. o = r /\ done /\ at'[o] = at[o] + 1
        BY <1>3, <3>2 DEF ChangeTypeOK
      <4>2. x = s
        BY <1>0, <3>2, <4>1, Sizes
      <4>3. QED
        BY <1>2, <4>1, <4>2
    <3>3. QED
      BY <3>1, <3>2
  <2>3. \A x \in Scripts : x - 1 \in Scripts /\ by'[x] # {} =>
          ledger'[x - 1].completed
    BY <1>0, <1>1, <2>1, Sizes DEF InOrder, ChangeTypeOK
  <2>4. QED
    BY <2>2, <2>3 DEF InOrder
<1>7. CursorCounts'
  <2> SUFFICES ASSUME NEW x \in Scripts, NEW i \in Items
               PROVE  changed'[<<x, i>>] =
                        IF i <= ledger'[x].cursor THEN 1 ELSE 0
    BY DEF CursorCounts
  <2>1. changed'[<<x, i>>] = IF x = s /\ i = old + 1
          THEN changed[<<x, i>>] + 1 ELSE changed[<<x, i>>]
    BY <1>1
  <2>2. CASE x # s
    BY <1>2, <2>1, <2>2 DEF CursorCounts
  <2>3. CASE x = s
    BY <1>0, <1>2, <2>1, <2>3, Sizes DEF CursorCounts
  <2>4. QED
    BY <2>2, <2>3
<1>8. OneVersion'
  BY <1>0, <1>1, <1>2 DEF OneVersion, ChangeTypeOK
<1>9. WholeScripts'
  BY <1>0, <1>1, <1>2 DEF WholeScripts
<1>10. QED
  BY <1>4, <1>5, <1>6, <1>7, <1>8, <1>9

(* Letting go of the lock, with the ledger as it is. *)
LEMMA LetGoInv ==
  ASSUME ChangeInv, NEW r \in Runners, holder = r, LetGoOf(r),
         UNCHANGED <<changed, schema, by>>, dropped' \in Nat,
         ledger' = ledger
  PROVE  ChangeInv'
<1> USE DEF ChangeInv
<1>1. ChangeTypeOK'
  BY Sizes DEF ChangeTypeOK, LetGoOf
<1>2. LockHeld'
  BY DEF LockHeld, LetGoOf, ChangeTypeOK
<1>3. InOrder'
  BY Sizes DEF InOrder, LetGoOf, ChangeTypeOK
<1>4. CursorCounts' /\ OneVersion' /\ WholeScripts'
  BY DEF CursorCounts, OneVersion, WholeScripts
<1>5. QED
  BY <1>1, <1>2, <1>3, <1>4

LEMMA FailInv ==
  ASSUME ChangeInv, NEW r \in Runners, Fail(r)
  PROVE  ChangeInv'
<1> USE DEF ChangeInv
<1> DEFINE s == at[r]
<1>0. /\ holder = r /\ LetGoOf(r) /\ dropped' \in Nat
      /\ UNCHANGED <<changed, schema, by>>
  BY DEF Fail, ChangeTypeOK
<1>1. CASE ledger' = ledger
  BY <1>0, <1>1, LetGoInv
<1>2. CASE /\ Reading(r) /\ ledger[s] = NoRow
           /\ ledger' = [ledger EXCEPT ![s].checksum = ChecksumOf[r][s]]
  <2>0. s \in Scripts
    BY <1>2 DEF Reading
  <2>1. \A x \in Scripts : /\ ledger'[x].cursor = ledger[x].cursor
                           /\ ledger'[x].completed = ledger[x].completed
                           /\ x # s => ledger'[x] = ledger[x]
    BY <1>2, <2>0 DEF ChangeTypeOK
  <2>2. ChangeTypeOK'
    <3>1. ledger' \in [Scripts -> [checksum : Checksums \cup {"none"},
                                  cursor : 0 .. Last, completed : BOOLEAN]]
      BY <1>2, <2>0, OwnChecksum DEF ChangeTypeOK
    <3>2. QED
      BY <1>0, <3>1, Sizes DEF ChangeTypeOK, LetGoOf
  <2>3. LockHeld'
    BY <1>0 DEF LockHeld, LetGoOf, ChangeTypeOK
  <2>4. InOrder'
    BY <1>0, <2>1, Sizes DEF InOrder, LetGoOf, ChangeTypeOK
  <2>5. CursorCounts' /\ WholeScripts'
    BY <1>0, <2>1 DEF CursorCounts, WholeScripts
  <2>6. OneVersion'
    <3>1. by[s] = {}
      BY <1>2, <2>0, NoneYet DEF NoRow
    <3>2. QED
      BY <1>0, <2>0, <2>1, <3>1 DEF OneVersion
  <2>7. QED
    BY <2>2, <2>3, <2>4, <2>5, <2>6
<1>3. QED
  BY <1>1, <1>2 DEF Fail

LEMMA MigrateInv ==
  ASSUME ChangeInv, NEW s \in Scripts, Migrate(s)
  PROVE  ChangeInv'
<1> USE DEF ChangeInv
<1>0. /\ schema' = [schema EXCEPT ![s] = "dropped"]
      /\ \A i \in Items : changed[<<s, i>>] > 0
      /\ UNCHANGED <<ledger, changed, holder, at, cursor, by, dropped>>
  BY DEF Migrate
<1>1. ChangeTypeOK' /\ LockHeld' /\ InOrder' /\ CursorCounts' /\ OneVersion'
  BY <1>0 DEF ChangeTypeOK, LockHeld, InOrder, CursorCounts, OneVersion
<1>2. ledger[s].cursor = Last
  <2>1. ledger[s].cursor \in 0 .. Last
    BY DEF ChangeTypeOK
  <2>2. CASE Last = 0
    BY <2>1, <2>2
  <2>3. CASE Last # 0
    <3>1. Last \in Items
      BY <2>3, Sizes
    <3>2. changed[<<s, Last>>] > 0
      BY <1>0, <3>1
    <3>3. Last <= ledger[s].cursor
      BY <3>1, <3>2 DEF CursorCounts
    <3>4. QED
      BY <2>1, <3>3, Sizes
  <2>4. QED
    BY <2>2, <2>3
<1>3. WholeScripts'
  BY <1>0, <1>2 DEF WholeScripts, ChangeTypeOK
<1>4. QED
  BY <1>1, <1>3

LEMMA ChangeInvAlways == ChangeSpec => []ChangeInv
<1>1. ChangeInit => ChangeInv
  BY ChangeInitInv
<1>2. ChangeInv /\ [ChangeNext]_changeVars => ChangeInv'
  <2> SUFFICES ASSUME ChangeInv, [ChangeNext]_changeVars PROVE ChangeInv'
    OBVIOUS
  <2>1. ASSUME NEW r \in Runners, Acquire(r) PROVE ChangeInv'
    BY <2>1, AcquireInv
  <2>2. ASSUME NEW r \in Runners, SkipCompleted(r) PROVE ChangeInv'
    BY <2>2, SkipInv
  <2>3. ASSUME NEW r \in Runners, StartScript(r) PROVE ChangeInv'
    BY <2>3, StartInv
  <2>4. ASSUME NEW r \in Runners, RetireScript(r) PROVE ChangeInv'
    BY <2>4, RetireInv
  <2>5. ASSUME NEW r \in Runners, RunBatch(r) PROVE ChangeInv'
    BY <2>5, RunBatchInv
  <2>6. ASSUME NEW r \in Runners, Finish(r) PROVE ChangeInv'
    <3>1. dropped' \in Nat
      BY <2>6 DEF Finish, ChangeInv, ChangeTypeOK
    <3>2. QED
      BY <2>6, <3>1, LetGoInv DEF Finish
  <2>7. ASSUME NEW r \in Runners, Fail(r) PROVE ChangeInv'
    BY <2>7, FailInv
  <2>8. ASSUME NEW s \in Scripts, Migrate(s) PROVE ChangeInv'
    BY <2>8, MigrateInv
  <2>9. CASE UNCHANGED changeVars
    BY <2>9 DEF changeVars, ChangeInv, ChangeTypeOK, LockHeld, InOrder,
                CursorCounts, OneVersion, WholeScripts
  <2>10. QED
    BY <2>1, <2>2, <2>3, <2>4, <2>5, <2>6, <2>7, <2>8, <2>9 DEF ChangeNext
<1>3. QED
  BY <1>1, <1>2, PTL DEF ChangeSpec

------------------------------------------------------------------------------
(* A data change resumed after any number of failures, by runners of any   *)
(* releases, changes every row once, by one version of its script, and in  *)
(* order: ChangedOnce, the promise at the head of data-change.ts.          *)
THEOREM ChangesHappenOnce == ChangeSpec => []ChangedOnce
<1>1. ChangeInv => ChangedOnce
  <2> SUFFICES ASSUME ChangeInv, NEW s \in Scripts
               PROVE  /\ \A i \in Items : changed[s, i] =
                           IF i <= ledger[s].cursor THEN 1 ELSE 0
                      /\ Cardinality(by[s]) <= 1
                      /\ ledger[s].completed =>
                           \A i \in Items : changed[s, i] = 1
                      /\ s > 1 /\ by[s] # {} => ledger[s - 1].completed
    BY DEF ChangedOnce
  <2>1. \A i \in Items : changed[s, i] =
           IF i <= ledger[s].cursor THEN 1 ELSE 0
    BY DEF ChangeInv, CursorCounts
  <2>2. Cardinality(by[s]) <= 1
    <3>1. by[s] = {} \/ by[s] = {ledger[s].checksum}
      BY DEF ChangeInv, OneVersion
    <3>2. Cardinality({}) = 0 /\ Cardinality({ledger[s].checksum}) = 1
      BY FS_EmptySet, FS_Singleton
    <3>3. QED
      BY <3>1, <3>2
  <2>3. ledger[s].completed => \A i \in Items : changed[s, i] = 1
    <3>1. ledger[s].completed => ledger[s].cursor = Last
      BY DEF ChangeInv, WholeScripts
    <3>2. \A k \in Items : k <= Last
      BY Sizes
    <3>3. QED
      BY <2>1, <3>1, <3>2
  <2>4. s > 1 /\ by[s] # {} => ledger[s - 1].completed
    BY Sizes DEF ChangeInv, InOrder
  <2>5. QED
    BY <2>1, <2>2, <2>3, <2>4
<1>2. QED
  BY <1>1, ChangeInvAlways, PTL

------------------------------------------------------------------------------
(* Type correctness *)

(* What runs behind the operations keeps the types of its columns, every   *)
(* part in the steps of its own specification, however they mix.           *)
THEOREM BackgroundTypesHold ==
  Spec /\ AgentSpec /\ PoolSpec /\ BatchSpec /\ ChangeSpec
    => []BackgroundTypeOK
<1>1. /\ TypeOK /\ AgentInv /\ AdmissionTypeOK /\ PoolTypeOK
      /\ BatchInv /\ ChangeInv
      => BackgroundTypeOK
  BY DEF AgentInv, BatchInv, ChangeInv, BackgroundTypeOK
<1>2. QED
  BY <1>1, TypeCorrect, AgentInvAlways, PoolKeepsTheCap,
     AdmissionTypeCorrect, PoolTypeCorrect, BatchInvAlways, ChangeInvAlways,
     PTL
=============================================================================
