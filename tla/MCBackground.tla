----------------------------- MODULE MCBackground -----------------------------
(* What goes on behind and around the operations, in settings of their own *)
(* that one run explores one after the other: a workspace's audit chain,   *)
(* an agent at work with one person at the inbox, a full inbox with two    *)
(* people at it, a pool of connections under the cap on concurrent calls,  *)
(* the batches of one member's notifications, and runners of two releases  *)
(* at the data changes.                                                    *)
EXTENDS AuditChain, AgentRuns, ConnectionPool, NotificationBatches,
        DataChanges, TLC

CONSTANTS Settings, Alone, c1, r1, r2, a1, a2, a3, a4, s1, q1

VARIABLE setting

mcVars == <<setting, vars, runVars, poolVars, batchVars, changeVars>>

MCProposals == (Runs \X Indices) \cup {c1}

(* The second release has changed the second script. *)
MCChecksumOf ==
  (r1 :> (1 :> "a" @@ 2 :> "b")) @@ (r2 :> (1 :> "a" @@ 2 :> "c"))

MCInit ==
  /\ setting \in Settings
  /\ Init /\ RunInit /\ PoolInit /\ BatchInit /\ ChangeInit

(* A proposal is applied, by an action that calls another, and an agent    *)
(* step reads what it may spend and performs its task.                     *)
MCWithin ==
  a1 :> NoCaller @@ a2 :> a1 @@ a3 :> a2 @@ s1 :> NoCaller @@ a4 :> s1 @@ q1 :> s1

(* What a run left in the inbox. *)
Fill ==
  /\ \A p \in Proposals \ Copilot : decision[p] = "none"
  /\ decision' = [p \in Proposals |->
       IF p \notin Copilot /\ p[2] = 0 THEN "pending" ELSE decision[p]]
  /\ UNCHANGED <<undone, rowLock, requests, runs, reversed, crossed, lost,
                 deaths>>

(* The person decides about what the first task left. *)
AtWork ==
  \/ RunNext
  \/ /\ \/ \E r \in Runs : TakeToApply(Alone, <<r, 0>>) \/ Dismiss({<<r, 0>>})
        \/ Perform(Alone) \/ Refuse(Alone) \/ Record(Alone) \/ Die(Alone)
     /\ UNCHANGED <<runRows, agent, cancelling, workers>>

AtInbox ==
  /\ Fill \/ DecisionNext
  /\ UNCHANGED <<runRows, agent, cancelling, workers>>

MCNext ==
  /\ UNCHANGED setting
  /\ \/ /\ setting = "audit" /\ Next
        /\ UNCHANGED <<runVars, poolVars, batchVars, changeVars>>
     \/ /\ \/ setting = "run" /\ AtWork
           \/ setting = "inbox" /\ AtInbox
        /\ UNCHANGED <<vars, poolVars, batchVars, changeVars>>
     \/ /\ setting = "pool" /\ PoolNext
        /\ UNCHANGED <<vars, runVars, batchVars, changeVars>>
     \/ /\ setting = "batches" /\ BatchNext
        /\ UNCHANGED <<vars, runVars, poolVars, changeVars>>
     \/ /\ setting = "changes" /\ ChangeNext
        /\ UNCHANGED <<vars, runVars, poolVars, batchVars>>

(* The fairness of AuditChain and of AgentRuns, each in its own setting. *)
MCFairness ==
  /\ WF_vars(setting = "audit" /\ \E p \in Passes : PassStep(p))
  /\ \A w \in Workers : WF_runVars(setting = "run" /\ WorkerStep(w))

MCSpec == MCInit /\ [][MCNext]_mcVars /\ MCFairness

(* One invariant for the shape of all six. *)
BackgroundTypeOK ==
  /\ TypeOK /\ ProposalTypeOK /\ RunTypeOK
  /\ AdmissionTypeOK /\ PoolTypeOK /\ BatchTypeOK /\ ChangeTypeOK
=============================================================================
