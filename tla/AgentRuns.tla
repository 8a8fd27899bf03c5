------------------------------ MODULE AgentRuns ------------------------------
(***************************************************************************)
(* Runs of a custom agent: agents.startRun and agents.cancelRun            *)
(* (core/src/actions/agents.ts) and the executor that takes one task per   *)
(* delivered outbox row (packages/agents/src/run-executor.ts), together    *)
(* with the decisions about what the agent proposed (ProposalDecisions).   *)
(*                                                                         *)
(* A worker is a relay delivering a step's row to continueAgentRun:        *)
(*   Peek         the unlocked read, then the host resolves the model      *)
(*   Load         processNextTask: the run's row locked and read again     *)
(*   Halt         the step ends the run instead of taking the task         *)
(*   PerformTask  asAgent: the task's action, in a transaction of its own  *)
(*   Conclude     log, index, status and the next row, with the commit     *)
(*   Settle       the relay marks the row delivered                        *)
(*   StepDies     an error or a crash; the row is delivered again, or, at  *)
(*                the relay's ceiling, given up on                         *)
(* A row not yet settled may be in the hands of several relays at once,    *)
(* as OutboxRelay shows.  Tasks are writes: a read commits nothing and its *)
(* step differs from a simulated one in its log line only.                 *)
(***************************************************************************)
EXTENDS ProposalDecisions

CONSTANTS
  Runs,      \* rows of agent_runs, all of one agent
  Length,    \* tasks of a run
  Workers    \* relays

Indices == 0 .. Length - 1

ASSUME RunConstants ==
  /\ Runs # {}
  /\ Length \in Nat \ {0}
  /\ Runs \X Indices \subseteq Proposals \ Copilot
  /\ Nobody \notin Workers

VARIABLES
  status,      \* agent_runs.status, "none" before the row exists
  index,       \* agent_runs.current_task_index
  log,         \* per task, the kind its log line records
  runLock,     \* the worker whose transaction holds the run's row
  queued,      \* step rows of the outbox that are not settled
  dead,        \* step rows the relay has given up on
  enabled,     \* agents.enabled
  autonomy,    \* agents.autonomy
  cancelling,  \* runs a cancelRun has read as running and not yet updated
  phase,       \* per worker
  job,         \* per worker: the run and the index its row names
  seen,        \* per worker: what load read of the agent
  kind         \* per worker: what its task came to

runRows == <<status, index, log, runLock, queued, dead>>
agent   == <<enabled, autonomy>>
workers == <<phase, job, seen, kind>>
runVars == <<decisionVars, runRows, agent, cancelling, workers>>

Ended == {"completed", "failed", "cancelled"}
Modes == {"sandbox", "propose", "scoped_direct"}
Kinds == {"denied", "simulated", "proposed", "applied", "error"}
Phases == {"idle", "peeked", "loaded", "performed", "done"}

RunTypeOK ==
  /\ status \in [Runs -> Ended \cup {"none", "running"}]
  /\ index \in [Runs -> 0 .. Length]
  /\ log \in [Runs -> [Indices -> Kinds \cup {"none"}]]
  /\ runLock \in [Runs -> Workers \cup {Nobody}]
  /\ queued \in [Runs -> SUBSET Indices]
  /\ dead \subseteq Runs \X Indices
  /\ enabled \in BOOLEAN
  /\ autonomy \in Modes
  /\ cancelling \subseteq Runs
  /\ phase \in [Workers -> Phases]
  /\ job \in [Workers -> Runs \X Indices]
  /\ seen \in [Workers -> [enabled : BOOLEAN, autonomy : Modes]]
  /\ kind \in [Workers -> Kinds \cup {"none"}]

NoJob  == <<CHOOSE r \in Runs : TRUE, 0>>
Unseen == [enabled |-> TRUE, autonomy |-> "propose"]

RunInit ==
  /\ DecisionInit
  /\ status = [r \in Runs |-> "none"]
  /\ index = [r \in Runs |-> 0]
  /\ log = [r \in Runs |-> [i \in Indices |-> "none"]]
  /\ runLock = [r \in Runs |-> Nobody]
  /\ queued = [r \in Runs |-> {}]
  /\ dead = {}
  /\ enabled = TRUE
  /\ autonomy = "propose"
  /\ cancelling = {}
  /\ phase = [w \in Workers |-> "idle"]
  /\ job = [w \in Workers |-> NoJob]
  /\ seen = [w \in Workers |-> Unseen]
  /\ kind = [w \in Workers |-> "none"]

------------------------------------------------------------------------------
(* What people do *)

(* The run and the row for its first step, in one transaction. *)
StartRun(r) ==
  /\ status[r] = "none" /\ enabled
  /\ status' = [status EXCEPT ![r] = "running"]
  /\ queued' = [queued EXCEPT ![r] = {0}]
  /\ UNCHANGED <<decisionVars, index, log, runLock, dead, agent, cancelling,
                 workers>>

(* agents.setEnabled or agents.setAutonomy *)
SetAgent(on, mode) ==
  /\ (on # enabled) # (mode # autonomy)
  /\ enabled' = on /\ autonomy' = mode
  /\ UNCHANGED <<decisionVars, runRows, cancelling, workers>>

(* cancelRun reads the run without a lock ... *)
ReadToCancel(r) ==
  /\ status[r] = "running"
  /\ cancelling' = cancelling \cup {r}
  /\ UNCHANGED <<decisionVars, runRows, agent, workers>>

(* Mutant: the cancel does not wait for the step that holds the row. *)
MutCancelAtOnce(r) ==
  /\ r \in cancelling
  /\ cancelling' = cancelling \ {r}
  /\ status' = [status EXCEPT ![r] = "cancelled"]
  /\ UNCHANGED <<decisionVars, index, log, runLock, queued, dead, agent, workers>>

(* ... and updates it by id, once no step holds it, whatever it is by then *)
Cancel(r) ==
  /\ r \in cancelling
  /\ runLock[r] = Nobody
  /\ cancelling' = cancelling \ {r}
  /\ status' = [status EXCEPT ![r] = "cancelled"]
  /\ UNCHANGED <<decisionVars, index, log, runLock, queued, dead, agent, workers>>

AbandonCancel(r) ==
  /\ r \in cancelling
  /\ cancelling' = cancelling \ {r}
  /\ UNCHANGED <<decisionVars, runRows, agent, workers>>

------------------------------------------------------------------------------
(* One step *)

RunOf(w)  == job[w][1]
TaskOf(w) == job[w][2]

(* The row still describes the run. *)
Current(r, i) == status[r] = "running" /\ index[r] = i

Peek(w, r, i) ==
  /\ phase[w] = "idle" /\ i \in queued[r]
  /\ job' = [job EXCEPT ![w] = <<r, i>>]
  /\ phase' = [phase EXCEPT ![w] = IF Current(r, i) THEN "peeked" ELSE "done"]
  /\ UNCHANGED <<decisionVars, runRows, agent, cancelling, seen, kind>>

(* The row is taken again, for update; a step overtaken since is skipped. *)
Load(w) ==
  /\ phase[w] = "peeked" /\ runLock[RunOf(w)] = Nobody
  /\ IF Current(RunOf(w), TaskOf(w))
       THEN /\ phase' = [phase EXCEPT ![w] = "loaded"]
            /\ runLock' = [runLock EXCEPT ![RunOf(w)] = w]
            /\ seen' = [seen EXCEPT ![w] =
                 [enabled |-> enabled, autonomy |-> autonomy]]
       ELSE /\ phase' = [phase EXCEPT ![w] = "done"]
            /\ UNCHANGED <<runLock, seen>>
  /\ UNCHANGED <<decisionVars, status, index, log, queued, dead, agent,
                 cancelling, job, kind>>

(* An agent turned off, no model or the cost cap: cancelled, and the task  *)
(* denied.  A budget: failed.  Which limit stands is the workspace's own   *)
(* affair.                                                                 *)
Halt(w) ==
  /\ phase[w] = "loaded"
  /\ \E end \in {"cancelled", "failed"} :
       /\ ~seen[w].enabled => end = "cancelled"
       /\ status' = [status EXCEPT ![RunOf(w)] = end]
       /\ log' = [log EXCEPT ![RunOf(w)][TaskOf(w)] =
            IF end = "cancelled" THEN "denied" ELSE "error"]
  /\ runLock' = [runLock EXCEPT ![RunOf(w)] = Nobody]
  /\ phase' = [phase EXCEPT ![w] = "done"]
  /\ seen' = [seen EXCEPT ![w] = Unseen]
  /\ UNCHANGED <<decisionVars, index, queued, dead, agent, cancelling, job, kind>>

(* Mutant: the log line does not wait for the answer. *)
MutPerformHopefully(w) ==
  /\ phase[w] = "loaded" /\ seen[w].enabled
  /\ seen[w].autonomy = "scoped_direct"
  /\ phase' = [phase EXCEPT ![w] = "performed"]
  /\ kind' = [kind EXCEPT ![w] = "applied"]
  /\ \/ runs' = [runs EXCEPT ![job[w]] = @ + 1]
     \/ UNCHANGED runs
  /\ UNCHANGED <<rows, requests, reversed, crossed, lost, deaths, runRows,
                 agent, cancelling, job, seen>>

(* scoped_direct: the action commits, or refuses and leaves an error. *)
PerformTask(w) ==
  /\ phase[w] = "loaded" /\ seen[w].enabled
  /\ seen[w].autonomy = "scoped_direct"
  /\ phase' = [phase EXCEPT ![w] = "performed"]
  /\ \/ /\ kind' = [kind EXCEPT ![w] = "applied"]
        /\ runs' = [runs EXCEPT ![job[w]] = @ + 1]
     \/ /\ kind' = [kind EXCEPT ![w] = "error"]
        /\ UNCHANGED runs
  /\ UNCHANGED <<rows, requests, reversed, crossed, lost, deaths, runRows,
                 agent, cancelling, job, seen>>

(* Without calling anything: no such action, no binding, or the mode. *)
Quiet(w) ==
  {"error", "denied"} \cup
    (CASE seen[w].autonomy = "sandbox" -> {"simulated"}
       [] seen[w].autonomy = "propose" -> {"proposed"}
       [] OTHER -> {})

(* Mutant: the next step is left to somebody else. *)
MutAdvanceOnly(w, k) ==
  LET r == RunOf(w)  i == TaskOf(w) IN
  /\ index' = [index EXCEPT ![r] = i + 1]
  /\ log' = [log EXCEPT ![r][i] = k]
  /\ status' = [status EXCEPT ![r] =
       IF i + 1 = Length THEN "completed" ELSE "running"]
  /\ UNCHANGED queued
  /\ runLock' = [runLock EXCEPT ![r] = Nobody]
  /\ decision' = IF k = "proposed" THEN [decision EXCEPT ![job[w]] = "pending"]
                                   ELSE decision
  /\ phase' = [phase EXCEPT ![w] = "done"]

(* Mutant: a step is queued for the task after the last. *)
MutAdvancePastEnd(w, k) ==
  LET r == RunOf(w)  i == TaskOf(w) IN
  /\ index' = [index EXCEPT ![r] = i + 1]
  /\ log' = [log EXCEPT ![r][i] = k]
  /\ status' = [status EXCEPT ![r] =
       IF i = Length THEN "completed" ELSE "running"]
  /\ queued' = [queued EXCEPT ![r] =
       IF i = Length THEN @ ELSE @ \cup {i + 1}]
  /\ runLock' = [runLock EXCEPT ![r] = Nobody]
  /\ decision' = IF k = "proposed" THEN [decision EXCEPT ![job[w]] = "pending"]
                                   ELSE decision
  /\ phase' = [phase EXCEPT ![w] = "done"]

(* The commit of the step: the log line, the next index, the status, the   *)
(* next row, and the proposal when there is one.                           *)
Advance(w, k) ==
  LET r == RunOf(w)  i == TaskOf(w) IN
  /\ index' = [index EXCEPT ![r] = i + 1]
  /\ log' = [log EXCEPT ![r][i] = k]
  /\ status' = [status EXCEPT ![r] =
       IF i + 1 = Length THEN "completed" ELSE "running"]
  /\ queued' = [queued EXCEPT ![r] =
       IF i + 1 = Length THEN @ ELSE @ \cup {i + 1}]
  /\ runLock' = [runLock EXCEPT ![r] = Nobody]
  /\ decision' = IF k = "proposed" THEN [decision EXCEPT ![job[w]] = "pending"]
                                   ELSE decision
  /\ phase' = [phase EXCEPT ![w] = "done"]

Conclude(w) ==
  /\ \/ /\ phase[w] = "loaded" /\ seen[w].enabled
        /\ \E k \in Quiet(w) : Advance(w, k)
     \/ phase[w] = "performed" /\ Advance(w, kind[w])
  /\ kind' = [kind EXCEPT ![w] = "none"]
  /\ seen' = [seen EXCEPT ![w] = Unseen]
  /\ UNCHANGED <<undone, rowLock, requests, runs, reversed, crossed, lost,
                 deaths, dead, agent, cancelling, job>>

Settle(w) ==
  /\ phase[w] = "done"
  /\ queued' = [queued EXCEPT ![RunOf(w)] = @ \ {TaskOf(w)}]
  /\ phase' = [phase EXCEPT ![w] = "idle"]
  /\ job' = [job EXCEPT ![w] = NoJob]
  /\ UNCHANGED <<decisionVars, status, index, log, runLock, dead, agent,
                 cancelling, seen, kind>>

(* The process is gone, or the handler throws: for a database error, or    *)
(* for as long as the workspace is frozen.  Whether the relay records the  *)
(* failure, and whether the attempts are used up when it does, is the      *)
(* outbox's affair.                                                        *)
StepDies(w) ==
  /\ phase[w] # "idle" /\ deaths < MaxDeaths
  /\ \/ UNCHANGED <<queued, dead>>
     \/ /\ queued' = [queued EXCEPT ![RunOf(w)] = @ \ {TaskOf(w)}]
        /\ dead' = dead \cup {job[w]}
  /\ deaths' = deaths + 1
  /\ phase' = [phase EXCEPT ![w] = "idle"]
  /\ kind' = [kind EXCEPT ![w] = "none"]
  /\ runLock' = [r \in Runs |-> IF runLock[r] = w THEN Nobody ELSE runLock[r]]
  /\ lost' = IF kind[w] = "applied" THEN lost \cup {job[w]} ELSE lost
  /\ job' = [job EXCEPT ![w] = NoJob]
  /\ seen' = [seen EXCEPT ![w] = Unseen]
  /\ UNCHANGED <<rows, requests, runs, reversed, crossed, status, index, log,
                 agent, cancelling>>

WorkerStep(w) ==
  \/ \E r \in Runs, i \in Indices : Peek(w, r, i)
  \/ Load(w)
  \/ Halt(w)
  \/ PerformTask(w)
  \/ Conclude(w)
  \/ Settle(w)

RunNext ==
  \/ \E r \in Runs :
       StartRun(r) \/ ReadToCancel(r) \/ Cancel(r) \/ AbandonCancel(r)
  \/ \E on \in BOOLEAN, mode \in Modes : SetAgent(on, mode)
  \/ \E w \in Workers : WorkerStep(w) \/ StepDies(w)

AgentNext ==
  \/ RunNext
  \/ DecisionNext /\ UNCHANGED <<runRows, agent, cancelling, workers>>

(* A relay goes on with what it has begun and looks for rows. *)
AgentSpec ==
  /\ RunInit /\ [][AgentNext]_runVars
  /\ \A w \in Workers : WF_runVars(WorkerStep(w))

------------------------------------------------------------------------------
(* Properties *)

(* "Locked, so a cancel and a step cannot interleave", and "two relays     *)
(* holding two rows for one run cannot both take the same task": while a   *)
(* step is past load, its run is running, at the step's own index, and its *)
(* task has left neither a log line nor a proposal yet.                    *)
StepMeetsItsRun ==
  \A w \in Workers : phase[w] \in {"loaded", "performed"} =>
    /\ Current(RunOf(w), TaskOf(w))
    /\ runLock[RunOf(w)] = w
    /\ log[RunOf(w)][TaskOf(w)] = "none"
    /\ decision[job[w]] = "none"

(* What keeps a run going: the row of a running run's next task is still   *)
(* to be settled, whatever was skipped, repeated or lost, unless the relay *)
(* has given up on that very row.                                          *)
NeverStranded ==
  \A r \in Runs : status[r] = "running" =>
    index[r] \in queued[r] \/ <<r, index[r]>> \in dead

(* What a person reads in the log is what happened: a line per task taken, *)
(* and one more only where the run ended; an applied task was performed;   *)
(* one denied, simulated or refused was not, and one proposed not before   *)
(* somebody took it up, unless a step died after performing it.            *)
LogTruthful ==
  \A r \in Runs, i \in Indices : LET t == <<r, i>> IN
    /\ i < index[r] => log[r][i] # "none"
    /\ i >= index[r] /\ log[r][i] # "none" =>
         i = index[r] /\ status[r] \in Ended
    /\ log[r][i] = "applied" => runs[t] > 0
    /\ log[r][i] \in {"denied", "simulated", "error"} /\ runs[t] > 0
         => t \in lost
    /\ log[r][i] = "proposed" /\ decision[t] = "pending" /\ runs[t] > 0
         => t \in Excused \/ \E d \in Deciders : t \in ran[d]

(* How a run ended is final, except that a cancel that read it as running  *)
(* still overwrites it, although the executor's comment has the cancel     *)
(* find the run where the step left it.                                    *)
EndingStands ==
  [][\A r \in Runs : status[r] \in Ended /\ status'[r] # status[r] =>
       status'[r] = "cancelled" /\ r \in cancelling /\ runLock[r] = Nobody]_status

(* A run that is running ends, or stands at a row the relay has given up   *)
(* on: deliveries repeated or lost, cancels and decisions do not keep it   *)
(* going, nor leave it standing.                                           *)
RunEnds ==
  \A r \in Runs :
    status[r] = "running" ~> status[r] \in Ended \/ <<r, index[r]>> \in dead
=============================================================================
