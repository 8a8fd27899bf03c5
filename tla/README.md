# TLA+ models of Open OKR

Specifications of the parts of Open OKR whose correctness depends on the order
things happen in, checked with TLC on small instances and, for the properties
that matter most, proved with TLAPS for every value of the constants.

Open OKR is a TypeScript monorepo: a Next.js application (`apps/web`) over a
domain core (`packages/core`), PostgreSQL (`packages/db`), drivers
(`packages/adapters`) and an agent runtime (`packages/agents`). Every change to
a workspace goes through one function, `runOperation`
(`packages/core/src/operations/operation.ts`): a READ COMMITTED transaction
that resolves the actor, compares levels, executes, and writes an activity, an
audit row and outbox rows. Everything else that happens later (mail, chat
messages, indexing, agent steps, the audit chain) is taken from those rows by
background workers, of which there may be one per web process.

So concurrency bites in four places: between two operations, inside an
operation that commits in more than one transaction, between a row and the
workers that pick it up, and between a worker and its own crash. The modules
follow them.

## Inventory

| Component | State | Operations | What makes it correct | Model |
|---|---|---|---|---|
| Outbox and relays (`db/src/outbox.ts`, `adapters/src/relay.ts`) | `outbox` rows: attempts, available_at, delivered_at, dead_lettered_at; per relay: running, the claimed batch | enqueue; rank, claim, dispatch, mark delivered, mark failed; start, stop; purge | one relay per row, one way to settle, duplicates only after a lost acknowledgement, a ceiling on attempts, fairness between workspaces, every row settled | `OutboxContract`, `OutboxRelay` |
| Channel delivery (`core/src/outbox/handlers.ts`, `core/src/channels`) | `channel_messages` status, `channel_connections` state | queue, read, send, write status, mark connection; connect, disconnect; retention | "safe to run twice", the log agrees with the queue | `ChannelDelivery` |
| Workspace administration (`core/src/actions/people.ts`, `roles.ts`, `core/src/people/lifecycle.ts`, `core/src/access`) | member kind, status, account and role; personal bindings; role levels | suspend, restore, convert to guest, erase, appoint, dismiss, assign a role, set a role's level | a workspace keeps an administrator, a guest is none, an appointment appoints | `Administrators` |
| Operation pipeline (`core/src/operations`) | none of its own | resolve, authorise, execute, audit, commit or roll back | no write without access, none without its audit row | in `Administrators` and `AuditChain` |
| Audit chain (`core/src/audit`) | `audit_events` seq, prev_hash, row_hash | append; lock, read head, read pending, number, commit; verify | the chain verifies at any moment, positions are permanent, every row gets one | `AuditLedger`, `AuditChain` |
| Agent runs (`agents/src/run-executor.ts`, `core/src/actions/agents.ts`) | run status, task index, log; step rows; the agent's two switches | start, step (load, halt, perform, conclude), cancel, switch, apply mode | a task once, none after a cancel, a run ends, the log tells what happened | `AgentRuns` |
| Proposals (`core/src/actions/proposal-decisions.ts`, `copilot-proposals.ts`) | proposal status, undone | apply, dismiss, bulk apply and dismiss, the copilot's apply, dismiss and undo | performed once, and recorded as what was done | `ProposalDecisions` |
| Weekly session (`core/src/actions/sessions.ts`, `method/src/streak.ts`) | stage, state, confidences, blockers, commitments, digests, streak | open, advance, skip, close, and the records the gates read | a gate is passed, not jumped; a week counts once | `WeeklySession` |
| Votes (`core/src/actions/sessions.ts`) | votes, revealed_at | cast, reveal, read | hidden until revealed, one per member, fixed afterwards | `SessionVotes` |
| Task board (`core/src/tasks/service.ts`, `core/src/actions/tasks.ts`) | column, position, deleted | create, update, move (claim, look, lock, drop), delete, restore | distinct positions, a drag moves one card | `TaskBoard` |
| Goals and alignment (`core/src/scoring/recompute.ts`, `method/src/scoring.ts`, `core/src/goals`) | parent, deleted, closed, value, progress, health | record, publish a check-in, align, delete, restore, close, reopen; load, commit | what a goal shows is what its tree adds up to; no circle | `GoalProgress` |
| Cycles (`core/src/cycles/archive.ts`, `core/src/actions/cycles.ts`) | status, scores, snapshot, prior scores, previous_cycle_id | create, close, snapshot, feed forward, grade, archive | the inheritance lands once, a closed result stands | `CycleClose` |
| Notifications (`core/src/notifications`) | notifications, batches, digest rows | find or make a batch, commit, claim, mail | no committed notification is forgotten | `NotificationBatches` |
| Admission (`core/src/tenancy/admission.ts`, the cache drivers) | the counter, its expiry | admit, refuse, release, expire, die | the counter bounds the running actions | `Admission` |
| Connections (`apps/web/lib/pool.ts`, `db/src/tenant.ts`) | per process: who has a connection, who waits for one | begin and end a transaction, call from inside one, ask the counter, release it | one workspace leaves a connection to the others, and callers do not all wait for one another | `ConnectionPool` |
| Data changes (`db/src/data-change.ts`) | ledger, cursor, session lock | acquire, start, batch, retire, finish, fail | every row once, by one release, in order | `DataChanges` |
| OAuth, API tokens, device grants | codes, tokens, grants | issue, exchange, revoke | a code is used once | not modelled, see below |
| Sign-in, SSO, directory sync | sessions, directory users | suspend and restore in `Administrators` | | the rest is third-party protocol code |
| Search, embeddings, AI, imports, exports, UI, CLI, method engine | derived data, documents, pure functions | | | not modelled: no interleaving of their own; unit tests reach them |

How they interact: operations write outbox rows and audit rows in their own
transaction (shared tables); relays call handlers (calls); handlers write the
message log and the connection (shared tables); the scheduler starts chainer
passes, drains of notification batches and data changes (timers, deploys). A
step of an agent run and the application of a proposal call an operation inside
another (nested transactions on two connections of one pool). There is no
message passing between components except through rows.

What is hard to test here, each at its line, is listed under `hazards` in
`PROJECT.json`.

## Modules

### OutboxContract

What a writer may rely on: a committed row is sent or given up on, settled one
way, and not sent afterwards. Five states per row and whether it was sent.

### OutboxRelay

`packages/adapters/src/relay.ts`, one action per statement or call that another
process can get in between:

| Action | Code |
|---|---|
| `Enqueue` | `enqueueOutbox`, with the commit of the writer |
| `Rank` | the first statement of `#claim`: a fair ranking, no lock |
| `Claim` | the second: re-check, lease and `attempts + 1` in one update, then the re-sort |
| `DispatchEnds` | `options.dispatch` returns or throws; a throw may follow a send |
| `MarkDelivered`, `MarkFailed` | the two updates of `drainOnce` |
| `MarkDeliveredThrows`, `MarkFailedThrows` | their statement or its reply is lost: the first is caught as a failed dispatch, the second ends the drain |
| `Crash`, `Stop`, `Start` | the process |
| `Purge` | `purgeSettledOutbox` |
| `Tick` | one second |

Time is relative: `wait[r]` counts down to zero, which stands for all of the
past, so no clock grows. `Tick` may not let a row take longer than
`DispatchLimit` to dispatch and record. That is the assumption about drivers
which `leaseSeconds` is chosen against, and every property that needs the lease
says so with `Sized`: the lease outlasts `BatchSize * DispatchLimit`, because a
batch is leased at once and dispatched one row at a time. The shipped settings,
a batch of 50 under a lease of 120 seconds, guarantee it only where a dispatch
takes two seconds or so; what happens beyond that (a lease that lapses under its
holder, a late `#markFailed` of the former holder) is neither explored nor
claimed. The claim is one
step: of two claims that meet, `for update skip locked` lets the second pass
over what the first has taken, as if it had come after.

`sends`, `blurred`, `refused` and `disruptions` are history; no action reads
the first three.

### ChannelDelivery

Extends `OutboxRelay`: the rows are `channel.message` rows, and the dispatch of
the relay becomes the handler, `ReadMessage`, `Send`, `WriteStatus`,
`MarkConnection`, each its own transaction or call, with `HandlerThrows` and
crashes between any two. `Queue`, `Connect`, `Disconnect` and `Sweep` are
administrators, writers and retention around it. The driver is external: it
answers sent, suppressed or failed, and a failed send may have landed. A
delivery has a driver only when the instance's mail settings could be read for
it (`apps/web/lib/relay.ts:94`, `:151`), whatever provider the message is for.
Without one `ReadMessage` acknowledges the row and leaves the log queued;
`skipped` remembers it. Malformed payloads are left out.

### Administrators

Transactions of `runOperation` on members: `Authorise` (resolveActor and the
floor), `Check` (the reads of `execute`, the last-holder guard among them), one
action per write with its commit, and `Rollback`. Every statement of a READ
COMMITTED transaction sees what has committed by then, hence the steps; the
writes of one operation are on rows they lock, so write and commit are one
step. Levels are abstracted to full access on the workspace or less.
`HoldsFull` is `resolveMemberAccessLevel`; `AnotherHolds` is the negation of
`isLastFullAccessHolder`; `late` is what lets `ConvertToGuest` miss a binding
that committed after its strip.

Left out: support sessions, agents and placeholders (none can hold full access
to the workspace lastingly), `roles.create` and `roles.delete`, and the
recovery commands of an operator.

### AuditLedger

What the chain promises to an auditor: a list of what was done, written to at
its end only, nothing twice and nothing that was not done.

### AuditChain

`AppendAudit`, `CommitRow` and `LoseRow` are writers, whose rows become visible
in any order. A pass is `Lock` (the advisory lock), `ReadHead`, `ReadPending`,
`Number` once per row, and `CommitPass`; `CrashPass` may end it anywhere. A
row's hash covers its own seq, content and previous hash, so a hash is
represented by the row it is of. `Ledger` is the refinement: what is done is the
committed rows, and `Trail` the numbered ones in their order. The unique index
and the append-only trigger of the table are left out on purpose: what is shown
does not lean on them.

### ProposalDecisions

Applying a proposal runs the proposed action through `callAction`, in a
transaction that commits before the one which records the decision. `Take...`
are the reads that open a decision: only `TakeToApply` (`decidable`) locks its
row, `TakeBulk` and `TakeFromConversation` do not, as in the code. `Perform` or
`Refuse` is the action, `Record` the update, `Dismiss` a dismissal, `Die` a lost
process: row locks go, what `Perform` committed stays. `RecordProposal` is the
copilot putting a new proposal on the table. History: how often each
action and its reverse were committed (`runs`, `reversed`), proposals two
requests had in hand (`crossed`), proposals performed and not recorded (`lost`).
Left out: a commit of `Perform` whose reply is lost, which leaves what a death
after it leaves. In `MCBackground` the action `Fill` puts the agents' own
proposals of the inbox there; in a run they come from its tasks.

### AgentRuns

Extends `ProposalDecisions`: what an agent proposes is decided by people while
the run goes on. A worker is a relay with a step's row in its hands; the outbox
is taken as what `OutboxRelay` shows it to be, at-least-once delivery to several
workers at a time, and not composed with it (the states multiply and a step
relies on nothing else).

| Action | Code |
|---|---|
| `StartRun`, `SetAgent` | `agents.startRun`, `setEnabled`, `setAutonomy` |
| `ReadToCancel`, `Cancel` | `agents.cancelRun`: an unlocked read, an update by id |
| `Peek`, `Load` | `continueAgentRun`'s unlocked read; `processNextTask` under the row lock |
| `Halt`, `PerformTask`, `Conclude` | the early ends; the task in a transaction of its own; log, index, next row |
| `Settle`, `StepDies` | the relay stamps the row, or the step fails or dies and is delivered again, or given up on (`dead`) at the relay's ceiling |

Which budget stands is a free choice of `Halt`: it ends a run at any load.

### SessionVotes, WeeklySession

`SessionVotes` splits a cast into its reads (`ReadToCast`) and its write
(`WriteVote`), which is an update by id or an insert against the partial unique
index; `Reveal` is one update, taken as one step: a vote that commits between
its snapshot and its commit counts as cast after it. `WeeklySession` has a clerk
per request: `ReadSession`, `Ask`, `PassGate` and `ReadStreak` are what it
reads, `Open`, `Advance`, `Skip` and `Close` its writes by id; the unique key of
the stage's outbox row is what refuses a second advance. Confidences, blockers
and commitments change around it in transactions of their own (`Confirm`,
`CreateBlocker`, ...). So do the key results of the cycle (`Join`, `Part`) and
the workspace's bound (`SetBound`): a gate queries both anew (`Ask`), compares
them with the records in another statement (`PassGate`), and neither is frozen
by a session under way. `joined` is history: the key results that came into the
cycle after a session's confidence gate was asked; `promised` is what the
commitments gate asked for. Whether a confidence is low is decided at its last
confirmation; the settings that decide it do not move on their own.

### TaskBoard

A drag is `Claim` (the advisory lock of the landing column), `Look` (the
neighbours there, where there is a gap), `Crowd` (where there is none, the
verdict to renumber), `LockColumn` (after `Crowd`, in a statement of its own:
the column's rows locked and read in order) and `Drop` (place, or renumber and
place). Between `Crowd` and `LockColumn` the card that the drag was dropped on
may leave; `Drop` then lands at the top. The two reads of `columnNeighbours` for
one verdict are one step. Positions are whole numbers, and a gap below 2 is one
without room. `Create` and `Restore`, `UpdateStatus` and `Delete` take no column
lock, as in `actions/tasks.ts`. `loose` is history: cards placed without the
lock.

### GoalProgress

A writer is one transaction: its first write keeps row locks, `Load` reads the
branch above its goal and works it out (`recomputeScoring` to its comparison
with what is stored), `Commit` writes the rows whose answer moved and makes all
of it visible. `Branch` and `Siblings` are `loadGoalBranch`, `Unringed` and
`Cascade` the two passes of `cascadeProgress`, `ClosesLoop` is
`wouldCloseAlignmentLoop`. Progress is the set of readings that went into it:
two goals with the same readings have the same number, and a number computed
from an old reading is told apart from one computed from the new. Weights,
thresholds, forecasts, KPIs and the alignment score are left out.

`LooksFor` is the rows that the queries of a load look for: the branch, the
goal the walk stops below because it is deleted, and the siblings. `Changed` is
what a commit changes of them: its goal, the rows it writes, and the goal it
puts a child under. A load that another commit has changed something of is
`late`, which is the only thing `NumbersExplained` excuses on that side.

### CycleClose

A desk is one transaction around cycles of one mode: `CreateCycle` and
`LookBack` (`createCycleInTx`, `ensureCurrentCycleInTx`,
`feedFromClosedPredecessorInTx`), `CloseCycle` and `LookAhead`
(`closeCycleInTx`), `SnapshotCycle`, `FeedForward`, and `Settle`, the writes and
the commit of either. `Grade` is a quarterly review closing, `ArchiveCycle` the
soft delete. One key result per cycle stands for all that is graded and fed.
The reads of one feed are taken as one, a cycle is not created, reviewed and
closed inside one running creation (`Overlooked`), and a period is not created
again after its cycle was archived. `unnamed` is history: the closes that fed a
cycle which already named another one before it, so that the feed left no link.

### NotificationBatches, Admission, ConnectionPool, DataChanges

`NotificationBatches`: an operation places its notification in the pending batch
it finds or makes (`on conflict do nothing`, then a second look) and commits
later; `ClaimBatch` is the drain, and `SendDigest` one delivery of the digest:
it reads the oldest `LineLimit + 1` committed rows of the batch, drops those the
member may not see, lists `LineLimit` of the rest, and leaves the outbox row or
settles it. `SettleUnsent` settles it without a mail: acknowledged because the
mail settings or the member's address are missing (`handlers.ts:404`), or
dead-lettered at the relay's ceiling (`relay.ts:615`). `fate` is history, what
the last reading did with a notification, and so is `unsent`, the digests
settled without a mail. At most one batch of a member is pending. `Admission`:
`Ask` is the increment and the admission, `GiveBack` the refusal's or the
release's decrement, `Expire` the end of the counter's window, `Kill` a process
that never releases. `ConnectionPool` extends it: a call of this process gets
from one of these steps to the next over connections of one bounded pool. It
takes one to ask the counter (`WantAdmission`, `Admit`), gives it back, takes
one for its transaction (`WantTransaction`, `EndTransaction`), and one to
release (`WantRelease`, `Release`). `Within` says from whose transaction a call
is made: that one keeps its connection until the call has come back.
`Unadmitted` are the transactions that no counter admits: steps of agent runs,
and what is read over the pool from inside another transaction, which takes a
second connection (a step reads what it may spend so, `run-executor.ts:388`).
`Around` is the other processes, which share the counter and not the pool.
`DataChanges`: runners of several releases, a session lock, a ledger row per
script with its cursor and checksum, batches, refusals, crashes, and `Migrate`,
the migration that retires a script.

### MC and proof modules

`MCOutboxRelay`, `MCChannelDelivery` and `MCAdministrators` define the values
the configurations use, symmetry sets and views. `MCBackground` and
`MCCollaboration` put several modules with disjoint variables side by side: the
variable `setting` picks one at the start, and only its actions follow. So each
setting is explored by itself and the states add up instead of multiplying.
`OutboxRelayProofs`, `ChannelDeliveryProofs`, `WorkspaceProofs`
(administration), `AuditChainProofs`, `BackgroundProofs` (agent runs, proposals,
admission, connections, notifications, data changes), `SessionProofs` (both
modules), `PlanningProofs` (cycles and the board) and `GoalProofs` hold the
theorems.

The operators named `Mut...` are plausible bugs of the definition that follows
them; no specification uses them. Substituting one must break the property it
is paired with in `PROJECT.json`.

## Runs

| Run | Checks | Instance | Shows |
|---|---|---|---|
| `relay_safety` | `ExclusiveHold`, `SettledOneWay`, `DuplicatesExplained`, `CeilingKept` | 2 rows, 2 relays, batch 2, lease 3, 2 attempts, 1 disruption | one relay per row; both stamps on one row, a second send and a claim past the ceiling only where a lost reply or a crash explains them |
| `relay_fair` | `FairDispatch`, `NoTenantShutOut` | 3 rows of one workspace before 1 of another, batch 3 | claims and dispatches take turns |
| `relay_contract` | `ImplementsContract` | 2 rows, 2 relays, 1 attempt, 1 disruption | refinement of `OutboxContract`, with its liveness |
| `channel_delivery` | `DeliveryTypeOK`, `PostedOnce`, `LogSettledFirst` | 2 messages, 1 relay, 2 attempts, 1 disruption | a second post only where the status write of the first failed; the log lags behind the queue only where a delivery had no driver |
| `channel_retry` | `FailureIsRetried` | 1 message | violated |
| `administrators` | `TypeOK`, `GuestsHoldNothing`, `LastHolderKept` | founder and 2 members, 2 transactions, 4 operations | the guard works for every road to full access, as long as nothing commits between it and the write |
| `admin_last` | `LastAdministratorStays` | 2 members | violated |
| `admin_appoint` | `AppointmentGrantsFullAccess` | 2 members, 1 transaction | violated |
| `admin_window` | `RevocationWindowClosed` | 2 members | violated |
| `background` | `BackgroundTypeOK`, `ChainVerifies`, `OutOfOrderExplained`, `ImplementsLedger`, `EveryRowChained` | audit: 4 rows, 2 passes, batch 2, 1 crash | the chain is sound at every moment, only ever added to, and complete in the end |
| | `StepMeetsItsRun`, `NeverStranded`, `LogTruthful`, `RunEnds` | run: 1 run of 2 tasks, 2 relays, 1 person at the first task's proposal, 1 death | a step never meets a run that moved on, a run ends or its row was given up on, and the log says what was done |
| | `AppliedOnce`, `RecordMatchesEffect`, `DecisionStands` | inbox: 2 proposals (one of a conversation), 2 deciders, 1 death | an action is performed again only where a reader without the lock crossed it or its performer died |
| | `CapKept`, `SlotLeft` | pool: 3 connections, 3 calls each inside the one before, an agent step with a call and a read of its own, a call of another process, limit 2, 1 death | beyond the limit only what an expired counter forgot; beyond that and what nobody admits no connection |
| | `NothingForgotten` | batches: 3 notifications, 3 batches, mails of 1 line | a committed notification is pending or in an unsettled digest until that was read or settled without a mail, and what a mail cut was not among the oldest |
| | `ChangedOnce` | changes: 2 scripts of 2 rows, 2 releases, 4 failures | rows change once, whoever resumes |
| `collaboration` | `CollaborationTypeOK`, `VotesAsPromised`, `RevealedStands` | votes: 2 members, 2 rounds of one key result, 2 ballots | hidden votes stay hidden and revealed ones fixed, but for casts that had read before the reveal |
| | `GatesHeld`, `StagesInOrder` | stages: 1 session, 2 key results, 2 clerks, 1 change around | no stage is jumped, whatever the requests overlap; what lacks a confidence beyond the gate came after it |
| | `StreakCountsWeeks` | weeks: 2 sessions, 3 weeks | a week counts once |
| | `DistinctPlaces`, `DragsMoveOneCard` | board: 3 cards, 2 columns, 2 hands, 5 requests | cards under the lock never share a place and land where they were dropped |
| | `NumbersExplained`, `LoopsExplained` | goals: a chain of 3 and a pair under a third, 3 key results, 2 transactions at a time and 3 in all, roll-up on and off | a wrong number or a circle always has one of the causes below |
| | `CloseKept` | cycles: 3 cycles, 2 desks, 2 grades, 1 feed by hand | an inheritance lands, once, and a closed result stands, but for the causes below |
| `cycle_order` | `FedFromOneClose` | 4 cycles, 1 desk | violated, see below |

### Bounds, and why they are enough

* Two relays: every hazard of the relay is between the holder of a row and one
  other. Two rows in a batch of two: the second row waits behind the first,
  which is what the lease is about. Two attempts: one below the ceiling and one
  at it. One disruption reaches every explained exception; two of them multiply
  the states and not the cases.
* `relay_fair` needs more due rows of one workspace than the batch takes, and
  one row of another.
* One relay in `channel_delivery`: with `Sized`, `ExclusiveHold` (proved) says
  a second relay is never in the same handler, and the crash of the first stands
  for the change of hands. Two messages meet in the connection they share.
  `DeliveryView` drops the columns of rows nothing is sent for any more.
* Three members are a founder, one who crosses them, and one more. Four
  operations reach appointing two and removing two. `MCRequests` leaves out
  granting full access to the Admin role, which differs from granting it to
  the default role only in who holds it. `AskerView` drops who asked.
* Two batches of two rows need a second turn of the outer loop; the second pass
  is a second process. One crash leaves a half-numbered batch behind.

* `background`: one run of two tasks has a first, a next and a last step; two
  relays are one that holds a stale row and one that does not. Two deciders are
  what a double click takes. Calls three deep (a proposal applied, whose
  action calls another) and a step with its call can hold the three connections,
  so each exception of `SlotLeft` is met, and so is a wedge. Three batches
  are one delivered, one claimed and one pending; with one line to a mail and
three notifications, a digest has a row it lists, one it reads and one beyond.
The person of the run decides about the first task's proposal, the one whose
decision can meet the second task. Two releases, of which the
  second has changed the second script, are a resumption by other code.
* `collaboration`: two members and two ballots cross a reveal once each; scores
  need to differ, not to be many. One change around the session, a key result
  coming or leaving or a move of the bound between 0 and 1, is what each
  exception of `GatesHeld` takes; one commitment is what the larger bound asks
  for. (With two changes and bounds of 0 and 2 the setting was explored once
  by itself, 795,774 states: no new case.) `Spacing = 2` leaves one gap between
  two cards, so the next drop renumbers. Three goals are the least with a parent, a
  grandparent and a sibling; three transactions reach delete, re-align and
  restore, the shortest way to a circle by one hand. (The goals were also
  explored once with four transactions, 812,958 states, and with five on one
  value, 1,395,161 states: no new case.) Four cycles and one desk are the least
  that feed two cycles from one close. Three cycles are a
  predecessor, the one closed and a successor that may be closing itself. Two
  desks: every promise is between two of them. Writers and desks are
  symmetric, because no definition tells them apart; clerks, hands and ballots
  are left alone. Properties under symmetry are invariants and step properties,
  never liveness.

Deadlock checking is off in all runs: relays with no row, members with no
requests left, closed sessions and rows that are all chained are the intended
ends.

### Fairness

Weak fairness on each relay's own steps and on time: the loop of `start` re-arms
its timer after every drain, failed ones included, driver calls have timeouts,
and the host restarts a dead container. The chainer is started each minute for
every workspace by `apps/web/lib/scheduler.ts`; weak fairness on the passes
taken together says no more than that. `RunEnds` assumes weak fairness of each
worker's steps, which is the relay's redelivery: a row that is not settled is
claimed again, by that relay or by another, until the attempts are used up:
`StepDies` may then give the row up, and `RunEnds` excuses the run. Everything
else in `background` and `collaboration` is safety, under no fairness. Writers,
crashes, retention and administrators are under no fairness.

## Where the code and its documentation differ

1. **A close can feed two cycles** (`cycle_order`). `archive.ts:1070` says that
   a closed cycle that fed a successor has given its inheritance away. A
   creation looks for that successor by `previous_cycle_id`, and a feed does not
   write it where it names another cycle already: create 1 and 4, close 1
   (feeds 4), create 2, close 2 (feeds 4, no link), create 3: fed from 2 again.
2. **A failed channel message is not retried** (`channel_retry`). The handler
   throws for the relay to retry, but the retry finds the log row no longer
   `queued` and acknowledges it.
3. **Two last administrators can remove each other** (`admin_last`). The guard
   reads other members' rows without a lock in READ COMMITTED: write skew.
4. **Appointing somebody can take their full access away** (`admin_appoint`).
   A member full by the Owner role alone gets no binding and is moved to Admin.
5. **Authorising inside the transaction does not close the revocation window**
   (`admin_window`). READ COMMITTED leaves it open until the write.

More of the same kind is visible in the models, where it appears as the
exceptions the properties name (each was found necessary: without it the run
fails):

* Relays. The comments on `leaseSeconds` (`relay.ts:81`) and `LEASE_SECONDS`
  (`apps/web/lib/relay.ts:66`) ask for a lease above one delivery. The code
  leases `batchSize` rows at once and dispatches them in turn, so what the lease
  has to outlast is a batch: `Sized`, the condition of `ExclusiveHold`.
* Administration. The role actions carry no last-holder guard, so legal calls
  can leave a workspace without administrators; an erased member who is restored
  counts for the guard although nobody can sign in as them. The last manager of
  a space (`spaces.ts:1064`) is guarded in the way that lets two administrators
  remove each other.
* Channel messages. Delivered while the mail settings cannot be read, a message
  of any provider is acknowledged and stays `queued` in its log for good: the
  exception of `LogSettledFirst`.
* Notifications. A digest acknowledged without a mail (`handlers.ts:404`) or
  dead-lettered (`relay.ts:615`) is not written again, so its notifications are
  in the inbox only: an exception of `NothingForgotten`. `digestItemsFor` takes
  the first 21 rows before it asks what the member may see. What lies behind
  them is neither listed nor counted, visible or not, and a hidden row takes a
  visible one's place: against `handlers.ts:434`, "Never silently truncated",
  and `digest.ts:70`, which has `omitted` be the rows "beyond `items`".
* Runs. `cancelRun` updates by id after an unlocked read and so turns a run that
  ended meanwhile into a cancelled one, although the executor says that a cancel
  finds the run where the step left it. A step row that is dead-lettered
  leaves its run running for ever, with no step queued: the exception of
  `NeverStranded` and `RunEnds`, against `actions/agents.ts:532`, which takes "a
  run row with no step queued" to be so no longer, and `run-executor.ts:305`,
  which has every stop leave "a run that is finished". A row acknowledged by a
  process without agents (`handlers.ts:826`) does the same; that is outside the
  model.
* Proposals. Bulk apply and the copilot's three actions read without the lock
  that `decidable` calls what makes a double click one decision.
* Votes. A vote cast after the reveal is shown at once, un-revealed; a cast that
  read before the reveal changes a revealed score; an open vote in one session
  blocks the member's cast in another on the same key result, since the unique
  index does not know sessions. `confirmConfidence` averages all votes, not the
  revealed ones its comment speaks of.
* Sessions. Two closes write two digests; a skip and a close overwrite each
  other's state. A key result that joins the cycle after the confidence gate
  goes through the session without a confidence, and a bound raised after the
  commitments gate is not asked for: the exceptions of `GatesHeld`.
* Board. Status updates, creates and restores take no column lock, so their
  cards may share a position. When the card a drag was dropped on has left, a
  drop that renumbers lands at the top, where the comment says the end.
* Admission. A release after the counter expired makes a counter of minus one
  that never expires (`admission.ts:226`); what leaks later is not collected.
* Connections. The per-tenant cap "sits below it, so one workspace cannot hold
  every slot" (`apps/web/lib/pool.ts:37`, after
  `docs/design/tenant-limits.md:174`). It can, where the counter expired under
  its calls, or where what nothing admits is at work, agent steps and reads over
  the pool from inside a transaction: the exceptions of `SlotLeft`. If each
  transaction that has a connection then waits for an inner call, none of them
  ends (`WedgesStay`).
* Goals. `goals.delete` recomputes nothing and `goals.update` only above the new
  parent, so the old parent keeps progress it no longer has; `goals.ts:284` says
  of `recompute` that "Every write below that can move a number calls this". Two
  `recordValue` on key results of one goal lock a key result each, and the later
  commit writes a number that lacks the other. A value recorded while the goal
  closes may write a live health over its outcome. A circle is reached by one
  hand (delete x, align its parent under x, restore x) and by two re-alignments
  at once, against `method/src/scoring.ts:290`, "The write path refuses to
  create a cycle at all".
* Cycles. A snapshot that read its cycle as open rewrites the result after the
  close (against `archive.ts:194`); a close may feed a cycle that is closing
  itself; a feed by hand beside a close writes prior scores twice when no kept
  objective trips a unique index; `previous_cycle_id` may be overwritten by a
  feed that had read it empty (against "The first feed wins"); a cycle archived
  between two others can leave the earlier one's inheritance nowhere. The losing
  insert of `ensureCurrentCycleInTx` raises a unique violation, so its fall-back
  to the winner's row is never reached.

## Proofs

| Theorem | Module | Statement |
|---|---|---|
| `TypeCorrect` | `OutboxRelayProofs` | `Spec => []TypeOK` |
| `RelaysExclusive` | | `Spec => []ExclusiveHold` |
| `RowsSettleOneWay` | | `Spec => []SettledOneWay` |
| `RelaysAddNoDuplicates` | | `Spec => []DuplicatesExplained` |
| `RelaysKeepCeiling` | | `Spec => []CeilingKept` |
| `RelaysKeepContract` | | `Sized`: `Spec => Contract!Safety`, the safety part of the refinement |
| `DrainsAreFair` | | `Spec => []FairDispatch` |
| `NobodyShutOut` | | `Spec => NoTenantShutOut` |
| `DeliveryKeepsTheRelays` | `ChannelDeliveryProofs` | `ChannelSpec => Init /\ [][Next]_vars`, the relay's |
| `DeliveryTypesHold` | | `ChannelSpec => []DeliveryTypeOK` |
| `LogComesFirst` | | `ChannelSpec => []LogSettledFirst` |
| `RecipientsGetItOnce` | | `ChannelSpec => []PostedOnce` |
| `TypeCorrect` | `WorkspaceProofs` | `Spec => []TypeOK`, of `Administrators` |
| `GuardKeepsOne` | | `Spec => LastHolderKept` |
| `GuestsAdministerNothing` | | `Spec => []GuestsHoldNothing` |
| `TypeCorrect` | `AuditChainProofs` | `Spec => []TypeOK` |
| `ChainSound` | | `Spec => []ChainVerifies` |
| `ChainOnlyGrows` | | `Spec => PositionsAreForever` |
| `ChainInOrder` | | `Spec => []OutOfOrderExplained` |
| `PassesKeepTheLedger` | | `Spec => ImplementsLedger` |
| `StepsMeetTheirRuns` | `BackgroundProofs` | `AgentSpec => []StepMeetsItsRun` |
| `RunsAreNeverStranded` | | `AgentSpec => []NeverStranded` |
| `EndingsStand` | | `AgentSpec => EndingStands` |
| `ProposalsApplyOnce` | | `AgentSpec => []AppliedOnce` |
| `RecordsMatchEffects` | | `AgentSpec => []RecordMatchesEffect` |
| `LogsAreTruthful` | | `AgentSpec => []LogTruthful` |
| `DecisionsStand` | | `AgentSpec => DecisionStands` |
| `AdmissionTypeCorrect` | | `AdmissionSpec => []AdmissionTypeOK` |
| `CapIsKept` | | `AdmissionSpec => []CapKept` |
| `PoolKeepsTheCap` | | `PoolSpec => AdmissionSpec` |
| `PoolTypeCorrect` | | `PoolSpec => []PoolTypeOK` |
| `SlotIsLeft` | | `PoolSpec => []SlotLeft` |
| `CapKeepsFromTheWedge` | | `PoolSpec`: no wedge while `SlotLeft` speaks for a connection |
| `WedgesStay` | | `PoolSpec => WedgeIsForGood` |
| `NoNotificationForgotten` | | `BatchSpec => []NothingForgotten` |
| `ChangesHappenOnce` | | `ChangeSpec => []ChangedOnce` |
| `BackgroundTypesHold` | | `Spec` (of `AuditChain`), `AgentSpec`, `PoolSpec`, `BatchSpec` and `ChangeSpec` `=> []BackgroundTypeOK` |
| `GatesAreNeverJumped` | `SessionProofs` | `WeekSpec => []GatesHeld` |
| `StreaksCountWeeks` | | `WeekSpec => []StreakCountsWeeks` |
| `StagesAreWalked` | | `WeekSpec => StagesInOrder` |
| `ClosedSessionsStand` | | `WeekSpec => ClosingStands` |
| `VotesKeepThePromise` | | `VoteSpec => []VotesAsPromised` |
| `ShownScoresStand` | | `VoteSpec => RevealedStands` |
| `PlacesStayDistinct` | `PlanningProofs` | `BoardSpec => []DistinctPlaces` |
| `DragsMoveTheirCard` | | `BoardSpec => DragsMoveOneCard` |
| `ClosesKeepTheirPromise` | | `CycleSpec => []CloseKept` |
| `LoopsHaveACause` | `GoalProofs` | `GoalSpec => []LoopsExplained` |
| `NumbersHaveACause` | | `GoalSpec => []NumbersExplained` |
| `CollaborationTypesHold` | | `VoteSpec`, `WeekSpec`, `BoardSpec`, `GoalSpec` and `CycleSpec` `=> []CollaborationTypeOK` |

Each assumes the named assumption of its module's constants (`RelayConstants`,
`AdministratorConstants`, `ChainConstants`, `ProposalConstants`, `RunConstants`,
`AdmissionConstants`, `PoolConstants`, `BatchConstants`, `ChangeConstants`,
`WeeklyConstants`, `VoteConstants`, `BoardConstants`, `CycleConstants`,
`GoalConstants`) and nothing else: any finite set of rows, any relays,
workspaces, members, passes, runs, calls, notifications, scripts, sessions,
cards, cycles, goals and transactions. `RelaysKeepContract` also assumes
`Sized`, which the other results on the relays carry inside the property.

* **Relays.** Exclusive holding is not inductive: it says nothing of time. The
  invariant (`LeaseInv`) adds that every row a relay holds is leased for longer
  than the batch can still take: `DispatchLimit` for each unrecorded row, less
  the seconds already spent on the current one. `Tick` takes one second off
  both sides, recording a row gives its share back, and so a held row is never
  due and never claimed by another. Given that, `HeldIsOpen` follows: a row in
  hand is not settled, unless the stamp that settled it threw back at its own
  holder, which is the one path on which a row is stamped twice and the
  exception `SettledOneWay` names. `HandInv` adds that the attempts a relay read
  are still the row's, and that an outcome in hand was sent or refused. On these
  rest the books: a row not in flight was sent no more often than its successes
  went unrecorded (`SpareInv`), and a row in nobody's hands is below the ceiling
  by what the disruptions took (`CeilingInv`). Every action then maps to a step
  of `OutboxContract` or to none. The fairness of a drain is about a ranking
  only: of the rows of one workspace the one with n before it in its workspace
  has rank n + 1, so the rows dispatched so far differ by one at most.
* **Channel delivery.** First, a handler step is a `DispatchEnds` of the relay
  or changes none of its variables, so `RelayInv` holds of the composition. With
  it, the handler's stage follows the current row of the claim, an `ok` in hand
  means a log row that is no longer queued, or one in `skipped` (`LogInv`), and
  a queued row that nobody is about to write was posted no more often than
  status writes failed (`PostInv`).
* **Administrators.** `GuardStands` says of every checked removal that nothing
  committed since (`~stale`) that another holder still exists. Each commit
  makes every other checked transaction stale, and no write of the removals
  touches a member other than its target. `GuestInv`: a guest keeps a binding,
  an appointment past its reads is of a guest, and a conversion may miss a
  binding, only where `crossed` says so.
* **Audit chain.** `ChainInv` joins the lock (two passes are never both past
  `Lock`), the verdict on the committed columns, and, for the pass that holds
  the lock, the same verdict on its draft, which extends the committed columns
  without changing them. `Extension` is the lemma that appending after the
  head keeps the verdict. The commit replaces the columns by the draft.
  `OrderInv` says that the columns, and the draft, are in the order of the ids
  but for late rows, those without a position included, and that what a pass has
  skipped below a row it read is late or was not committed. For the ledger,
  `FullInv` adds that no position up to the head is free, in the columns and in
  the draft, so that the numbered rows are a sequence (`TrailOK`); a commit,
  which leaves positions alone, adds a batch at its end, of rows committed and
  not in it yet, and every other step adds nothing.
* **Runs.** A step is exclusive because of the row lock, and that is not in
  `StepMeetsItsRun`. The invariant ties every worker past `Load` to the lock of
  its run and to the index it read, says that tasks from the index on have left
  no proposal and no line but that of a step which ended its run, and that rows
  queued of a run are of indices up to its own. Then a second worker, late or
  repeated, finds the lock taken or the index moved. `NeverStranded` follows
  from `Advance` committing index and next row together and `Settle` taking
  only a row the run is past; where a row is given up on, it says so.
* **Proposals.** `EffectInv`: what each decider has in hand, has performed and
  has left over (`Hands`), that two of them on one proposal make it crossed,
  and, for a proposal that is neither crossed nor lost, the full account of its
  row: as often performed and reversed as its status and the one decider at it
  say (`Answered`). `TaskInv` ties the line of a task to its proposal, index and
  performance; a commit of the log and one of the task are two, and `lost` is
  where a death falls between them.
* **Admission.** `Accounts` keeps the books: the counter is the calls it lent a
  slot to, plus what the dead have leaked, less what was given back without
  having been lent; increment and decrement move one call each.
* **Connections.** Each step of the pool is one of `Admission` or none, so the
  books hold of it. With `WantsFit`, a transaction is of a call that was
  admitted or of a step, and who was admitted the books count (`WorkIsCounted`).
  In a wedge every action waits for another: a transaction for its inner call,
  that call, or a read that nobody admits, for a connection, and a connection
  for a transaction.
* **Notifications.** The batch a transaction has found is one of the table, at
  most one is pending, and a claimed batch has its digest row in the outbox,
  or in `unsent`, or was read. What a reading leaves of a batch's committed
  rows was mailed, hidden or cut (`fate`), and cut only behind `LineLimit` older
  rows; these stay committed and stay in the batch (`CutHasElders`, `CutKept`),
  so no later step undoes it.
* **Data changes.** Only the holder of the session lock is at a script, and its
  cursor is the ledger's; the cursor is the number of rows changed, each once,
  and what is complete comes before what is not.
* **Weekly session.** `WeekInv` adds to the type invariant what a request in
  hand has read: the stage it saw is at most the stage there is, the gate it
  passed was open at the stage it saw for the key results and the bound it had
  asked (`Answered`), and confirmations and commitments only grow; so a gate
  passed earlier is still passed at the write, for what it asked. What came into
  the cycle since is what `Leaving` writes down (`LeavingGives`), and `Join`
  after it; a session that has not reached a gate owes it nothing
  (`NothingYet`). For the streak, the week last counted is a week held and the
  count is at most the weeks held up to it, in the row and in every clerk's copy
  of it.
* **Votes.** The index admits one open row per member and key result, and
  `CastKnows` says that a cast with a row in hand has one that exists, and is
  marked overtaken once that row is shown.
* **Board.** `HandHolds` says of a drag what it has read: the column in order,
  or a free place, both still so among the cards placed under the lock, since at
  most one drag is at a column (`OneDrag`). The order of a locked column is a
  rank, one to the number of its rows, and `Number` gives each row the rank it
  has with the dragged card put in: distinct, and in the old order for all
  others.
* **Cycles.** The parts of `CloseKept` are not inductive: they say nothing of a
  transaction under way. `DeskHolds` bounds what each desk has read of rows it
  does not hold: what was before a new cycle is still there but for cycles made
  since that nobody is closing; a close that found no successor still has none;
  what is about to be fed has been given to nobody that names its source.
  `DesksApart` is the row locks: a close and a creation meet on the row of the
  earlier cycle. `Lands` joins them at the commit.
* **Alignment.** A ring is a set of goals that going up never leaves. `LoopInv`
  speaks of every such set, a `Trap`, over the parents as stored, deleted goals
  included, and says that it has a goal of `unseen` or `crossed`; and for a
  re-alignment in flight, that the walk from its new parent still ends inside a
  set without its goal, except through goals it could not see (`AlignHolds`).
  "Above" is the least closed set, so no induction over paths is needed.
* **Numbers.** Two things are shown. `BranchIsEnough`, of the arithmetic: the
  branch above a goal with what its settled siblings show adds up to what the
  whole tree would, rings broken in the branch or in the tree alike. And
  `NumInv`, of the transactions: a load that is not late is what would be loaded
  now (`LoadsStand`), kept across another commit by `LoadStandsOn` because every
  row the load looked for is as it was and none has joined them; a goal
  that is not stale has the worth of the tree. So a commit writes the branch's
  worth, and goals off the branch keep theirs (`WorthUntouched`). The row locks
  are what keeps a goal from being deleted under another writer (`StandsOn`).
* **Shapes.** Most of a type invariant is a part of the invariants above; its
  bounds need an argument of their own. A session that wrote a digest is not
  opened again, so whoever closes it later had read it before the first close:
  digests and those closings together stay below the requests (`WeekBounds`).
  Numbering a column with one card put in stays below the number of cards
  (`NumberFits`, with `Ceiling` room for that many). Whoever is about to write a
  copy for a cycle found none, so copies and those writers together stay below
  the desks (`CycleBounds`).

Two results came with corrections of the model. An earlier history of
`GoalProgress` compared the rows two loads had read. The proof of `LoadStandsOn`
failed where a goal joins the rows another load looks for: one is put under a
deleted goal while that one is restored. TLC reaches it with four transactions.
`LooksFor` and `Changed` say it exactly, and excuse less. `GivenOnce` failed for
cycles created out of order, which three cycles are too few for; that is
finding 1, and `unnamed` the exception.

Every invariant of a passing run is proved. Out of the prover's reach, and
left to TLC: liveness under fairness (`ImplementsContract` with its liveness,
`EveryRowChained`, `RunEnds`) and `ENABLED`. `PositionsAreForever`,
`EndingStands`, `ClosingStands` and `WedgeIsForGood` are proved and in no run.
No module uses `RECURSIVE`.

## Not modelled

* OAuth codes, refresh tokens and device grants: each is claimed by one
  conditional update in the transaction that mints the tokens
  (`api/oauth/flow.ts:160`, `api/oauth/flow.ts:269`, `api/device.ts:228`). What
  is left is a refresh racing with the revocation of its grant: see the plan.
* Inbound channels and bots, exports, imports and portability, search and AI:
  translations of documents and calls to external services. Their outbox rows
  appear as rows of `OutboxRelay`.
* Monthly, quarterly and annual sessions beyond the lifecycle they share with
  the weekly one; check-in drafts, nudges and quiet hours.
* Cycle phases and publication, the alignment score, KPIs and quality verdicts:
  each recomputed from rows by the code that changes them, in their transaction.
* Access to spaces and goals, and the management of roles.

## Plan

1. The last manager of a space, beside `Administrators`.
2. Publication of a cycle with its gates, on the pattern of `WeeklySession`.
3. The life of an OAuth grant: redeem, refresh, reuse and the revocation it
   causes, with a refresh that read the grant before it was revoked.
