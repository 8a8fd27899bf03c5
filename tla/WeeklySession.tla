----------------------------- MODULE WeeklySession -----------------------------
(***************************************************************************)
(* The weekly check-in of a space: sessions.open, advanceStage, skip and   *)
(* close, with confirmConfidence, setNextAction, createBlocker,            *)
(* resolveBlocker and setCommitments, which the gates between its stages   *)
(* read (core/src/actions/sessions.ts).                                    *)
(*                                                                         *)
(* The four lifecycle operations read the session without a lock, decide,  *)
(* and update it by id:                                                    *)
(*   ReadSession   requireSessionAccess and the test of the state          *)
(*   Ask           an advance reads what its gate goes by: the bound of    *)
(*                 the workspace, and the key results now in the cycle     *)
(*   PassGate      the gate compares that with what the team has recorded  *)
(*   ReadStreak    a close reads the space's streak as well                *)
(*   Open, Advance, Skip, Close   the writes, with the commit              *)
(* What keeps a stale one out is the idempotency key of its outbox row,    *)
(* unique in the table: a second row for one stage rolls the operation     *)
(* back.  Skip and close write no such row.                                *)
(*                                                                         *)
(* Nothing freezes a session's key results: one is created, moved or       *)
(* deleted (Join, Part) and the bound is moved (SetBound) while a session  *)
(* runs, between the statements of a request as well.  What a confirmed    *)
(* confidence counts as, low or fine, is the band of the last              *)
(* confirmation: a boundary moved since is a confirmation anew.            *)
(***************************************************************************)
EXTENDS Integers, FiniteSets

CONSTANTS
  Meetings,        \* weekly sessions of one space, in one cycle
  Krs,             \* key results that may be in the space and the cycle
  Clerks,          \* requests for the lifecycle operations
  Bounds,          \* values of sessions.weeklyCommitmentBounds.low
  MaxCommitments,  \* bound on the commitments of a session
  MaxBlockers,     \* bound on the open blockers of a key result
  MaxWeek          \* bound on the calendar

(* WEEKLY_STAGE_KEYS by number; 0 is no stage. *)
Confidence  == 1
Diagnose    == 2
Commitments == 3
Digest      == 4
Stages      == 0 .. Digest

ASSUME WeeklyConstants ==
  /\ Bounds \subseteq Nat /\ Bounds # {}
  /\ MaxCommitments \in Nat /\ MaxBlockers \in Nat /\ MaxWeek \in Nat \ {0}
  /\ IsFiniteSet(Clerks)

VARIABLES
  state,        \* sessions.state
  stage,        \* sessions.stage_key
  announced,    \* stages with a session.stageChanged row in the outbox
  confirmed,    \* session_confidences: the band of the confidence
  answered,     \* those with a next_action
  blockers,     \* open blockers per session and key result
  commitments,  \* commitments of a session
  digests,      \* digests a session wrote
  streak,       \* the space's row in streaks, or NoStreak
  week,         \* the calendar
  held,         \* history: weeks a session was closed in
  present,      \* key results of the space in the cycle
  low,          \* the workspace's sessions.weeklyCommitmentBounds.low
  joined,       \* history: sessions and the key results there that came
                \* after their confidence gate was asked
  promised,     \* history: what the gate of the commitments asked for
  clerk         \* per request: what it does and what it has read

record   == <<confirmed, answered, blockers, commitments>>
around   == <<present, low, joined, promised>>
session  == <<state, stage, announced, digests, streak, held, around>>
weekVars == <<session, record, week, clerk>>

NoStreak == [current |-> 0, last |-> 0]
Streak   == [current : 0 .. MaxWeek, last : 0 .. MaxWeek]
States   == {"scheduled", "running", "skipped", "closed"}
Bands    == {"low", "fine"}
Idle     == [op |-> "idle"]
Request  == [op : {"open", "advance", "skip", "close"}, on : Meetings,
             saw : States, stage : Stages, row : Streak, week : 1 .. MaxWeek,
             asked : SUBSET Krs, low : Bounds \cup {0},
             at : {"read", "asked", "ready"}]

WeekTypeOK ==
  /\ state \in [Meetings -> States]
  /\ stage \in [Meetings -> Stages]
  /\ announced \in [Meetings -> SUBSET Stages]
  /\ confirmed \in [Meetings \X Krs -> Bands \cup {"none"}]
  /\ answered \subseteq Meetings \X Krs
  /\ blockers \in [Meetings \X Krs -> 0 .. MaxBlockers]
  /\ commitments \in [Meetings -> 0 .. MaxCommitments]
  /\ digests \in [Meetings -> 0 .. Cardinality(Clerks)]
  /\ streak \in Streak
  /\ week \in 1 .. MaxWeek
  /\ held \subseteq 1 .. MaxWeek
  /\ present \subseteq Krs /\ low \in Bounds
  /\ joined \subseteq Meetings \X Krs
  /\ promised \in [Meetings -> Bounds \cup {0}]
  /\ clerk \in [Clerks -> Request \cup {Idle}]

WeekInit ==
  /\ state = [s \in Meetings |-> "scheduled"]
  /\ stage = [s \in Meetings |-> 0]
  /\ announced = [s \in Meetings |-> {}]
  /\ confirmed = [x \in Meetings \X Krs |-> "none"]
  /\ answered = {}
  /\ blockers = [x \in Meetings \X Krs |-> 0]
  /\ commitments = [s \in Meetings |-> 0]
  /\ digests = [s \in Meetings |-> 0]
  /\ streak = NoStreak
  /\ week = 1
  /\ held = {}
  /\ present \in SUBSET Krs /\ low \in Bounds
  /\ joined = {}
  /\ promised = [s \in Meetings |-> 0]
  /\ clerk = [c \in Clerks |-> Idle]

------------------------------------------------------------------------------
(* What the team records; none of these looks at the state or the stage. *)

(* A second confirmation updates the first and keeps its next action. *)
Confirm(s, k, band) ==
  /\ confirmed' = [confirmed EXCEPT ![<<s, k>>] = band]
  /\ UNCHANGED <<session, answered, blockers, commitments, week, clerk>>

SetNextAction(s, k) ==
  /\ confirmed[<<s, k>>] # "none"
  /\ answered' = answered \cup {<<s, k>>}
  /\ UNCHANGED <<session, confirmed, blockers, commitments, week, clerk>>

CreateBlocker(s, k) ==
  /\ blockers[<<s, k>>] < MaxBlockers
  /\ blockers' = [blockers EXCEPT ![<<s, k>>] = @ + 1]
  /\ UNCHANGED <<session, confirmed, answered, commitments, week, clerk>>

ResolveBlocker(s, k) ==
  /\ blockers[<<s, k>>] > 0
  /\ blockers' = [blockers EXCEPT ![<<s, k>>] = @ - 1]
  /\ UNCHANGED <<session, confirmed, answered, commitments, week, clerk>>

(* setCommitments only ever adds. *)
AddCommitment(s) ==
  /\ commitments[s] < MaxCommitments
  /\ commitments' = [commitments EXCEPT ![s] = @ + 1]
  /\ UNCHANGED <<session, confirmed, answered, blockers, week, clerk>>

(* goals.addKeyResult, goals.moveToCycle, goals.restore: no session is     *)
(* looked at, however far it has come.                                     *)
Join(k) ==
  /\ k \notin present
  /\ present' = present \cup {k}
  /\ joined' = joined \cup {x \in Meetings \X {k} : stage[x[1]] > Confidence}
  /\ UNCHANGED <<state, stage, announced, digests, streak, held, low, promised,
                 record, week, clerk>>

(* Removed, or moved out with its goal. *)
Part(k) ==
  /\ k \in present
  /\ present' = present \ {k}
  /\ joined' = joined \ (Meetings \X {k})
  /\ UNCHANGED <<state, stage, announced, digests, streak, held, low, promised,
                 record, week, clerk>>

SetBound(n) ==
  /\ low # n
  /\ low' = n
  /\ UNCHANGED <<state, stage, announced, digests, streak, held, present,
                 joined, promised, record, week, clerk>>

NewWeek ==
  /\ week < MaxWeek
  /\ week' = week + 1
  /\ UNCHANGED <<session, record, clerk>>

------------------------------------------------------------------------------
(* The lifecycle *)

Needs(op) == IF op \in {"open", "skip"} THEN "scheduled" ELSE "running"

Reading(c, op, s) ==
  clerk' = [clerk EXCEPT ![c] =
    [op |-> op, on |-> s, saw |-> state[s], stage |-> stage[s],
     row |-> NoStreak, week |-> week, asked |-> {}, low |-> 0,
     at |-> IF op \in {"open", "skip"} THEN "ready" ELSE "read"]]

(* Mutant: the last stage does not end the advancing. *)
MutReadPastLast(c, op, s) ==
  /\ clerk[c] = Idle
  /\ state[s] = Needs(op)
  /\ Reading(c, op, s)
  /\ UNCHANGED <<session, record, week>>

(* Mutant: a session already over can be closed again. *)
MutReadSession(c, op, s) ==
  /\ clerk[c] = Idle
  /\ state[s] = Needs(op) \/ (op = "close" /\ state[s] = "closed")
  /\ op = "advance" => stage[s] # Digest
  /\ Reading(c, op, s)
  /\ UNCHANGED <<session, record, week>>

ReadSession(c, op, s) ==
  /\ clerk[c] = Idle
  /\ state[s] = Needs(op)
  /\ op = "advance" => stage[s] # Digest
  /\ Reading(c, op, s)
  /\ UNCHANGED <<session, record, week>>

(* The bound is read on every advance, the key results where a gate looks  *)
(* at them.                                                                *)
Ask(c) ==
  /\ clerk[c].op = "advance" /\ clerk[c].at = "read"
  /\ clerk' = [clerk EXCEPT
       ![c].low = low,
       ![c].asked = IF clerk[c].stage \in {Confidence, Commitments}
                      THEN present ELSE {},
       ![c].at = "asked"]
  /\ UNCHANGED <<session, record, week>>

(* The gates, each out of the stage it is named for. *)
GateOpen(s, from, asked, bound) ==
  /\ from = Confidence => \A k \in asked : confirmed[<<s, k>>] # "none"
  /\ from = Diagnose => \A k \in Krs :
       confirmed[<<s, k>>] = "low" =>
         <<s, k>> \in answered \/ blockers[<<s, k>>] > 0
  /\ from = Commitments /\ asked # {} => commitments[s] >= bound

PassGate(c) ==
  /\ clerk[c].op = "advance" /\ clerk[c].at = "asked"
  /\ GateOpen(clerk[c].on, clerk[c].stage, clerk[c].asked, clerk[c].low)
  /\ clerk' = [clerk EXCEPT ![c].at = "ready"]
  /\ UNCHANGED <<session, record, week>>

ReadStreak(c) ==
  /\ clerk[c].op = "close" /\ clerk[c].at = "read"
  /\ clerk' = [clerk EXCEPT ![c].row = streak, ![c].at = "ready"]
  /\ UNCHANGED <<session, record, week>>

(* The outbox row's key is taken only once. *)
Announce(s, at) ==
  /\ at \notin announced[s]
  /\ announced' = [announced EXCEPT ![s] = @ \cup {at}]

Open(c) ==
  /\ clerk[c].op = "open"
  /\ LET s == clerk[c].on IN
       /\ Announce(s, Confidence)
       /\ state' = [state EXCEPT ![s] = "running"]
       /\ stage' = [stage EXCEPT ![s] = Confidence]
  /\ clerk' = [clerk EXCEPT ![c] = Idle]
  /\ UNCHANGED <<record, week, digests, streak, held, around>>

(* History: what the gate that a session leaves behind was asked about. *)
Leaving(s, q) ==
  /\ joined' = IF stage[s] = Confidence
                 THEN joined \cup ({s} \X (present \ q.asked)) ELSE joined
  /\ promised' = IF stage[s] = Commitments /\ q.asked # {}
                   THEN [promised EXCEPT ![s] = q.low] ELSE promised
  /\ UNCHANGED <<present, low>>

(* Mutant: the key takes the row that is there (on conflict do nothing). *)
MutAdvanceAgain(c) ==
  /\ clerk[c].op = "advance" /\ clerk[c].at = "ready"
  /\ LET s == clerk[c].on  to == clerk[c].stage + 1 IN
       /\ announced' = [announced EXCEPT ![s] = @ \cup {to}]
       /\ stage' = [stage EXCEPT ![s] = to]
       /\ Leaving(s, clerk[c])
  /\ clerk' = [clerk EXCEPT ![c] = Idle]
  /\ UNCHANGED <<record, week, state, digests, streak, held>>

(* Mutant: one further than where the session is by now. *)
MutAdvanceFresh(c) ==
  /\ clerk[c].op = "advance" /\ clerk[c].at = "ready"
  /\ LET s == clerk[c].on  to == stage[s] + 1 IN
       /\ to \in Stages
       /\ Announce(s, to)
       /\ stage' = [stage EXCEPT ![s] = to]
       /\ Leaving(s, clerk[c])
  /\ clerk' = [clerk EXCEPT ![c] = Idle]
  /\ UNCHANGED <<record, week, state, digests, streak, held>>

(* The stage after the one that was read, whatever the state is by now. *)
Advance(c) ==
  /\ clerk[c].op = "advance" /\ clerk[c].at = "ready"
  /\ LET s == clerk[c].on  to == clerk[c].stage + 1 IN
       /\ Announce(s, to)
       /\ stage' = [stage EXCEPT ![s] = to]
       /\ Leaving(s, clerk[c])
  /\ clerk' = [clerk EXCEPT ![c] = Idle]
  /\ UNCHANGED <<record, week, state, digests, streak, held>>

Skip(c) ==
  /\ clerk[c].op = "skip"
  /\ state' = [state EXCEPT ![clerk[c].on] = "skipped"]
  /\ streak' = [streak EXCEPT !.current = 0]
  /\ clerk' = [clerk EXCEPT ![c] = Idle]
  /\ UNCHANGED <<record, week, stage, announced, digests, held, around>>

(* Mutant: a second check-in of the week counts again. *)
MutAfterCheckIn(row, w) ==
  [current |-> IF row.last # 0 /\ w <= row.last + 1 THEN row.current + 1 ELSE 1,
   last |-> w]

(* method/src/streak.ts, weekly and without holidays. *)
AfterCheckIn(row, w) ==
  IF row.last # 0 /\ w <= row.last
    THEN row
    ELSE [current |-> IF w = row.last + 1 THEN row.current + 1 ELSE 1,
          last |-> w]

(* The digest, the streak and the state.  A first streak row is an insert, *)
(* which fails if another close has made one since the read.               *)
Close(c) ==
  /\ clerk[c].op = "close" /\ clerk[c].at = "ready"
  /\ clerk[c].row = NoStreak => streak = NoStreak
  /\ LET s == clerk[c].on IN
       /\ state' = [state EXCEPT ![s] = "closed"]
       /\ digests' = [digests EXCEPT ![s] = @ + 1]
  /\ streak' = AfterCheckIn(clerk[c].row, clerk[c].week)
  /\ held' = held \cup {clerk[c].week}
  /\ clerk' = [clerk EXCEPT ![c] = Idle]
  /\ UNCHANGED <<record, week, stage, announced, around>>

(* Refused, by a gate, a key or an index among others, or gone. *)
GiveUp(c) ==
  /\ clerk[c] # Idle
  /\ clerk' = [clerk EXCEPT ![c] = Idle]
  /\ UNCHANGED <<session, record, week>>

Lifecycle(c) ==
  \/ \E op \in {"open", "advance", "skip", "close"}, s \in Meetings :
       ReadSession(c, op, s)
  \/ Ask(c) \/ PassGate(c) \/ ReadStreak(c)
  \/ Open(c) \/ Advance(c) \/ Skip(c) \/ Close(c)
  \/ GiveUp(c)

Recording ==
  \/ \E s \in Meetings, k \in Krs :
       \/ \E band \in Bands : Confirm(s, k, band)
       \/ SetNextAction(s, k)
       \/ CreateBlocker(s, k) \/ ResolveBlocker(s, k)
  \/ \E s \in Meetings : AddCommitment(s)

Meanwhile ==
  \/ \E k \in Krs : Join(k) \/ Part(k)
  \/ \E n \in Bounds : SetBound(n)
  \/ NewWeek

WeekNext == Recording \/ Meanwhile \/ \E c \in Clerks : Lifecycle(c)

WeekSpec == WeekInit /\ [][WeekNext]_weekVars

------------------------------------------------------------------------------
(* Properties *)

(* A session walks its stages one at a time and none twice, although two   *)
(* facilitators may each advance the stage they had read: the key of the   *)
(* stage's outbox row is what refuses the second.                          *)
StagesInOrder ==
  [][\A s \in Meetings : stage'[s] # stage[s] => stage'[s] = stage[s] + 1]_stage

(* Beyond a stage, what its gate asked for is there, although another      *)
(* facilitator may have moved the session meanwhile, and the cycle with    *)
(* it: a key result of the cycle that has no confidence came after the     *)
(* gate was asked, and a digest has the commitments the bound called for   *)
(* then.  (The gate of diagnose cannot be put so: a blocker is resolved    *)
(* and a confidence confirmed anew at any time.)                           *)
GatesHeld ==
  \A s \in Meetings :
    /\ stage[s] > Confidence => \A k \in present :
         confirmed[<<s, k>>] # "none" \/ <<s, k>> \in joined
    /\ stage[s] > Commitments => commitments[s] >= promised[s]

(* A closed session is over: it is not opened again, and only a request    *)
(* that read it before it closed still skips it or writes it a digest.     *)
ClosingStands ==
  [][\A s \in Meetings :
       state[s] = "closed" /\ <<state'[s], digests'[s]>> # <<state[s], digests[s]>>
         => /\ state'[s] \in {"closed", "skipped"}
            /\ \E c \in Clerks : clerk[c] # Idle /\ clerk[c].on = s
                 /\ clerk[c].saw # "closed"]_<<state, digests>>

(* "Weeks in which a space held its check-in": however many sessions close *)
(* in a week and however they overlap, the streak counts it once.          *)
StreakCountsWeeks == streak.current <= Cardinality(held)
=============================================================================
