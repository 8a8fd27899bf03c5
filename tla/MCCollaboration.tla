--------------------------- MODULE MCCollaboration ---------------------------
(* What a team does together, in settings of their own that one run        *)
(* explores one after the other: the votes on a key result, the stages of  *)
(* one session, the weeks of two, a board, the alignment tree and the      *)
(* cycles.                                                                 *)
EXTENDS SessionVotes, WeeklySession, TaskBoard, GoalProgress, CycleClose, TLC

CONSTANTS s1, s2, m1, cx, cy, cz, h1, h2, k1, k2, k3, Settings, MaxRequests,
  MaxWrites, MaxChanges

VARIABLES setting, requested

mcVars == <<setting, requested, voteVars, weekVars, boardVars, goalVars,
            cycleVars>>

MCRounds == {<<s1, "k">>, <<s2, "k">>}

(* A board where two cards have been dragged into one column already. *)
MCBoard ==
  /\ card = [c \in Cards |-> IF c = cz THEN "none" ELSE "live"]
  /\ column = [c \in Cards |-> "todo"]
  /\ place = [c \in Cards |-> CASE c = cx -> Spacing [] c = cy -> 2 * Spacing
                                 [] OTHER -> 0]
  /\ loose = {}
  /\ hand = [h \in Hands |-> Empty]

(* Two key results of goal 1 and one of goal 2. *)
MCOwnerOf == k1 :> 1 @@ k2 :> 1 @@ k3 :> 2

(* A chain of three goals, and two goals under a third. *)
MCChain == <<2, 3, NoParent>>
MCPair  == <<3, 3, NoParent>>
MCApart == <<NoParent, NoParent, NoParent>>

MCTree ==
  /\ GoalInit
  /\ \A k \in KeyResults : tree.value[k] = 0
  /\ IF setting = "goals" THEN tree.parent \in {MCChain, MCPair}
                         ELSE tree.parent = MCApart /\ ~rollUp

(* The first cycle is under way and graded. *)
MCCycles ==
  LET first(x, y) == [c \in Cycles |-> IF c = 1 THEN x ELSE y] IN
  CyclesAre(first("open", "absent"), first(1, 0))

(* "k" is in the cycle and may leave it, or never is; "l" may come. *)
MCWeek ==
  /\ WeekInit
  /\ IF setting = "stages" THEN "l" \notin present
                           ELSE present = {} /\ low = 0

MCInit ==
  /\ setting \in Settings /\ requested = 0
  /\ VoteInit /\ MCWeek /\ MCBoard /\ MCTree /\ MCCycles

(* The second session has one voter, of one mind. *)
Votewise ==
  /\ setting = "votes"
  /\ \/ \E b \in Ballots, v \in Scores, m \in Members :
          ReadToCast(b, <<s1, "k">>, m, v)
     \/ \E b \in Ballots : ReadToCast(b, <<s2, "k">>, m1, 3)
     \/ \E b \in Ballots : WriteVote(b) \/ DropCast(b)
     \/ \E r \in Rounds : Reveal(r)

(* One hand drags cx and cy, the other cy and cz, which comes and goes.    *)
(* MaxRequests bounds how often the board is touched.                      *)
Requested ==
  \/ \E s \in Columns : ReadEnd(h2, cz, s)
  \/ \E c \in Cards, s \in Columns, after \in Cards \cup {Top} :
       /\ after # c
       /\ \/ c # cz /\ Claim(h1, c, s, after)
          \/ c # cx /\ Claim(h2, c, s, after)
  \/ \E s \in Columns : UpdateStatus(cy, s)
  \/ Delete(cz) \/ Restore(cz)

Boardwise ==
  /\ setting = "board"
  /\ \/ requested < MaxRequests /\ requested' = requested + 1 /\ Requested
     \/ /\ \E h \in Hands :
             \/ Create(h) \/ Look(h) \/ Crowd(h) \/ LockColumn(h)
             \/ Drop(h) \/ LetGo(h)
        /\ UNCHANGED requested

(* "l" is only ever fine, and nothing is recorded of a key result that is  *)
(* not in the cycle.  MaxChanges bounds what changes around the session.   *)
Stagewise ==
  /\ setting = "stages"
  /\ \/ /\ requested < MaxChanges /\ requested' = requested + 1
        /\ Join("l") \/ Part("k") \/ \E n \in Bounds : SetBound(n)
     \/ /\ \/ \E k \in present \ {"l"} :
                \/ \E band \in Bands : Confirm(s1, k, band)
                \/ SetNextAction(s1, k)
                \/ CreateBlocker(s1, k) \/ ResolveBlocker(s1, k)
           \/ "l" \in present /\ Confirm(s1, "l", "fine")
           \/ AddCommitment(s1)
           \/ \E c \in Clerks :
                \/ \E op \in {"open", "advance", "skip", "close"} :
                     ReadSession(c, op, s1)
                \/ Ask(c) \/ PassGate(c) \/ ReadStreak(c)
                \/ Open(c) \/ Advance(c) \/ Skip(c) \/ Close(c) \/ GiveUp(c)
        /\ UNCHANGED requested

Weekwise ==
  /\ setting = "weeks"
  /\ \/ NewWeek
     \/ \E c \in Clerks :
          \/ \E op \in {"open", "skip", "close"}, s \in Meetings :
               ReadSession(c, op, s)
          \/ ReadStreak(c)
          \/ Open(c) \/ Skip(c) \/ Close(c) \/ GiveUp(c)

(* MaxWrites bounds the transactions that are started. *)
Goalwise ==
  /\ setting = "goals"
  /\ \/ /\ requested < MaxWrites /\ requested' = requested + 1
        /\ \E w \in Writers :
             \/ \E k \in KeyResults, v \in Values :
                  RecordValue(w, k, v) \/ PublishCheckIn(w, k, v)
             \/ \E g \in Goals :
                  \/ \E p \in Goals \cup {NoParent} : AlignGoal(w, g, p)
                  \/ DeleteGoal(w, g) \/ RestoreGoal(w, g)
                  \/ CloseGoal(w, g) \/ ReopenGoal(w, g)
     \/ /\ \E w \in Writers : Load(w) \/ Commit(w) \/ RollBack(w)
        /\ UNCHANGED requested

(* Only the first cycle is graded more than once, and recorded by hand. *)
Cyclewise ==
  /\ setting = "cycles"
  /\ \/ \E d \in Desks :
          \/ LookBack(d) \/ LookAhead(d) \/ Settle(d) \/ Withdraw(d)
          \/ SnapshotCycle(d, 1)
          \/ \E c \in Cycles :
               \/ CreateCycle(d, c) \/ CloseCycle(d, c)
               \/ \E a \in Cycles : FeedForward(d, c, a)
     \/ \E c \in Cycles :
          \/ ArchiveCycle(c)
          \/ \E v \in Grades : (v = 1 \/ c = 1) /\ v > score[c] /\ Grade(c, v)

MCNext ==
  /\ UNCHANGED setting
  /\ \/ /\ \/ /\ Votewise
              /\ UNCHANGED <<requested, weekVars, boardVars, goalVars>>
           \/ /\ Stagewise \/ (Weekwise /\ UNCHANGED requested)
              /\ UNCHANGED <<voteVars, boardVars, goalVars>>
           \/ Boardwise /\ UNCHANGED <<voteVars, weekVars, goalVars>>
           \/ Goalwise /\ UNCHANGED <<voteVars, weekVars, boardVars>>
        /\ UNCHANGED cycleVars
     \/ /\ Cyclewise
        /\ UNCHANGED <<requested, voteVars, weekVars, boardVars, goalVars>>

MCSpec == MCInit /\ [][MCNext]_mcVars

(* No definition tells two writers, or two desks, apart. *)
Interchangeable == Permutations(Writers) \cup Permutations(Desks)

(* One invariant for the shape of all five. *)
CollaborationTypeOK ==
  VoteTypeOK /\ WeekTypeOK /\ BoardTypeOK /\ GoalTypeOK /\ CycleTypeOK
=============================================================================
