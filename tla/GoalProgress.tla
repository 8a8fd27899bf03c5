----------------------------- MODULE GoalProgress -----------------------------
(***************************************************************************)
(* The numbers on the alignment tree: recomputeForGoal                     *)
(* (core/src/scoring/recompute.ts) with cascadeProgress                    *)
(* (method/src/scoring.ts), inside the transactions that call it --        *)
(* goals.recordValue, checkIns.publishDirect, goals.update, goals.close,   *)
(* goals.reopen, goals.restore -- and goals.delete, which does not.        *)
(*                                                                         *)
(* A writer is one such transaction, at READ COMMITTED:                    *)
(*   a start    the checks and the first write, whose row locks it keeps   *)
(*   Load       the branch above its goal is read and worked out           *)
(*   Commit     the rows whose answer moved are written, by id, and all of *)
(*              it is seen by others; it waits for rows another one holds  *)
(* and RollBack takes it all back: a lost connection, a deadlock's victim. *)
(*                                                                         *)
(* A goal's progress is the weighted mean of its key results and, with the *)
(* roll-up on, of its children's progress.  What the properties tell apart *)
(* is what went into it, so here it is a set of readings.                  *)
(***************************************************************************)
EXTENDS Integers, FiniteSets

CONSTANTS
  Goals,     \* goals' ids, in the order of their ids
  KeyResults,
  OwnerOf,   \* the goal of each
  Values,    \* values recorded for them
  Writers,   \* transactions in flight
  RollUps    \* settings of the practice progress.rollUp to consider

ASSUME GoalConstants ==
  /\ Goals \subseteq Nat /\ IsFiniteSet(Goals)
  /\ OwnerOf \in [KeyResults -> Goals]
  /\ RollUps \subseteq BOOLEAN

NoParent == -1
Adrift   == [op |-> "none"]

VARIABLES
  rollUp,
  tree,     \* the committed rows: parent, live, closed, value, health
  progress, \* goals.progress_pct, as the readings it was worked out from
  writer,   \* per writer: what it does, and what it loaded
  stale,    \* history: goals whose progress something left behind
  outrun,   \* history: goals whose health was written over a newer one
  unseen,   \* history: goals that were deleted while a goal was re-aligned
  crossed   \* history: goals re-aligned while another one was

history  == <<stale, outrun, unseen, crossed>>
goalVars == <<rollUp, tree, progress, writer, history>>

Readings == KeyResults \X Values

MeasuresOf(S) == {k \in KeyResults : OwnerOf[k] \in S}

------------------------------------------------------------------------------
(* The tree: t is a value of the variable tree, p a function to parents. *)

(* The goal each one rolls into: its parent, unless that one is deleted. *)
Parents(t) ==
  [g \in Goals |-> IF t.parent[g] \in t.live THEN t.parent[g] ELSE NoParent]

(* The goals above g: its parent, and the parent of each that is there. *)
Ancestors(p, g) ==
  {a \in DOMAIN p : \A S \in SUBSET DOMAIN p :
     (\A b \in S \cup {g} : p[b] \in S \cup {NoParent}) => a \in S}

OnRing(p, g) == g \in Ancestors(p, g)

(* Of every ring the goal whose id sorts highest loses its parent. *)
Unringed(p) ==
  [g \in DOMAIN p |->
    IF OnRing(p, g) /\ \A h \in Ancestors(p, g) : h <= g
      THEN NoParent ELSE p[g]]

(* What each goal of S adds up to: its own key results and, rolled up, the *)
(* goals of S below it and what the settled children bring along.          *)
Cascade(t, S, settled) ==
  LET all == Parents(t)
      p == Unringed([g \in S |-> IF all[g] \in S THEN all[g] ELSE NoParent])
      Under(g) ==
        {g} \cup IF rollUp THEN {h \in S : g \in Ancestors(p, h)} ELSE {}
      Brought(g) ==
        IF rollUp THEN {c \in settled : all[c] \in Under(g)} ELSE {}
  IN  [g \in S |-> {<<k, t.value[k]>> : k \in MeasuresOf(Under(g))}
                     \cup UNION {progress[c] : c \in Brought(g)}]

(* loadGoalBranch: the goal and the goals above it ... *)
Branch(t, g) == {g} \cup Ancestors(Parents(t), g)

(* Mutant: the branch alone. *)
MutNoSiblings(t, S) == {}

(* ... and the siblings those roll up with. *)
Siblings(t, S) == {c \in t.live \ S : t.parent[c] \in S}

(* healthFor: its outcome once the goal is closed, a live status until then. *)
HealthIn(t, g) == IF g \in t.closed THEN "ended" ELSE "live"

------------------------------------------------------------------------------
GoalTypeOK ==
  /\ rollUp \in RollUps
  /\ tree.parent \in [Goals -> Goals \cup {NoParent}]
  /\ tree.live \subseteq Goals /\ tree.closed \subseteq Goals
  /\ tree.value \in [KeyResults -> Values]
  /\ tree.health \in [Goals -> {"live", "ended"}]
  /\ progress \in [Goals -> SUBSET Readings]
  /\ \A w \in Writers : writer[w] # Adrift =>
       /\ writer[w].goal \in Goals /\ writer[w].stage \in {"wrote", "loaded"}
       /\ writer[w].branch \subseteq Goals /\ writer[w].read \subseteq Goals
       /\ DOMAIN writer[w].moved \subseteq writer[w].branch
  /\ stale \cup outrun \cup unseen \cup crossed \subseteq Goals

(* A tree that has been worked out whole, nothing in flight. *)
GoalInit ==
  /\ rollUp \in RollUps
  /\ \E p \in [Goals -> Goals \cup {NoParent}], v \in Values :
       /\ \A g \in Goals : ~OnRing(p, g)
       /\ tree = [parent |-> p, live |-> Goals, closed |-> {},
                  value |-> [k \in KeyResults |-> v],
                  health |-> [g \in Goals |-> "live"]]
  /\ progress = Cascade(tree, Goals, {})
  /\ writer = [w \in Writers |-> Adrift]
  /\ stale = {} /\ outrun = {} /\ unseen = {} /\ crossed = {}

------------------------------------------------------------------------------
(* The start of a transaction: goals and krs are the rows it locks, and    *)
(* another transaction's rows are waited for.                              *)
Start(w, op, g, to, goals, krs) ==
  /\ writer[w] = Adrift
  /\ \A v \in Writers : writer[v] # Adrift =>
       writer[v].goals \cap goals = {} /\ writer[v].krs \cap krs = {}
  /\ writer' = [writer EXCEPT ![w] =
       [op |-> op, goal |-> g, to |-> to, goals |-> goals, krs |-> krs,
        stage |-> "wrote", branch |-> {}, read |-> {}, moved |-> <<>>,
        late |-> FALSE, blind |-> Goals \ tree.live]]
  /\ UNCHANGED <<rollUp, tree, progress, history>>

(* goals.recordValue locks its key result only. *)
RecordValue(w, k, v) ==
  /\ OwnerOf[k] \in tree.live /\ tree.value[k] # v
  /\ Start(w, "record", OwnerOf[k], v, {}, {k})

(* publishCheckInInTx goes on to write the goal's row. *)
PublishCheckIn(w, k, v) ==
  /\ OwnerOf[k] \in tree.live /\ tree.value[k] # v
  /\ Start(w, "record", OwnerOf[k], v, {OwnerOf[k]}, {k})

(* Mutant: the walk looks no further than the parent itself. *)
MutClosesLoop(g, p) == p = g

(* wouldCloseAlignmentLoop walks up over live goals, and refuses a loop    *)
(* that is there already.                                                  *)
ClosesLoop(g, p) ==
  /\ p \in tree.live
  /\ \/ g \in Branch(tree, p)
     \/ \E a \in Branch(tree, p) : OnRing(Parents(tree), a)

(* goals.update with a new parent, which may be a deleted goal, or none. *)
AlignGoal(w, g, p) ==
  /\ g \in tree.live /\ p # tree.parent[g]
  /\ p # NoParent => p # g /\ ~ClosesLoop(g, p)
  /\ Start(w, "align", g, p, {g}, {})

DeleteGoal(w, g) ==
  /\ g \in tree.live
  /\ Start(w, "delete", g, NoParent, {g}, MeasuresOf({g}))

(* The key results that went with the goal come back with it. *)
RestoreGoal(w, g) ==
  /\ g \notin tree.live
  /\ Start(w, "restore", g, NoParent, {g}, MeasuresOf({g}))

CloseGoal(w, g) ==
  /\ g \in tree.live \ tree.closed
  /\ Start(w, "close", g, NoParent, {g}, {})

ReopenGoal(w, g) ==
  /\ g \in tree.live \cap tree.closed
  /\ Start(w, "reopen", g, NoParent, {g}, {})

(* The committed rows with the first write of a writer over them. *)
Seen(j) ==
  CASE j.op = "record"  ->
         [tree EXCEPT !.value =
           [k \in KeyResults |-> IF k \in j.krs THEN j.to ELSE @[k]]]
    [] j.op = "align"   -> [tree EXCEPT !.parent[j.goal] = j.to]
    [] j.op = "delete"  -> [tree EXCEPT !.live = @ \ {j.goal}]
    [] j.op = "restore" -> [tree EXCEPT !.live = @ \cup {j.goal}]
    [] j.op = "close"   -> [tree EXCEPT !.closed = @ \cup {j.goal},
                                        !.health[j.goal] = "ended"]
    [] j.op = "reopen"  -> [tree EXCEPT !.closed = @ \ {j.goal},
                                        !.health[j.goal] = "live"]

(* The rows a load looks for: the branch, the goal it stops below, which    *)
(* may be deleted, and the siblings.                                       *)
LooksFor(t, branch, settled) ==
  branch \cup settled \cup ({t.parent[h] : h \in branch} \ {NoParent})

(* The rows a transaction changes, and the goal it puts a child under: its *)
(* children are among the rows that a load of that one looks for.          *)
Changed(j) ==
  {j.goal} \cup DOMAIN j.moved
    \cup IF j.op \in {"align", "restore"}
            THEN {Seen(j).parent[j.goal]} \ {NoParent} ELSE {}

(* recomputeScoring as far as its comparison with what is stored; the      *)
(* queries of one load are taken as one.                                   *)
Load(w) ==
  LET j == writer[w] IN
  /\ j # Adrift /\ j.op # "delete" /\ j.stage = "wrote"
  /\ LET t == Seen(j)
         branch == Branch(t, j.goal)
         settled == Siblings(t, branch)
         sum == Cascade(t, branch, settled)
         moved == {h \in branch :
                     sum[h] # progress[h] \/ HealthIn(t, h) # t.health[h]}
     IN  writer' = [writer EXCEPT ![w] = [j EXCEPT
           !.stage = "loaded", !.branch = branch,
           !.read = LooksFor(t, branch, settled),
           !.moved = [h \in moved |->
             [progress |-> sum[h], health |-> HealthIn(t, h)]]]]
  /\ UNCHANGED <<rollUp, tree, progress, history>>

(* History.  A delete recomputes nothing and a re-alignment only upwards   *)
(* from the new parent, so the goals above the old one are left as they    *)
(* are.  A branch in order again is one that was worked out from settled   *)
(* siblings in order; one worked out from rows that have changed since is  *)
(* not.                                                                    *)
StaleAfter(j) ==
  LET t == Seen(j)
      left == IF rollUp /\ j.op \in {"align", "delete"}
                THEN Ancestors(Parents(tree), j.goal) ELSE {}
      old == stale \cup left
      tainted == IF rollUp
                   THEN UNION {Branch(t, t.parent[c]) :
                          c \in old \cap Siblings(t, j.branch)}
                   ELSE {}
  IN  IF j.late THEN old \cup j.branch \cup Branch(t, j.goal)
                ELSE (old \ j.branch) \cup tainted

(* Two re-alignments in flight have each been checked without the other.   *)
Crossing(w) ==
  IF writer[w].op # "align" THEN {}
  ELSE LET others == {v \in Writers \ {w} :
                        writer[v] # Adrift /\ writer[v].op = "align"}
       IN  IF others = {} THEN {}
           ELSE {writer[v].goal : v \in others \cup {w}}

(* writeGoals, by id where the row is not deleted, and the commit. *)
Commit(w) ==
  LET j == writer[w] IN
  /\ j # Adrift /\ (j.op = "delete" \/ j.stage = "loaded")
  /\ \A v \in Writers \ {w} :
       writer[v] # Adrift => writer[v].goals \cap DOMAIN j.moved = {}
  /\ LET t == Seen(j)
         written == DOMAIN j.moved \cap t.live
     IN  /\ tree' = [t EXCEPT !.health = [h \in Goals |->
                IF h \in written THEN j.moved[h].health ELSE @[h]]]
         /\ progress' = [h \in Goals |->
                IF h \in written THEN j.moved[h].progress ELSE progress[h]]
         /\ outrun' = IF j.late THEN outrun \cup written ELSE outrun \ j.branch
  /\ stale' = StaleAfter(j)
  /\ unseen' = IF j.op = "align" THEN unseen \cup j.blind ELSE unseen
  /\ crossed' = crossed \cup Crossing(w)
  /\ writer' = [v \in Writers |->
       IF v = w THEN Adrift
       ELSE IF writer[v] # Adrift /\ writer[v].stage = "loaded"
                 /\ writer[v].read \cap Changed(j) # {}
              THEN [writer[v] EXCEPT !.late = TRUE]
              ELSE writer[v]]
  /\ UNCHANGED rollUp

(* Rolled back: the connection is lost, or it is a deadlock's victim. *)
RollBack(w) ==
  /\ writer[w] # Adrift
  /\ writer' = [writer EXCEPT ![w] = Adrift]
  /\ UNCHANGED <<rollUp, tree, progress, history>>

GoalNext ==
  \E w \in Writers :
    \/ \E k \in KeyResults, v \in Values :
         RecordValue(w, k, v) \/ PublishCheckIn(w, k, v)
    \/ \E g \in Goals :
         \/ \E p \in Goals \cup {NoParent} : AlignGoal(w, g, p)
         \/ DeleteGoal(w, g) \/ RestoreGoal(w, g)
         \/ CloseGoal(w, g) \/ ReopenGoal(w, g)
    \/ Load(w) \/ Commit(w) \/ RollBack(w)

GoalSpec == GoalInit /\ [][GoalNext]_goalVars

------------------------------------------------------------------------------
(* A goal shows what the whole tree, worked out at once, would give it,    *)
(* and a closed one its outcome, unless a known cause says why not: a      *)
(* child deleted or moved away from below it, or a recompute that had read *)
(* rows somebody changed before it wrote.  The branch that one change      *)
(* loads, with its settled siblings and its loops broken, is enough for    *)
(* everything else.                                                        *)
NumbersExplained ==
  LET whole == Cascade(tree, tree.live, {}) IN
  \A g \in tree.live :
    /\ progress[g] = whole[g] \/ g \in stale
    /\ tree.health[g] = HealthIn(tree, g) \/ g \in outrun

(* The alignment goes round only through a goal that was deleted while     *)
(* another one was re-aligned, and restored since, or through two          *)
(* re-alignments neither of which saw the other.                           *)
LoopsExplained ==
  \A g \in tree.live :
    OnRing(Parents(tree), g) =>
      Ancestors(Parents(tree), g) \cap (unseen \cup crossed) # {}
=============================================================================
