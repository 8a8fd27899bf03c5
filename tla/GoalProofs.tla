------------------------------ MODULE GoalProofs ------------------------------
(***************************************************************************)
(* Proofs about the alignment tree (GoalProgress), for every number of     *)
(* goals, key results and transactions.                                    *)
(*                                                                         *)
(* Goals hang on their parents, and what is above a goal is the least set  *)
(* that has its parent and, with a goal, the parent of that one.  So the   *)
(* tree is reasoned about with sets that are closed under going up, and    *)
(* nothing is proved by induction on the length of a path.                 *)
(*                                                                         *)
(* Loops: a set of goals whose parents are all in it is a trap; LoopInv    *)
(* says that every trap, of the deleted goals too, has a known cause, and  *)
(* what the check of a re-alignment in flight still vouches for.           *)
(*                                                                         *)
(* Numbers: BranchIsEnough says that the branch above a goal, with what    *)
(* its settled siblings show, adds up to what the whole tree would;        *)
(* NumInv, that a load which is not late is what would be loaded now.      *)
(*                                                                         *)
(* At the end, the shape of everything a team does together, from the      *)
(* invariants of SessionProofs and PlanningProofs as well.                 *)
(***************************************************************************)
EXTENDS MCCollaboration, SessionProofs, PlanningProofs

------------------------------------------------------------------------------
(* Going up *)

(* p gives each goal of G its parent in G, or none. *)
Rises(p, G) == NoParent \notin G /\ p \in [G -> G \cup {NoParent}]

(* S has the parent of every goal of T. *)
Covers(p, S, T) == \A b \in T : p[b] \in S \cup {NoParent}

LEMMA AncestorsHold ==
  ASSUME NEW G, NEW p, Rises(p, G), NEW g \in G
  PROVE  /\ Ancestors(p, g) \subseteq G
         /\ Covers(p, Ancestors(p, g), Ancestors(p, g) \cup {g})
<1>1. DOMAIN p = G /\ \A b \in G : p[b] \in G \cup {NoParent}
  BY DEF Rises
<1>2. ASSUME NEW b \in Ancestors(p, g) \cup {g}, p[b] # NoParent
      PROVE  p[b] \in Ancestors(p, g)
  <2>1. p[b] \in G
    BY <1>1, <1>2 DEF Ancestors
  <2>2. ASSUME NEW S \in SUBSET DOMAIN p,
               \A x \in S \cup {g} : p[x] \in S \cup {NoParent}
        PROVE  p[b] \in S
    <3>1. b \in S \cup {g}
      BY <2>2 DEF Ancestors
    <3> QED
      BY <1>2, <2>2, <3>1
  <2> QED
    BY <1>1, <2>1, <2>2 DEF Ancestors
<1> QED
  BY <1>1, <1>2 DEF Ancestors, Covers

LEMMA AncestorsLeast ==
  ASSUME NEW G, NEW p, Rises(p, G), NEW g \in G,
         NEW S \in SUBSET G, Covers(p, S, S \cup {g})
  PROVE  Ancestors(p, g) \subseteq S
<1>1. S \in SUBSET DOMAIN p
  BY DEF Rises
<1> QED
  BY <1>1 DEF Ancestors, Covers

LEMMA AncestorsStep ==
  ASSUME NEW G, NEW p, Rises(p, G), NEW g \in G
  PROVE  Ancestors(p, g) =
           IF p[g] = NoParent THEN {} ELSE {p[g]} \cup Ancestors(p, p[g])
<1>1. CASE p[g] = NoParent
  <2>1. Covers(p, {}, {} \cup {g})
    BY <1>1 DEF Covers
  <2> QED
    BY <1>1, <2>1, AncestorsLeast
<1>2. CASE p[g] # NoParent
  <2>1. p[g] \in G
    BY <1>2 DEF Rises
  <2> DEFINE up == {p[g]} \cup Ancestors(p, p[g])
  <2>2. /\ Ancestors(p, p[g]) \subseteq G
        /\ Covers(p, Ancestors(p, p[g]), Ancestors(p, p[g]) \cup {p[g]})
    BY <2>1, AncestorsHold
  <2>3. Ancestors(p, g) \subseteq up
    <3>1. Covers(p, up, up \cup {g})
      BY <2>2 DEF Covers
    <3>2. up \in SUBSET G
      BY <2>1, <2>2
    <3> HIDE DEF up
    <3> QED
      BY <3>1, <3>2, AncestorsLeast
  <2>4. /\ Ancestors(p, g) \subseteq G
        /\ Covers(p, Ancestors(p, g), Ancestors(p, g) \cup {g})
    BY AncestorsHold
  <2>5. p[g] \in Ancestors(p, g)
    BY <1>2, <2>4 DEF Covers
  <2>6. Covers(p, Ancestors(p, g), Ancestors(p, g) \cup {p[g]})
    BY <2>4, <2>5 DEF Covers
  <2>7. Ancestors(p, p[g]) \subseteq Ancestors(p, g)
    BY <2>1, <2>4, <2>6, AncestorsLeast
  <2> QED
    BY <1>2, <2>3, <2>5, <2>7
<1> QED
  BY <1>1, <1>2

(* What is above a goal above g is above g. *)
LEMMA AncestorsTransitive ==
  ASSUME NEW G, NEW p, Rises(p, G), NEW g \in G, NEW a \in Ancestors(p, g)
  PROVE  a \in G /\ Ancestors(p, a) \subseteq Ancestors(p, g)
<1>1. /\ Ancestors(p, g) \subseteq G
      /\ Covers(p, Ancestors(p, g), Ancestors(p, g) \cup {g})
  BY AncestorsHold
<1>2. Covers(p, Ancestors(p, g), Ancestors(p, g) \cup {a})
  BY <1>1 DEF Covers
<1> QED
  BY <1>1, <1>2, AncestorsLeast

(* A ring has no top: everything above one of its goals is on it. *)
LEMMA RingGoesRound ==
  ASSUME NEW G, NEW p, Rises(p, G), NEW g \in G, OnRing(p, g)
  PROVE  \A a \in Ancestors(p, g) :
           /\ a \in G /\ p[a] \in Ancestors(p, g)
           /\ g \in Ancestors(p, a)
<1> DEFINE T == {a \in Ancestors(p, g) : g \in Ancestors(p, a)}
<1>1. /\ Ancestors(p, g) \subseteq G
      /\ Covers(p, Ancestors(p, g), Ancestors(p, g) \cup {g})
  BY AncestorsHold
<1>2. g \in Ancestors(p, g)
  BY DEF OnRing
<1>3. ASSUME NEW a \in G, g \in Ancestors(p, a)
      PROVE  /\ p[a] # NoParent /\ p[a] \in G
             /\ g \in Ancestors(p, p[a])
  <2>1. p[a] # NoParent /\ Ancestors(p, a) = {p[a]} \cup Ancestors(p, p[a])
    BY <1>3, AncestorsStep
  <2>2. p[a] \in G
    BY <2>1 DEF Rises
  <2> QED
    BY <1>2, <1>3, <2>1, <2>2
<1>4. Covers(p, T, T \cup {g})
  BY <1>1, <1>2, <1>3 DEF Covers
<1>5. T \in SUBSET G
  BY <1>1
<1>6. Ancestors(p, g) \subseteq T
  <2> HIDE DEF T
  <2> QED
    BY <1>4, <1>5, AncestorsLeast
<1> QED
  BY <1>1, <1>3, <1>6 DEF Covers

(* Goals that all have a parent among themselves: they go round. *)
Trap(p, S) == S # {} /\ \A b \in S : p[b] \in S

LEMMA RingIsTrap ==
  ASSUME NEW G, NEW p, Rises(p, G), NEW g \in G, OnRing(p, g)
  PROVE  Ancestors(p, g) \in SUBSET G /\ Trap(p, Ancestors(p, g))
<1>1. Ancestors(p, g) \in SUBSET G
  BY AncestorsHold
<1> QED
  BY <1>1, RingGoesRound DEF Trap, OnRing

LEMMA TrapHasRing ==
  ASSUME NEW G, IsFiniteSet(G), NEW p, Rises(p, G),
         NEW S \in SUBSET G, Trap(p, S)
  PROVE  \E g \in S : OnRing(p, g)
<1> DEFINE T == {U \in SUBSET S : Trap(p, U)}
<1>1. IsFiniteSet(S) /\ S \in T /\ T \subseteq SUBSET S
  BY FS_Subset
<1>2. IsWellFoundedOn(StrictSubsetOrdering(S), SUBSET S)
  BY <1>1, FS_StrictSubsetOrderingWellFounded, FS_FiniteSubsetsOfFinite
<1>3. PICK U \in T : \A V \in T : ~(<<V, U>> \in StrictSubsetOrdering(S))
  <2> HIDE DEF T
  <2> QED
    BY <1>1, <1>2, WFMin
<1>4. PICK g \in U : g \in G
  BY DEF Trap
<1>5. Covers(p, U, U \cup {g}) /\ U \in SUBSET G
  BY <1>4 DEF Covers, Trap
<1>6. Ancestors(p, g) \subseteq U
  BY <1>4, <1>5, AncestorsLeast
<1>7. Ancestors(p, g) \in T
  <2>1. Covers(p, Ancestors(p, g), Ancestors(p, g) \cup {g})
    BY <1>4, AncestorsHold
  <2>2. \A b \in Ancestors(p, g) \cup {g} : p[b] # NoParent
    BY <1>4, <1>6 DEF Trap, Rises
  <2>3. \A b \in Ancestors(p, g) \cup {g} : p[b] \in Ancestors(p, g)
    BY <2>1, <2>2 DEF Covers
  <2> QED
    BY <1>6, <2>3 DEF Trap
<1>8. Ancestors(p, g) = U
  BY <1>3, <1>6, <1>7 DEF StrictSubsetOrdering
<1> QED
  BY <1>4, <1>8 DEF OnRing

------------------------------------------------------------------------------
(* Shapes *)

Trees ==
  [parent : [Goals -> Goals \cup {NoParent}],
   live : SUBSET Goals, closed : SUBSET Goals,
   value : [KeyResults -> Values], health : [Goals -> {"live", "ended"}]]

Answers == [progress : SUBSET Readings, health : {"live", "ended"}]

Transactions ==
  [op : {"record", "align", "delete", "restore", "close", "reopen"},
   goal : Goals, to : Goals \cup {NoParent} \cup Values,
   goals : SUBSET Goals, krs : SUBSET KeyResults,
   stage : {"wrote", "loaded"}, branch : SUBSET Goals, read : SUBSET Goals,
   moved : UNION {[S -> Answers] : S \in SUBSET Goals},
   late : BOOLEAN, blind : SUBSET Goals]

WriterShape(j) ==
  /\ j \in Transactions
  /\ j.op = "align" => j.to \in Goals \cup {NoParent}
  /\ j.op = "record" => j.to \in Values

GoalShape ==
  /\ rollUp \in BOOLEAN
  /\ tree \in Trees
  /\ progress \in [Goals -> SUBSET Readings]
  /\ DOMAIN writer = Writers
  /\ \A w \in Writers : writer[w] # Adrift => WriterShape(writer[w])
  /\ stale \subseteq Goals /\ outrun \subseteq Goals
  /\ unseen \subseteq Goals /\ crossed \subseteq Goals

InFlight(w) == writer[w] # Adrift

LEMMA GoalsAre == Goals \subseteq Nat /\ IsFiniteSet(Goals) /\ NoParent \notin Goals
  BY GoalConstants DEF NoParent

LEMMA ParentsRise ==
  ASSUME NEW t \in Trees
  PROVE  /\ Rises(t.parent, Goals) /\ Rises(Parents(t), Goals)
         /\ \A g \in Goals :
              Parents(t)[g] = IF t.parent[g] \in t.live THEN t.parent[g]
                              ELSE NoParent
         /\ \A g \in Goals : Parents(t)[g] \in t.live \cup {NoParent}
BY GoalsAre DEF Trees, Rises, Parents

LEMMA BranchHolds ==
  ASSUME NEW t \in Trees, NEW g \in Goals
  PROVE  /\ Branch(t, g) \subseteq Goals /\ g \in Branch(t, g)
         /\ Ancestors(Parents(t), g) \subseteq Branch(t, g)
         /\ Covers(Parents(t), Branch(t, g), Branch(t, g))
<1>1. Rises(Parents(t), Goals)
  BY ParentsRise
<1>2. /\ Ancestors(Parents(t), g) \subseteq Goals
      /\ Covers(Parents(t), Ancestors(Parents(t), g),
                Ancestors(Parents(t), g) \cup {g})
  BY <1>1, AncestorsHold
<1> QED
  BY <1>2 DEF Branch, Covers

(* Cascade is a set of readings, whatever it is given. *)
LEMMA CascadeShape ==
  ASSUME NEW t \in Trees, progress \in [Goals -> SUBSET Readings],
         NEW S \in SUBSET Goals, NEW settled \in SUBSET Goals
  PROVE  Cascade(t, S, settled) \in [S -> SUBSET Readings]
<1> DEFINE all == Parents(t)
           p == Unringed([g \in S |-> IF all[g] \in S THEN all[g] ELSE NoParent])
           Under(g) ==
             {g} \cup IF rollUp THEN {h \in S : g \in Ancestors(p, h)} ELSE {}
           Brought(g) ==
             IF rollUp THEN {c \in settled : all[c] \in Under(g)} ELSE {}
<1>1. Cascade(t, S, settled) =
        [g \in S |-> {<<k, t.value[k]>> : k \in MeasuresOf(Under(g))}
                       \cup UNION {progress[c] : c \in Brought(g)}]
  BY DEF Cascade
<1>2. ASSUME NEW g \in S
      PROVE  {<<k, t.value[k]>> : k \in MeasuresOf(Under(g))} \subseteq Readings
  <2> HIDE DEF Under
  <2> QED
    BY DEF Trees, Readings, MeasuresOf
<1>3. ASSUME NEW g \in S
      PROVE  UNION {progress[c] : c \in Brought(g)} \subseteq Readings
  <2>1. Brought(g) \subseteq Goals
    OBVIOUS
  <2> HIDE DEF Brought
  <2> QED
    BY <2>1
<1> HIDE DEF Under, Brought, p
<1> QED
  BY <1>1, <1>2, <1>3

(* Rows t with the first write of a writer over them. *)
Over(t, j) ==
  CASE j.op = "record"  ->
         [t EXCEPT !.value =
           [k \in KeyResults |-> IF k \in j.krs THEN j.to ELSE @[k]]]
    [] j.op = "align"   -> [t EXCEPT !.parent[j.goal] = j.to]
    [] j.op = "delete"  -> [t EXCEPT !.live = @ \ {j.goal}]
    [] j.op = "restore" -> [t EXCEPT !.live = @ \cup {j.goal}]
    [] j.op = "close"   -> [t EXCEPT !.closed = @ \cup {j.goal},
                                     !.health[j.goal] = "ended"]
    [] j.op = "reopen"  -> [t EXCEPT !.closed = @ \ {j.goal},
                                     !.health[j.goal] = "live"]

LEMMA SeenIsOver == ASSUME NEW j PROVE Seen(j) = Over(tree, j)
BY DEF Seen, Over

(* u is t with the first write of j over it, field by field. *)
Overlaid(t, j, u) ==
  /\ u.parent = IF j.op = "align"
       THEN [t.parent EXCEPT ![j.goal] = j.to] ELSE t.parent
  /\ u.live = IF j.op = "delete" THEN t.live \ {j.goal}
       ELSE IF j.op = "restore" THEN t.live \cup {j.goal}
       ELSE t.live
  /\ u.closed = IF j.op = "close" THEN t.closed \cup {j.goal}
       ELSE IF j.op = "reopen" THEN t.closed \ {j.goal}
       ELSE t.closed
  /\ u.value = IF j.op = "record"
       THEN [k \in KeyResults |-> IF k \in j.krs THEN j.to ELSE t.value[k]]
       ELSE t.value
  /\ u.health =
       IF j.op = "close" THEN [t.health EXCEPT ![j.goal] = "ended"]
       ELSE IF j.op = "reopen" THEN [t.health EXCEPT ![j.goal] = "live"]
       ELSE t.health

LEMMA OverShape ==
  ASSUME NEW t \in Trees, NEW j, WriterShape(j)
  PROVE  Over(t, j) \in Trees /\ Overlaid(t, j, Over(t, j))
<1> USE DEF Over, Overlaid
<1>1. CASE j.op = "record"
  BY <1>1 DEF WriterShape, Trees, Transactions
<1>2. CASE j.op = "align"
  BY <1>2 DEF WriterShape, Trees, Transactions
<1>3. CASE j.op = "delete"
  BY <1>3 DEF WriterShape, Trees, Transactions
<1>4. CASE j.op = "restore"
  BY <1>4 DEF WriterShape, Trees, Transactions
<1>5. CASE j.op = "close"
  BY <1>5 DEF WriterShape, Trees, Transactions
<1>6. CASE j.op = "reopen"
  BY <1>6 DEF WriterShape, Trees, Transactions
<1> QED
  BY <1>1, <1>2, <1>3, <1>4, <1>5, <1>6 DEF WriterShape, Transactions

LEMMA SeenShape ==
  ASSUME GoalShape, NEW j, WriterShape(j)
  PROVE  /\ Seen(j) = Over(tree, j) /\ Seen(j) \in Trees
         /\ Seen(j).parent = IF j.op = "align"
              THEN [tree.parent EXCEPT ![j.goal] = j.to] ELSE tree.parent
         /\ j.goal \in Goals
BY SeenIsOver, OverShape DEF GoalShape, WriterShape, Transactions, Overlaid

------------------------------------------------------------------------------
(* Steps *)

(* What each operation starts with. *)
Begins(w, op, g, to, goals, krs) ==
  /\ g \in Goals /\ Start(w, op, g, to, goals, krs)
  /\ op \in {"record", "align", "delete", "restore", "close", "reopen"}
  /\ op = "record" =>
       /\ g \in tree.live /\ to \in Values /\ goals \subseteq {g}
       /\ \E k \in MeasuresOf({g}) : krs = {k}
  /\ op # "record" => goals = {g} /\ to \in Goals \cup {NoParent}
  /\ op = "align" => /\ g \in tree.live /\ krs = {}
                     /\ to # NoParent => to # g /\ ~ClosesLoop(g, to)
  /\ op \in {"delete", "restore"} => krs = MeasuresOf({g})
  /\ op = "delete" => g \in tree.live
  /\ op = "restore" => g \notin tree.live
  /\ op \in {"close", "reopen"} => g \in tree.live /\ krs = {}

Begun(w) == \E op, g, to, goals, krs : Begins(w, op, g, to, goals, krs)

LEMMA GoalSteps ==
  ASSUME GoalNext
  PROVE  \E w \in Writers :
           \/ Begun(w)
           \/ Load(w) \/ Commit(w) \/ RollBack(w)
<1>1. ASSUME NEW k \in KeyResults PROVE OwnerOf[k] \in Goals
                                        /\ k \in MeasuresOf({OwnerOf[k]})
  BY GoalConstants DEF MeasuresOf
<1>2. ASSUME NEW w \in Writers, NEW k \in KeyResults, NEW v \in Values,
             RecordValue(w, k, v)
      PROVE  Begun(w)
  <2>1. Begins(w, "record", OwnerOf[k], v, {}, {k})
    BY <1>1, <1>2 DEF RecordValue, Begins
  <2> QED
    BY <2>1 DEF Begun
<1>3. ASSUME NEW w \in Writers, NEW k \in KeyResults, NEW v \in Values,
             PublishCheckIn(w, k, v)
      PROVE  Begun(w)
  <2>1. Begins(w, "record", OwnerOf[k], v, {OwnerOf[k]}, {k})
    BY <1>1, <1>3 DEF PublishCheckIn, Begins
  <2> QED
    BY <2>1 DEF Begun
<1>4. ASSUME NEW w \in Writers, NEW g \in Goals,
             NEW p \in Goals \cup {NoParent}, AlignGoal(w, g, p)
      PROVE  Begun(w)
  <2>1. Begins(w, "align", g, p, {g}, {})
    BY <1>4 DEF AlignGoal, Begins
  <2> QED
    BY <2>1 DEF Begun
<1>5. ASSUME NEW w \in Writers, NEW g \in Goals, DeleteGoal(w, g)
      PROVE  Begun(w)
  <2>1. Begins(w, "delete", g, NoParent, {g}, MeasuresOf({g}))
    BY <1>5 DEF DeleteGoal, Begins
  <2> QED
    BY <2>1 DEF Begun
<1>6. ASSUME NEW w \in Writers, NEW g \in Goals, RestoreGoal(w, g)
      PROVE  Begun(w)
  <2>1. Begins(w, "restore", g, NoParent, {g}, MeasuresOf({g}))
    BY <1>6 DEF RestoreGoal, Begins
  <2> QED
    BY <2>1 DEF Begun
<1>7. ASSUME NEW w \in Writers, NEW g \in Goals, CloseGoal(w, g)
      PROVE  Begun(w)
  <2>1. Begins(w, "close", g, NoParent, {g}, {})
    BY <1>7 DEF CloseGoal, Begins
  <2> QED
    BY <2>1 DEF Begun
<1>8. ASSUME NEW w \in Writers, NEW g \in Goals, ReopenGoal(w, g)
      PROVE  Begun(w)
  <2>1. Begins(w, "reopen", g, NoParent, {g}, {})
    BY <1>8 DEF ReopenGoal, Begins
  <2> QED
    BY <2>1 DEF Begun
<1> QED
  BY <1>2, <1>3, <1>4, <1>5, <1>6, <1>7, <1>8 DEF GoalNext

(* The transaction that has begun, and everybody else as they were. *)
LEMMA BeginShape ==
  ASSUME GoalShape, NEW w \in Writers, Begun(w)
  PROVE  /\ UNCHANGED <<rollUp, tree, progress, history>>
         /\ writer[w] = Adrift
         /\ \E j : /\ writer' = [writer EXCEPT ![w] = j] /\ writer'[w] = j
                   /\ Begins(w, j.op, j.goal, j.to, j.goals, j.krs)
                   /\ WriterShape(j) /\ j # Adrift
                   /\ j.stage = "wrote" /\ j.branch = {} /\ j.read = {}
                   /\ j.moved = <<>> /\ j.late = FALSE
                   /\ j.blind = Goals \ tree.live
                   /\ \A v \in Writers \ {w} :
                        InFlight(v) => /\ writer[v].goals \cap j.goals = {}
                                       /\ writer[v].krs \cap j.krs = {}
         /\ \A v \in Writers \ {w} : writer'[v] = writer[v]
         /\ GoalShape'
<1>0. PICK op, g, to, goals, krs : Begins(w, op, g, to, goals, krs)
  BY DEF Begun
<1> DEFINE j == [op |-> op, goal |-> g, to |-> to, goals |-> goals, krs |-> krs,
                 stage |-> "wrote", branch |-> {}, read |-> {}, moved |-> <<>>,
                 late |-> FALSE, blind |-> Goals \ tree.live]
<1>1. /\ writer[w] = Adrift /\ writer' = [writer EXCEPT ![w] = j]
      /\ \A v \in Writers : writer[v] # Adrift =>
           writer[v].goals \cap goals = {} /\ writer[v].krs \cap krs = {}
      /\ UNCHANGED <<rollUp, tree, progress, history>>
  BY <1>0 DEF Begins, Start
<1>2. goals \subseteq Goals /\ krs \subseteq KeyResults /\ g \in Goals
      /\ to \in Goals \cup {NoParent} \cup Values
  BY <1>0 DEF Begins, MeasuresOf
<1>3. <<>> \in UNION {[S -> Answers] : S \in SUBSET Goals}
  <2>1. <<>> \in [{} -> Answers]
    OBVIOUS
  <2> QED
    BY <2>1
<1>4. j \in Transactions
  BY <1>0, <1>2, <1>3 DEF Begins, Transactions
<1>5. WriterShape(j)
  BY <1>0, <1>4 DEF Begins, WriterShape
<1>6. j # Adrift
  <2>1. j.op # "none" /\ Adrift.op = "none"
    BY <1>0 DEF Begins, Adrift
  <2> QED
    BY <2>1
<1>7. DOMAIN writer = Writers /\ DOMAIN writer' = Writers
  BY <1>1 DEF GoalShape
<1>8. writer'[w] = j /\ \A v \in Writers \ {w} : writer'[v] = writer[v]
  BY <1>1, <1>7
<1>9. /\ j.op = op /\ j.goal = g /\ j.to = to
      /\ j.goals = goals /\ j.krs = krs
      /\ j.stage = "wrote" /\ j.branch = {} /\ j.read = {}
      /\ j.moved = <<>> /\ j.late = FALSE /\ j.blind = Goals \ tree.live
  OBVIOUS
<1> HIDE DEF j
<1>10. GoalShape'
  <2>1. \A v \in Writers : writer'[v] # Adrift => WriterShape(writer'[v])
    BY <1>5, <1>8 DEF GoalShape
  <2> QED
    BY <1>1, <1>7, <2>1 DEF GoalShape, history, WriterShape
<1>11. Begins(w, j.op, j.goal, j.to, j.goals, j.krs)
  BY <1>0, <1>9
<1>12. \A v \in Writers \ {w} :
         InFlight(v) => /\ writer[v].goals \cap j.goals = {}
                        /\ writer[v].krs \cap j.krs = {}
  BY <1>1, <1>9 DEF InFlight
<1> QED
  BY <1>1, <1>5, <1>6, <1>8, <1>9, <1>10, <1>11, <1>12

(* What a load has worked out. *)
Sums(j, t)  == Cascade(t, Branch(t, j.goal), Siblings(t, Branch(t, j.goal)))
Moved(j, t) ==
  {h \in Branch(t, j.goal) :
     Sums(j, t)[h] # progress[h] \/ HealthIn(t, h) # t.health[h]}
Loaded(j, t) ==
  /\ j.branch = Branch(t, j.goal)
  /\ j.read = LooksFor(t, j.branch, Siblings(t, j.branch))
  /\ j.moved = [h \in Moved(j, t) |->
       [progress |-> Sums(j, t)[h], health |-> HealthIn(t, h)]]

LEMMA SumsShape ==
  ASSUME progress \in [Goals -> SUBSET Readings], NEW t \in Trees,
         NEW j, j.goal \in Goals
  PROVE  Sums(j, t) \in [Branch(t, j.goal) -> SUBSET Readings]
<1>1. Branch(t, j.goal) \in SUBSET Goals
  BY BranchHolds
<1>2. Siblings(t, Branch(t, j.goal)) \in SUBSET Goals
  BY DEF Siblings, Trees
<1> QED
  BY <1>1, <1>2, CascadeShape DEF Sums

LEMMA LoadShape ==
  ASSUME GoalShape, NEW w \in Writers, Load(w)
  PROVE  /\ UNCHANGED <<rollUp, tree, progress, history>>
         /\ InFlight(w)
         /\ \E j : /\ writer' = [writer EXCEPT ![w] = j] /\ writer'[w] = j
                   /\ WriterShape(j) /\ j # Adrift /\ j.stage = "loaded"
                   /\ Seen(j) = Seen(writer[w]) /\ Loaded(j, Seen(j))
                   /\ j.op = writer[w].op /\ j.op # "delete"
                   /\ j.goal = writer[w].goal
                   /\ j.to = writer[w].to /\ j.goals = writer[w].goals
                   /\ j.krs = writer[w].krs /\ j.late = writer[w].late
                   /\ j.blind = writer[w].blind
         /\ \A v \in Writers \ {w} : writer'[v] = writer[v]
         /\ GoalShape'
<1> DEFINE i == writer[w]  t == Seen(i)
           m == [h \in Moved(i, t) |->
                   [progress |-> Sums(i, t)[h], health |-> HealthIn(t, h)]]
           branch == Branch(t, i.goal)
           settled == Siblings(t, branch)
           read == LooksFor(t, branch, settled)
           j == [i EXCEPT !.stage = "loaded", !.branch = branch,
                          !.read = read, !.moved = m]
<1>1. /\ i # Adrift /\ i.op # "delete" /\ i.stage = "wrote"
      /\ writer' = [writer EXCEPT ![w] = j]
      /\ UNCHANGED <<rollUp, tree, progress, history>>
  BY DEF Load, Moved, Sums
<1>2. WriterShape(i) /\ t \in Trees
  BY <1>1, SeenShape DEF GoalShape
<1>3. i.goal \in Goals
  BY <1>2 DEF WriterShape, Transactions
<1>4. /\ branch \in SUBSET Goals /\ settled \in SUBSET Goals
      /\ read \in SUBSET Goals
  BY <1>2, <1>3, BranchHolds DEF Siblings, Trees, LooksFor
<1>5. m \in UNION {[S -> Answers] : S \in SUBSET Goals}
  <2>1. Moved(i, t) \in SUBSET Goals
    BY <1>4 DEF Moved
  <2>2. \A h \in Moved(i, t) :
          [progress |-> Sums(i, t)[h], health |-> HealthIn(t, h)] \in Answers
    <3>1. Sums(i, t) \in [branch -> SUBSET Readings]
      BY <1>2, <1>3, SumsShape DEF GoalShape
    <3>2. \A h \in Moved(i, t) :
            Sums(i, t)[h] \in SUBSET Readings
            /\ HealthIn(t, h) \in {"live", "ended"}
      BY <3>1 DEF Moved, HealthIn
    <3> QED
      BY <3>2 DEF Answers
  <2>3. m \in [Moved(i, t) -> Answers]
    BY <2>2
  <2> HIDE DEF m
  <2> QED
    BY <2>1, <2>3
<1> HIDE DEF m, t, read
<1>6. /\ j \in Transactions /\ j.stage = "loaded" /\ j.branch = branch
      /\ j.read = read /\ j.moved = m
      /\ j.op = i.op /\ j.goal = i.goal /\ j.to = i.to /\ j.goals = i.goals
      /\ j.krs = i.krs /\ j.late = i.late /\ j.blind = i.blind
  BY <1>2, <1>4, <1>5 DEF WriterShape, Transactions
<1>7. WriterShape(j) /\ j # Adrift
  <2>1. WriterShape(j)
    BY <1>2, <1>6 DEF WriterShape
  <2>2. j.op # "none" /\ Adrift.op = "none"
    BY <1>6 DEF Transactions, Adrift
  <2> QED
    BY <2>1, <2>2
<1>8. DOMAIN writer = Writers
  BY DEF GoalShape
<1>9. writer'[w] = j /\ \A v \in Writers \ {w} : writer'[v] = writer[v]
  BY <1>1, <1>8
<1> HIDE DEF j, branch, settled
<1>10. Seen(j) = t
  BY <1>6 DEF Seen, t
<1>11. Loaded(j, t)
  BY <1>6 DEF Loaded, Moved, Sums, m, branch, settled, read
<1>12. GoalShape'
  <2>1. \A v \in Writers : writer'[v] # Adrift => WriterShape(writer'[v])
    BY <1>7, <1>9 DEF GoalShape
  <2>2. DOMAIN writer' = Writers
    BY <1>1, <1>8
  <2> QED
    BY <1>1, <2>1, <2>2 DEF GoalShape, history, WriterShape
<1> QED
  BY <1>1, <1>6, <1>7, <1>9, <1>10, <1>11, <1>12 DEF InFlight, t

(* Two writers' records that differ in nothing but being late. *)
SameWork(i, j) ==
  /\ i.op = j.op /\ i.goal = j.goal /\ i.to = j.to
  /\ i.goals = j.goals /\ i.krs = j.krs /\ i.stage = j.stage
  /\ i.branch = j.branch /\ i.read = j.read /\ i.moved = j.moved
  /\ i.blind = j.blind

LEMMA StaleShape ==
  ASSUME GoalShape, NEW j, WriterShape(j)
  PROVE  StaleAfter(j) \subseteq Goals
<1> DEFINE t == Seen(j)
           left == IF rollUp /\ j.op \in {"align", "delete"}
                     THEN Ancestors(Parents(tree), j.goal) ELSE {}
           old == stale \cup left
           cut == old \cap Siblings(t, j.branch)
           tainted == IF rollUp
                        THEN UNION {Branch(t, t.parent[c]) : c \in cut} ELSE {}
<1>1. /\ j.goal \in Goals /\ j.branch \in SUBSET Goals
      /\ tree \in Trees /\ t \in Trees
  BY SeenShape DEF GoalShape, WriterShape, Transactions
<1>2. old \subseteq Goals
  <2>1. Ancestors(Parents(tree), j.goal) \subseteq Goals
    BY <1>1, ParentsRise, AncestorsHold
  <2> QED
    BY <2>1 DEF GoalShape
<1>3. \A c \in cut : t.parent[c] \in Goals
  BY <1>1 DEF Siblings
<1>4. StaleAfter(j) = IF j.late THEN old \cup j.branch \cup Branch(t, j.goal)
                               ELSE (old \ j.branch) \cup tainted
  BY DEF StaleAfter
<1> HIDE DEF t
<1>5. \A c \in cut : Branch(t, t.parent[c]) \subseteq Goals
  BY <1>1, <1>3, BranchHolds
<1> HIDE DEF cut
<1>6. tainted \subseteq Goals
  BY <1>5
<1> HIDE DEF old, tainted
<1>7. Branch(t, j.goal) \subseteq Goals
  BY <1>1, BranchHolds
<1> QED
  BY <1>1, <1>2, <1>4, <1>6, <1>7

(* What a commit does, j being the record of its writer. *)
CommitIs(w, j) ==
  /\ j # Adrift /\ WriterShape(j)
  /\ j.op = "delete" \/ j.stage = "loaded"
  /\ tree'.parent = Seen(j).parent /\ tree'.live = Seen(j).live
  /\ tree'.closed = Seen(j).closed /\ tree'.value = Seen(j).value
  /\ tree'.health = [h \in Goals |->
       IF h \in DOMAIN j.moved \cap Seen(j).live THEN j.moved[h].health
       ELSE Seen(j).health[h]]
  /\ progress' = [h \in Goals |->
       IF h \in DOMAIN j.moved \cap Seen(j).live
         THEN j.moved[h].progress ELSE progress[h]]
  /\ outrun' = IF j.late
       THEN outrun \cup (DOMAIN j.moved \cap Seen(j).live)
       ELSE outrun \ j.branch
  /\ stale' = StaleAfter(j)
  /\ unseen' = IF j.op = "align" THEN unseen \cup j.blind ELSE unseen
  /\ crossed' = crossed \cup Crossing(w)
  /\ rollUp' = rollUp
  /\ writer'[w] = Adrift
  /\ \A v \in Writers \ {w} :
       /\ InFlight(v)' <=> InFlight(v)
       /\ InFlight(v) =>
            /\ SameWork(writer'[v], writer[v])
            /\ writer'[v].late <=>
                 \/ writer[v].late
                 \/ /\ writer[v].stage = "loaded"
                    /\ writer[v].read \cap Changed(j) # {}
  /\ GoalShape'

LEMMA CommitShape ==
  ASSUME GoalShape, NEW w \in Writers, Commit(w)
  PROVE  CommitIs(w, writer[w])
<1>0. PICK j : j = writer[w]
  OBVIOUS
<1> DEFINE t == Seen(j)
           written == DOMAIN j.moved \cap t.live
           health == [h \in Goals |->
             IF h \in written THEN j.moved[h].health ELSE t.health[h]]
<1>1. /\ j # Adrift
      /\ j.op = "delete" \/ j.stage = "loaded"
      /\ tree' = [t EXCEPT !.health = health]
      /\ progress' = [h \in Goals |->
           IF h \in written THEN j.moved[h].progress ELSE progress[h]]
      /\ outrun' = IF j.late THEN outrun \cup written ELSE outrun \ j.branch
      /\ stale' = StaleAfter(j)
      /\ unseen' = IF j.op = "align" THEN unseen \cup j.blind ELSE unseen
      /\ crossed' = crossed \cup Crossing(w)
      /\ rollUp' = rollUp
      /\ writer' = [v \in Writers |->
           IF v = w THEN Adrift
           ELSE IF writer[v] # Adrift /\ writer[v].stage = "loaded"
                     /\ writer[v].read \cap Changed(j) # {}
                  THEN [writer[v] EXCEPT !.late = TRUE]
                  ELSE writer[v]]
  <2>1. tree' = [t EXCEPT !.health = [h \in Goals |->
                   IF h \in written THEN j.moved[h].health ELSE @[h]]]
    BY <1>0 DEF Commit
  <2>2. t \in Trees
    BY <1>0, SeenShape DEF GoalShape, Commit
  <2>3. tree' = [t EXCEPT !.health = health]
    <3> HIDE DEF t, written
    <3> QED
      BY <2>1, <2>2 DEF Trees
  <2> QED
    BY <1>0, <2>3 DEF Commit
<1>2. WriterShape(j) /\ j.goal \in Goals /\ t \in Trees
  <2>1. WriterShape(j)
    BY <1>0, <1>1 DEF GoalShape
  <2> QED
    BY <2>1, SeenShape DEF WriterShape, Transactions
<1>3. j.moved \in UNION {[S -> Answers] : S \in SUBSET Goals}
  BY <1>2 DEF WriterShape, Transactions
<1>4. \A h \in DOMAIN j.moved : /\ j.moved[h].health \in {"live", "ended"}
                                /\ j.moved[h].progress \in SUBSET Readings
  BY <1>3 DEF Answers
<1> HIDE DEF t
<1>5. written \subseteq Goals
  BY <1>3
<1>6. health \in [Goals -> {"live", "ended"}]
  BY <1>2, <1>4 DEF Trees
<1>7. /\ tree' \in Trees /\ tree'.parent = t.parent /\ tree'.live = t.live
      /\ tree'.closed = t.closed /\ tree'.value = t.value
      /\ tree'.health = health
  <2> HIDE DEF health
  <2> QED
    BY <1>1, <1>2, <1>6 DEF Trees
<1>8. progress' \in [Goals -> SUBSET Readings]
  BY <1>1, <1>4 DEF GoalShape
<1>9. /\ writer'[w] = Adrift /\ DOMAIN writer' = Writers
      /\ \A v \in Writers \ {w} : writer'[v] =
           IF writer[v] # Adrift /\ writer[v].stage = "loaded"
                /\ writer[v].read \cap Changed(j) # {}
             THEN [writer[v] EXCEPT !.late = TRUE] ELSE writer[v]
  BY <1>1
<1>10. ASSUME NEW v \in Writers \ {w}, InFlight(v)
       PROVE  /\ WriterShape(writer'[v]) /\ writer'[v] # Adrift
              /\ SameWork(writer'[v], writer[v])
              /\ writer'[v].late <=>
                   \/ writer[v].late
                   \/ /\ writer[v].stage = "loaded"
                      /\ writer[v].read \cap Changed(j) # {}
  <2>1. PICK i \in Transactions : i = writer[v]
    BY <1>10 DEF InFlight, GoalShape, WriterShape
  <2>2. PICK k : k = writer'[v]
    OBVIOUS
  <2>3. WriterShape(i) /\ i # Adrift
    BY <1>10, <2>1 DEF InFlight, GoalShape
  <2>4. k = IF i.stage = "loaded" /\ i.read \cap Changed(j) # {}
              THEN [i EXCEPT !.late = TRUE] ELSE i
    BY <1>9, <2>1, <2>2, <2>3
  <2>5. /\ k \in Transactions /\ SameWork(k, i)
        /\ k.late <=> \/ i.late
                      \/ /\ i.stage = "loaded"
                         /\ i.read \cap Changed(j) # {}
    BY <2>4 DEF Transactions, SameWork
  <2>6. WriterShape(k)
    BY <2>3, <2>5 DEF WriterShape, SameWork
  <2>7. k # Adrift
    <3>1. k.op # "none" /\ Adrift.op = "none"
      BY <2>5 DEF Transactions, Adrift
    <3> QED
      BY <3>1
  <2> QED
    BY <2>1, <2>2, <2>5, <2>6, <2>7
<1>11. \A v \in Writers \ {w} : writer[v] = Adrift => writer'[v] = Adrift
  BY <1>9
<1>12. unseen' \subseteq Goals /\ crossed' \subseteq Goals
       /\ outrun' \subseteq Goals
  <2>1. j.blind \subseteq Goals /\ j.branch \subseteq Goals
    BY <1>2 DEF WriterShape, Transactions
  <2>2. Crossing(w) \subseteq Goals
    <3>1. \A v \in Writers : writer[v] # Adrift => writer[v].goal \in Goals
      BY DEF GoalShape, WriterShape, Transactions
    <3> QED
      BY <1>0, <1>1, <3>1 DEF Crossing
  <2> QED
    BY <1>1, <1>5, <2>1, <2>2 DEF GoalShape
<1>13. stale' \subseteq Goals
  BY <1>1, <1>2, StaleShape
<1>14. GoalShape'
  <2>1. \A v \in Writers : writer'[v] # Adrift => WriterShape(writer'[v])
    BY <1>9, <1>10, <1>11 DEF InFlight
  <2> QED
    BY <1>1, <1>7, <1>8, <1>9, <1>12, <1>13, <2>1 DEF GoalShape, WriterShape
<1>15. \A v \in Writers \ {w} : InFlight(v)' <=> InFlight(v)
  BY <1>10, <1>11 DEF InFlight
<1> HIDE DEF written, health
<1>16. CommitIs(w, j)
  BY <1>1, <1>2, <1>7, <1>9, <1>10, <1>14, <1>15
     DEF CommitIs, t, written, health
<1> QED
  BY <1>0, <1>16

LEMMA RollBackShape ==
  ASSUME GoalShape, NEW w \in Writers, RollBack(w)
  PROVE  /\ UNCHANGED <<rollUp, tree, progress, history>>
         /\ writer'[w] = Adrift
         /\ \A v \in Writers \ {w} : writer'[v] = writer[v]
         /\ GoalShape'
<1>1. /\ writer' = [writer EXCEPT ![w] = Adrift]
      /\ UNCHANGED <<rollUp, tree, progress, history>>
  BY DEF RollBack
<1>2. /\ DOMAIN writer' = Writers /\ writer'[w] = Adrift
      /\ \A v \in Writers \ {w} : writer'[v] = writer[v]
  BY <1>1 DEF GoalShape
<1>3. \A v \in Writers : writer'[v] # Adrift => WriterShape(writer'[v])
  BY <1>2 DEF GoalShape
<1> QED
  BY <1>1, <1>2, <1>3 DEF GoalShape, history, WriterShape

LEMMA GoalsStart == GoalInit => GoalShape
<1> SUFFICES ASSUME GoalInit PROVE GoalShape
  OBVIOUS
<1>1. PICK p \in [Goals -> Goals \cup {NoParent}], v \in Values :
        tree = [parent |-> p, live |-> Goals, closed |-> {},
                value |-> [k \in KeyResults |-> v],
                health |-> [g \in Goals |-> "live"]]
  BY DEF GoalInit
<1>2. tree \in Trees
  BY <1>1 DEF Trees
<1>3. progress = Cascade(tree, Goals, {})
  BY DEF GoalInit
<1>4. Cascade(tree, Goals, {}) \in [Goals -> SUBSET Readings]
  <2> DEFINE all == Parents(tree)
             q == Unringed([g \in Goals |->
                    IF all[g] \in Goals THEN all[g] ELSE NoParent])
             Under(g) == {g} \cup
               IF rollUp THEN {h \in Goals : g \in Ancestors(q, h)} ELSE {}
  <2>1. Cascade(tree, Goals, {}) =
          [g \in Goals |->
             {<<k, tree.value[k]>> : k \in MeasuresOf(Under(g))}
               \cup UNION {progress[c] :
                      c \in IF rollUp THEN {c \in {} : all[c] \in Under(g)}
                            ELSE {}}]
    BY DEF Cascade
  <2>2. ASSUME NEW g \in Goals
        PROVE  {<<k, tree.value[k]>> : k \in MeasuresOf(Under(g))}
                 \subseteq Readings
    <3> HIDE DEF Under
    <3> QED
      BY <1>2 DEF Trees, Readings, MeasuresOf
  <2> HIDE DEF Under, q, all
  <2> QED
    BY <2>1, <2>2
<1> QED
  BY <1>2, <1>3, <1>4, GoalConstants DEF GoalInit, GoalShape, WriterShape

------------------------------------------------------------------------------
(* Loops *)

(* Goals that loops go through. *)
Causes == unseen \cup crossed

(* What an alignment's check still says of the committed rows, unless      *)
(* another alignment has been committed since: the walk from the new       *)
(* parent does not come by the goal, or it leads to a goal that was        *)
(* deleted when the check looked.                                          *)
AlignHolds(j) ==
  j.op = "align" =>
    \/ j.goal \in crossed
    \/ j.to \in j.blind \cup {NoParent}
    \/ \E C \in SUBSET Goals :
         /\ j.to \in C /\ j.goal \notin C
         /\ \A b \in C : tree.parent[b] \in C \cup {NoParent} \cup j.blind

TrapsKnown ==
  \A S \in SUBSET Goals : Trap(tree.parent, S) => S \cap Causes # {}

LoopInv ==
  /\ GoalShape
  /\ TrapsKnown
  /\ \A w \in Writers : InFlight(w) => AlignHolds(writer[w])

(* A goal hung elsewhere makes no trap but through a cause, if the walk    *)
(* from its new place ends, or leaves the rows its check could see.        *)
LEMMA NoNewTrap ==
  ASSUME NEW p, Rises(p, Goals), NEW known \in SUBSET Goals,
         \A S \in SUBSET Goals : Trap(p, S) => S \cap known # {},
         NEW g \in Goals, NEW to \in Goals \cup {NoParent},
         NEW blind \in SUBSET Goals,
         \/ g \in known
         \/ to \in blind \cup {NoParent}
         \/ \E C \in SUBSET Goals :
              /\ to \in C /\ g \notin C
              /\ \A b \in C : p[b] \in C \cup {NoParent} \cup blind,
         NEW S \in SUBSET Goals, Trap([p EXCEPT ![g] = to], S)
  PROVE  S \cap (known \cup blind) # {}
<1> DEFINE q == [p EXCEPT ![g] = to]
<1>0. q[g] = to /\ \A b \in Goals \ {g} : q[b] = p[b]
  BY DEF Rises
<1>1. /\ S # {} /\ \A b \in S : q[b] \in S
      /\ NoParent \notin S
  <2>1. Trap(q, S)
    OBVIOUS
  <2> HIDE DEF q
  <2> QED
    BY <2>1, GoalsAre DEF Trap
<1> HIDE DEF q
<1>2. CASE g \notin S
  <2>1. Trap(p, S)
    BY <1>0, <1>1, <1>2 DEF Trap
  <2> QED
    BY <2>1
<1>3. CASE g \in S /\ \/ g \in known
                      \/ to \in blind \cup {NoParent}
  BY <1>0, <1>1, <1>3
<1>4. ASSUME g \in S, S \cap blind = {},
             NEW C \in SUBSET Goals, to \in C, g \notin C,
             \A b \in C : p[b] \in C \cup {NoParent} \cup blind
      PROVE  S \cap known # {}
  <2>1. to \in S \cap C
    BY <1>0, <1>1, <1>4
  <2>2. ASSUME NEW b \in S \cap C PROVE p[b] \in S \cap C
    BY <1>0, <1>1, <1>4, <2>2
  <2>3. Trap(p, S \cap C) /\ S \cap C \in SUBSET Goals
    BY <2>1, <2>2 DEF Trap
  <2>4. (S \cap C) \cap known # {}
    BY <2>3
  <2> QED
    BY <2>4
<1> QED
  BY <1>2, <1>3, <1>4

LEMMA LoopsStart == GoalInit => LoopInv
<1> SUFFICES ASSUME GoalInit PROVE LoopInv
  OBVIOUS
<1>1. GoalShape
  BY GoalsStart
<1>2. \A g \in Goals : ~OnRing(tree.parent, g)
  BY DEF GoalInit
<1>3. TrapsKnown
  <2> SUFFICES ASSUME NEW S \in SUBSET Goals, Trap(tree.parent, S)
               PROVE  FALSE
    BY DEF TrapsKnown
  <2>1. Rises(tree.parent, Goals)
    BY <1>1, ParentsRise DEF GoalShape
  <2>2. \E g \in S : OnRing(tree.parent, g)
    BY <2>1, GoalsAre, TrapHasRing
  <2> QED
    BY <1>2, <2>2
<1>4. \A w \in Writers : ~InFlight(w)
  BY DEF GoalInit, InFlight
<1> QED
  BY <1>1, <1>3, <1>4 DEF LoopInv

LEMMA LoopBegins ==
  ASSUME LoopInv, NEW w \in Writers, Begun(w)
  PROVE  LoopInv'
<1>2. GoalShape
  BY DEF LoopInv
<1>3. /\ UNCHANGED <<rollUp, tree, progress, history>>
      /\ \A v \in Writers \ {w} : writer'[v] = writer[v]
      /\ GoalShape'
  BY <1>2, BeginShape
<1>4. PICK j : /\ writer'[w] = j /\ WriterShape(j)
               /\ Begins(w, j.op, j.goal, j.to, j.goals, j.krs)
               /\ j.blind = Goals \ tree.live
  BY <1>2, BeginShape
<1> DEFINE g == j.goal  to == j.to
<1>5. TrapsKnown'
  BY <1>3 DEF LoopInv, TrapsKnown, Causes, history
<1>6. ASSUME j.op = "align"
      PROVE  \/ to \in j.blind \cup {NoParent}
             \/ \E C \in SUBSET Goals :
                  /\ to \in C /\ g \notin C
                  /\ \A b \in C :
                       tree.parent[b] \in C \cup {NoParent} \cup j.blind
  <2>1. /\ g \in Goals /\ to \in Goals \cup {NoParent}
        /\ to # NoParent => ~ClosesLoop(g, to)
    BY <1>4, <1>6 DEF Begins
  <2> SUFFICES ASSUME to \in tree.live
               PROVE  \E C \in SUBSET Goals :
                  /\ to \in C /\ g \notin C
                  /\ \A b \in C :
                       tree.parent[b] \in C \cup {NoParent} \cup j.blind
    BY <1>4, <2>1
  <2> DEFINE C == Branch(tree, to)
  <2>2. to \in Goals /\ tree \in Trees
    BY <1>2 DEF GoalShape, Trees
  <2>3. C \in SUBSET Goals /\ to \in C /\ Covers(Parents(tree), C, C)
    BY <2>2, BranchHolds
  <2>4. g \notin C
    BY <2>1, <2>2, GoalsAre DEF ClosesLoop
  <2>5. ASSUME NEW b \in C
        PROVE  tree.parent[b] \in C \cup {NoParent} \cup j.blind
    <3>1. b \in Goals /\ tree.parent[b] \in Goals \cup {NoParent}
      BY <2>2, <2>3 DEF Trees
    <3>2. Parents(tree)[b] = IF tree.parent[b] \in tree.live
                               THEN tree.parent[b] ELSE NoParent
      BY <2>2, <3>1, ParentsRise
    <3>3. Parents(tree)[b] \in C \cup {NoParent}
      BY <2>3 DEF Covers
    <3> HIDE DEF C
    <3> QED
      BY <1>4, <3>1, <3>2, <3>3
  <2> HIDE DEF C
  <2> QED
    BY <2>3, <2>4, <2>5
<1>7. AlignHolds(j)'
  BY <1>3, <1>4, <1>6 DEF AlignHolds
<1>8. \A v \in Writers \ {w} : InFlight(v)' => AlignHolds(writer[v])'
  BY <1>3 DEF LoopInv, AlignHolds, history, InFlight
<1> QED
  BY <1>3, <1>4, <1>5, <1>7, <1>8 DEF LoopInv

LEMMA LoopCommits ==
  ASSUME LoopInv, NEW w \in Writers, Commit(w)
  PROVE  LoopInv'
<1>1. GoalShape
  BY DEF LoopInv
<1>2. PICK j : j = writer[w]
  OBVIOUS
<1>3. /\ j # Adrift /\ WriterShape(j)
      /\ tree'.parent = Seen(j).parent
      /\ unseen' = IF j.op = "align" THEN unseen \cup j.blind ELSE unseen
      /\ crossed' = crossed \cup Crossing(w)
      /\ writer'[w] = Adrift
      /\ \A v \in Writers \ {w} :
           /\ InFlight(v)' <=> InFlight(v)
           /\ InFlight(v) => SameWork(writer'[v], writer[v])
      /\ GoalShape'
  <2>1. CommitIs(w, j)
    BY <1>1, <1>2, CommitShape
  <2> QED
    BY <2>1 DEF CommitIs
<1>4. tree'.parent = IF j.op = "align"
                       THEN [tree.parent EXCEPT ![j.goal] = j.to]
                       ELSE tree.parent
  BY <1>1, <1>3, SeenShape
<1>5. TrapsKnown'
  <2>1. CASE j.op # "align"
    BY <1>3, <1>4, <2>1 DEF LoopInv, TrapsKnown, Causes
  <2>2. CASE j.op = "align"
    <3>1. /\ Rises(tree.parent, Goals) /\ Causes \in SUBSET Goals
          /\ j.goal \in Goals /\ j.to \in Goals \cup {NoParent}
          /\ j.blind \in SUBSET Goals
      <4>1. Rises(tree.parent, Goals)
        BY <1>1, ParentsRise DEF GoalShape
      <4> QED
        BY <1>1, <1>3, <2>2, <4>1
           DEF GoalShape, WriterShape, Transactions, Causes
    <3>2. \/ j.goal \in Causes
          \/ j.to \in j.blind \cup {NoParent}
          \/ \E C \in SUBSET Goals :
               /\ j.to \in C /\ j.goal \notin C
               /\ \A b \in C :
                    tree.parent[b] \in C \cup {NoParent} \cup j.blind
      <4>1. AlignHolds(j)
        BY <1>2, <1>3 DEF LoopInv, InFlight
      <4> QED
        BY <2>2, <4>1 DEF AlignHolds, Causes
    <3>3. \A S \in SUBSET Goals : Trap(tree.parent, S) => S \cap Causes # {}
      BY DEF LoopInv, TrapsKnown
    <3> SUFFICES ASSUME NEW S \in SUBSET Goals, Trap(tree.parent, S)'
                 PROVE  S \cap Causes' # {}
      BY DEF TrapsKnown
    <3>4. Trap([tree.parent EXCEPT ![j.goal] = j.to], S)
      BY <1>4, <2>2 DEF Trap
    <3>5. S \cap (Causes \cup j.blind) # {}
      BY <3>1, <3>2, <3>3, <3>4, NoNewTrap
    <3> QED
      BY <1>3, <2>2, <3>5 DEF Causes
  <2> QED
    BY <2>1, <2>2
<1>6. ASSUME NEW v \in Writers \ {w}, InFlight(v)
      PROVE  AlignHolds(writer[v])'
  <2>1. PICK i : i = writer[v]
    OBVIOUS
  <2>2. PICK k : k = writer'[v]
    OBVIOUS
  <2>3. /\ AlignHolds(i) /\ k.op = i.op /\ k.goal = i.goal
        /\ k.to = i.to /\ k.blind = i.blind
    BY <1>3, <1>6, <2>1, <2>2 DEF LoopInv, SameWork
  <2>4. AlignHolds(k)'
    <3>1. CASE j.op = "align" /\ i.op = "align"
      <4>1. i.goal \in crossed'
        BY <1>2, <1>3, <1>6, <2>1, <3>1 DEF Crossing, InFlight
      <4> QED
        BY <2>3, <4>1 DEF AlignHolds
    <3>2. CASE j.op # "align" /\ i.op = "align"
      BY <1>3, <1>4, <2>3, <3>2 DEF AlignHolds
    <3>3. CASE i.op # "align"
      BY <2>3, <3>3 DEF AlignHolds
    <3> QED
      BY <3>1, <3>2, <3>3
  <2> QED
    BY <2>2, <2>4
<1>7. \A v \in Writers : InFlight(v)' => AlignHolds(writer[v])'
  BY <1>3, <1>6 DEF InFlight
<1> QED
  BY <1>3, <1>5, <1>7 DEF LoopInv

LEMMA LoopsKept == LoopInv /\ [GoalNext]_goalVars => LoopInv'
<1> SUFFICES ASSUME LoopInv, [GoalNext]_goalVars PROVE LoopInv'
  OBVIOUS
<1>1. GoalShape
  BY DEF LoopInv
<1>2. CASE UNCHANGED goalVars
  BY <1>2 DEF LoopInv, goalVars, history, GoalShape, TrapsKnown, Causes,
              InFlight, AlignHolds, WriterShape
<1>3. ASSUME NEW w \in Writers, Load(w) PROVE LoopInv'
  <2>1. /\ UNCHANGED <<rollUp, tree, progress, history>>
        /\ \A v \in Writers \ {w} : writer'[v] = writer[v]
        /\ InFlight(w) /\ GoalShape'
    BY <1>1, <1>3, LoadShape
  <2>2. PICK j : /\ writer'[w] = j /\ j.op = writer[w].op
                 /\ j.goal = writer[w].goal /\ j.to = writer[w].to
                 /\ j.blind = writer[w].blind
    BY <1>1, <1>3, LoadShape
  <2>3. AlignHolds(j)'
    BY <2>1, <2>2 DEF LoopInv, AlignHolds, history
  <2>4. TrapsKnown'
    BY <2>1 DEF LoopInv, TrapsKnown, Causes, history
  <2>5. \A v \in Writers \ {w} : InFlight(v)' => AlignHolds(writer[v])'
    BY <2>1 DEF LoopInv, AlignHolds, history, InFlight
  <2> QED
    BY <2>1, <2>2, <2>3, <2>4, <2>5 DEF LoopInv
<1>4. ASSUME NEW w \in Writers, RollBack(w) PROVE LoopInv'
  <2>1. /\ UNCHANGED <<rollUp, tree, progress, history>>
        /\ writer'[w] = Adrift /\ GoalShape'
        /\ \A v \in Writers \ {w} : writer'[v] = writer[v]
    BY <1>1, <1>4, RollBackShape
  <2> QED
    BY <2>1 DEF LoopInv, TrapsKnown, Causes, AlignHolds, InFlight, history
<1> QED
  BY <1>2, <1>3, <1>4, GoalSteps, LoopBegins, LoopCommits

(* A ring of the goals that are there is a trap of the committed parents,  *)
(* deleted goals or not.                                                   *)
LEMMA RingsKnown == LoopInv => LoopsExplained
<1> SUFFICES ASSUME LoopInv, NEW g \in tree.live, OnRing(Parents(tree), g)
             PROVE  Ancestors(Parents(tree), g) \cap (unseen \cup crossed) # {}
  BY DEF LoopsExplained
<1>1. tree \in Trees /\ g \in Goals
  BY DEF LoopInv, GoalShape, Trees
<1> DEFINE S == Ancestors(Parents(tree), g)
<1>2. S \in SUBSET Goals /\ Trap(Parents(tree), S)
  BY <1>1, ParentsRise, RingIsTrap
<1>3. Trap(tree.parent, S)
  <2> HIDE DEF S
  <2>1. \A b \in S : Parents(tree)[b] = tree.parent[b]
    BY <1>1, <1>2, ParentsRise, GoalsAre DEF Trap
  <2> QED
    BY <1>2, <2>1 DEF Trap
<1>4. S \cap Causes # {}
  <2> HIDE DEF S
  <2> QED
    BY <1>2, <1>3 DEF LoopInv, TrapsKnown
<1> QED
  BY <1>4 DEF Causes

(* The check before a re-alignment keeps loops out for good, but for the   *)
(* two windows that LoopsExplained names: the goal alignments never go     *)
(* round but through one of those (wouldCloseAlignmentLoop,                *)
(* packages/core/src/actions/goals.ts).                                    *)
THEOREM LoopsHaveACause == GoalSpec => []LoopsExplained
<1>1. GoalInit => LoopInv
  BY LoopsStart
<1>2. LoopInv /\ [GoalNext]_goalVars => LoopInv'
  BY LoopsKept
<1>3. LoopInv => LoopsExplained
  BY RingsKnown
<1> QED
  BY <1>1, <1>2, <1>3, PTL DEF GoalSpec

------------------------------------------------------------------------------
(* Two ways up *)

(* Fewer parents, fewer goals above. *)
LEMMA AncestorsShrink ==
  ASSUME NEW G, NEW p, Rises(p, G), NEW q, Rises(q, G),
         \A x \in G : q[x] \in {p[x], NoParent}, NEW g \in G
  PROVE  Ancestors(q, g) \subseteq Ancestors(p, g)
<1>1. /\ Ancestors(p, g) \subseteq G
      /\ Covers(p, Ancestors(p, g), Ancestors(p, g) \cup {g})
  BY AncestorsHold
<1>2. Covers(q, Ancestors(p, g), Ancestors(p, g) \cup {g})
  BY <1>1 DEF Covers
<1> QED
  BY <1>1, <1>2, AncestorsLeast

(* What is above a goal is decided among the goals that the way up stays   *)
(* in.                                                                     *)
LEMMA AncestorsAgree ==
  ASSUME NEW G, NEW p, Rises(p, G), NEW H, NEW q, Rises(q, H),
         NEW S, S \subseteq G, S \subseteq H, Covers(p, S, S),
         \A x \in S : q[x] = p[x]
  PROVE  \A x \in S : /\ Ancestors(p, x) = Ancestors(q, x)
                      /\ Ancestors(p, x) \subseteq S
<1> SUFFICES ASSUME NEW x \in S
             PROVE  /\ Ancestors(p, x) = Ancestors(q, x)
                    /\ Ancestors(p, x) \subseteq S
  OBVIOUS
<1>1. x \in G /\ x \in H /\ S \in SUBSET G /\ S \in SUBSET H
  OBVIOUS
<1>2. Covers(p, S, S \cup {x}) /\ Covers(q, S, S \cup {x})
  BY DEF Covers
<1>3. Ancestors(p, x) \subseteq S
  BY <1>1, <1>2, AncestorsLeast
<1>4. Ancestors(q, x) \subseteq S
  BY <1>1, <1>2, AncestorsLeast
<1>5. Ancestors(q, x) \subseteq Ancestors(p, x)
  <2>1. Covers(p, Ancestors(p, x), Ancestors(p, x) \cup {x})
    BY <1>1, AncestorsHold
  <2>2. Covers(q, Ancestors(p, x), Ancestors(p, x) \cup {x})
    BY <1>3, <2>1 DEF Covers
  <2> QED
    BY <1>1, <1>3, <2>2, AncestorsLeast
<1>6. Ancestors(p, x) \subseteq Ancestors(q, x)
  <2>1. Covers(q, Ancestors(q, x), Ancestors(q, x) \cup {x})
    BY <1>1, AncestorsHold
  <2>2. Covers(p, Ancestors(q, x), Ancestors(q, x) \cup {x})
    BY <1>4, <2>1 DEF Covers
  <2> QED
    BY <1>1, <1>4, <2>2, AncestorsLeast
<1> QED
  BY <1>3, <1>5, <1>6

LEMMA UnringedShape ==
  ASSUME NEW G, NEW p, Rises(p, G)
  PROVE  /\ Rises(Unringed(p), G)
         /\ \A x \in G :
              /\ Unringed(p)[x] \in {p[x], NoParent}
              /\ Unringed(p)[x] =
                   IF OnRing(p, x) /\ \A h \in Ancestors(p, x) : h <= x
                     THEN NoParent ELSE p[x]
BY DEF Rises, Unringed

LEMMA UnringedAgree ==
  ASSUME NEW G, NEW p, Rises(p, G), NEW H, NEW q, Rises(q, H),
         NEW S, S \subseteq G, S \subseteq H, Covers(p, S, S),
         \A x \in S : q[x] = p[x]
  PROVE  \A x \in S :
           /\ Unringed(p)[x] = Unringed(q)[x]
           /\ Ancestors(Unringed(p), x) = Ancestors(Unringed(q), x)
           /\ Ancestors(Unringed(p), x) \subseteq S
<1>1. \A x \in S : Ancestors(p, x) = Ancestors(q, x)
  BY AncestorsAgree
<1>2. Rises(Unringed(p), G) /\ Rises(Unringed(q), H)
  BY UnringedShape
<1>3. \A x \in S : Unringed(p)[x] = IF OnRing(p, x)
                     /\ \A h \in Ancestors(p, x) : h <= x
                       THEN NoParent ELSE p[x]
  BY UnringedShape
<1>4. \A x \in S : Unringed(q)[x] = IF OnRing(q, x)
                     /\ \A h \in Ancestors(q, x) : h <= x
                       THEN NoParent ELSE q[x]
  BY UnringedShape
<1>5. \A x \in S : Unringed(q)[x] = Unringed(p)[x]
  BY <1>1, <1>3, <1>4 DEF OnRing
<1>6. Covers(Unringed(p), S, S)
  BY <1>3 DEF Covers
<1>7. \A x \in S :
        /\ Ancestors(Unringed(p), x) = Ancestors(Unringed(q), x)
        /\ Ancestors(Unringed(p), x) \subseteq S
  BY <1>2, <1>5, <1>6, AncestorsAgree
<1> QED
  BY <1>5, <1>7

(* There is one way up: of two goals met on it one is above the other. *)
LEMMA OneWayUp ==
  ASSUME NEW G, NEW p, Rises(p, G), NEW h \in G,
         NEW c \in Ancestors(p, h) \cup {h}, NEW g \in Ancestors(p, h)
  PROVE  c = g \/ c \in Ancestors(p, g) \/ g \in Ancestors(p, c)
<1> DEFINE T == {x \in Ancestors(p, h) :
                   c = x \/ c \in Ancestors(p, x) \/ x \in Ancestors(p, c)}
<1>1. /\ Ancestors(p, h) \subseteq G
      /\ Covers(p, Ancestors(p, h), Ancestors(p, h) \cup {h})
  BY AncestorsHold
<1>2. c \in G
  BY <1>1
<1>3. Covers(p, Ancestors(p, c), Ancestors(p, c) \cup {c})
  BY <1>2, AncestorsHold
<1>4. ASSUME NEW x \in T \cup {h}, p[x] # NoParent
      PROVE  p[x] \in T
  <2>1. x \in G /\ p[x] \in Ancestors(p, h)
    BY <1>1, <1>4 DEF Covers
  <2>2. CASE x = c \/ x \in Ancestors(p, c)
    <3>1. p[x] \in Ancestors(p, c)
      BY <1>3, <1>4, <2>2 DEF Covers
    <3> QED
      BY <2>1, <3>1
  <2>3. CASE c \in Ancestors(p, x)
    <3>1. Ancestors(p, x) = {p[x]} \cup Ancestors(p, p[x])
      BY <1>4, <2>1, AncestorsStep
    <3> QED
      BY <2>1, <2>3, <3>1
  <2> QED
    BY <2>2, <2>3
<1>5. Covers(p, T, T \cup {h})
  BY <1>4 DEF Covers
<1>6. T \in SUBSET G
  BY <1>1
<1>7. Ancestors(p, h) \subseteq T
  <2> HIDE DEF T
  <2> QED
    BY <1>5, <1>6, AncestorsLeast
<1> QED
  BY <1>7

(* A way up to g that another tree has too is a way up to g there. *)
LEMMA WayStays ==
  ASSUME NEW G, NEW p, Rises(p, G), NEW q, Rises(q, G), NEW g \in G,
         \A x \in G : g \in Ancestors(p, x) => q[x] = p[x],
         NEW x \in G, g \in Ancestors(p, x)
  PROVE  g \in Ancestors(q, x)
<1> SUFFICES ASSUME g \notin Ancestors(q, x) PROVE FALSE
  OBVIOUS
<1> DEFINE T == {y \in Ancestors(q, x) : g \in Ancestors(p, y)}
<1>1. /\ Ancestors(q, x) \subseteq G
      /\ Covers(q, Ancestors(q, x), Ancestors(q, x) \cup {x})
  BY AncestorsHold
<1>2. ASSUME NEW y \in T \cup {x}
      PROVE  q[y] \in T /\ p[y] \in T
  <2>1. y \in G /\ g \in Ancestors(p, y)
    BY <1>1
  <2>2. q[y] = p[y]
    BY <2>1
  <2>3. p[y] # NoParent /\ Ancestors(p, y) = {p[y]} \cup Ancestors(p, p[y])
    BY <2>1, AncestorsStep
  <2>4. q[y] \in Ancestors(q, x)
    BY <1>1, <2>2, <2>3 DEF Covers
  <2> QED
    BY <2>1, <2>2, <2>3, <2>4
<1>3. Covers(p, T, T \cup {x})
  BY <1>2 DEF Covers
<1>4. T \in SUBSET G
  BY <1>1
<1>5. Ancestors(p, x) \subseteq T
  <2> HIDE DEF T
  <2> QED
    BY <1>3, <1>4, AncestorsLeast
<1> QED
  BY <1>5

(* Two trees that agree on every way up to g break its rings alike. *)
LEMMA RingStays ==
  ASSUME NEW G, NEW p, Rises(p, G), NEW q, Rises(q, G), NEW g \in G,
         \A x \in G : g \in Ancestors(p, x) => q[x] = p[x],
         NEW x \in G, g \in Ancestors(p, x), OnRing(p, x)
  PROVE  Ancestors(q, x) = Ancestors(p, x)
<1> DEFINE R == Ancestors(p, x)
<1>1. R \subseteq G /\ Covers(p, R, R \cup {x}) /\ x \in R
  BY AncestorsHold DEF OnRing
<1>2. \A y \in R : x \in Ancestors(p, y)
  BY RingGoesRound
<1>3. \A y \in R : g \in Ancestors(p, y)
  <2>1. ASSUME NEW y \in R PROVE g \in Ancestors(p, y)
    <3>1. y \in G /\ x \in Ancestors(p, y)
      BY <1>1, <1>2
    <3>2. Ancestors(p, x) \subseteq Ancestors(p, y)
      BY <3>1, AncestorsTransitive
    <3> QED
      BY <3>2
  <2> QED
    BY <2>1
<1>4. \A y \in R : q[y] = p[y]
  BY <1>1, <1>3
<1>5. Covers(p, R, R)
  BY <1>1 DEF Covers
<1> HIDE DEF R
<1>6. Ancestors(p, x) = Ancestors(q, x)
  BY <1>1, <1>4, <1>5, AncestorsAgree
<1> QED
  BY <1>6

LEMMA UnringedStays ==
  ASSUME NEW G, NEW p, Rises(p, G), NEW q, Rises(q, G), NEW g \in G,
         \A x \in G : g \in Ancestors(p, x) \/ g \in Ancestors(q, x)
                        => q[x] = p[x],
         NEW h \in G, g \in Ancestors(Unringed(p), h)
  PROVE  g \in Ancestors(Unringed(q), h)
<1>1. /\ Rises(Unringed(p), G) /\ Rises(Unringed(q), G)
      /\ \A x \in G : Unringed(p)[x] \in {p[x], NoParent}
  BY UnringedShape
<1>2. ASSUME NEW x \in G, g \in Ancestors(Unringed(p), x)
      PROVE  Unringed(q)[x] = Unringed(p)[x]
  <2>1. g \in Ancestors(p, x)
    BY <1>1, <1>2, AncestorsShrink
  <2>2. q[x] = p[x]
    BY <2>1
  <2>3. g \in Ancestors(q, x)
    BY <2>1, WayStays
  <2>4. OnRing(p, x) \/ OnRing(q, x) => Ancestors(q, x) = Ancestors(p, x)
    BY <2>1, <2>3, RingStays
  <2>5. /\ Unringed(p)[x] = IF OnRing(p, x)
                                 /\ \A y \in Ancestors(p, x) : y <= x
                              THEN NoParent ELSE p[x]
        /\ Unringed(q)[x] = IF OnRing(q, x)
                                 /\ \A y \in Ancestors(q, x) : y <= x
                              THEN NoParent ELSE q[x]
    BY UnringedShape
  <2> QED
    BY <2>2, <2>4, <2>5 DEF OnRing
<1> QED
  BY <1>1, <1>2, WayStays

------------------------------------------------------------------------------
(* What a goal adds up to *)

(* The goals whose key results count for g, r being the roll-up, P the     *)
(* parents and S the goals looked at.                                      *)
Under(r, P, S, g) ==
  {g} \cup IF r THEN {h \in S : g \in Ancestors(Unringed(P), h)} ELSE {}

Own(value, S) == {<<k, value[k]>> : k \in MeasuresOf(S)}

(* Cascade with everything it depends on as a parameter. *)
Summed(r, prog, P, value, S, C) ==
  LET p == Unringed([g \in S |-> IF P[g] \in S THEN P[g] ELSE NoParent])
      U(g) == {g} \cup IF r THEN {h \in S : g \in Ancestors(p, h)} ELSE {}
      B(g) == IF r THEN {c \in C : P[c] \in U(g)} ELSE {}
  IN  [g \in S |-> {<<k, value[k]>> : k \in MeasuresOf(U(g))}
                     \cup UNION {prog[c] : c \in B(g)}]

LEMMA CascadeSums ==
  ASSUME NEW t, NEW S, NEW C
  PROVE  Cascade(t, S, C) =
           Summed(rollUp, progress, Parents(t), t.value, S, C)
BY DEF Cascade, Summed

(* Among goals that have their parents with them, the rings broken there   *)
(* are the rings broken in the whole tree.                                 *)
LEMMA SummedIs ==
  ASSUME NEW P, Rises(P, Goals), NEW S \in SUBSET Goals, Covers(P, S, S),
         NEW r, NEW prog, NEW value, NEW C, NEW g \in S
  PROVE  Summed(r, prog, P, value, S, C)[g] =
           Own(value, Under(r, P, S, g))
             \cup UNION {prog[c] : c \in IF r
                           THEN {c \in C : P[c] \in Under(r, P, S, g)} ELSE {}}
<1> DEFINE q == [x \in S |-> IF P[x] \in S THEN P[x] ELSE NoParent]
<1>1. /\ Rises(q, S) /\ \A x \in S : q[x] = P[x]
  BY GoalsAre DEF Rises, Covers
<1> HIDE DEF q
<1>2. \A x \in S : Ancestors(Unringed(P), x) = Ancestors(Unringed(q), x)
  BY <1>1, UnringedAgree
<1> DEFINE U(x) ==
             {x} \cup IF r THEN {h \in S : x \in Ancestors(Unringed(q), h)}
                      ELSE {}
<1>3. U(g) = Under(r, P, S, g)
  BY <1>2 DEF Under
<1>4. Summed(r, prog, P, value, S, C)[g] =
        {<<k, value[k]>> : k \in MeasuresOf(U(g))}
          \cup UNION {prog[c] : c \in IF r THEN {c \in C : P[c] \in U(g)}
                                      ELSE {}}
  BY DEF Summed, q
<1> HIDE DEF U
<1> QED
  BY <1>3, <1>4 DEF Own

(* What counts for a goal of a branch: what counts for it on the branch,   *)
(* and what counts for the siblings that hang there.                       *)
LEMMA UnderSplits ==
  ASSUME NEW P, Rises(P, Goals), NEW L \in SUBSET Goals, Covers(P, L, L),
         NEW B \in SUBSET L, Covers(P, B, B), NEW g \in B, NEW h
  PROVE  h \in Under(TRUE, P, L, g) <=>
           \/ h \in Under(TRUE, P, B, g)
           \/ \E c \in L \ B : /\ P[c] \in B
                               /\ P[c] \in Under(TRUE, P, B, g)
                               /\ h \in Under(TRUE, P, L, c)
<1> DEFINE U == Unringed(P)
<1>1. /\ Rises(U, Goals)
      /\ \A x \in Goals : U[x] \in {P[x], NoParent}
      /\ \A x \in Goals : U[x] = IF OnRing(P, x)
                                     /\ \A y \in Ancestors(P, x) : y <= x
                                   THEN NoParent ELSE P[x]
  BY UnringedShape
<1>2. \A x \in B : /\ Ancestors(U, x) \subseteq B
                   /\ Ancestors(P, x) \subseteq B
  <2>1. B \in SUBSET Goals /\ \A x \in B : P[x] = P[x]
    OBVIOUS
  <2>2. Covers(U, B, B)
    BY <1>1, <2>1 DEF Covers
  <2> HIDE DEF U
  <2>3. \A x \in B : Ancestors(U, x) \subseteq B
    BY <1>1, <2>1, <2>2, AncestorsAgree
  <2>4. \A x \in B : Ancestors(P, x) \subseteq B
    BY <2>1, AncestorsAgree
  <2> QED
    BY <2>3, <2>4
<1>3. ASSUME NEW c \in L \ B, P[c] \in B
      PROVE  U[c] = P[c] /\ Ancestors(U, c) = {P[c]} \cup Ancestors(U, P[c])
  <2>1. P[c] # NoParent /\ c \in Goals
    BY <1>3, GoalsAre
  <2>2. Ancestors(P, c) = {P[c]} \cup Ancestors(P, P[c])
    BY <2>1, AncestorsStep
  <2>3. ~OnRing(P, c)
    BY <1>2, <1>3, <2>2 DEF OnRing
  <2>4. U[c] = P[c]
    BY <1>1, <2>1, <2>3
  <2> HIDE DEF U
  <2> QED
    BY <1>1, <2>1, <2>4, AncestorsStep
<1>4. Under(TRUE, P, B, g) = {g} \cup {x \in B : g \in Ancestors(U, x)}
  BY DEF Under
<1>5. \A c : Under(TRUE, P, L, c) = {c} \cup {x \in L : c \in Ancestors(U, x)}
  BY DEF Under
<1> HIDE DEF U
<1>6. ASSUME NEW c \in L \ B, P[c] \in B, P[c] \in Under(TRUE, P, B, g),
             h \in Under(TRUE, P, L, c)
      PROVE  h \in Under(TRUE, P, L, g)
  <2>1. g \in Ancestors(U, c)
    BY <1>3, <1>4, <1>6
  <2>2. CASE h = c
    BY <1>5, <2>1, <2>2
  <2>3. CASE h \in L /\ c \in Ancestors(U, h)
    <3>1. Ancestors(U, c) \subseteq Ancestors(U, h)
      BY <1>1, <2>3, AncestorsTransitive
    <3> QED
      BY <1>5, <2>1, <2>3, <3>1
  <2> QED
    BY <1>5, <1>6, <2>2, <2>3
<1>7. ASSUME h \in L \ B, g \in Ancestors(U, h)
      PROVE  \E c \in L \ B : /\ P[c] \in B
                              /\ P[c] \in Under(TRUE, P, B, g)
                              /\ h \in Under(TRUE, P, L, c)
  <2> DEFINE A == Ancestors(U, h) \cup {h}  T == Ancestors(U, h) \ B
  <2>1. /\ h \in Goals /\ Ancestors(U, h) \subseteq Goals
        /\ Covers(U, Ancestors(U, h), A)
    BY <1>1, <1>7, AncestorsHold
  <2>2. PICK c \in T \cup {h} : U[c] \in B
    <3> SUFFICES ASSUME \A c \in T \cup {h} : U[c] \notin B
                 PROVE  FALSE
      OBVIOUS
    <3>1. Covers(U, T, T \cup {h})
      BY <2>1 DEF Covers
    <3>2. T \in SUBSET Goals
      BY <2>1
    <3>3. Ancestors(U, h) \subseteq T
      <4> HIDE DEF T
      <4> QED
        BY <1>1, <2>1, <3>1, <3>2, AncestorsLeast
    <3> QED
      BY <1>7, <3>3
  <2>3. c \in Goals /\ c \notin B /\ U[c] = P[c] /\ P[c] \in B
    BY <1>1, <1>7, <2>1, <2>2, GoalsAre
  <2>4. c = g \/ c \in Ancestors(U, g) \/ g \in Ancestors(U, c)
    BY <1>1, <1>7, <2>1, <2>2, OneWayUp
  <2>5. g \in Ancestors(U, c)
    BY <1>2, <2>3, <2>4
  <2>6. c \in L
    <3>1. Covers(U, L, L \cup {h})
      BY <1>1, <1>7 DEF Covers
    <3>2. Ancestors(U, h) \subseteq L
      BY <1>1, <2>1, <3>1, AncestorsLeast
    <3> QED
      BY <1>7, <2>2, <3>2
  <2>7. Ancestors(U, c) = {P[c]} \cup Ancestors(U, P[c])
    BY <1>3, <2>3, <2>6
  <2>8. P[c] \in Under(TRUE, P, B, g)
    BY <1>4, <2>3, <2>5, <2>7
  <2>9. h \in Under(TRUE, P, L, c)
    BY <1>5, <1>7, <2>2
  <2> QED
    BY <2>3, <2>6, <2>8, <2>9
<1>8. h \in Under(TRUE, P, B, g) => h \in Under(TRUE, P, L, g)
  BY <1>4, <1>5
<1>9. h \in Under(TRUE, P, L, g) =>
        h \in Under(TRUE, P, B, g) \/ (h \in L \ B /\ g \in Ancestors(U, h))
  BY <1>4, <1>5
<1> QED
  BY <1>6, <1>7, <1>8, <1>9

(* The branch is enough: with its siblings in order, what it adds up to is *)
(* what the whole tree would.                                              *)
LEMMA BranchIsEnough ==
  ASSUME NEW P, Rises(P, Goals), NEW L \in SUBSET Goals, Covers(P, L, L),
         NEW B \in SUBSET L, Covers(P, B, B), NEW g \in B,
         NEW r \in BOOLEAN, NEW prog, NEW value,
         NEW C, C = {c \in L \ B : P[c] \in B},
         \A c \in C : r /\ P[c] \in Under(r, P, B, g)
                        => prog[c] = Own(value, Under(r, P, L, c))
  PROVE  Summed(r, prog, P, value, B, C)[g] = Own(value, Under(r, P, L, g))
<1>1. Summed(r, prog, P, value, B, C)[g] =
        Own(value, Under(r, P, B, g))
          \cup UNION {prog[c] : c \in IF r
                        THEN {c \in C : P[c] \in Under(r, P, B, g)} ELSE {}}
  BY SummedIs
<1>2. CASE ~r
  <2>1. Under(r, P, B, g) = {g} /\ Under(r, P, L, g) = {g}
    BY <1>2 DEF Under
  <2> QED
    BY <1>1, <1>2, <2>1
<1>3. CASE r
  <2> DEFINE D == {c \in C : P[c] \in Under(r, P, B, g)}
  <2>0. r = TRUE
    BY <1>3
  <2>1. \A c \in D : prog[c] = Own(value, Under(r, P, L, c))
    BY <1>3
  <2>2. Summed(r, prog, P, value, B, C)[g] =
          Own(value, Under(r, P, B, g)) \cup UNION {prog[c] : c \in D}
    BY <1>1, <2>0
  <2>3. \A h : h \in Under(r, P, L, g) <=>
                 \/ h \in Under(r, P, B, g)
                 \/ \E c \in D : h \in Under(r, P, L, c)
    <3>1. \A h : h \in Under(TRUE, P, L, g) <=>
           \/ h \in Under(TRUE, P, B, g)
           \/ \E c \in L \ B : /\ P[c] \in B
                               /\ P[c] \in Under(TRUE, P, B, g)
                               /\ h \in Under(TRUE, P, L, c)
      BY UnderSplits
    <3> QED
      BY <2>0, <3>1
  <2> HIDE DEF D
  <2>4. UNION {prog[c] : c \in D} =
          UNION {Own(value, Under(r, P, L, c)) : c \in D}
    BY <2>1
  <2>5. Own(value, Under(r, P, L, g)) =
          Own(value, Under(r, P, B, g))
            \cup UNION {Own(value, Under(r, P, L, c)) : c \in D}
    BY <2>3 DEF Own, MeasuresOf
  <2> QED
    BY <2>2, <2>4, <2>5
<1> QED
  BY <1>2, <1>3

(* The whole tree, seen from a goal that the change of another one is not  *)
(* below, is what it was.                                                  *)
LEMMA WorthStays ==
  ASSUME NEW P, Rises(P, Goals), NEW Q, Rises(Q, Goals),
         NEW L \in SUBSET Goals, NEW M \in SUBSET Goals,
         NEW g \in Goals, NEW x \in Goals, g # x,
         \A h \in Goals \ {x} : h \in L <=> h \in M,
         NEW r \in BOOLEAN,
         r => /\ g \notin Ancestors(P, x) /\ g \notin Ancestors(Q, x)
              /\ \A h \in Goals :
                   g \in Ancestors(P, h) \/ g \in Ancestors(Q, h)
                     => Q[h] = P[h],
         NEW v, NEW u, \A k \in KeyResults : OwnerOf[k] # x => u[k] = v[k]
  PROVE  Own(v, Under(r, P, L, g)) = Own(u, Under(r, Q, M, g))
<1>1. Under(r, P, L, g) = Under(r, Q, M, g) /\ x \notin Under(r, P, L, g)
  <2>1. CASE ~r
    BY <2>1 DEF Under
  <2>2. CASE r
    <3>1. \A h \in Goals : g \in Ancestors(Unringed(P), h)
                             => g \in Ancestors(Unringed(Q), h)
      BY <2>2, UnringedStays
    <3>2. \A h \in Goals : g \in Ancestors(Unringed(Q), h)
                             => g \in Ancestors(Unringed(P), h)
      BY <2>2, UnringedStays
    <3>3. g \notin Ancestors(Unringed(P), x)
      <4>1. Ancestors(Unringed(P), x) \subseteq Ancestors(P, x)
        BY UnringedShape, AncestorsShrink
      <4> QED
        BY <2>2, <4>1
    <3> QED
      BY <2>2, <3>1, <3>2, <3>3 DEF Under
  <2> QED
    BY <2>1, <2>2
<1>2. \A k \in MeasuresOf(Under(r, P, L, g)) : u[k] = v[k]
  BY <1>1 DEF MeasuresOf
<1> QED
  BY <1>1, <1>2 DEF Own

(* What a goal is worth in rows t: what the whole of them adds up to. *)
Worth(r, t, g) == Own(t.value, Under(r, Parents(t), t.live, g))

LEMMA LiveCovered ==
  ASSUME NEW t \in Trees
  PROVE  Rises(Parents(t), Goals) /\ Covers(Parents(t), t.live, t.live)
BY ParentsRise DEF Covers, Trees

LEMMA WholeIs ==
  ASSUME NEW t \in Trees, NEW g \in t.live, NEW r, NEW prog
  PROVE  Summed(r, prog, Parents(t), t.value, t.live, {})[g] = Worth(r, t, g)
<1>1. t.live \in SUBSET Goals
  BY DEF Trees
<1>2. {c \in {} : Parents(t)[c] \in Under(r, Parents(t), t.live, g)} = {}
  OBVIOUS
<1>3. Summed(r, prog, Parents(t), t.value, t.live, {})[g] =
        Own(t.value, Under(r, Parents(t), t.live, g)) \cup UNION {prog[c] :
          c \in IF r
            THEN {c \in {} : Parents(t)[c] \in Under(r, Parents(t), t.live, g)}
            ELSE {}}
  BY <1>1, LiveCovered, SummedIs
<1>4. Summed(r, prog, Parents(t), t.value, t.live, {})[g] =
        Own(t.value, Under(r, Parents(t), t.live, g))
          \cup UNION {prog[c] : c \in {}}
  BY <1>2, <1>3
<1> QED
  BY <1>4 DEF Worth, Own

(* The siblings of a branch are the goals that hang on it. *)
LEMMA SiblingsHang ==
  ASSUME NEW t \in Trees, NEW B \in SUBSET t.live
  PROVE  /\ Siblings(t, B) = {c \in t.live \ B : Parents(t)[c] \in B}
         /\ \A c \in Siblings(t, B) : t.parent[c] = Parents(t)[c]
<1>1. t.live \in SUBSET Goals
  BY DEF Trees
<1>2. \A c \in t.live : /\ t.parent[c] \in B <=> Parents(t)[c] \in B
                        /\ t.parent[c] \in B => t.parent[c] = Parents(t)[c]
  BY <1>1, ParentsRise, GoalsAre
<1> QED
  BY <1>2 DEF Siblings

LEMMA BranchLives ==
  ASSUME NEW t \in Trees, NEW g \in t.live
  PROVE  /\ Branch(t, g) \in SUBSET t.live
         /\ Covers(Parents(t), Branch(t, g), Branch(t, g))
<1>1. g \in Goals /\ t.live \in SUBSET Goals
  BY DEF Trees
<1>2. Covers(Parents(t), t.live, t.live \cup {g})
  BY LiveCovered DEF Covers
<1>3. Ancestors(Parents(t), g) \subseteq t.live
  BY <1>1, <1>2, LiveCovered, AncestorsLeast
<1> QED
  BY <1>1, <1>3, BranchHolds DEF Branch

(* Two sets of rows that differ at one goal. *)
Alike(t, u, x) ==
  /\ \A h \in Goals \ {x} : /\ t.parent[h] = u.parent[h]
                            /\ h \in t.live <=> h \in u.live
                            /\ h \in t.closed <=> h \in u.closed
  /\ \A k \in KeyResults : OwnerOf[k] # x => t.value[k] = u.value[k]

LEMMA WaysAlike ==
  ASSUME NEW t \in Trees, NEW u \in Trees, NEW x \in Goals, Alike(t, u, x),
         NEW g \in Goals, g # x, g \notin Ancestors(Parents(t), x),
         NEW h \in Goals, g \in Ancestors(Parents(t), h)
  PROVE  Parents(u)[h] = Parents(t)[h]
<1>1. Rises(Parents(t), Goals)
  BY ParentsRise
<1> DEFINE y == Parents(t)[h]
<1>2. y # NoParent /\ Ancestors(Parents(t), h) = {y} \cup Ancestors(Parents(t), y)
  BY <1>1, AncestorsStep
<1>3. y # x /\ h # x
  BY <1>2
<1>4. y = t.parent[h] /\ y \in t.live /\ y \in Goals
  BY <1>2, ParentsRise DEF Trees
<1>5. y = u.parent[h] /\ y \in u.live
  BY <1>3, <1>4 DEF Alike
<1> QED
  BY <1>5, ParentsRise

LEMMA WorthAlike ==
  ASSUME NEW t \in Trees, NEW u \in Trees, NEW x \in Goals, Alike(t, u, x),
         NEW g \in Goals, g # x, NEW r \in BOOLEAN,
         r => /\ g \notin Ancestors(Parents(t), x)
              /\ g \notin Ancestors(Parents(u), x)
  PROVE  Worth(r, t, g) = Worth(r, u, g)
<1>1. /\ Rises(Parents(t), Goals) /\ Rises(Parents(u), Goals)
      /\ t.live \in SUBSET Goals /\ u.live \in SUBSET Goals
  BY ParentsRise DEF Trees
<1>2. Alike(u, t, x)
  BY DEF Alike
<1>3. ASSUME r, NEW h \in Goals,
             \/ g \in Ancestors(Parents(t), h)
             \/ g \in Ancestors(Parents(u), h)
      PROVE  Parents(u)[h] = Parents(t)[h]
  <2>1. CASE g \in Ancestors(Parents(t), h)
    BY <1>3, <2>1, WaysAlike
  <2>2. CASE g \in Ancestors(Parents(u), h)
    <3>1. Parents(t)[h] = Parents(u)[h]
      BY <1>2, <1>3, <2>2, WaysAlike
    <3> QED
      BY <3>1
  <2> QED
    BY <1>3, <2>1, <2>2
<1>4. /\ \A h \in Goals \ {x} : h \in t.live <=> h \in u.live
      /\ \A k \in KeyResults : OwnerOf[k] # x => u.value[k] = t.value[k]
  BY DEF Alike
<1>5. r => /\ g \notin Ancestors(Parents(t), x)
           /\ g \notin Ancestors(Parents(u), x)
           /\ \A h \in Goals :
                g \in Ancestors(Parents(t), h) \/ g \in Ancestors(Parents(u), h)
                  => Parents(u)[h] = Parents(t)[h]
  BY <1>3
<1> DEFINE P == Parents(t)  Q == Parents(u)  L == t.live  M == u.live
           a == t.value  b == u.value
<1>6. Own(a, Under(r, P, L, g)) = Own(b, Under(r, Q, M, g))
  <2>1. /\ Rises(P, Goals) /\ Rises(Q, Goals)
        /\ L \in SUBSET Goals /\ M \in SUBSET Goals
        /\ \A h \in Goals \ {x} : h \in L <=> h \in M
        /\ \A k \in KeyResults : OwnerOf[k] # x => b[k] = a[k]
        /\ r => /\ g \notin Ancestors(P, x) /\ g \notin Ancestors(Q, x)
                /\ \A h \in Goals :
                     g \in Ancestors(P, h) \/ g \in Ancestors(Q, h)
                       => Q[h] = P[h]
    BY <1>1, <1>4, <1>5
  <2> HIDE DEF P, Q, L, M, a, b
  <2> QED
    BY <2>1, WorthStays
<1> QED
  BY <1>6 DEF Worth

------------------------------------------------------------------------------
(* Numbers *)

(* What a transaction keeps locked, and what it has not done yet. *)
Standing(j) ==
  /\ j.op # "record" => j.goals = {j.goal}
  /\ j.op = "record" => \E k \in MeasuresOf({j.goal}) : j.krs = {k}
  /\ j.op \in {"delete", "restore"} => j.krs = MeasuresOf({j.goal})
  /\ j.op = "restore" <=> j.goal \notin tree.live
  /\ j.op = "delete" => j.stage = "wrote"
  /\ j.stage = "wrote" => ~j.late /\ j.branch = {} /\ DOMAIN j.moved = {}
  /\ DOMAIN j.moved \subseteq j.branch

Apart(i, j) == i.goals \cap j.goals = {} /\ i.krs \cap j.krs = {}

LocksHeld ==
  \A v, w \in Writers :
    v # w /\ InFlight(v) /\ InFlight(w) => Apart(writer[v], writer[w])

(* What was loaded is what would be loaded now, unless it is late. *)
LoadsStand ==
  \A w \in Writers :
    InFlight(w) /\ writer[w].stage = "loaded" /\ ~writer[w].late
      => Loaded(writer[w], Seen(writer[w]))

ProgressExplained ==
  \A g \in tree.live : progress[g] = Worth(rollUp, tree, g) \/ g \in stale

HealthExplained ==
  \A g \in Goals : tree.health[g] = HealthIn(tree, g) \/ g \in outrun

NumInv ==
  /\ GoalShape
  /\ \A w \in Writers : InFlight(w) => Standing(writer[w])
  /\ LocksHeld /\ LoadsStand
  /\ ProgressExplained /\ HealthExplained

LEMMA NumInvExplains == NumInv => NumbersExplained
<1> SUFFICES ASSUME NumInv PROVE NumbersExplained
  OBVIOUS
<1>1. tree \in Trees /\ tree.live \in SUBSET Goals
  BY DEF NumInv, GoalShape, Trees
<1>2. Cascade(tree, tree.live, {}) =
        Summed(rollUp, progress, Parents(tree), tree.value, tree.live, {})
  BY CascadeSums
<1>3. \A g \in tree.live :
        Cascade(tree, tree.live, {})[g] = Worth(rollUp, tree, g)
  BY <1>1, <1>2, WholeIs
<1> QED
  BY <1>1, <1>3 DEF NumInv, ProgressExplained, HealthExplained,
                    NumbersExplained

LEMMA NumbersStart == GoalInit => NumInv
<1> SUFFICES ASSUME GoalInit PROVE NumInv
  OBVIOUS
<1>1. GoalShape
  BY GoalsStart
<1>2. PICK p \in [Goals -> Goals \cup {NoParent}], v \in Values :
        tree = [parent |-> p, live |-> Goals, closed |-> {},
                value |-> [k \in KeyResults |-> v],
                health |-> [g \in Goals |-> "live"]]
  BY DEF GoalInit
<1>3. /\ tree \in Trees /\ tree.live = Goals /\ tree.closed = {}
      /\ \A g \in Goals : tree.health[g] = "live"
  BY <1>1, <1>2 DEF GoalShape
<1>4. ProgressExplained
  <2>1. progress = Cascade(tree, tree.live, {})
    BY <1>3 DEF GoalInit
  <2>2. Cascade(tree, tree.live, {}) =
          Summed(rollUp, progress, Parents(tree), tree.value, tree.live, {})
    BY CascadeSums
  <2>3. \A g \in tree.live :
          Summed(rollUp, progress, Parents(tree), tree.value, tree.live, {})[g]
            = Worth(rollUp, tree, g)
    BY <1>3, WholeIs
  <2> QED
    BY <2>1, <2>2, <2>3 DEF ProgressExplained
<1>5. HealthExplained
  BY <1>3 DEF HealthExplained, HealthIn
<1>6. \A w \in Writers : ~InFlight(w)
  BY DEF GoalInit, InFlight
<1> QED
  BY <1>1, <1>4, <1>5, <1>6 DEF NumInv, LocksHeld, LoadsStand

LEMMA StillLoaded ==
  ASSUME UNCHANGED <<rollUp, tree, progress>>, NEW i, Loaded(i, Seen(i))
  PROVE  Loaded(i, Seen(i))'
<1>1. Seen(i)' = Seen(i)
  BY DEF Seen
<1> DEFINE t == Seen(i)
<1>2. PICK u : u = Seen(i)
  OBVIOUS
<1>3. Sums(i, u)' = Sums(i, u)
  BY DEF Sums, Cascade
<1>4. Moved(i, u)' = Moved(i, u)
  BY <1>3 DEF Moved
<1>5. Loaded(i, u)' <=> Loaded(i, u)
  BY <1>3, <1>4 DEF Loaded
<1> QED
  BY <1>1, <1>2, <1>5

LEMMA NumbersBegin ==
  ASSUME NumInv, NEW w \in Writers, Begun(w)
  PROVE  NumInv'
<1>1. GoalShape
  BY DEF NumInv
<1>2. /\ UNCHANGED <<rollUp, tree, progress, history>>
      /\ \A v \in Writers \ {w} : writer'[v] = writer[v]
      /\ GoalShape'
  BY <1>1, BeginShape
<1>3. PICK j : /\ writer'[w] = j
               /\ Begins(w, j.op, j.goal, j.to, j.goals, j.krs)
               /\ WriterShape(j) /\ j # Adrift
               /\ j.stage = "wrote" /\ j.branch = {}
               /\ j.moved = <<>> /\ j.late = FALSE
               /\ \A v \in Writers \ {w} :
                    InFlight(v) => /\ writer[v].goals \cap j.goals = {}
                                   /\ writer[v].krs \cap j.krs = {}
  BY <1>1, BeginShape
<1>4. Standing(j)'
  <2>1. tree' = tree /\ DOMAIN j.moved = {}
    BY <1>2, <1>3
  <2>2. Standing(j)
    BY <1>3, <2>1 DEF Standing, Begins, WriterShape, Transactions
  <2> QED
    BY <2>1, <2>2 DEF Standing
<1>5. \A v \in Writers \ {w} : InFlight(v)' => Standing(writer[v])'
  BY <1>2 DEF NumInv, InFlight, Standing
<1>6. LocksHeld'
  BY <1>2, <1>3 DEF NumInv, LocksHeld, Apart, InFlight
<1>7. LoadsStand'
  <2> SUFFICES ASSUME NEW v \in Writers, InFlight(v)',
                      writer'[v].stage = "loaded", ~writer'[v].late
               PROVE  Loaded(writer[v], Seen(writer[v]))'
    BY DEF LoadsStand
  <2>1. v # w /\ writer'[v] = writer[v]
    BY <1>2, <1>3
  <2>2. PICK i : i = writer[v]
    OBVIOUS
  <2>3. Loaded(i, Seen(i))
    BY <2>1, <2>2 DEF NumInv, LoadsStand, InFlight
  <2>4. Loaded(i, Seen(i))'
    BY <1>2, <2>3, StillLoaded
  <2> QED
    BY <2>1, <2>2, <2>4
<1>8. ProgressExplained' /\ HealthExplained'
  BY <1>2 DEF NumInv, ProgressExplained, HealthExplained, history, HealthIn,
              Worth
<1> QED
  BY <1>2, <1>3, <1>4, <1>5, <1>6, <1>7, <1>8 DEF NumInv

LEMMA NumbersLoad ==
  ASSUME NumInv, NEW w \in Writers, Load(w)
  PROVE  NumInv'
<1>1. GoalShape
  BY DEF NumInv
<1>2. /\ UNCHANGED <<rollUp, tree, progress, history>>
      /\ \A v \in Writers \ {w} : writer'[v] = writer[v]
      /\ InFlight(w) /\ GoalShape'
  BY <1>1, LoadShape
<1>3. PICK j : /\ writer'[w] = j
               /\ WriterShape(j) /\ j # Adrift /\ j.stage = "loaded"
               /\ Seen(j) = Seen(writer[w]) /\ Loaded(j, Seen(j))
               /\ j.op = writer[w].op /\ j.op # "delete"
               /\ j.goal = writer[w].goal
               /\ j.to = writer[w].to /\ j.goals = writer[w].goals
               /\ j.krs = writer[w].krs
  BY <1>1, LoadShape
<1>4. Standing(j)'
  <2>1. Standing(writer[w])
    BY <1>2 DEF NumInv
  <2>2. DOMAIN j.moved = Moved(j, Seen(j)) /\ j.branch = Branch(Seen(j), j.goal)
    BY <1>3 DEF Loaded
  <2>3. DOMAIN j.moved \subseteq j.branch
    BY <2>2 DEF Moved
  <2> QED
    BY <1>2, <1>3, <2>1, <2>3 DEF Standing
<1>5. \A v \in Writers \ {w} : InFlight(v)' => Standing(writer[v])'
  BY <1>2 DEF NumInv, InFlight, Standing
<1>6. LocksHeld'
  BY <1>2, <1>3 DEF NumInv, LocksHeld, Apart, InFlight
<1>7. LoadsStand'
  <2> SUFFICES ASSUME NEW v \in Writers, InFlight(v)',
                      writer'[v].stage = "loaded", ~writer'[v].late
               PROVE  Loaded(writer[v], Seen(writer[v]))'
    BY DEF LoadsStand
  <2>1. PICK i : i = writer'[v]
    OBVIOUS
  <2>2. CASE v = w
    <3>1. Loaded(i, Seen(i))
      BY <1>3, <2>1, <2>2
    <3>2. Loaded(i, Seen(i))'
      BY <1>2, <3>1, StillLoaded
    <3> QED
      BY <2>1, <3>2
  <2>3. CASE v # w
    <3>1. i = writer[v]
      BY <1>2, <2>1, <2>3
    <3>2. Loaded(i, Seen(i))
      BY <2>1, <3>1 DEF NumInv, LoadsStand, InFlight
    <3>3. Loaded(i, Seen(i))'
      BY <1>2, <3>2, StillLoaded
    <3> QED
      BY <2>1, <3>3
  <2> QED
    BY <2>2, <2>3
<1>8. ProgressExplained' /\ HealthExplained'
  BY <1>2 DEF NumInv, ProgressExplained, HealthExplained, history, HealthIn,
              Worth
<1> QED
  BY <1>2, <1>3, <1>4, <1>5, <1>6, <1>7, <1>8 DEF NumInv

LEMMA NumbersRollBack ==
  ASSUME NumInv, NEW w \in Writers, RollBack(w)
  PROVE  NumInv'
<1>1. GoalShape
  BY DEF NumInv
<1>2. /\ UNCHANGED <<rollUp, tree, progress, history>>
      /\ writer'[w] = Adrift /\ GoalShape'
      /\ \A v \in Writers \ {w} : writer'[v] = writer[v]
  BY <1>1, RollBackShape
<1>3. \A v \in Writers : InFlight(v)' => Standing(writer[v])'
  BY <1>2 DEF NumInv, InFlight, Standing
<1>4. LocksHeld'
  BY <1>2 DEF NumInv, LocksHeld, Apart, InFlight
<1>5. LoadsStand'
  <2> SUFFICES ASSUME NEW v \in Writers, InFlight(v)',
                      writer'[v].stage = "loaded", ~writer'[v].late
               PROVE  Loaded(writer[v], Seen(writer[v]))'
    BY DEF LoadsStand
  <2>1. v # w /\ writer'[v] = writer[v]
    BY <1>2 DEF InFlight
  <2>2. PICK i : i = writer[v]
    OBVIOUS
  <2>3. Loaded(i, Seen(i))
    BY <2>1, <2>2 DEF NumInv, LoadsStand, InFlight
  <2>4. Loaded(i, Seen(i))'
    BY <1>2, <2>3, StillLoaded
  <2> QED
    BY <2>1, <2>2, <2>4
<1>6. ProgressExplained' /\ HealthExplained'
  BY <1>2 DEF NumInv, ProgressExplained, HealthExplained, history, HealthIn,
              Worth
<1> QED
  BY <1>2, <1>3, <1>4, <1>5, <1>6 DEF NumInv

(* A transaction changes the rows of its goal, and of its key results. *)
LEMMA SeenAlike ==
  ASSUME GoalShape, NEW j, WriterShape(j), Standing(j), NEW u, u = Seen(j)
  PROVE  /\ u \in Trees /\ j.goal \in Goals /\ Alike(tree, u, j.goal)
         /\ \A h \in Goals \ {j.goal} : u.health[h] = tree.health[h]
         /\ j.op = "delete" <=> j.goal \notin u.live
         /\ \/ u.health[j.goal] = HealthIn(u, j.goal)
            \/ /\ u.health[j.goal] = tree.health[j.goal]
               /\ HealthIn(u, j.goal) = HealthIn(tree, j.goal)
<1>1. /\ tree \in Trees /\ j \in Transactions /\ j.goal \in Goals
      /\ u = Over(tree, j)
  BY SeenIsOver DEF GoalShape, WriterShape, Transactions
<1>2. u \in Trees /\ Overlaid(tree, j, u)
  BY <1>1, OverShape
<1>3. \A h \in Goals \ {j.goal} : /\ tree.parent[h] = u.parent[h]
                                  /\ u.health[h] = tree.health[h]
  BY <1>1, <1>2 DEF Trees, Overlaid
<1>4. \A h \in Goals \ {j.goal} : /\ h \in tree.live <=> h \in u.live
                                  /\ h \in tree.closed <=> h \in u.closed
  BY <1>2 DEF Overlaid
<1>5. \A k \in KeyResults : OwnerOf[k] # j.goal => tree.value[k] = u.value[k]
  <2>1. j.op = "record" => \A k \in j.krs : OwnerOf[k] = j.goal
    BY DEF Standing, MeasuresOf
  <2> QED
    BY <1>2, <2>1 DEF Overlaid
<1>6. Alike(tree, u, j.goal)
  BY <1>3, <1>4, <1>5 DEF Alike
<1>7. j.op = "delete" <=> j.goal \notin u.live
  BY <1>1, <1>2 DEF Standing, Overlaid
<1>8. \/ u.health[j.goal] = HealthIn(u, j.goal)
      \/ /\ u.health[j.goal] = tree.health[j.goal]
         /\ HealthIn(u, j.goal) = HealthIn(tree, j.goal)
  <2>1. CASE j.op = "close" \/ j.op = "reopen"
    BY <1>1, <1>2, <2>1 DEF HealthIn, Trees, Overlaid
  <2>2. CASE j.op # "close" /\ j.op # "reopen"
    BY <1>2, <2>2 DEF HealthIn, Overlaid
  <2> QED
    BY <2>1, <2>2
<1> QED
  BY <1>1, <1>2, <1>3, <1>6, <1>7, <1>8

(* A goal that is neither left behind nor on the branch above the change   *)
(* is not above the changed goal, before or after.                         *)
LEMMA NotAbove ==
  ASSUME GoalShape, NEW j, WriterShape(j), Standing(j), NEW u, u = Seen(j),
         NEW g \in Goals, g # j.goal,
         j.op \in {"align", "delete"}
           => g \notin Ancestors(Parents(tree), j.goal),
         j.op # "delete" => g \notin Branch(u, j.goal)
  PROVE  /\ g \notin Ancestors(Parents(tree), j.goal)
         /\ g \notin Ancestors(Parents(u), j.goal)
<1>1. /\ tree \in Trees /\ u \in Trees /\ j.goal \in Goals
      /\ u = Over(tree, j)
  BY SeenShape DEF GoalShape
<1>2. Overlaid(tree, j, u)
  BY <1>1, OverShape
<1>3. Rises(Parents(tree), Goals) /\ Rises(Parents(u), Goals)
  BY <1>1, ParentsRise
<1>4. CASE j.op = "align"
  BY <1>4 DEF Branch
<1>5. CASE j.op = "delete"
  <2>1. \A x \in Goals : Parents(u)[x] \in {Parents(tree)[x], NoParent}
    BY <1>1, <1>2, <1>5, ParentsRise DEF Overlaid
  <2>2. Ancestors(Parents(u), j.goal) \subseteq Ancestors(Parents(tree), j.goal)
    BY <1>1, <1>3, <2>1, AncestorsShrink
  <2> QED
    BY <1>5, <2>2
<1>6. CASE j.op # "align" /\ j.op # "delete"
  <2>1. \A x \in Goals : Parents(tree)[x] \in {Parents(u)[x], NoParent}
    BY <1>1, <1>2, <1>6, ParentsRise DEF Overlaid
  <2>2. Ancestors(Parents(tree), j.goal) \subseteq Ancestors(Parents(u), j.goal)
    BY <1>1, <1>3, <2>1, AncestorsShrink
  <2> QED
    BY <1>6, <2>2 DEF Branch
<1> QED
  BY <1>4, <1>5, <1>6

(* What such a goal is worth stays. *)
LEMMA WorthUntouched ==
  ASSUME GoalShape, NEW j, WriterShape(j), Standing(j), NEW u, u = Seen(j),
         NEW g \in Goals, g # j.goal,
         rollUp /\ j.op \in {"align", "delete"}
           => g \notin Ancestors(Parents(tree), j.goal),
         j.op # "delete" => g \notin Branch(u, j.goal)
  PROVE  /\ g \in tree.live <=> g \in u.live
         /\ Worth(rollUp, tree, g) = Worth(rollUp, u, g)
<1>1. /\ tree \in Trees /\ u \in Trees /\ j.goal \in Goals
      /\ Alike(tree, u, j.goal) /\ rollUp \in BOOLEAN
  BY SeenAlike DEF GoalShape
<1>2. rollUp => /\ g \notin Ancestors(Parents(tree), j.goal)
                /\ g \notin Ancestors(Parents(u), j.goal)
  BY NotAbove
<1> DEFINE t == tree  r == rollUp  x == j.goal
<1>3. Worth(r, t, g) = Worth(r, u, g)
  <2>1. /\ t \in Trees /\ x \in Goals /\ Alike(t, u, x) /\ g # x
        /\ r \in BOOLEAN
        /\ r => /\ g \notin Ancestors(Parents(t), x)
                /\ g \notin Ancestors(Parents(u), x)
    BY <1>1, <1>2
  <2> HIDE DEF t, r, x
  <2> QED
    BY <1>1, <2>1, WorthAlike
<1> QED
  BY <1>1, <1>3 DEF Alike

(* Stale, or left behind by a goal that goes away. *)
LeftBehind(j) ==
  stale \cup IF rollUp /\ j.op \in {"align", "delete"}
               THEN Ancestors(Parents(tree), j.goal) ELSE {}

(* Above a sibling that is. *)
Tainted(j, t) ==
  IF rollUp THEN UNION {Branch(t, t.parent[c]) :
                          c \in LeftBehind(j) \cap Siblings(t, j.branch)}
  ELSE {}

LEMMA StaleIs ==
  ASSUME NEW j, NEW u, u = Seen(j)
  PROVE  StaleAfter(j) =
           IF j.late THEN LeftBehind(j) \cup j.branch \cup Branch(u, j.goal)
           ELSE (LeftBehind(j) \ j.branch) \cup Tainted(j, u)
BY DEF StaleAfter, LeftBehind, Tainted

(* A goal off the branch keeps its number, and its worth. *)
LEMMA OffTheBranch ==
  ASSUME NumInv, NEW j, WriterShape(j), Standing(j), NEW u, u = Seen(j),
         NEW g \in u.live, g # j.goal, g \notin LeftBehind(j),
         j.op # "delete" => g \notin Branch(u, j.goal)
  PROVE  progress[g] = Worth(rollUp, u, g)
<1>1. GoalShape /\ g \in Goals
  <2>1. u \in Trees
    BY SeenAlike DEF NumInv
  <2> QED
    BY <2>1 DEF NumInv, Trees
<1>2. g \in tree.live <=> g \in u.live
  BY <1>1, WorthUntouched DEF LeftBehind
<1>3. Worth(rollUp, tree, g) = Worth(rollUp, u, g)
  BY <1>1, WorthUntouched DEF LeftBehind
<1>4. g \notin stale
  BY DEF LeftBehind
<1> QED
  BY <1>2, <1>3, <1>4 DEF NumInv, ProgressExplained

(* On the branch, not above a stale sibling, the sum is the worth. *)
LEMMA OnTheBranch ==
  ASSUME NumInv, NEW j, WriterShape(j), Standing(j), NEW u, u = Seen(j),
         j.op # "delete", j.branch = Branch(u, j.goal),
         NEW g \in j.branch, g \notin Tainted(j, u)
  PROVE  g \in u.live /\ Sums(j, u)[g] = Worth(rollUp, u, g)
<1>1. /\ GoalShape /\ rollUp \in BOOLEAN
      /\ u \in Trees /\ j.goal \in Goals /\ j.goal \in u.live
  <2>1. GoalShape
    BY DEF NumInv
  <2> QED
    BY <2>1, SeenAlike DEF GoalShape
<1> DEFINE P == Parents(u)  L == u.live  B == j.branch
           C == Siblings(u, j.branch)
<1>2. /\ Rises(P, Goals) /\ L \in SUBSET Goals /\ Covers(P, L, L)
  BY <1>1, LiveCovered DEF Trees
<1>3. B \in SUBSET L /\ Covers(P, B, B) /\ g \in L /\ g \in Goals
  BY <1>1, <1>2, BranchLives
<1>4. /\ C = {c \in L \ B : P[c] \in B}
      /\ \A c \in C : u.parent[c] = P[c]
  BY <1>1, <1>3, SiblingsHang
<1>5. ASSUME NEW c \in C, rollUp, P[c] \in Under(rollUp, P, B, g)
      PROVE  progress[c] = Worth(rollUp, u, c)
  <2>1. c \in L /\ c \notin B /\ c # j.goal
    BY <1>4, BranchHolds, <1>1
  <2>2. g \in Branch(u, u.parent[c])
    <3>1. P[c] \in B /\ u.parent[c] = P[c] /\ P[c] \in Goals
      BY <1>2, <1>3, <1>4
    <3>2. P[c] = g \/ g \in Ancestors(Unringed(P), P[c])
      BY <1>5 DEF Under
    <3>3. Ancestors(Unringed(P), P[c]) \subseteq Ancestors(P, P[c])
      BY <1>2, <3>1, UnringedShape, AncestorsShrink
    <3> QED
      BY <3>1, <3>2, <3>3 DEF Branch
  <2>3. c \notin LeftBehind(j)
    BY <1>5, <2>2 DEF Tainted
  <2> QED
    BY <2>1, <2>3, OffTheBranch
<1>6. Sums(j, u)[g] = Summed(rollUp, progress, P, u.value, B, C)[g]
  <2>1. Sums(j, u) = Cascade(u, B, C)
    BY DEF Sums
  <2> QED
    BY <2>1, CascadeSums
<1>7. \A c \in C : rollUp /\ P[c] \in Under(rollUp, P, B, g)
        => progress[c] = Own(u.value, Under(rollUp, P, L, c))
  BY <1>5 DEF Worth
<1>8. Summed(rollUp, progress, P, u.value, B, C)[g] =
        Own(u.value, Under(rollUp, P, L, g))
  <2> DEFINE r == rollUp  prog == progress  v == u.value
  <2>1. /\ r \in BOOLEAN /\ g \in B
        /\ \A c \in C : r /\ P[c] \in Under(r, P, B, g)
             => prog[c] = Own(v, Under(r, P, L, c))
    BY <1>1, <1>7
  <2> HIDE DEF P, L, B, C, r, prog, v
  <2>2. Summed(r, prog, P, v, B, C)[g] = Own(v, Under(r, P, L, g))
    BY <1>2, <1>3, <1>4, <2>1, BranchIsEnough
  <2> QED
    BY <2>2 DEF r, prog, v
<1> QED
  BY <1>3, <1>6, <1>8 DEF Worth

LEMMA CommitExplains ==
  ASSUME NumInv, NEW w \in Writers, Commit(w)
  PROVE  ProgressExplained' /\ HealthExplained'
<1>1. PICK j : j = writer[w]
  OBVIOUS
<1>2. PICK u : u = Seen(j)
  OBVIOUS
<1>3. GoalShape /\ CommitIs(w, j)
  BY <1>1, CommitShape DEF NumInv
<1>4. /\ WriterShape(j) /\ j # Adrift /\ Standing(j)
      /\ j.op = "delete" \/ j.stage = "loaded"
      /\ tree'.parent = u.parent /\ tree'.live = u.live
      /\ tree'.closed = u.closed /\ tree'.value = u.value
      /\ tree'.health = [h \in Goals |->
           IF h \in DOMAIN j.moved \cap u.live THEN j.moved[h].health
           ELSE u.health[h]]
      /\ progress' = [h \in Goals |->
           IF h \in DOMAIN j.moved \cap u.live
             THEN j.moved[h].progress ELSE progress[h]]
      /\ outrun' = IF j.late
           THEN outrun \cup (DOMAIN j.moved \cap u.live)
           ELSE outrun \ j.branch
      /\ stale' = StaleAfter(j) /\ rollUp' = rollUp
  BY <1>1, <1>2, <1>3 DEF CommitIs, NumInv, InFlight
<1>5. /\ u \in Trees /\ j.goal \in Goals /\ Alike(tree, u, j.goal)
      /\ \A h \in Goals \ {j.goal} : u.health[h] = tree.health[h]
      /\ j.op = "delete" <=> j.goal \notin u.live
      /\ \/ u.health[j.goal] = HealthIn(u, j.goal)
         \/ /\ u.health[j.goal] = tree.health[j.goal]
            /\ HealthIn(u, j.goal) = HealthIn(tree, j.goal)
  BY <1>2, <1>3, <1>4, SeenAlike
<1>6. DOMAIN j.moved \subseteq j.branch
  BY <1>4 DEF Standing
<1>7. \A g \in Goals : /\ Worth(rollUp, tree, g)' = Worth(rollUp, u, g)
                       /\ HealthIn(tree, g)' = HealthIn(u, g)
  <2>1. Parents(tree)' = Parents(u)
    BY <1>4 DEF Parents
  <2> QED
    BY <1>4, <2>1 DEF Worth, HealthIn
<1>8. ASSUME ~j.late, j.op # "delete"
      PROVE  /\ Loaded(j, u) /\ j.branch = Branch(u, j.goal)
             /\ j.goal \in u.live /\ j.branch \in SUBSET u.live
             /\ DOMAIN j.moved = Moved(j, u)
             /\ \A h \in DOMAIN j.moved :
                  /\ j.moved[h].progress = Sums(j, u)[h]
                  /\ j.moved[h].health = HealthIn(u, h)
  <2>1. Loaded(j, u)
    BY <1>1, <1>2, <1>4, <1>8 DEF NumInv, LoadsStand, InFlight
  <2>2. j.branch = Branch(u, j.goal)
    BY <2>1 DEF Loaded
  <2>3. /\ DOMAIN j.moved = Moved(j, u)
        /\ \A h \in DOMAIN j.moved :
             /\ j.moved[h].progress = Sums(j, u)[h]
             /\ j.moved[h].health = HealthIn(u, h)
    BY <2>1 DEF Loaded
  <2>4. j.goal \in u.live /\ j.branch \in SUBSET u.live
    BY <1>5, <1>8, <2>2, BranchLives
  <2> QED
    BY <2>1, <2>2, <2>3, <2>4
<1>9. j.op = "delete" => ~j.late /\ j.branch = {}
  BY <1>4 DEF Standing
<1>10. ASSUME NEW g \in u.live, g \notin StaleAfter(j)
       PROVE  progress'[g] = Worth(rollUp, u, g)
  <2>1. /\ g \in Goals
        /\ progress'[g] = IF g \in DOMAIN j.moved THEN j.moved[g].progress
                          ELSE progress[g]
    BY <1>4, <1>5 DEF Trees
  <2>2. StaleAfter(j) =
          IF j.late THEN LeftBehind(j) \cup j.branch \cup Branch(u, j.goal)
          ELSE (LeftBehind(j) \ j.branch) \cup Tainted(j, u)
    BY <1>2, StaleIs
  <2>3. CASE g \notin j.branch
    <3>1. progress'[g] = progress[g] /\ g \notin LeftBehind(j)
      BY <1>6, <1>10, <2>1, <2>2, <2>3
    <3>2. j.op # "delete" => g \notin Branch(u, j.goal)
      BY <1>8, <1>10, <2>2, <2>3
    <3>3. g # j.goal
      <4>1. j.goal \in Branch(u, j.goal)
        BY <1>5, BranchHolds
      <4> QED
        BY <1>5, <3>2, <4>1
    <3>4. progress[g] = Worth(rollUp, u, g)
      BY <1>2, <1>4, <3>1, <3>2, <3>3, OffTheBranch
    <3> QED
      BY <3>1, <3>4
  <2>4. CASE g \in j.branch
    <3>1. ~j.late /\ j.op # "delete" /\ g \notin Tainted(j, u)
      BY <1>9, <1>10, <2>2, <2>4
    <3>2. Sums(j, u)[g] = Worth(rollUp, u, g)
      BY <1>2, <1>4, <1>8, <2>4, <3>1, OnTheBranch
    <3>3. g \notin DOMAIN j.moved => Sums(j, u)[g] = progress[g]
      BY <1>8, <2>4, <3>1 DEF Moved
    <3> QED
      BY <1>8, <2>1, <3>1, <3>2, <3>3
  <2> QED
    BY <2>3, <2>4
<1>11. ProgressExplained'
  <2>1. \A g \in u.live : g \in Goals
    BY <1>5 DEF Trees
  <2> QED
    BY <1>4, <1>7, <1>10, <2>1 DEF ProgressExplained
<1>12. ASSUME NEW g \in Goals
       PROVE  tree'.health[g] = HealthIn(u, g) \/ g \in outrun'
  <2>1. CASE g \in DOMAIN j.moved \cap u.live
    <3>1. tree'.health[g] = j.moved[g].health
      BY <1>4, <2>1
    <3> QED
      BY <1>4, <1>6, <1>8, <1>9, <2>1, <3>1
  <2>2. CASE g \notin DOMAIN j.moved \cap u.live
    <3>1. tree'.health[g] = u.health[g]
      BY <1>4, <2>2
    <3>2. CASE ~j.late /\ g \in j.branch
      <4>1. g \notin Moved(j, u) /\ g \in Branch(u, j.goal)
        BY <1>8, <1>9, <2>2, <3>2
      <4> QED
        BY <3>1, <4>1 DEF Moved
    <3>3. CASE j.late \/ g \notin j.branch
      <4>1. g \in outrun => g \in outrun'
        BY <1>4, <3>3
      <4>2. tree.health[g] = HealthIn(tree, g) \/ g \in outrun
        BY DEF NumInv, HealthExplained
      <4>3. g # j.goal => HealthIn(u, g) = HealthIn(tree, g)
        BY <1>5 DEF Alike, HealthIn
      <4> QED
        BY <1>5, <3>1, <4>1, <4>2, <4>3
    <3> QED
      BY <3>2, <3>3
  <2> QED
    BY <2>1, <2>2
<1>13. HealthExplained'
  BY <1>7, <1>12 DEF HealthExplained
<1> QED
  BY <1>11, <1>13

(* Equal ways and equal readings, equal sums. *)
LEMMA SummedAgrees ==
  ASSUME NEW P, Rises(P, Goals), NEW Q, Rises(Q, Goals),
         NEW S \in SUBSET Goals, Covers(P, S, S), NEW C,
         \A x \in S \cup C : Q[x] = P[x],
         NEW v, NEW u, \A k \in KeyResults : OwnerOf[k] \in S => u[k] = v[k],
         NEW prog, NEW new, \A c \in C : new[c] = prog[c],
         NEW r, NEW g \in S
  PROVE  Summed(r, prog, P, v, S, C)[g] = Summed(r, new, Q, u, S, C)[g]
<1>1. Covers(Q, S, S)
  BY DEF Covers
<1>2. \A x \in S : Ancestors(Unringed(P), x) = Ancestors(Unringed(Q), x)
  BY UnringedAgree
<1> DEFINE U == Under(r, P, S, g)
<1>3. Under(r, Q, S, g) = U
  BY <1>2 DEF Under
<1>4. U \subseteq S
  BY DEF Under
<1>5. /\ Summed(r, prog, P, v, S, C)[g] = Own(v, U)
           \cup UNION {prog[c] : c \in IF r THEN {c \in C : P[c] \in U} ELSE {}}
      /\ Summed(r, new, Q, u, S, C)[g] = Own(u, U)
           \cup UNION {new[c] : c \in IF r THEN {c \in C : Q[c] \in U} ELSE {}}
  BY <1>1, <1>3, SummedIs
<1> HIDE DEF U
<1>6. Own(v, U) = Own(u, U)
  BY <1>4 DEF Own, MeasuresOf
<1>7. {c \in C : P[c] \in U} = {c \in C : Q[c] \in U}
  OBVIOUS
<1>8. UNION {prog[c] : c \in IF r THEN {c \in C : P[c] \in U} ELSE {}} =
        UNION {new[c] : c \in IF r THEN {c \in C : P[c] \in U} ELSE {}}
  <2> DEFINE D == IF r THEN {c \in C : P[c] \in U} ELSE {}
  <2>1. \A c \in D : new[c] = prog[c]
    OBVIOUS
  <2> HIDE DEF D
  <2>2. {prog[c] : c \in D} = {new[c] : c \in D}
    BY <2>1
  <2> QED
    BY <2>2 DEF D
<1> QED
  BY <1>5, <1>6, <1>7, <1>8

(* Rows that differ at x still do so under a third transaction's write. *)
LEMMA OverAlike ==
  ASSUME NEW t \in Trees, NEW u \in Trees, NEW i, WriterShape(i),
         NEW x \in Goals, Alike(t, u, x)
  PROVE  /\ Alike(Over(t, i), Over(u, i), x)
         /\ \A h \in Goals \ {x} : t.health[h] = u.health[h]
              => Over(t, i).health[h] = Over(u, i).health[h]
         /\ i.goal # x => /\ Over(t, i).parent[x] = t.parent[x]
                          /\ Over(u, i).parent[x] = u.parent[x]
                          /\ x \in Over(t, i).live <=> x \in t.live
                          /\ x \in Over(u, i).live <=> x \in u.live
<1>1. PICK a \in Trees : a = Over(t, i) /\ Overlaid(t, i, a)
  BY OverShape
<1>2. PICK b \in Trees : b = Over(u, i) /\ Overlaid(u, i, b)
  BY OverShape
<1>3. \A h \in Goals \ {x} : /\ a.parent[h] = b.parent[h]
                             /\ h \in a.live <=> h \in b.live
                             /\ h \in a.closed <=> h \in b.closed
                             /\ t.health[h] = u.health[h]
                                  => a.health[h] = b.health[h]
  <2> SUFFICES ASSUME NEW h \in Goals, h # x
               PROVE  /\ a.parent[h] = b.parent[h]
                      /\ h \in a.live <=> h \in b.live
                      /\ h \in a.closed <=> h \in b.closed
                      /\ t.health[h] = u.health[h]
                           => a.health[h] = b.health[h]
    OBVIOUS
  <2>1. a.parent[h] = b.parent[h]
    BY <1>1, <1>2 DEF Alike, Overlaid, Trees
  <2>2. h \in a.live <=> h \in b.live
    BY <1>1, <1>2 DEF Alike, Overlaid
  <2>3. h \in a.closed <=> h \in b.closed
    BY <1>1, <1>2 DEF Alike, Overlaid
  <2>4. t.health[h] = u.health[h] => a.health[h] = b.health[h]
    BY <1>1, <1>2 DEF Overlaid, Trees
  <2> QED
    BY <2>1, <2>2, <2>3, <2>4
<1>4. \A k \in KeyResults : OwnerOf[k] # x => a.value[k] = b.value[k]
  BY <1>1, <1>2 DEF Alike, Overlaid
<1>5. Alike(a, b, x)
  BY <1>3, <1>4 DEF Alike
<1>6. i.goal # x => /\ a.parent[x] = t.parent[x] /\ b.parent[x] = u.parent[x]
                    /\ x \in a.live <=> x \in t.live
                    /\ x \in b.live <=> x \in u.live
  BY <1>1, <1>2 DEF Overlaid, Trees
<1> QED
  BY <1>1, <1>2, <1>3, <1>5, <1>6

(* What a load looks for is as it was, when the goal whose row differs is   *)
(* not part of it and does not join it.                                    *)
LEMMA SameLoad ==
  ASSUME NEW a \in Trees, NEW b \in Trees, NEW x \in Goals, Alike(a, b, x),
         NEW g \in a.live, NEW B, B = Branch(a, g), NEW C, C = Siblings(a, B),
         x \notin LooksFor(a, B, C),
         x \in b.live => \/ x \in a.live /\ b.parent[x] = a.parent[x]
                         \/ b.parent[x] \notin B
  PROVE  /\ Branch(b, g) = B /\ Siblings(b, B) = C
         /\ LooksFor(b, B, C) = LooksFor(a, B, C)
         /\ B \in SUBSET Goals /\ C \in SUBSET Goals /\ g \in B
         /\ x \notin B \cup C
         /\ Covers(Parents(a), B, B)
         /\ \A h \in B \cup C : Parents(b)[h] = Parents(a)[h]
<1>1. /\ g \in Goals /\ a.live \in SUBSET Goals /\ b.live \in SUBSET Goals
      /\ B \in SUBSET a.live /\ Covers(Parents(a), B, B)
  BY BranchLives DEF Trees
<1>2. g \in B /\ C \in SUBSET Goals /\ x \notin B /\ x \notin C
  BY <1>1, BranchHolds DEF Siblings, LooksFor
<1>3. ASSUME NEW h \in B
      PROVE  b.parent[h] = a.parent[h] /\ Parents(b)[h] = Parents(a)[h]
  <2>1. h \in Goals /\ h # x
    BY <1>1, <1>2, <1>3
  <2>2. b.parent[h] = a.parent[h] /\ a.parent[h] \in Goals \cup {NoParent}
    BY <2>1 DEF Alike, Trees
  <2>3. a.parent[h] # x
    BY <1>3, GoalsAre DEF LooksFor
  <2>4. a.parent[h] \in a.live <=> b.parent[h] \in b.live
    BY <1>1, <2>2, <2>3, GoalsAre DEF Alike
  <2> QED
    BY <2>1, <2>2, <2>4, ParentsRise
<1>4. ASSUME NEW h \in C
      PROVE  Parents(b)[h] = Parents(a)[h]
  <2>1. h \in Goals /\ h # x /\ a.parent[h] \in B
    BY <1>2, <1>4 DEF Siblings
  <2>2. b.parent[h] = a.parent[h]
    BY <2>1 DEF Alike
  <2>3. a.parent[h] \in a.live /\ a.parent[h] \in b.live
    BY <1>1, <1>2, <2>1 DEF Alike
  <2> QED
    BY <2>1, <2>2, <2>3, ParentsRise
<1>5. Branch(b, g) = B
  <2>1. Ancestors(Parents(a), g) = Ancestors(Parents(b), g)
    <3>1. Rises(Parents(a), Goals) /\ Rises(Parents(b), Goals)
      BY ParentsRise
    <3>2. B \subseteq Goals /\ \A h \in B : Parents(b)[h] = Parents(a)[h]
      BY <1>1, <1>3
    <3> QED
      BY <1>1, <1>2, <3>1, <3>2, AncestorsAgree
  <2> QED
    BY <2>1 DEF Branch
<1>6. Siblings(b, B) = C
  <2>1. ASSUME NEW c \in Goals, c # x
        PROVE  c \in Siblings(b, B) <=> c \in C
    BY <2>1 DEF Siblings, Alike
  <2>2. x \notin Siblings(b, B)
    BY <1>2 DEF Siblings
  <2> QED
    BY <1>1, <1>2, <2>1, <2>2 DEF Siblings
<1>7. LooksFor(b, B, C) = LooksFor(a, B, C)
  BY <1>3 DEF LooksFor
<1> QED
  BY <1>1, <1>2, <1>3, <1>4, <1>5, <1>6, <1>7

(* A transaction's load stands on when another one commits that has        *)
(* changed none of the rows it looked for.                                 *)
LEMMA LoadStandsOn ==
  ASSUME NumInv, NEW w \in Writers, Commit(w), NEW v \in Writers, v # w,
         NEW i, i = writer[v], InFlight(v), i.stage = "loaded", ~i.late,
         i.read \cap Changed(writer[w]) = {}
  PROVE  Loaded(i, Seen(i))'
<1>1. PICK j : j = writer[w]
  OBVIOUS
<1>2. PICK u : u = Seen(j)
  OBVIOUS
<1>3. GoalShape /\ CommitIs(w, j)
  BY <1>1, CommitShape DEF NumInv
<1>4. /\ WriterShape(j) /\ Standing(j) /\ WriterShape(i) /\ Standing(i)
      /\ tree'.parent = u.parent /\ tree'.live = u.live
      /\ tree'.closed = u.closed /\ tree'.value = u.value
      /\ tree'.health = [h \in Goals |->
           IF h \in DOMAIN j.moved \cap u.live THEN j.moved[h].health
           ELSE u.health[h]]
      /\ progress' = [h \in Goals |->
           IF h \in DOMAIN j.moved \cap u.live
             THEN j.moved[h].progress ELSE progress[h]]
      /\ rollUp' = rollUp /\ GoalShape'
      /\ Loaded(i, Seen(i))
  BY <1>1, <1>2, <1>3 DEF CommitIs, NumInv, InFlight, LoadsStand, GoalShape
<1>5. PICK x \in Goals : x = j.goal /\ Alike(tree, u, x)
        /\ \A h \in Goals \ {x} : u.health[h] = tree.health[h]
  BY <1>2, <1>3, <1>4, SeenAlike
<1>6. PICK t2 : t2 = tree'
  OBVIOUS
<1>7. /\ tree \in Trees /\ t2 \in Trees /\ u \in Trees
      /\ Alike(tree, t2, x)
      /\ \A h \in Goals \ ({x} \cup DOMAIN j.moved) :
           tree.health[h] = t2.health[h]
  <2>1. tree \in Trees /\ t2 \in Trees /\ u \in Trees
    BY <1>2, <1>3, <1>4, <1>6, SeenShape DEF GoalShape, Trees
  <2>2. Alike(tree, t2, x)
    BY <1>4, <1>5, <1>6 DEF Alike
  <2> QED
    BY <1>4, <1>5, <1>6, <2>1, <2>2
<1>8. PICK a : a = Seen(i) /\ a = Over(tree, i)
  BY SeenIsOver
<1>9. PICK b : b = Over(t2, i)
  OBVIOUS
<1>10. Seen(i)' = b
  BY <1>6, <1>9 DEF Seen, Over
<1>11. /\ a \in Trees /\ b \in Trees /\ Overlaid(t2, i, b)
       /\ i.goal \in a.live /\ i.op # "delete"
  <2>1. a \in Trees /\ (i.op = "delete" <=> i.goal \notin a.live)
    BY <1>3, <1>4, <1>8, SeenAlike
  <2>2. i.op # "delete"
    BY <1>4 DEF Standing
  <2> QED
    BY <1>4, <1>7, <1>9, <2>1, <2>2, OverShape
<1> DEFINE B == i.branch  C == Siblings(a, i.branch)
<1>12. /\ B = Branch(a, i.goal) /\ i.read = LooksFor(a, B, C)
       /\ i.moved = [h \in Moved(i, a) |->
            [progress |-> Sums(i, a)[h], health |-> HealthIn(a, h)]]
  BY <1>4, <1>8 DEF Loaded
<1>13. x \notin i.read /\ i.read \cap DOMAIN j.moved = {}
  BY <1>1, <1>5 DEF Changed
<1>14. /\ B \subseteq i.read /\ C \subseteq i.read /\ i.goal # x
  BY <1>11, <1>12, <1>13, BranchHolds DEF LooksFor, Trees
<1>15. /\ Alike(a, b, x)
       /\ \A h \in Goals \ {x} :
            tree.health[h] = t2.health[h] => a.health[h] = b.health[h]
       /\ a.parent[x] = tree.parent[x] /\ b.parent[x] = t2.parent[x]
       /\ x \in a.live <=> x \in tree.live
       /\ x \in b.live <=> x \in t2.live
  BY <1>4, <1>7, <1>8, <1>9, <1>14, OverAlike
<1>16. x \in b.live => \/ x \in a.live /\ b.parent[x] = a.parent[x]
                       \/ b.parent[x] \notin B
  <2>1. u = Over(tree, j) /\ Overlaid(tree, j, u)
    BY <1>2, <1>4, <1>7, SeenIsOver, OverShape
  <2>2. CASE j.op \in {"align", "restore"}
    <3>1. u.parent[x] = NoParent \/ u.parent[x] \notin i.read
      BY <1>1, <1>2, <1>5, <2>2 DEF Changed
    <3>2. B \subseteq Goals
      BY <1>11, <1>12, BranchHolds DEF Trees
    <3> QED
      BY <1>4, <1>6, <1>14, <1>15, <3>1, <3>2, GoalsAre
  <2>3. CASE j.op = "delete"
    BY <1>4, <1>5, <1>6, <1>15, <2>1, <2>3 DEF Overlaid
  <2>4. CASE j.op \notin {"align", "restore", "delete"}
    BY <1>4, <1>6, <1>15, <2>1, <2>4 DEF Overlaid
  <2> QED
    BY <2>2, <2>3, <2>4
<1>17. PICK R : R = LooksFor(a, B, C)
  OBVIOUS
<1> HIDE DEF B, C
<1>18. /\ Branch(b, i.goal) = B /\ Siblings(b, B) = C
       /\ LooksFor(b, B, C) = R
       /\ B \in SUBSET Goals /\ C \in SUBSET Goals /\ i.goal \in B
       /\ x \notin B \cup C
       /\ Covers(Parents(a), B, B)
       /\ \A h \in B \cup C : Parents(b)[h] = Parents(a)[h]
  <2>1. C = Siblings(a, B)
    BY DEF B, C
  <2>2. x \notin LooksFor(a, B, C)
    BY <1>12, <1>13
  <2> QED
    BY <1>11, <1>12, <1>15, <1>16, <1>17, <2>1, <2>2, SameLoad
<1>19. Sums(i, a) = Summed(rollUp, progress, Parents(a), a.value, B, C)
  <2>1. Sums(i, a) = Cascade(a, B, C)
    BY <1>12 DEF Sums, B, C
  <2> QED
    BY <2>1, CascadeSums
<1>20. PICK new : new = progress'
  OBVIOUS
<1>21. Sums(i, b)' = Summed(rollUp, new, Parents(b), b.value, B, C)
  <2>1. Sums(i, b)' = Cascade(b, B, C)'
    BY <1>18 DEF Sums
  <2> QED
    BY <1>4, <1>20, <2>1 DEF Cascade, Summed
<1>22. \A h \in B \cup C : new[h] = progress[h]
  BY <1>4, <1>13, <1>14, <1>18, <1>20
<1>23. \A g \in B : Summed(rollUp, progress, Parents(a), a.value, B, C)[g] =
                    Summed(rollUp, new, Parents(b), b.value, B, C)[g]
  <2>1. Rises(Parents(a), Goals) /\ Rises(Parents(b), Goals)
    BY <1>11, ParentsRise
  <2>2. \A k \in KeyResults : OwnerOf[k] \in B => b.value[k] = a.value[k]
    BY <1>15, <1>18 DEF Alike
  <2>3. \A c \in C : new[c] = progress[c]
    BY <1>22
  <2> DEFINE P == Parents(a)  Q == Parents(b)  p == a.value  q == b.value
             r == rollUp  prog == progress
  <2>4. /\ Rises(P, Goals) /\ Rises(Q, Goals) /\ Covers(P, B, B)
        /\ B \in SUBSET Goals /\ \A h \in B \cup C : Q[h] = P[h]
        /\ \A k \in KeyResults : OwnerOf[k] \in B => q[k] = p[k]
        /\ \A c \in C : new[c] = prog[c]
    BY <1>18, <2>1, <2>2, <2>3
  <2> HIDE DEF P, Q, p, q, r, prog
  <2>5. \A g \in B : Summed(r, prog, P, p, B, C)[g] = Summed(r, new, Q, q, B, C)[g]
    BY <2>4, SummedAgrees
  <2> QED
    BY <2>5 DEF P, Q, p, q, r, prog
<1>24. \A g \in B : Sums(i, a)[g] = Sums(i, b)'[g]
  BY <1>19, <1>21, <1>23
<1>25. \A h \in B : HealthIn(a, h) = HealthIn(b, h) /\ a.health[h] = b.health[h]
  <2>1. \A h \in B : h \in Goals \ ({x} \cup DOMAIN j.moved)
    BY <1>13, <1>14, <1>18
  <2>2. \A h \in B : h \in a.closed <=> h \in b.closed
    BY <1>15, <2>1 DEF Alike
  <2> QED
    BY <1>7, <1>15, <2>1, <2>2 DEF HealthIn
<1>26. Moved(i, b)' = Moved(i, a)
  <2>1. Moved(i, a) = {h \in B : Sums(i, a)[h] # progress[h]
                                   \/ HealthIn(a, h) # a.health[h]}
    BY <1>12 DEF Moved
  <2>2. Moved(i, b)' = {h \in B : Sums(i, b)'[h] # new[h]
                                   \/ HealthIn(b, h) # b.health[h]}
    BY <1>18, <1>20 DEF Moved
  <2> QED
    BY <1>22, <1>24, <1>25, <2>1, <2>2
<1>27. i.moved = [h \in Moved(i, b)' |->
         [progress |-> Sums(i, b)'[h], health |-> HealthIn(b, h)]]
  <2>1. \A h \in Moved(i, a) : h \in B
    BY <1>12 DEF Moved
  <2> QED
    BY <1>12, <1>24, <1>25, <1>26, <2>1
<1>28. Loaded(i, b)'
  <2>1. i.branch = Branch(b, i.goal) /\ i.read = LooksFor(b, B, C)
    BY <1>12, <1>17, <1>18 DEF B
  <2>2. C = Siblings(b, B) /\ B = i.branch
    BY <1>18 DEF B
  <2> QED
    BY <1>27, <2>1, <2>2 DEF Loaded
<1> QED
  BY <1>10, <1>28

(* The locks keep a goal there, or deleted, while another one works on it. *)
LEMMA StandsOn ==
  ASSUME NumInv, NEW w \in Writers, Commit(w), NEW v \in Writers, v # w,
         InFlight(v)
  PROVE  Standing(writer[v])'
<1>1. PICK j : j = writer[w]
  OBVIOUS
<1>2. PICK i : i = writer[v]
  OBVIOUS
<1>3. PICK k : k = writer'[v]
  OBVIOUS
<1>4. PICK u : u = Seen(j)
  OBVIOUS
<1>5. GoalShape /\ CommitIs(w, j)
  BY <1>1, CommitShape DEF NumInv
<1>6. /\ WriterShape(j) /\ Standing(j) /\ WriterShape(i) /\ Standing(i)
      /\ tree'.live = u.live /\ SameWork(k, i) /\ Apart(i, j)
      /\ k.late <=> \/ i.late
                    \/ i.stage = "loaded" /\ i.read \cap Changed(j) # {}
  BY <1>1, <1>2, <1>3, <1>4, <1>5
     DEF CommitIs, NumInv, InFlight, GoalShape, LocksHeld
<1>7. /\ tree \in Trees /\ i.goal \in Goals
      /\ Alike(tree, u, j.goal) /\ Overlaid(tree, j, u)
  BY <1>4, <1>5, <1>6, SeenAlike, SeenIsOver, OverShape
     DEF GoalShape, WriterShape, Transactions
<1>8. i.goal \in u.live <=> i.goal \in tree.live
  <2>1. CASE i.goal # j.goal
    BY <1>7, <2>1 DEF Alike
  <2>2. CASE i.goal = j.goal /\ j.op \in {"delete", "restore"}
    <3>1. i.op # "record" => i.goal \in i.goals /\ i.goal \in j.goals
      BY <1>6, <2>2 DEF Standing
    <3>2. i.op = "record" =>
            \E m \in MeasuresOf({i.goal}) : m \in i.krs /\ m \in j.krs
      BY <1>6, <2>2 DEF Standing
    <3> QED
      BY <1>6, <3>1, <3>2 DEF Apart
  <2>3. CASE j.op \notin {"delete", "restore"}
    BY <1>7, <2>3 DEF Overlaid
  <2> QED
    BY <2>1, <2>2, <2>3
<1>9. PICK live : live = tree'.live
  OBVIOUS
<1>10. k.op = "restore" <=> k.goal \notin live
  BY <1>6, <1>8, <1>9 DEF SameWork, Standing
<1>11. /\ k.op # "record" => k.goals = {k.goal}
       /\ k.op = "record" => \E m \in MeasuresOf({k.goal}) : k.krs = {m}
       /\ k.op \in {"delete", "restore"} => k.krs = MeasuresOf({k.goal})
       /\ k.op = "delete" => k.stage = "wrote"
       /\ k.stage = "wrote" => ~k.late /\ k.branch = {} /\ DOMAIN k.moved = {}
       /\ DOMAIN k.moved \subseteq k.branch
  BY <1>6 DEF SameWork, Standing
<1>12. Standing(k)'
  BY <1>9, <1>10, <1>11 DEF Standing
<1> QED
  BY <1>3, <1>12

LEMMA NumbersCommit ==
  ASSUME NumInv, NEW w \in Writers, Commit(w)
  PROVE  NumInv'
<1>1. GoalShape /\ CommitIs(w, writer[w])
  BY CommitShape DEF NumInv
<1>2. /\ writer'[w] = Adrift /\ GoalShape'
      /\ \A v \in Writers \ {w} :
           /\ InFlight(v)' <=> InFlight(v)
           /\ InFlight(v) =>
                /\ SameWork(writer'[v], writer[v])
                /\ writer'[v].late <=>
                     \/ writer[v].late
                     \/ /\ writer[v].stage = "loaded"
                        /\ writer[v].read \cap Changed(writer[w]) # {}
  BY <1>1 DEF CommitIs
<1>3. \A v \in Writers : InFlight(v)' => v # w /\ InFlight(v)
  BY <1>2 DEF InFlight
<1>4. \A v \in Writers : InFlight(v)' => Standing(writer[v])'
  BY <1>3, StandsOn
<1>5. LocksHeld'
  <2> SUFFICES ASSUME NEW v \in Writers, NEW z \in Writers, v # z,
                      InFlight(v)', InFlight(z)'
               PROVE  Apart(writer[v], writer[z])'
    BY DEF LocksHeld
  <2>1. Apart(writer[v], writer[z])
    BY <1>3 DEF NumInv, LocksHeld
  <2>2. SameWork(writer'[v], writer[v]) /\ SameWork(writer'[z], writer[z])
    BY <1>2, <1>3
  <2> QED
    BY <2>1, <2>2 DEF Apart, SameWork
<1>6. LoadsStand'
  <2> SUFFICES ASSUME NEW v \in Writers, InFlight(v)',
                      writer'[v].stage = "loaded", ~writer'[v].late
               PROVE  Loaded(writer[v], Seen(writer[v]))'
    BY DEF LoadsStand
  <2>1. PICK i : i = writer[v]
    OBVIOUS
  <2>2. PICK k : k = writer'[v]
    OBVIOUS
  <2>3. /\ v # w /\ InFlight(v) /\ SameWork(k, i)
        /\ i.stage = "loaded" /\ ~i.late
        /\ i.read \cap Changed(writer[w]) = {}
    BY <1>2, <1>3, <2>1, <2>2 DEF SameWork
  <2>4. Loaded(i, Seen(i))'
    BY <2>1, <2>3, LoadStandsOn
  <2>5. Seen(k)' = Seen(i)'
    BY <2>3 DEF Seen, SameWork
  <2>6. PICK t : t = Seen(i)'
    OBVIOUS
  <2>7. Loaded(i, t)'
    BY <2>4, <2>6
  <2>8. Loaded(k, t)'
    BY <2>3, <2>7 DEF Loaded, Moved, Sums, SameWork
  <2> QED
    BY <2>2, <2>5, <2>6, <2>8
<1>7. ProgressExplained' /\ HealthExplained'
  BY CommitExplains
<1> QED
  BY <1>2, <1>4, <1>5, <1>6, <1>7 DEF NumInv

LEMMA NumbersKept == NumInv /\ [GoalNext]_goalVars => NumInv'
<1> SUFFICES ASSUME NumInv, [GoalNext]_goalVars PROVE NumInv'
  OBVIOUS
<1>1. GoalShape
  BY DEF NumInv
<1>2. CASE UNCHANGED goalVars
  <2>1. UNCHANGED <<rollUp, tree, progress, writer>> /\ UNCHANGED history
    BY <1>2 DEF goalVars
  <2>2. GoalShape'
    BY <1>1, <2>1 DEF GoalShape, history, WriterShape
  <2>3. \A v \in Writers : InFlight(v)' => Standing(writer[v])'
    BY <2>1 DEF NumInv, InFlight, Standing
  <2>4. LocksHeld'
    BY <2>1 DEF NumInv, LocksHeld, Apart, InFlight
  <2>5. LoadsStand'
    <3> SUFFICES ASSUME NEW v \in Writers, InFlight(v)',
                        writer'[v].stage = "loaded", ~writer'[v].late
                 PROVE  Loaded(writer[v], Seen(writer[v]))'
      BY DEF LoadsStand
    <3>1. PICK i : i = writer[v]
      OBVIOUS
    <3>2. Loaded(i, Seen(i))
      BY <2>1, <3>1 DEF NumInv, LoadsStand, InFlight
    <3>3. Loaded(i, Seen(i))'
      BY <2>1, <3>2, StillLoaded
    <3> QED
      BY <2>1, <3>1, <3>3
  <2>6. ProgressExplained' /\ HealthExplained'
    BY <2>1 DEF NumInv, ProgressExplained, HealthExplained, history, HealthIn,
                Worth
  <2> QED
    BY <2>2, <2>3, <2>4, <2>5, <2>6 DEF NumInv
<1> QED
  BY <1>1, <1>2, GoalSteps, NumbersBegin, NumbersLoad, NumbersCommit,
     NumbersRollBack

(* Every goal shows what the whole tree would give it, and a closed one    *)
(* its outcome, but for the causes NumbersExplained names: working out no  *)
(* more than the branch above a change, from the settled siblings'         *)
(* numbers, is enough, whatever else commits between the load and the      *)
(* write (loadGoalBranch and recomputeForGoal,                             *)
(* packages/core/src/scoring/recompute.ts).                                *)
THEOREM NumbersHaveACause == GoalSpec => []NumbersExplained
<1>1. GoalInit => NumInv
  BY NumbersStart
<1>2. NumInv /\ [GoalNext]_goalVars => NumInv'
  BY NumbersKept
<1>3. NumInv => NumbersExplained
  BY NumInvExplains
<1> QED
  BY <1>1, <1>2, <1>3, PTL DEF GoalSpec

------------------------------------------------------------------------------
(* The shape of all five *)

LEMMA GoalTypesAlways == GoalSpec => []GoalTypeOK
<1> DEFINE Inv == NumInv /\ rollUp \in RollUps
<1>1. GoalInit => Inv
  BY NumbersStart DEF GoalInit
<1>2. Inv /\ [GoalNext]_goalVars => Inv'
  <2> SUFFICES ASSUME Inv, [GoalNext]_goalVars PROVE Inv'
    OBVIOUS
  <2>1. rollUp' = rollUp
    <3>1. ASSUME NEW w \in Writers, Load(w) \/ Commit(w) \/ RollBack(w)
          PROVE  rollUp' = rollUp
      <4>1. Load(w) => rollUp' = rollUp
        BY DEF Load
      <4>2. Commit(w) => rollUp' = rollUp
        BY DEF Commit
      <4>3. RollBack(w) => rollUp' = rollUp
        BY DEF RollBack
      <4> QED
        BY <3>1, <4>1, <4>2, <4>3
    <3>2. ASSUME NEW w, NEW op, NEW g, NEW to, NEW goals, NEW krs,
                 Start(w, op, g, to, goals, krs)
          PROVE  rollUp' = rollUp
      BY <3>2 DEF Start
    <3> QED
      BY <3>1, <3>2 DEF GoalNext, RecordValue, PublishCheckIn, AlignGoal,
         DeleteGoal, RestoreGoal, CloseGoal, ReopenGoal, goalVars
  <2> QED
    BY <2>1, NumbersKept
<1>3. Inv => GoalTypeOK
  <2> SUFFICES ASSUME Inv PROVE GoalTypeOK
    OBVIOUS
  <2>1. ASSUME NEW w \in Writers, writer[w] # Adrift
        PROVE  /\ writer[w].goal \in Goals
               /\ writer[w].stage \in {"wrote", "loaded"}
               /\ writer[w].branch \subseteq Goals /\ writer[w].read \subseteq Goals
               /\ DOMAIN writer[w].moved \subseteq writer[w].branch
    BY <2>1 DEF NumInv, GoalShape, WriterShape, Transactions, Standing, InFlight
  <2> QED
    BY <2>1 DEF NumInv, GoalShape, Trees, GoalTypeOK
<1> QED
  BY <1>1, <1>2, <1>3, PTL DEF GoalSpec

(* Whatever a team does together keeps its shape: no session writes more   *)
(* digests than there are requests that close it, the streak stays within  *)
(* the calendar, a renumber within the numbers of its cards, and there are *)
(* no more copies of a cycle's inheritance than transactions that found    *)
(* none (core/src/actions/sessions.ts, tasks/service.ts,                   *)
(* scoring/recompute.ts and cycles/archive.ts).                            *)
THEOREM CollaborationTypesHold ==
  VoteSpec /\ WeekSpec /\ BoardSpec /\ GoalSpec /\ CycleSpec
    => []CollaborationTypeOK
<1>1. VoteInv => VoteTypeOK
  BY DEF VoteInv
<1>2. VoteSpec => []VoteTypeOK
  BY <1>1, VoteInvAlways, PTL
<1>3. VoteTypeOK /\ WeekTypeOK /\ BoardTypeOK /\ GoalTypeOK /\ CycleTypeOK
        => CollaborationTypeOK
  BY DEF CollaborationTypeOK
<1> QED
  BY <1>2, <1>3, WeekTypesAlways, BoardTypesAlways, GoalTypesAlways,
     CycleTypesAlways, PTL
=============================================================================
