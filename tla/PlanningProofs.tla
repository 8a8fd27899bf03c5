---------------------------- MODULE PlanningProofs ----------------------------
(***************************************************************************)
(* What a team plans with, for every number of cycles, cards and requests  *)
(* on them: a close's inheritance lands, lands once, and its result stands *)
(* (CycleClose); cards dragged into a column never share a place, and a    *)
(* drag moves one of them (TaskBoard).                                     *)
(*                                                                         *)
(* The first argument follows the row locks.  A close holds its cycle and  *)
(* a creation the one before its own, so the two meet on one row; what     *)
(* each desk has read of the rows it does not hold is bounded by the rest  *)
(* of the invariant.  The second follows the column's advisory lock: one   *)
(* drag at a time lands in a column, so the place it has read stays free   *)
(* among the cards that were put there under the lock.                     *)
(***************************************************************************)
EXTENDS CycleClose, TaskBoard, FiniteSetTheorems, WellFoundedInduction,
        NaturalsInduction, TLAPS

------------------------------------------------------------------------------
(* Shapes *)

Feeds ==
  [from : Cycles \cup {NoCycle}, to : Cycles \cup {NoCycle},
   seen : BOOLEAN, link : BOOLEAN]

Jobs ==
  [op : {"create", "close", "snapshot", "rerun"}, cycle : Cycles,
   stage : {"begun", "ready"}, rows : SUBSET Cycles,
   grade : Grades \cup {0}, fresh : BOOLEAN, feed : Feeds]

CycleShape ==
  /\ cycle \in [Cycles -> {"absent", "open", "closed", "archived"}]
  /\ score \in [Cycles -> Grades \cup {0}]
  /\ result \in [Cycles -> Grades \cup {0}]
  /\ copies \in [Cycles \X Cycles -> Nat]
  /\ fedBy \in [Cycles -> Cycles \cup {NoCycle}]
  /\ desk \in [Desks -> Jobs \cup {AtRest}]
  /\ sealed \in [Cycles -> Grades \cup {0}]
  /\ given \in [Cycles -> SUBSET Cycles]
  /\ unnamed \subseteq Cycles /\ slipped \subseteq Cycles
  /\ twice \subseteq Cycles \X Cycles

Working(d, o) == Busy(d) /\ desk[d].op = o
Ready(d, o)   == Working(d, o) /\ desk[d].stage = "ready"
Feeding(d)    == Busy(d) /\ desk[d].feed # NoFeed
Archived(c, a) ==
  \E x \in Cycles : c < x /\ x < a /\ cycle[x] = "archived"
HasHeir(c) == \E t \in Cycles : copies[<<t, c>>] > 0

------------------------------------------------------------------------------
(* The inductive invariant, what each transaction relies on *)

(* A close holds its cycle, which is open until it settles. *)
CloseHolds(d) ==
  Working(d, "close") =>
    /\ desk[d].rows = {desk[d].cycle} /\ cycle[desk[d].cycle] = "open"
    /\ Feeding(d) => desk[d].feed.from = desk[d].cycle

(* A creation's cycle is not there yet; it holds live cycles before it and *)
(* feeds from a closed one of those.                                       *)
CreateHolds(d) ==
  Working(d, "create") =>
    /\ cycle[desk[d].cycle] = "absent"
    /\ \A b \in desk[d].rows : b \in Live /\ b < desk[d].cycle
    /\ Feeding(d) => /\ desk[d].feed.to = desk[d].cycle
                     /\ desk[d].feed.from \in desk[d].rows
                     /\ cycle[desk[d].feed.from] = "closed"

FeedHolds(d) ==
  Feeding(d) =>
    /\ desk[d].op # "snapshot"
    /\ desk[d].feed.to \in Cycles /\ desk[d].feed.from \in Cycles
    /\ desk[d].op # "create" => cycle[desk[d].feed.to] # "absent"

(* What was read of the rows already written stays true, or a feed by hand *)
(* was beside it.                                                          *)
SeenHolds(d) ==
  Feeding(d) =>
    LET x == <<desk[d].feed.to, desk[d].feed.from>>
    IN  /\ desk[d].feed.seen => copies[x] > 0
        /\ ~desk[d].feed.seen => copies[x] = 0 \/ x \in twice

(* No cycle got what a creation is about to be fed. *)
UngivenHolds(d) ==
  Working(d, "create") /\ Feeding(d) =>
    \A a \in Live : desk[d].feed.from \in given[a] =>
                      desk[d].feed.from \in unnamed

(* A close that found no next cycle to feed still has none. *)
AheadHolds(d) ==
  Ready(d, "close") /\ ~Feeding(d) =>
    \A a \in After(desk[d].cycle) :
      cycle[a] = "closed" \/ Archived(desk[d].cycle, a)

(* What a creation looked back at is what is still before it, but for      *)
(* cycles created since, which nobody is closing.                          *)
BehindHolds(d) ==
  Ready(d, "create") =>
    \A x \in Live : x < desk[d].cycle =>
      \/ x \in desk[d].rows
      \/ \E b \in desk[d].rows : x < b
      \/ /\ cycle[x] = "open" /\ \A b \in desk[d].rows : b < x
         /\ \A e \in Desks : Working(e, "close") => desk[e].cycle # x

(* The closed cycle it holds feeds it or has fed another. *)
HeldIsFed(d) ==
  Ready(d, "create") =>
    \A b \in desk[d].rows : cycle[b] = "closed" =>
      (Feeding(d) /\ desk[d].feed.from = b) \/ HasHeir(b)

SnapshotSlips(d) ==
  Working(d, "snapshot") /\ cycle[desk[d].cycle] = "closed" =>
    desk[d].cycle \in slipped

DeskHolds(d) ==
  /\ CloseHolds(d) /\ CreateHolds(d) /\ FeedHolds(d) /\ SeenHolds(d)
  /\ UngivenHolds(d) /\ AheadHolds(d) /\ BehindHolds(d) /\ HeldIsFed(d)
  /\ SnapshotSlips(d)

(* Locks exclude each other, and so do two creations of one cycle. *)
DesksApart(d, e) ==
  Busy(d) /\ Busy(e) /\ d # e =>
    /\ desk[d].rows \cap desk[e].rows = {}
    /\ ~(desk[d].op = "create" /\ desk[e].op = "create"
           /\ desk[d].cycle = desk[e].cycle)

------------------------------------------------------------------------------
(* ... and what is committed *)

AbsentBare ==
  \A c \in Cycles : cycle[c] = "absent" =>
    given[c] = {} /\ \A b \in Cycles : copies[<<c, b>>] = 0
ClosedGives ==
  \A a, c \in Cycles : c \in given[a] => cycle[c] \in {"closed", "archived"}
GivenNames ==
  \A a \in Live : \A c \in given[a] : c \in unnamed \/ fedBy[a] = c
OneHeir ==
  \A a, b \in Live : \A c \in given[a] \cap given[b] : c \in unnamed \/ a = b
NamedIsFed ==
  \A a \in Cycles : fedBy[a] # NoCycle => copies[<<a, fedBy[a]>>] > 0
WrittenOnce ==
  \A x \in Cycles \X Cycles : copies[x] <= 1 \/ x \in twice
Lands ==
  \A c \in Cycles : cycle[c] = "closed" =>
    \A a \in After(c) : cycle[a] = "open" /\ ~Archived(c, a) => HasHeir(c)

RowsHold ==
  /\ AbsentBare /\ ClosedGives /\ GivenNames /\ OneHeir /\ NamedIsFed
  /\ WrittenOnce /\ Lands /\ ResultStands

CyclesInv ==
  /\ CycleShape
  /\ \A d \in Desks : DeskHolds(d)
  /\ \A d, e \in Desks : DesksApart(d, e)
  /\ RowsHold

------------------------------------------------------------------------------
LEMMA CyclesStart == CycleInit => CyclesInv
<1> SUFFICES ASSUME CycleInit PROVE CyclesInv
  OBVIOUS
<1> USE DEF CycleInit, CyclesAre
<1>1. CycleShape
  BY DEF CycleShape
<1>2. \A d \in Desks : ~Busy(d)
  BY DEF Busy
<1>3. \A d \in Desks : DeskHolds(d)
  BY <1>2 DEF DeskHolds, CloseHolds, CreateHolds, FeedHolds, SeenHolds,
    UngivenHolds, AheadHolds, BehindHolds, HeldIsFed, SnapshotSlips, Feeding,
    Ready, Working
<1>4. \A d, e \in Desks : DesksApart(d, e)
  BY <1>2 DEF DesksApart
<1>5. RowsHold
  BY DEF RowsHold, AbsentBare, ClosedGives, GivenNames, OneHeir, NamedIsFed,
    WrittenOnce, Lands, ResultStands, NoCycle, Live
<1> QED
  BY <1>1, <1>3, <1>4, <1>5 DEF CyclesInv

(* Score alone decides nothing here. *)
LEMMA GradesKeep ==
  ASSUME CyclesInv, NEW c \in Cycles, NEW v \in Grades, Grade(c, v)
  PROVE  CyclesInv'
<1> USE DEF Grade
<1>1. CycleShape'
  BY DEF CyclesInv, CycleShape, memory
<1>2. \A d \in Desks : DeskHolds(d)'
  BY DEF CyclesInv, DeskHolds, CloseHolds, CreateHolds, FeedHolds, SeenHolds,
    UngivenHolds, AheadHolds, BehindHolds, HeldIsFed, SnapshotSlips, Feeding,
    Ready, Working, Busy, Live, After, Archived, HasHeir, memory
<1>3. \A d, e \in Desks : DesksApart(d, e)'
  BY DEF CyclesInv, DesksApart, Busy
<1>4. RowsHold'
  BY DEF CyclesInv, RowsHold, AbsentBare, ClosedGives, GivenNames, OneHeir,
    NamedIsFed, WrittenOnce, Lands, ResultStands, Live, After, Archived,
    HasHeir, memory
<1> QED
  BY <1>1, <1>2, <1>3, <1>4 DEF CyclesInv

(* An archived cycle is nobody's, and leaves a gap where it was. *)
LEMMA ArchiveKeeps ==
  ASSUME CyclesInv, NEW c \in Cycles, ArchiveCycle(c)
  PROVE  CyclesInv'
<1> USE DEF ArchiveCycle, memory
<1>1. CycleShape'
  BY DEF CyclesInv, CycleShape
<1>2. /\ Live' = Live \ {c} /\ cycle'[c] = "archived" /\ c \in Live
      /\ \A x \in Cycles : x # c => cycle'[x] = cycle[x]
  BY DEF CyclesInv, CycleShape, Live
<1>3. \A b, a : Archived(b, a) => Archived(b, a)'
  BY <1>2 DEF Archived
<1>4. \A b \in Cycles : \A a \in After(b)' : a \in After(b) \/ Archived(b, a)'
  BY <1>2, CycleConstants DEF After, Archived, Live
<1>5. \A b : HasHeir(b)' <=> HasHeir(b)
  BY DEF HasHeir
<1>6. ASSUME NEW d \in Desks PROVE DeskHolds(d)'
  <2> HIDE DEF ArchiveCycle
  <2>1. /\ DeskHolds(d) /\ (Busy(d) => desk[d] \in Jobs)
    BY DEF CyclesInv, CycleShape, Busy
  <2>2. Busy(d) => c \notin desk[d].rows
    BY DEF ArchiveCycle
  <2>3. desk' = desk /\ given' = given /\ unnamed' = unnamed /\ copies' = copies
        /\ twice' = twice /\ slipped' = slipped
    BY DEF ArchiveCycle
  <2> USE <2>1, <2>2, <2>3 DEF Ready, Working, Feeding, Busy
  <2>4. CloseHolds(d)'
    BY <1>2 DEF DeskHolds, CloseHolds, Jobs
  <2>5. CreateHolds(d)'
    BY <1>2 DEF DeskHolds, CreateHolds, Jobs, Live
  <2>6. FeedHolds(d)'
    BY <1>2 DEF DeskHolds, FeedHolds, Jobs
  <2>7. SeenHolds(d)'
    BY DEF DeskHolds, SeenHolds
  <2>8. UngivenHolds(d)'
    BY <1>2 DEF DeskHolds, UngivenHolds
  <2>9. AheadHolds(d)'
    BY <1>2, <1>3, <1>4 DEF DeskHolds, AheadHolds, Jobs, After, Live
  <2>10. BehindHolds(d)'
    BY <1>2 DEF DeskHolds, BehindHolds, Jobs, Live
  <2>11. HeldIsFed(d)'
    BY <1>2, <1>5 DEF DeskHolds, HeldIsFed, Jobs, Live
  <2>12. SnapshotSlips(d)'
    BY <1>2 DEF DeskHolds, SnapshotSlips, Jobs, Live
  <2> QED
    BY <2>4, <2>5, <2>6, <2>7, <2>8, <2>9, <2>10, <2>11, <2>12 DEF DeskHolds
<1>7. \A d, e \in Desks : DesksApart(d, e)'
  BY DEF CyclesInv, DesksApart, Busy
<1>8. AbsentBare' /\ ClosedGives' /\ GivenNames' /\ OneHeir'
  BY <1>2 DEF CyclesInv, RowsHold, AbsentBare, ClosedGives, GivenNames,
    OneHeir, Live
<1>9. NamedIsFed' /\ WrittenOnce' /\ ResultStands'
  BY <1>2 DEF CyclesInv, RowsHold, NamedIsFed, WrittenOnce, ResultStands
<1>10. Lands'
  BY <1>2, <1>3, <1>4, <1>5 DEF CyclesInv, RowsHold, Lands, After, Live
<1> QED
  BY <1>1, <1>6, <1>7, <1>8, <1>9, <1>10 DEF CyclesInv, RowsHold

------------------------------------------------------------------------------
(* Steps of one desk that commit nothing.  They keep the invariant when    *)
(* the desk's new job fits, and when a close that begins is not of a cycle *)
(* some creation has overlooked.                                           *)

CommitsNothing ==
  /\ cycle' = cycle /\ score' = score /\ result' = result
  /\ copies' = copies /\ fedBy' = fedBy /\ memory' = memory

LEMMA DeskStep ==
  ASSUME CyclesInv, CommitsNothing, NEW d \in Desks,
         NEW J \in Jobs \cup {AtRest}, desk' = [desk EXCEPT ![d] = J],
         DeskHolds(d)',
         \A e \in Desks : DesksApart(d, e)',
         Working(d, "close")' =>
           \/ Working(d, "close") /\ desk[d].cycle = J.cycle
           \/ ~Overlooked(J.cycle)
  PROVE  CyclesInv'
<1> USE DEF CommitsNothing, memory
<1>1. CycleShape'
  BY DEF CyclesInv, CycleShape
<1>2. desk'[d] = J /\ \A e \in Desks : e # d => desk'[e] = desk[e]
  BY DEF CyclesInv, CycleShape
<1>3. ASSUME NEW e \in Desks, e # d PROVE DeskHolds(e)'
  <2>1. DeskHolds(e) /\ desk'[e] = desk[e] /\ (Busy(e) => desk[e] \in Jobs)
    BY <1>2, <1>3 DEF CyclesInv, CycleShape, Busy
  <2> USE <2>1 DEF Ready, Working, Feeding, Busy
  <2>2. CloseHolds(e)' /\ CreateHolds(e)' /\ FeedHolds(e)' /\ SeenHolds(e)'
    BY DEF DeskHolds, CloseHolds, CreateHolds, FeedHolds, SeenHolds, Live
  <2>3. UngivenHolds(e)' /\ AheadHolds(e)' /\ HeldIsFed(e)' /\ SnapshotSlips(e)'
    BY DEF DeskHolds, UngivenHolds, AheadHolds, HeldIsFed, SnapshotSlips, Live,
      After, Archived, HasHeir
  <2>4. BehindHolds(e)'
    <3> SUFFICES ASSUME Ready(e, "create"), NEW x \in Live, x < desk[e].cycle,
                        x \notin desk[e].rows,
                        \A b \in desk[e].rows : ~(x < b)
                 PROVE  /\ cycle[x] = "open" /\ \A b \in desk[e].rows : b < x
                        /\ \A h \in Desks : Working(h, "close")' =>
                                              desk'[h].cycle # x
      BY DEF BehindHolds, Live
    <3>1. /\ cycle[x] = "open" /\ \A b \in desk[e].rows : b < x
          /\ \A h \in Desks : Working(h, "close") => desk[h].cycle # x
      BY DEF DeskHolds, BehindHolds
    <3>2. Overlooked(x)
      BY <3>1 DEF Overlooked
    <3> QED
      BY <3>1, <3>2, <1>2
  <2> QED
    BY <2>2, <2>3, <2>4 DEF DeskHolds
<1>4. \A e, h \in Desks : DesksApart(e, h)'
  BY <1>2 DEF CyclesInv, DesksApart, Busy
<1>5. RowsHold'
  BY DEF CyclesInv, RowsHold, AbsentBare, ClosedGives, GivenNames, OneHeir,
    NamedIsFed, WrittenOnce, Lands, ResultStands, Live, After, Archived,
    HasHeir
<1> QED
  BY <1>1, <1>3, <1>4, <1>5 DEF CyclesInv

------------------------------------------------------------------------------
(* Of the live cycles before one, one is the nearest. *)
LEMMA NearestBefore ==
  ASSUME NEW c \in Cycles, NEW x \in Live, x < c
  PROVE  \E b \in Before(c) : x <= b
<1> DEFINE T == {c - y : y \in {z \in Live : z < c}}
<1> USE CycleConstants
<1>1. T \subseteq Nat /\ T # {}
  BY DEF Live
<1>2. PICK t \in T : \A u \in T : ~(<<u, t>> \in OpToRel(<, Nat))
  BY <1>1, NatLessThanWellFounded, WFMin
<1>3. \A u \in T : ~(u < t)
  BY <1>1, <1>2 DEF OpToRel
<1>4. PICK b \in Live : b < c /\ t = c - b
  OBVIOUS
<1>5. \A z \in Live : z < c => z <= b
  <2> TAKE z \in Live
  <2> HAVE z < c
  <2>1. c - z \in T /\ c \in Nat /\ z \in Nat /\ b \in Nat
    BY DEF Live
  <2>2. ~(c - z < c - b)
    BY <2>1, <1>3, <1>4
  <2> QED
    BY <2>1, <2>2
<1> QED
  BY <1>4, <1>5 DEF Before

------------------------------------------------------------------------------
(* What each desk does before it settles *)

LEMMA JobFits ==
  ASSUME CycleShape, NEW op \in {"create", "close", "snapshot", "rerun"},
         NEW c \in Cycles, NEW stage \in {"begun", "ready"},
         NEW rows \in SUBSET Cycles
  PROVE  Job(op, c, stage, rows) \in Jobs
BY DEF CycleShape, Job, Jobs, NoFeed, Feeds

LEMMA WithdrawKeeps ==
  ASSUME CyclesInv, NEW d \in Desks, Withdraw(d)
  PROVE  CyclesInv'
<1>1. CommitsNothing /\ desk' = [desk EXCEPT ![d] = AtRest]
  BY DEF Withdraw, CommitsNothing, registry, Take
<1>2. ~Busy(d)'
  BY <1>1 DEF Busy, CyclesInv, CycleShape
<1>3. DeskHolds(d)' /\ \A e \in Desks : DesksApart(d, e)'
  BY <1>2 DEF DeskHolds, CloseHolds, CreateHolds, FeedHolds, SeenHolds,
    UngivenHolds, AheadHolds, BehindHolds, HeldIsFed, SnapshotSlips, Feeding,
    Ready, Working, DesksApart
<1> QED
  BY <1>1, <1>2, <1>3, DeskStep DEF Working

LEMMA CreateKeeps ==
  ASSUME CyclesInv, NEW d \in Desks, NEW c \in Cycles, CreateCycle(d, c)
  PROVE  CyclesInv'
<1> DEFINE J == Job("create", c, "begun", {})
<1>1. CommitsNothing /\ desk' = [desk EXCEPT ![d] = J] /\ J \in Jobs
  BY JobFits DEF CreateCycle, CommitsNothing, registry, Take, CyclesInv
<1>2. /\ desk'[d] = J /\ \A e \in Desks : e # d => desk'[e] = desk[e]
      /\ J.op = "create" /\ J.stage = "begun" /\ J.cycle = c /\ J.rows = {}
      /\ J.feed = NoFeed /\ J # AtRest
  BY <1>1 DEF CyclesInv, CycleShape, Job, AtRest
<1>3. cycle[c] = "absent" /\ cycle' = cycle
  BY DEF CreateCycle, registry
<1>4. DeskHolds(d)'
  BY <1>2, <1>3 DEF DeskHolds, CloseHolds, CreateHolds, FeedHolds, SeenHolds,
    UngivenHolds, AheadHolds, BehindHolds, HeldIsFed, SnapshotSlips, Feeding,
    Ready, Working
<1>5. \A e \in Desks : DesksApart(d, e)'
  BY <1>2 DEF DesksApart, Busy, CreateCycle
<1> HIDE DEF J
<1> QED
  BY <1>1, <1>2, <1>4, <1>5, DeskStep DEF Working

LEMMA CloseBegins ==
  ASSUME CyclesInv, NEW d \in Desks, NEW c \in Cycles, CloseCycle(d, c)
  PROVE  CyclesInv'
<1> DEFINE J == Job("close", c, "begun", {c})
<1>1. CommitsNothing /\ desk' = [desk EXCEPT ![d] = J] /\ J \in Jobs
  BY JobFits DEF CloseCycle, CommitsNothing, registry, Take, CyclesInv
<1>2. /\ desk'[d] = J /\ \A e \in Desks : e # d => desk'[e] = desk[e]
      /\ J.op = "close" /\ J.stage = "begun" /\ J.cycle = c /\ J.rows = {c}
      /\ J.feed = NoFeed /\ J # AtRest
  BY <1>1 DEF CyclesInv, CycleShape, Job, AtRest
<1>3. cycle[c] = "open" /\ cycle' = cycle /\ ~Overlooked(c)
      /\ RowUnlocked(d, c)
  BY DEF CloseCycle, registry
<1>4. DeskHolds(d)'
  BY <1>2, <1>3 DEF DeskHolds, CloseHolds, CreateHolds, FeedHolds, SeenHolds,
    UngivenHolds, AheadHolds, BehindHolds, HeldIsFed, SnapshotSlips, Feeding,
    Ready, Working
<1>5. \A e \in Desks : DesksApart(d, e)'
  BY <1>2, <1>3 DEF DesksApart, Busy, RowUnlocked
<1> HIDE DEF J
<1> QED
  BY <1>1, <1>2, <1>3, <1>4, <1>5, DeskStep DEF Working

LEMMA SnapshotBegins ==
  ASSUME CyclesInv, NEW d \in Desks, NEW c \in Cycles, SnapshotCycle(d, c)
  PROVE  CyclesInv'
<1> DEFINE J == Job("snapshot", c, "ready", {})
<1>1. CommitsNothing /\ desk' = [desk EXCEPT ![d] = J] /\ J \in Jobs
  BY JobFits DEF SnapshotCycle, CommitsNothing, registry, Take, CyclesInv
<1>2. /\ desk'[d] = J /\ J.op = "snapshot" /\ J.cycle = c /\ J.rows = {}
      /\ J.feed = NoFeed
  BY <1>1 DEF CyclesInv, CycleShape, Job
<1>3. cycle[c] = "open" /\ cycle' = cycle
  BY DEF SnapshotCycle, registry
<1>4. DeskHolds(d)'
  BY <1>2, <1>3 DEF DeskHolds, CloseHolds, CreateHolds, FeedHolds, SeenHolds,
    UngivenHolds, AheadHolds, BehindHolds, HeldIsFed, SnapshotSlips, Feeding,
    Ready, Working
<1>5. \A e \in Desks : DesksApart(d, e)'
  BY <1>2 DEF DesksApart
<1> HIDE DEF J
<1> QED
  BY <1>1, <1>2, <1>4, <1>5, DeskStep DEF Working

LEMMA FeedFields ==
  ASSUME NEW b \in Cycles, NEW a \in Cycles,
         NEW s \in BOOLEAN, NEW l \in BOOLEAN
  PROVE  LET f == [from |-> b, to |-> a, seen |-> s, link |-> l]
         IN  /\ f \in Feeds /\ f # NoFeed
             /\ f.from = b /\ f.to = a /\ f.seen = s
<1> DEFINE f == [from |-> b, to |-> a, seen |-> s, link |-> l]
<1>1. f \in Feeds /\ f.from = b /\ f.to = a /\ f.seen = s
  BY DEF Feeds
<1>2. NoFeed.from = NoCycle /\ b # NoCycle
  BY CycleConstants DEF NoFeed, NoCycle
<1> QED
  BY <1>1, <1>2

(* What is read of a feed's target is true when it is read. *)
LEMMA FeedReads ==
  ASSUME CycleShape, NEW b \in Cycles, NEW a \in Cycles
  PROVE  /\ Feed(b, a) \in Feeds /\ Feed(b, a) # NoFeed
         /\ Feed(b, a).from = b /\ Feed(b, a).to = a
         /\ Feed(b, a).seen => copies[<<a, b>>] > 0
         /\ ~Feed(b, a).seen => copies[<<a, b>>] = 0
<1> DEFINE s == copies[<<a, b>>] > 0
           l == fedBy[a] = NoCycle
<1>1. copies[<<a, b>>] \in Nat /\ s \in BOOLEAN /\ l \in BOOLEAN
  BY DEF CycleShape
<1>2. Feed(b, a) = [from |-> b, to |-> a, seen |-> s, link |-> l]
  BY DEF Feed
<1>3. s <=> copies[<<a, b>>] > 0
  OBVIOUS
<1> HIDE DEF s, l
<1>4. /\ Feed(b, a) \in Feeds /\ Feed(b, a) # NoFeed
      /\ Feed(b, a).from = b /\ Feed(b, a).to = a /\ Feed(b, a).seen = s
  BY <1>1, <1>2, FeedFields
<1> QED
  BY <1>1, <1>3, <1>4

LEMMA RerunBegins ==
  ASSUME CyclesInv, NEW d \in Desks, NEW from \in Cycles, NEW to \in Cycles,
         FeedForward(d, from, to)
  PROVE  CyclesInv'
<1> DEFINE K == Job("rerun", to, "ready", {})
           F == Feed(from, to)
           J == [K EXCEPT !.feed = F]
<1>1. CommitsNothing /\ desk' = [desk EXCEPT ![d] = J]
  BY DEF FeedForward, CommitsNothing, Take
<1>2. K \in Jobs /\ K.op = "rerun" /\ K.rows = {}
  BY JobFits DEF CyclesInv, Job
<1>3. /\ F \in Feeds /\ F.from = from /\ F.to = to
      /\ F.seen => copies[<<to, from>>] > 0
      /\ ~F.seen => copies[<<to, from>>] = 0
  BY FeedReads DEF CyclesInv
<1> HIDE DEF K, F
<1>4. /\ desk'[d] = J /\ J \in Jobs /\ J.op = "rerun" /\ J.rows = {}
      /\ J.feed = F
  BY <1>1, <1>2, <1>3 DEF CyclesInv, CycleShape, Jobs
<1> HIDE DEF J
<1>5. /\ cycle[to] = "open" /\ cycle' = cycle /\ copies' = copies
      /\ twice' = twice
  BY DEF FeedForward, memory
<1>6. FeedHolds(d)' /\ SeenHolds(d)'
  BY <1>4, <1>5, <1>3 DEF FeedHolds, SeenHolds, Feeding
<1>7. DeskHolds(d)'
  BY <1>4, <1>6 DEF DeskHolds, CloseHolds, CreateHolds,
    UngivenHolds, AheadHolds, BehindHolds, HeldIsFed, SnapshotSlips,
    Ready, Working
<1>8. \A e \in Desks : DesksApart(d, e)'
  BY <1>4 DEF DesksApart
<1> QED
  BY <1>1, <1>4, <1>7, <1>8, DeskStep DEF Working

LEMMA LookAheadKeeps ==
  ASSUME CyclesInv, NEW d \in Desks, LookAhead(d)
  PROVE  CyclesInv'
<1> DEFINE K == desk[d]
           c == K.cycle
           next == {a \in After(c) : cycle[a] # "closed"}
<1>1. /\ Busy(d) /\ K \in Jobs /\ K.op = "close" /\ K.stage = "begun"
      /\ CloseHolds(d) /\ c \in Cycles
  BY DEF LookAhead, CyclesInv, CycleShape, Busy, DeskHolds, Jobs
<1>2. PICK f \in IF next = {} THEN {NoFeed} ELSE {Feed(c, a) : a \in next} :
        desk' = [desk EXCEPT ![d] = [K EXCEPT !.stage = "ready", !.feed = f]]
  BY DEF LookAhead, Take
<1>3. \/ next = {} /\ f = NoFeed
      \/ \E a \in next : f = Feed(c, a)
  BY <1>2
<1>4. \A a \in next : a \in Cycles /\ cycle[a] # "absent"
  BY DEF After, Live
<1>5. /\ f \in Feeds
      /\ f # NoFeed => /\ f.from = c /\ f.to \in Cycles
                       /\ cycle[f.to] # "absent"
                       /\ f.seen => copies[<<f.to, c>>] > 0
                       /\ ~f.seen => copies[<<f.to, c>>] = 0
  <2>1. CASE f = NoFeed
    BY <2>1 DEF Feeds, NoFeed
  <2>2. CASE f # NoFeed
    <3>1. PICK a \in next : f = Feed(c, a)
      BY <2>2, <1>3
    <3>2. CycleShape /\ a \in Cycles /\ cycle[a] # "absent"
      BY <1>4 DEF CyclesInv
    <3> HIDE DEF next, c
    <3>3. /\ Feed(c, a) \in Feeds /\ Feed(c, a).from = c /\ Feed(c, a).to = a
          /\ Feed(c, a).seen => copies[<<a, c>>] > 0
          /\ ~Feed(c, a).seen => copies[<<a, c>>] = 0
      BY <1>1, <3>2, FeedReads
    <3> HIDE <1>1, <1>2, <1>3
    <3> QED
      BY <3>1, <3>2, <3>3
  <2> QED
    BY <2>1, <2>2
<1>6. f = NoFeed => \A a \in After(c) : cycle[a] = "closed"
  <2>1. ASSUME NEW a \in next PROVE Feed(c, a) # NoFeed
    <3>1. CycleShape /\ a \in Cycles /\ c \in Cycles
      BY <1>1, <1>4 DEF CyclesInv
    <3> HIDE DEF next, c
    <3> QED
      BY <3>1, FeedReads
  <2>2. f = NoFeed => next = {}
    BY <2>1, <1>3
  <2> QED
    BY <2>2
<1> DEFINE J == [K EXCEPT !.stage = "ready", !.feed = f]
<1> HIDE DEF next
<1>7. /\ desk'[d] = J /\ J \in Jobs /\ J.op = "close" /\ J.rows = K.rows
      /\ J.feed = f /\ J.cycle = c
      /\ \A e \in Desks : e # d => desk'[e] = desk[e]
  BY <1>1, <1>2, <1>5 DEF CyclesInv, CycleShape, Jobs
<1>8. /\ CommitsNothing /\ desk' = [desk EXCEPT ![d] = J]
      /\ cycle' = cycle /\ copies' = copies /\ twice' = twice
  BY <1>2 DEF LookAhead, CommitsNothing, registry, memory
<1> HIDE DEF J, K
<1>10. CloseHolds(d)' /\ FeedHolds(d)' /\ SeenHolds(d)'
  BY <1>1, <1>5, <1>7, <1>8 DEF CloseHolds, FeedHolds, SeenHolds, Feeding,
    Working, K
<1>11. AheadHolds(d)'
  BY <1>6, <1>7, <1>8 DEF AheadHolds, Feeding, Ready, Working, Busy, AtRest,
    After, Live, Jobs
<1>12. DeskHolds(d)'
  BY <1>7, <1>10, <1>11 DEF DeskHolds, CreateHolds, UngivenHolds, BehindHolds,
    HeldIsFed, SnapshotSlips, Ready, Working
<1>13. \A e \in Desks : DesksApart(d, e)'
  BY <1>1, <1>7 DEF CyclesInv, DesksApart, Busy, K
<1>14. Working(d, "close") /\ desk[d].cycle = J.cycle
  BY <1>1, <1>7 DEF Working, K
<1> QED
  BY <1>7, <1>8, <1>12, <1>13, <1>14, DeskStep

LEMMA LookBackKeeps ==
  ASSUME CyclesInv, NEW d \in Desks, LookBack(d)
  PROVE  CyclesInv'
<1> DEFINE K == desk[d]
           c == K.cycle
           due == {b \in Before(c) :
                     cycle[b] = "closed" /\ \A a \in Live : fedBy[a] # b}
           feeds == {[from |-> b, to |-> c, seen |-> FALSE, link |-> TRUE] :
                       b \in due}
<1>1. /\ Busy(d) /\ K \in Jobs /\ K.op = "create" /\ K.stage = "begun"
      /\ CreateHolds(d) /\ c \in Cycles
  BY DEF LookBack, CyclesInv, CycleShape, Busy, DeskHolds, Jobs
<1>2. PICK f \in IF due = {} THEN {NoFeed} ELSE feeds :
        desk' = [desk EXCEPT ![d] = [K EXCEPT !.stage = "ready",
                                       !.rows = Before(c), !.feed = f]]
  BY DEF LookBack, Take
<1>3. \/ due = {} /\ f = NoFeed
      \/ \E b \in due :
           f = [from |-> b, to |-> c, seen |-> FALSE, link |-> TRUE]
  BY <1>2
<1>4. \A b \in Before(c) : b \in Live /\ b \in Cycles /\ b < c
  BY DEF Before, Live
<1>5. /\ f \in Feeds
      /\ f = NoFeed => due = {}
      /\ f # NoFeed => f.to = c /\ f.from \in due /\ ~f.seen
  <2>1. CASE f = NoFeed
    <3>1. ASSUME NEW b \in due
          PROVE  [from |-> b, to |-> c, seen |-> FALSE, link |-> TRUE] # NoFeed
      <4>1. b \in Cycles /\ c \in Cycles
        BY <1>1, <1>4
      <4> HIDE DEF due, c
      <4> QED
        BY <4>1, FeedFields
    <3> QED
      BY <2>1, <3>1, <1>3 DEF Feeds, NoFeed
  <2>2. CASE f # NoFeed
    <3>1. PICK b \in due :
            f = [from |-> b, to |-> c, seen |-> FALSE, link |-> TRUE]
      BY <2>2, <1>3
    <3>2. b \in Cycles
      BY <1>4
    <3> QED
      BY <1>1, <2>2, <3>1, <3>2, FeedFields
  <2> QED
    BY <2>1, <2>2
<1>6. Before(c) \in SUBSET Cycles
  BY <1>4
<1> DEFINE J == [K EXCEPT !.stage = "ready", !.rows = Before(c), !.feed = f]
<1>7. /\ desk'[d] = J /\ J \in Jobs /\ J.op = "create" /\ J.rows = Before(c)
      /\ J.feed = f /\ J.cycle = c /\ J # AtRest
      /\ \A e \in Desks : e # d => desk'[e] = desk[e]
  BY <1>1, <1>2, <1>5, <1>6 DEF CyclesInv, CycleShape, Jobs, AtRest
<1>8. /\ CommitsNothing /\ desk' = [desk EXCEPT ![d] = J]
      /\ cycle' = cycle /\ copies' = copies /\ twice' = twice
      /\ given' = given /\ unnamed' = unnamed
  BY <1>2 DEF LookBack, CommitsNothing, registry, memory
<1>9. f # NoFeed => f.from \in Before(c) /\ cycle[f.from] = "closed"
  BY <1>5
<1>10. cycle[c] = "absent"
  BY <1>1 DEF CreateHolds, Working
<1> HIDE DEF J
<1>11. CreateHolds(d)' /\ FeedHolds(d)'
  BY <1>4, <1>5, <1>7, <1>8, <1>9, <1>10, <1>1 DEF CreateHolds, FeedHolds,
    Feeding, Live, Working
<1>12. SeenHolds(d)'
  <2>1. f # NoFeed => copies[<<c, f.from>>] = 0
    BY <1>1, <1>4, <1>9, <1>10 DEF CyclesInv, RowsHold, AbsentBare
  <2> QED
    BY <2>1, <1>5, <1>7, <1>8 DEF SeenHolds, Feeding
<1>13. UngivenHolds(d)'
  <2>1. f # NoFeed => \A a \in Live : fedBy[a] # f.from
    BY <1>5
  <2>2. f # NoFeed => \A a \in Live : f.from \in given[a] => f.from \in unnamed
    BY <2>1 DEF CyclesInv, RowsHold, GivenNames
  <2> QED
    BY <2>2, <1>7, <1>8 DEF UngivenHolds, Feeding, Live
<1>14. BehindHolds(d)'
  <2>1. \A x \in Live : x < c => \E b \in Before(c) : x <= b
    BY <1>1, NearestBefore
  <2>2. \A x \in Live, b \in Before(c) : x \in Nat /\ b \in Nat
    BY <1>4, CycleConstants DEF Live
  <2>3. \A x \in Live : x < c => x \in Before(c) \/ \E b \in Before(c) : x < b
    <3> TAKE x \in Live
    <3> HAVE x < c
    <3>1. PICK b \in Before(c) : x <= b
      BY <2>1
    <3>2. x = b \/ x < b
      BY <2>2, <3>1
    <3> QED
      BY <3>2
  <2> QED
    BY <2>3, <1>7, <1>8 DEF BehindHolds, Live
<1>15. HeldIsFed(d)'
  <2> SUFFICES ASSUME NEW b \in Before(c), cycle[b] = "closed"
               PROVE  (f # NoFeed /\ f.from = b) \/ HasHeir(b)
    BY <1>7, <1>8 DEF HeldIsFed, HasHeir, Feeding, Busy
  <2>1. CASE b \in due
    <3>1. f # NoFeed
      BY <2>1, <1>5
    <3>2. f.from \in Before(c)
      BY <3>1, <1>9
    <3>3. \A p, q \in Before(c) : p = q
      <4>1. \A p, q \in Before(c) : p <= q
        BY <1>4 DEF Before
      <4>2. \A p \in Before(c) : p \in Nat
        BY <1>4, CycleConstants
      <4> QED
        BY <4>1, <4>2
    <3> QED
      BY <3>1, <3>2, <3>3
  <2>2. CASE b \notin due
    <3>1. PICK a \in Live : fedBy[a] = b
      BY <2>2
    <3>2. a \in Cycles /\ b \in Cycles /\ b # NoCycle
      BY <1>4, CycleConstants DEF Live, NoCycle
    <3>3. copies[<<a, b>>] > 0
      BY <3>1, <3>2 DEF CyclesInv, RowsHold, NamedIsFed
    <3> QED
      BY <3>2, <3>3 DEF HasHeir
  <2> QED
    BY <2>1, <2>2
<1>16. DeskHolds(d)'
  BY <1>7, <1>11, <1>12, <1>13, <1>14, <1>15 DEF DeskHolds, CloseHolds,
    AheadHolds, SnapshotSlips, Ready, Working
<1>17. \A e \in Desks : DesksApart(d, e)'
  <2> TAKE e \in Desks
  <2>1. \A b \in Before(c) : RowUnlocked(d, b)
    BY DEF LookBack
  <2>2. DesksApart(d, e)
    BY DEF CyclesInv
  <2> QED
    BY <2>1, <2>2, <1>1, <1>7 DEF DesksApart, Busy, RowUnlocked
<1>18. ~Working(d, "close")'
  BY <1>7 DEF Working
<1> QED
  BY <1>7, <1>8, <1>16, <1>17, <1>18, DeskStep

------------------------------------------------------------------------------
(* The commit of a desk *)

LEMMA SettleKeeps ==
  ASSUME CyclesInv, NEW d \in Desks, Settle(d)
  PROVE  CyclesInv'
<1> DEFINE j == desk[d]
           f == j.feed
           x == <<f.to, f.from>>
           named == f.link /\ (f.to \in Live \/ j.op = "create")
<1>1. /\ Busy(d) /\ j \in Jobs /\ j.stage = "ready" /\ DeskHolds(d)
      /\ j.cycle \in Cycles /\ RowsHold /\ CycleShape
      /\ \A e \in Desks : DesksApart(d, e)
  BY DEF Settle, CyclesInv, CycleShape, Busy, Jobs
<1>2. f # NoFeed => /\ f.to \in Cycles /\ f.from \in Cycles
                    /\ x \in Cycles \X Cycles /\ j.op # "snapshot"
  BY <1>1 DEF DeskHolds, FeedHolds, Feeding
<1>3. /\ ~Busy(d)' /\ desk'[d] = AtRest
      /\ \A e \in Desks : e # d => desk'[e] = desk[e]
  BY <1>1 DEF Settle, CycleShape, Busy
<1>4. /\ cycle' = CASE j.op = "create" -> [cycle EXCEPT ![j.cycle] = "open"]
                    [] j.op = "close"  -> [cycle EXCEPT ![j.cycle] = "closed"]
                    [] OTHER -> cycle
      /\ result' = IF j.op \in {"close", "snapshot"}
                     THEN [result EXCEPT ![j.cycle] = j.grade] ELSE result
      /\ sealed' = IF j.op = "close" THEN [sealed EXCEPT ![j.cycle] = j.grade]
                   ELSE sealed
  BY DEF Settle
<1>5. /\ j.op = "create" => cycle[j.cycle] = "absent" /\ cycle'[j.cycle] = "open"
      /\ j.op = "close" => cycle[j.cycle] = "open" /\ cycle'[j.cycle] = "closed"
      /\ \A c \in Cycles : c # j.cycle \/ j.op \notin {"create", "close"} =>
                             cycle'[c] = cycle[c]
  BY <1>1, <1>4 DEF DeskHolds, CreateHolds, CloseHolds, Working, CycleShape
<1>6. /\ f = NoFeed => copies' = copies /\ fedBy' = fedBy
      /\ f # NoFeed =>
           /\ copies' = IF f.seen THEN copies ELSE [copies EXCEPT ![x] = @ + 1]
           /\ fedBy' = IF named THEN [fedBy EXCEPT ![f.to] = f.from] ELSE fedBy
  BY DEF Settle
<1>7. /\ given' = IF f # NoFeed /\ j.op # "rerun"
                    THEN [given EXCEPT ![f.to] = @ \cup {f.from}] ELSE given
      /\ twice' = IF f # NoFeed /\ Overlapping(d, f)
                    THEN twice \cup {x} ELSE twice
      /\ slipped' = IF j.op = "close"
                     /\ \E e \in Desks : /\ Busy(e) /\ desk[e].op = "snapshot"
                                         /\ desk[e].cycle = j.cycle
                      THEN slipped \cup {j.cycle} ELSE slipped
  BY DEF Settle
<1>8. unnamed' = IF f = NoFeed THEN unnamed
                 ELSE unnamed
                   \cup (IF named THEN {fedBy[f.to]} \ {NoCycle, f.from} ELSE {})
                   \cup (IF ~named /\ j.op # "rerun" THEN {f.from} ELSE {})
  BY DEF Settle
<1> HIDE DEF named, x
<1>9. CycleShape'
  <2>1. j.grade \in Grades \cup {0}
    BY <1>1 DEF Jobs
  <2>2. /\ cycle' \in [Cycles -> {"absent", "open", "closed", "archived"}]
        /\ score' \in [Cycles -> Grades \cup {0}]
        /\ result' \in [Cycles -> Grades \cup {0}]
        /\ sealed' \in [Cycles -> Grades \cup {0}]
    BY <1>1, <1>4, <2>1 DEF CycleShape, Settle
  <2>3. /\ copies' \in [Cycles \X Cycles -> Nat]
        /\ fedBy' \in [Cycles -> Cycles \cup {NoCycle}]
    <3>1. copies \in [Cycles \X Cycles -> Nat]
          /\ fedBy \in [Cycles -> Cycles \cup {NoCycle}]
      BY <1>1 DEF CycleShape
    <3>2. copies' \in [Cycles \X Cycles -> Nat]
      BY <1>2, <1>6, <3>1
    <3>3. fedBy' \in [Cycles -> Cycles \cup {NoCycle}]
      BY <1>2, <1>6, <3>1
    <3> QED
      BY <3>2, <3>3
  <2>4. desk' \in [Desks -> Jobs \cup {AtRest}]
    BY <1>1 DEF CycleShape, Settle
  <2>5. given' \in [Cycles -> SUBSET Cycles]
    BY <1>1, <1>2, <1>7 DEF CycleShape
  <2>6. f # NoFeed => fedBy[f.to] \in Cycles \cup {NoCycle}
    BY <1>1, <1>2 DEF CycleShape
  <2>7. unnamed' \subseteq Cycles
    BY <1>1, <1>2, <1>8, <2>6 DEF CycleShape
  <2>8. slipped' \subseteq Cycles /\ twice' \subseteq Cycles \X Cycles
    BY <1>1, <1>2, <1>7 DEF CycleShape
  <2> QED
    BY <2>2, <2>3, <2>4, <2>5, <2>7, <2>8 DEF CycleShape
<1>10. Live' = Live \cup (IF j.op = "create" THEN {j.cycle} ELSE {})
  BY <1>1, <1>5, <1>9 DEF Live, CycleShape
<1>11. /\ f # NoFeed => copies'[x] > 0
       /\ \A y \in Cycles \X Cycles :
            /\ copies[y] > 0 => copies'[y] > 0
            /\ f = NoFeed \/ y # x => copies'[y] = copies[y]
  <2>1. f # NoFeed /\ f.seen => copies[x] > 0
    BY <1>1 DEF DeskHolds, SeenHolds, Feeding, x
  <2> QED
    BY <1>1, <1>2, <1>6, <2>1 DEF CycleShape
<1>12. \A c \in Cycles : HasHeir(c) => HasHeir(c)'
  BY <1>11 DEF HasHeir
<1>13. \A c \in Cycles : f # NoFeed /\ c = f.from => HasHeir(c)'
  BY <1>2, <1>11 DEF HasHeir, x
<1>14. \A c, a : Archived(c, a) <=> Archived(c, a)'
  BY <1>5 DEF Archived
<1>15. unnamed \subseteq unnamed' /\ twice \subseteq twice'
       /\ slipped \subseteq slipped'
  BY <1>7, <1>8
<1>16. /\ \A a, c \in Cycles : c \in given'[a] =>
            \/ c \in given[a]
            \/ f # NoFeed /\ j.op # "rerun" /\ a = f.to /\ c = f.from
       /\ j.op = "create" => given[j.cycle] = {}
  <2>1. j.op = "create" => given[j.cycle] = {}
    BY <1>1, <1>5 DEF RowsHold, AbsentBare
  <2> QED
    BY <1>1, <1>2, <1>7, <2>1 DEF CycleShape
<1>17. f # NoFeed /\ j.op # "rerun" =>
         /\ f.from \in j.rows /\ j.op \in {"create", "close"}
         /\ cycle'[f.from] = "closed"
         /\ j.op = "create" => f.to = j.cycle
         /\ j.op = "close" => f.from = j.cycle
  <2>1. j.op \in {"create", "close", "snapshot", "rerun"}
    BY <1>1 DEF Jobs
  <2>2. f # NoFeed => Feeding(d)
    BY <1>1 DEF Feeding
  <2> QED
    BY <1>1, <1>2, <1>5, <2>1, <2>2 DEF DeskHolds, CreateHolds, CloseHolds,
      Working
<1>18. ASSUME NEW e \in Desks, e # d PROVE DeskHolds(e)'
  <2>1. /\ DeskHolds(e) /\ desk'[e] = desk[e] /\ DesksApart(d, e)
        /\ Busy(e) => desk[e] \in Jobs /\ desk[e].cycle \in Cycles
                        /\ desk[e].rows \subseteq Cycles
        /\ Busy(e)' <=> Busy(e)
    BY <1>1, <1>3, <1>18 DEF CyclesInv, CycleShape, Busy, Jobs
  <2>2. /\ \A o : Working(e, o)' <=> Working(e, o)
        /\ \A o : Ready(e, o)' <=> Ready(e, o)
        /\ Feeding(e)' <=> Feeding(e)
    BY <2>1 DEF Working, Ready, Feeding
  <2>3. Working(e, "close") => /\ desk[e].rows = {desk[e].cycle}
                               /\ desk[e].cycle \notin j.rows
                               /\ cycle[desk[e].cycle] = "open"
                               /\ Feeding(e) => desk[e].feed.from = desk[e].cycle
    BY <1>1, <1>18, <2>1 DEF DeskHolds, CloseHolds, DesksApart, Working
  <2>4. j.op = "close" => j.rows = {j.cycle}
    BY <1>1 DEF DeskHolds, CloseHolds, Working
  <2>5. CloseHolds(e)'
    BY <1>5, <2>1, <2>2, <2>3, <2>4 DEF CloseHolds, Working
  <2>6. Working(e, "create") =>
          /\ cycle[desk[e].cycle] = "absent" /\ desk[e].cycle \in Cycles
          /\ j.op = "create" => desk[e].cycle # j.cycle
          /\ \A b \in desk[e].rows : b \in Live /\ b < desk[e].cycle
          /\ Feeding(e) => /\ desk[e].feed.to = desk[e].cycle
                           /\ desk[e].feed.from \in desk[e].rows
                           /\ cycle[desk[e].feed.from] = "closed"
          /\ desk[e].rows \cap j.rows = {}
    BY <1>1, <1>18, <2>1 DEF DeskHolds, CreateHolds, DesksApart, Working
  <2>7. CreateHolds(e)'
    <3>1. Working(e, "create") => cycle'[desk[e].cycle] = "absent"
      BY <1>5, <2>6
    <3>2. Working(e, "create") /\ Feeding(e) =>
            desk[e].feed.from \in Cycles /\ cycle'[desk[e].feed.from] = "closed"
      BY <1>5, <2>1, <2>6 DEF Working
    <3> QED
      BY <1>10, <2>1, <2>2, <2>6, <3>1, <3>2 DEF CreateHolds
  <2>8. FeedHolds(e)'
    BY <1>5, <2>1, <2>2 DEF DeskHolds, FeedHolds
  <2>9. SeenHolds(e)'
    <3> DEFINE g == desk[e].feed
               y == <<g.to, g.from>>
    <3> SUFFICES ASSUME Feeding(e)
                 PROVE  /\ g.seen => copies'[y] > 0
                        /\ ~g.seen => copies'[y] = 0 \/ y \in twice'
      BY <2>1, <2>2 DEF SeenHolds
    <3>1. /\ y \in Cycles \X Cycles /\ g.to \in Cycles /\ g.from \in Cycles
          /\ g.seen => copies[y] > 0
          /\ ~g.seen => copies[y] = 0 \/ y \in twice
          /\ Busy(e) /\ desk[e].op \in {"create", "close", "rerun"}
      BY <2>1 DEF DeskHolds, FeedHolds, SeenHolds, Feeding, Jobs
    <3>2. f # NoFeed /\ y = x => y \in twice'
      <4> SUFFICES ASSUME f # NoFeed, y = x PROVE y \in twice'
        OBVIOUS
      <4>1. g.from = f.from /\ g.to = f.to
        BY DEF x
      <4>2. CASE "rerun" \in {j.op, desk[e].op}
        <5>1. Overlapping(d, f)
          BY <1>18, <3>1, <4>1, <4>2 DEF Overlapping
        <5> QED
          BY <1>7, <5>1
      <4>3. CASE "rerun" \notin {j.op, desk[e].op}
        <5>1. f.from \in j.rows /\ (j.op = "create" => f.to = j.cycle)
          BY <1>17, <4>3
        <5>2. CASE desk[e].op = "close"
          BY <5>1, <5>2, <2>3, <3>1, <4>1 DEF Working
        <5>3. CASE desk[e].op = "create"
          BY <5>1, <5>3, <2>6, <3>1, <4>1 DEF Working
        <5> QED
          BY <5>2, <5>3, <3>1, <4>3
      <4> QED
        BY <4>2, <4>3
    <3> QED
      BY <1>11, <1>15, <3>1, <3>2
  <2>10. UngivenHolds(e)'
    <3> SUFFICES ASSUME Working(e, "create"), Feeding(e), NEW a \in Live',
                        desk[e].feed.from \in given'[a]
                 PROVE  desk[e].feed.from \in unnamed'
      BY <2>1, <2>2 DEF UngivenHolds
    <3>1. desk[e].feed.from \in Cycles /\ a \in Cycles
      BY <2>1, <2>6 DEF Live
    <3>2. desk[e].feed.from \in given[a]
      BY <1>16, <1>17, <2>6, <3>1
    <3>3. a \in Live
      BY <1>10, <1>16, <3>2
    <3> QED
      BY <1>15, <2>1, <3>2, <3>3 DEF DeskHolds, UngivenHolds
  <2>11. AheadHolds(e)'
    <3> SUFFICES ASSUME NEW c \in Cycles, c = desk[e].cycle,
                        Ready(e, "close"), ~Feeding(e), NEW a \in After(c)'
                 PROVE  cycle'[a] = "closed" \/ Archived(c, a)'
      BY <2>1, <2>2 DEF AheadHolds, After, Live, Archived, Ready, Working
    <3>1. /\ a \in Live' /\ a > c /\ \A z \in Live' : z > c => z >= a
          /\ c \in Live /\ c \in Cycles /\ Working(e, "close")
      BY <2>1, <2>3 DEF After, Ready, Live
    <3>2. CASE a \in Live
      <4>1. a \in After(c) /\ a \in Cycles
        BY <1>10, <3>1, <3>2 DEF After, Live
      <4>2. cycle[a] = "closed" \/ Archived(c, a)
        BY <2>1, <4>1 DEF DeskHolds, AheadHolds
      <4> QED
        BY <1>5, <1>14, <4>1, <4>2
    <3>3. CASE a \notin Live
      <4>1. j.op = "create" /\ a = j.cycle
        BY <1>10, <3>1, <3>3
      <4>2. Ready(d, "create") /\ c < j.cycle
        BY <1>1, <3>1, <4>1, CycleConstants DEF Ready, Working
      <4>3. \/ c \in j.rows
            \/ \E b \in j.rows : c < b
            \/ \A h \in Desks : Working(h, "close") => desk[h].cycle # c
        BY <1>1, <3>1, <4>2 DEF DeskHolds, BehindHolds
      <4>4. PICK b \in j.rows : c < b
        BY <2>3, <3>1, <4>3
      <4>5. b \in Live /\ b < a
        BY <1>1, <4>1, <4>4 DEF DeskHolds, CreateHolds, Working
      <4>6. b \in Nat /\ a \in Nat /\ c \in Nat /\ b \in Live'
        BY <1>1, <1>10, <3>1, <4>1, <4>5, CycleConstants DEF Live
      <4> QED
        BY <3>1, <4>4, <4>5, <4>6
    <3> QED
      BY <3>2, <3>3
  <2>12. BehindHolds(e)'
    <3> SUFFICES ASSUME Ready(e, "create"), NEW z \in Live', z < desk[e].cycle,
                        z \notin desk[e].rows, \A b \in desk[e].rows : ~(z < b)
                 PROVE  /\ cycle'[z] = "open" /\ \A b \in desk[e].rows : b < z
                        /\ \A h \in Desks : Working(h, "close")' =>
                                              desk'[h].cycle # z
      BY <2>1, <2>2 DEF BehindHolds
    <3>0. /\ \A h \in Desks : Working(h, "close")' =>
               Working(h, "close") /\ desk'[h].cycle = desk[h].cycle
          /\ z \in Cycles /\ Working(e, "create")
      BY <1>3 DEF Working, Busy, Live, Ready
    <3>1. CASE z \in Live
      <4>1. /\ cycle[z] = "open" /\ \A b \in desk[e].rows : b < z
            /\ \A h \in Desks : Working(h, "close") => desk[h].cycle # z
        BY <2>1, <3>1 DEF DeskHolds, BehindHolds
      <4>2. cycle'[z] = "open"
        BY <1>1, <1>5, <3>0, <4>1 DEF Working
      <4> QED
        BY <3>0, <4>1, <4>2
    <3>2. CASE z \notin Live
      <4>1. j.op = "create" /\ z = j.cycle
        BY <1>10, <3>2
      <4>2. \A b \in desk[e].rows : b \in Nat /\ z \in Nat /\ b # z
        BY <2>1, <2>6, <3>0, <3>2, CycleConstants DEF Working
      <4>3. \A b \in desk[e].rows : b < z
        BY <4>2
      <4>4. cycle[z] = "absent" /\ cycle'[z] = "open"
        BY <1>5, <4>1
      <4>5. \A h \in Desks : Working(h, "close") => cycle[desk[h].cycle] = "open"
        BY DEF CyclesInv, DeskHolds, CloseHolds
      <4> QED
        BY <3>0, <4>3, <4>4, <4>5
    <3> QED
      BY <3>1, <3>2
  <2>13. HeldIsFed(e)'
    <3> SUFFICES ASSUME Ready(e, "create"), NEW b \in desk[e].rows,
                        cycle'[b] = "closed"
                 PROVE  (Feeding(e) /\ desk[e].feed.from = b) \/ HasHeir(b)'
      BY <2>1, <2>2 DEF HeldIsFed, HasHeir
    <3>1. b \in Cycles /\ b \notin j.rows
      BY <2>1, <2>6 DEF Ready, Working
    <3>2. cycle[b] = "closed"
      BY <1>5, <2>4, <3>1
    <3> QED
      BY <1>12, <2>1, <3>1, <3>2 DEF DeskHolds, HeldIsFed
  <2>14. SnapshotSlips(e)'
    <3> SUFFICES ASSUME Working(e, "snapshot"), cycle'[desk[e].cycle] = "closed"
                 PROVE  desk[e].cycle \in slipped'
      BY <2>1, <2>2 DEF SnapshotSlips
    <3>1. CASE cycle[desk[e].cycle] = "closed"
      BY <1>15, <2>1, <3>1 DEF DeskHolds, SnapshotSlips
    <3>2. CASE cycle[desk[e].cycle] # "closed"
      <4>1. j.op = "close" /\ desk[e].cycle = j.cycle
        BY <1>5, <2>1, <3>2 DEF Working
      <4> QED
        BY <1>7, <2>1, <4>1 DEF Working
    <3> QED
      BY <3>1, <3>2
  <2> QED
    BY <2>5, <2>7, <2>8, <2>9, <2>10, <2>11, <2>12, <2>13, <2>14 DEF DeskHolds
<1>19. DeskHolds(d)'
  BY <1>3 DEF DeskHolds, CloseHolds, CreateHolds, FeedHolds, SeenHolds,
    UngivenHolds, AheadHolds, BehindHolds, HeldIsFed, SnapshotSlips, Feeding,
    Ready, Working
<1>20. \A e, h \in Desks : DesksApart(e, h)'
  BY <1>3 DEF CyclesInv, DesksApart, Busy
<1>21. AbsentBare'
  <2> SUFFICES ASSUME NEW c \in Cycles, cycle'[c] = "absent"
               PROVE  given'[c] = {} /\ \A b \in Cycles : copies'[<<c, b>>] = 0
    BY DEF AbsentBare
  <2>1. cycle[c] = "absent"
    BY <1>5, <2>1
  <2>2. f # NoFeed => c # f.to
    <3>1. f # NoFeed => Feeding(d)
      BY <1>1 DEF Feeding
    <3>2. f # NoFeed /\ j.op = "create" => f.to = j.cycle
      BY <1>1, <3>1 DEF DeskHolds, CreateHolds, Working
    <3>3. f # NoFeed /\ j.op # "create" => cycle[f.to] # "absent"
      BY <1>1, <3>1 DEF DeskHolds, FeedHolds
    <3> QED
      BY <1>5, <2>1, <3>2, <3>3
  <2>3. given[c] = {} /\ \A b \in Cycles : copies[<<c, b>>] = 0
    BY <1>1, <2>1 DEF RowsHold, AbsentBare
  <2>4. given'[c] = {}
    BY <1>1, <1>7, <2>2, <2>3 DEF CycleShape
  <2> QED
    BY <1>11, <2>2, <2>3, <2>4 DEF x
<1>22. ClosedGives'
  <2> SUFFICES ASSUME NEW a \in Cycles, NEW c \in Cycles, c \in given'[a]
               PROVE  cycle'[c] \in {"closed", "archived"}
    BY DEF ClosedGives
  <2>1. CASE c \in given[a]
    BY <1>1, <1>5, <2>1 DEF RowsHold, ClosedGives
  <2>2. CASE c \notin given[a]
    BY <1>16, <1>17, <2>2
  <2> QED
    BY <2>1, <2>2
<1>23. GivenNames'
  <2> SUFFICES ASSUME NEW a \in Live', NEW c \in given'[a], c \notin unnamed'
               PROVE  fedBy'[a] = c
    BY DEF GivenNames
  <2>1. a \in Cycles /\ c \in Cycles /\ c # NoCycle
    BY <1>9, CycleConstants DEF Live, CycleShape, NoCycle
  <2>2. CASE c \in given[a]
    <3>1. a \in Live /\ c \notin unnamed
      BY <1>10, <1>15, <1>16, <2>2
    <3>2. fedBy[a] = c
      BY <1>1, <2>2, <3>1 DEF RowsHold, GivenNames
    <3>3. f # NoFeed /\ named /\ a = f.to => c = f.from
      BY <1>8, <2>1, <3>2
    <3> QED
      BY <1>1, <1>2, <1>6, <2>1, <3>2, <3>3 DEF CycleShape
  <2>3. CASE c \notin given[a]
    <3>1. f # NoFeed /\ j.op # "rerun" /\ a = f.to /\ c = f.from
      BY <1>16, <2>1, <2>3
    <3>2. named
      BY <1>8, <3>1
    <3> QED
      BY <1>1, <1>6, <2>1, <3>1, <3>2 DEF CycleShape
  <2> QED
    BY <2>2, <2>3
<1>24. OneHeir'
  <2>1. ASSUME NEW a \in Live', NEW b \in Live', NEW c \in given'[a],
               c \in given'[b], c \notin unnamed', a # b, c \notin given[a]
        PROVE  FALSE
    <3>1. a \in Cycles /\ b \in Cycles /\ c \in Cycles
      BY <1>9 DEF Live, CycleShape
    <3>2. f # NoFeed /\ j.op # "rerun" /\ a = f.to /\ c = f.from
      BY <1>16, <2>1, <3>1
    <3>3. c \in given[b]
      BY <1>16, <2>1, <3>1, <3>2
    <3>4. b \in Live /\ c \notin unnamed
      BY <1>10, <1>15, <1>16, <2>1, <3>3
    <3>5. CASE j.op = "close"
      <4>1. cycle[c] = "open"
        BY <1>5, <1>17, <3>2, <3>5
      <4> QED
        BY <1>1, <3>1, <3>3, <4>1 DEF RowsHold, ClosedGives
    <3>6. CASE j.op = "create"
      BY <1>1, <3>2, <3>3, <3>4, <3>6 DEF DeskHolds, UngivenHolds, Feeding,
        Working
    <3> QED
      BY <1>17, <3>2, <3>5, <3>6
  <2>2. ASSUME NEW a \in Live', NEW b \in Live', NEW c \in given[a],
               c \in given[b], c \notin unnamed'
        PROVE  a = b
    <3>1. a \in Live /\ b \in Live /\ c \notin unnamed
      BY <1>10, <1>15, <1>16, <2>2
    <3> QED
      BY <1>1, <2>2, <3>1 DEF RowsHold, OneHeir
  <2> QED
    BY <2>1, <2>2 DEF OneHeir
<1>25. NamedIsFed'
  <2> SUFFICES ASSUME NEW a \in Cycles, fedBy'[a] # NoCycle
               PROVE  copies'[<<a, fedBy'[a]>>] > 0
    BY DEF NamedIsFed
  <2>1. CASE f # NoFeed /\ named /\ a = f.to
    <3>1. fedBy'[a] = f.from
      BY <1>1, <1>6, <2>1 DEF CycleShape
    <3> QED
      BY <1>11, <2>1, <3>1 DEF x
  <2>2. CASE ~(f # NoFeed /\ named /\ a = f.to)
    <3>1. fedBy'[a] = fedBy[a] /\ fedBy[a] \in Cycles
      BY <1>1, <1>2, <1>6, <2>2 DEF CycleShape
    <3>2. copies[<<a, fedBy[a]>>] > 0
      BY <1>1, <3>1 DEF RowsHold, NamedIsFed
    <3> QED
      BY <1>11, <3>1, <3>2
  <2> QED
    BY <2>1, <2>2
<1>26. WrittenOnce'
  <2> SUFFICES ASSUME NEW y \in Cycles \X Cycles, y \notin twice'
               PROVE  copies'[y] <= 1
    BY DEF WrittenOnce
  <2>1. copies[y] <= 1 /\ y \notin twice /\ copies[y] \in Nat
    BY <1>1, <1>15 DEF RowsHold, WrittenOnce, CycleShape
  <2>2. CASE f # NoFeed /\ y = x /\ ~f.seen
    <3>1. copies[x] = 0
      BY <1>1, <2>1, <2>2 DEF DeskHolds, SeenHolds, Feeding, x
    <3> QED
      BY <1>1, <1>6, <2>2, <3>1 DEF CycleShape
  <2>3. CASE f # NoFeed /\ y = x /\ f.seen
    BY <1>6, <2>1, <2>3
  <2>4. CASE f = NoFeed \/ y # x
    BY <1>11, <2>1, <2>4
  <2> QED
    BY <2>2, <2>3, <2>4
<1>27. Lands'
  <2> SUFFICES ASSUME NEW c \in Cycles, cycle'[c] = "closed",
                      NEW a \in After(c)', cycle'[a] = "open", ~Archived(c, a)'
               PROVE  HasHeir(c)'
    BY DEF Lands
  <2>1. a \in Live' /\ a > c /\ \A z \in Live' : z > c => z >= a
    BY DEF After
  <2>2. a \in Cycles /\ ~Archived(c, a) /\ Live \subseteq Live'
    BY <1>10, <1>14, <2>1 DEF Live
  <2>3. a \in Live => a \in After(c) /\ cycle[a] = "open"
    BY <1>5, <2>1, <2>2 DEF After, Live
  <2>4. CASE cycle[c] # "closed"
    <3>1. j.op = "close" /\ c = j.cycle
      BY <1>5, <2>4
    <3>2. a \in Live
      BY <1>10, <2>1, <3>1
    <3>3. Ready(d, "close")
      BY <1>1, <3>1 DEF Ready, Working
    <3>4. f # NoFeed
      BY <1>1, <2>2, <2>3, <3>1, <3>2, <3>3 DEF DeskHolds, AheadHolds, Feeding
    <3>5. c = f.from
      BY <1>17, <3>1, <3>4
    <3> QED
      BY <1>13, <3>4, <3>5
  <2>5. CASE cycle[c] = "closed" /\ a \in Live
    <3>1. HasHeir(c)
      BY <1>1, <2>2, <2>3, <2>5 DEF RowsHold, Lands
    <3> QED
      BY <1>12, <3>1
  <2>6. CASE cycle[c] = "closed" /\ a \notin Live
    <3>1. j.op = "create" /\ a = j.cycle
      BY <1>10, <2>1, <2>6
    <3>2. Ready(d, "create") /\ c < j.cycle /\ c \in Live
      BY <1>1, <2>1, <2>2, <2>6, <3>1, CycleConstants DEF Ready, Working, Live
    <3>3. c \in j.rows \/ \E b \in j.rows : c < b
      BY <1>1, <2>6, <3>2 DEF DeskHolds, BehindHolds
    <3>4. \A b \in j.rows : ~(c < b)
      <4> SUFFICES ASSUME NEW b \in j.rows, c < b PROVE FALSE
        OBVIOUS
      <4>1. b \in Live /\ b < a
        BY <1>1, <3>1 DEF DeskHolds, CreateHolds, Working
      <4>2. b \in Nat /\ a \in Nat /\ c \in Nat /\ b \in Live'
        BY <2>2, <4>1, CycleConstants DEF Live
      <4> QED
        BY <2>1, <4>1, <4>2
    <3>5. (f # NoFeed /\ f.from = c) \/ HasHeir(c)
      BY <1>1, <2>6, <3>2, <3>3, <3>4 DEF DeskHolds, HeldIsFed, Feeding
    <3> QED
      BY <1>12, <1>13, <3>5
  <2> QED
    BY <2>4, <2>5, <2>6
<1>28. ResultStands'
  <2> SUFFICES ASSUME NEW c \in Cycles, cycle'[c] = "closed", c \notin slipped'
               PROVE  result'[c] = sealed'[c]
    BY DEF ResultStands
  <2>1. CASE j.op = "close" /\ c = j.cycle
    BY <1>1, <1>4, <2>1 DEF CycleShape
  <2>2. CASE ~(j.op = "close" /\ c = j.cycle)
    <3>1. cycle[c] = "closed" /\ c \notin slipped
      BY <1>5, <1>15, <2>2
    <3>2. result[c] = sealed[c]
      BY <1>1, <3>1 DEF RowsHold, ResultStands
    <3>3. ~(j.op = "snapshot" /\ c = j.cycle)
      BY <1>1, <3>1 DEF DeskHolds, SnapshotSlips, Working
    <3> QED
      BY <1>1, <1>4, <2>2, <3>2, <3>3 DEF CycleShape
  <2> QED
    BY <2>1, <2>2
<1>29. RowsHold'
  BY <1>21, <1>22, <1>23, <1>24, <1>25, <1>26, <1>27, <1>28 DEF RowsHold
<1> QED
  BY <1>9, <1>18, <1>19, <1>20, <1>29 DEF CyclesInv

------------------------------------------------------------------------------
LEMMA CyclesKeep == CyclesInv /\ [CycleNext]_cycleVars => CyclesInv'
<1> SUFFICES ASSUME CyclesInv, [CycleNext]_cycleVars PROVE CyclesInv'
  OBVIOUS
<1>1. ASSUME NEW d \in Desks,
             LookBack(d) \/ LookAhead(d) \/ Settle(d) \/ Withdraw(d)
      PROVE  CyclesInv'
  BY <1>1, LookBackKeeps, LookAheadKeeps, SettleKeeps, WithdrawKeeps
<1>2. ASSUME NEW d \in Desks, NEW c \in Cycles,
             \/ CreateCycle(d, c) \/ CloseCycle(d, c) \/ SnapshotCycle(d, c)
             \/ \E to \in Cycles : FeedForward(d, c, to)
      PROVE  CyclesInv'
  BY <1>2, CreateKeeps, CloseBegins, SnapshotBegins, RerunBegins
<1>3. ASSUME NEW c \in Cycles, ArchiveCycle(c) \/ \E v \in Grades : Grade(c, v)
      PROVE  CyclesInv'
  BY <1>3, ArchiveKeeps, GradesKeep
<1>4. CASE UNCHANGED cycleVars
  <2> USE <1>4 DEF cycleVars, registry, memory
  <2>1. CycleShape'
    BY DEF CyclesInv, CycleShape
  <2>2. \A d \in Desks : DeskHolds(d)'
    BY DEF CyclesInv, DeskHolds, CloseHolds, CreateHolds, FeedHolds, SeenHolds,
      UngivenHolds, AheadHolds, BehindHolds, HeldIsFed, SnapshotSlips, Feeding,
      Ready, Working, Busy, Live, After, Archived, HasHeir
  <2>3. \A d, e \in Desks : DesksApart(d, e)'
    BY DEF CyclesInv, DesksApart, Busy
  <2>4. RowsHold'
    BY DEF CyclesInv, RowsHold, AbsentBare, ClosedGives, GivenNames, OneHeir,
      NamedIsFed, WrittenOnce, Lands, ResultStands, Live, After, Archived,
      HasHeir
  <2> QED
    BY <2>1, <2>2, <2>3, <2>4 DEF CyclesInv
<1> QED
  BY <1>1, <1>2, <1>3, <1>4 DEF CycleNext

LEMMA AtMostOne ==
  ASSUME NEW S, \A a, b \in S : a = b
  PROVE  Cardinality(S) <= 1
<1>1. CASE S = {}
  BY <1>1, FS_EmptySet
<1>2. CASE S # {}
  <2>1. PICK a \in S : TRUE
    BY <1>2
  <2>2. S = {a}
    BY <2>1
  <2> QED
    BY <2>2, FS_Singleton
<1> QED
  BY <1>1, <1>2

LEMMA CyclesPromise == CyclesInv => CloseKept
<1> SUFFICES ASSUME CyclesInv PROVE CloseKept
  OBVIOUS
<1>1. InheritanceLands
  BY DEF CyclesInv, RowsHold, Lands, InheritanceLands, Archived, HasHeir, After,
    Live
<1>2. ASSUME NEW c \in Cycles \ unnamed
      PROVE  Cardinality({a \in Live : c \in given[a]}) <= 1
  BY AtMostOne DEF CyclesInv, RowsHold, OneHeir
<1> QED
  BY <1>1, <1>2 DEF CyclesInv, RowsHold, WrittenOnce, GivenOnce, CloseKept

(* What a close leaves to the next cycle lands there or in another one the *)
(* creations put first, lands once where the lineage names it, and the     *)
(* result it recorded stands (closeCycleInTx and                           *)
(* feedFromClosedPredecessorInTx): for any number of cycles, and any       *)
(* number of transactions on them at once.                                 *)
THEOREM ClosesKeepTheirPromise == CycleSpec => []CloseKept
<1>1. CycleSpec => []CyclesInv
  BY CyclesStart, CyclesKeep, PTL DEF CycleSpec
<1> QED
  BY <1>1, CyclesPromise, PTL

------------------------------------------------------------------------------
(* The bounds of the runs.  Whoever is about to write a copy found none,   *)
(* so there are never more of one than there are desks.                    *)
Writing(d, x) ==
  Feeding(d) /\ ~desk[d].feed.seen /\ <<desk[d].feed.to, desk[d].feed.from>> = x

Awaited(x) == {d \in Desks : Writing(d, x)}

CycleBounds ==
  /\ \A x \in Cycles \X Cycles :
       copies[x] + Cardinality(Awaited(x)) <= Cardinality(Desks)
  /\ reruns \in 0 .. MaxReruns

LEMMA SomeDesks ==
  ASSUME NEW D \in SUBSET Desks, NEW E \in SUBSET D
  PROVE  /\ IsFiniteSet(D) /\ Cardinality(D) \in Nat /\ Cardinality(E) \in Nat
         /\ Cardinality(Desks) \in Nat
         /\ Cardinality(D) <= Cardinality(Desks)
         /\ Cardinality(E) <= Cardinality(D)
<1>1. IsFiniteSet(Desks)
  BY CycleConstants
<1>2. IsFiniteSet(D)
  BY <1>1, FS_Subset
<1> QED
  BY <1>1, <1>2, FS_Subset, FS_CardinalityType

(* A desk that takes up a feed without a copy found there was none. *)
LEMMA ReadBounds ==
  ASSUME CyclesInv, CycleBounds, NEW d \in Desks, copies' = copies,
         reruns' \in 0 .. MaxReruns,
         \A e \in Desks \ {d} : desk'[e] = desk[e],
         \A x \in Cycles \X Cycles :
           Writing(d, x)' => copies[x] = 0 \/ Writing(d, x)
  PROVE  CycleBounds'
<1> SUFFICES ASSUME NEW x \in Cycles \X Cycles
             PROVE  copies[x] + Cardinality(Awaited(x)') <= Cardinality(Desks)
  BY DEF CycleBounds
<1>1. copies[x] \in Nat /\ Awaited(x) \in SUBSET Desks
      /\ Awaited(x)' \in SUBSET Desks
  BY DEF CyclesInv, CycleShape, Awaited
<1>2. CASE copies[x] = 0
  BY <1>1, <1>2, SomeDesks
<1>3. CASE copies[x] # 0
  <2>1. Awaited(x)' \in SUBSET Awaited(x)
    BY <1>3 DEF Awaited, Writing, Feeding, Busy
  <2>2. /\ Cardinality(Awaited(x)') <= Cardinality(Awaited(x))
        /\ Cardinality(Awaited(x)') \in Nat /\ Cardinality(Awaited(x)) \in Nat
        /\ Cardinality(Desks) \in Nat
    BY <1>1, <2>1, SomeDesks
  <2> QED
    BY <1>1, <2>2 DEF CycleBounds
<1> QED
  BY <1>2, <1>3

LEMMA BeginBounds ==
  ASSUME CyclesInv, CycleBounds, NEW d \in Desks, NEW c \in Cycles,
         CreateCycle(d, c) \/ CloseCycle(d, c) \/ SnapshotCycle(d, c)
  PROVE  CycleBounds'
<1>1. /\ copies' = copies /\ reruns' = reruns
      /\ \A e \in Desks \ {d} : desk'[e] = desk[e]
      /\ desk'[d].feed = NoFeed
  BY DEF CreateCycle, CloseCycle, SnapshotCycle, registry, Take, Job,
         CyclesInv, CycleShape
<1> QED
  BY <1>1, ReadBounds DEF Writing, Feeding, CycleBounds

LEMMA RerunBounds ==
  ASSUME CyclesInv, CycleBounds, NEW d \in Desks, NEW from \in Cycles,
         NEW to \in Cycles, FeedForward(d, from, to)
  PROVE  CycleBounds'
<1> DEFINE K == Job("rerun", to, "ready", {})
           F == Feed(from, to)
<1>1. /\ F.from = from /\ F.to = to
      /\ ~F.seen => copies[<<to, from>>] = 0
  BY FeedReads DEF CyclesInv
<1>2. K \in Jobs
  BY JobFits DEF CyclesInv
<1> HIDE DEF K, F
<1>3. /\ desk' = [desk EXCEPT ![d] = [K EXCEPT !.feed = F]]
      /\ copies' = copies /\ reruns < MaxReruns /\ reruns' = reruns + 1
  BY DEF FeedForward, Take, K, F
<1>4. desk'[d].feed = F /\ \A e \in Desks \ {d} : desk'[e] = desk[e]
  BY <1>2, <1>3 DEF CyclesInv, CycleShape, Jobs
<1>5. \A x \in Cycles \X Cycles : Writing(d, x)' => copies[x] = 0
  BY <1>1, <1>4 DEF Writing
<1>6. reruns' \in 0 .. MaxReruns
  BY <1>3, CycleConstants DEF CycleBounds
<1> QED
  BY <1>3, <1>4, <1>5, <1>6, ReadBounds

LEMMA LookAheadBounds ==
  ASSUME CyclesInv, CycleBounds, NEW d \in Desks, LookAhead(d)
  PROVE  CycleBounds'
<1> DEFINE K == desk[d]
           c == K.cycle
           next == {a \in After(c) : cycle[a] # "closed"}
           feeds == {Feed(c, a) : a \in next}
<1>1. K \in Jobs /\ c \in Cycles
  BY DEF LookAhead, CyclesInv, CycleShape, Busy, Jobs
<1>2. PICK f \in IF next = {} THEN {NoFeed} ELSE feeds :
        desk' = [desk EXCEPT ![d] = [K EXCEPT !.stage = "ready", !.feed = f]]
  BY DEF LookAhead, Take
<1>3. next \subseteq Cycles
  BY DEF After, Live
<1>4. f = NoFeed \/ \E a \in Cycles : f = Feed(c, a)
  <2>1. f = NoFeed \/ f \in feeds
    BY <1>2
  <2>2. \A g \in feeds : \E a \in next : g = Feed(c, a)
    OBVIOUS
  <2> HIDE DEF next, feeds
  <2> QED
    BY <1>3, <2>1, <2>2
<1> HIDE DEF next, feeds
<1>5. f # NoFeed /\ ~f.seen => copies[<<f.to, f.from>>] = 0
  <2>1. PICK b \in Cycles : b = c
    BY <1>1
  <2>2. f = NoFeed \/ \E a \in Cycles : f = Feed(b, a)
    BY <1>4, <2>1
  <2>3. \A a \in Cycles : /\ Feed(b, a).from = b /\ Feed(b, a).to = a
                          /\ ~Feed(b, a).seen => copies[<<a, b>>] = 0
    BY FeedReads DEF CyclesInv
  <2> SUFFICES ASSUME f # NoFeed, ~f.seen
               PROVE  copies[<<f.to, f.from>>] = 0
    OBVIOUS
  <2>4. PICK a \in Cycles : f = Feed(b, a)
    BY <2>2
  <2>5. f.from = b /\ f.to = a /\ ~Feed(b, a).seen
    BY <2>3, <2>4
  <2> QED
    BY <2>3, <2>5
<1>6. /\ desk'[d].feed = f /\ \A e \in Desks \ {d} : desk'[e] = desk[e]
      /\ copies' = copies /\ reruns' = reruns
  BY <1>1, <1>2 DEF LookAhead, registry, CyclesInv, CycleShape, Jobs
<1>7. \A x \in Cycles \X Cycles : Writing(d, x)' => copies[x] = 0
  BY <1>5, <1>6 DEF Writing, Feeding
<1> QED
  BY <1>6, <1>7, ReadBounds DEF CycleBounds

(* The cycle a creation is for is not there, so nothing was written to it. *)
LEMMA LookBackBounds ==
  ASSUME CyclesInv, CycleBounds, NEW d \in Desks, LookBack(d)
  PROVE  CycleBounds'
<1> DEFINE K == desk[d]
           c == K.cycle
           due == {b \in Before(c) :
                     cycle[b] = "closed" /\ \A a \in Live : fedBy[a] # b}
           feeds == {[from |-> b, to |-> c, seen |-> FALSE, link |-> TRUE] :
                       b \in due}
<1>1. K \in Jobs /\ c \in Cycles /\ cycle[c] = "absent"
  BY DEF LookBack, CyclesInv, CycleShape, Busy, Jobs, DeskHolds, CreateHolds,
         Working
<1>2. PICK f \in IF due = {} THEN {NoFeed} ELSE feeds :
        desk' = [desk EXCEPT ![d] = [K EXCEPT !.stage = "ready",
                                       !.rows = Before(c), !.feed = f]]
  BY DEF LookBack, Take
<1>3. due \subseteq Cycles
  BY DEF Before, Live
<1>4. f = NoFeed \/ (f.to = c /\ f.from \in Cycles)
  BY <1>2, <1>3
<1>5. \A b \in Cycles : copies[<<c, b>>] = 0
  BY <1>1 DEF CyclesInv, RowsHold, AbsentBare
<1> HIDE DEF due, feeds
<1>6. /\ desk'[d].feed = f /\ \A e \in Desks \ {d} : desk'[e] = desk[e]
      /\ copies' = copies /\ reruns' = reruns
  BY <1>1, <1>2 DEF LookBack, registry, CyclesInv, CycleShape, Jobs
<1>7. \A x \in Cycles \X Cycles : Writing(d, x)' => copies[x] = 0
  BY <1>4, <1>5, <1>6 DEF Writing, Feeding
<1> QED
  BY <1>6, <1>7, ReadBounds DEF CycleBounds

(* The desk that writes a copy is no longer about to. *)
LEMMA SettleBounds ==
  ASSUME CyclesInv, CycleBounds, NEW d \in Desks, Settle(d) \/ Withdraw(d)
  PROVE  CycleBounds'
<1> DEFINE f == desk[d].feed
           w == <<f.to, f.from>>
<1>1. /\ desk' = [desk EXCEPT ![d] = AtRest] /\ reruns' = reruns /\ Busy(d)
      /\ \/ copies' = copies
         \/ /\ f # NoFeed /\ ~f.seen
            /\ copies' = [copies EXCEPT ![w] = @ + 1]
  BY DEF Settle, Withdraw, Take, registry
<1>2. /\ \A e \in Desks \ {d} : desk'[e] = desk[e]
      /\ \A x : ~Writing(d, x)'
  BY <1>1 DEF CyclesInv, CycleShape, Writing, Feeding, Busy
<1>3. CASE copies' = copies
  BY <1>1, <1>2, <1>3, ReadBounds DEF CycleBounds
<1>4. CASE f # NoFeed /\ ~f.seen /\ copies' = [copies EXCEPT ![w] = @ + 1]
  <2>1. w \in Cycles \X Cycles /\ Writing(d, w)
    BY <1>1, <1>4 DEF CyclesInv, DeskHolds, FeedHolds, Feeding, Writing
  <2> HIDE DEF w, f
  <2> SUFFICES ASSUME NEW x \in Cycles \X Cycles
               PROVE  copies'[x] + Cardinality(Awaited(x)') <= Cardinality(Desks)
    BY <1>1 DEF CycleBounds
  <2>2. Awaited(x)' = Awaited(x) \ {d} /\ Awaited(x) \in SUBSET Desks
    <3>1. \A e \in Desks \ {d} : Writing(e, x)' <=> Writing(e, x)
      BY <1>2 DEF Writing, Feeding, Busy
    <3> QED
      BY <1>2, <3>1 DEF Awaited
  <2>3. /\ copies[x] + Cardinality(Awaited(x)) <= Cardinality(Desks)
        /\ copies[x] \in Nat /\ Cardinality(Awaited(x)) \in Nat
        /\ IsFiniteSet(Awaited(x)) /\ Cardinality(Desks) \in Nat
        /\ Cardinality(Awaited(x)') \in Nat
        /\ Cardinality(Awaited(x)') <= Cardinality(Awaited(x))
    BY <2>2, SomeDesks DEF CyclesInv, CycleShape, CycleBounds
  <2>4. CASE x = w
    <3>1. d \in Awaited(x) /\ copies'[x] = copies[x] + 1
      BY <1>4, <2>1, <2>4 DEF Awaited, CyclesInv, CycleShape
    <3>2. Cardinality(Awaited(x)') = Cardinality(Awaited(x)) - 1
      BY <2>2, <2>3, <3>1, FS_RemoveElement
    <3> QED
      BY <2>3, <3>1, <3>2
  <2>5. CASE x # w
    <3>1. copies'[x] = copies[x]
      BY <1>4, <2>5 DEF CyclesInv, CycleShape
    <3> QED
      BY <2>3, <3>1
  <2> QED
    BY <2>4, <2>5
<1> QED
  BY <1>1, <1>3, <1>4

LEMMA CycleTypesAlways == CycleSpec => []CycleTypeOK
<1>1. CycleInit => CycleBounds
  <2> SUFFICES ASSUME CycleInit PROVE CycleBounds
    OBVIOUS
  <2>1. \A x : Awaited(x) = {}
    BY DEF CycleInit, CyclesAre, Awaited, Writing, Feeding, Busy
  <2>2. Cardinality({}) = 0 /\ Cardinality(Desks) \in Nat
    BY CycleConstants, FS_EmptySet, FS_CardinalityType
  <2>3. ASSUME NEW x \in Cycles \X Cycles
        PROVE  copies[x] + Cardinality(Awaited(x)) <= Cardinality(Desks)
    <3>1. copies[x] = 0 /\ Awaited(x) = {}
      BY <2>1 DEF CycleInit, CyclesAre
    <3> QED
      BY <2>2, <3>1
  <2> QED
    BY <2>3, CycleConstants DEF CycleInit, CyclesAre, CycleBounds
<1>2. CyclesInv /\ CycleBounds /\ [CycleNext]_cycleVars => CycleBounds'
  <2> SUFFICES ASSUME CyclesInv, CycleBounds, [CycleNext]_cycleVars
               PROVE  CycleBounds'
    OBVIOUS
  <2>1. CASE copies' = copies /\ reruns' = reruns /\ desk' = desk
    BY <2>1 DEF CycleBounds, Awaited, Writing, Feeding, Busy
  <2>2. ASSUME NEW d \in Desks,
               LookBack(d) \/ LookAhead(d) \/ Settle(d) \/ Withdraw(d)
        PROVE  CycleBounds'
    BY <2>2, LookBackBounds, LookAheadBounds, SettleBounds
  <2>3. ASSUME NEW d \in Desks, NEW c \in Cycles,
               \/ CreateCycle(d, c) \/ CloseCycle(d, c) \/ SnapshotCycle(d, c)
               \/ \E to \in Cycles : FeedForward(d, c, to)
        PROVE  CycleBounds'
    BY <2>3, BeginBounds, RerunBounds
  <2> QED
    BY <2>1, <2>2, <2>3
       DEF CycleNext, ArchiveCycle, Grade, cycleVars, registry
<1>3. CyclesInv /\ CycleBounds => CycleTypeOK
  <2> SUFFICES ASSUME CyclesInv, CycleBounds PROVE CycleTypeOK
    OBVIOUS
  <2>1. ASSUME NEW x \in Cycles \X Cycles
        PROVE  copies[x] \in 0 .. Cardinality(Desks)
    <3>1. /\ copies[x] + Cardinality(Awaited(x)) <= Cardinality(Desks)
          /\ copies[x] \in Nat /\ Awaited(x) \in SUBSET Desks
      BY DEF CyclesInv, CycleShape, CycleBounds, Awaited
    <3> QED
      BY <3>1, SomeDesks
  <2>2. copies \in [Cycles \X Cycles -> 0 .. Cardinality(Desks)]
    BY <2>1 DEF CyclesInv, CycleShape
  <2> QED
    BY <2>2 DEF CyclesInv, CycleShape, CycleBounds, CycleTypeOK, Jobs
<1> QED
  BY <1>1, <1>2, <1>3, CyclesStart, CyclesKeep, PTL DEF CycleSpec

------------------------------------------------------------------------------
(* The board: shapes *)

Ranks == UNION {[S -> Int] : S \in SUBSET Cards}

Drags ==
  [phase : {"claimed", "placed", "crowded", "ordered", "create"}, card : Cards,
   to : Columns, after : Cards \cup {Top}, at : Int, order : Ranks]

BoardShape ==
  /\ card \in [Cards -> {"none", "live", "deleted"}]
  /\ column \in [Cards -> Columns]
  /\ place \in [Cards -> Int]
  /\ loose \subseteq Cards
  /\ hand \in [Hands -> Drags \cup {Empty}]

(* What was put in a column under its lock. *)
Firm(s) == InColumn(s) \ loose

(* A renumber holds every row of its column, in the order of their places. *)
Ordered(r, s) ==
  /\ DOMAIN r \subseteq InColumn(s) /\ Firm(s) \subseteq DOMAIN r
  /\ \A b, c \in DOMAIN r : /\ b # c => r[b] # r[c]
                            /\ place[b] < place[c] => r[b] < r[c]

OrderHolds(h) ==
  hand[h].phase = "ordered" => Ordered(hand[h].order, hand[h].to)

(* The place a drag has read is still free, right under its neighbour. *)
PlaceHolds(h) ==
  hand[h].phase = "placed" =>
    \A b \in Firm(hand[h].to) \ {hand[h].card} :
      /\ place[b] # hand[h].at
      /\ hand[h].after \in Firm(hand[h].to) \ {hand[h].card} =>
           /\ place[hand[h].after] < hand[h].at
           /\ b # hand[h].after =>
                ~(place[hand[h].after] < place[b] /\ place[b] < hand[h].at)

NewHolds(h) == hand[h].phase = "create" => card[hand[h].card] = "none"
HandHolds(h) == OrderHolds(h) /\ PlaceHolds(h) /\ NewHolds(h)

(* One drag to a column at a time; a new card is in nobody else's hand. *)
OneDrag(g, h) ==
  g # h /\ hand[g] # Empty /\ hand[h] # Empty =>
    /\ hand[g].phase # "create" /\ hand[h].phase # "create" =>
         hand[g].to # hand[h].to
    /\ hand[h].phase = "create" => hand[g].card # hand[h].card

BoardInv ==
  /\ BoardShape
  /\ \A h \in Hands : HandHolds(h)
  /\ \A g, h \in Hands : OneDrag(g, h)
  /\ DistinctPlaces

------------------------------------------------------------------------------
(* The least of finitely many whole numbers. *)
LEMMA LeastOf ==
  ASSUME NEW S, IsFiniteSet(S), S # {}, NEW f \in [S -> Int]
  PROVE  \E m \in S : \A c \in S : f[m] <= f[c]
<1> DEFINE Down(U) == U # {} /\ \A b \in U, c \in S : f[c] <= f[b] => c \in U
           T == {U \in SUBSET S : Down(U)}
<1>1. S \in T
  OBVIOUS
<1>2. IsWellFoundedOn(StrictSubsetOrdering(S), SUBSET S)
  BY FS_StrictSubsetOrderingWellFounded, FS_FiniteSubsetsOfFinite
<1>3. T \subseteq SUBSET S
  OBVIOUS
<1>4. PICK U \in T : \A V \in T : ~(<<V, U>> \in StrictSubsetOrdering(S))
  <2> HIDE DEF T
  <2> QED
    BY <1>1, <1>2, <1>3, WFMin
<1>5. PICK m \in U : TRUE
  OBVIOUS
<1> DEFINE V == {c \in U : f[c] < f[m]}
<1>6. CASE V = {}
  BY <1>5, <1>6
<1>7. CASE V # {}
  <2>1. V \in T
    BY <1>5, <1>7
  <2>2. <<V, U>> \in StrictSubsetOrdering(S)
    BY <1>5 DEF StrictSubsetOrdering
  <2> QED
    BY <2>1, <2>2, <1>4
<1> QED
  BY <1>6, <1>7

LEMMA LowestIs ==
  ASSUME NEW S \in SUBSET Cards, S # {}, BoardShape
  PROVE  /\ \E m \in S : Lowest(S) = place[m]
         /\ \A c \in S : Lowest(S) <= place[c]
<1> DEFINE f == [c \in S |-> place[c]]
<1>1. IsFiniteSet(S) /\ f \in [S -> Int]
  BY BoardConstants, FS_Subset DEF BoardShape
<1>2. PICK m \in S : \A c \in S : f[m] <= f[c]
  BY <1>1, LeastOf
<1>3. place[m] \in {place[c] : c \in S} /\ \A c \in S : place[m] <= place[c]
  BY <1>2
<1> QED
  BY <1>3 DEF Lowest

LEMMA HighestIs ==
  ASSUME NEW S \in SUBSET Cards, S # {}, BoardShape
  PROVE  /\ \E m \in S : Highest(S) = place[m]
         /\ \A c \in S : Highest(S) >= place[c]
<1> DEFINE f == [c \in S |-> 0 - place[c]]
<1>1. IsFiniteSet(S) /\ f \in [S -> Int] /\ \A c \in S : place[c] \in Int
  BY BoardConstants, FS_Subset DEF BoardShape
<1>2. PICK m \in S : \A c \in S : f[m] <= f[c]
  BY <1>1, LeastOf
<1>3. place[m] \in {place[c] : c \in S} /\ \A c \in S : place[m] >= place[c]
  BY <1>1, <1>2
<1> QED
  BY <1>3 DEF Highest

------------------------------------------------------------------------------
(* Where a card goes *)

(* A place nobody in the column has, right under the card dropped on. *)
LEMMA TargetIsFree ==
  ASSUME BoardShape, NEW h \in Hands, hand[h] \in Drags, HasRoom(h)
  PROVE  /\ Target(h) \in Int
         /\ \A b \in Others(h) : place[b] # Target(h)
         /\ hand[h].after \in Others(h) =>
              /\ place[hand[h].after] < Target(h)
              /\ \A b \in Others(h) :
                   ~(place[hand[h].after] < place[b] /\ place[b] < Target(h))
<1> DEFINE after == hand[h].after
           others == Others(h)
           above == Above(h)
<1>1. /\ others \in SUBSET Cards /\ above \in SUBSET Cards
      /\ \A b \in Cards : place[b] \in Int
      /\ Spacing \in Nat /\ Spacing > 0
  BY BoardConstants DEF BoardShape, Others, Above, InColumn
<1>2. \A b \in others : b \in above <=> place[b] > place[after]
  BY DEF Above
<1>3. after \in Cards \cup {Top} /\ Top \notin others
  BY <1>1, BoardConstants DEF Drags
<1>4. others # {} =>
        /\ \A c \in others : Lowest(others) <= place[c]
        /\ \A c \in others : Highest(others) >= place[c]
        /\ Lowest(others) \in Int /\ Highest(others) \in Int
  BY <1>1, LowestIs, HighestIs
<1>5. above # {} =>
        /\ \E m \in above : Lowest(above) = place[m]
        /\ \A c \in above : Lowest(above) <= place[c]
        /\ Lowest(above) \in Int
  BY <1>1, LowestIs
<1>6. Target(h) =
        CASE after = Top /\ others = {}  -> Spacing
          [] after = Top /\ others # {}  -> Lowest(others) - Spacing
          [] after # Top /\ after \notin others ->
               (IF others = {} THEN 0 ELSE Highest(others)) + Spacing
          [] after \in others /\ above = {} -> place[after] + Spacing
          [] OTHER ->
               place[after] + (Lowest(above) - place[after]) \div 2
  BY DEF Target
<1>7. after \in others /\ above # {} => Lowest(above) - place[after] >= 2
  BY DEF HasRoom
<1>8. above \subseteq others
  BY DEF Above
<1> HIDE DEF after, others, above
<1>9. CASE after = Top
  <2>1. CASE others = {}
    BY <1>1, <1>3, <1>6, <1>9, <2>1 DEF after, others
  <2>2. CASE others # {}
    <3>1. Target(h) = Lowest(others) - Spacing
      BY <1>3, <1>6, <1>9, <2>2
    <3> QED
      BY <1>1, <1>3, <1>4, <1>9, <2>2, <3>1 DEF after, others
  <2> QED
    BY <2>1, <2>2
<1>10. CASE after # Top /\ after \notin others
  <2>1. Target(h) = (IF others = {} THEN 0 ELSE Highest(others)) + Spacing
    BY <1>6, <1>10
  <2> QED
    BY <1>1, <1>4, <1>10, <2>1 DEF after, others
<1>11. CASE after \in others /\ above = {}
  <2>1. Target(h) = place[after] + Spacing
    BY <1>3, <1>6, <1>11
  <2> QED
    BY <1>1, <1>2, <1>11, <2>1 DEF after, others
<1>12. CASE after \in others /\ above # {}
  <2> DEFINE low == Lowest(above)
  <2>1. Target(h) = place[after] + (low - place[after]) \div 2
    BY <1>3, <1>6, <1>12
  <2>2. place[after] \in Int /\ low \in Int /\ low - place[after] >= 2
    BY <1>1, <1>5, <1>7, <1>12
  <2>3. Target(h) \in Int /\ place[after] < Target(h) /\ Target(h) < low
    <3> HIDE DEF low
    <3> QED
      BY <2>1, <2>2
  <2>4. \A b \in others : place[b] <= place[after] \/ low <= place[b]
    BY <1>1, <1>2, <1>5, <1>12
  <2> HIDE DEF low
  <2> QED
    BY <1>1, <1>12, <2>2, <2>3, <2>4 DEF after, others
<1> QED
  BY <1>9, <1>10, <1>11, <1>12

(* A renumber moves one card: the rest keep the order they were read in,   *)
(* and the card comes right after the one it was dropped on.               *)
LEMMA NumbersInOrder ==
  ASSUME BoardShape, NEW h \in Hands, hand[h] \in Drags, OrderHolds(h),
         hand[h].phase = "ordered"
  PROVE  LET D == DOMAIN hand[h].order  c == hand[h].card
             a == hand[h].after IN
         /\ \A b \in D \cup {c} : Number(h, b) \in Int
         /\ \A b, d \in D \cup {c} :
              b # d => Number(h, b) # Number(h, d)
         /\ \A b, d \in D \ {c} :
              place[b] < place[d] => Number(h, b) < Number(h, d)
         /\ a \in D \ {c} =>
              /\ Number(h, a) < Number(h, c)
              /\ \A b \in D \ {c} :
                   ~(Number(h, a) < Number(h, b) /\ Number(h, b) < Number(h, c))
<1> DEFINE r == hand[h].order
           D == DOMAIN r
           c == hand[h].card
           a == hand[h].after
           slot == Slot(h)
<1>1. \A b \in D : r[b] \in Int
  BY DEF Drags, Ranks
<1>2. \A b, d \in D : /\ b # d => r[b] # r[d]
                      /\ place[b] < place[d] => r[b] < r[d]
  BY DEF OrderHolds, Ordered
<1>3. \A b \in D \ {c} :
        Among(h, b) = IF c \in D /\ r[c] < r[b] THEN r[b] - 1 ELSE r[b]
  BY DEF Among
<1>4. \A b \in D \ {c} : Among(h, b) \in Int
  BY <1>1, <1>3
<1>5. \A b, d \in D \ {c} :
        /\ b # d => Among(h, b) # Among(h, d)
        /\ place[b] < place[d] => Among(h, b) < Among(h, d)
  <2> TAKE b, d \in D \ {c}
  <2>1. b # d => Among(h, b) # Among(h, d)
    BY <1>1, <1>2, <1>3
  <2>2. ASSUME place[b] < place[d] PROVE Among(h, b) < Among(h, d)
    <3>1. r[b] < r[d] /\ r[b] \in Int /\ r[d] \in Int
      BY <1>1, <1>2, <2>2
    <3>2. c \in D => r[c] \in Int /\ r[b] # r[c] /\ r[d] # r[c]
      BY <1>1, <1>2
    <3> QED
      BY <1>3, <3>1, <3>2
  <2> QED
    BY <2>1, <2>2
<1>6. /\ a \in D \ {c} => slot = Among(h, a)
      /\ slot \in Int
  BY <1>4 DEF Slot
<1>7. /\ Number(h, c) = slot + 1
      /\ \A b \in D \ {c} : Number(h, b) =
           IF Among(h, b) <= slot THEN Among(h, b) ELSE Among(h, b) + 1
  BY DEF Number
<1> HIDE DEF r, D, c, a, slot
<1>8. \A b \in D \cup {c} : Number(h, b) \in Int
  BY <1>4, <1>6, <1>7
<1>9. \A b, d \in D \cup {c} : b # d => Number(h, b) # Number(h, d)
  <2> SUFFICES ASSUME NEW b \in D \cup {c}, NEW d \in D \cup {c}, b # d
               PROVE  Number(h, b) # Number(h, d)
    OBVIOUS
  <2>1. CASE b = c
    BY <1>4, <1>6, <1>7, <2>1
  <2>2. CASE d = c
    BY <1>4, <1>6, <1>7, <2>2
  <2>3. CASE b # c /\ d # c
    BY <1>4, <1>5, <1>6, <1>7, <2>3
  <2> QED
    BY <2>1, <2>2, <2>3
<1>10. \A b, d \in D \ {c} :
         place[b] < place[d] => Number(h, b) < Number(h, d)
  BY <1>4, <1>5, <1>6, <1>7
<1>11. a \in D \ {c} =>
         /\ Number(h, a) < Number(h, c)
         /\ \A b \in D \ {c} :
              ~(Number(h, a) < Number(h, b) /\ Number(h, b) < Number(h, c))
  BY <1>4, <1>6, <1>7
<1> QED
  BY <1>8, <1>9, <1>10, <1>11 DEF r, D, c, a

LEMMA SpacedApart ==
  ASSUME NEW m \in Int, NEW n \in Int
  PROVE  /\ Spacing * m \in Int
         /\ m < n => Spacing * m < Spacing * n
         /\ Spacing * m = Spacing * n => m = n
<1>1. Spacing \in Nat /\ Spacing > 0
  BY BoardConstants
<1>2. ASSUME NEW x \in Int, NEW y \in Int, x < y
      PROVE  Spacing * x < Spacing * y
  BY <1>1, <1>2
<1> QED
  BY <1>1, <1>2

------------------------------------------------------------------------------
(* Every step keeps the invariant *)

LEMMA NoRanks == <<>> \in Ranks
<1>1. <<>> \in [{} -> Int]
  OBVIOUS
<1> QED
  BY <1>1 DEF Ranks

LEMMA PhaseIsDrag ==
  ASSUME BoardShape, NEW h \in Hands, hand[h] # Empty
  PROVE  hand[h] \in Drags
BY DEF BoardShape

LEMMA BoardStarts == BoardInit => BoardInv
<1> SUFFICES ASSUME BoardInit PROVE BoardInv
  OBVIOUS
<1> USE DEF BoardInit
<1>1. BoardShape
  BY BoardConstants DEF BoardShape
<1>2. \A s \in Columns : InColumn(s) = {}
  BY DEF InColumn
<1>3. \A h \in Hands : hand[h] = Empty /\ hand[h].phase = "idle"
  BY DEF Empty
<1>4. \A h \in Hands : HandHolds(h)
  BY <1>3 DEF HandHolds, OrderHolds, Ordered, PlaceHolds, NewHolds
<1>5. \A g, h \in Hands : OneDrag(g, h)
  BY <1>3 DEF OneDrag
<1>6. DistinctPlaces
  BY <1>2 DEF DistinctPlaces
<1> QED
  BY <1>1, <1>4, <1>5, <1>6 DEF BoardInv

(* One hand moves and the board does not: that hand alone has to answer. *)
LEMMA HandMoves ==
  ASSUME BoardInv, UNCHANGED board, NEW h \in Hands,
         NEW j \in Drags \cup {Empty}, hand' = [hand EXCEPT ![h] = j],
         HandHolds(h)', \A g \in Hands : OneDrag(g, h)' /\ OneDrag(h, g)'
  PROVE  BoardInv'
<1> USE DEF board
<1>1. BoardShape'
  BY DEF BoardInv, BoardShape
<1>2. /\ hand'[h] = j
      /\ \A g \in Hands \ {h} : hand'[g] = hand[g]
  BY DEF BoardInv, BoardShape
<1>3. \A s \in Columns : InColumn(s)' = InColumn(s) /\ Firm(s)' = Firm(s)
  BY DEF InColumn, Firm
<1>4. ASSUME NEW g \in Hands \ {h} PROVE HandHolds(g)'
  <2>1. HandHolds(g) /\ hand'[g] = hand[g]
    BY <1>2 DEF BoardInv
  <2> QED
    BY <2>1 DEF HandHolds, OrderHolds, Ordered, PlaceHolds, NewHolds, InColumn, Firm
<1>5. \A g \in Hands : HandHolds(g)'
  BY <1>4
<1>6. ASSUME NEW f \in Hands \ {h}, NEW g \in Hands \ {h} PROVE OneDrag(f, g)'
  BY <1>2 DEF OneDrag, BoardInv
<1>7. \A f, g \in Hands : OneDrag(f, g)'
  BY <1>6
<1>8. DistinctPlaces'
  BY DEF BoardInv, DistinctPlaces, InColumn
<1> QED
  BY <1>1, <1>5, <1>7, <1>8 DEF BoardInv

LEMMA ReadEndKeeps ==
  ASSUME BoardInv, NEW h \in Hands, NEW c \in Cards, NEW s \in Columns,
         ReadEnd(h, c, s)
  PROVE  BoardInv'
<1> DEFINE j == [phase |-> "create", card |-> c, to |-> s,
                 after |-> Top, at |-> End(s), order |-> <<>>]
<1>1. End(s) \in Int
  BY BoardConstants DEF ReadEnd, Places
<1>2. j \in Drags
  BY <1>1, NoRanks DEF Drags
<1>3. hand' = [hand EXCEPT ![h] = j] /\ UNCHANGED board /\ hand'[h] = j
  BY DEF ReadEnd, BoardInv, BoardShape
<1>4. HandHolds(h)'
  BY <1>3 DEF HandHolds, OrderHolds, Ordered, PlaceHolds, NewHolds, ReadEnd, board
<1>5. ASSUME NEW g \in Hands PROVE OneDrag(g, h)' /\ OneDrag(h, g)'
  <2>1. CASE g = h
    BY <2>1 DEF OneDrag
  <2>2. CASE g # h
    <3>1. hand'[g] = hand[g] /\ (hand[g] # Empty => hand[g].card # c)
      BY <2>2 DEF ReadEnd, BoardInv, BoardShape
    <3> QED
      BY <1>3, <3>1 DEF OneDrag
  <2> QED
    BY <2>1, <2>2
<1> HIDE DEF j
<1> QED
  BY <1>2, <1>3, <1>4, <1>5, HandMoves

LEMMA ClaimKeeps ==
  ASSUME BoardInv, NEW h \in Hands, NEW c \in Cards, NEW s \in Columns,
         NEW after \in Cards \cup {Top}, Claim(h, c, s, after)
  PROVE  BoardInv'
<1> DEFINE j == [phase |-> "claimed", card |-> c, to |-> s,
                 after |-> after, at |-> 0, order |-> <<>>]
<1>1. j \in Drags
  BY NoRanks DEF Drags
<1>2. hand' = [hand EXCEPT ![h] = j] /\ UNCHANGED board /\ hand'[h] = j
  BY DEF Claim, BoardInv, BoardShape
<1>3. HandHolds(h)'
  BY <1>2 DEF HandHolds, OrderHolds, Ordered, PlaceHolds, NewHolds
<1>4. ASSUME NEW g \in Hands PROVE OneDrag(g, h)' /\ OneDrag(h, g)'
  <2>1. CASE g = h
    BY <2>1 DEF OneDrag
  <2>2. CASE g # h
    <3>1. hand'[g] = hand[g]
      BY <2>2, <1>2 DEF BoardInv, BoardShape
    <3>2. hand[g] # Empty /\ hand[g].phase # "create" => hand[g].to # s
      BY PhaseIsDrag DEF Claim, HoldsColumn, Drags, BoardInv
    <3>3. hand[g].phase = "create" => hand[g].card # c
      BY DEF Claim, BoardInv, HandHolds, NewHolds
    <3> QED
      BY <1>2, <3>1, <3>2, <3>3 DEF OneDrag
  <2> QED
    BY <2>1, <2>2
<1> HIDE DEF j
<1> QED
  BY <1>1, <1>2, <1>3, <1>4, HandMoves

LEMMA LetGoKeeps ==
  ASSUME BoardInv, NEW h \in Hands, LetGo(h)
  PROVE  BoardInv'
<1>1. hand' = [hand EXCEPT ![h] = Empty] /\ UNCHANGED board /\ hand'[h] = Empty
  BY DEF LetGo, BoardInv, BoardShape
<1>2. HandHolds(h)'
  BY <1>1 DEF HandHolds, OrderHolds, Ordered, PlaceHolds, NewHolds, Empty
<1>3. \A g \in Hands : OneDrag(g, h)' /\ OneDrag(h, g)'
  BY <1>1 DEF OneDrag
<1> QED
  BY <1>1, <1>2, <1>3, HandMoves

LEMMA LookKeeps ==
  ASSUME BoardInv, NEW h \in Hands, Look(h)
  PROVE  BoardInv'
<1>1. BoardShape /\ hand[h] \in Drags
  BY PhaseIsDrag DEF Look, BoardInv, Empty
<1>2. /\ Target(h) \in Int
      /\ \A b \in Others(h) : place[b] # Target(h)
      /\ hand[h].after \in Others(h) =>
           /\ place[hand[h].after] < Target(h)
           /\ \A b \in Others(h) :
                ~(place[hand[h].after] < place[b] /\ place[b] < Target(h))
  BY <1>1, TargetIsFree DEF Look
<1>3. PICK j \in Drags :
        /\ j = [hand[h] EXCEPT !.phase = "placed", !.at = Target(h)]
        /\ j.phase = "placed" /\ j.at = Target(h)
        /\ j.card = hand[h].card /\ j.to = hand[h].to
        /\ j.after = hand[h].after
  <2> DEFINE k == [hand[h] EXCEPT !.phase = "placed", !.at = Target(h)]
  <2>1. /\ k \in Drags
        /\ k.phase = "placed" /\ k.at = Target(h)
        /\ k.card = hand[h].card /\ k.to = hand[h].to
        /\ k.after = hand[h].after
    BY <1>1, <1>2 DEF Drags
  <2> QED
    BY <2>1
<1>4. hand' = [hand EXCEPT ![h] = j] /\ UNCHANGED board /\ hand'[h] = j
  BY <1>1, <1>3 DEF Look, BoardShape
<1>5. \A b \in Firm(hand[h].to) \ {hand[h].card} : b \in Others(h)
  BY DEF Firm, Others
<1>6. HandHolds(h)'
  <2>1. OrderHolds(h)' /\ NewHolds(h)'
    BY <1>3, <1>4 DEF OrderHolds, NewHolds
  <2>2. Firm(j.to)' = Firm(j.to)
    BY <1>4 DEF Firm, InColumn, board
  <2>3. PlaceHolds(h)'
    BY <1>2, <1>3, <1>4, <1>5, <2>2 DEF PlaceHolds, board
  <2> QED
    BY <2>1, <2>3 DEF HandHolds
<1>7. ASSUME NEW g \in Hands PROVE OneDrag(g, h)' /\ OneDrag(h, g)'
  <2>1. CASE g = h
    BY <2>1 DEF OneDrag
  <2>2. CASE g # h
    <3>1. hand'[g] = hand[g]
      BY <1>4, <2>2 DEF BoardInv, BoardShape
    <3>2. OneDrag(g, h) /\ OneDrag(h, g)
      BY DEF BoardInv
    <3>3. hand[h] # Empty /\ hand[h].phase = "claimed"
      BY DEF Look, Empty
    <3> QED
      BY <1>3, <1>4, <2>2, <3>1, <3>2, <3>3 DEF OneDrag
  <2> QED
    BY <2>1, <2>2
<1> QED
  BY <1>3, <1>4, <1>6, <1>7, HandMoves

LEMMA CrowdKeeps ==
  ASSUME BoardInv, NEW h \in Hands, Crowd(h)
  PROVE  BoardInv'
<1>1. hand[h] \in Drags /\ hand[h].phase = "claimed"
  BY PhaseIsDrag DEF Crowd, BoardInv, Empty
<1>2. PICK j \in Drags :
        /\ j = [hand[h] EXCEPT !.phase = "crowded"]
        /\ j.phase = "crowded" /\ j.card = hand[h].card /\ j.to = hand[h].to
  <2> DEFINE k == [hand[h] EXCEPT !.phase = "crowded"]
  <2>1. k \in Drags /\ k.phase = "crowded"
        /\ k.card = hand[h].card /\ k.to = hand[h].to
    BY <1>1 DEF Drags
  <2> QED
    BY <2>1
<1>3. hand' = [hand EXCEPT ![h] = j] /\ UNCHANGED board /\ hand'[h] = j
  BY <1>2 DEF Crowd, BoardInv, BoardShape
<1>4. HandHolds(h)'
  BY <1>2, <1>3 DEF HandHolds, OrderHolds, PlaceHolds, NewHolds
<1>5. ASSUME NEW g \in Hands PROVE OneDrag(g, h)' /\ OneDrag(h, g)'
  <2>1. CASE g = h
    BY <2>1 DEF OneDrag
  <2>2. CASE g # h
    <3>1. hand'[g] = hand[g]
      BY <1>3, <2>2 DEF BoardInv, BoardShape
    <3>2. OneDrag(g, h) /\ OneDrag(h, g)
      BY DEF BoardInv
    <3>3. hand[h] # Empty
      BY <1>1 DEF Empty
    <3> QED
      BY <1>1, <1>2, <1>3, <2>2, <3>1, <3>2, <3>3 DEF OneDrag
  <2> QED
    BY <2>1, <2>2
<1> QED
  BY <1>2, <1>3, <1>4, <1>5, HandMoves

LEMMA LockColumnKeeps ==
  ASSUME BoardInv, NEW h \in Hands, LockColumn(h)
  PROVE  BoardInv'
<1>1. BoardShape /\ hand[h] \in Drags
  BY PhaseIsDrag DEF LockColumn, BoardInv, Empty
<1> DEFINE S == InColumn(hand[h].to)
<1>2. PICK q \in Orderings(S) :
        hand' = [hand EXCEPT ![h].phase = "ordered", ![h].order = q]
  BY DEF LockColumn
<1>3. q \in Ranks /\ DOMAIN q = S
  <2>1. S \in SUBSET Cards
    BY DEF InColumn
  <2>2. q \in [S -> 1 .. Cardinality(S)]
    BY DEF Orderings
  <2>3. q \in [S -> Int]
    BY <2>2
  <2> QED
    BY <2>1, <2>3 DEF Ranks
<1>4. \A b, c \in S : /\ b # c => q[b] # q[c]
                      /\ place[b] < place[c] => q[b] < q[c]
  BY DEF Orderings
<1>5. PICK j \in Drags :
        /\ j = [hand[h] EXCEPT !.phase = "ordered", !.order = q]
        /\ j.phase = "ordered" /\ j.order = q
        /\ j.card = hand[h].card /\ j.to = hand[h].to
  <2> DEFINE k == [hand[h] EXCEPT !.phase = "ordered", !.order = q]
  <2>1. /\ k \in Drags
        /\ k.phase = "ordered" /\ k.order = q
        /\ k.card = hand[h].card /\ k.to = hand[h].to
    BY <1>1, <1>3 DEF Drags
  <2> QED
    BY <2>1
<1>6. hand' = [hand EXCEPT ![h] = j] /\ UNCHANGED board /\ hand'[h] = j
  BY <1>1, <1>2, <1>5 DEF LockColumn, BoardShape
<1>7. HandHolds(h)'
  <2>1. PlaceHolds(h)' /\ NewHolds(h)'
    BY <1>5, <1>6 DEF PlaceHolds, NewHolds
  <2>2. /\ InColumn(j.to)' = InColumn(j.to) /\ S = InColumn(j.to)
        /\ Firm(j.to)' \subseteq S
    BY <1>5, <1>6 DEF Firm, InColumn, board
  <2>3. /\ hand'[h].order = q /\ hand'[h].to = j.to /\ place' = place
    BY <1>5, <1>6 DEF board
  <2>4. DOMAIN q \subseteq InColumn(j.to)' /\ Firm(j.to)' \subseteq DOMAIN q
    BY <1>3, <2>2
  <2>5. \A b, c \in DOMAIN q : /\ b # c => q[b] # q[c]
                               /\ place'[b] < place'[c] => q[b] < q[c]
    BY <1>3, <1>4, <2>3
  <2>6. Ordered(q, j.to)'
    BY <2>4, <2>5 DEF Ordered
  <2>7. OrderHolds(h)'
    BY <2>3, <2>6 DEF OrderHolds
  <2> QED
    BY <2>1, <2>7 DEF HandHolds
<1>8. ASSUME NEW g \in Hands PROVE OneDrag(g, h)' /\ OneDrag(h, g)'
  <2>1. CASE g = h
    BY <2>1 DEF OneDrag
  <2>2. CASE g # h
    <3>1. hand'[g] = hand[g]
      BY <1>6, <2>2 DEF BoardInv, BoardShape
    <3>2. OneDrag(g, h) /\ OneDrag(h, g)
      BY DEF BoardInv
    <3>3. hand[h] # Empty /\ hand[h].phase = "crowded"
      BY DEF LockColumn, Empty
    <3> QED
      BY <1>5, <1>6, <2>2, <3>1, <3>2, <3>3 DEF OneDrag
  <2> QED
    BY <2>1, <2>2
<1> QED
  BY <1>5, <1>6, <1>7, <1>8, HandMoves

LEMMA DistinctIsFirm ==
  DistinctPlaces <=>
    \A s \in Columns : \A b, c \in Firm(s) : place[b] = place[c] => b = c
BY DEF DistinctPlaces, Firm

(* A step that takes no lock: what is firm gets less and stays put, the    *)
(* rows a renumber holds stay where they are.                              *)
LEMMA LooseStep ==
  ASSUME BoardInv, BoardShape',
         \A s \in Columns : Firm(s)' \subseteq Firm(s),
         \A s \in Columns : \A c \in Firm(s)' : place'[c] = place[c],
         \A g \in Hands : hand'[g] = hand[g] \/ hand'[g] = Empty,
         \A g \in Hands : hand'[g] = hand[g] /\ hand[g].phase = "ordered" =>
           \A c \in DOMAIN hand[g].order :
             c \in InColumn(hand[g].to)' /\ place'[c] = place[c],
         \A g \in Hands : NewHolds(g)'
  PROVE  BoardInv'
<1>1. ASSUME NEW g \in Hands PROVE HandHolds(g)'
  <2>1. CASE hand'[g] = Empty
    BY <2>1 DEF HandHolds, OrderHolds, PlaceHolds, NewHolds, Empty
  <2>2. CASE hand'[g] = hand[g] /\ hand[g] # Empty
    <3>1. PICK j \in Drags : j = hand[g]
      BY <2>2, PhaseIsDrag DEF BoardInv
    <3>2. hand'[g] = j /\ hand[g] = j /\ j.to \in Columns
      BY <2>2, <3>1 DEF Drags
    <3>3. Firm(j.to)' \subseteq Firm(j.to)
          /\ \A c \in Firm(j.to)' : place'[c] = place[c]
      BY <3>2
    <3>4. OrderHolds(g)'
      <4>1. ASSUME j.phase = "ordered" PROVE Ordered(j.order, j.to)'
        <5>1. Ordered(j.order, j.to)
          BY <3>2, <4>1 DEF BoardInv, HandHolds, OrderHolds
        <5>2. \A c \in DOMAIN j.order :
                c \in InColumn(j.to)' /\ place'[c] = place[c]
          BY <3>2, <4>1
        <5> QED
          BY <3>3, <5>1, <5>2 DEF Ordered
      <4> QED
        BY <3>2, <4>1 DEF OrderHolds
    <3>5. PlaceHolds(g)'
      <4>1. PlaceHolds(g)
        BY DEF BoardInv, HandHolds
      <4> QED
        BY <3>2, <3>3, <4>1 DEF PlaceHolds
    <3> QED
      BY <3>4, <3>5 DEF HandHolds
  <2> QED
    BY <2>1, <2>2
<1>2. ASSUME NEW f \in Hands, NEW g \in Hands PROVE OneDrag(f, g)'
  <2>1. OneDrag(f, g)
    BY DEF BoardInv
  <2>2. hand'[f] = Empty \/ hand'[f] = hand[f]
    OBVIOUS
  <2>3. hand'[g] = Empty \/ hand'[g] = hand[g]
    OBVIOUS
  <2> QED
    BY <2>1, <2>2, <2>3 DEF OneDrag
<1>3. DistinctPlaces'
  <2>1. ASSUME NEW s \in Columns, NEW b \in Firm(s)', NEW c \in Firm(s)',
               place'[b] = place'[c]
        PROVE  b = c
    <3>1. b \in Firm(s) /\ c \in Firm(s) /\ place[b] = place[c]
      BY <2>1
    <3> QED
      BY <3>1, DistinctIsFirm DEF BoardInv
  <2> QED
    BY <2>1 DEF DistinctPlaces, Firm
<1> QED
  BY <1>1, <1>2, <1>3 DEF BoardInv

LEMMA CreateCardKeeps ==
  ASSUME BoardInv, NEW h \in Hands, Create(h)
  PROVE  BoardInv'
<1>1. BoardShape /\ hand[h] \in Drags
  BY PhaseIsDrag DEF Create, BoardInv, Empty
<1>2. PICK j \in Drags : j = hand[h]
  BY <1>1
<1> DEFINE c == j.card
<1>3. /\ c \in Cards /\ j.to \in Columns /\ j.at \in Int
      /\ card' = [card EXCEPT ![c] = "live"]
      /\ column' = [column EXCEPT ![c] = j.to]
      /\ place' = [place EXCEPT ![c] = j.at]
      /\ loose' = loose \cup {c}
      /\ hand' = [hand EXCEPT ![h] = Empty]
  BY <1>2 DEF Create, Drags
<1>4. card[c] = "none"
  BY <1>2 DEF Create, BoardInv, HandHolds, NewHolds
<1> HIDE DEF c
<1>5. BoardShape'
  BY <1>1, <1>3 DEF BoardShape
<1>6. ASSUME NEW s \in Columns
      PROVE  /\ Firm(s)' \subseteq Firm(s)
             /\ \A b \in InColumn(s) : b \in InColumn(s)' /\ place'[b] = place[b]
  BY <1>1, <1>3, <1>4 DEF BoardShape, Firm, InColumn
<1>7. \A s \in Columns : \A b \in Firm(s)' : place'[b] = place[b]
  BY <1>6 DEF Firm
<1>8. /\ hand'[h] = Empty
      /\ \A g \in Hands \ {h} : hand'[g] = hand[g]
  BY <1>1, <1>3 DEF BoardShape
<1>9. ASSUME NEW g \in Hands, hand'[g] = hand[g], hand[g].phase = "ordered",
             NEW b \in DOMAIN hand[g].order
      PROVE  b \in InColumn(hand[g].to)' /\ place'[b] = place[b]
  <2>1. PICK k \in Drags : k = hand[g]
    BY <1>1, <1>9, PhaseIsDrag DEF Empty
  <2>2. b \in InColumn(k.to) /\ k.to \in Columns
    BY <1>9, <2>1 DEF BoardInv, HandHolds, OrderHolds, Ordered, Drags
  <2>3. b \in InColumn(k.to)' /\ place'[b] = place[b]
    BY <1>6, <2>2
  <2> QED
    BY <1>9, <2>1, <2>3
<1>10. ASSUME NEW g \in Hands PROVE NewHolds(g)'
  <2>1. CASE g = h
    BY <1>8, <2>1 DEF NewHolds, Empty
  <2>2. CASE g # h
    <3>1. hand'[g] = hand[g] /\ NewHolds(g) /\ OneDrag(h, g)
      BY <1>8, <2>2 DEF BoardInv, HandHolds
    <3>2. hand[g].phase = "create" => hand[g].card # c /\ hand[g].card \in Cards
      BY <1>1, <1>2, <2>2, <3>1, PhaseIsDrag DEF OneDrag, Empty, Create, Drags, c
    <3> QED
      BY <1>1, <1>3, <3>1, <3>2 DEF NewHolds, BoardShape
  <2> QED
    BY <2>1, <2>2
<1> QED
  BY <1>5, <1>6, <1>7, <1>8, <1>9, <1>10, LooseStep

LEMMA CardStepKeeps ==
  ASSUME BoardInv, NEW c \in Cards,
         (\E s \in Columns : UpdateStatus(c, s)) \/ Delete(c) \/ Restore(c)
  PROVE  BoardInv'
<1>1. BoardShape
  BY DEF BoardInv
<1>2. BoardShape'
  BY <1>1 DEF BoardShape, UpdateStatus, Delete, Restore
<1>3. place' = place /\ hand' = hand
  BY DEF UpdateStatus, Delete, Restore
<1>4. card[c] # "none"
      /\ \A b \in Cards : b # c => card'[b] = card[b] /\ column'[b] = column[b]
  BY <1>1 DEF BoardShape, UpdateStatus, Delete, Restore
<1>5. card'[c] # "live" \/ c \in loose'
  BY <1>1 DEF BoardShape, UpdateStatus, Delete, Restore
<1>6. loose' = loose \/ loose' = loose \cup {c}
  BY DEF UpdateStatus, Delete, Restore
<1>7. RowFree(c) \/ (card[c] = "deleted")
  BY DEF UpdateStatus, Delete, Restore
<1>8. ASSUME NEW s \in Columns PROVE Firm(s)' \subseteq Firm(s)
  BY <1>4, <1>5, <1>6 DEF Firm, InColumn
<1>9. ASSUME NEW g \in Hands, hand[g].phase = "ordered",
             NEW b \in DOMAIN hand[g].order
      PROVE  b \in InColumn(hand[g].to)'
  <2>1. PICK k \in Drags : k = hand[g]
    BY <1>1, <1>9, PhaseIsDrag DEF Empty
  <2>2. b \in InColumn(k.to) /\ k.to \in Columns
    BY <1>9, <2>1 DEF BoardInv, HandHolds, OrderHolds, Ordered, Drags
  <2>3. b # c
    BY <1>7, <1>9, <2>2 DEF RowFree, InColumn
  <2>4. b \in InColumn(k.to)'
    BY <1>4, <2>2, <2>3 DEF InColumn
  <2> QED
    BY <1>3, <2>1, <2>4
<1>10. ASSUME NEW g \in Hands PROVE NewHolds(g)'
  <2>1. NewHolds(g)
    BY DEF BoardInv, HandHolds
  <2>2. hand[g].phase = "create" => hand[g].card \in Cards
    BY <1>1, PhaseIsDrag DEF Empty, Drags
  <2> QED
    BY <1>3, <1>4, <2>1, <2>2 DEF NewHolds
<1> QED
  BY <1>2, <1>3, <1>8, <1>9, <1>10, LooseStep

(* What a drop does to its column and leaves of every other. *)
LEMMA DropEffects ==
  ASSUME BoardInv, NEW h \in Hands, Drop(h), NEW j \in Drags, j = hand[h]
  PROVE  /\ place' \in [Cards -> Int]
         /\ \A b \in Cards \ {j.card} :
              column'[b] = column[b] /\ (b \in loose' <=> b \in loose)
         /\ card[j.card] = "live" =>
              column'[j.card] = j.to /\ j.card \notin loose'
         /\ card[j.card] # "live" =>
              place'[j.card] = place[j.card] /\ column' = column
         /\ \A s \in Columns \ {j.to} : \A b \in InColumn(s) \ {j.card} :
              place'[b] = place[b]
         /\ \A a, b \in Firm(j.to) \ {j.card} :
              /\ place[a] < place[b] => place'[a] < place'[b]
              /\ a # b => place'[a] # place'[b]
         /\ card[j.card] = "live" =>
              /\ \A b \in Firm(j.to) \ {j.card} : place'[b] # place'[j.card]
              /\ j.after \in Firm(j.to) \ {j.card} =>
                   /\ place'[j.after] < place'[j.card]
                   /\ \A b \in Firm(j.to) \ {j.card, j.after} :
                        ~(place'[j.after] < place'[b]
                            /\ place'[b] < place'[j.card])
<1> DEFINE c == j.card  D == DOMAIN j.order  firm == Firm(j.to) \ {c}
<1>1. /\ BoardShape /\ c \in Cards /\ j.to \in Columns /\ j.at \in Int
      /\ \A b \in Cards : place[b] \in Int
  BY DEF BoardInv, BoardShape, Drags
<1>2. \A b \in Cards : place'[b] =
        IF b \notin Written(h) \/ card[b] # "live" THEN place[b]
        ELSE IF j.phase = "placed" THEN j.at ELSE Spacing * Number(h, b)
  BY DEF Drop
<1>3. Written(h) = {c} \cup IF j.phase = "ordered" THEN D ELSE {}
  BY DEF Written
<1>4. j.phase \in {"placed", "ordered"} /\ DOMAIN place' = Cards
  BY DEF Drop
<1>5. /\ card[c] = "live" => column' = [column EXCEPT ![c] = j.to]
                             /\ loose' = loose \ {c}
      /\ card[c] # "live" => column' = column /\ loose' = loose
  BY DEF Drop
<1>6. firm \subseteq Cards /\ \A b \in firm : card[b] = "live"
      /\ firm \subseteq InColumn(j.to) /\ c \notin firm
  BY DEF Firm, InColumn
<1>7. /\ \A b \in Cards \ {c} :
           column'[b] = column[b] /\ (b \in loose' <=> b \in loose)
      /\ card[c] = "live" => column'[c] = j.to /\ c \notin loose'
      /\ card[c] # "live" => place'[c] = place[c] /\ column' = column
  BY <1>1, <1>2, <1>5 DEF BoardShape
<1>8. CASE j.phase = "placed"
  <2>1. \A b \in Cards : place'[b] =
          IF b = c /\ card[c] = "live" THEN j.at ELSE place[b]
    BY <1>2, <1>3, <1>8
  <2>2. place' \in [Cards -> Int]
    <3>1. \A b \in Cards : place'[b] \in Int
      BY <1>1, <2>1
    <3>2. place' = [b \in Cards |-> place'[b]]
      BY DEF Drop
    <3> QED
      BY <3>1, <3>2
  <2>3. \A b \in firm : place'[b] = place[b]
    BY <1>6, <2>1
  <2>4. \A a, b \in firm : a # b => place[a] # place[b]
    BY DistinctIsFirm, <1>1 DEF BoardInv
  <2>5. \A b \in firm :
          /\ place[b] # j.at
          /\ j.after \in firm =>
               /\ place[j.after] < j.at
               /\ b # j.after => ~(place[j.after] < place[b] /\ place[b] < j.at)
    BY <1>8 DEF BoardInv, HandHolds, PlaceHolds
  <2>6. \A s \in Columns : \A b \in InColumn(s) \ {c} : place'[b] = place[b]
    BY <2>1 DEF InColumn
  <2>7. card[c] = "live" => place'[c] = j.at
    BY <1>1, <2>1
  <2>8. \A a, b \in firm : /\ place[a] < place[b] => place'[a] < place'[b]
                           /\ a # b => place'[a] # place'[b]
    BY <2>3, <2>4
  <2>9. ASSUME card[c] = "live"
        PROVE  /\ \A b \in firm : place'[b] # place'[c]
               /\ j.after \in firm =>
                    /\ place'[j.after] < place'[c]
                    /\ \A b \in firm \ {j.after} :
                         ~(place'[j.after] < place'[b]
                             /\ place'[b] < place'[c])
    BY <2>3, <2>5, <2>7, <2>9
  <2> QED
    BY <1>7, <2>2, <2>6, <2>8, <2>9
<1>9. CASE j.phase = "ordered"
  <2>1. \A b \in Cards : place'[b] =
          IF b \in D \cup {c} /\ card[b] = "live" THEN Spacing * Number(h, b)
          ELSE place[b]
    BY <1>2, <1>3, <1>9
  <2>2. Ordered(j.order, j.to) /\ OrderHolds(h)
    BY <1>9 DEF BoardInv, HandHolds, OrderHolds
  <2>3. /\ \A b \in D \cup {c} : Number(h, b) \in Int
        /\ \A a, b \in D \cup {c} : a # b => Number(h, a) # Number(h, b)
        /\ \A a, b \in D \ {c} :
             place[a] < place[b] => Number(h, a) < Number(h, b)
        /\ j.after \in D \ {c} =>
             /\ Number(h, j.after) < Number(h, c)
             /\ \A b \in D \ {c} :
                  ~(Number(h, j.after) < Number(h, b)
                      /\ Number(h, b) < Number(h, c))
    BY <1>1, <1>9, <2>2, NumbersInOrder
  <2>4. firm \subseteq D \ {c} /\ D \subseteq InColumn(j.to)
    BY <2>2 DEF Ordered
  <2>5. \A b \in D \cup {c} : Spacing * Number(h, b) \in Int
    BY <2>3, SpacedApart
  <2>6. place' \in [Cards -> Int]
    <3>1. \A b \in Cards : place'[b] \in Int
      BY <1>1, <2>1, <2>5
    <3>2. place' = [b \in Cards |-> place'[b]]
      BY DEF Drop
    <3> QED
      BY <3>1, <3>2
  <2>7. \A b \in firm : place'[b] = Spacing * Number(h, b)
    BY <1>6, <2>1, <2>4
  <2>8. card[c] = "live" => place'[c] = Spacing * Number(h, c)
    BY <1>1, <2>1
  <2>9. \A s \in Columns \ {j.to} : \A b \in InColumn(s) \ {c} :
          place'[b] = place[b]
    BY <2>1, <2>4 DEF InColumn
  <2>10. \A a, b \in D \cup {c} :
           /\ Number(h, a) < Number(h, b) =>
                Spacing * Number(h, a) < Spacing * Number(h, b)
           /\ Spacing * Number(h, a) < Spacing * Number(h, b) =>
                Number(h, a) < Number(h, b)
           /\ a # b => Spacing * Number(h, a) # Spacing * Number(h, b)
    <3> TAKE a, b \in D \cup {c}
    <3>1. PICK m \in Int : m = Number(h, a)
      BY <2>3
    <3>2. PICK n \in Int : n = Number(h, b)
      BY <2>3
    <3>3. a # b => m # n
      BY <2>3, <3>1, <3>2
    <3>4. /\ Spacing * m \in Int /\ Spacing * n \in Int
          /\ m < n => Spacing * m < Spacing * n
          /\ n < m => Spacing * n < Spacing * m
          /\ Spacing * m = Spacing * n => m = n
      BY SpacedApart
    <3>5. Spacing * m < Spacing * n => m < n
      BY <3>4
    <3> QED
      BY <3>1, <3>2, <3>3, <3>4, <3>5
  <2>11. \A a, b \in firm : /\ place[a] < place[b] => place'[a] < place'[b]
                            /\ a # b => place'[a] # place'[b]
    BY <2>3, <2>4, <2>7, <2>10
  <2>12. ASSUME card[c] = "live"
         PROVE  /\ \A b \in firm : place'[b] # place'[c]
                /\ j.after \in firm =>
                     /\ place'[j.after] < place'[c]
                     /\ \A b \in firm \ {j.after} :
                          ~(place'[j.after] < place'[b]
                              /\ place'[b] < place'[c])
    <3>1. \A b \in firm : place'[b] # place'[c]
      BY <1>6, <2>4, <2>7, <2>8, <2>10, <2>12
    <3>2. ASSUME j.after \in firm PROVE place'[j.after] < place'[c]
      BY <2>3, <2>4, <2>7, <2>8, <2>10, <2>12, <3>2
    <3>3. ASSUME j.after \in firm, NEW b \in firm
          PROVE  ~(place'[j.after] < place'[b] /\ place'[b] < place'[c])
      BY <2>3, <2>4, <2>7, <2>8, <2>10, <2>12, <3>3
    <3> QED
      BY <3>1, <3>2, <3>3
  <2> QED
    BY <1>7, <2>6, <2>9, <2>11, <2>12
<1> QED
  BY <1>4, <1>8, <1>9

LEMMA DropKeeps ==
  ASSUME BoardInv, NEW h \in Hands, Drop(h)
  PROVE  BoardInv'
<1>1. BoardShape /\ hand[h] \in Drags
  BY PhaseIsDrag DEF Drop, BoardInv, Empty
<1>2. PICK j \in Drags : j = hand[h]
  BY <1>1
<1> DEFINE c == j.card
<1>3. /\ place' \in [Cards -> Int]
      /\ \A b \in Cards \ {c} :
           column'[b] = column[b] /\ (b \in loose' <=> b \in loose)
      /\ card[c] = "live" => column'[c] = j.to /\ c \notin loose'
      /\ \A s \in Columns \ {j.to} : \A b \in InColumn(s) \ {c} :
           place'[b] = place[b]
      /\ \A a, b \in Firm(j.to) \ {c} : a # b => place'[a] # place'[b]
      /\ card[c] = "live" =>
           \A b \in Firm(j.to) \ {c} : place'[b] # place'[c]
  BY <1>2, DropEffects
<1>4. /\ c \in Cards /\ j.to \in Columns /\ card' = card
      /\ hand' = [hand EXCEPT ![h] = Empty] /\ hand'[h] = Empty
      /\ j.phase \in {"placed", "ordered"} /\ hand[h] # Empty
  BY <1>1, <1>2 DEF Drop, Drags, BoardShape, Empty
<1>5. BoardShape'
  BY <1>1, <1>2, <1>3, <1>4 DEF BoardShape, Drop
<1>6. \A s \in Columns \ {j.to} : Firm(s)' \subseteq Firm(s) \ {c}
  BY <1>3, <1>4 DEF Firm, InColumn
<1>7. Firm(j.to)' \subseteq Firm(j.to) \cup {c}
      /\ (c \in Firm(j.to)' => card[c] = "live")
  BY <1>3, <1>4 DEF Firm, InColumn
<1>8. \A s \in Columns : \A b \in InColumn(s) \ {c} : b \in InColumn(s)'
  BY <1>3, <1>4 DEF InColumn
<1> HIDE DEF c
<1>9. \A s \in Columns \ {j.to} : \A b \in Firm(s)' : place'[b] = place[b]
  BY <1>3, <1>6 DEF Firm
<1>10. ASSUME NEW g \in Hands PROVE HandHolds(g)'
  <2>1. CASE hand'[g] = Empty
    BY <2>1 DEF HandHolds, OrderHolds, PlaceHolds, NewHolds, Empty
  <2>2. CASE hand'[g] # Empty
    <3>1. g # h /\ hand'[g] = hand[g]
      BY <1>1, <1>4, <2>2 DEF BoardShape
    <3>2. PICK k \in Drags : k = hand[g]
      BY <1>1, <2>2, <3>1, PhaseIsDrag
    <3>3. hand'[g] = k /\ hand[g] = k /\ k # Empty /\ k.to \in Columns
      BY <2>2, <3>1, <3>2 DEF Drags
    <3>4. NewHolds(g)'
      BY <1>4, <3>3 DEF NewHolds, BoardInv, HandHolds
    <3>5. k.phase # "create" => k.to # j.to
      BY <1>2, <1>4, <3>1, <3>3 DEF BoardInv, OneDrag
    <3>6. OrderHolds(g)'
      <4>1. ASSUME k.phase = "ordered" PROVE Ordered(k.order, k.to)'
        <5>1. Ordered(k.order, k.to) /\ k.to \in Columns \ {j.to}
          BY <3>3, <3>5, <4>1 DEF BoardInv, HandHolds, OrderHolds
        <5>2. c \notin DOMAIN k.order
          BY <1>2, <3>1, <3>3, <4>1 DEF Drop, c
        <5>3. \A b \in DOMAIN k.order :
                b \in InColumn(k.to)' /\ place'[b] = place[b]
          BY <1>3, <1>8, <5>1, <5>2 DEF Ordered
        <5>4. Firm(k.to)' \subseteq DOMAIN k.order
          BY <1>6, <5>1 DEF Ordered
        <5> QED
          BY <5>1, <5>3, <5>4 DEF Ordered
      <4> QED
        BY <3>3, <4>1 DEF OrderHolds
    <3>7. PlaceHolds(g)'
      <4>1. PlaceHolds(g)
        BY DEF BoardInv, HandHolds
      <4>2. ASSUME k.phase = "placed"
            PROVE  Firm(k.to)' \subseteq Firm(k.to)
                   /\ \A b \in Firm(k.to)' : place'[b] = place[b]
        BY <1>6, <1>9, <3>3, <3>5, <4>2
      <4> QED
        BY <3>3, <4>1, <4>2 DEF PlaceHolds
    <3> QED
      BY <3>4, <3>6, <3>7 DEF HandHolds
  <2> QED
    BY <2>1, <2>2
<1>11. ASSUME NEW f \in Hands, NEW g \in Hands PROVE OneDrag(f, g)'
  <2>1. OneDrag(f, g)
    BY DEF BoardInv
  <2>2. \A x \in Hands : hand'[x] = Empty \/ hand'[x] = hand[x]
    BY <1>1, <1>4 DEF BoardShape
  <2>3. hand'[f] = Empty \/ hand'[f] = hand[f]
    BY <2>2
  <2>4. hand'[g] = Empty \/ hand'[g] = hand[g]
    BY <2>2
  <2> QED
    BY <2>1, <2>3, <2>4 DEF OneDrag
<1>12. DistinctPlaces'
  <2>1. ASSUME NEW s \in Columns, NEW a \in Firm(s)', NEW b \in Firm(s)',
               place'[a] = place'[b]
        PROVE  a = b
    <3>1. CASE s = j.to
      BY <1>3, <1>7, <2>1, <3>1
    <3>2. CASE s # j.to
      <4>1. a \in Firm(s) /\ b \in Firm(s) /\ place[a] = place[b]
        BY <1>6, <1>9, <2>1, <3>2
      <4> QED
        BY <4>1, DistinctIsFirm DEF BoardInv
    <3> QED
      BY <3>1, <3>2
  <2> QED
    BY <2>1 DEF DistinctPlaces, Firm
<1> QED
  BY <1>5, <1>10, <1>11, <1>12 DEF BoardInv

LEMMA BoardKeeps == BoardInv /\ [BoardNext]_boardVars => BoardInv'
<1> SUFFICES ASSUME BoardInv, [BoardNext]_boardVars PROVE BoardInv'
  OBVIOUS
<1>1. ASSUME NEW h \in Hands, NEW c \in Cards, NEW s \in Columns,
             ReadEnd(h, c, s)
      PROVE  BoardInv'
  BY <1>1, ReadEndKeeps
<1>2. ASSUME NEW h \in Hands, Create(h) PROVE BoardInv'
  BY <1>2, CreateCardKeeps
<1>3. ASSUME NEW h \in Hands, Drag(h) PROVE BoardInv'
  BY <1>3, ClaimKeeps, LookKeeps, CrowdKeeps, LockColumnKeeps, DropKeeps, LetGoKeeps
    DEF Drag
<1>4. ASSUME NEW c \in Cards,
             (\E s \in Columns : UpdateStatus(c, s)) \/ Delete(c) \/ Restore(c)
      PROVE  BoardInv'
  BY <1>4, CardStepKeeps
<1>5. CASE UNCHANGED boardVars
  BY <1>5 DEF boardVars, board, BoardInv, BoardShape, HandHolds, OrderHolds,
    Ordered, PlaceHolds, NewHolds, OneDrag, DistinctPlaces, Firm, InColumn
<1> QED
  BY <1>1, <1>2, <1>3, <1>4, <1>5 DEF BoardNext

(* Cards put in a column under its lock never share a position there, for  *)
(* any number of cards, columns and requests                               *)
(* (core/src/tasks/service.ts: moveTaskInTx).                              *)
THEOREM PlacesStayDistinct == BoardSpec => []DistinctPlaces
<1>1. BoardInv => DistinctPlaces
  BY DEF BoardInv
<1> QED
  BY BoardStarts, BoardKeeps, <1>1, PTL DEF BoardSpec

------------------------------------------------------------------------------
(* The bounds of the runs.  A renumber writes no number beyond that of the *)
(* cards there are.                                                        *)
RanksCount(h) ==
  hand[h].phase = "ordered" =>
    \A b \in DOMAIN hand[h].order :
      hand[h].order[b] \in 1 .. Cardinality(DOMAIN hand[h].order)

BoardBounds ==
  /\ place \in [Cards -> Places]
  /\ \A h \in Hands : hand[h] # Empty => hand[h].at \in Places
  /\ \A h \in Hands : RanksCount(h)

LEMMA PlacesAre ==
  /\ Places \subseteq Int /\ 0 \in Places
  /\ \A n \in 1 .. Cardinality(Cards) : Spacing * n \in Places
<1>1. /\ Spacing \in Nat /\ Depth \in Nat /\ Ceiling \in Nat
      /\ Cardinality(Cards) \in Nat /\ Spacing * Cardinality(Cards) <= Ceiling
  BY BoardConstants, FS_CardinalityType
<1>2. ASSUME NEW n \in 1 .. Cardinality(Cards) PROVE Spacing * n \in Places
  <2>1. Spacing * n \in Int /\ Spacing * n <= Spacing * Cardinality(Cards)
    BY <1>1, SpacedApart
  <2>2. Spacing * n >= 0
    <3>1. Spacing * 0 = 0 /\ Spacing * 0 < Spacing * n
      BY <1>1, SpacedApart
    <3> QED
      BY <2>1, <3>1
  <2>3. Spacing * Cardinality(Cards) \in Int
    BY <1>1, SpacedApart
  <2> QED
    BY <1>1, <2>1, <2>2, <2>3 DEF Places
<1> QED
  BY <1>1, <1>2 DEF Places

LEMMA SomeCards ==
  ASSUME NEW S \in SUBSET Cards
  PROVE  /\ IsFiniteSet(S) /\ Cardinality(S) \in Nat
         /\ Cardinality(Cards) \in Nat /\ Cardinality(S) <= Cardinality(Cards)
         /\ \A c \in Cards \ S : Cardinality(S) + 1 <= Cardinality(Cards)
<1>1. IsFiniteSet(Cards) /\ IsFiniteSet(S)
  BY BoardConstants, FS_Subset
<1>2. /\ Cardinality(S) \in Nat /\ Cardinality(Cards) \in Nat
      /\ Cardinality(S) <= Cardinality(Cards)
  BY <1>1, FS_Subset, FS_CardinalityType
<1>3. ASSUME NEW c \in Cards \ S
      PROVE  Cardinality(S) + 1 <= Cardinality(Cards)
  <2>1. Cardinality(S \cup {c}) = Cardinality(S) + 1
    BY <1>1, FS_AddElement
  <2>2. S \cup {c} \in SUBSET Cards
    OBVIOUS
  <2> QED
    BY <1>1, <2>1, <2>2, FS_Subset
<1> QED
  BY <1>1, <1>2, <1>3

LEMMA NumberFits ==
  ASSUME BoardInv, NEW h \in Hands, RanksCount(h), hand[h].phase = "ordered"
  PROVE  LET D == DOMAIN hand[h].order  c == hand[h].card IN
         \A b \in D \cup {c} : Number(h, b) \in 1 .. Cardinality(Cards)
<1> DEFINE r == hand[h].order
           D == DOMAIN r
           c == hand[h].card
           a == hand[h].after
           n == Cardinality(D)
           slot == Slot(h)
<1>1. hand[h] \in Drags /\ c \in Cards
  BY PhaseIsDrag DEF BoardInv, Empty, Drags
<1>2. D \in SUBSET Cards
  BY <1>1 DEF Drags, Ranks
<1>3. /\ n \in Nat /\ Cardinality(Cards) \in Nat /\ n <= Cardinality(Cards)
      /\ c \notin D => n + 1 <= Cardinality(Cards)
  BY <1>1, <1>2, SomeCards
<1>4. \A b \in D : r[b] \in 1 .. n
  BY DEF RanksCount
<1>5. \A b, d \in D : b # d => r[b] # r[d]
  BY DEF BoardInv, HandHolds, OrderHolds, Ordered
<1>6. \A b \in D \ {c} :
        Among(h, b) = IF c \in D /\ r[c] < r[b] THEN r[b] - 1 ELSE r[b]
  BY DEF Among
<1>7. /\ a \in D \ {c} => slot = Among(h, a)
      /\ a \notin D \ {c} => slot = 0
  BY DEF Slot
<1>8. /\ Number(h, c) = slot + 1
      /\ \A b \in D \ {c} : Number(h, b) =
           IF Among(h, b) <= slot THEN Among(h, b) ELSE Among(h, b) + 1
  BY DEF Number
<1> HIDE DEF r, D, c, a, slot, n
<1>9. CASE c \in D
  <2>1. \A b \in D \ {c} : Among(h, b) \in 1 .. (n - 1)
    <3> TAKE b \in D \ {c}
    <3>1. r[b] \in 1 .. n /\ r[c] \in 1 .. n /\ r[b] # r[c]
      BY <1>4, <1>5, <1>9
    <3> QED
      BY <1>3, <1>6, <1>9, <3>1
  <2>2. slot \in 0 .. (n - 1)
    BY <1>3, <1>4, <1>7, <1>9, <2>1
  <2>3. \A b \in D \cup {c} : Number(h, b) \in 1 .. n
    BY <1>3, <1>8, <2>1, <2>2
  <2> QED
    BY <1>3, <2>3 DEF D, c, r
<1>10. CASE c \notin D
  <2>1. \A b \in D \ {c} : Among(h, b) \in 1 .. n
    BY <1>4, <1>6, <1>10
  <2>2. slot \in 0 .. n
    BY <1>3, <1>7, <2>1
  <2>3. \A b \in D \cup {c} : Number(h, b) \in 1 .. (n + 1)
    BY <1>3, <1>8, <2>1, <2>2
  <2> QED
    BY <1>3, <1>10, <2>3 DEF D, c, r
<1> QED
  BY <1>9, <1>10

(* One hand moves; what it has in mind is within bounds too. *)
LEMMA HandBounds ==
  ASSUME BoardInv, BoardBounds, UNCHANGED board, NEW h \in Hands, NEW j,
         hand' = [hand EXCEPT ![h] = j],
         j # Empty => j.at \in Places,
         j.phase = "ordered" =>
           \A b \in DOMAIN j.order : j.order[b] \in 1 .. Cardinality(DOMAIN j.order)
  PROVE  BoardBounds'
<1>1. /\ hand'[h] = j /\ \A g \in Hands \ {h} : hand'[g] = hand[g]
      /\ place' = place
  BY DEF BoardInv, BoardShape, board
<1>2. \A g \in Hands : RanksCount(g)'
  BY <1>1 DEF RanksCount, BoardBounds
<1> QED
  BY <1>1, <1>2 DEF BoardBounds

LEMMA LookingBounds ==
  ASSUME BoardInv, BoardBounds, NEW h \in Hands,
         \/ \E c \in Cards, s \in Columns : ReadEnd(h, c, s)
         \/ \E c \in Cards, s \in Columns, after \in Cards \cup {Top} :
              Claim(h, c, s, after)
         \/ Look(h) \/ Crowd(h) \/ LockColumn(h) \/ LetGo(h)
  PROVE  BoardBounds'
<1>1. ASSUME NEW c \in Cards, NEW s \in Columns, ReadEnd(h, c, s)
      PROVE  BoardBounds'
  <2> DEFINE j == [phase |-> "create", card |-> c, to |-> s,
                   after |-> Top, at |-> End(s), order |-> <<>>]
  <2>1. /\ hand' = [hand EXCEPT ![h] = j] /\ UNCHANGED board
        /\ j.phase = "create" /\ j.at \in Places
    BY <1>1 DEF ReadEnd
  <2> HIDE DEF j
  <2> QED
    BY <2>1, HandBounds
<1>2. ASSUME NEW c \in Cards, NEW s \in Columns, NEW after \in Cards \cup {Top},
             Claim(h, c, s, after)
      PROVE  BoardBounds'
  <2> DEFINE j == [phase |-> "claimed", card |-> c, to |-> s,
                   after |-> after, at |-> 0, order |-> <<>>]
  <2>1. /\ hand' = [hand EXCEPT ![h] = j] /\ UNCHANGED board
        /\ j.phase = "claimed" /\ j.at \in Places
    BY <1>2, PlacesAre DEF Claim
  <2> HIDE DEF j
  <2> QED
    BY <2>1, HandBounds
<1>3. ASSUME Look(h) PROVE BoardBounds'
  <2> DEFINE j == [hand[h] EXCEPT !.phase = "placed", !.at = Target(h)]
  <2>1. hand[h] \in Drags
    BY <1>3, PhaseIsDrag DEF Look, BoardInv, Empty
  <2>2. /\ hand' = [hand EXCEPT ![h] = j] /\ UNCHANGED board
        /\ j.phase = "placed" /\ j.at \in Places
    BY <1>3, <2>1 DEF Look, Drags
  <2> HIDE DEF j
  <2> QED
    BY <2>2, HandBounds
<1>4. ASSUME LockColumn(h) PROVE BoardBounds'
  <2>1. hand[h] \in Drags /\ hand[h] # Empty
    BY <1>4, PhaseIsDrag DEF LockColumn, BoardInv, Empty
  <2>2. PICK q \in Orderings(InColumn(hand[h].to)) :
          hand' = [hand EXCEPT ![h].phase = "ordered", ![h].order = q]
    BY <1>4 DEF LockColumn
  <2> DEFINE j == [hand[h] EXCEPT !.phase = "ordered", !.order = q]
  <2>3. /\ hand' = [hand EXCEPT ![h] = j] /\ UNCHANGED board
        /\ j.order = q /\ j.at = hand[h].at
    BY <1>4, <2>1, <2>2 DEF LockColumn, Drags
  <2>4. \A b \in DOMAIN q : q[b] \in 1 .. Cardinality(DOMAIN q)
    BY DEF Orderings
  <2>5. j.at \in Places
    BY <2>1, <2>3 DEF BoardBounds
  <2> HIDE DEF j
  <2> QED
    BY <2>3, <2>4, <2>5, HandBounds
<1>5. ASSUME LetGo(h) PROVE BoardBounds'
  BY <1>5, HandBounds DEF LetGo, Empty
<1>6. ASSUME Crowd(h) PROVE BoardBounds'
  <2> DEFINE j == [hand[h] EXCEPT !.phase = "crowded"]
  <2>1. hand[h] \in Drags /\ hand[h] # Empty
    BY <1>6, PhaseIsDrag DEF Crowd, BoardInv, Empty
  <2>2. /\ hand' = [hand EXCEPT ![h] = j] /\ UNCHANGED board
        /\ j.phase = "crowded" /\ j.at = hand[h].at
    BY <1>6, <2>1 DEF Crowd, Drags
  <2>3. j.at \in Places
    BY <2>1, <2>2 DEF BoardBounds
  <2> HIDE DEF j
  <2> QED
    BY <2>2, <2>3, HandBounds
<1> QED
  BY <1>1, <1>2, <1>3, <1>4, <1>5, <1>6

(* A hand that is done writes places within the bounds. *)
LEMMA WritingBounds ==
  ASSUME BoardInv, BoardBounds, NEW h \in Hands, Create(h) \/ Drop(h)
  PROVE  BoardBounds'
<1>1. hand[h] # Empty /\ hand[h].at \in Places
  BY DEF Create, Drop, Empty, BoardBounds
<1>2. place' \in [Cards -> Places]
  <2>1. CASE Create(h)
    BY <1>1, <2>1 DEF Create, BoardBounds
  <2>2. CASE Drop(h)
    <3>1. \A b \in Cards : place'[b] =
            IF b \notin Written(h) \/ card[b] # "live" THEN place[b]
            ELSE IF hand[h].phase = "placed" THEN hand[h].at
            ELSE Spacing * Number(h, b)
      BY <2>2 DEF Drop
    <3>2. /\ DOMAIN place' = Cards /\ place' = [b \in Cards |-> place'[b]]
          /\ hand[h].phase \in {"placed", "ordered"}
      BY <2>2 DEF Drop
    <3>3. ASSUME NEW b \in Written(h), hand[h].phase = "ordered"
          PROVE  Spacing * Number(h, b) \in Places
      <4>1. Number(h, b) \in 1 .. Cardinality(Cards)
        BY <3>3, NumberFits DEF Written, BoardBounds
      <4> QED
        BY <4>1, PlacesAre
    <3>4. \A b \in Cards : place'[b] \in Places
      BY <1>1, <3>1, <3>2, <3>3 DEF BoardBounds
    <3> QED
      BY <3>2, <3>4
  <2> QED
    BY <2>1, <2>2
<1>3. \A g \in Hands : hand'[g] = Empty \/ hand'[g] = hand[g]
  BY DEF Create, Drop, BoardInv, BoardShape
<1>4. \A g \in Hands : RanksCount(g)'
  BY <1>3 DEF RanksCount, BoardBounds, Empty
<1> QED
  BY <1>2, <1>3, <1>4 DEF BoardBounds

LEMMA BoardTypesAlways == BoardSpec => []BoardTypeOK
<1>1. BoardInit => BoardBounds
  BY PlacesAre DEF BoardInit, BoardBounds, RanksCount, Empty
<1>2. BoardInv /\ BoardBounds /\ [BoardNext]_boardVars => BoardBounds'
  <2> SUFFICES ASSUME BoardInv, BoardBounds, [BoardNext]_boardVars
               PROVE  BoardBounds'
    OBVIOUS
  <2>1. CASE place' = place /\ hand' = hand
    BY <2>1 DEF BoardBounds, RanksCount
  <2>2. CASE \E h \in Hands :
               \/ \E c \in Cards, s \in Columns : ReadEnd(h, c, s)
               \/ Create(h) \/ Drag(h)
    BY <2>2, LookingBounds, WritingBounds DEF Drag
  <2> QED
    BY <2>1, <2>2
       DEF BoardNext, UpdateStatus, Delete, Restore, boardVars, board
<1>3. BoardInv /\ BoardBounds => BoardTypeOK
  <2> SUFFICES ASSUME BoardInv, BoardBounds PROVE BoardTypeOK
    OBVIOUS
  <2>1. ASSUME NEW h \in Hands, hand[h] # Empty
        PROVE  /\ hand[h] \in Drags /\ hand[h].at \in Places
               /\ DOMAIN hand[h].order \subseteq Cards
    BY <2>1, PhaseIsDrag DEF BoardInv, BoardBounds, Drags, Ranks
  <2> QED
    BY <2>1 DEF BoardInv, BoardShape, BoardBounds, BoardTypeOK, Drags
<1> QED
  BY <1>1, <1>2, <1>3, BoardStarts, BoardKeeps, PTL DEF BoardSpec

------------------------------------------------------------------------------
(* A drag moves one card *)

LEMMA SettledIsFirm ==
  ASSUME NEW s \in Columns
  PROVE  Settled(s) \subseteq Firm(s) /\ Settled(s) \subseteq Cards
BY DEF Settled, Firm, InColumn

LEMMA DropMovesOne ==
  ASSUME BoardInv, NEW h \in Hands, Drop(h)
  PROVE  OneCardMoves
<1>1. BoardShape /\ hand[h] \in Drags
  BY PhaseIsDrag DEF Drop, BoardInv, Empty
<1>2. PICK j \in Drags : j = hand[h]
  BY <1>1
<1>3. /\ j.to \in Columns /\ j.card \in Cards
      /\ card[j.card] # "live" => place'[j.card] = place[j.card]
      /\ \A s \in Columns \ {j.to} : \A b \in InColumn(s) \ {j.card} :
           place'[b] = place[b]
      /\ \A a, b \in Firm(j.to) \ {j.card} :
           place[a] < place[b] => place'[a] < place'[b]
      /\ card[j.card] = "live" /\ j.after \in Firm(j.to) \ {j.card} =>
             /\ place'[j.after] < place'[j.card]
             /\ \A b \in Firm(j.to) \ {j.card, j.after} :
                  ~(place'[j.after] < place'[b] /\ place'[b] < place'[j.card])
  BY <1>2, DropEffects DEF Drags
<1>4. /\ Ends(h) /\ \A g \in Hands : Ends(g) => g = h
      /\ place \in [Cards -> Int] /\ place' \in [Cards -> Int]
  <2>1. hand' = [hand EXCEPT ![h] = Empty] /\ hand[h] # Empty
    BY DEF Drop, Empty
  <2>2. place' \in [Cards -> Int]
    BY <1>2, DropEffects
  <2> QED
    BY <1>1, <2>1, <2>2 DEF Ends, BoardShape
<1>5. ASSUME NEW s \in Columns, NEW b \in Settled(s), NEW c \in Settled(s),
             place[b] < place[c], place'[b] >= place'[c], j.card \notin {b, c}
      PROVE  FALSE
  <2>1. b \in Firm(s) /\ c \in Firm(s) /\ b \in Cards /\ c \in Cards
    BY <1>5, SettledIsFirm
  <2>2. /\ place[b] \in Int /\ place[c] \in Int
        /\ place'[b] \in Int /\ place'[c] \in Int
    BY <1>4, <2>1
  <2>3. CASE s = j.to
    BY <1>3, <1>5, <2>1, <2>2, <2>3
  <2>4. CASE s # j.to
    <3>1. place'[b] = place[b] /\ place'[c] = place[c]
      BY <1>3, <1>5, <2>1, <2>4 DEF Firm
    <3> QED
      BY <1>5, <2>2, <3>1
  <2> QED
    BY <2>3, <2>4
<1>6. ASSUME place'[j.card] # place[j.card],
             j.after \in Settled(j.to) \ {j.card}
      PROVE  /\ place'[j.after] < place'[j.card]
             /\ \A b \in Settled(j.to) \ {j.after, j.card} :
                  ~(place'[j.after] < place'[b] /\ place'[b] < place'[j.card])
  <2>1. card[j.card] = "live" /\ j.after \in Firm(j.to) \ {j.card}
    BY <1>3, <1>6, SettledIsFirm
  <2>2. \A b \in Settled(j.to) \ {j.after, j.card} :
          b \in Firm(j.to) \ {j.card, j.after}
    BY <1>3, SettledIsFirm
  <2> QED
    BY <1>3, <2>1, <2>2
<1>7. \A s \in Columns : \A b, c \in Settled(s) :
        place[b] < place[c] /\ place'[b] >= place'[c] =>
          \E g \in Hands : Ends(g) /\ hand[g].card \in {b, c}
  BY <1>2, <1>4, <1>5
<1> QED
  BY <1>2, <1>4, <1>6, <1>7 DEF OneCardMoves

LEMMA StillBoard ==
  ASSUME BoardInv, place' = place
  PROVE  OneCardMoves
<1>1. ASSUME NEW s \in Columns, NEW b \in Settled(s), NEW c \in Settled(s)
      PROVE  ~(place[b] < place[c] /\ place'[b] >= place'[c])
  <2>1. place[b] \in Int /\ place[c] \in Int
    BY SettledIsFirm DEF BoardInv, BoardShape
  <2> QED
    BY <2>1
<1> QED
  BY <1>1 DEF OneCardMoves

LEMMA CreateMovesNone ==
  ASSUME BoardInv, NEW h \in Hands, Create(h)
  PROVE  OneCardMoves
<1>1. BoardShape /\ hand[h] \in Drags /\ hand[h] # Empty
  BY PhaseIsDrag DEF Create, BoardInv, Empty
<1>2. PICK j \in Drags : j = hand[h]
  BY <1>1
<1>3. j.phase = "create" /\ card[j.card] = "none"
      /\ place' = [place EXCEPT ![j.card] = j.at]
      /\ hand' = [hand EXCEPT ![h] = Empty]
  BY <1>2 DEF Create, BoardInv, HandHolds, NewHolds
<1>4. \A g \in Hands : Ends(g) => hand[g].phase = "create"
  BY <1>1, <1>2, <1>3 DEF Ends, BoardShape
<1>5. ASSUME NEW s \in Columns, NEW b \in Settled(s), NEW c \in Settled(s)
      PROVE  ~(place[b] < place[c] /\ place'[b] >= place'[c])
  <2>1. b \in Cards /\ c \in Cards /\ b # j.card /\ c # j.card
    BY <1>3 DEF Settled, InColumn
  <2>2. place'[b] = place[b] /\ place'[c] = place[c]
        /\ place[b] \in Int /\ place[c] \in Int
    BY <1>1, <1>3, <2>1 DEF BoardShape
  <2> QED
    BY <2>2
<1> QED
  BY <1>4, <1>5 DEF OneCardMoves

(* Two cards keep their order through everybody's drags and renumbers, and *)
(* a card lands right under the one it was dropped on                      *)
(* (core/src/tasks/service.ts: columnNeighbours, normaliseAndPlace).       *)
THEOREM DragsMoveTheirCard == BoardSpec => DragsMoveOneCard
<1>1. BoardInv /\ [BoardNext]_boardVars => [OneCardMoves]_boardVars
  <2> SUFFICES ASSUME BoardInv, BoardNext PROVE OneCardMoves
    OBVIOUS
  <2>1. ASSUME NEW h \in Hands, Drop(h) PROVE OneCardMoves
    BY <2>1, DropMovesOne
  <2>2. ASSUME NEW h \in Hands, Create(h) PROVE OneCardMoves
    BY <2>2, CreateMovesNone
  <2>3. (\E h \in Hands : Drop(h) \/ Create(h)) \/ place' = place
    BY DEF BoardNext, Drag, ReadEnd, Claim, Look, Crowd, LockColumn, LetGo,
      UpdateStatus, Delete, Restore, board
  <2> QED
    BY <2>1, <2>2, <2>3, StillBoard
<1> QED
  BY BoardStarts, BoardKeeps, <1>1, PTL DEF BoardSpec, DragsMoveOneCard
=============================================================================
