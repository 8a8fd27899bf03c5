------------------------------ MODULE CycleClose ------------------------------
(***************************************************************************)
(* What a cycle leaves to the next one: cycles.close with its archive and  *)
(* feed-forward, the feed a new cycle takes from its closed predecessor    *)
(* (core/src/cycles/archive.ts), and the actions around them --            *)
(* cycles.create and ensureCurrent, snapshot, feedForward, archive         *)
(* (core/src/actions/cycles.ts).                                           *)
(*                                                                         *)
(* A desk is one such transaction, at READ COMMITTED:                      *)
(*   a start    its first reads and, in a close, the lock of the cycle     *)
(*   LookBack   a creation locks and reads the cycle before its own        *)
(*   LookAhead  a close reads the cycle after its own                      *)
(*   Settle     the writes; it waits for rows that others hold             *)
(* Cycles are of one mode, numbered by their first day, one to a period.   *)
(* A key result's score, its copies in the next cycle's list and the       *)
(* recorded result stand for everything that is fed and recorded.          *)
(***************************************************************************)
EXTENDS Integers, FiniteSets

CONSTANTS
  Cycles,     \* numbers of the periods
  Grades,     \* what a review may grade a cycle
  Desks,
  Keeping,    \* cycles whose review keeps an objective for the next one
  MaxReruns   \* bound on cycles.feedForward

ASSUME CycleConstants ==
  /\ Cycles \subseteq Nat \ {0} /\ IsFiniteSet(Cycles) /\ IsFiniteSet(Desks)
  /\ Grades \subseteq Nat \ {0} /\ Keeping \subseteq Cycles
  /\ MaxReruns \in Nat

NoCycle == 0
AtRest  == [op |-> "none"]

VARIABLES
  cycle,    \* "absent", "open", "closed" or "archived"
  score,    \* key_results.score, 0 before a review
  result,   \* performance_snapshots, 0 before there is one
  copies,   \* cycle_prior_scores: per target and source, rows written
  fedBy,    \* cycles.previous_cycle_id
  desk,     \* per desk: what it does and what it has read
  reruns,
  sealed,   \* history: the result its close recorded
  given,    \* history: per cycle, the sources a close or a creation fed it
  unnamed,  \* history: sources some target of theirs did not come to name
  slipped,  \* history: cycles closed while a snapshot of them was under way
  twice     \* history: pairs a rerun was feeding while another feed was

registry  == <<cycle, score, result, copies, fedBy, reruns>>
memory    == <<sealed, given, unnamed, slipped, twice>>
cycleVars == <<registry, desk, memory>>

Live  == {c \in Cycles : cycle[c] \in {"open", "closed"}}
NoFeed == [from |-> NoCycle, to |-> NoCycle, seen |-> FALSE, link |-> FALSE]

CycleTypeOK ==
  /\ cycle \in [Cycles -> {"absent", "open", "closed", "archived"}]
  /\ score \in [Cycles -> Grades \cup {0}]
  /\ result \in [Cycles -> Grades \cup {0}]
  /\ copies \in [Cycles \X Cycles -> 0 .. Cardinality(Desks)]
  /\ fedBy \in [Cycles -> Cycles \cup {NoCycle}]
  /\ \A d \in Desks : desk[d] # AtRest =>
       /\ desk[d].op \in {"create", "close", "snapshot", "rerun"}
       /\ desk[d].stage \in {"begun", "ready"}
       /\ desk[d].rows \subseteq Cycles
  /\ reruns \in 0 .. MaxReruns

(* Cycles in the states st with the scores sc, and nothing fed so far. *)
CyclesAre(st, sc) ==
  /\ cycle = st /\ score = sc
  /\ result = [c \in Cycles |-> 0]
  /\ copies = [x \in Cycles \X Cycles |-> 0]
  /\ fedBy = [c \in Cycles |-> NoCycle]
  /\ desk = [d \in Desks |-> AtRest]
  /\ reruns = 0
  /\ sealed = [c \in Cycles |-> 0] /\ given = [c \in Cycles |-> {}]
  /\ unnamed = {} /\ slipped = {} /\ twice = {}

(* No cycle yet. *)
CycleInit ==
  CyclesAre([c \in Cycles |-> "absent"], [c \in Cycles |-> 0])

(* The live cycles just before and just after c, if there are any. *)
Before(c) == {b \in Live : b < c /\ \A x \in Live : x < c => x <= b}
After(c)  == {a \in Live : a > c /\ \A x \in Live : x > c => x >= a}

Busy(d) == desk[d] # AtRest

(* Mutant: nobody waits for a cycle another transaction has locked. *)
MutRowUnlocked(d, c) == TRUE

RowUnlocked(d, c) == \A e \in Desks \ {d} : Busy(e) => c \notin desk[e].rows

Take(d, job) == desk' = [desk EXCEPT ![d] = job]

Job(op, c, stage, rows) ==
  [op |-> op, cycle |-> c, stage |-> stage, rows |-> rows,
   grade |-> score[c], fresh |-> result[c] = 0, feed |-> NoFeed]

------------------------------------------------------------------------------
(* A new cycle's row, not seen by others yet; the unique index on the      *)
(* period makes a second creation wait, and refuses it.                    *)
CreateCycle(d, c) ==
  /\ ~Busy(d) /\ cycle[c] = "absent"
  /\ \A e \in Desks : Busy(e) => ~(desk[e].op = "create" /\ desk[e].cycle = c)
  /\ Take(d, Job("create", c, "begun", {}))
  /\ UNCHANGED <<registry, memory>>

(* feedFromClosedPredecessorInTx: the cycle just before is locked, and fed *)
(* from when it is closed and has no successor yet.                        *)
LookBack(d) ==
  /\ Busy(d) /\ desk[d].op = "create" /\ desk[d].stage = "begun"
  /\ LET c == desk[d].cycle
         due == {b \in Before(c) :
                   cycle[b] = "closed" /\ \A a \in Live : fedBy[a] # b}
         feeds == {[from |-> b, to |-> c, seen |-> FALSE, link |-> TRUE] :
                     b \in due}
     IN  /\ \A b \in Before(c) : RowUnlocked(d, b)
         /\ \E f \in IF due = {} THEN {NoFeed} ELSE feeds :
              Take(d, [desk[d] EXCEPT !.stage = "ready", !.rows = Before(c),
                                      !.feed = f])
  /\ UNCHANGED <<registry, memory>>

(* A creation that looked back before this cycle was there. *)
Overlooked(c) ==
  \E e \in Desks : /\ Busy(e) /\ desk[e].op = "create"
                   /\ desk[e].stage = "ready"
                   /\ c < desk[e].cycle /\ \A b \in desk[e].rows : b < c

(* closeCycleInTx as far as the archive.  The cycle is locked and then     *)
(* read; phase 7 asks for a score.  No cycle is taken to be created,       *)
(* reviewed and closed while one creation runs.                            *)
CloseCycle(d, c) ==
  /\ ~Busy(d) /\ cycle[c] = "open" /\ score[c] # 0
  /\ RowUnlocked(d, c) /\ ~Overlooked(c)
  /\ Take(d, Job("close", c, "begun", {c}))
  /\ UNCHANGED <<registry, memory>>

(* What feedForwardInTx reads of its target. *)
Feed(from, to) ==
  [from |-> from, to |-> to, seen |-> copies[to, from] > 0,
   link |-> fedBy[to] = NoCycle]

(* The next cycle, if there is one and it is not closed itself. *)
LookAhead(d) ==
  /\ Busy(d) /\ desk[d].op = "close" /\ desk[d].stage = "begun"
  /\ LET c == desk[d].cycle
         next == {a \in After(c) : cycle[a] # "closed"}
         feeds == {Feed(c, a) : a \in next}
     IN  \E f \in IF next = {} THEN {NoFeed} ELSE feeds :
           Take(d, [desk[d] EXCEPT !.stage = "ready", !.feed = f])
  /\ UNCHANGED <<registry, memory>>

(* archiveCycleInTx by hand: refused once the cycle reads closed. *)
SnapshotCycle(d, c) ==
  /\ ~Busy(d) /\ cycle[c] = "open"
  /\ Take(d, Job("snapshot", c, "ready", {}))
  /\ UNCHANGED <<registry, memory>>

FeedForward(d, from, to) ==
  /\ ~Busy(d) /\ from \in Live /\ cycle[to] = "open" /\ from # to
  /\ reruns < MaxReruns /\ reruns' = reruns + 1
  /\ Take(d, [Job("rerun", to, "ready", {}) EXCEPT !.feed = Feed(from, to)])
  /\ UNCHANGED <<cycle, score, result, copies, fedBy, memory>>

(* A review closes and writes its grades. *)
Grade(c, v) ==
  /\ c \in Live /\ score[c] # v
  /\ score' = [score EXCEPT ![c] = v]
  /\ UNCHANGED <<cycle, result, copies, fedBy, reruns, desk, memory>>

(* cycles.archive: an open cycle that holds goals is refused, and one that *)
(* was never graded stands for one without any.                            *)
ArchiveCycle(c) ==
  /\ cycle[c] = "closed" \/ (cycle[c] = "open" /\ score[c] = 0)
  /\ \A d \in Desks : Busy(d) => c \notin desk[d].rows
  /\ cycle' = [cycle EXCEPT ![c] = "archived"]
  /\ UNCHANGED <<score, result, copies, fedBy, reruns, desk, memory>>

(* What others feed at the same time, one of the two by hand. *)
Overlapping(d, f) ==
  \E e \in Desks \ {d} :
    /\ Busy(e) /\ desk[e].feed.from = f.from /\ desk[e].feed.to = f.to
    /\ "rerun" \in {desk[d].op, desk[e].op}

(* The unique indexes speak at the writes: a first snapshot of a cycle,    *)
(* and one copy of a kept objective per cycle.                             *)
Settle(d) ==
  LET j == desk[d]  f == j.feed  x == <<f.to, f.from>>
      named == f.link /\ (f.to \in Live \/ j.op = "create")
  IN
  /\ Busy(d) /\ j.stage = "ready"
  /\ j.op \in {"close", "snapshot"} => j.fresh = (result[j.cycle] = 0)
  /\ f # NoFeed =>
       /\ ~f.seen /\ f.from \in Keeping => copies[x] = 0
       /\ f.link => RowUnlocked(d, f.to)
  /\ cycle' = CASE j.op = "create" -> [cycle EXCEPT ![j.cycle] = "open"]
                [] j.op = "close"  -> [cycle EXCEPT ![j.cycle] = "closed"]
                [] OTHER -> cycle
  /\ result' = IF j.op \in {"close", "snapshot"}
                 THEN [result EXCEPT ![j.cycle] = j.grade] ELSE result
  /\ IF f = NoFeed THEN UNCHANGED <<copies, fedBy>>
     ELSE /\ copies' = IF f.seen THEN copies
                       ELSE [copies EXCEPT ![x] = @ + 1]
          /\ fedBy' = IF named THEN [fedBy EXCEPT ![f.to] = f.from]
                      ELSE fedBy
  /\ desk' = [desk EXCEPT ![d] = AtRest]
  /\ sealed' = IF j.op = "close" THEN [sealed EXCEPT ![j.cycle] = j.grade]
               ELSE sealed
  /\ given' = IF f # NoFeed /\ j.op # "rerun"
                THEN [given EXCEPT ![f.to] = @ \cup {f.from}] ELSE given
  /\ unnamed' = IF f = NoFeed THEN unnamed
                ELSE unnamed
                  \cup (IF named THEN {fedBy[f.to]} \ {NoCycle, f.from} ELSE {})
                  \cup (IF ~named /\ j.op # "rerun" THEN {f.from} ELSE {})
  /\ slipped' = IF j.op = "close"
                     /\ \E e \in Desks : /\ Busy(e) /\ desk[e].op = "snapshot"
                                         /\ desk[e].cycle = j.cycle
                  THEN slipped \cup {j.cycle} ELSE slipped
  /\ twice' = IF f # NoFeed /\ Overlapping(d, f)
                THEN twice \cup {x} ELSE twice
  /\ UNCHANGED <<score, reruns>>

(* Refused, or the connection is lost. *)
Withdraw(d) ==
  /\ Busy(d)
  /\ Take(d, AtRest)
  /\ UNCHANGED <<registry, memory>>

CycleNext ==
  \/ \E d \in Desks :
       \/ LookBack(d) \/ LookAhead(d) \/ Settle(d) \/ Withdraw(d)
       \/ \E c \in Cycles :
            \/ CreateCycle(d, c) \/ CloseCycle(d, c) \/ SnapshotCycle(d, c)
            \/ \E to \in Cycles : FeedForward(d, c, to)
  \/ \E c \in Cycles : ArchiveCycle(c) \/ \E v \in Grades : Grade(c, v)

CycleSpec == CycleInit /\ [][CycleNext]_cycleVars

------------------------------------------------------------------------------
(* A close and the next cycle's creation never miss each other: once both  *)
(* are there, what the closed cycle leaves has been fed to some cycle.  A  *)
(* cycle archived between the two puts one next to the other that neither  *)
(* the close nor the creation met.                                         *)
InheritanceLands ==
  \A c \in Live :
    /\ cycle[c] = "closed"
    /\ \E a \in After(c) : /\ cycle[a] = "open"
                           /\ \A x \in Cycles : c < x /\ x < a =>
                                cycle[x] # "archived"
    => \E a \in Cycles : copies[a, c] > 0

(* It is written once, unless a feed-forward by hand ran beside another    *)
(* feed of the two, and no close feeds two cycles by itself as long as     *)
(* every cycle it fed came to name it as the one before, which is all a    *)
(* creation looks at.                                                      *)
GivenOnce ==
  /\ \A x \in Cycles \X Cycles : copies[x] <= 1 \/ x \in twice
  /\ \A c \in Cycles \ unnamed : Cardinality({a \in Live : c \in given[a]}) <= 1

(* The comment of feedFromClosedPredecessorInTx, without that condition:   *)
(* a closed cycle that already fed a successor has given its inheritance   *)
(* away, so a cycle created out of order is not fed from it again.         *)
FedFromOneClose ==
  \A c \in Cycles : Cardinality({a \in Live : c \in given[a]}) <= 1

(* A closed cycle shows the result its close recorded; a snapshot that had *)
(* read it as open may still overwrite that.                               *)
ResultStands ==
  \A c \in Cycles :
    cycle[c] = "closed" => result[c] = sealed[c] \/ c \in slipped

(* What a close promises, in the three parts above: its inheritance lands, *)
(* lands once, and its result stands (closeCycleInTx).                     *)
CloseKept == InheritanceLands /\ GivenOnce /\ ResultStands
=============================================================================
