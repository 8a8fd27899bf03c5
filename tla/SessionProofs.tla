----------------------------- MODULE SessionProofs -----------------------------
(* Proofs about WeeklySession, for any number of sessions, key results,    *)
(* requests and weeks, and about SessionVotes, for any number of rounds,   *)
(* members and casts.                                                      *)
EXTENDS WeeklySession, SessionVotes, FiniteSetTheorems, TLAPS

------------------------------------------------------------------------------
(* The stages and the weeks *)

Operations == {"open", "advance", "skip", "close"}
StreakRow  == [current : Nat, last : Nat]
ReadBy     == [op : Operations, on : Meetings, saw : States, stage : Stages,
               row : StreakRow, week : Nat, asked : SUBSET Krs,
               low : Bounds \cup {0}, at : {"read", "asked", "ready"}]

(* The type invariant without the bounds, which only the runs need. *)
Shape ==
  /\ state \in [Meetings -> States]
  /\ stage \in [Meetings -> Stages]
  /\ announced \in [Meetings -> SUBSET Stages]
  /\ confirmed \in [Meetings \X Krs -> Bands \cup {"none"}]
  /\ commitments \in [Meetings -> Nat]
  /\ digests \in [Meetings -> Nat]
  /\ streak \in StreakRow
  /\ week \in Nat
  /\ held \subseteq 1 .. week
  /\ present \subseteq Krs /\ low \in Bounds
  /\ joined \subseteq Meetings \X Krs
  /\ promised \in [Meetings -> Bounds \cup {0}]
  /\ clerk \in [Clerks -> ReadBy \cup {Idle}]

(* The weeks up to w in which a session was closed. *)
HeldBy(w) == {v \in held : v <= w}

(* What GatesHeld says of a session beyond the one stage and the other. *)
AllConfirmed(s) ==
  \A k \in present : confirmed[<<s, k>>] # "none" \/ <<s, k>> \in joined
Committed(s) == commitments[s] >= promised[s]

(* A stage's key is taken exactly when the session has come to it. *)
KeysTaken == \A s \in Meetings : announced[s] = 1 .. stage[s]

BegunBefore ==
  \A s \in Meetings : state[s] \in {"running", "closed"} => stage[s] > 0

Gates ==
  \A s \in Meetings : /\ stage[s] > Confidence => AllConfirmed(s)
                      /\ stage[s] > Commitments => Committed(s)

(* A session promises nothing before its commitments are through. *)
NothingYet == \A s \in Meetings : stage[s] <= Commitments => promised[s] = 0

StreakCounted == streak.current <= Cardinality(HeldBy(streak.last))

(* What a request asked for when it went through a gate. *)
Answered(q) ==
  /\ q.stage = Confidence => \A k \in q.asked : confirmed[<<q.on, k>>] # "none"
  /\ q.stage = Commitments /\ q.asked # {} => commitments[q.on] >= q.low

(* What is still true of what a request has read. *)
Knows(q) ==
  /\ q.stage <= stage[q.on] /\ q.week <= week /\ q.week > 0
  /\ q.row.current <= Cardinality(HeldBy(q.row.last))
  /\ q.op \in {"open", "skip"} => q.saw = "scheduled"
  /\ q.op \in {"advance", "close"} => q.saw = "running" /\ stage[q.on] > 0
  /\ q.op = "advance" => q.stage # Digest
  /\ q.op = "advance" /\ q.at = "ready" => Answered(q)

ClerksKnow == \A c \in Clerks : clerk[c] # Idle => Knows(clerk[c])

WeekInv ==
  /\ Shape /\ KeysTaken /\ BegunBefore /\ Gates /\ NothingYet
  /\ StreakCounted /\ ClerksKnow /\ week > 0

LEMMA Numbers ==
  /\ Bounds \subseteq Nat /\ MaxCommitments \in Nat
  /\ Confidence = 1 /\ Diagnose = 2 /\ Commitments = 3 /\ Digest = 4
  /\ Stages = 0 .. 4
BY WeeklyConstants DEF Confidence, Diagnose, Commitments, Digest, Stages

LEMMA BoundsAreNumbers == \A n \in Bounds \cup {0} : n \in Nat
<1>1. Bounds \subseteq Nat
  BY WeeklyConstants
<1>2. QED
  BY <1>1

LEMMA WeeksCounted ==
  ASSUME NEW n \in Nat, NEW H \in SUBSET (1 .. n), NEW G \in SUBSET H
  PROVE  /\ IsFiniteSet(G) /\ Cardinality(G) \in Nat
         /\ Cardinality(H) \in Nat /\ Cardinality(G) <= Cardinality(H)
<1>1. IsFiniteSet(1 .. n)
  BY FS_Interval
<1>2. IsFiniteSet(H)
  BY <1>1, FS_Subset
<1>3. QED
  BY <1>2, FS_Subset, FS_CardinalityType

LEMMA HeldFinite ==
  ASSUME Shape, NEW w
  PROVE  /\ Cardinality(held) \in Nat /\ Cardinality(HeldBy(w)) \in Nat
         /\ Cardinality(HeldBy(w)) <= Cardinality(held)
<1>1. week \in Nat /\ held \in SUBSET (1 .. week)
  BY DEF Shape
<1>2. HeldBy(w) \in SUBSET held
  BY DEF HeldBy
<1>3. QED
  BY <1>1, <1>2, WeeksCounted

(* Who is busy has read something. *)
LEMMA BusyType ==
  ASSUME Shape, NEW c \in Clerks, clerk[c] # Idle
  PROVE  clerk[c] \in ReadBy
BY DEF Shape

LEMMA OpNotIdle ==
  ASSUME Shape, NEW c \in Clerks, clerk[c].op \in Operations
  PROVE  clerk[c] # Idle /\ clerk[c] \in ReadBy
BY DEF Shape, Idle, Operations

LEMMA WeekInitInv == WeekInit => WeekInv
<1> SUFFICES ASSUME WeekInit PROVE WeekInv
  OBVIOUS
<1> USE DEF WeekInit
<1>1. Shape
  BY DEF Shape, States, Stages, Digest, StreakRow, NoStreak
<1>2. KeysTaken /\ BegunBefore /\ Gates /\ NothingYet
  BY Numbers DEF KeysTaken, BegunBefore, Gates, NothingYet
<1>3. StreakCounted
  BY <1>1, HeldFinite DEF StreakCounted, NoStreak
<1>4. ClerksKnow /\ week > 0
  BY DEF ClerksKnow
<1>5. QED
  BY <1>1, <1>2, <1>3, <1>4 DEF WeekInv

------------------------------------------------------------------------------
(* Nothing recorded of a session is taken back. *)
Keeps(s) ==
  /\ \A k \in Krs : confirmed[<<s, k>>] # "none" => confirmed'[<<s, k>>] # "none"
  /\ commitments[s] <= commitments'[s]

(* What a request has read stays good for it while the rest only grows. *)
LEMMA KnowsStill ==
  ASSUME WeekInv, Shape', NEW q \in ReadBy, Knows(q),
         stage[q.on] <= stage'[q.on], week <= week', held \subseteq held',
         Keeps(q.on)
  PROVE  Knows(q)'
<1>1. /\ Cardinality(HeldBy(q.row.last)) <= Cardinality(HeldBy(q.row.last)')
      /\ Cardinality(HeldBy(q.row.last)) \in Nat
      /\ Cardinality(HeldBy(q.row.last)') \in Nat
  <2>1. week' \in Nat /\ HeldBy(q.row.last)' \in SUBSET (1 .. week')
    BY DEF HeldBy, Shape
  <2>2. HeldBy(q.row.last) \in SUBSET (HeldBy(q.row.last)')
    BY DEF HeldBy
  <2>3. QED
    BY <2>1, <2>2, WeeksCounted
<1>2. /\ q.on \in Meetings /\ q.stage \in Int /\ q.week \in Int
      /\ q.row.current \in Int
      /\ stage[q.on] \in Int /\ stage'[q.on] \in Int
      /\ week \in Int /\ week' \in Int
  BY Numbers DEF ReadBy, StreakRow, Shape, WeekInv
<1>3. q.stage <= stage'[q.on] /\ q.week <= week'
  BY <1>2 DEF Knows
<1>4. q.row.current <= Cardinality(HeldBy(q.row.last)')
  BY <1>1, <1>2 DEF Knows
<1>5. stage[q.on] > 0 => stage'[q.on] > 0
  BY <1>2
<1>6. Answered(q) => Answered(q)'
  <2> SUFFICES ASSUME Answered(q) PROVE Answered(q)'
    OBVIOUS
  <2>0. q.asked \subseteq Krs /\ q.low \in Bounds \cup {0}
    BY DEF ReadBy
  <2>1. q.asked \subseteq Krs /\ q.low \in Nat
    BY <2>0, BoundsAreNumbers
  <2>2. commitments[q.on] \in Int /\ commitments'[q.on] \in Int
    BY <1>2 DEF WeekInv, Shape
  <2>3. ASSUME q.stage = Confidence, NEW k \in q.asked
        PROVE  confirmed'[<<q.on, k>>] # "none"
    BY <2>1, <2>3 DEF Answered, Keeps
  <2>4. ASSUME q.stage = Commitments, q.asked # {}
        PROVE  commitments'[q.on] >= q.low
    BY <2>1, <2>2, <2>4 DEF Answered, Keeps
  <2> QED
    BY <2>3, <2>4 DEF Answered
<1>7. QED
  BY <1>3, <1>4, <1>5, <1>6 DEF Knows

(* A step that takes nothing back and in which every request either ends   *)
(* or stays as it was.                                                     *)
Onward ==
  /\ \A m \in Meetings : stage[m] <= stage'[m] /\ Keeps(m)
  /\ week <= week' /\ held \subseteq held'

LEMMA ClerksStill ==
  ASSUME WeekInv, Shape', Onward,
         \A d \in Clerks : clerk'[d] = Idle \/ clerk'[d] = clerk[d]
  PROVE  ClerksKnow'
<1> SUFFICES ASSUME NEW d \in Clerks, clerk'[d] # Idle PROVE Knows(clerk[d])'
  BY DEF ClerksKnow
<1>1. clerk'[d] = clerk[d]
  OBVIOUS
<1>2. clerk[d] \in ReadBy /\ Knows(clerk[d])
  BY <1>1, BusyType DEF ClerksKnow, WeekInv
<1>3. PICK q \in ReadBy : q = clerk[d]
  BY <1>2
<1>4. q.on \in Meetings
  BY DEF ReadBy
<1>5. Knows(q)'
  BY <1>2, <1>3, <1>4, KnowsStill DEF Onward
<1>6. QED
  BY <1>1, <1>3, <1>5

LEMMA StageNumbers ==
  ASSUME Shape
  PROVE  /\ \A m \in Meetings : /\ stage[m] \in 0 .. 4 /\ stage[m] <= stage[m]
                                /\ commitments[m] <= commitments[m]
         /\ week <= week
BY Numbers DEF Shape

(* What the team records touches neither the lifecycle nor the requests.   *)
LEMMA RecordInv ==
  ASSUME WeekInv, UNCHANGED <<session, week, clerk>>,
         confirmed' \in [Meetings \X Krs -> Bands \cup {"none"}],
         commitments' \in [Meetings -> Nat],
         \A m \in Meetings : Keeps(m)
  PROVE  WeekInv'
<1> USE DEF WeekInv
<1>0. /\ state' = state /\ stage' = stage /\ announced' = announced
      /\ digests' = digests /\ streak' = streak /\ held' = held
      /\ present' = present /\ low' = low /\ joined' = joined
      /\ promised' = promised /\ week' = week /\ clerk' = clerk
  BY DEF session, around
<1>1. Shape'
  BY <1>0 DEF Shape
<1>2. KeysTaken' /\ BegunBefore' /\ NothingYet' /\ StreakCounted' /\ week' > 0
  BY <1>0 DEF KeysTaken, BegunBefore, NothingYet, StreakCounted, HeldBy
<1>3. Gates'
  <2> SUFFICES ASSUME NEW m \in Meetings
               PROVE  /\ stage[m] > Confidence => AllConfirmed(m)'
                      /\ stage[m] > Commitments => Committed(m)'
    BY <1>0 DEF Gates
  <2>1. Keeps(m) /\ present \subseteq Krs
    BY DEF Shape
  <2>2. /\ commitments[m] \in Int /\ commitments'[m] \in Int
        /\ promised[m] \in Int
    <3>1. promised[m] \in Bounds \cup {0} /\ commitments[m] \in Nat
      BY DEF Shape
    <3>2. promised[m] \in Nat
      BY <3>1, BoundsAreNumbers
    <3>3. QED
      BY <3>1, <3>2
  <2>3. AllConfirmed(m) => AllConfirmed(m)'
    BY <1>0, <2>1 DEF AllConfirmed, Keeps
  <2>4. Committed(m) => Committed(m)'
    BY <1>0, <2>1, <2>2 DEF Committed, Keeps
  <2>5. QED
    BY <2>3, <2>4 DEF Gates
<1>4. Onward
  BY <1>0, StageNumbers DEF Onward
<1>5. ClerksKnow'
  BY <1>0, <1>1, <1>4, ClerksStill
<1>6. QED
  BY <1>1, <1>2, <1>3, <1>5

LEMMA RecordingInv ==
  ASSUME WeekInv, Recording
  PROVE  WeekInv'
<1>1. ASSUME NEW s \in Meetings, NEW k \in Krs, NEW band \in Bands,
             Confirm(s, k, band)
      PROVE  WeekInv'
  <2>1. /\ confirmed' = [confirmed EXCEPT ![<<s, k>>] = band]
        /\ UNCHANGED <<session, answered, blockers, commitments, week, clerk>>
    BY <1>1 DEF Confirm
  <2>2. \A m \in Meetings, j \in Krs :
          confirmed[<<m, j>>] # "none" => confirmed'[<<m, j>>] # "none"
    BY <2>1 DEF WeekInv, Shape, Bands
  <2>3. \A m \in Meetings : Keeps(m)
    BY <2>1, <2>2, StageNumbers DEF Keeps, WeekInv
  <2>4. /\ confirmed' \in [Meetings \X Krs -> Bands \cup {"none"}]
        /\ commitments' \in [Meetings -> Nat]
    BY <2>1 DEF WeekInv, Shape
  <2>5. QED
    BY <2>1, <2>3, <2>4, RecordInv
<1>2. ASSUME NEW s \in Meetings, AddCommitment(s)
      PROVE  WeekInv'
  <2>1. /\ commitments[s] < MaxCommitments
        /\ commitments' = [commitments EXCEPT ![s] = @ + 1]
        /\ UNCHANGED <<session, confirmed, answered, blockers, week, clerk>>
    BY <1>2 DEF AddCommitment
  <2>2. \A m \in Meetings : commitments[m] <= commitments'[m]
    BY <2>1, Numbers DEF WeekInv, Shape
  <2>3. \A m \in Meetings : Keeps(m)
    BY <2>1, <2>2 DEF Keeps
  <2>4. /\ confirmed' \in [Meetings \X Krs -> Bands \cup {"none"}]
        /\ commitments' \in [Meetings -> Nat]
    BY <2>1 DEF WeekInv, Shape
  <2>5. QED
    BY <2>1, <2>3, <2>4, RecordInv
<1>3. ASSUME UNCHANGED <<session, confirmed, commitments, week, clerk>>
      PROVE  WeekInv'
  <2>1. \A m \in Meetings : Keeps(m)
    BY <1>3, StageNumbers DEF Keeps, WeekInv
  <2>2. /\ confirmed' \in [Meetings \X Krs -> Bands \cup {"none"}]
        /\ commitments' \in [Meetings -> Nat]
    BY <1>3 DEF WeekInv, Shape
  <2>3. QED
    BY <1>3, <2>1, <2>2, RecordInv
<1>4. QED
  BY <1>1, <1>2, <1>3
     DEF Recording, SetNextAction, CreateBlocker, ResolveBlocker

LEMMA NewWeekInv ==
  ASSUME WeekInv, NewWeek
  PROVE  WeekInv'
<1> USE DEF WeekInv
<1>0. /\ week' = week + 1 /\ week \in Nat
      /\ state' = state /\ stage' = stage /\ announced' = announced
      /\ digests' = digests /\ streak' = streak /\ held' = held
      /\ present' = present /\ low' = low /\ joined' = joined
      /\ promised' = promised
      /\ confirmed' = confirmed /\ commitments' = commitments /\ clerk' = clerk
  BY DEF NewWeek, session, around, record, Shape
<1>1. Shape'
  <2>1. held' \subseteq 1 .. week'
    BY <1>0 DEF Shape
  <2>2. QED
    BY <1>0, <2>1 DEF Shape
<1>2. /\ KeysTaken' /\ BegunBefore' /\ Gates' /\ NothingYet'
      /\ StreakCounted' /\ week' > 0
  BY <1>0 DEF KeysTaken, BegunBefore, Gates, NothingYet, StreakCounted, HeldBy,
              AllConfirmed, Committed
<1>3. Onward
  BY <1>0, StageNumbers DEF Onward, Keeps
<1>4. ClerksKnow'
  BY <1>0, <1>1, <1>3, ClerksStill
<1>5. QED
  BY <1>1, <1>2, <1>4

(* The cycle changes around the sessions: who comes late counts as such.   *)
LEMMA AroundInv ==
  ASSUME WeekInv,
         UNCHANGED <<state, stage, announced, digests, streak, held, promised,
                     record, week, clerk>>,
         present' \subseteq Krs, low' \in Bounds,
         joined' \subseteq Meetings \X Krs,
         \A s \in Meetings : stage[s] > Confidence /\ AllConfirmed(s)
                               => AllConfirmed(s)'
  PROVE  WeekInv'
<1> USE DEF WeekInv
<1>0. /\ state' = state /\ stage' = stage /\ announced' = announced
      /\ digests' = digests /\ streak' = streak /\ held' = held
      /\ promised' = promised /\ week' = week /\ clerk' = clerk
      /\ confirmed' = confirmed /\ commitments' = commitments
  BY DEF record
<1>1. Shape'
  BY <1>0 DEF Shape
<1>2. KeysTaken' /\ BegunBefore' /\ NothingYet' /\ StreakCounted' /\ week' > 0
  BY <1>0 DEF KeysTaken, BegunBefore, NothingYet, StreakCounted, HeldBy
<1>3. Gates'
  <2> SUFFICES ASSUME NEW m \in Meetings
               PROVE  /\ stage[m] > Confidence => AllConfirmed(m)'
                      /\ stage[m] > Commitments => Committed(m)'
    BY <1>0 DEF Gates
  <2>1. Committed(m) => Committed(m)'
    BY <1>0 DEF Committed
  <2>2. QED
    BY <2>1 DEF Gates
<1>4. Onward
  BY <1>0, StageNumbers DEF Onward, Keeps
<1>5. ClerksKnow'
  BY <1>0, <1>1, <1>4, ClerksStill
<1>6. QED
  BY <1>1, <1>2, <1>3, <1>5

LEMMA MeanwhileInv ==
  ASSUME WeekInv, Meanwhile
  PROVE  WeekInv'
<1>0. /\ present \subseteq Krs /\ low \in Bounds
      /\ joined \subseteq Meetings \X Krs
  BY DEF WeekInv, Shape
<1>1. ASSUME NEW k \in Krs, Join(k) PROVE WeekInv'
  <2>1. /\ present' = present \cup {k} /\ low' = low
        /\ joined' = joined \cup {x \in Meetings \X {k} : stage[x[1]] > Confidence}
        /\ confirmed' = confirmed
    BY <1>1 DEF Join, record
  <2>2. \A s \in Meetings : stage[s] > Confidence => <<s, k>> \in joined'
    BY <2>1
  <2>3. \A s \in Meetings : stage[s] > Confidence /\ AllConfirmed(s)
                              => AllConfirmed(s)'
    BY <2>1, <2>2 DEF AllConfirmed
  <2>4. joined' \subseteq Meetings \X Krs
    BY <1>0, <2>1
  <2>5. QED
    BY <1>0, <1>1, <2>1, <2>3, <2>4, AroundInv DEF Join
<1>2. ASSUME NEW k \in Krs, Part(k) PROVE WeekInv'
  <2>1. /\ present' = present \ {k} /\ low' = low
        /\ joined' = joined \ (Meetings \X {k})
        /\ confirmed' = confirmed
    BY <1>2 DEF Part, record
  <2>2. \A s \in Meetings, j \in present' :
          <<s, j>> \in joined => <<s, j>> \in joined'
    BY <2>1
  <2>3. \A s \in Meetings : AllConfirmed(s) => AllConfirmed(s)'
    BY <2>1, <2>2 DEF AllConfirmed
  <2>4. QED
    BY <1>0, <1>2, <2>1, <2>3, AroundInv DEF Part
<1>3. ASSUME NEW n \in Bounds, SetBound(n) PROVE WeekInv'
  <2>1. low' = n /\ present' = present /\ joined' = joined /\ confirmed' = confirmed
    BY <1>3 DEF SetBound, record
  <2>2. \A s \in Meetings : AllConfirmed(s) => AllConfirmed(s)'
    BY <2>1 DEF AllConfirmed
  <2>3. QED
    BY <1>0, <1>3, <2>1, <2>2, AroundInv DEF SetBound
<1>4. QED
  BY <1>1, <1>2, <1>3, NewWeekInv DEF Meanwhile

------------------------------------------------------------------------------
(* A step that only writes what a request has in mind. *)
LEMMA ClerkInv ==
  ASSUME WeekInv, UNCHANGED <<session, record, week>>, NEW c \in Clerks,
         NEW q \in ReadBy \cup {Idle}, q # Idle => Knows(q),
         clerk' = [clerk EXCEPT ![c] = q]
  PROVE  WeekInv'
<1> USE DEF WeekInv
<1>0. /\ state' = state /\ stage' = stage /\ announced' = announced
      /\ digests' = digests /\ streak' = streak /\ held' = held
      /\ present' = present /\ low' = low /\ joined' = joined
      /\ promised' = promised
      /\ confirmed' = confirmed /\ commitments' = commitments /\ week' = week
  BY DEF session, around, record
<1>1. Shape'
  BY <1>0 DEF Shape
<1>2. /\ KeysTaken' /\ BegunBefore' /\ Gates' /\ NothingYet'
      /\ StreakCounted' /\ week' > 0
  BY <1>0 DEF KeysTaken, BegunBefore, Gates, NothingYet, StreakCounted, HeldBy,
              AllConfirmed, Committed
<1>3. ASSUME NEW d \in Clerks, clerk'[d] # Idle
      PROVE  Knows(clerk[d])'
  <2>1. Knows(clerk'[d])
    BY <1>3 DEF ClerksKnow, Shape
  <2>2. QED
    BY <1>0, <2>1 DEF Knows, HeldBy, Answered
<1>4. QED
  BY <1>1, <1>2, <1>3 DEF ClerksKnow

LEMMA ReadSessionInv ==
  ASSUME WeekInv, NEW c \in Clerks, NEW op \in Operations, NEW s \in Meetings,
         ReadSession(c, op, s)
  PROVE  WeekInv'
<1> DEFINE q == [op |-> op, on |-> s, saw |-> state[s], stage |-> stage[s],
                 row |-> NoStreak, week |-> week, asked |-> {}, low |-> 0,
                 at |-> IF op \in {"open", "skip"} THEN "ready" ELSE "read"]
<1>1. /\ state[s] = Needs(op)
      /\ op = "advance" => stage[s] # Digest
      /\ clerk' = [clerk EXCEPT ![c] = q]
      /\ UNCHANGED <<session, record, week>>
  BY DEF ReadSession, Reading
<1>2. q \in ReadBy
  BY DEF ReadBy, WeekInv, Shape, NoStreak, StreakRow
<1>3. Knows(q)
  <2>1. q.stage <= stage[q.on] /\ q.week <= week /\ q.week > 0
    BY StageNumbers DEF WeekInv
  <2>2. q.row.current <= Cardinality(HeldBy(q.row.last))
    BY HeldFinite DEF WeekInv, NoStreak
  <2>3. op \in {"open", "skip"} => state[s] = "scheduled"
    BY <1>1 DEF Needs
  <2>4. op \in {"advance", "close"} => state[s] = "running" /\ stage[s] > 0
    BY <1>1 DEF Needs, WeekInv, BegunBefore
  <2>5. /\ q.op = op /\ q.on = s /\ q.saw = state[s] /\ q.stage = stage[s]
        /\ op = "advance" => q.at = "read"
    OBVIOUS
  <2> HIDE DEF q
  <2>6. QED
    BY <1>1, <2>1, <2>2, <2>3, <2>4, <2>5 DEF Knows
<1> HIDE DEF q
<1>4. QED
  BY <1>1, <1>2, <1>3, ClerkInv

LEMMA AskInv ==
  ASSUME WeekInv, NEW c \in Clerks, Ask(c)
  PROVE  WeekInv'
<1>1. clerk[c] \in ReadBy /\ Knows(clerk[c])
  BY OpNotIdle DEF Ask, Operations, WeekInv, ClerksKnow
<1>2. PICK q \in ReadBy : q = clerk[c]
  BY <1>1
<1>3. PICK K \in SUBSET Krs :
        K = IF q.stage \in {Confidence, Commitments} THEN present ELSE {}
  BY DEF WeekInv, Shape
<1> DEFINE p == [q EXCEPT !.low = low, !.asked = K, !.at = "asked"]
<1>4. clerk' = [clerk EXCEPT ![c] = p] /\ UNCHANGED <<session, record, week>>
  BY <1>2, <1>3 DEF Ask
<1>5. /\ p \in ReadBy /\ p.op = q.op /\ p.on = q.on /\ p.saw = q.saw
      /\ p.stage = q.stage /\ p.row = q.row /\ p.week = q.week
      /\ p.at = "asked"
  BY DEF ReadBy, WeekInv, Shape
<1>6. Knows(q)
  BY <1>1, <1>2
<1> HIDE DEF p
<1>7. Knows(p)
  BY <1>5, <1>6 DEF Knows
<1>8. QED
  BY <1>4, <1>5, <1>7, ClerkInv

LEMMA PassGateInv ==
  ASSUME WeekInv, NEW c \in Clerks, PassGate(c)
  PROVE  WeekInv'
<1>1. clerk[c] \in ReadBy /\ Knows(clerk[c])
  BY OpNotIdle DEF PassGate, Operations, WeekInv, ClerksKnow
<1>2. PICK q \in ReadBy : q = clerk[c]
  BY <1>1
<1> DEFINE p == [q EXCEPT !.at = "ready"]
<1>3. /\ GateOpen(q.on, q.stage, q.asked, q.low)
      /\ UNCHANGED <<session, record, week>>
  BY <1>2 DEF PassGate
<1>4. clerk' = [clerk EXCEPT ![c] = p]
  BY <1>2 DEF PassGate
<1>5. /\ p \in ReadBy /\ p.op = q.op /\ p.on = q.on /\ p.saw = q.saw
      /\ p.stage = q.stage /\ p.row = q.row /\ p.week = q.week
      /\ p.asked = q.asked /\ p.low = q.low
  BY DEF ReadBy
<1>6. Answered(q)
  BY <1>3 DEF GateOpen, Answered
<1>7. Knows(q)
  BY <1>1, <1>2
<1> HIDE DEF p
<1>8. Knows(p)
  BY <1>5, <1>6, <1>7 DEF Knows, Answered
<1>9. QED
  BY <1>3, <1>4, <1>5, <1>8, ClerkInv

LEMMA ReadStreakInv ==
  ASSUME WeekInv, NEW c \in Clerks, ReadStreak(c)
  PROVE  WeekInv'
<1>1. clerk[c] \in ReadBy /\ Knows(clerk[c])
  BY OpNotIdle DEF ReadStreak, Operations, WeekInv, ClerksKnow
<1>2. PICK q \in ReadBy : q = clerk[c]
  BY <1>1
<1> DEFINE p == [q EXCEPT !.row = streak, !.at = "ready"]
<1>3. q.op = "close" /\ UNCHANGED <<session, record, week>>
  BY <1>2 DEF ReadStreak
<1>4. clerk' = [clerk EXCEPT ![c] = p]
  BY <1>2 DEF ReadStreak
<1>5. /\ p \in ReadBy /\ p.op = q.op /\ p.on = q.on /\ p.saw = q.saw
      /\ p.stage = q.stage /\ p.row = streak /\ p.week = q.week
  BY DEF ReadBy, WeekInv, Shape
<1>6. Knows(q)
  BY <1>1, <1>2
<1> HIDE DEF p
<1>7. Knows(p)
  BY <1>3, <1>5, <1>6 DEF Knows, WeekInv, StreakCounted
<1>8. QED
  BY <1>3, <1>4, <1>5, <1>7, ClerkInv

LEMMA GiveUpInv ==
  ASSUME WeekInv, NEW c \in Clerks, GiveUp(c)
  PROVE  WeekInv'
BY ClerkInv DEF GiveUp

------------------------------------------------------------------------------
(* The writes.  A request that announces a stage read the one before it,   *)
(* and the session is still there: what the key refuses is a stale one.    *)
LEMMA NextKey ==
  ASSUME WeekInv, NEW s \in Meetings, NEW from \in Stages, from <= stage[s],
         from < Digest, Announce(s, from + 1)
  PROVE  /\ stage[s] = from /\ from + 1 \in Stages
         /\ announced'[s] = 1 .. (from + 1)
         /\ announced' \in [Meetings -> SUBSET Stages]
         /\ \A m \in Meetings : m # s => announced'[m] = announced[m]
<1>1. /\ announced[s] = 1 .. stage[s] /\ stage[s] \in 0 .. 4 /\ from \in 0 .. 4
      /\ announced \in [Meetings -> SUBSET Stages]
  BY Numbers DEF WeekInv, KeysTaken, Shape
<1>2. /\ from + 1 \notin announced[s]
      /\ announced' = [announced EXCEPT ![s] = @ \cup {from + 1}]
  BY DEF Announce
<1>3. stage[s] = from /\ from + 1 \in Stages
  BY <1>1, <1>2, Numbers
<1>4. announced'[s] = (1 .. from) \cup {from + 1}
  BY <1>1, <1>2, <1>3
<1>5. (1 .. from) \cup {from + 1} = 1 .. (from + 1)
  BY <1>1
<1>6. QED
  BY <1>1, <1>2, <1>3, <1>4, <1>5

(* What open and advance have in common: a session comes to its next      *)
(* stage, and what is asked of it there is recorded or came late.          *)
LEMMA NextStage ==
  ASSUME WeekInv, NEW s \in Meetings, NEW from \in Stages, from <= stage[s],
         from < Digest, Announce(s, from + 1), NEW c \in Clerks,
         from = Confidence => AllConfirmed(s)',
         from = Commitments => Committed(s)',
         stage' = [stage EXCEPT ![s] = from + 1],
         clerk' = [clerk EXCEPT ![c] = Idle],
         state' \in [Meetings -> States],
         \A m \in Meetings : m # s => state'[m] = state[m],
         joined \subseteq joined', joined' \subseteq Meetings \X Krs,
         promised' \in [Meetings -> Bounds \cup {0}],
         \A m \in Meetings : m # s => promised'[m] = promised[m],
         from # Commitments => promised'[s] = promised[s],
         UNCHANGED <<record, week, digests, streak, held, present, low>>
  PROVE  WeekInv'
<1> USE DEF WeekInv
<1>0. /\ confirmed' = confirmed /\ commitments' = commitments
      /\ present' = present /\ low' = low
      /\ week' = week /\ digests' = digests /\ streak' = streak /\ held' = held
  BY DEF record
<1>1. /\ stage[s] = from /\ from + 1 \in Stages
      /\ announced'[s] = 1 .. (from + 1)
      /\ announced' \in [Meetings -> SUBSET Stages]
      /\ \A m \in Meetings : m # s => announced'[m] = announced[m]
  BY NextKey
<1>2. /\ stage'[s] = from + 1 /\ from \in Nat
      /\ \A m \in Meetings : m # s => stage'[m] = stage[m]
      /\ \A m \in Meetings : stage[m] \in Nat
  BY Numbers DEF Shape
<1>3. Shape'
  BY <1>0, <1>1 DEF Shape
<1>4. KeysTaken'
  BY <1>1, <1>2 DEF KeysTaken
<1>5. BegunBefore'
  BY <1>2 DEF BegunBefore
<1>6. Gates'
  <2> SUFFICES ASSUME NEW m \in Meetings
               PROVE  /\ stage'[m] > Confidence => AllConfirmed(m)'
                      /\ stage'[m] > Commitments => Committed(m)'
    BY DEF Gates
  <2>1. AllConfirmed(m) => AllConfirmed(m)'
    BY <1>0 DEF AllConfirmed
  <2>2. m # s \/ from # Commitments => (Committed(m) => Committed(m)')
    BY <1>0 DEF Committed
  <2>3. CASE m = s
    BY <2>1, <2>2, <2>3, <1>1, <1>2, Numbers DEF Gates
  <2>4. CASE m # s
    BY <2>1, <2>2, <2>4, <1>2 DEF Gates
  <2>5. QED
    BY <2>3, <2>4
<1>7. StreakCounted' /\ week' > 0 /\ NothingYet'
  <2>1. StreakCounted' /\ week' > 0
    BY <1>0 DEF StreakCounted, HeldBy
  <2>2. ASSUME NEW m \in Meetings, stage'[m] <= Commitments
        PROVE  promised'[m] = 0
    <3>1. CASE m = s
      BY <1>1, <1>2, <2>2, <3>1, Numbers DEF NothingYet
    <3>2. CASE m # s
      BY <1>2, <2>2, <3>2 DEF NothingYet
    <3>3. QED
      BY <3>1, <3>2
  <2>3. QED
    BY <2>1, <2>2 DEF NothingYet
<1>8. Onward
  <2>1. \A m \in Meetings : stage[m] <= stage'[m]
    BY <1>1, <1>2
  <2>2. QED
    BY <2>1, <1>0, StageNumbers DEF Onward, Keeps
<1>9. ClerksKnow'
  BY <1>3, <1>8, ClerksStill DEF Shape
<1>10. QED
  BY <1>3, <1>4, <1>5, <1>6, <1>7, <1>9

LEMMA OpenInv ==
  ASSUME WeekInv, NEW c \in Clerks, Open(c)
  PROVE  WeekInv' /\ stage[clerk[c].on] = 0
<1>1. clerk[c] \in ReadBy
  BY OpNotIdle DEF Open, Operations, WeekInv
<1>2. PICK s \in Meetings : s = clerk[c].on
  BY <1>1 DEF ReadBy
<1>3. /\ Announce(s, 0 + 1) /\ 0 \in Stages /\ 0 < Digest /\ 0 <= stage[s]
      /\ stage' = [stage EXCEPT ![s] = 0 + 1]
      /\ 0 # Confidence /\ 0 # Commitments
  BY <1>2, Numbers, StageNumbers DEF Open, WeekInv
<1>4. /\ state' \in [Meetings -> States]
      /\ \A m \in Meetings : m # s => state'[m] = state[m]
      /\ clerk' = [clerk EXCEPT ![c] = Idle]
      /\ joined' = joined /\ promised' = promised
      /\ UNCHANGED <<record, week, digests, streak, held, present, low>>
  BY <1>2 DEF Open, around, WeekInv, Shape, States
<1>5. stage[s] = 0
  BY <1>3, NextKey
<1>6. /\ joined \subseteq joined' /\ joined' \subseteq Meetings \X Krs
      /\ promised' \in [Meetings -> Bounds \cup {0}]
  BY <1>4 DEF WeekInv, Shape
<1>7. WeekInv'
  BY <1>3, <1>4, <1>6, NextStage
<1>8. QED
  BY <1>2, <1>5, <1>7

(* What a session leaves a gate with is what was asked of it there. *)
LEMMA LeavingGives ==
  ASSUME WeekInv, NEW s \in Meetings, NEW q \in ReadBy, q.on = s,
         Leaving(s, q), Answered(q), q.stage = stage[s], UNCHANGED record
  PROVE  /\ joined \subseteq joined' /\ joined' \subseteq Meetings \X Krs
         /\ promised' \in [Meetings -> Bounds \cup {0}]
         /\ \A m \in Meetings : m # s => promised'[m] = promised[m]
         /\ stage[s] # Commitments => promised'[s] = promised[s]
         /\ stage[s] = Confidence => AllConfirmed(s)'
         /\ stage[s] = Commitments => Committed(s)'
         /\ UNCHANGED <<present, low>>
<1>0. /\ present \subseteq Krs /\ joined \subseteq Meetings \X Krs
      /\ promised \in [Meetings -> Bounds \cup {0}]
      /\ commitments \in [Meetings -> Nat]
      /\ q.low \in Bounds \cup {0} /\ q.asked \subseteq Krs
      /\ confirmed' = confirmed /\ commitments' = commitments
      /\ present' = present /\ low' = low
  BY DEF WeekInv, Shape, ReadBy, record, Leaving
<1>1. stage[s] = Confidence => joined' = joined \cup ({s} \X (present \ q.asked))
  BY DEF Leaving
<1>2. stage[s] # Confidence => joined' = joined
  BY DEF Leaving
<1>3. joined \subseteq joined' /\ joined' \subseteq Meetings \X Krs
  BY <1>0, <1>1, <1>2
<1>4. stage[s] = Confidence => AllConfirmed(s)'
  <2> SUFFICES ASSUME stage[s] = Confidence, NEW k \in present,
                      <<s, k>> \notin joined'
               PROVE  confirmed[<<s, k>>] # "none"
    BY <1>0 DEF AllConfirmed
  <2>1. k \in q.asked
    BY <1>1
  <2>2. QED
    BY <2>1 DEF Answered
<1>5. stage[s] = Commitments /\ q.asked # {} =>
        promised' = [promised EXCEPT ![s] = q.low]
  BY DEF Leaving
<1>6. ~(stage[s] = Commitments /\ q.asked # {}) => promised' = promised
  BY DEF Leaving
<1>7. /\ promised' \in [Meetings -> Bounds \cup {0}]
      /\ \A m \in Meetings : m # s => promised'[m] = promised[m]
      /\ stage[s] # Commitments => promised'[s] = promised[s]
  BY <1>0, <1>5, <1>6
<1>8. stage[s] = Commitments => Committed(s)'
  <2>1. CASE q.asked # {}
    BY <1>0, <1>5, <2>1 DEF Answered, Committed
  <2>2. CASE q.asked = {}
    <3>1. stage[s] = Commitments => promised[s] = 0
      BY Numbers DEF WeekInv, NothingYet
    <3>2. QED
      BY <1>0, <1>6, <2>2, <3>1 DEF Committed
  <2>3. QED
    BY <2>1, <2>2
<1>9. QED
  BY <1>0, <1>3, <1>4, <1>7, <1>8

LEMMA AdvanceInv ==
  ASSUME WeekInv, NEW c \in Clerks, Advance(c)
  PROVE  /\ WeekInv'
         /\ clerk[c].on \in Meetings
         /\ stage' = [stage EXCEPT ![clerk[c].on] = stage[clerk[c].on] + 1]
<1>1. clerk[c] \in ReadBy /\ Knows(clerk[c])
  BY OpNotIdle DEF Advance, Operations, WeekInv, ClerksKnow
<1>2. PICK q \in ReadBy : q = clerk[c]
  BY <1>1
<1>3. PICK s \in Meetings : s = q.on
  BY DEF ReadBy
<1>4. PICK from \in Stages : from = q.stage
  BY DEF ReadBy
<1>5. /\ Announce(s, from + 1) /\ stage' = [stage EXCEPT ![s] = from + 1]
      /\ q.op = "advance" /\ q.at = "ready" /\ Leaving(s, q)
  BY <1>2, <1>3, <1>4 DEF Advance
<1>6. from <= stage[s] /\ from < Digest /\ Answered(q)
  BY <1>1, <1>2, <1>3, <1>4, <1>5, Numbers DEF Knows
<1>7. /\ state' = state /\ clerk' = [clerk EXCEPT ![c] = Idle]
      /\ UNCHANGED <<record, week, digests, streak, held>>
  BY DEF Advance
<1>8. state' \in [Meetings -> States]
  BY <1>7 DEF WeekInv, Shape
<1>9. stage[s] = from
  BY <1>5, <1>6, NextKey
<1>10. /\ joined \subseteq joined' /\ joined' \subseteq Meetings \X Krs
       /\ promised' \in [Meetings -> Bounds \cup {0}]
       /\ \A m \in Meetings : m # s => promised'[m] = promised[m]
       /\ from # Commitments => promised'[s] = promised[s]
       /\ from = Confidence => AllConfirmed(s)'
       /\ from = Commitments => Committed(s)'
       /\ UNCHANGED <<present, low>>
  BY <1>3, <1>4, <1>5, <1>6, <1>7, <1>9, LeavingGives
<1>11. WeekInv'
  BY <1>5, <1>6, <1>7, <1>8, <1>10, NextStage
<1>12. QED
  BY <1>2, <1>3, <1>5, <1>9, <1>11

LEMMA SkipInv ==
  ASSUME WeekInv, NEW c \in Clerks, Skip(c)
  PROVE  WeekInv'
<1> USE DEF WeekInv
<1>1. clerk[c] \in ReadBy
  BY OpNotIdle DEF Skip, Operations
<1>2. PICK s \in Meetings : s = clerk[c].on
  BY <1>1 DEF ReadBy
<1>3. /\ state' = [state EXCEPT ![s] = "skipped"]
      /\ streak' = [streak EXCEPT !.current = 0]
      /\ clerk' = [clerk EXCEPT ![c] = Idle]
      /\ stage' = stage /\ announced' = announced /\ digests' = digests
      /\ held' = held /\ week' = week
      /\ present' = present /\ low' = low /\ joined' = joined
      /\ promised' = promised
      /\ confirmed' = confirmed /\ commitments' = commitments
  BY <1>2 DEF Skip, around, record
<1>4. streak' \in StreakRow /\ streak'.current = 0
  BY <1>3 DEF Shape, StreakRow
<1>5. Shape'
  BY <1>3, <1>4 DEF Shape, States
<1>6. KeysTaken' /\ BegunBefore' /\ Gates' /\ NothingYet' /\ week' > 0
  BY <1>3 DEF KeysTaken, BegunBefore, Gates, NothingYet, AllConfirmed, Committed,
              Shape
<1>7. StreakCounted'
  <2>1. Cardinality(HeldBy(streak.last)') \in Nat
    <3>1. week' \in Nat /\ held' \in SUBSET (1 .. week')
      BY <1>5 DEF Shape
    <3>2. HeldBy(streak.last)' \in SUBSET (held')
      BY DEF HeldBy
    <3>3. QED
      BY <3>1, <3>2, WeeksCounted
  <2>2. QED
    BY <1>4, <2>1 DEF StreakCounted
<1>8. Onward
  BY <1>3, StageNumbers DEF Onward, Keeps
<1>9. ClerksKnow'
  BY <1>3, <1>5, <1>8, ClerksStill DEF Shape
<1>10. QED
  BY <1>5, <1>6, <1>7, <1>9

(* One check-in more makes the count one more at most, and only for a week *)
(* after the last.                                                         *)
LEMMA CheckInCounted ==
  ASSUME NEW n \in Nat, NEW H \in SUBSET (1 .. n), NEW w \in 1 .. n,
         NEW row \in StreakRow,
         row.current <= Cardinality({v \in H : v <= row.last})
  PROVE  /\ AfterCheckIn(row, w) \in StreakRow
         /\ AfterCheckIn(row, w).current
              <= Cardinality({v \in H \cup {w} : v <= AfterCheckIn(row, w).last})
<1> DEFINE Old == {v \in H : v <= row.last}
           New(k) == {v \in H \cup {w} : v <= k}
<1>0. /\ row.current \in Nat /\ row.last \in Nat /\ w \in Nat /\ w > 0
      /\ row.current <= Cardinality(Old)
  BY DEF StreakRow
<1>1. /\ New(row.last) \in SUBSET (1 .. n) /\ New(w) \in SUBSET (1 .. n)
      /\ Old \in SUBSET New(row.last)
  OBVIOUS
<1>2. /\ IsFiniteSet(Old) /\ Cardinality(Old) \in Nat
      /\ Cardinality(New(row.last)) \in Nat
      /\ Cardinality(Old) <= Cardinality(New(row.last))
  BY <1>1, WeeksCounted
<1>3. CASE row.last # 0 /\ w <= row.last
  <2>1. AfterCheckIn(row, w) = row
    BY <1>3 DEF AfterCheckIn
  <2>2. QED
    BY <2>1, <1>0, <1>2
<1>4. CASE ~(row.last # 0 /\ w <= row.last)
  <2>1. row.last < w
    BY <1>0, <1>4
  <2>2. /\ AfterCheckIn(row, w).last = w
        /\ AfterCheckIn(row, w).current \in {1, row.current + 1}
        /\ AfterCheckIn(row, w) \in StreakRow
    BY <1>0, <1>4 DEF AfterCheckIn, StreakRow
  <2>3. Old \cup {w} \in SUBSET New(w)
    <3>1. \A v \in H : v \in Nat
      OBVIOUS
    <3>2. \A v \in Old : v \in H /\ v <= w
      BY <1>0, <2>1, <3>1
    <3>3. \A v \in Old \cup {w} : v \in H \cup {w} /\ v <= w
      BY <1>0, <3>2
    <3>4. Old \cup {w} \subseteq New(w)
      BY <3>3
    <3>5. QED
      BY <3>4
  <2>4. w \notin Old
    BY <1>0, <2>1
  <2>5. Cardinality(Old \cup {w}) = Cardinality(Old) + 1
    BY <1>2, <2>4, FS_AddElement
  <2>6. /\ Cardinality(New(w)) \in Nat
        /\ Cardinality(Old \cup {w}) <= Cardinality(New(w))
    BY <1>1, <2>3, WeeksCounted
  <2> HIDE DEF Old, New
  <2>7. AfterCheckIn(row, w).current <= Cardinality(New(w))
    BY <1>0, <1>2, <2>2, <2>5, <2>6
  <2>8. QED
    BY <2>2, <2>7 DEF New
<1>5. QED
  BY <1>3, <1>4

LEMMA CloseInv ==
  ASSUME WeekInv, NEW c \in Clerks, Close(c)
  PROVE  WeekInv'
<1> USE DEF WeekInv
<1>1. clerk[c] \in ReadBy /\ Knows(clerk[c])
  BY OpNotIdle DEF Close, Operations, ClerksKnow
<1>2. PICK q \in ReadBy : q = clerk[c]
  BY <1>1
<1>3. PICK s \in Meetings : s = q.on
  BY DEF ReadBy
<1>4. PICK row \in StreakRow : row = q.row
  BY DEF ReadBy
<1>5. /\ state' = [state EXCEPT ![s] = "closed"]
      /\ digests' = [digests EXCEPT ![s] = @ + 1]
      /\ streak' = AfterCheckIn(row, q.week)
      /\ held' = held \cup {q.week}
      /\ clerk' = [clerk EXCEPT ![c] = Idle]
      /\ stage' = stage /\ announced' = announced /\ week' = week
      /\ present' = present /\ low' = low /\ joined' = joined
      /\ promised' = promised
      /\ confirmed' = confirmed /\ commitments' = commitments
  BY <1>2, <1>3, <1>4 DEF Close, around, record
<1>6. /\ q.week \in 1 .. week /\ stage[s] > 0 /\ week \in Nat
      /\ held \in SUBSET (1 .. week)
      /\ row.current <= Cardinality(HeldBy(row.last))
  <2>1. q.op = "close" /\ q.week \in Nat
    BY <1>2 DEF Close, ReadBy
  <2>2. QED
    BY <1>1, <1>2, <1>3, <1>4, <2>1 DEF Knows, Shape
<1>7. /\ streak' \in StreakRow
      /\ streak'.current <= Cardinality({v \in held' : v <= streak'.last})
  <2>1. row.current <= Cardinality({v \in held : v <= row.last})
    BY <1>6 DEF HeldBy
  <2>2. PICK w \in 1 .. week : w = q.week
    BY <1>6
  <2>3. /\ AfterCheckIn(row, w) \in StreakRow
        /\ AfterCheckIn(row, w).current
             <= Cardinality({v \in held \cup {w} : v <= AfterCheckIn(row, w).last})
    BY <1>6, <2>1, CheckInCounted
  <2>4. streak' = AfterCheckIn(row, w) /\ held' = held \cup {w}
    BY <1>5, <2>2
  <2>5. QED
    BY <2>3, <2>4
<1>8. Shape'
  <2>1. held' \subseteq 1 .. week'
    BY <1>5, <1>6
  <2>2. digests' \in [Meetings -> Nat]
    BY <1>5 DEF Shape
  <2>3. state' \in [Meetings -> States]
    BY <1>5 DEF Shape, States
  <2>4. clerk' \in [Clerks -> ReadBy \cup {Idle}]
    BY <1>5 DEF Shape
  <2>5. QED
    BY <1>5, <1>7, <2>1, <2>2, <2>3, <2>4 DEF Shape
<1>9. KeysTaken' /\ Gates' /\ NothingYet' /\ week' > 0
  BY <1>5 DEF KeysTaken, Gates, NothingYet, AllConfirmed, Committed
<1>10. BegunBefore'
  BY <1>5, <1>6 DEF BegunBefore, Shape
<1>11. StreakCounted'
  BY <1>7 DEF StreakCounted, HeldBy
<1>12. Onward
  BY <1>5, StageNumbers DEF Onward, Keeps
<1>13. ClerksKnow'
  BY <1>5, <1>8, <1>12, ClerksStill DEF Shape
<1>14. QED
  BY <1>8, <1>9, <1>10, <1>11, <1>13

------------------------------------------------------------------------------
LEMMA StutterInv ==
  ASSUME WeekInv, UNCHANGED weekVars
  PROVE  WeekInv'
BY RecordInv, StageNumbers DEF weekVars, record, WeekInv, Shape, Keeps

LEMMA WeekStepInv ==
  ASSUME WeekInv, [WeekNext]_weekVars
  PROVE  WeekInv'
<1>1. ASSUME NEW c \in Clerks, Lifecycle(c)
      PROVE  WeekInv'
  BY <1>1, ReadSessionInv, AskInv, PassGateInv, ReadStreakInv, OpenInv,
     AdvanceInv, SkipInv, CloseInv, GiveUpInv DEF Lifecycle, Operations
<1>2. QED
  BY <1>1, RecordingInv, MeanwhileInv, StutterInv DEF WeekNext

LEMMA WeekInvAlways == WeekSpec => []WeekInv
<1>1. WeekInit => WeekInv
  BY WeekInitInv
<1>2. WeekInv /\ [WeekNext]_weekVars => WeekInv'
  BY WeekStepInv
<1>3. QED
  BY <1>1, <1>2, PTL DEF WeekSpec

(* However many facilitators advance a session at once, and whatever comes *)
(* into its cycle, leaves it or moves the bound between the statements of  *)
(* one of them: beyond the confidence stage a key result of the cycle has  *)
(* a confidence unless it came after the gate was asked, and beyond the    *)
(* commitments there are as many as were called for then.                  *)
THEOREM GatesAreNeverJumped == WeekSpec => []GatesHeld
<1>1. WeekInv => GatesHeld
  BY DEF WeekInv, Gates, GatesHeld, AllConfirmed, Committed
<1>2. QED
  BY <1>1, WeekInvAlways, PTL

(* The streak never claims more weeks than the space held its check-in in. *)
THEOREM StreaksCountWeeks == WeekSpec => []StreakCountsWeeks
<1>1. WeekInv => StreakCountsWeeks
  <2> SUFFICES ASSUME WeekInv PROVE StreakCountsWeeks
    OBVIOUS
  <2>1. streak.current \in Nat
    BY DEF WeekInv, Shape, StreakRow
  <2>2. QED
    BY <2>1, HeldFinite DEF WeekInv, StreakCounted, StreakCountsWeeks
<1>2. QED
  BY <1>1, WeekInvAlways, PTL

------------------------------------------------------------------------------
(* The bounds of the runs.  A session that has written a digest has begun  *)
(* and is not begun again, so those that still close it had read it before *)
(* the first of them did.                                                  *)
Closing(s) == {c \in Clerks : clerk[c].op = "close" /\ clerk[c].on = s}

DigestsCounted ==
  \A s \in Meetings :
    /\ digests[s] + Cardinality(Closing(s)) <= Cardinality(Clerks)
    /\ digests[s] > 0 => state[s] # "running" /\ stage[s] > 0

WeekBounds ==
  /\ answered \subseteq Meetings \X Krs
  /\ blockers \in [Meetings \X Krs -> 0 .. MaxBlockers]
  /\ commitments \in [Meetings -> 0 .. MaxCommitments]
  /\ week <= MaxWeek /\ streak.last <= week
  /\ \A c \in Clerks : clerk[c] # Idle => clerk[c].row.last <= week
  /\ DigestsCounted

LEMMA SomeClerks ==
  ASSUME NEW C \in SUBSET Clerks, NEW D \in SUBSET C
  PROVE  /\ Cardinality(C) \in Nat /\ Cardinality(D) \in Nat
         /\ Cardinality(Clerks) \in Nat
         /\ Cardinality(C) <= Cardinality(Clerks)
         /\ Cardinality(D) <= Cardinality(C)
<1>1. IsFiniteSet(Clerks)
  BY WeeklyConstants
<1>2. IsFiniteSet(C)
  BY <1>1, FS_Subset
<1> QED
  BY <1>1, <1>2, FS_Subset, FS_CardinalityType

LEMMA ClosingCounted ==
  ASSUME NEW s
  PROVE  /\ Cardinality(Closing(s)) \in Nat /\ Cardinality(Closing(s)') \in Nat
         /\ Cardinality(Clerks) \in Nat
         /\ Cardinality(Closing(s)) <= Cardinality(Clerks)
         /\ Cardinality(Closing(s)') <= Cardinality(Clerks)
<1>1. Closing(s) \in SUBSET Clerks /\ Closing(s)' \in SUBSET Clerks
  BY DEF Closing
<1> QED
  BY <1>1, SomeClerks

LEMMA FewerClosing ==
  ASSUME NEW s, Closing(s)' \subseteq Closing(s)
  PROVE  Cardinality(Closing(s)') <= Cardinality(Closing(s))
<1>1. Closing(s) \in SUBSET Clerks
  BY DEF Closing
<1> QED
  BY <1>1, SomeClerks

LEMMA WeekTypesFollow == WeekInv /\ WeekBounds => WeekTypeOK
<1> SUFFICES ASSUME WeekInv, WeekBounds PROVE WeekTypeOK
  OBVIOUS
<1>1. week \in 1 .. MaxWeek /\ held \in SUBSET (1 .. week) /\ MaxWeek \in Nat
  BY WeeklyConstants DEF WeekInv, WeekBounds, Shape
<1>2. ASSUME NEW row \in StreakRow, row.last <= week,
             row.current <= Cardinality(HeldBy(row.last))
      PROVE  row \in Streak
  <2>1. HeldBy(row.last) \in SUBSET (1 .. week)
    BY <1>1 DEF HeldBy
  <2>2. Cardinality(1 .. week) = week
    BY <1>1, FS_Interval
  <2>3. /\ Cardinality(HeldBy(row.last)) \in Nat
        /\ Cardinality(HeldBy(row.last)) <= week
    <3>1. (1 .. week) \in SUBSET (1 .. week) /\ week \in Nat
      BY <1>1
    <3>2. Cardinality(HeldBy(row.last)) \in Nat
          /\ Cardinality(HeldBy(row.last)) <= Cardinality(1 .. week)
      BY <2>1, <3>1, WeeksCounted
    <3> QED
      BY <2>2, <3>2
  <2>4. row.current \in 0 .. MaxWeek /\ row.last \in 0 .. MaxWeek
    BY <1>1, <1>2, <2>3 DEF StreakRow
  <2> QED
    BY <2>4 DEF StreakRow, Streak
<1>3. streak \in Streak
  BY <1>2 DEF WeekInv, WeekBounds, Shape, StreakCounted
<1>4. ASSUME NEW c \in Clerks, clerk[c] # Idle
      PROVE  clerk[c] \in Request
  <2>1. PICK q \in ReadBy : q = clerk[c]
    BY <1>4, BusyType DEF WeekInv
  <2>2. Knows(q)
    BY <1>4, <2>1 DEF WeekInv, ClerksKnow
  <2>3. q.row \in Streak
    BY <1>2, <1>4, <2>1, <2>2 DEF Knows, WeekBounds, ReadBy
  <2>4. q.week \in 1 .. MaxWeek
    BY <1>1, <2>2 DEF Knows, ReadBy
  <2> QED
    BY <2>1, <2>3, <2>4 DEF ReadBy, Request, Operations
<1>5. clerk \in [Clerks -> Request \cup {Idle}]
  BY <1>4 DEF WeekInv, Shape
<1>6. ASSUME NEW s \in Meetings PROVE digests[s] \in 0 .. Cardinality(Clerks)
  BY ClosingCounted DEF WeekInv, WeekBounds, DigestsCounted, Shape
<1>7. digests \in [Meetings -> 0 .. Cardinality(Clerks)]
  BY <1>6 DEF WeekInv, Shape
<1>8. held \subseteq 1 .. MaxWeek
  BY <1>1
<1> QED
  BY <1>1, <1>3, <1>5, <1>7, <1>8 DEF WeekInv, WeekBounds, Shape, WeekTypeOK

(* Steps that write no digest, after which nobody else closes. *)
LEMMA DigestsStill ==
  ASSUME WeekInv, DigestsCounted, digests' = digests,
         \A s \in Meetings : Closing(s)' \subseteq Closing(s),
         \A s \in Meetings : digests[s] > 0 =>
           state'[s] # "running" /\ stage[s] <= stage'[s],
         stage' \in [Meetings -> Stages]
  PROVE  DigestsCounted'
<1> SUFFICES ASSUME NEW s \in Meetings
             PROVE  /\ digests[s] + Cardinality(Closing(s)') <= Cardinality(Clerks)
                    /\ digests[s] > 0 => state'[s] # "running" /\ stage'[s] > 0
  BY DEF DigestsCounted
<1>1. /\ Cardinality(Closing(s)') \in Nat /\ Cardinality(Closing(s)) \in Nat
      /\ Cardinality(Closing(s)') <= Cardinality(Closing(s))
      /\ Cardinality(Clerks) \in Nat
  BY ClosingCounted, FewerClosing
<1>2. digests[s] \in Nat /\ stage[s] \in Int /\ stage'[s] \in Int
  BY Numbers DEF WeekInv, Shape
<1> QED
  BY <1>1, <1>2 DEF DigestsCounted

LEMMA BoundsStart == WeekInit => WeekBounds
<1> SUFFICES ASSUME WeekInit PROVE WeekBounds
  OBVIOUS
<1>1. DigestsCounted
  BY ClosingCounted DEF WeekInit, DigestsCounted
<1> QED
  BY <1>1, WeeklyConstants DEF WeekInit, WeekBounds, NoStreak

(* What the requests carry on with: nothing recorded, no digest. *)
LEMMA RequestBounds ==
  ASSUME WeekInv, WeekBounds, WeekInv', UNCHANGED <<record, week>>,
         streak'.last <= week,
         \A c \in Clerks : clerk'[c] # Idle => clerk'[c].row.last <= week,
         DigestsCounted'
  PROVE  WeekBounds'
BY DEF record, WeekBounds

LEMMA ReadSessionBounds ==
  ASSUME WeekInv, WeekBounds, WeekInv', NEW c \in Clerks,
         NEW op \in Operations, NEW s \in Meetings, ReadSession(c, op, s)
  PROVE  WeekBounds'
<1> DEFINE q == clerk'[c]
<1>1. /\ state[s] = Needs(op) /\ clerk[c] = Idle
      /\ UNCHANGED <<session, record, week>>
      /\ q.op = op /\ q.on = s /\ q.row = NoStreak
      /\ \A d \in Clerks : d # c => clerk'[d] = clerk[d]
  BY DEF ReadSession, Reading, WeekInv, Shape
<1>2. /\ state' = state /\ stage' = stage /\ digests' = digests
      /\ streak' = streak /\ week' = week
  BY <1>1 DEF session
<1>3. \A d \in Clerks : clerk'[d] # Idle => clerk'[d].row.last <= week
  <2>1. q.row.last = 0 /\ week \in Nat
    BY <1>1 DEF NoStreak, WeekInv, Shape
  <2> QED
    BY <1>1, <2>1 DEF WeekBounds
<1>4. DigestsCounted'
  <2> SUFFICES ASSUME NEW m \in Meetings
               PROVE  /\ digests[m] + Cardinality(Closing(m)') <= Cardinality(Clerks)
                      /\ digests[m] > 0 => state[m] # "running" /\ stage[m] > 0
    BY <1>2 DEF DigestsCounted
  <2>1. CASE op = "close" /\ m = s
    <3>1. digests[m] = 0
      BY <1>1, <2>1 DEF Needs, WeekBounds, DigestsCounted, WeekInv, Shape
    <3> QED
      BY <3>1, ClosingCounted
  <2>2. CASE ~(op = "close" /\ m = s)
    <3>1. Closing(m)' \subseteq Closing(m)
      BY <1>1, <2>2 DEF Closing
    <3> QED
      BY <3>1, FewerClosing, ClosingCounted DEF WeekBounds, DigestsCounted, WeekInv, Shape
  <2> QED
    BY <2>1, <2>2
<1> QED
  BY <1>1, <1>2, <1>3, <1>4, RequestBounds DEF WeekBounds

(* A request that writes, or gives up, is done with. *)
LEMMA EndBounds ==
  ASSUME WeekInv, WeekBounds, WeekInv', UNCHANGED <<record, week>>,
         NEW c \in Clerks, clerk' = [clerk EXCEPT ![c] = Idle],
         digests' = digests, streak'.last <= week,
         \A s \in Meetings : digests[s] > 0 =>
           state'[s] # "running" /\ stage[s] <= stage'[s]
  PROVE  WeekBounds'
<1>1. \A d \in Clerks : clerk'[d] # Idle => clerk'[d] = clerk[d]
  BY DEF WeekInv, Shape
<1>2. \A s \in Meetings : Closing(s)' \subseteq Closing(s)
  BY <1>1 DEF Closing, Idle, WeekInv, Shape
<1>3. DigestsCounted'
  BY <1>2, DigestsStill DEF WeekBounds, WeekInv, Shape
<1> QED
  BY <1>1, <1>3, RequestBounds DEF WeekBounds

LEMMA ClerkBounds ==
  ASSUME WeekInv, WeekBounds, WeekInv', NEW c \in Clerks,
         \/ Ask(c) \/ PassGate(c) \/ ReadStreak(c)
         \/ Open(c) \/ Advance(c) \/ Skip(c) \/ GiveUp(c)
  PROVE  WeekBounds'
<1>1. \A s \in Meetings : stage[s] <= stage[s]
  BY StageNumbers DEF WeekInv
<1>2. /\ streak.last <= week
      /\ \A s \in Meetings : digests[s] > 0 => state[s] # "running" /\ stage[s] > 0
      /\ DigestsCounted
  BY DEF WeekBounds, DigestsCounted
<1>3. ASSUME Ask(c) \/ PassGate(c) \/ ReadStreak(c) PROVE WeekBounds'
  <2>1. clerk[c] \in ReadBy
    BY <1>3, OpNotIdle DEF Ask, PassGate, ReadStreak, Operations, WeekInv
  <2>2. PICK q \in ReadBy : q = clerk[c]
    BY <2>1
  <2>3. /\ UNCHANGED <<session, record, week>>
        /\ \A d \in Clerks : d # c => clerk'[d] = clerk[d]
        /\ clerk'[c].op = q.op /\ clerk'[c].on = q.on
        /\ clerk'[c].row \in {q.row, streak}
    BY <1>3, <2>2 DEF Ask, PassGate, ReadStreak, WeekInv, Shape, ReadBy
  <2>4. /\ state' = state /\ stage' = stage /\ digests' = digests
        /\ streak' = streak
    BY <2>3 DEF session
  <2>5. \A s \in Meetings : Closing(s)' \subseteq Closing(s)
    BY <2>2, <2>3 DEF Closing
  <2>6. DigestsCounted'
    BY <1>1, <1>2, <2>4, <2>5, DigestsStill DEF WeekInv, Shape
  <2>7. clerk[c] # Idle
    BY <1>3, OpNotIdle DEF Ask, PassGate, ReadStreak, Operations, WeekInv
  <2>8. q.row.last <= week
    BY <2>2, <2>7 DEF WeekBounds
  <2>9. \A d \in Clerks : clerk'[d] # Idle => clerk'[d].row.last <= week
    BY <1>2, <2>3, <2>8 DEF WeekBounds
  <2> QED
    BY <1>2, <2>3, <2>4, <2>6, <2>9, RequestBounds
<1>4. ASSUME Open(c) PROVE WeekBounds'
  <2>1. PICK s \in Meetings : s = clerk[c].on
    BY <1>4, OpNotIdle DEF Open, Operations, WeekInv, ReadBy
  <2>2. /\ stage[s] = 0 /\ stage' = [stage EXCEPT ![s] = 1]
        /\ state' = [state EXCEPT ![s] = "running"]
        /\ UNCHANGED <<record, week, digests, streak>>
        /\ clerk' = [clerk EXCEPT ![c] = Idle]
    BY <1>4, <2>1, OpenInv, Numbers DEF Open
  <2>3. digests[s] = 0
    BY <1>2, <2>2 DEF WeekInv, Shape
  <2>4. \A m \in Meetings : digests[m] > 0 =>
          state'[m] # "running" /\ stage[m] <= stage'[m]
    BY <1>1, <1>2, <2>2, <2>3 DEF WeekInv, Shape
  <2> QED
    BY <1>2, <2>2, <2>4, EndBounds
<1>5. ASSUME Advance(c) PROVE WeekBounds'
  <2>1. /\ clerk[c].on \in Meetings
        /\ stage' = [stage EXCEPT ![clerk[c].on] = stage[clerk[c].on] + 1]
    BY <1>5, AdvanceInv
  <2>2. /\ state' = state /\ UNCHANGED <<record, week, digests, streak>>
        /\ clerk' = [clerk EXCEPT ![c] = Idle]
    BY <1>5 DEF Advance
  <2>3. \A m \in Meetings : stage[m] <= stage'[m]
    <3>1. stage \in [Meetings -> Stages]
      BY DEF WeekInv, Shape
    <3>2. \A m \in Meetings : stage[m] \in 0 .. 4
      BY StageNumbers DEF WeekInv
    <3>3. QED
      BY <2>1, <3>1, <3>2
  <2> QED
    BY <1>2, <2>2, <2>3, EndBounds
<1>6. ASSUME Skip(c) PROVE WeekBounds'
  <2>1. /\ state' = [state EXCEPT ![clerk[c].on] = "skipped"]
        /\ streak' = [streak EXCEPT !.current = 0]
        /\ UNCHANGED <<record, week, stage, digests>>
        /\ clerk' = [clerk EXCEPT ![c] = Idle]
    BY <1>6 DEF Skip
  <2>2. streak'.last = streak.last
    BY <2>1 DEF WeekInv, Shape, StreakRow
  <2>3. \A m \in Meetings : state[m] # "running" => state'[m] # "running"
    BY <2>1 DEF WeekInv, Shape
  <2> QED
    BY <1>1, <1>2, <2>1, <2>2, <2>3, EndBounds
<1>7. ASSUME GiveUp(c) PROVE WeekBounds'
  BY <1>1, <1>2, <1>7, EndBounds DEF GiveUp, session
<1> QED
  BY <1>3, <1>4, <1>5, <1>6, <1>7

LEMMA CloseBounds ==
  ASSUME WeekInv, WeekBounds, WeekInv', NEW c \in Clerks, Close(c)
  PROVE  WeekBounds'
<1>1. clerk[c] \in ReadBy /\ clerk[c] # Idle
  BY OpNotIdle DEF Close, Operations, WeekInv
<1>2. PICK q \in ReadBy : q = clerk[c]
  BY <1>1
<1>3. PICK s \in Meetings : s = q.on
  BY DEF ReadBy
<1>4. /\ q.op = "close" /\ state' = [state EXCEPT ![s] = "closed"]
      /\ digests' = [digests EXCEPT ![s] = @ + 1]
      /\ streak' = AfterCheckIn(q.row, q.week)
      /\ clerk' = [clerk EXCEPT ![c] = Idle]
      /\ UNCHANGED <<record, week, stage>>
  BY <1>2, <1>3 DEF Close
<1>5. /\ q.row.last <= week /\ q.week <= week /\ stage[s] > 0
  BY <1>1, <1>2, <1>3, <1>4 DEF WeekBounds, WeekInv, ClerksKnow, Knows
<1>6. streak'.last <= week
  BY <1>4, <1>5 DEF AfterCheckIn
<1>7. \A d \in Clerks : clerk'[d] # Idle => clerk'[d] = clerk[d]
  BY <1>4 DEF WeekInv, Shape
<1>8. /\ Closing(s)' = Closing(s) \ {c} /\ c \in Closing(s)
      /\ \A m \in Meetings : Closing(m)' \subseteq Closing(m)
  BY <1>2, <1>3, <1>4 DEF Closing, Idle, WeekInv, Shape
<1>9. Cardinality(Closing(s)') = Cardinality(Closing(s)) - 1
  <2>1. IsFiniteSet(Closing(s))
    BY WeeklyConstants, FS_Subset DEF Closing
  <2> QED
    BY <1>8, <2>1, FS_RemoveElement
<1>10. DigestsCounted'
  <2> SUFFICES ASSUME NEW m \in Meetings
               PROVE  /\ digests'[m] + Cardinality(Closing(m)') <= Cardinality(Clerks)
                      /\ digests'[m] > 0 => state'[m] # "running" /\ stage[m] > 0
    BY <1>4 DEF DigestsCounted
  <2>1. /\ digests[m] + Cardinality(Closing(m)) <= Cardinality(Clerks)
        /\ digests[m] > 0 => state[m] # "running" /\ stage[m] > 0
        /\ digests[m] \in Nat
    BY DEF WeekBounds, DigestsCounted, WeekInv, Shape
  <2>2. CASE m = s
    <3>1. digests'[m] = digests[m] + 1 /\ state'[m] = "closed"
      BY <1>4, <2>2 DEF WeekInv, Shape
    <3> QED
      BY <1>5, <1>9, <2>1, <2>2, <3>1, ClosingCounted
  <2>3. CASE m # s
    <3>1. digests'[m] = digests[m] /\ state'[m] = state[m]
      BY <1>4, <2>3 DEF WeekInv, Shape
    <3> QED
      BY <1>8, <2>1, <3>1, FewerClosing, ClosingCounted
  <2> QED
    BY <2>2, <2>3
<1> QED
  BY <1>4, <1>6, <1>7, <1>10, RequestBounds DEF WeekBounds

LEMMA RecordingBounds ==
  ASSUME WeekInv, WeekBounds, Recording \/ Meanwhile \/ UNCHANGED weekVars
  PROVE  WeekBounds'
<1>1. /\ state' = state /\ stage' = stage /\ digests' = digests
      /\ streak' = streak /\ clerk' = clerk
      /\ week' = week \/ (week < MaxWeek /\ week' = week + 1)
  BY DEF Recording, Confirm, SetNextAction, CreateBlocker, ResolveBlocker,
         AddCommitment, Meanwhile, Join, Part, SetBound, NewWeek, weekVars,
         session
<1>2. DigestsCounted'
  BY <1>1 DEF WeekBounds, DigestsCounted, Closing
<1>3. /\ week' <= MaxWeek /\ streak'.last <= week'
      /\ \A c \in Clerks : clerk'[c] # Idle => clerk'[c].row.last <= week'
  <2>1. /\ week \in Nat /\ MaxWeek \in Nat /\ streak.last \in Nat
        /\ \A c \in Clerks : clerk[c] # Idle => clerk[c].row.last \in Nat
    <3>1. \A c \in Clerks : clerk[c] # Idle => clerk[c].row.last \in Nat
      BY BusyType DEF WeekInv, ReadBy, StreakRow
    <3> QED
      BY <3>1, WeeklyConstants DEF WeekInv, Shape, StreakRow
  <2> QED
    BY <1>1, <2>1 DEF WeekBounds
<1>4. answered' \subseteq Meetings \X Krs
  BY DEF Recording, Confirm, SetNextAction, CreateBlocker, ResolveBlocker,
         AddCommitment, Meanwhile, Join, Part, SetBound, NewWeek, weekVars,
         record, WeekBounds
<1>5. blockers' \in [Meetings \X Krs -> 0 .. MaxBlockers]
  <2>1. ASSUME NEW s \in Meetings, NEW k \in Krs,
               CreateBlocker(s, k) \/ ResolveBlocker(s, k)
        PROVE  blockers' \in [Meetings \X Krs -> 0 .. MaxBlockers]
    BY <2>1, WeeklyConstants DEF CreateBlocker, ResolveBlocker, WeekBounds
  <2> QED
    BY <2>1 DEF Recording, Confirm, SetNextAction, AddCommitment, Meanwhile,
                Join, Part, SetBound, NewWeek, weekVars, record, WeekBounds
<1>6. commitments' \in [Meetings -> 0 .. MaxCommitments]
  <2>1. ASSUME NEW s \in Meetings, AddCommitment(s)
        PROVE  commitments' \in [Meetings -> 0 .. MaxCommitments]
    BY <2>1, Numbers DEF AddCommitment, WeekBounds
  <2> QED
    BY <2>1 DEF Recording, Confirm, SetNextAction, CreateBlocker,
                ResolveBlocker, Meanwhile, Join, Part, SetBound, NewWeek,
                weekVars, record, WeekBounds
<1> QED
  BY <1>2, <1>3, <1>4, <1>5, <1>6 DEF WeekBounds

(* Every count of a session stays within what its own rows and requests   *)
(* account for.                                                            *)
LEMMA WeekTypesAlways == WeekSpec => []WeekTypeOK
<1>1. WeekInit => WeekInv /\ WeekBounds
  BY WeekInitInv, BoundsStart
<1>2. WeekInv /\ WeekBounds /\ [WeekNext]_weekVars => WeekInv' /\ WeekBounds'
  <2> SUFFICES ASSUME WeekInv, WeekBounds, [WeekNext]_weekVars, WeekInv'
               PROVE  WeekBounds'
    BY WeekStepInv
  <2>1. ASSUME NEW c \in Clerks, Lifecycle(c) PROVE WeekBounds'
    BY <2>1, ReadSessionBounds, ClerkBounds, CloseBounds
       DEF Lifecycle, Operations
  <2> QED
    BY <2>1, RecordingBounds DEF WeekNext
<1> QED
  BY <1>1, <1>2, WeekTypesFollow, PTL DEF WeekSpec

------------------------------------------------------------------------------
(* Only open and advance move the stage, each by one.                      *)
LEMMA StageMoves ==
  ASSUME WeekInv, [WeekNext]_weekVars
  PROVE  \A s \in Meetings : stage'[s] # stage[s] => stage'[s] = stage[s] + 1
<1>1. CASE \E c \in Clerks : Open(c)
  <2>1. PICK c \in Clerks : Open(c)
    BY <1>1
  <2>2. stage' = [stage EXCEPT ![clerk[c].on] = 1] /\ stage[clerk[c].on] = 0
    BY <2>1, OpenInv DEF Open, Confidence
  <2>3. QED
    BY <2>2 DEF WeekInv, Shape
<1>2. CASE \E c \in Clerks : Advance(c)
  BY <1>2, AdvanceInv DEF WeekInv, Shape
<1>3. CASE stage' = stage
  BY <1>3
<1>4. QED
  BY <1>1, <1>2, <1>3
     DEF WeekNext, Recording, Lifecycle, weekVars, session, record,
         Confirm, SetNextAction, CreateBlocker, ResolveBlocker, AddCommitment,
         Meanwhile, Join, Part, SetBound, NewWeek, ReadSession, Ask,
         PassGate, ReadStreak, Skip, Close, GiveUp

(* However many facilitators advance at once, a session walks its stages   *)
(* one by one: the second outbox row for a stage refuses the others.       *)
THEOREM StagesAreWalked == WeekSpec => StagesInOrder
<1>1. WeekInv /\ [WeekNext]_weekVars =>
        [\A s \in Meetings : stage'[s] # stage[s] => stage'[s] = stage[s] + 1]_stage
  BY StageMoves
<1>2. QED
  BY <1>1, WeekInvAlways, PTL DEF WeekSpec, StagesInOrder

(* What can befall a session that is closed. *)
Reopened(s) ==
  state[s] = "closed" /\ <<state'[s], digests'[s]>> # <<state[s], digests[s]>>

LateOnly(s) ==
  /\ state'[s] \in {"closed", "skipped"}
  /\ \E c \in Clerks : clerk[c] # Idle /\ clerk[c].on = s /\ clerk[c].saw # "closed"

LEMMA ClosedMoves ==
  ASSUME WeekInv, [WeekNext]_weekVars, NEW s \in Meetings, Reopened(s)
  PROVE  LateOnly(s)
<1>1. ASSUME NEW c \in Clerks, Open(c)
      PROVE  LateOnly(s)
  <2>1. /\ stage[clerk[c].on] = 0 /\ digests' = digests
        /\ state' = [state EXCEPT ![clerk[c].on] = "running"]
    BY <1>1, OpenInv DEF Open
  <2>2. stage[s] > 0
    BY DEF Reopened, WeekInv, BegunBefore
  <2>3. s # clerk[c].on
    BY <2>1, <2>2
  <2>4. QED
    BY <2>1, <2>3 DEF Reopened, WeekInv, Shape
<1>2. ASSUME NEW c \in Clerks, Skip(c)
      PROVE  LateOnly(s)
  <2>1. clerk[c] # Idle /\ clerk[c] \in ReadBy /\ Knows(clerk[c])
    BY <1>2, OpNotIdle DEF Skip, Operations, WeekInv, ClerksKnow
  <2>2. clerk[c].saw = "scheduled"
    BY <1>2, <2>1 DEF Skip, Knows
  <2>3. /\ state' = [state EXCEPT ![clerk[c].on] = "skipped"]
        /\ digests' = digests
    BY <1>2 DEF Skip
  <2>4. s = clerk[c].on /\ state'[s] = "skipped"
    BY <2>3 DEF Reopened, WeekInv, Shape
  <2>5. QED
    BY <2>1, <2>2, <2>4 DEF LateOnly
<1>3. ASSUME NEW c \in Clerks, Close(c)
      PROVE  LateOnly(s)
  <2>1. clerk[c] # Idle /\ clerk[c] \in ReadBy /\ Knows(clerk[c])
    BY <1>3, OpNotIdle DEF Close, Operations, WeekInv, ClerksKnow
  <2>2. clerk[c].saw = "running"
    BY <1>3, <2>1 DEF Close, Knows
  <2>3. /\ state' = [state EXCEPT ![clerk[c].on] = "closed"]
        /\ digests' = [digests EXCEPT ![clerk[c].on] = @ + 1]
    BY <1>3 DEF Close
  <2>4. s = clerk[c].on /\ state'[s] = "closed"
    BY <2>3 DEF Reopened, WeekInv, Shape
  <2>5. QED
    BY <2>1, <2>2, <2>4 DEF LateOnly
<1>4. ASSUME state' = state /\ digests' = digests
      PROVE  LateOnly(s)
  BY <1>4 DEF Reopened
<1>5. QED
  BY <1>1, <1>2, <1>3, <1>4
     DEF WeekNext, Recording, Lifecycle, weekVars, session, record,
         Confirm, SetNextAction, CreateBlocker, ResolveBlocker, AddCommitment,
         Meanwhile, Join, Part, SetBound, NewWeek, ReadSession, Ask,
         PassGate, ReadStreak, Advance, GiveUp

(* A closed session is never opened again: only a request that read it     *)
(* before it closed can still skip it or write it a second digest.         *)
THEOREM ClosedSessionsStand == WeekSpec => ClosingStands
<1>1. WeekInv /\ [WeekNext]_weekVars =>
        [\A s \in Meetings : Reopened(s) => LateOnly(s)]_<<state, digests>>
  BY ClosedMoves
<1>2. WeekSpec => [][\A s \in Meetings : Reopened(s) => LateOnly(s)]_<<state, digests>>
  BY <1>1, WeekInvAlways, PTL DEF WeekSpec
<1>3. QED
  BY <1>2 DEF ClosingStands, Reopened, LateOnly

------------------------------------------------------------------------------
(* The confidence round *)

Keys == Rounds \X Members

(* A request that has read an open vote still means that row, and counts   *)
(* as overtaken once it is revealed.                                       *)
CastKnows ==
  \A b \in Ballots : casting[b] # NoCast /\ casting[b].row # 0 =>
    LET x == <<casting[b].round, casting[b].member>> IN
      /\ casting[b].row \in 1 .. Len(votes[x])
      /\ votes[x][casting[b].row].shown => b \in overtaken

VoteInv == VoteTypeOK /\ OneOpenVote /\ RevealWhole /\ CastKnows

LEMMA VoteRow ==
  ASSUME VoteTypeOK, NEW x \in Keys, NEW i \in 1 .. Len(votes[x])
  PROVE  votes[x][i] \in Vote
  BY DEF VoteTypeOK, Keys

LEMMA CastIsOne ==
  ASSUME VoteTypeOK, NEW b \in Ballots, casting[b] # NoCast
  PROVE  /\ casting[b] \in Cast
         /\ casting[b].round \in Rounds /\ casting[b].member \in Members
         /\ casting[b].score \in Scores /\ casting[b].row \in 0 .. MaxVotes
         /\ <<casting[b].round, casting[b].member>> \in Keys
<1>1. casting[b] \in Cast
  BY DEF VoteTypeOK
<1>2. QED
  BY <1>1 DEF Cast, Keys

(* Writing a score into the row that was read. *)
Rescored(x, i, v) == votes' = [votes EXCEPT ![x][i].score = v]

LEMMA RescoredGives ==
  ASSUME VoteTypeOK, NEW x \in Keys, NEW i \in 1 .. Len(votes[x]),
         NEW v \in Scores, Rescored(x, i, v)
  PROVE  /\ votes' \in [Keys -> Seq(Vote)]
         /\ \A y \in Keys : Len(votes'[y]) = Len(votes[y])
         /\ \A y \in Keys : \A j \in 1 .. Len(votes[y]) :
              /\ votes'[y][j].shown = votes[y][j].shown
              /\ votes'[y][j].late = votes[y][j].late
              /\ <<y, j>> # <<x, i>> => votes'[y][j] = votes[y][j]
<1> DEFINE s == votes[x]
           t == [s EXCEPT ![i] = [@ EXCEPT !.score = v]]
<1>1. s \in Seq(Vote) /\ s[i] \in Vote
  BY VoteRow DEF VoteTypeOK, Keys
<1>2. [s[i] EXCEPT !.score = v] \in Vote
  BY <1>1 DEF Vote
<1>3. /\ t \in Seq(Vote) /\ Len(t) = Len(s)
      /\ t[i] = [s[i] EXCEPT !.score = v]
      /\ \A j \in 1 .. Len(s) : j # i => t[j] = s[j]
  BY <1>1, <1>2
<1>4. votes \in [Keys -> Seq(Vote)]
  BY DEF VoteTypeOK, Keys
<1>5. votes' = [votes EXCEPT ![x] = t]
  BY DEF Rescored
<1>6. votes'[x] = t /\ \A y \in Keys : y # x => votes'[y] = votes[y]
  BY <1>4, <1>5
<1>7. votes' \in [Keys -> Seq(Vote)]
  BY <1>3, <1>4, <1>5
<1>8. t[i].shown = s[i].shown /\ t[i].late = s[i].late
  BY <1>1, <1>3 DEF Vote
<1>9. \A y \in Keys : Len(votes'[y]) = Len(votes[y])
  BY <1>3, <1>6
<1>10. ASSUME NEW y \in Keys, NEW j \in 1 .. Len(votes[y])
       PROVE  /\ votes'[y][j].shown = votes[y][j].shown
              /\ votes'[y][j].late = votes[y][j].late
              /\ <<y, j>> # <<x, i>> => votes'[y][j] = votes[y][j]
  <2>1. CASE y = x /\ j = i
    BY <1>6, <1>8, <2>1
  <2>2. CASE y # x \/ j # i
    <3>1. votes'[y][j] = votes[y][j]
      BY <1>3, <1>6, <2>2
    <3>2. QED
      BY <3>1
  <2>3. QED
    BY <2>1, <2>2
<1>11. QED
  BY <1>7, <1>9, <1>10

(* Adding a row. *)
LEMMA AppendedGives ==
  ASSUME VoteTypeOK, NEW x \in Keys, NEW e \in Vote,
         votes' = [votes EXCEPT ![x] = Append(@, e)]
  PROVE  /\ votes' \in [Keys -> Seq(Vote)]
         /\ Len(votes'[x]) = Len(votes[x]) + 1
         /\ votes'[x][Len(votes[x]) + 1] = e
         /\ \A y \in Keys : y # x => votes'[y] = votes[y]
         /\ \A y \in Keys : \A j \in 1 .. Len(votes[y]) :
              votes'[y][j] = votes[y][j]
<1>1. votes \in [Keys -> Seq(Vote)]
  BY DEF VoteTypeOK, Keys
<1>2. votes[x] \in Seq(Vote)
  BY <1>1
<1>3. /\ Append(votes[x], e) \in Seq(Vote)
      /\ Len(Append(votes[x], e)) = Len(votes[x]) + 1
      /\ Append(votes[x], e)[Len(votes[x]) + 1] = e
      /\ \A j \in 1 .. Len(votes[x]) : Append(votes[x], e)[j] = votes[x][j]
  BY <1>2
<1>4. votes'[x] = Append(votes[x], e) /\ \A y \in Keys : y # x => votes'[y] = votes[y]
  BY <1>1
<1>5. votes' \in [Keys -> Seq(Vote)]
  BY <1>1, <1>3
<1>6. QED
  BY <1>3, <1>4, <1>5

(* A reveal shows every row of its round and changes nothing else. *)
LEMMA RevealGives ==
  ASSUME VoteTypeOK, NEW r \in Rounds, Reveal(r)
  PROVE  /\ votes' \in [Keys -> Seq(Vote)]
         /\ \A y \in Keys : Len(votes'[y]) = Len(votes[y])
         /\ \A y \in Keys : y[1] # r => votes'[y] = votes[y]
         /\ \A y \in Keys : \A j \in 1 .. Len(votes[y]) :
              /\ y[1] = r => votes'[y][j].shown
              /\ votes[y][j].shown => votes'[y][j] = votes[y][j]
<1> DEFINE all(s) == [i \in 1 .. Len(s) |-> [s[i] EXCEPT !.shown = TRUE]]
<1>1. votes \in [Keys -> Seq(Vote)] /\ DOMAIN votes = Keys
  BY DEF VoteTypeOK, Keys
<1>2. ASSUME NEW s \in Seq(Vote)
      PROVE  /\ all(s) \in Seq(Vote) /\ Len(all(s)) = Len(s)
             /\ \A j \in 1 .. Len(s) :
                  all(s)[j].shown /\ (s[j].shown => all(s)[j] = s[j])
  <2>1. \A j \in 1 .. Len(s) : s[j] \in Vote
    OBVIOUS
  <2>2. \A j \in 1 .. Len(s) : all(s)[j] \in Vote /\ all(s)[j].shown
    BY <2>1 DEF Vote
  <2>3. \A j \in 1 .. Len(s) : s[j].shown => all(s)[j] = s[j]
    BY <2>1 DEF Vote
  <2>4. Len(s) \in Nat
    OBVIOUS
  <2>5. all(s) \in Seq(Vote) /\ Len(all(s)) = Len(s)
    BY <2>2, <2>4
  <2>6. QED
    BY <2>2, <2>3, <2>5
<1>3. votes' = [x \in Keys |-> IF x[1] = r THEN all(votes[x]) ELSE votes[x]]
  BY <1>1 DEF Reveal
<1>4. \A y \in Keys : votes[y] \in Seq(Vote)
  BY <1>1
<1>5. votes' \in [Keys -> Seq(Vote)]
  BY <1>2, <1>3, <1>4
<1>6. ASSUME NEW y \in Keys
      PROVE  /\ Len(votes'[y]) = Len(votes[y])
             /\ y[1] # r => votes'[y] = votes[y]
             /\ \A j \in 1 .. Len(votes[y]) :
                  /\ y[1] = r => votes'[y][j].shown
                  /\ votes[y][j].shown => votes'[y][j] = votes[y][j]
  <2>1. votes'[y] = IF y[1] = r THEN all(votes[y]) ELSE votes[y]
    BY <1>3
  <2>2. QED
    BY <1>2, <1>4, <2>1
<1>7. QED
  BY <1>5, <1>6

LEMMA OpenRowsOf ==
  ASSUME NEW r, NEW m, NEW i
  PROVE  i \in OpenRows(r, m) <=>
           i \in 1 .. Len(votes[<<r, m>>]) /\ ~votes[<<r, m>>][i].shown
  BY DEF OpenRows

LEMMA SameVotes ==
  ASSUME OneOpenVote, RevealWhole, UNCHANGED votes
  PROVE  OneOpenVote' /\ RevealWhole'
<1>1. \A r \in Rounds, m \in Members : OpenRows(r, m)' = OpenRows(r, m)
  BY DEF OpenRows
<1>2. \A r \in Rounds : Revealed(r)' <=> Revealed(r)
  BY DEF Revealed
<1>3. OneOpenVote'
  BY <1>1 DEF OneOpenVote
<1>4. RevealWhole'
  BY <1>1, <1>2 DEF RevealWhole
<1>5. QED
  BY <1>3, <1>4

LEMMA VoteInvInit == VoteInit => VoteInv
<1> SUFFICES ASSUME VoteInit PROVE VoteInv
  OBVIOUS
<1>1. \A x \in Keys : votes[x] = <<>> /\ Len(votes[x]) = 0
  BY DEF VoteInit, Keys
<1>2. VoteTypeOK
  BY <1>1, VoteConstants DEF VoteInit, VoteTypeOK, Keys
<1>3. \A r \in Rounds, m \in Members : OpenRows(r, m) = {}
  BY <1>1 DEF OpenRows, Keys
<1>4. OneOpenVote /\ RevealWhole
  BY <1>3 DEF OneOpenVote, RevealWhole
<1>5. CastKnows
  BY DEF VoteInit, CastKnows
<1>6. QED
  BY <1>2, <1>4, <1>5 DEF VoteInv

LEMMA InvRead ==
  ASSUME VoteInv, NEW b \in Ballots, NEW r \in Rounds, NEW m \in Members,
         NEW v \in Scores, ReadToCast(b, r, m, v)
  PROVE  VoteInv'
<1> USE DEF VoteInv
<1>1. PICK i \in 0 .. MaxVotes :
        /\ i # 0 => i \in OpenRows(r, m)
        /\ casting' = [casting EXCEPT ![b] =
             [round |-> r, member |-> m, score |-> v, row |-> i]]
  BY DEF ReadToCast
<1>2. UNCHANGED <<votes, overtaken>>
  BY DEF ReadToCast
<1>3. VoteTypeOK'
  BY <1>1, <1>2 DEF VoteTypeOK, Cast
<1>4. OneOpenVote' /\ RevealWhole'
  BY <1>2, SameVotes
<1>5. CastKnows'
  <2>1. /\ casting'[b].round = r /\ casting'[b].member = m /\ casting'[b].row = i
        /\ \A a \in Ballots \ {b} : casting'[a] = casting[a]
    BY <1>1 DEF VoteTypeOK
  <2>2. i # 0 => /\ i \in 1 .. Len(votes[<<r, m>>])
                 /\ ~votes[<<r, m>>][i].shown
    BY <1>1, OpenRowsOf
  <2>3. QED
    BY <1>2, <2>1, <2>2 DEF CastKnows
<1>6. QED
  BY <1>3, <1>4, <1>5

LEMMA LeaveGives ==
  ASSUME VoteTypeOK, NEW b \in Ballots, Leave(b)
  PROVE  /\ casting' \in [Ballots -> Cast \cup {NoCast}]
         /\ casting'[b] = NoCast
         /\ \A a \in Ballots \ {b} :
              casting'[a] = casting[a] /\ (a \in overtaken => a \in overtaken')
         /\ overtaken' \subseteq Ballots
  BY DEF Leave, VoteTypeOK

(* A cast ends.  The rows others have read are there still, and none is    *)
(* shown that was not.                                                     *)
LEMMA CastEnds ==
  ASSUME VoteInv, NEW b \in Ballots, Leave(b),
         \A x \in Keys : \A i \in 1 .. Len(votes[x]) :
           /\ i \in 1 .. Len(votes'[x])
           /\ votes'[x][i].shown => votes[x][i].shown
  PROVE  CastKnows'
<1> SUFFICES ASSUME NEW a \in Ballots, casting'[a] # NoCast, casting'[a].row # 0
             PROVE  LET x == <<casting'[a].round, casting'[a].member>> IN
                      /\ casting'[a].row \in 1 .. Len(votes'[x])
                      /\ votes'[x][casting'[a].row].shown => a \in overtaken'
  BY DEF CastKnows
<1> DEFINE x == <<casting[a].round, casting[a].member>>
<1>1. a # b /\ casting'[a] = casting[a] /\ (a \in overtaken => a \in overtaken')
  BY LeaveGives DEF VoteInv
<1>2. x \in Keys
  BY <1>1, CastIsOne DEF VoteInv
<1>3. /\ casting[a].row \in 1 .. Len(votes[x])
      /\ votes[x][casting[a].row].shown => a \in overtaken
  BY <1>1 DEF VoteInv, CastKnows
<1>4. QED
  BY <1>1, <1>2, <1>3

(* A member's second thought changes the score of a row and no more.       *)
LEMMA InvRescore ==
  ASSUME VoteInv, NEW b \in Ballots, WriteVote(b), casting[b].row # 0
  PROVE  VoteInv'
<1> USE DEF VoteInv
<1> DEFINE c == casting[b]
           x == <<c.round, c.member>>
<1>1. casting[b] # NoCast /\ Leave(b) /\ Rescored(x, c.row, c.score)
  BY DEF WriteVote, Rescored
<1>2. x \in Keys /\ c.score \in Scores
  BY <1>1, CastIsOne
<1>3. c.row \in 1 .. Len(votes[x])
  BY <1>1 DEF CastKnows
<1> HIDE DEF c, x
<1>4. /\ votes' \in [Keys -> Seq(Vote)]
      /\ \A y \in Keys : Len(votes'[y]) = Len(votes[y])
      /\ \A y \in Keys : \A j \in 1 .. Len(votes[y]) :
           /\ votes'[y][j].shown = votes[y][j].shown
           /\ votes'[y][j].late = votes[y][j].late
  BY <1>1, <1>2, <1>3, RescoredGives
<1>5. VoteTypeOK'
  BY <1>1, <1>4, LeaveGives DEF VoteTypeOK, Keys
<1>6. CastKnows'
  BY <1>1, <1>4, CastEnds
<1>7. \A r \in Rounds, m \in Members : <<r, m>> \in Keys
  BY DEF Keys
<1>8. ASSUME NEW r \in Rounds, NEW m \in Members
      PROVE  OpenRows(r, m)' = OpenRows(r, m)
  BY <1>4, <1>7 DEF OpenRows
<1>9. ASSUME NEW r \in Rounds PROVE Revealed(r)' <=> Revealed(r)
  BY <1>4, <1>7 DEF Revealed
<1>10. OneOpenVote'
  BY <1>8 DEF OneOpenVote
<1>11. RevealWhole'
  BY <1>4, <1>7, <1>8, <1>9, OpenRowsOf DEF RevealWhole
<1>12. QED
  BY <1>5, <1>6, <1>10, <1>11

(* A first vote of a round is inserted only while the member has none open *)
(* on the key result.                                                      *)
LEMMA InvInsert ==
  ASSUME VoteInv, NEW b \in Ballots, WriteVote(b), casting[b].row = 0
  PROVE  VoteInv'
<1> USE DEF VoteInv
<1> DEFINE c == casting[b]
           x == <<c.round, c.member>>
           e == [score |-> c.score, shown |-> FALSE, late |-> Revealed(c.round)]
<1>1. /\ casting[b] # NoCast /\ Leave(b)
      /\ ~HasOpenVote(KrOf(c.round), c.member)
      /\ Len(votes[x]) < MaxVotes
      /\ votes' = [votes EXCEPT ![x] = Append(@, e)]
  BY DEF WriteVote
<1>2. x \in Keys /\ c.score \in Scores /\ c.round \in Rounds /\ c.member \in Members
  BY <1>1, CastIsOne
<1>3. e \in Vote
  BY <1>2 DEF Vote, Revealed
<1>4. e.shown = FALSE /\ e.late = Revealed(c.round)
  OBVIOUS
<1> HIDE DEF e
<1>5. /\ votes' \in [Keys -> Seq(Vote)]
      /\ Len(votes'[x]) = Len(votes[x]) + 1
      /\ votes'[x][Len(votes[x]) + 1] = e
      /\ \A y \in Keys : y # x => votes'[y] = votes[y]
      /\ \A y \in Keys : \A j \in 1 .. Len(votes[y]) : votes'[y][j] = votes[y][j]
  BY <1>1, <1>2, <1>3, AppendedGives
<1>6. \A y \in Keys : Len(votes[y]) \in Nat /\ Len(votes[y]) <= MaxVotes
  BY DEF VoteTypeOK, Keys
<1>6a. ASSUME NEW y \in Keys, NEW i \in 1 .. Len(votes[y])
      PROVE  i \in 1 .. Len(votes'[y]) /\ votes'[y][i] = votes[y][i]
  <2>1. i \in 1 .. Len(votes'[y])
    <3>1. CASE y = x
      BY <1>5, <1>6, <3>1
    <3>2. CASE y # x
      BY <1>5, <3>2
    <3>3. QED
      BY <3>1, <3>2
  <2>2. QED
    BY <1>5, <2>1
<1>7. VoteTypeOK'
  <2>1. \A y \in Keys : Len(votes'[y]) <= MaxVotes
    BY <1>1, <1>2, <1>5, <1>6, VoteConstants
  <2>2. QED
    BY <1>1, <1>5, <2>1, LeaveGives DEF VoteTypeOK, Keys
<1>8. CastKnows'
  <2>1. \A y \in Keys : \A i \in 1 .. Len(votes[y]) :
           /\ i \in 1 .. Len(votes'[y])
           /\ votes'[y][i].shown => votes[y][i].shown
    BY <1>6a
  <2>2. QED
    BY <1>1, <2>1, CastEnds
<1>9. \A r \in Rounds, m \in Members :
        <<r, m>> \in Keys /\ (<<r, m>> = x <=> r = c.round /\ m = c.member)
  BY DEF Keys
<1>10. ASSUME NEW r \in Rounds, NEW m \in Members
       PROVE  OpenRows(r, m)' =
                IF r = c.round /\ m = c.member THEN {Len(votes[x]) + 1}
                                               ELSE OpenRows(r, m)
  <2>1. CASE r = c.round /\ m = c.member
    <3>1. OpenRows(r, m) = {}
      BY <1>1, <1>2, <2>1 DEF HasOpenVote
    <3>2. \A j \in 1 .. Len(votes[x]) : votes'[x][j].shown
      BY <1>2, <1>5, <2>1, <3>1, OpenRowsOf
    <3>3. Len(votes[x]) \in Nat
      BY <1>2, <1>6
    <3>4. \A j : j \in 1 .. Len(votes'[x]) <=>
                   j \in 1 .. Len(votes[x]) \/ j = Len(votes[x]) + 1
      BY <1>5, <3>3
    <3>5. OpenRows(r, m)' = {j \in 1 .. Len(votes'[x]) : ~votes'[x][j].shown}
      BY <2>1 DEF OpenRows
    <3>6. QED
      BY <1>4, <1>5, <2>1, <3>2, <3>4, <3>5
  <2>2. CASE ~(r = c.round /\ m = c.member)
    <3>1. votes'[<<r, m>>] = votes[<<r, m>>]
      BY <1>5, <1>9, <2>2
    <3>2. QED
      BY <2>2, <3>1 DEF OpenRows
  <2>3. QED
    BY <2>1, <2>2
<1>11. ASSUME NEW r \in Rounds PROVE Revealed(r)' => Revealed(r)
  <2> SUFFICES ASSUME NEW m \in Members, NEW i \in 1 .. Len(votes'[<<r, m>>]),
                      votes'[<<r, m>>][i].shown
               PROVE  Revealed(r)
    BY DEF Revealed
  <2>1. <<r, m>> \in Keys
    BY <1>9
  <2>2. i \in 1 .. Len(votes[<<r, m>>])
    <3>1. CASE <<r, m>> = x
      <4>1. Len(votes[x]) \in Nat /\ i # Len(votes[x]) + 1
        BY <1>2, <1>4, <1>5, <1>6, <3>1
      <4>2. i \in 1 .. Len(votes[x]) + 1
        BY <1>5, <3>1
      <4>3. QED
        BY <3>1, <4>1, <4>2
    <3>2. CASE <<r, m>> # x
      <4>1. votes'[<<r, m>>] = votes[<<r, m>>]
        BY <1>5, <2>1, <3>2
      <4>2. QED
        BY <4>1
    <3>3. QED
      BY <3>1, <3>2
  <2>3. votes'[<<r, m>>][i] = votes[<<r, m>>][i]
    BY <1>5, <2>1, <2>2
  <2>4. QED
    BY <2>2, <2>3 DEF Revealed
<1>12. OneOpenVote'
  <2> SUFFICES ASSUME NEW m \in Members, NEW r \in Rounds, NEW q \in Rounds,
                      NEW i \in OpenRows(r, m)', NEW j \in OpenRows(q, m)',
                      KrOf(r) = KrOf(q)
               PROVE  r = q /\ i = j
    BY DEF OneOpenVote, KrOf
  <2>1. CASE m # c.member
    BY <1>10, <2>1 DEF OneOpenVote
  <2>2. CASE m = c.member /\ KrOf(r) # KrOf(c.round)
    BY <1>10, <2>2 DEF OneOpenVote
  <2>3. CASE m = c.member /\ KrOf(r) = KrOf(c.round)
    <3>1. OpenRows(r, m) = {} /\ OpenRows(q, m) = {}
      BY <1>1, <2>3 DEF HasOpenVote
    <3>2. QED
      BY <1>10, <2>3, <3>1
  <2>4. QED
    BY <2>1, <2>2, <2>3
<1>13. RevealWhole'
  <2> SUFFICES ASSUME NEW r \in Rounds, NEW m \in Members, Revealed(r)',
                      NEW i \in OpenRows(r, m)'
               PROVE  votes'[<<r, m>>][i].late
    BY DEF RevealWhole
  <2>1. Revealed(r)
    BY <1>11
  <2>2. CASE r = c.round /\ m = c.member
    <3>1. i = Len(votes[x]) + 1
      BY <1>10, <2>2
    <3>2. QED
      BY <1>4, <1>5, <2>1, <2>2, <3>1
  <2>3. CASE ~(r = c.round /\ m = c.member)
    <3>1. i \in OpenRows(r, m)
      BY <1>10, <2>3
    <3>2. votes'[<<r, m>>] = votes[<<r, m>>]
      BY <1>5, <1>9, <2>3
    <3>3. QED
      BY <2>1, <3>1, <3>2 DEF RevealWhole
  <2>4. QED
    BY <2>2, <2>3
<1>14. QED
  BY <1>7, <1>8, <1>12, <1>13

(* After a reveal nothing of its round is open, and whoever had read an    *)
(* open row of it is overtaken.                                            *)
LEMMA InvReveal ==
  ASSUME VoteInv, NEW r \in Rounds, Reveal(r)
  PROVE  VoteInv'
<1> USE DEF VoteInv
<1>1. /\ votes' \in [Keys -> Seq(Vote)]
      /\ \A y \in Keys : Len(votes'[y]) = Len(votes[y])
      /\ \A y \in Keys : y[1] # r => votes'[y] = votes[y]
      /\ \A y \in Keys : \A j \in 1 .. Len(votes[y]) :
           /\ y[1] = r => votes'[y][j].shown
           /\ votes[y][j].shown => votes'[y][j] = votes[y][j]
  BY RevealGives
<1>2. UNCHANGED casting /\ overtaken' = overtaken \cup OvertakenBy(r)
  BY DEF Reveal
<1>3. VoteTypeOK'
  BY <1>1, <1>2 DEF VoteTypeOK, Keys, OvertakenBy
<1>4. \A q \in Rounds, m \in Members : <<q, m>> \in Keys /\ <<q, m>>[1] = q
  BY DEF Keys
<1>5. ASSUME NEW m \in Members, NEW q \in Rounds
      PROVE  OpenRows(q, m)' = IF q = r THEN {} ELSE OpenRows(q, m)
  BY <1>1, <1>4 DEF OpenRows
<1>6. OneOpenVote'
  BY <1>5 DEF OneOpenVote
<1>7. ASSUME NEW q \in Rounds, q # r PROVE Revealed(q)' <=> Revealed(q)
  BY <1>1, <1>4, <1>7 DEF Revealed
<1>8. RevealWhole'
  <2> SUFFICES ASSUME NEW q \in Rounds, NEW m \in Members, Revealed(q)',
                      NEW i \in OpenRows(q, m)'
               PROVE  votes'[<<q, m>>][i].late
    BY DEF RevealWhole
  <2>1. q # r /\ i \in OpenRows(q, m)
    BY <1>5
  <2>2. QED
    BY <1>1, <1>4, <1>7, <2>1 DEF RevealWhole
<1>9. CastKnows'
  <2> SUFFICES ASSUME NEW b \in Ballots, casting[b] # NoCast, casting[b].row # 0
               PROVE  LET x == <<casting[b].round, casting[b].member>> IN
                        /\ casting[b].row \in 1 .. Len(votes'[x])
                        /\ votes'[x][casting[b].row].shown => b \in overtaken'
    BY <1>2 DEF CastKnows
  <2> DEFINE x == <<casting[b].round, casting[b].member>>
  <2>1. x \in Keys /\ x[1] = casting[b].round
    BY CastIsOne
  <2>2. /\ casting[b].row \in 1 .. Len(votes[x])
        /\ votes[x][casting[b].row].shown => b \in overtaken
    BY DEF CastKnows
  <2>3. CASE votes[x][casting[b].row].shown
    BY <1>1, <1>2, <2>1, <2>2, <2>3
  <2>4. CASE ~votes[x][casting[b].row].shown
    <3>1. casting[b].row \in OpenRows(casting[b].round, casting[b].member)
      BY <2>2, <2>4, OpenRowsOf
    <3>2. casting[b].round = r => b \in OvertakenBy(r)
      BY <3>1 DEF OvertakenBy
    <3>3. QED
      BY <1>1, <1>2, <2>1, <2>2, <2>4, <3>2
  <2>5. QED
    BY <2>3, <2>4
<1>10. QED
  BY <1>3, <1>6, <1>8, <1>9

LEMMA VoteInvNext == VoteInv /\ [VoteNext]_voteVars => VoteInv'
<1> SUFFICES ASSUME VoteInv, [VoteNext]_voteVars PROVE VoteInv'
  OBVIOUS
<1>1. CASE UNCHANGED voteVars
  BY <1>1 DEF voteVars, VoteInv, VoteTypeOK, OneOpenVote, RevealWhole,
              CastKnows, OpenRows, Revealed
<1>2. ASSUME NEW b \in Ballots, WriteVote(b) PROVE VoteInv'
  BY <1>2, InvRescore, InvInsert
<1>3. ASSUME NEW b \in Ballots, DropCast(b) PROVE VoteInv'
  <2>1. Leave(b) /\ UNCHANGED votes
    BY <1>3 DEF DropCast
  <2>2. VoteTypeOK'
    BY <2>1, LeaveGives DEF VoteInv, VoteTypeOK
  <2>3. CastKnows'
    BY <2>1, CastEnds
  <2>4. OneOpenVote' /\ RevealWhole'
    BY <2>1, SameVotes DEF VoteInv
  <2>5. QED
    BY <2>2, <2>3, <2>4 DEF VoteInv
<1>4. QED
  BY <1>1, <1>2, <1>3, InvRead, InvReveal DEF VoteNext

LEMMA VoteInvAlways == VoteSpec => []VoteInv
  BY VoteInvInit, VoteInvNext, PTL DEF VoteSpec

(* However many requests of a member interleave with each other and with   *)
(* reveals, in one session or two: never two votes open on a key result,   *)
(* and a reveal leaves behind no vote that was cast before it.             *)
THEOREM VotesKeepThePromise == VoteSpec => []VotesAsPromised
<1>1. VoteInv => VotesAsPromised
  BY DEF VoteInv, VotesAsPromised
<1>2. QED
  BY <1>1, VoteInvAlways, PTL

ShownKept ==
  \A x \in Rounds \X Members : \A i \in 1 .. Len(votes[x]) :
    votes[x][i].shown =>
      \/ votes'[x][i] = votes[x][i]
      \/ \E b \in overtaken :
           <<casting[b].round, casting[b].member>> = x
           /\ casting[b].row = i

LEMMA ShownMoves == VoteInv /\ [VoteNext]_voteVars => ShownKept
<1> SUFFICES ASSUME VoteInv, [VoteNext]_voteVars,
                    NEW y \in Keys, NEW j \in 1 .. Len(votes[y]),
                    votes[y][j].shown, votes'[y][j] # votes[y][j]
             PROVE  \E b \in overtaken :
                      <<casting[b].round, casting[b].member>> = y
                      /\ casting[b].row = j
  BY DEF ShownKept, Keys
<1> USE DEF VoteInv
<1>1. CASE UNCHANGED votes
  BY <1>1
<1>2. ASSUME NEW r \in Rounds PROVE ~Reveal(r)
  BY RevealGives
<1>3. ASSUME NEW b \in Ballots, WriteVote(b)
      PROVE  b \in overtaken /\ <<casting[b].round, casting[b].member>> = y
             /\ casting[b].row = j
  <2> DEFINE c == casting[b]
             x == <<c.round, c.member>>
  <2>1. casting[b] # NoCast /\ x \in Keys /\ c.score \in Scores /\ c.round \in Rounds
    BY <1>3, CastIsOne DEF WriteVote
  <2>2. CASE c.row = 0
    <3> DEFINE e == [score |-> c.score, shown |-> FALSE, late |-> Revealed(c.round)]
    <3>1. votes' = [votes EXCEPT ![x] = Append(@, e)]
      BY <1>3, <2>2 DEF WriteVote
    <3>2. e \in Vote
      BY <2>1 DEF Vote, Revealed
    <3>3. votes'[y][j] = votes[y][j]
      BY <2>1, <3>1, <3>2, AppendedGives
    <3>4. QED
      BY <3>3
  <2>3. CASE c.row # 0
    <3>1. Rescored(x, c.row, c.score)
      BY <1>3, <2>3 DEF WriteVote, Rescored
    <3>2. /\ c.row \in 1 .. Len(votes[x])
          /\ votes[x][c.row].shown => b \in overtaken
      BY <2>1, <2>3 DEF CastKnows
    <3>3. <<y, j>> = <<x, c.row>>
      <4> HIDE DEF c, x
      <4>1. QED
        BY <2>1, <3>1, <3>2, RescoredGives
    <3>4. QED
      BY <3>2, <3>3
  <2>4. QED
    BY <2>2, <2>3
<1>4. QED
  BY <1>1, <1>2, <1>3 DEF VoteNext, voteVars, ReadToCast, DropCast

(* A score the room has seen stays as it was shown, unless a cast that had *)
(* read the row before the reveal writes it after: the one interleaving    *)
(* that can change it.                                                     *)
THEOREM ShownScoresStand == VoteSpec => RevealedStands
<1>1. VoteInv /\ [VoteNext]_voteVars => [ShownKept]_votes
  BY ShownMoves
<1>2. VoteSpec => [][ShownKept]_votes
  BY <1>1, VoteInvAlways, PTL DEF VoteSpec
<1>3. QED
  BY <1>2 DEF RevealedStands, ShownKept
=============================================================================
