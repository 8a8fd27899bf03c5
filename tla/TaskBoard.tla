------------------------------- MODULE TaskBoard -------------------------------
(***************************************************************************)
(* The order of the cards on a space's task board: moveTaskInTx and        *)
(* createTaskInTx (core/src/tasks/service.ts), with tasks.update,          *)
(* tasks.delete and tasks.restore (core/src/actions/tasks.ts), which       *)
(* change what a column holds without taking its lock.                     *)
(*                                                                         *)
(* A hand is a request that places a card.  A drag goes                    *)
(*   Claim        the advisory lock of the column it lands in              *)
(*   Look         columnNeighbours: a place                                *)
(*   Crowd        columnNeighbours: no room, a renumber                    *)
(*   LockColumn   the column's rows locked, then read in order, as they    *)
(*                are by then: the card the drop is after may have left    *)
(*   Drop         the writes, and the commit that gives up every lock      *)
(* and a create reads the end of its column, then inserts.  Positions are  *)
(* whole numbers here: TASK_POSITION_SPACING is Spacing, and a gap below 2 *)
(* has no whole number in it, as one below MINIMUM_GAP has no room.  The   *)
(* two or three reads of columnNeighbours are one step.                    *)
(***************************************************************************)
EXTENDS Integers, FiniteSets

CONSTANTS
  Cards,    \* tasks of one space
  Columns,  \* statuses
  Hands,    \* requests that place a card
  Top,      \* no card: the drop is at the top of the column
  Spacing,
  Depth,    \* bound on how far down the top of a column goes
  Ceiling   \* bound on how far up its end goes, room for a renumber

ASSUME BoardConstants ==
  /\ Spacing \in Nat \ {0}
  /\ Depth \in Nat /\ Ceiling \in Nat
  /\ IsFiniteSet(Cards) /\ Top \notin Cards /\ Columns # {}
  /\ Spacing * Cardinality(Cards) <= Ceiling

VARIABLES
  card,    \* per card "none", "live" or "deleted"
  column,  \* tasks.status
  place,   \* tasks.position
  loose,   \* history: cards last put in their column without its lock
  hand     \* per request: what it does and what it has read

board     == <<card, column, place, loose>>
boardVars == <<board, hand>>

Places == -Depth .. Ceiling
Empty  == [phase |-> "idle"]

BoardTypeOK ==
  /\ card \in [Cards -> {"none", "live", "deleted"}]
  /\ column \in [Cards -> Columns]
  /\ place \in [Cards -> Places]
  /\ loose \subseteq Cards
  /\ \A h \in Hands : hand[h] # Empty =>
       /\ hand[h].phase \in {"claimed", "placed", "crowded", "ordered", "create"}
       /\ hand[h].card \in Cards /\ hand[h].to \in Columns
       /\ hand[h].after \in Cards \cup {Top}
       /\ hand[h].at \in Places
       /\ DOMAIN hand[h].order \subseteq Cards

BoardInit ==
  /\ card = [c \in Cards |-> "none"]
  /\ column = [c \in Cards |-> CHOOSE s \in Columns : TRUE]
  /\ place = [c \in Cards |-> 0]
  /\ loose = {}
  /\ hand = [h \in Hands |-> Empty]

InColumn(s) == {c \in Cards : card[c] = "live" /\ column[c] = s}

Lowest(S)  == CHOOSE n \in {place[c] : c \in S} : \A c \in S : n <= place[c]
Highest(S) == CHOOSE n \in {place[c] : c \in S} : \A c \in S : n >= place[c]

(* The rows a renumber holds; whoever would write them waits. *)
RowFree(c) ==
  \A h \in Hands : hand[h].phase = "ordered" => c \notin DOMAIN hand[h].order

------------------------------------------------------------------------------
(* Without the column's lock *)

(* nextPositionInTx: coalesce(max, 0) and one spacing more. *)
End(s) == (IF InColumn(s) = {} THEN 0 ELSE Highest(InColumn(s))) + Spacing

ReadEnd(h, c, s) ==
  /\ hand[h] = Empty
  /\ card[c] = "none" /\ \A g \in Hands : hand[g] # Empty => hand[g].card # c
  /\ End(s) \in Places
  /\ hand' = [hand EXCEPT ![h] = [phase |-> "create", card |-> c, to |-> s,
                after |-> Top, at |-> End(s), order |-> <<>>]]
  /\ UNCHANGED board

Create(h) ==
  /\ hand[h].phase = "create"
  /\ LET c == hand[h].card IN
       /\ card' = [card EXCEPT ![c] = "live"]
       /\ column' = [column EXCEPT ![c] = hand[h].to]
       /\ place' = [place EXCEPT ![c] = hand[h].at]
       /\ loose' = loose \cup {c}
  /\ hand' = [hand EXCEPT ![h] = Empty]

(* tasks.update writes the status alone: the card keeps its position. *)
UpdateStatus(c, s) ==
  /\ card[c] = "live" /\ column[c] # s /\ RowFree(c)
  /\ column' = [column EXCEPT ![c] = s]
  /\ loose' = loose \cup {c}
  /\ UNCHANGED <<card, place, hand>>

Delete(c) ==
  /\ card[c] = "live" /\ RowFree(c)
  /\ card' = [card EXCEPT ![c] = "deleted"]
  /\ UNCHANGED <<column, place, loose, hand>>

(* Back where it was, whatever has been put there since. *)
Restore(c) ==
  /\ card[c] = "deleted"
  /\ card' = [card EXCEPT ![c] = "live"]
  /\ loose' = loose \cup {c}
  /\ UNCHANGED <<column, place, hand>>

------------------------------------------------------------------------------
(* A drag *)

HoldsColumn(h, s) ==
  hand[h].phase \in {"claimed", "placed", "crowded", "ordered"}
  /\ hand[h].to = s

(* Mutant: the rows are locked when written, the column is not claimed. *)
MutClaim(h, c, s, after) ==
  /\ hand[h] = Empty
  /\ card[c] = "live"
  /\ hand' = [hand EXCEPT ![h] = [phase |-> "claimed", card |-> c, to |-> s,
                after |-> after, at |-> 0, order |-> <<>>]]
  /\ UNCHANGED board

(* The card was found, and the lock of (space, status) is free. *)
Claim(h, c, s, after) ==
  /\ hand[h] = Empty
  /\ card[c] = "live"
  /\ \A g \in Hands : ~HoldsColumn(g, s)
  /\ hand' = [hand EXCEPT ![h] = [phase |-> "claimed", card |-> c, to |-> s,
                after |-> after, at |-> 0, order |-> <<>>]]
  /\ UNCHANGED board

(* The cards of the landing column but the one that is dragged. *)
Others(h) == InColumn(hand[h].to) \ {hand[h].card}

Above(h) == {c \in Others(h) : place[c] > place[hand[h].after]}

HasRoom(h) ==
  LET after == hand[h].after IN
  after \in Others(h) /\ Above(h) # {} =>
    Lowest(Above(h)) - place[after] >= 2

(* columnNeighbours: where the card goes, when there is room. *)
Target(h) ==
  LET after == hand[h].after  others == Others(h) IN
  CASE after = Top /\ others = {}  -> Spacing
    [] after = Top /\ others # {}  -> Lowest(others) - Spacing
    [] after # Top /\ after \notin others ->
         (IF others = {} THEN 0 ELSE Highest(others)) + Spacing
    [] after \in others /\ Above(h) = {} -> place[after] + Spacing
    [] OTHER -> place[after] + (Lowest(Above(h)) - place[after]) \div 2

Look(h) ==
  /\ hand[h].phase = "claimed"
  /\ HasRoom(h)
  /\ Target(h) \in Places
  /\ hand' = [hand EXCEPT ![h].phase = "placed", ![h].at = Target(h)]
  /\ UNCHANGED board

Crowd(h) ==
  /\ hand[h].phase = "claimed"
  /\ ~HasRoom(h)
  /\ hand' = [hand EXCEPT ![h].phase = "crowded"]
  /\ UNCHANGED board

(* Every row of the column by its rank, the dragged card's too if it is   *)
(* there.                                                                  *)
Orderings(S) ==
  {rank \in [S -> 1 .. Cardinality(S)] :
     \A b, c \in S :
       /\ b # c => rank[b] # rank[c]
       /\ place[b] < place[c] => rank[b] < rank[c]}

(* Mutant: no "order by position". *)
MutLockColumn(h) ==
  /\ hand[h].phase = "crowded"
  /\ \A c \in InColumn(hand[h].to) : RowFree(c)
  /\ LET S == InColumn(hand[h].to) IN
     \E q \in {f \in [S -> 1 .. Cardinality(S)] :
               \A b, c \in S : b # c => f[b] # f[c]} :
       hand' = [hand EXCEPT ![h].phase = "ordered", ![h].order = q]
  /\ UNCHANGED board

LockColumn(h) ==
  /\ hand[h].phase = "crowded"
  /\ \A c \in InColumn(hand[h].to) : RowFree(c)
  /\ \E q \in Orderings(InColumn(hand[h].to)) :
       hand' = [hand EXCEPT ![h].phase = "ordered", ![h].order = q]
  /\ UNCHANGED board

(* What a renumber writes out: the others in order, the card put in after  *)
(* the one it was dropped on, or first when that one is not among them.    *)
Among(h, b) ==
  LET order == hand[h].order  c == hand[h].card IN
  IF c \in DOMAIN order /\ order[c] < order[b] THEN order[b] - 1 ELSE order[b]

Slot(h) ==
  IF hand[h].after \in DOMAIN hand[h].order \ {hand[h].card}
    THEN Among(h, hand[h].after) ELSE 0

Number(h, b) ==
  IF b = hand[h].card THEN Slot(h) + 1
  ELSE IF Among(h, b) <= Slot(h) THEN Among(h, b) ELSE Among(h, b) + 1

(* Every write is by id and leaves a deleted card alone. *)
Written(h) ==
  {hand[h].card} \cup
    IF hand[h].phase = "ordered" THEN DOMAIN hand[h].order ELSE {}

Drop(h) ==
  /\ hand[h].phase \in {"placed", "ordered"}
  /\ \A g \in Hands \ {h} : hand[g].phase = "ordered"
       => hand[h].card \notin DOMAIN hand[g].order
  /\ LET c == hand[h].card IN
       /\ place' = [b \in Cards |->
            IF b \notin Written(h) \/ card[b] # "live" THEN place[b]
            ELSE IF hand[h].phase = "placed" THEN hand[h].at
            ELSE Spacing * Number(h, b)]
       /\ IF card[c] = "live"
            THEN /\ column' = [column EXCEPT ![c] = hand[h].to]
                 /\ loose' = loose \ {c}
            ELSE UNCHANGED <<column, loose>>
  /\ hand' = [hand EXCEPT ![h] = Empty]
  /\ UNCHANGED card

(* Refused, a deadlock over the rows of two renumbers, or gone. *)
LetGo(h) ==
  /\ hand[h] # Empty
  /\ hand' = [hand EXCEPT ![h] = Empty]
  /\ UNCHANGED board

Drag(h) ==
  \/ \E c \in Cards, s \in Columns, after \in Cards \cup {Top} :
       Claim(h, c, s, after)
  \/ Look(h) \/ Crowd(h) \/ LockColumn(h) \/ Drop(h)
  \/ LetGo(h)

BoardNext ==
  \/ \E h \in Hands :
       \/ \E c \in Cards, s \in Columns : ReadEnd(h, c, s)
       \/ Create(h)
       \/ Drag(h)
  \/ \E c \in Cards :
       \/ \E s \in Columns : UpdateStatus(c, s)
       \/ Delete(c) \/ Restore(c)

BoardSpec == BoardInit /\ [][BoardNext]_boardVars

------------------------------------------------------------------------------
(* Properties *)

(* "Nothing lost and nothing duplicated held throughout: only the          *)
(* distinctness of the positions broke": cards placed under the column's   *)
(* lock never share a position.  Those created, restored or moved by their *)
(* status alone take no lock and may.                                      *)
DistinctPlaces ==
  \A s \in Columns : \A b, c \in InColumn(s) \ loose :
    place[b] = place[c] => b = c

(* A drag moves one card.  Two others keep their order, even through a     *)
(* renumber, and the card lands right under the one it was dropped on, if  *)
(* that one is still in the column, with nothing placed between them.      *)
Ends(h) == hand[h] # Empty /\ hand'[h] = Empty
Settled(s) == {c \in InColumn(s) \ loose : c \notin loose'
                 /\ card'[c] = "live" /\ column'[c] = s}

OneCardMoves ==
  /\ \A s \in Columns : \A b, c \in Settled(s) :
       place[b] < place[c] /\ place'[b] >= place'[c] =>
         \E h \in Hands : Ends(h) /\ hand[h].card \in {b, c}
  /\ \A h \in Hands : LET c == hand[h].card  a == hand[h].after IN
       /\ Ends(h) /\ hand[h].phase \in {"placed", "ordered"}
       /\ place'[c] # place[c]
       /\ a \in Settled(hand[h].to) \ {c}
       => /\ place'[a] < place'[c]
          /\ \A b \in Settled(hand[h].to) \ {a, c} :
               ~(place'[a] < place'[b] /\ place'[b] < place'[c])

DragsMoveOneCard == [][OneCardMoves]_boardVars
=============================================================================
