----------------------------- MODULE SessionVotes -----------------------------
(***************************************************************************)
(* The confidence round of a session: sessions.castVote and                *)
(* sessions.revealVotes (core/src/actions/sessions.ts), and what           *)
(* sessions.votes shows of it.  Migration 0023 promises a private vote per *)
(* member, key result and round, and a reveal of the whole set at once.    *)
(*                                                                         *)
(* A cast reads the member's open vote and then writes, in one transaction *)
(* at READ COMMITTED: between ReadToCast and WriteVote anything may        *)
(* commit.  A reveal is a single update, and one step at the moment of its *)
(* snapshot: a vote inserted while it runs, which it does not see, is one  *)
(* inserted after it (late).  The space votes: with teamVoting off no cast *)
(* gets past its guard.                                                    *)
(***************************************************************************)
EXTENDS Integers, Sequences, FiniteSets

CONSTANTS
  Rounds,    \* pairs of a session and a key result it votes on
  Members,
  Scores,    \* confidences
  Ballots,   \* castVote requests
  MaxVotes   \* bound on the rows of one member in one round

ASSUME VoteConstants == MaxVotes \in Nat

KrOf(r) == r[2]

VARIABLES
  votes,     \* check_in_votes: per round and member, in the order inserted
  casting,   \* per request: what it asked and the row it read, or NoCast
  overtaken  \* history: requests whose row was revealed after they read it

voteVars == <<votes, casting, overtaken>>

NoCast == [round |-> <<>>]

(* late: history, the row was inserted after a reveal in its round. *)
Vote == [score : Scores, shown : BOOLEAN, late : BOOLEAN]
Cast == [round : Rounds, member : Members, score : Scores, row : 0 .. MaxVotes]

VoteTypeOK ==
  /\ votes \in [Rounds \X Members -> Seq(Vote)]
  /\ \A x \in Rounds \X Members : Len(votes[x]) <= MaxVotes
  /\ casting \in [Ballots -> Cast \cup {NoCast}]
  /\ overtaken \subseteq Ballots

VoteInit ==
  /\ votes = [x \in Rounds \X Members |-> <<>>]
  /\ casting = [b \in Ballots |-> NoCast]
  /\ overtaken = {}

OpenRows(r, m) ==
  {i \in 1 .. Len(votes[<<r, m>>]) : ~votes[<<r, m>>][i].shown}

(* The unique index check_in_votes_one_per_member_idx is per member and    *)
(* key result, whatever the session.                                       *)
HasOpenVote(k, m) ==
  \E r \in Rounds : KrOf(r) = k /\ OpenRows(r, m) # {}

Revealed(r) ==
  \E m \in Members : \E i \in 1 .. Len(votes[<<r, m>>]) :
    votes[<<r, m>>][i].shown

------------------------------------------------------------------------------
(* Mutant: the read does not ask for an unrevealed vote. *)
MutReadAnyVote(b, r, m, v) ==
  /\ casting[b] = NoCast
  /\ \E i \in 0 .. MaxVotes :
       /\ i = Len(votes[<<r, m>>])
       /\ casting' = [casting EXCEPT ![b] =
            [round |-> r, member |-> m, score |-> v, row |-> i]]
  /\ UNCHANGED <<votes, overtaken>>

(* The member's unrevealed vote of this round, or none. *)
ReadToCast(b, r, m, v) ==
  /\ casting[b] = NoCast
  /\ \E i \in 0 .. MaxVotes :
       /\ IF OpenRows(r, m) = {} THEN i = 0 ELSE i \in OpenRows(r, m)
       /\ casting' = [casting EXCEPT ![b] =
            [round |-> r, member |-> m, score |-> v, row |-> i]]
  /\ UNCHANGED <<votes, overtaken>>

Leave(b) ==
  /\ casting' = [casting EXCEPT ![b] = NoCast]
  /\ overtaken' = overtaken \ {b}

(* Mutant: without the unique index. *)
MutWriteVote(b) ==
  /\ casting[b] # NoCast
  /\ LET c == casting[b]  x == <<c.round, c.member>> IN
       IF c.row # 0
         THEN votes' = [votes EXCEPT ![x][c.row].score = c.score]
         ELSE /\ Len(votes[x]) < MaxVotes
              /\ votes' = [votes EXCEPT ![x] = Append(@,
                   [score |-> c.score, shown |-> FALSE,
                    late |-> Revealed(c.round)])]
  /\ Leave(b)

(* The row that was read is updated by its id, or a new one is inserted,   *)
(* which the index refuses while another vote is open.                     *)
WriteVote(b) ==
  /\ casting[b] # NoCast
  /\ LET c == casting[b]  x == <<c.round, c.member>> IN
       IF c.row # 0
         THEN votes' = [votes EXCEPT ![x][c.row].score = c.score]
         ELSE /\ ~HasOpenVote(KrOf(c.round), c.member)
              /\ Len(votes[x]) < MaxVotes
              /\ votes' = [votes EXCEPT ![x] = Append(@,
                   [score |-> c.score, shown |-> FALSE,
                    late |-> Revealed(c.round)])]
  /\ Leave(b)

(* Refused, by the index among others, or the request is gone. *)
DropCast(b) ==
  /\ casting[b] # NoCast
  /\ Leave(b)
  /\ UNCHANGED votes

OvertakenBy(r) ==
  {b \in Ballots :
     /\ casting[b] # NoCast /\ casting[b].round = r
     /\ casting[b].row \in OpenRows(r, casting[b].member)}

(* Mutant: the reveal goes member by member. *)
MutReveal(r) ==
  /\ \E m \in Members : OpenRows(r, m) # {} /\ votes' = [x \in DOMAIN votes |->
       IF x[1] = r /\ x[2] = m
         THEN [i \in 1 .. Len(votes[x]) |-> [votes[x][i] EXCEPT !.shown = TRUE]]
         ELSE votes[x]]
  /\ overtaken' = overtaken \cup OvertakenBy(r)
  /\ UNCHANGED casting

(* One update over every unrevealed row of the round. *)
Reveal(r) ==
  /\ \E m \in Members : OpenRows(r, m) # {}
  /\ votes' = [x \in DOMAIN votes |->
       IF x[1] = r
         THEN [i \in 1 .. Len(votes[x]) |-> [votes[x][i] EXCEPT !.shown = TRUE]]
         ELSE votes[x]]
  /\ overtaken' = overtaken \cup OvertakenBy(r)
  /\ UNCHANGED casting

VoteNext ==
  \/ \E b \in Ballots, r \in Rounds, m \in Members, v \in Scores :
       ReadToCast(b, r, m, v)
  \/ \E b \in Ballots : WriteVote(b) \/ DropCast(b)
  \/ \E r \in Rounds : Reveal(r)

VoteSpec == VoteInit /\ [][VoteNext]_voteVars

------------------------------------------------------------------------------
(* Properties *)

(* "One vote per member per key result per round.  Changing your mind      *)
(* updates it": no member has two votes open on a key result, in one       *)
(* session or in two, however many requests a double click sends.          *)
OneOpenVote ==
  \A m \in Members, r, q \in Rounds :
    \A i \in OpenRows(r, m), j \in OpenRows(q, m) :
      KrOf(r) = KrOf(q) => r = q /\ i = j

(* "The reveal is one write over the whole set so no client sees a partial *)
(* one": sessions.votes shows every row once it finds one revealed, so a   *)
(* vote cast before the first reveal is never among those still hidden.    *)
(* One cast after it is, and is shown at once, author or not.              *)
RevealWhole ==
  \A r \in Rounds, m \in Members :
    Revealed(r) => \A i \in OpenRows(r, m) : votes[<<r, m>>][i].late

(* Both promises of the ballot, on every interleaving of casts and reveals *)
VotesAsPromised == OneOpenVote /\ RevealWhole

(* What the room was shown is what the member voted: a revealed score only *)
(* changes under a cast that had read the row before the reveal, as it is  *)
(* updated by id alone.                                                    *)
RevealedStands ==
  [][\A x \in Rounds \X Members : \A i \in 1 .. Len(votes[x]) :
       votes[x][i].shown =>
         \/ votes'[x][i] = votes[x][i]
         \/ \E b \in overtaken :
              <<casting[b].round, casting[b].member>> = x
              /\ casting[b].row = i]_votes
=============================================================================
