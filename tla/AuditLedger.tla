------------------------------ MODULE AuditLedger ------------------------------
(***************************************************************************)
(* What the audit chain promises to whoever audits a workspace, with no    *)
(* pass, lock, batch or column in sight: a list of what was done, written  *)
(* to at its end only.  AuditChain is shown to implement this.             *)
(*                                                                         *)
(* The promise is the header of packages/core/src/audit/chainer.ts: a row  *)
(* is written at once and chained a moment later, and a pass that dies     *)
(* "leaves a shorter chain and a longer pending tail, and the next pass    *)
(* continues from the new head".  That no tail is for good is              *)
(* EveryRowChained, of AuditChain.                                         *)
(***************************************************************************)
EXTENDS Integers, Sequences

CONSTANTS
  Rows,
  Most   \* how many rows are added at once, at most

VARIABLES
  done,    \* what operations have committed
  trail    \* the list of it that is chained

vars == <<done, trail>>

Listed == {trail[n] : n \in 1 .. Len(trail)}

(* Rows of S one after the other, none of them twice. *)
Lists(S) ==
  {b \in UNION {[1 .. n -> S] : n \in 1 .. Most} :
     \A i, j \in DOMAIN b : b[i] = b[j] => i = j}

Init == done = {} /\ trail = <<>>

Commit(r) ==
  /\ r \notin done
  /\ done' = done \cup {r}
  /\ UNCHANGED trail

(* Some of what is done and not listed yet is added at the end. *)
Extend ==
  /\ UNCHANGED done
  /\ \E batch \in Lists(done \ Listed) : trail' = trail \o batch

Next == (\E r \in Rows : Commit(r)) \/ Extend

Spec == Init /\ [][Next]_vars
=============================================================================
