---------------------------- MODULE ConnectionPool ----------------------------
(***************************************************************************)
(* One process's pool of database connections (apps/web/lib/pool.ts) under *)
(* the calls of one workspace that Admission admits.                       *)
(*                                                                         *)
(* A transaction holds a connection from its begin to its end              *)
(* (db/src/tenant.ts).  An action that calls another from inside its       *)
(* transaction, and a step of an agent run, hold theirs until the inner    *)
(* call has come back.  The counter of Admission is a row too, read and    *)
(* written over the same pool (apps/web/lib/cache.ts), so an inner call    *)
(* needs a second connection before it is even admitted.  So does a read   *)
(* over the pool from inside a transaction, which asks nobody: a step of   *)
(* an agent run makes several, one after another, to see what it may spend *)
(* (agents/src/run-executor.ts).                                           *)
(* Nothing limits how long a caller waits for a connection.                *)
(*                                                                         *)
(* The pool hands a connection that comes back to one that waits; in which *)
(* order is left open.                                                     *)
(***************************************************************************)
EXTENDS Admission

CONSTANTS
  Here,       \* the calls of this process; the others run on another's pool
  Unadmitted, \* transactions of this process nobody admits: agent steps, and
              \* reads over the pool from inside other transactions
  Within,     \* the caller from whose transaction a caller comes
  NoCaller,   \* made from no transaction
  PoolMax     \* OPENOKR_DB_POOL_MAX

ASSUME PoolConstants ==
  /\ Here \subseteq Calls
  /\ IsFiniteSet(Unadmitted) /\ Unadmitted \cap Calls = {}
  /\ NoCaller \notin Calls \cup Unadmitted
  /\ Within \in [Here \cup Unadmitted -> Here \cup Unadmitted \cup {NoCaller}]
  /\ PoolMax \in Nat \ {0}

Callers == Here \cup Unadmitted

VARIABLES
  wants,      \* what a caller wants or has a connection for
  holding     \* the callers that have one

poolVars == <<slots, wants, holding>>

Wanting == {c \in Callers : wants[c] # "none"}
Waiting == Wanting \ holding
Working == {c \in holding : wants[c] = "work"}

PoolTypeOK ==
  /\ wants \in [Callers -> {"none", "ask", "work", "back"}]
  /\ \A s \in Unadmitted : wants[s] \in {"none", "work"}
  /\ holding \subseteq Wanting
  /\ Cardinality(holding) <= PoolMax

PoolInit ==
  /\ AdmissionInit
  /\ wants = [c \in Callers |-> "none"]
  /\ holding = {}

(* The calls and reads made from c's transaction that have not come back.  *)
Inner(c) ==
  {n \in Callers : /\ Within[n] = c
                   /\ wants[n] # "none" \/ (n \in Here /\ call[n] # "outside")}

(* Made from no transaction, or from one that is open and awaits nothing.  *)
InPlace(c) ==
  Within[c] # NoCaller => Within[c] \in Working /\ Inner(Within[c]) = {}

(* A connection at once if one is free, a place among the waiting if not.  *)
Want(c, use) ==
  /\ wants[c] = "none"
  /\ wants' = [wants EXCEPT ![c] = use]
  /\ holding' = IF Cardinality(holding) < PoolMax THEN holding \cup {c}
                                                  ELSE holding
  /\ UNCHANGED slots

Leave(c) ==
  /\ wants' = [wants EXCEPT ![c] = "none"]
  /\ \/ Waiting = {} /\ holding' = holding \ {c}
     \/ \E w \in Waiting : holding' = (holding \ {c}) \cup {w}

------------------------------------------------------------------------------
(* Mutant: the limiter runs after the action has started. *)
MutWantTransaction(c) ==
  Want(c, "work")

(* withContext: an admitted call opens its transaction, an agent step or a *)
(* read over the pool its own.                                             *)
WantTransaction(c) ==
  /\ IF c \in Here THEN call[c] = "running" ELSE InPlace(c)
  /\ Want(c, "work")

(* callAction begins. *)
WantAdmission(c) ==
  /\ call[c] = "outside" /\ InPlace(c)
  /\ Want(c, "ask")

(* The refusal's decrement at once, or the release in the finally. *)
WantRelease(c) ==
  /\ call[c] # "outside" /\ Inner(c) = {}
  /\ Want(c, "back")

(* The increment, and admitted or refused. *)
Admit(c) ==
  /\ c \in holding /\ wants[c] = "ask"
  /\ Ask(c) /\ Leave(c)

Release(c) ==
  /\ c \in holding /\ wants[c] = "back"
  /\ GiveBack(c) /\ Leave(c)

(* Committed or rolled back, once what it awaits has come back. *)
EndTransaction(c) ==
  /\ c \in Working /\ Inner(c) = {}
  /\ Leave(c)
  /\ UNCHANGED slots

(* Calls of other processes, and the end of the counter's window. *)
Around ==
  /\ \/ \E c \in Calls \ Here : Ask(c) \/ GiveBack(c) \/ Kill(c)
     \/ Expire
  /\ UNCHANGED <<wants, holding>>

PoolNext ==
  \/ \E c \in Callers : WantTransaction(c) \/ EndTransaction(c)
  \/ \E c \in Here :
       WantAdmission(c) \/ WantRelease(c) \/ Admit(c) \/ Release(c)
  \/ Around

PoolSpec == PoolInit /\ [][PoolNext]_poolVars

------------------------------------------------------------------------------
(* Properties *)

(* One workspace's transactions leave a connection to the others as long   *)
(* as the cap, with what an expired counter has forgotten and what that    *)
(* gives back to the next, and the agent steps and inner reads at work, is *)
(* below the pool.                                                         *)
SlotLeft ==
  \/ Cardinality(Working) < PoolMax
  \/ PoolMax <= Limit + owed + Cardinality(forgotten)
                  + Cardinality(Working \cap Unadmitted)

(* Every connection is in the hands of a transaction whose inner call or   *)
(* read waits for one, or has one and is in the same plight.               *)
Wedged ==
  /\ Cardinality(holding) = PoolMax
  /\ \A c \in holding :
       c \in Working /\ \E n \in Inner(c) : n \in Wanting

(* Nothing in the code ends a wedge: no caller gives up its wait, and no   *)
(* transaction its connection, whatever the calls of other processes and   *)
(* the counter do.  What keeps a pool out of it is SlotLeft.               *)
WedgeIsForGood == [][Wedged => Wedged']_poolVars
=============================================================================
