------------------------------- MODULE Admission -------------------------------
(***************************************************************************)
(* The per-tenant cap on concurrent actions: admit and its release         *)
(* (core/src/tenancy/admission.ts), called by callAction                   *)
(* (core/src/actions/registry.ts), over the counter the cache drivers keep *)
(* (adapters/src/drivers/cache/postgres.ts and in-process.ts).             *)
(*                                                                         *)
(* Taking a slot is one round trip and giving one back another, with other *)
(* calls, other processes and the end of the counter's window in between.  *)
(* The per-minute rate refuses a call before it touches this counter.      *)
(***************************************************************************)
EXTENDS Integers, FiniteSets

CONSTANTS
  Calls,      \* calls of actions in one workspace, nested ones included
  Limit,      \* concurrentActions
  MaxKilled   \* bound on calls whose process dies

(* MIN_CONCURRENT_ACTIONS; zero, no cap at all, touches no counter. *)
ASSUME AdmissionConstants ==
  /\ IsFiniteSet(Calls)
  /\ Limit \in Nat \ {0, 1}
  /\ MaxKilled \in Nat

VARIABLES
  counter,    \* the cache entry: is it there, its value, does it expire
  call,       \* per call: outside, refused (its slot not given back), running
  forgotten,  \* history: calls whose slot went with an expired counter
  owed,       \* history: slots given back to a counter that had not lent them
  leaked,     \* history: slots of dead calls the counter still counts
  killed      \* calls whose process died

slots == <<counter, call, forgotten, owed, leaked, killed>>

Inside  == {c \in Calls : call[c] # "outside"}
Running == {c \in Calls : call[c] = "running"}

AdmissionTypeOK ==
  /\ counter \in [there : BOOLEAN, value : Int, expires : BOOLEAN]
  /\ call \in [Calls -> {"outside", "refused", "running"}]
  /\ forgotten \subseteq Inside
  /\ owed \in Nat /\ leaked \in Nat /\ killed \in Nat

NoCounter == [there |-> FALSE, value |-> 0, expires |-> FALSE]

AdmissionInit ==
  /\ counter = NoCounter
  /\ call = [c \in Calls |-> "outside"]
  /\ forgotten = {}
  /\ owed = 0 /\ leaked = 0 /\ killed = 0

(* incr: a counter that is there keeps its window; a new one expires only  *)
(* if a time to live came with the increment.                              *)
Incr(delta, ttl) ==
  counter' = [there |-> TRUE, value |-> counter.value + delta,
              expires |-> IF counter.there THEN counter.expires ELSE ttl]

Ask(c) ==
  /\ call[c] = "outside"
  /\ Incr(1, TRUE)
  /\ call' = [call EXCEPT ![c] =
       IF counter.value + 1 > Limit THEN "refused" ELSE "running"]
  /\ UNCHANGED <<forgotten, owed, leaked, killed>>

(* Mutant: the slot of a finished call is released by hand and again in    *)
(* the finally, without the guard.                                         *)
MutGiveBack(c) ==
  /\ call[c] # "outside"
  /\ Incr(IF call[c] = "running" THEN -2 ELSE -1, FALSE)
  /\ call' = [call EXCEPT ![c] = "outside"]
  /\ owed' = owed + (IF c \in forgotten THEN 1 ELSE 0)
  /\ forgotten' = forgotten \ {c}
  /\ UNCHANGED <<leaked, killed>>

(* A refused call at once, a finished one in the finally: minus one, with  *)
(* no time to live.                                                        *)
GiveBack(c) ==
  /\ call[c] # "outside"
  /\ Incr(-1, FALSE)
  /\ call' = [call EXCEPT ![c] = "outside"]
  /\ owed' = owed + (IF c \in forgotten THEN 1 ELSE 0)
  /\ forgotten' = forgotten \ {c}
  /\ UNCHANGED <<leaked, killed>>

Kill(c) ==
  /\ call[c] # "outside" /\ killed < MaxKilled
  /\ call' = [call EXCEPT ![c] = "outside"]
  /\ leaked' = leaked + (IF c \in forgotten THEN 0 ELSE 1)
  /\ forgotten' = forgotten \ {c}
  /\ killed' = killed + 1
  /\ UNCHANGED <<counter, owed>>

(* Sixty seconds after it was made, calls in flight or not. *)
Expire ==
  /\ counter.there /\ counter.expires
  /\ counter' = NoCounter
  /\ forgotten' = Inside
  /\ owed' = 0 /\ leaked' = 0
  /\ UNCHANGED <<call, killed>>

AdmissionNext ==
  \/ \E c \in Calls : Ask(c) \/ GiveBack(c) \/ Kill(c)
  \/ Expire

AdmissionSpec == AdmissionInit /\ [][AdmissionNext]_slots

------------------------------------------------------------------------------
(* Properties *)

(* The cap, as exact as the code keeps it: beyond the calls an expired     *)
(* counter has forgotten, and the slots they give back to the next, a      *)
(* workspace never runs more than its limit, whatever is refused, released *)
(* or dies in between; and while nothing was given back to a counter that  *)
(* had not lent it, the time to live collects what the dead have leaked.   *)
CapKept ==
  /\ Cardinality(Running \ forgotten) <= Limit + owed
  /\ owed = 0 /\ counter.there => counter.expires
=============================================================================
