---------------------------- MODULE Administrators ----------------------------
(***************************************************************************)
(* Who may administer a workspace, and the operations that change it: the  *)
(* people.* and roles.* actions of packages/core, each run through         *)
(* runOperation (operations/operation.ts).                                 *)
(*                                                                         *)
(* An operation is one READ COMMITTED transaction, so every statement of   *)
(* it reads what is committed by then:                                     *)
(*   Authorise    resolveActor and the level comparison                    *)
(*   Check        the reads of execute, the last-holder guard among them   *)
(*   <the write>  the updates, with the commit                             *)
(*   Rollback     a refusal, an error or a crash at any earlier point      *)
(* The writes of one operation touch one member's rows and are serialised  *)
(* by their row locks, which is why write and commit are one step.         *)
(*                                                                         *)
(* Levels are abstracted to "full on the workspace's own context" or less. *)
(***************************************************************************)
EXTENDS Integers

CONSTANTS
  Members,      \* rows of workspace_members with a person behind them
  Founder,      \* the member provisioning made
  Directory,    \* the system actor of directory sync, no member
  Txns,         \* transactions that may be open at once
  Requests,     \* the requests the instance explores
  MaxRequests   \* bound on operations begun

Editable == {"admin", "member"}     \* the built-in roles that can be edited
Roles    == Editable \cup {"owner"}

(* The actions that can take full access from their target, each with the  *)
(* last-holder guard.                                                      *)
Removals == {"suspend", "convertToGuest", "erase", "dismiss"}

(* "appoint" and "dismiss" are people.setAdministrator with administrator  *)
(* true and false.                                                         *)
AllRequests ==
  [act : Removals \cup {"restore", "appoint"}, target : Members]
    \cup [act : {"assign"}, target : Members, role : Roles \cup {"none"}]
    \cup [act : {"setPermission"}, role : Editable, full : BOOLEAN]

ASSUME AdministratorConstants ==
  /\ Founder \in Members
  /\ Directory \notin Members
  /\ Requests \subseteq AllRequests
  /\ MaxRequests \in Nat

VARIABLES
  kind,      \* workspace_members.kind: human or guest
  status,    \* workspace_members.status: active or suspended
  account,   \* workspace_members.user_id is not null
  role,      \* workspace_members.role_id, "none" for null
  bound,     \* the personal binding on the workspace context is full
  grants,    \* an editable role's workspace level is full
  stage,     \* per transaction: idle, authorised or checked
  request,   \* what it was asked
  actor,     \* who asked
  already,   \* the target held full access when execute read it
  late,      \* an appointment of the target committed since then
  stale,     \* history: any operation committed since then
  crossed,   \* history: operations on this member overlapped
  begun      \* operations begun

access   == <<kind, status, account, role, bound, grants>>
txns     == <<stage, request, actor, already, late, stale>>
vars     == <<access, txns, crossed, begun>>

TypeOK ==
  /\ kind \in [Members -> {"human", "guest"}]
  /\ status \in [Members -> {"active", "suspended"}]
  /\ account \in [Members -> BOOLEAN]
  /\ role \in [Members -> Roles \cup {"none"}]
  /\ bound \in [Members -> BOOLEAN]
  /\ grants \in [Editable -> BOOLEAN]
  /\ stage \in [Txns -> {"idle", "authorised", "checked"}]
  /\ request \in [Txns -> AllRequests]
  /\ actor \in [Txns -> Members \cup {Directory}]
  /\ already \in [Txns -> BOOLEAN]
  /\ late \in [Txns -> BOOLEAN]
  /\ stale \in [Txns -> BOOLEAN]
  /\ crossed \in [Members -> BOOLEAN]
  /\ begun \in 0 .. MaxRequests

NoRequest == [act |-> "restore", target |-> Founder]

(* After provisioning and some accepted invitations: the founder is bound  *)
(* at full and holds Owner, everybody else holds the default role.         *)
Init ==
  /\ kind = [m \in Members |-> "human"]
  /\ status = [m \in Members |-> "active"]
  /\ account = [m \in Members |-> TRUE]
  /\ role = [m \in Members |-> IF m = Founder THEN "owner" ELSE "member"]
  /\ bound = [m \in Members |-> m = Founder]
  /\ grants = [x \in Editable |-> FALSE]
  /\ stage = [t \in Txns |-> "idle"]
  /\ request = [t \in Txns |-> NoRequest]
  /\ actor = [t \in Txns |-> Directory]
  /\ already = [t \in Txns |-> FALSE]
  /\ late = [t \in Txns |-> FALSE]
  /\ stale = [t \in Txns |-> FALSE]
  /\ crossed = [m \in Members |-> FALSE]
  /\ begun = 0

------------------------------------------------------------------------------
(* Levels *)

Grants(x) == x = "owner" \/ (x \in Editable /\ grants[x])

(* resolveMemberAccessLevel answers full: an active member with a personal *)
(* binding, or a human whose role grants it.                               *)
HoldsFull(m) ==
  /\ status[m] = "active"
  /\ bound[m] \/ (kind[m] = "human" /\ Grants(role[m]))

Holders == {m \in Members : HoldsFull(m)}

(* ~isLastFullAccessHolder.  The code reads one member after another; the  *)
(* answer "not the last" still means one was seen to hold full access.     *)
AnotherHolds(m) == \E other \in Members \ {m} : HoldsFull(other)

------------------------------------------------------------------------------
(* The pipeline *)

(* resolveActor, then the floor: a person who holds full access, or the    *)
(* directory, which may suspend and restore.                               *)
Authorise(t, a, q) ==
  /\ stage[t] = "idle" /\ begun < MaxRequests
  /\ IF a = Directory THEN q.act \in {"suspend", "restore"}
                      ELSE account[a] /\ HoldsFull(a)
  /\ stage' = [stage EXCEPT ![t] = "authorised"]
  /\ request' = [request EXCEPT ![t] = q]
  /\ actor' = [actor EXCEPT ![t] = a]
  /\ begun' = begun + 1
  /\ UNCHANGED <<access, already, late, stale, crossed>>

(* Mutant: stepping down does not ask whether anybody else is left. *)
MutStepDownFreely(q) ==
  /\ q.act \in Removals \ {"dismiss"} => AnotherHolds(q.target)
  /\ q.act = "appoint" =>
       kind[q.target] = "human" /\ status[q.target] = "active"
  /\ q.act = "assign" => kind[q.target] = "human"

(* The refusals of execute that are read before anything is written. *)
Permitted(q) ==
  /\ q.act \in Removals => AnotherHolds(q.target)
  /\ q.act = "appoint" =>
       kind[q.target] = "human" /\ status[q.target] = "active"
  /\ q.act = "assign" => kind[q.target] = "human"

Check(t) ==
  /\ stage[t] = "authorised"
  /\ Permitted(request[t])
  /\ stage' = [stage EXCEPT ![t] = "checked"]
  /\ already' = [already EXCEPT ![t] =
       request[t].act \in {"appoint", "dismiss"} /\ HoldsFull(request[t].target)]
  /\ UNCHANGED <<access, request, actor, late, stale, crossed, begun>>

Rest(t) ==
  /\ stage' = [stage EXCEPT ![t] = "idle"]
  /\ request' = [request EXCEPT ![t] = NoRequest]
  /\ actor' = [actor EXCEPT ![t] = Directory]
  /\ already' = [already EXCEPT ![t] = FALSE]

(* Refused, failed or dead: the transaction leaves nothing. *)
Rollback(t) ==
  /\ stage[t] # "idle"
  /\ Rest(t)
  /\ late' = [late EXCEPT ![t] = FALSE]
  /\ stale' = [stale EXCEPT ![t] = FALSE]
  /\ UNCHANGED <<access, crossed, begun>>

Asks(t, act) == stage[t] = "checked" /\ request[t].act = act

On(u, m) == request[u].act # "setPermission" /\ request[u].target = m

(* What a commit means to the others that are past their reads. *)
Commit(t) ==
  /\ Rest(t)
  /\ late' = [u \in Txns |->
       u # t /\ stage[u] = "checked" /\
         (late[u] \/ (request[t].act = "appoint" /\ ~already[t]
                        /\ On(u, request[t].target)))]
  /\ stale' = [u \in Txns |-> u # t /\ stage[u] = "checked"]
  /\ crossed' = [m \in Members |-> crossed[m] \/
       (On(t, m) /\ \E u \in Txns \ {t} : stage[u] = "checked" /\ On(u, m))]
  /\ UNCHANGED begun

------------------------------------------------------------------------------
(* The writes *)

Suspend(t) ==
  /\ Asks(t, "suspend")
  /\ status' = [status EXCEPT ![request[t].target] = "suspended"]
  /\ Commit(t)
  /\ UNCHANGED <<kind, account, role, bound, grants>>

(* Mutant: the member comes back as one who was only invited. *)
MutRestoreAsInvited(t) ==
  /\ Asks(t, "restore")
  /\ status[request[t].target] = "suspended"
  /\ status' = [status EXCEPT ![request[t].target] = "invited"]
  /\ Commit(t)
  /\ UNCHANGED <<kind, account, role, bound, grants>>

(* The condition is in the update itself: a member no longer suspended is  *)
(* refused.  An erased member is suspended too.                            *)
Restore(t) ==
  /\ Asks(t, "restore")
  /\ status[request[t].target] = "suspended"
  /\ status' = [status EXCEPT ![request[t].target] = "active"]
  /\ Commit(t)
  /\ UNCHANGED <<kind, account, role, bound, grants>>

(* Mutant: the bindings stay. *)
MutKeepBindings(t) ==
  /\ Asks(t, "convertToGuest")
  /\ kind' = [kind EXCEPT ![request[t].target] = "guest"]
  /\ Commit(t)
  /\ UNCHANGED <<status, account, role, bound, grants>>

(* stripBindings, then the kind.  A binding committed after the statement  *)
(* that strips them is not seen by it.  The role stays where it is: it     *)
(* grants a guest nothing.                                                 *)
ConvertToGuest(t) ==
  /\ Asks(t, "convertToGuest")
  /\ kind' = [kind EXCEPT ![request[t].target] = "guest"]
  /\ \E missed \in {FALSE, late[t]} :
       bound' = [bound EXCEPT ![request[t].target] = @ /\ missed]
  /\ Commit(t)
  /\ UNCHANGED <<status, account, role, grants>>

(* The person is anonymised and suspended; bindings and role stay. *)
Erase(t) ==
  /\ Asks(t, "erase")
  /\ status' = [status EXCEPT ![request[t].target] = "suspended"]
  /\ account' = [account EXCEPT ![request[t].target] = FALSE]
  /\ Commit(t)
  /\ UNCHANGED <<kind, role, bound, grants>>

(* setAdministrator, true: the binding unless the level was full already,  *)
(* and moveAdministratorRole to the built-in role admin.                   *)
Appoint(t) ==
  /\ Asks(t, "appoint")
  /\ bound' = [bound EXCEPT ![request[t].target] = @ \/ ~already[t]]
  /\ role' = [role EXCEPT ![request[t].target] = "admin"]
  /\ Commit(t)
  /\ UNCHANGED <<kind, status, account, grants>>

(* setAdministrator, false: the binding is lowered only if the level was   *)
(* full, and the role becomes the default one.                             *)
Dismiss(t) ==
  /\ Asks(t, "dismiss")
  /\ bound' = [bound EXCEPT ![request[t].target] = @ /\ ~already[t]]
  /\ role' = [role EXCEPT ![request[t].target] = "member"]
  /\ Commit(t)
  /\ UNCHANGED <<kind, status, account, grants>>

(* roles.assign: any role or none, to anybody who is human. *)
AssignRole(t) ==
  /\ Asks(t, "assign")
  /\ role' = [role EXCEPT ![request[t].target] = request[t].role]
  /\ Commit(t)
  /\ UNCHANGED <<kind, status, account, bound, grants>>

(* roles.setPermission on the workspace domain of an editable role. *)
SetRolePermission(t) ==
  /\ Asks(t, "setPermission")
  /\ grants' = [grants EXCEPT ![request[t].role] = request[t].full]
  /\ Commit(t)
  /\ UNCHANGED <<kind, status, account, role, bound>>

Write(t) ==
  \/ Suspend(t)
  \/ Restore(t)
  \/ ConvertToGuest(t)
  \/ Erase(t)
  \/ Appoint(t)
  \/ Dismiss(t)
  \/ AssignRole(t)
  \/ SetRolePermission(t)

Next ==
  \E t \in Txns :
    \/ \E a \in Members \cup {Directory}, q \in Requests : Authorise(t, a, q)
    \/ Check(t)
    \/ Write(t)
    \/ Rollback(t)

Spec == Init /\ [][Next]_vars

------------------------------------------------------------------------------
(* Properties *)

Commits(t) == stage[t] = "checked" /\ Write(t)

(* What isLastFullAccessHolder is for: suspending, converting, erasing and *)
(* stepping down never leave a workspace without a full-access holder, by  *)
(* whatever road the others came to hold it, unless another operation      *)
(* committed between the guard and the write.  The role actions carry no   *)
(* guard and are excepted.                                                 *)
LastHolderKept ==
  [][Holders # {} /\ Holders' = {} =>
       \E t \in Txns : Commits(t) /\
         (stale[t] \/ request[t].act \notin Removals)]_vars

(* The same promise as docs/admin/people.md gives it, "the last            *)
(* administrator cannot be suspended", with no exception for operations    *)
(* that run at the same time.                                              *)
LastAdministratorStays ==
  [][Holders # {} /\ Holders' = {} =>
       \E t \in Txns : Commits(t) /\ request[t].act \notin Removals]_vars

(* A guest administers nothing, a member converted from administrator      *)
(* included, unless an operation on the same member crossed the conversion.*)
GuestsHoldNothing ==
  \A m \in Members : kind[m] = "guest" /\ HoldsFull(m) => crossed[m]

(* The summary of people.setAdministrator: it makes a member an            *)
(* administrator with full access to the workspace.  So an appointment     *)
(* nothing overlapped leaves its target with full access.                  *)
AppointmentGrantsFullAccess ==
  [][\A t \in Txns : Appoint(t) /\ ~stale[t] =>
       request[t].target \in Holders']_vars

(* The header of operation.ts: authorising inside the transaction closes   *)
(* the window in which a grant is revoked after the check and the write    *)
(* proceeds anyway.  So whoever's write commits still holds full access.   *)
RevocationWindowClosed ==
  [][\A t \in Txns : Commits(t) =>
       actor[t] = Directory \/ HoldsFull(actor[t])]_vars
=============================================================================
