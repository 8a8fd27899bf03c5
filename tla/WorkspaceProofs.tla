-------------------------- MODULE WorkspaceProofs --------------------------
(***************************************************************************)
(* Proofs about Administrators, for every number of members, transactions  *)
(* and operations: the last-holder guard of the people actions can be      *)
(* defeated only by another operation that commits between the guard and   *)
(* the write, never by the road the other holders came to full access; and *)
(* a guest comes to hold full access only by such an operation.            *)
(***************************************************************************)
EXTENDS Administrators, FiniteSetTheorems, TLAPS

(* What a removal read in its guard is still true while nothing committed. *)
GuardStands ==
  \A t \in Txns :
    stage[t] = "checked" /\ request[t].act \in Removals /\ ~stale[t] =>
      AnotherHolds(request[t].target)

LEMMA RequestKinds ==
  /\ \A q \in AllRequests :
       q.act \in Removals \cup {"restore", "appoint", "assign", "setPermission"}
  /\ \A q \in AllRequests : q.act # "setPermission" => q.target \in Members
  /\ \A q \in AllRequests : q.act = "assign" => q.role \in Roles \cup {"none"}
  /\ \A q \in AllRequests : q.act = "setPermission" =>
       q.role \in Editable /\ q.full \in BOOLEAN
  BY DEF AllRequests, Removals

LEMMA NothingAsked == NoRequest \in AllRequests
  BY AdministratorConstants DEF NoRequest, AllRequests

------------------------------------------------------------------------------
(* Type correctness *)

LEMMA TypeInit == Init => TypeOK
  BY AdministratorConstants, NothingAsked DEF Init, TypeOK, Roles, Editable

(* The part of the type that a commit is responsible for. *)
LEMMA CommitTypes ==
  ASSUME TypeOK, NEW t \in Txns, Commit(t)
  PROVE  /\ stage' \in [Txns -> {"idle", "authorised", "checked"}]
         /\ request' \in [Txns -> AllRequests]
         /\ actor' \in [Txns -> Members \cup {Directory}]
         /\ already' \in [Txns -> BOOLEAN]
         /\ late' \in [Txns -> BOOLEAN]
         /\ stale' \in [Txns -> BOOLEAN]
         /\ crossed' \in [Members -> BOOLEAN]
         /\ begun' \in 0 .. MaxRequests
<1>1. /\ stage' \in [Txns -> {"idle", "authorised", "checked"}]
      /\ request' \in [Txns -> AllRequests]
      /\ actor' \in [Txns -> Members \cup {Directory}]
      /\ already' \in [Txns -> BOOLEAN]
  BY NothingAsked DEF TypeOK, Commit, Rest
<1>2. late' \in [Txns -> BOOLEAN] /\ stale' \in [Txns -> BOOLEAN]
  BY Zenon DEF Commit
<1>3. crossed' \in [Members -> BOOLEAN]
  BY Zenon DEF Commit
<1>4. begun' \in 0 .. MaxRequests
  BY DEF TypeOK, Commit
<1> QED
  BY <1>1, <1>2, <1>3, <1>4

LEMMA WriteTypes ==
  ASSUME TypeOK, NEW t \in Txns, Write(t)
  PROVE  TypeOK'
<1> DEFINE m == request[t].target
<1>1. request[t] \in AllRequests /\ already[t] \in BOOLEAN
        /\ late[t] \in BOOLEAN
  BY DEF TypeOK
<1> USE DEF TypeOK, Asks
<1>2. CASE Suspend(t)
  BY <1>2, CommitTypes DEF Suspend
<1>3. CASE Restore(t)
  BY <1>3, CommitTypes DEF Restore
<1>4. CASE ConvertToGuest(t)
  <2>1. bound' \in [Members -> BOOLEAN]
    <3>1. PICK missed \in {FALSE, late[t]} :
            bound' = [bound EXCEPT ![m] = @ /\ missed]
      BY <1>4 DEF ConvertToGuest
    <3>2. bound \in [Members -> BOOLEAN]
      OBVIOUS
    <3> QED
      BY Zenon, <3>1, <3>2
  <2>2. kind' \in [Members -> {"human", "guest"}]
    BY <1>4 DEF ConvertToGuest
  <2> QED
    BY <1>4, <2>1, <2>2, CommitTypes DEF ConvertToGuest
<1>5. CASE Erase(t)
  BY <1>5, CommitTypes DEF Erase
<1>6. CASE Appoint(t)
  <2>1. bound' \in [Members -> BOOLEAN]
    BY Zenon, <1>6 DEF Appoint
  <2>2. role' \in [Members -> Roles \cup {"none"}]
    BY <1>6 DEF Appoint, Roles, Editable
  <2> QED
    BY <1>6, <2>1, <2>2, CommitTypes DEF Appoint
<1>7. CASE Dismiss(t)
  <2>1. bound' \in [Members -> BOOLEAN]
    BY Zenon, <1>7 DEF Dismiss
  <2>2. role' \in [Members -> Roles \cup {"none"}]
    BY <1>7 DEF Dismiss, Roles, Editable
  <2> QED
    BY <1>7, <2>1, <2>2, CommitTypes DEF Dismiss
<1>8. CASE AssignRole(t)
  <2>1. request[t].role \in Roles \cup {"none"}
    BY <1>1, <1>8, RequestKinds DEF AssignRole
  <2>2. role' \in [Members -> Roles \cup {"none"}]
    BY <1>8, <2>1 DEF AssignRole
  <2> QED
    BY <1>8, <2>2, CommitTypes DEF AssignRole
<1>9. CASE SetRolePermission(t)
  <2>1. request[t].full \in BOOLEAN
    BY <1>1, <1>9, RequestKinds DEF SetRolePermission
  <2>2. grants' \in [Editable -> BOOLEAN]
    BY Zenon, <1>9, <2>1 DEF SetRolePermission
  <2> QED
    BY <1>9, <2>2, CommitTypes DEF SetRolePermission
<1> QED
  BY <1>2, <1>3, <1>4, <1>5, <1>6, <1>7, <1>8, <1>9 DEF Write

LEMMA TypeStep == TypeOK /\ [Next]_vars => TypeOK'
<1> SUFFICES ASSUME TypeOK, [Next]_vars PROVE TypeOK'
  OBVIOUS
<1>1. ASSUME NEW t \in Txns, NEW a \in Members \cup {Directory},
             NEW q \in Requests, Authorise(t, a, q)
      PROVE  TypeOK'
  BY <1>1, AdministratorConstants DEF TypeOK, Authorise, access
<1>2. ASSUME NEW t \in Txns, Check(t) PROVE TypeOK'
  <2>1. already' \in [Txns -> BOOLEAN]
    BY Zenon, <1>2 DEF Check, TypeOK
  <2> QED
    BY <1>2, <2>1 DEF TypeOK, Check, access
<1>3. ASSUME NEW t \in Txns, Write(t) PROVE TypeOK'
  BY <1>3, WriteTypes
<1>4. ASSUME NEW t \in Txns, Rollback(t) PROVE TypeOK'
  BY <1>4, NothingAsked DEF TypeOK, Rollback, Rest, access
<1>5. CASE UNCHANGED vars
  BY <1>5 DEF TypeOK, vars, access, txns
<1> QED
  BY <1>1, <1>2, <1>3, <1>4, <1>5 DEF Next

(* Members, roles and transactions stay within their types.                *)
THEOREM TypeCorrect == Spec => []TypeOK
  BY TypeInit, TypeStep, PTL DEF Spec

------------------------------------------------------------------------------
(* The guard *)

(* A removal takes nothing from anybody but its target. *)
LEMMA OthersUntouched ==
  ASSUME TypeOK, NEW t \in Txns, Write(t), request[t].act \in Removals,
         NEW other \in Members, other # request[t].target, HoldsFull(other)
  PROVE  HoldsFull(other)'
<1> DEFINE m == request[t].target
<1>1. Suspend(t) \/ ConvertToGuest(t) \/ Erase(t) \/ Dismiss(t)
  BY DEF Write, Removals, Restore, Appoint, AssignRole, SetRolePermission, Asks
<1>2. /\ kind'[other] = kind[other]
      /\ status'[other] = status[other]
      /\ role'[other] = role[other]
      /\ UNCHANGED grants
  BY <1>1 DEF Suspend, ConvertToGuest, Erase, Dismiss, TypeOK
<1>3. bound'[other] = bound[other]
  <2>1. CASE ConvertToGuest(t)
    <3>1. PICK missed \in {FALSE, late[t]} :
            bound' = [bound EXCEPT ![m] = @ /\ missed]
      BY <2>1 DEF ConvertToGuest
    <3> QED
      BY <3>1 DEF TypeOK
  <2> QED
    BY <1>1, <2>1 DEF Suspend, Erase, Dismiss, TypeOK
<1> QED
  BY <1>2, <1>3 DEF HoldsFull, Grants

LEMMA GuardInit == Init => GuardStands
  BY DEF Init, GuardStands

LEMMA GuardStep == TypeOK /\ GuardStands /\ [Next]_vars => GuardStands'
<1> SUFFICES ASSUME TypeOK, GuardStands, [Next]_vars PROVE GuardStands'
  OBVIOUS
<1>1. ASSUME NEW t \in Txns, NEW a \in Members \cup {Directory},
             NEW q \in Requests, Authorise(t, a, q)
      PROVE  GuardStands'
  BY <1>1 DEF GuardStands, Authorise, access, TypeOK, AnotherHolds, HoldsFull,
              Grants
<1>2. ASSUME NEW t \in Txns, Check(t) PROVE GuardStands'
  <2>1. request[t].act \in Removals => AnotherHolds(request[t].target)
    BY <1>2 DEF Check, Permitted
  <2> QED
    BY <1>2, <2>1 DEF GuardStands, Check, access, TypeOK, AnotherHolds,
                      HoldsFull, Grants
<1>3. ASSUME NEW t \in Txns, Write(t) PROVE GuardStands'
  <2>1. Commit(t)
    BY <1>3 DEF Write, Suspend, Restore, ConvertToGuest, Erase, Appoint,
                Dismiss, AssignRole, SetRolePermission
  <2>2. \A u \in Txns : stage'[u] = "checked" => stale'[u]
    BY <2>1 DEF Commit, Rest, TypeOK
  <2> QED
    BY <2>2 DEF GuardStands
<1>4. ASSUME NEW t \in Txns, Rollback(t) PROVE GuardStands'
  BY <1>4 DEF GuardStands, Rollback, Rest, access, TypeOK, AnotherHolds,
              HoldsFull, Grants
<1>5. CASE UNCHANGED vars
  BY <1>5 DEF GuardStands, vars, access, txns, AnotherHolds, HoldsFull, Grants
<1> QED
  BY <1>1, <1>2, <1>3, <1>4, <1>5 DEF Next

LEMMA Invariant == Spec => [](TypeOK /\ GuardStands)
<1>1. Init => TypeOK /\ GuardStands
  BY TypeInit, GuardInit
<1>2. TypeOK /\ GuardStands /\ [Next]_vars => (TypeOK /\ GuardStands)'
  BY TypeStep, GuardStep
<1> QED
  BY <1>1, <1>2, PTL DEF Spec

(* Suspending, converting, erasing and stepping down leave a full-access   *)
(* holder behind, unless another commit came between guard and write.      *)
THEOREM GuardKeepsOne == Spec => LastHolderKept
<1> DEFINE Kept == Holders # {} /\ Holders' = {} =>
                     \E t \in Txns : Commits(t) /\
                       (stale[t] \/ request[t].act \notin Removals)
<1>1. TypeOK /\ GuardStands /\ Next => Kept
  <2> SUFFICES ASSUME TypeOK, GuardStands, Next, Holders # {}, Holders' = {}
               PROVE  \E t \in Txns : Commits(t) /\
                        (stale[t] \/ request[t].act \notin Removals)
    OBVIOUS
  <2>1. ~UNCHANGED access
    BY DEF Holders, HoldsFull, Grants, access
  <2>2. PICK t \in Txns : Write(t)
    BY <2>1 DEF Next, Authorise, Check, Rollback
  <2>3. stage[t] = "checked"
    BY <2>2 DEF Write, Asks, Suspend, Restore, ConvertToGuest, Erase, Appoint,
                Dismiss, AssignRole, SetRolePermission
  <2>4. ASSUME ~stale[t], request[t].act \in Removals PROVE FALSE
    <3>1. PICK other \in Members \ {request[t].target} : HoldsFull(other)
      BY <2>3, <2>4 DEF GuardStands, AnotherHolds
    <3>2. HoldsFull(other)'
      BY <2>2, <2>4, <3>1, OthersUntouched
    <3> QED
      BY <3>2 DEF Holders
  <2> QED
    BY <2>2, <2>3, <2>4 DEF Commits
<1>2. TypeOK /\ GuardStands /\ [Next]_vars => [Kept]_vars
  BY <1>1
<1> QED
  BY <1>2, Invariant, PTL DEF Spec, LastHolderKept

------------------------------------------------------------------------------
(* Guests *)

(* A guest keeps a full binding, an operation past its reads may miss one  *)
(* or be about to grant one to a guest, only where operations on the same  *)
(* member crossed.                                                         *)
GuestInv ==
  /\ \A m \in Members : kind[m] = "guest" /\ bound[m] => crossed[m]
  /\ \A t \in Txns : late[t] =>
       stage[t] = "checked" /\ (\A m \in Members : On(t, m) => crossed[m])
  /\ \A t \in Txns : stage[t] = "checked" /\ request[t].act = "appoint" =>
       kind[request[t].target] = "human" \/ crossed[request[t].target]

LEMMA GuestInit == Init => GuestInv
  BY AdministratorConstants DEF Init, GuestInv

(* What a commit does to the other transactions. *)
LEMMA CommitMarks ==
  ASSUME TypeOK, NEW t \in Txns, Commit(t)
  PROVE  /\ \A m \in Members : crossed[m] => crossed'[m]
         /\ \A u \in Txns \ {t}, m \in Members :
              stage[u] = "checked" /\ On(t, m) /\ On(u, m) => crossed'[m]
         /\ ~late'[t] /\ stage'[t] = "idle"
         /\ \A u \in Txns \ {t} :
              stage'[u] = stage[u] /\ request'[u] = request[u]
         /\ \A u \in Txns \ {t} : late'[u] =>
              /\ stage[u] = "checked"
              /\ late[u] \/ (/\ request[t].act = "appoint"
                             /\ On(u, request[t].target))
<1>1. \A m \in Members : crossed'[m] <=>
        crossed[m] \/ (On(t, m) /\ \E u \in Txns \ {t} :
                                     stage[u] = "checked" /\ On(u, m))
  BY Zenon DEF Commit
<1>2. \A u \in Txns : late'[u] <=>
        u # t /\ stage[u] = "checked" /\
          (late[u] \/ (request[t].act = "appoint" /\ ~already[t]
                         /\ On(u, request[t].target)))
  BY Zenon DEF Commit
<1>3. /\ stage'[t] = "idle"
      /\ \A u \in Txns \ {t} : stage'[u] = stage[u] /\ request'[u] = request[u]
  BY DEF Commit, Rest, TypeOK
<1>. QED
  BY <1>1, <1>2, <1>3

(* A write changes kind and binding of its target only; it makes a guest   *)
(* by stripping the bindings it sees, and binds nobody but an appointee.   *)
LEMMA WriteMarks ==
  ASSUME TypeOK, NEW t \in Txns, Write(t)
  PROVE  /\ Commit(t) /\ stage[t] = "checked"
         /\ \A m \in Members :
              kind'[m] # kind[m] => kind'[m] = "guest" /\ On(t, m)
                                      /\ (bound'[m] => late[t])
         /\ \A m \in Members : bound'[m] /\ ~bound[m] =>
              request[t].act = "appoint" /\ On(t, m)
<1> DEFINE x == request[t].target
<1>1. Commit(t) /\ stage[t] = "checked"
  BY DEF Write, Suspend, Restore, ConvertToGuest, Erase, Appoint, Dismiss,
         AssignRole, SetRolePermission, Asks
<1>2. CASE ConvertToGuest(t)
  <2>1. PICK missed \in {FALSE, late[t]} :
          bound' = [bound EXCEPT ![x] = @ /\ missed]
    BY <1>2 DEF ConvertToGuest
  <2>2. /\ \A m \in Members : bound'[m] => bound[m]
        /\ x \in Members => (bound'[x] => late[t])
    BY <2>1, Zenon DEF TypeOK
  <2>3. /\ \A m \in Members : m # x => kind'[m] = kind[m]
        /\ x \in Members => kind'[x] = "guest"
        /\ On(t, x)
    BY <1>2 DEF ConvertToGuest, TypeOK, Asks, On
  <2>. QED
    BY <1>1, <2>2, <2>3
<1>3. CASE Appoint(t)
  <2>1. kind' = kind /\ request[t].act = "appoint" /\ On(t, x)
    BY <1>3 DEF Appoint, Asks, On
  <2>2. \A m \in Members : m # x => bound'[m] = bound[m]
    BY <1>3 DEF Appoint, TypeOK
  <2>. QED
    BY <1>1, <2>1, <2>2
<1>4. CASE Dismiss(t)
  <2>1. kind' = kind
    BY <1>4 DEF Dismiss
  <2>2. \A m \in Members : bound'[m] => bound[m]
    BY <1>4, Zenon DEF Dismiss, TypeOK
  <2>. QED
    BY <1>1, <2>1, <2>2
<1>5. CASE UNCHANGED <<kind, bound>>
  BY <1>1, <1>5
<1>. QED
  BY <1>2, <1>3, <1>4, <1>5
     DEF Write, Suspend, Restore, Erase, AssignRole, SetRolePermission

LEMMA GuestStep == TypeOK /\ GuestInv /\ [Next]_vars => GuestInv'
<1>. SUFFICES ASSUME TypeOK, GuestInv, [Next]_vars PROVE GuestInv'
  OBVIOUS
<1>1. ASSUME NEW t \in Txns, NEW a \in Members \cup {Directory},
             NEW q \in Requests, Authorise(t, a, q)
      PROVE  GuestInv'
  <2>1. /\ UNCHANGED <<kind, bound, late, crossed>> /\ stage[t] = "idle"
        /\ stage' = [stage EXCEPT ![t] = "authorised"]
        /\ request' = [request EXCEPT ![t] = q]
    BY <1>1 DEF Authorise, access
  <2>2. /\ stage'[t] = "authorised" /\ ~late[t]
        /\ \A u \in Txns \ {t} : stage'[u] = stage[u] /\ request'[u] = request[u]
    BY <2>1 DEF GuestInv, TypeOK
  <2>. QED
    BY <2>1, <2>2 DEF GuestInv, On
<1>2. ASSUME NEW t \in Txns, Check(t) PROVE GuestInv'
  <2>1. /\ UNCHANGED <<kind, bound, late, crossed, request>>
        /\ stage' = [stage EXCEPT ![t] = "checked"]
        /\ request[t].act = "appoint" => kind[request[t].target] = "human"
    BY <1>2 DEF Check, Permitted, access
  <2>. QED
    BY <2>1 DEF GuestInv, On, TypeOK
<1>3. ASSUME NEW t \in Txns, Write(t) PROVE GuestInv'
  <2>1. Commit(t) /\ stage[t] = "checked"
    BY <1>3, WriteMarks
  <2>2. \A m \in Members : crossed[m] => crossed'[m]
    BY <2>1, CommitMarks
  <2>3. ASSUME NEW m \in Members, kind'[m] = "guest", bound'[m]
        PROVE  crossed'[m]
    <3>1. CASE kind'[m] # kind[m]
      <4>1. late[t] /\ On(t, m)
        BY <1>3, <2>3, <3>1, WriteMarks
      <4>. QED
        BY <2>2, <4>1 DEF GuestInv
    <3>2. CASE kind[m] = "guest" /\ ~bound[m]
      <4>1. request[t].act = "appoint" /\ On(t, m)
        BY <1>3, <2>3, <3>2, WriteMarks
      <4>2. request[t].target = m
        BY <4>1 DEF On
      <4>. QED
        BY <2>1, <2>2, <3>2, <4>1, <4>2 DEF GuestInv
    <3>3. CASE kind[m] = "guest" /\ bound[m]
      BY <2>2, <3>3 DEF GuestInv
    <3>. QED
      BY <2>3, <3>1, <3>2, <3>3
  <2>4. ASSUME NEW u \in Txns, late'[u]
        PROVE  stage'[u] = "checked" /\ \A m \in Members : On(u, m)' => crossed'[m]
    <3>1. /\ u # t /\ stage[u] = "checked" /\ stage'[u] = stage[u]
          /\ request'[u] = request[u]
          /\ late[u] \/ (request[t].act = "appoint" /\ On(u, request[t].target))
      BY <2>1, <2>4, CommitMarks
    <3>2. CASE late[u]
      BY <2>2, <3>1, <3>2 DEF GuestInv, On
    <3>3. CASE request[t].act = "appoint" /\ On(u, request[t].target)
      <4>. SUFFICES ASSUME NEW m \in Members, On(u, m) PROVE crossed'[m]
        BY <3>1 DEF On
      <4>1. On(t, m)
        BY <3>3 DEF On
      <4>. QED
        BY <2>1, <3>1, <4>1, CommitMarks
    <3>. QED
      BY <3>1, <3>2, <3>3
  <2>5. ASSUME NEW u \in Txns, stage'[u] = "checked", request'[u].act = "appoint"
        PROVE  \/ kind'[request'[u].target] = "human"
               \/ crossed'[request'[u].target]
    <3>1. u # t /\ stage[u] = "checked" /\ request'[u] = request[u]
      BY <2>1, <2>5, CommitMarks
    <3> DEFINE m == request[u].target
    <3>2. m \in Members /\ On(u, m)
      BY <2>5, <3>1, RequestKinds DEF TypeOK, On
    <3>3. CASE kind'[m] = kind[m]
      BY <2>2, <2>5, <3>1, <3>2, <3>3 DEF GuestInv
    <3>4. CASE kind'[m] # kind[m]
      <4>1. On(t, m)
        BY <1>3, <3>2, <3>4, WriteMarks
      <4>2. crossed'[m]
        BY <2>1, <3>1, <3>2, <4>1, CommitMarks
      <4>. QED
        BY <3>1, <4>2
    <3>. QED
      BY <3>3, <3>4
  <2>. QED
    BY <2>3, <2>4, <2>5 DEF GuestInv
<1>4. ASSUME NEW t \in Txns, Rollback(t) PROVE GuestInv'
  <2>1. /\ UNCHANGED <<kind, bound, crossed>>
        /\ stage'[t] = "idle" /\ ~late'[t]
        /\ \A u \in Txns \ {t} : /\ stage'[u] = stage[u]
                                 /\ request'[u] = request[u]
                                 /\ late'[u] = late[u]
    BY <1>4 DEF Rollback, Rest, access, TypeOK
  <2>. QED
    BY <2>1 DEF GuestInv, On
<1>5. CASE UNCHANGED vars
  BY <1>5 DEF GuestInv, On, vars, access, txns
<1>. QED
  BY <1>1, <1>2, <1>3, <1>4, <1>5 DEF Next

(* Nobody is a guest and holds full access, unless an operation on the     *)
(* same member committed between the reads and the write of another.       *)
THEOREM GuestsAdministerNothing == Spec => []GuestsHoldNothing
<1>1. GuestInv => GuestsHoldNothing
  BY DEF GuestInv, GuestsHoldNothing, HoldsFull
<1>. QED
  BY <1>1, GuestInit, GuestStep, TypeCorrect, PTL DEF Spec
=============================================================================
