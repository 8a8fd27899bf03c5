--------------------------- MODULE MCAdministrators ---------------------------
(* Administrators on a workspace of a founder and two or three others. *)
EXTENDS Administrators, TLC

(* Everything but granting full access to a role other than the default. *)
MCRequests == AllRequests \
  [act : {"setPermission"}, role : {"admin"}, full : BOOLEAN]

(* The members the founder invited are alike, and so are transactions. *)
AdministratorSymmetry ==
  Permutations(Members \ {Founder}) \cup Permutations(Txns)

(* Only the revocation window reads who asked. *)
AskerView == <<access, stage, request, already, late, stale, crossed, begun>>
=============================================================================
