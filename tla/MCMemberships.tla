---------------------------- MODULE MCMemberships ----------------------------
(***************************************************************************)
(* Small instances of Memberships for TLC: everyone but ann may use the    *)
(* address eb, and in the second choice may turn up with ea unverified.    *)
(***************************************************************************)
EXTENDS Memberships, TLC

CONSTANTS ann, bob, cat, ea, eb

Verified(e) == [email |-> e, verified |-> TRUE]
Unverified(e) == [email |-> e, verified |-> FALSE]

NoAddress == [email |-> NoEmail, verified |-> FALSE]

SharedProfiles == [u \in Users |-> {IF u = ann THEN NoAddress ELSE Verified(eb)}]

ChangingProfiles ==
  [u \in Users |-> IF u = ann THEN {NoAddress} ELSE {Verified(eb), Unverified(ea)}]

Symm == Permutations(Procs) \union Permutations(InvIds)
=============================================================================
