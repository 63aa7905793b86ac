----------------------------- MODULE TripAccess -----------------------------
(***************************************************************************)
(* What the membership component promises about one trip, without         *)
(* requests, transactions or locks: everybody has at most one role, there  *)
(* is one owner until the trip is deleted, people join only by using up an *)
(* open offer, and an offer is used, declined or withdrawn once.  Each     *)
(* action is what one successful request does.                             *)
(***************************************************************************)
CONSTANTS Users, Emails, Offers, NoEmail

VARIABLES
  role,   \* each user's role on the trip, "none" for outsiders
  offer,  \* each offer's state
  to,     \* the email each offer was made to
  grants  \* the role each offer grants

vars == <<role, offer, to, grants>>

MemberRoles == {"editor", "member", "viewer"}

Open(i) == offer[i] = "open"
\* The trip has been deleted.
Closed == \A u \in Users : role[u] # "owner"

Init ==
  /\ \E o \in Users : \E m \in [Users -> MemberRoles \union {"none"}] :
       role = [m EXCEPT ![o] = "owner"]
  /\ offer = [i \in Offers |-> "unused"]
  /\ to = [i \in Offers |-> NoEmail]
  /\ grants = [i \in Offers |-> "none"]

\* A new offer withdraws the open ones to the same address.
Invite(i, e, r) ==
  /\ ~Closed
  /\ offer[i] = "unused"
  /\ offer' = [j \in Offers |-> IF j = i THEN "open"
                                ELSE IF Open(j) /\ to[j] = e THEN "revoked"
                                ELSE offer[j]]
  /\ to' = [to EXCEPT ![i] = e]
  /\ grants' = [grants EXCEPT ![i] = r]
  /\ UNCHANGED role

\* An open offer ends without anybody joining.
Withdraw(i, how) ==
  /\ Open(i)
  /\ offer' = [offer EXCEPT ![i] = how]
  /\ UNCHANGED <<role, to, grants>>

\* Someone other than the owner uses an open offer and gets its role.
Join(i, u) ==
  /\ Open(i)
  /\ role[u] # "owner"
  /\ role' = [role EXCEPT ![u] = grants[i]]
  /\ offer' = [offer EXCEPT ![i] = "accepted"]
  /\ UNCHANGED <<to, grants>>

ChangeRole(u, r) ==
  /\ role[u] \in MemberRoles
  /\ role' = [role EXCEPT ![u] = r]
  /\ UNCHANGED <<offer, to, grants>>

Leave(u) ==
  /\ role[u] \in MemberRoles
  /\ role' = [role EXCEPT ![u] = "none"]
  /\ UNCHANGED <<offer, to, grants>>

\* Ownership moves in one step and the previous owner stays as an editor.
HandOver(u, v) ==
  /\ role[u] = "owner"
  /\ u # v
  /\ role' = [role EXCEPT ![u] = "editor", ![v] = "owner"]
  /\ UNCHANGED <<offer, to, grants>>

Close ==
  /\ ~Closed
  /\ role' = [u \in Users |-> "none"]
  /\ offer' = [i \in Offers |-> IF offer[i] = "unused" THEN "unused" ELSE "gone"]
  /\ UNCHANGED <<to, grants>>

Next ==
  \/ \E i \in Offers, e \in Emails, r \in MemberRoles : Invite(i, e, r)
  \/ \E i \in Offers, how \in {"revoked", "declined"} : Withdraw(i, how)
  \/ \E i \in Offers, u \in Users : Join(i, u)
  \/ \E u \in Users : Leave(u) \/ \E r \in MemberRoles : ChangeRole(u, r)
  \/ \E u, v \in Users : HandOver(u, v)
  \/ Close

Spec == Init /\ [][Next]_vars
=============================================================================
