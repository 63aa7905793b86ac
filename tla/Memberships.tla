----------------------------- MODULE Memberships -----------------------------
(***************************************************************************)
(* Who may act on one trip: its owner, its members with their roles and    *)
(* its invitations, and the API requests that change them concurrently     *)
(* (src/internal/memberships, trips.Delete, the sign-in of internal/auth). *)
(*                                                                         *)
(* A request runs in the server as a process: the service reads the        *)
(* caller's role with a statement of its own, then the repository runs     *)
(* either one autocommitted statement or one transaction.  PostgreSQL runs *)
(* at READ COMMITTED, so every statement sees what is committed when it    *)
(* runs, and a step of this module is a maximal run of statements between  *)
(* which no other request can change or see anything the run touches.      *)
(* The rows a transaction has locked are tripLock and invLock; what it     *)
(* writes is published by the step that commits.  Every write filters on   *)
(* one trip, so one trip is the whole story.  Emails are in their          *)
(* normal form (lower case, trimmed) throughout.                           *)
(***************************************************************************)


CONSTANTS
  Users,          \* rows of users
  Emails,         \* normalised email addresses
  Procs,          \* requests the server can have in flight
  InvIds,         \* invitation ids; the bound on invitations ever created
  Profiles,       \* Profiles[u]: the profiles user u may sign in with
  RoleInputs,     \* the roles requests ask for
  NoUser, NoEmail, NoProc, NoInv

MemberRoles == {"editor", "member", "viewer"}
Accounts == [email : Emails \union {NoEmail}, verified : BOOLEAN]

ASSUME NoUserAssumption == NoUser \notin Users
ASSUME NoEmailAssumption == NoEmail \notin Emails
ASSUME NoProcAssumption == NoProc \notin Procs
ASSUME NoInvAssumption == NoInv \notin InvIds
ASSUME ProfilesAssumption == Profiles \in [Users -> SUBSET Accounts]
ASSUME RoleInputsAssumption == RoleInputs \subseteq MemberRoles

VARIABLES
  owner,       \* trips.owner_user_id, NoUser once the trip is deleted
  member,      \* trip_members: each user's role, "none" without a row
  account,     \* users: each user's email and whether it is verified
  rows,        \* ids of the rows of trip_invitations
  terms,       \* email and role of each invitation ever inserted
  acceptedBy,  \* accepted_by_user_id (set together with accepted_at)
  revoked,     \* ids with revoked_at set
  declined,    \* ids with declined_at set
  expired,     \* ids whose expires_at has passed
  tripLock,    \* request holding the trip's row lock
  invLock,     \* request holding each invitation's row lock
  pc,          \* the next step of each request
  req          \* what each request carries

table == <<owner, member, rows, terms, acceptedBy, revoked, declined>>
locks == <<tripLock, invLock>>
vars == <<table, account, expired, locks, pc, req>>

NoTerms == [email |-> NoEmail, role |-> "none"]

Request ==
  [user : Users \union {NoUser}, email : Emails \union {NoEmail}, target : Users \union {NoUser},
   role : MemberRoles \union {"none"}, inv : InvIds \union {NoInv}, late : BOOLEAN]

\* What a request carries: nothing yet, a new invitation, an invitation to
\* withdraw, an invitation to answer, or another user and their role.
\* Answering takes the caller's email from the sign-in and the time (late:
\* the invitation had expired by then) when the request arrives.
NoRequest ==
  [user |-> NoUser, email |-> NoEmail, target |-> NoUser, role |-> "none",
   inv |-> NoInv, late |-> FALSE]

Inviting(u, e, r, i) ==
  [user |-> u, email |-> e, target |-> NoUser, role |-> r, inv |-> i, late |-> FALSE]

Withdrawing(u, i) ==
  [user |-> u, email |-> NoEmail, target |-> NoUser, role |-> "none",
   inv |-> i, late |-> FALSE]

Answering(u, i) ==
  [user |-> u, email |-> account[u].email, target |-> NoUser, role |-> "none",
   inv |-> i, late |-> i \in expired]

Concerning(u, t, r) ==
  [user |-> u, email |-> NoEmail, target |-> t, role |-> r,
   inv |-> NoInv, late |-> FALSE]

Steps ==
  {"idle", "create_lock", "create_revoke", "create_insert", "revoke",
   "accept_lock", "accept_read", "accept_write", "decline", "update_role",
   "remove_member", "transfer_lock", "transfer_write", "delete"}

TypeOK ==
  /\ owner \in Users \union {NoUser}
  /\ member \in [Users -> MemberRoles \union {"none"}]
  /\ account \in [Users -> Accounts]
  /\ rows \subseteq InvIds
  /\ terms \in [InvIds -> [email : Emails \union {NoEmail},
                           role : MemberRoles \union {"none"}]]
  /\ acceptedBy \in [InvIds -> Users \union {NoUser}]
  /\ revoked \subseteq InvIds
  /\ declined \subseteq InvIds
  /\ expired \subseteq InvIds
  /\ tripLock \in Procs \union {NoProc}
  /\ invLock \in [InvIds -> Procs \union {NoProc}]
  /\ pc \in [Procs -> Steps]
  /\ req \in [Procs -> Request]

-----------------------------------------------------------------------------
(***************************************************************************)
(* Reads.                                                                  *)
(***************************************************************************)
TripExists == owner # NoUser

\* Repository.Role: the owner column wins over a member row; "none" is 404.
RoleOf(u) == IF owner = u THEN "owner" ELSE member[u]

\* The predicate every write to an undecided invitation carries.
Active(i) ==
  i \in rows /\ acceptedBy[i] = NoUser /\ i \notin revoked /\ i \notin declined

ActiveFor(e) == {i \in InvIds : Active(i) /\ terms[i].email = e}

\* CreateInvitation's EXISTS: some account with this email takes part,
\* whether or not its email is verified.
AlreadyParticipant(e) ==
  \E u \in Users : account[u].email = e /\ (u = owner \/ member[u] # "none")

VerifiedEmail(u) == account[u].verified /\ account[u].email # NoEmail

\* No request is about to insert this id and none ever did.
FreshId(i) ==
  /\ terms[i] = NoTerms
  /\ \A p \in Procs :
       pc[p] \in {"create_lock", "create_revoke", "create_insert"} => req[p].inv # i

Unlocked(i) == invLock[i] = NoProc

-----------------------------------------------------------------------------
(***************************************************************************)
(* The transaction of a request: BEGIN ... COMMIT or ROLLBACK.             *)
(***************************************************************************)
Begin(p, r, step) ==
  /\ pc[p] = "idle"
  /\ req' = [req EXCEPT ![p] = r]
  /\ pc' = [pc EXCEPT ![p] = step]
  /\ UNCHANGED <<table, account, expired, locks>>

Goto(p, step) == pc' = [pc EXCEPT ![p] = step] /\ req' = req

\* Slip: the SELECT lacks FOR UPDATE.
LockTripUnlocked(p) == tripLock' = tripLock

\* SELECT ... FROM trips WHERE id=$1 FOR UPDATE: waits for the holder.
LockTrip(p) == tripLock = NoProc /\ tripLock' = p

\* End of the request: COMMIT or ROLLBACK gives every row lock back.
Finish(p) ==
  /\ pc' = [pc EXCEPT ![p] = "idle"]
  /\ req' = [req EXCEPT ![p] = NoRequest]
  /\ tripLock' = IF tripLock = p THEN NoProc ELSE tripLock
  /\ invLock' = [i \in InvIds |-> IF invLock[i] = p THEN NoProc ELSE invLock[i]]

\* Slip: an error return that forgets the rollback.
RefuseLeaking(p) ==
  /\ pc' = [pc EXCEPT ![p] = "idle"]
  /\ req' = [req EXCEPT ![p] = NoRequest]
  /\ UNCHANGED <<table, locks>>

\* An error return: the deferred Rollback, nothing written.
Refuse(p) == Finish(p) /\ UNCHANGED table

-----------------------------------------------------------------------------
(***************************************************************************)
(* POST /trips/{id}/invitations: Service and Repository.CreateInvitation.  *)
(***************************************************************************)
StartCreate(p) ==
  \E u \in Users, e \in Emails, r \in RoleInputs, i \in InvIds :
    /\ RoleOf(u) = "owner"
    /\ FreshId(i)
    /\ Begin(p, Inviting(u, e, r, i), "create_lock")

CreateLock(p) ==
  /\ pc[p] = "create_lock"
  /\ tripLock = NoProc
  /\ IF owner = req[p].user /\ ~AlreadyParticipant(req[p].email)
       THEN /\ LockTrip(p)
            /\ Goto(p, "create_revoke")
            /\ UNCHANGED <<table, invLock>>
       ELSE Refuse(p)
  /\ UNCHANGED <<account, expired>>

\* The UPDATE that revokes earlier active invitations locks their rows.
CreateRevoke(p) ==
  /\ pc[p] = "create_revoke"
  /\ LET prior == ActiveFor(req[p].email)
     IN /\ \A i \in prior : Unlocked(i)
        /\ invLock' = [i \in InvIds |-> IF i \in prior THEN p ELSE invLock[i]]
  /\ Goto(p, "create_insert")
  /\ UNCHANGED <<table, account, expired, tripLock>>

\* What the unique index on active (trip, email) still sees of other requests.
Collides(p) == \E i \in ActiveFor(req[p].email) : invLock[i] # p

CreateInsert(p) ==
  /\ pc[p] = "create_insert"
  /\ IF Collides(p)
       THEN Refuse(p)
       ELSE LET new == req[p].inv
            IN /\ rows' = rows \union {new}
               /\ terms' = [terms EXCEPT ![new] = [email |-> req[p].email,
                                                   role |-> req[p].role]]
               /\ revoked' = revoked \union {i \in InvIds : invLock[i] = p}
               /\ Finish(p)
               /\ UNCHANGED <<owner, member, acceptedBy, declined>>
  /\ UNCHANGED <<account, expired>>

(***************************************************************************)
(* DELETE /trips/{id}/invitations/{inv}: one conditional UPDATE.           *)
(***************************************************************************)
StartRevoke(p) ==
  \E u \in Users, i \in rows :
    /\ RoleOf(u) = "owner"
    /\ Begin(p, Withdrawing(u, i), "revoke")

Revoke(p) ==
  /\ pc[p] = "revoke"
  /\ Unlocked(req[p].inv)
  /\ revoked' = IF Active(req[p].inv) THEN revoked \union {req[p].inv} ELSE revoked
  /\ Finish(p)
  /\ UNCHANGED <<owner, member, account, rows, terms, acceptedBy, declined, expired>>

(***************************************************************************)
(* Accepting, by id or by token.  The time of the request is taken before  *)
(* the transaction waits for any lock.                                     *)
(***************************************************************************)
StartAccept(p) ==
  \E u \in Users, i \in rows :
    /\ VerifiedEmail(u)
    /\ Begin(p, Answering(u, i), "accept_lock")

AcceptLock(p) ==
  /\ pc[p] = "accept_lock"
  /\ tripLock = NoProc
  /\ IF TripExists
       THEN LockTrip(p) /\ Goto(p, "accept_read") /\ UNCHANGED <<table, invLock>>
       ELSE Refuse(p)
  /\ UNCHANGED <<account, expired>>

\* Slips: the replay falls through to the upsert; the email is not compared;
\* the expiry is not.
MayAcceptAgain(p) ==
  LET i == req[p].inv
  IN /\ terms[i].email = req[p].email
     /\ i \in rows \ (revoked \union declined)
     /\ acceptedBy[i] \in {NoUser, req[p].user}
     /\ ~req[p].late
     /\ owner # req[p].user

MayAcceptAnyEmail(p) ==
  Active(req[p].inv) /\ ~req[p].late /\ owner # req[p].user

MayAcceptLate(p) ==
  LET i == req[p].inv
  IN terms[i].email = req[p].email /\ Active(i) /\ owner # req[p].user

\* An accepted invitation is only replayed to its acceptor, and refused or
\* replayed alike it changes nothing.
MayAccept(p) ==
  LET i == req[p].inv
  IN /\ terms[i].email = req[p].email
     /\ Active(i)
     /\ ~req[p].late
     /\ owner # req[p].user

\* Slip: the invitation is read without FOR UPDATE.
AcceptReadUnlocked(p) ==
  /\ pc[p] = "accept_read"
  /\ IF MayAccept(p)
       THEN Goto(p, "accept_write") /\ UNCHANGED <<table, locks>>
       ELSE Refuse(p)
  /\ UNCHANGED <<account, expired>>

AcceptRead(p) ==
  /\ pc[p] = "accept_read"
  /\ Unlocked(req[p].inv)
  /\ IF MayAccept(p)
       THEN /\ invLock' = [invLock EXCEPT ![req[p].inv] = p]
            /\ Goto(p, "accept_write")
            /\ UNCHANGED <<table, tripLock>>
       ELSE Refuse(p)
  /\ UNCHANGED <<account, expired>>

\* The membership upsert, the UPDATE ... WHERE id=$1 and the COMMIT.
AcceptWrite(p) ==
  /\ pc[p] = "accept_write"
  /\ member' = [member EXCEPT ![req[p].user] = terms[req[p].inv].role]
  /\ acceptedBy' = [acceptedBy EXCEPT ![req[p].inv] = req[p].user]
  /\ Finish(p)
  /\ UNCHANGED <<owner, account, rows, terms, revoked, declined, expired>>

(***************************************************************************)
(* Declining: one conditional UPDATE with the time of the request.         *)
(***************************************************************************)
StartDecline(p) ==
  \E u \in Users, i \in rows :
    /\ VerifiedEmail(u)
    /\ Begin(p, Answering(u, i), "decline")

Decline(p) ==
  /\ pc[p] = "decline"
  /\ Unlocked(req[p].inv)
  /\ LET i == req[p].inv
         mine == Active(i) /\ terms[i].email = req[p].email /\ ~req[p].late
     IN declined' = IF mine THEN declined \union {i} ELSE declined
  /\ Finish(p)
  /\ UNCHANGED <<owner, member, account, rows, terms, acceptedBy, revoked, expired>>

-----------------------------------------------------------------------------
(***************************************************************************)
(* PATCH and DELETE /trips/{id}/members/{user}: the service checks the     *)
(* caller's role, the statement that follows does not check it again.      *)
(***************************************************************************)
StartUpdateRole(p) ==
  \E u, t \in Users, r \in RoleInputs :
    /\ RoleOf(u) = "owner"
    /\ u # t
    /\ Begin(p, Concerning(u, t, r), "update_role")

UpdateRole(p) ==
  /\ pc[p] = "update_role"
  /\ LET t == req[p].target
     IN member' = [member EXCEPT ![t] = IF @ = "none" THEN "none" ELSE req[p].role]
  /\ Finish(p)
  /\ UNCHANGED <<owner, account, rows, terms, acceptedBy, revoked, declined, expired>>

\* The owner may remove anyone but themselves; others may only leave.
StartRemoveMember(p) ==
  \E u, t \in Users :
    /\ RoleOf(u) # "none"
    /\ (RoleOf(u) = "owner") # (u = t)
    /\ Begin(p, Concerning(u, t, "none"), "remove_member")

RemoveMember(p) ==
  /\ pc[p] = "remove_member"
  /\ member' = [member EXCEPT ![req[p].target] = "none"]
  /\ Finish(p)
  /\ UNCHANGED <<owner, account, rows, terms, acceptedBy, revoked, declined, expired>>

(***************************************************************************)
(* POST /trips/{id}/transfer-ownership.  The target's row is looked up     *)
(* under the trip lock but is not itself locked.                           *)
(***************************************************************************)
StartTransfer(p) ==
  \E u, t \in Users :
    /\ RoleOf(u) = "owner"
    /\ u # t
    /\ Begin(p, Concerning(u, t, "none"), "transfer_lock")

TransferLock(p) ==
  /\ pc[p] = "transfer_lock"
  /\ tripLock = NoProc
  /\ IF owner = req[p].user /\ member[req[p].target] # "none"
       THEN LockTrip(p) /\ Goto(p, "transfer_write") /\ UNCHANGED <<table, invLock>>
       ELSE Refuse(p)
  /\ UNCHANGED <<account, expired>>

\* Slip: the new owner keeps the member row.
TransferWriteKeepingRow(p) ==
  /\ pc[p] = "transfer_write"
  /\ member' = [member EXCEPT ![req[p].user] = "editor"]
  /\ owner' = req[p].target
  /\ Finish(p)
  /\ UNCHANGED <<account, rows, terms, acceptedBy, revoked, declined, expired>>

\* Upsert the old owner, delete the new owner's row, move the owner, COMMIT.
TransferWrite(p) ==
  /\ pc[p] = "transfer_write"
  /\ member' = [member EXCEPT ![req[p].user] = "editor", ![req[p].target] = "none"]
  /\ owner' = req[p].target
  /\ Finish(p)
  /\ UNCHANGED <<account, rows, terms, acceptedBy, revoked, declined, expired>>

(***************************************************************************)
(* DELETE /trips/{id}: lock, recheck the owner, delete with its cascade.   *)
(* The cascade needs the rows of the trip's invitations too.               *)
(***************************************************************************)
StartDelete(p) ==
  \E u \in Users :
    /\ RoleOf(u) = "owner"
    /\ Begin(p, Concerning(u, NoUser, "none"), "delete")

DeleteTrip(p) ==
  /\ pc[p] = "delete"
  /\ tripLock = NoProc
  /\ \A i \in rows : Unlocked(i)
  /\ IF owner = req[p].user
       THEN /\ owner' = NoUser
            /\ member' = [u \in Users |-> "none"]
            /\ rows' = {}
            /\ Finish(p)
            /\ UNCHANGED <<terms, acceptedBy, revoked, declined>>
       ELSE Refuse(p)
  /\ UNCHANGED <<account, expired>>

-----------------------------------------------------------------------------
(***************************************************************************)
(* The environment: a sign-in rewrites the user's email columns, time      *)
(* passes, and the 25 second timeout, a disconnect or a crash of the       *)
(* server ends a request anywhere before its commit.                       *)
(***************************************************************************)
SignIn(u) ==
  /\ \E a \in Profiles[u] : account' = [account EXCEPT ![u] = a]
  /\ UNCHANGED <<table, expired, locks, pc, req>>

Expire(i) ==
  /\ i \in rows \ expired
  /\ expired' = expired \union {i}
  /\ UNCHANGED <<table, account, locks, pc, req>>

Abort(p) ==
  /\ pc[p] # "idle"
  /\ Refuse(p)
  /\ UNCHANGED <<account, expired>>

\* A trip with members who have joined already and no invitation pending.
Init ==
  /\ owner \in Users
  /\ member \in [Users -> RoleInputs \union {"none"}]
  /\ member[owner] = "none"
  /\ account \in [Users -> Accounts]
  /\ \A u \in Users : account[u] \in Profiles[u]
  /\ rows = {}
  /\ terms = [i \in InvIds |-> NoTerms]
  /\ acceptedBy = [i \in InvIds |-> NoUser]
  /\ revoked = {}
  /\ declined = {}
  /\ expired = {}
  /\ tripLock = NoProc
  /\ invLock = [i \in InvIds |-> NoProc]
  /\ pc = [p \in Procs |-> "idle"]
  /\ req = [p \in Procs |-> NoRequest]

Start(p) ==
  \/ StartCreate(p) \/ StartRevoke(p) \/ StartAccept(p) \/ StartDecline(p)
  \/ StartUpdateRole(p) \/ StartRemoveMember(p) \/ StartTransfer(p) \/ StartDelete(p)

Step(p) ==
  \/ CreateLock(p) \/ CreateRevoke(p) \/ CreateInsert(p)
  \/ Revoke(p)
  \/ AcceptLock(p) \/ AcceptRead(p) \/ AcceptWrite(p)
  \/ Decline(p)
  \/ UpdateRole(p) \/ RemoveMember(p)
  \/ TransferLock(p) \/ TransferWrite(p)
  \/ DeleteTrip(p)

Next ==
  \/ \E p \in Procs : Start(p) \/ Step(p) \/ Abort(p)
  \/ \E u \in Users : SignIn(u)
  \/ \E i \in InvIds : Expire(i)

Spec == Init /\ [][Next]_vars

\* A request that is running keeps running, and PostgreSQL grants a row lock
\* in the order of the queue, so a waiting request is not passed for ever.
\* Nothing obliges a user to send a request or a request to be cancelled.
FairSpec == Spec /\ \A p \in Procs : SF_vars(Step(p))

-----------------------------------------------------------------------------
(***************************************************************************)
(* Properties.                                                             *)
(***************************************************************************)

\* The owner never also has a row in trip_members: ListMembers would list
\* them twice and a removal of that row would look like the owner leaving.
\* Accepting checks the owner under the trip lock, transferring deletes the
\* new owner's row, and no other request may bring one back.
OwnerHasNoMemberRow == \A u \in Users : owner = u => member[u] = "none"

\* Accepting, declining, revoking and replacing race on one invitation; only
\* one of them decides it.  The acceptance writes without a condition what
\* it decided on a row it read earlier.
OneDecision ==
  \A i \in InvIds :
    /\ acceptedBy[i] # NoUser => i \notin revoked \union declined
    /\ i \notin revoked \intersect declined

\* The transaction that replaces an invitation holds every active one for the
\* same trip and email, so its INSERT never meets the partial unique index:
\* the 409 of that branch is never what an owner sees.
ReplacementNeverCollides ==
  \A p \in Procs : pc[p] = "create_insert" => ~Collides(p)

\* Whoever accepted an invitation has signed in with its email, verified,
\* whatever sign-ins, replacements and retries happened in between.
AcceptedByInvitee ==
  \A i \in InvIds : acceptedBy[i] # NoUser =>
    \E a \in Profiles[acceptedBy[i]] : a.verified /\ a.email = terms[i].email

\* The inductive invariant behind the ones above, in named parts.

CreateSteps == {"create_lock", "create_revoke", "create_insert"}
AcceptSteps == {"accept_lock", "accept_read", "accept_write"}
LockedSteps ==
  {"create_revoke", "create_insert", "accept_read", "accept_write", "transfer_write"}

\* Requests carry what their next step needs.
RequestsWellFormed ==
  \A p \in Procs :
    /\ pc[p] # "idle" => req[p].user \in Users
    /\ pc[p] \in CreateSteps \union AcceptSteps \union {"revoke", "decline"} =>
         req[p].inv \in InvIds
    /\ pc[p] \in CreateSteps =>
         req[p].email \in Emails /\ req[p].role \in MemberRoles
    /\ pc[p] \in {"transfer_lock", "transfer_write", "update_role"} =>
         req[p].target \in Users \ {req[p].user}
    /\ pc[p] = "update_role" => req[p].role \in MemberRoles

\* An id is free until its row is inserted, and meant for one request only.
IdsAreFresh ==
  /\ \A i \in InvIds : terms[i] = NoTerms =>
       i \notin rows \union revoked \union declined /\ acceptedBy[i] = NoUser
  /\ \A p, q \in Procs :
       /\ pc[p] \in CreateSteps => terms[req[p].inv] = NoTerms
       /\ pc[p] \in CreateSteps /\ pc[q] \in CreateSteps /\ p # q =>
            req[p].inv # req[q].inv

\* The trip's row lock is held by the request between its two steps, and
\* invitations are only locked by that request.
LockDiscipline ==
  /\ \A p \in Procs : pc[p] \in LockedSteps <=> tripLock = p
  /\ \A i \in InvIds : invLock[i] \in Procs =>
       pc[invLock[i]] \in {"create_insert", "accept_write"}

\* What a request found under its locks still holds when it writes.
DecidedUnderLock(p) ==
  /\ pc[p] \in {"create_revoke", "create_insert", "transfer_write"} =>
       owner = req[p].user
  /\ pc[p] = "create_insert" =>
       \A i \in InvIds : invLock[i] = p <=> i \in ActiveFor(req[p].email)
  /\ pc[p] = "accept_write" =>
       /\ \A i \in InvIds : invLock[i] = p <=> i = req[p].inv
       /\ Active(req[p].inv)
       /\ terms[req[p].inv].email = req[p].email
       /\ owner # req[p].user

StillDecided == \A p \in Procs : DecidedUnderLock(p)

\* The email a request presents comes from a verified sign-in.
PresentedVerified(u, e) == \E a \in Profiles[u] : a.verified /\ a.email = e

SignedIn ==
  /\ \A u \in Users : account[u] \in Profiles[u]
  /\ \A p \in Procs : pc[p] \in AcceptSteps =>
       PresentedVerified(req[p].user, req[p].email)

Inv ==
  /\ TypeOK
  /\ RequestsWellFormed
  /\ IdsAreFresh
  /\ LockDiscipline
  /\ StillDecided
  /\ SignedIn
  /\ OwnerHasNoMemberRow
  /\ OneDecision
  /\ AcceptedByInvitee

\* An invitation whose time was over when its addressee's request arrived is
\* neither accepted nor declined by it, however the request waits for locks.
ExpiredStaysUndecided ==
  [][\A p \in Procs : req[p].late /\ pc'[p] # pc[p] /\ pc'[p] = "idle"
       => acceptedBy' = acceptedBy /\ declined' = declined]_vars

\* How an invitation's columns read as an offer of TripAccess.
OfferState(i) ==
  CASE terms[i] = NoTerms -> "unused"
    [] terms[i] # NoTerms /\ i \notin rows -> "gone"
    [] Active(i) -> "open"
    [] i \in rows /\ acceptedBy[i] # NoUser -> "accepted"
    [] i \in rows /\ acceptedBy[i] = NoUser /\ i \in declined -> "declined"
    [] OTHER -> "revoked"

\* One successful request is one step of TripAccess and everything else is
\* invisible: the old owner is an editor in the step that names the new one,
\* an accepted invitation replayed after a removal does not let the user
\* back in, and no decision is ever taken twice or undone.
Access == INSTANCE TripAccess WITH
  Offers <- InvIds,
  role <- [u \in Users |-> RoleOf(u)],
  offer <- [i \in InvIds |-> OfferState(i)],
  to <- [i \in InvIds |-> terms[i].email],
  grants <- [i \in InvIds |-> terms[i].role]

ImplementsTripAccess == Access!Spec

\* Every request comes to an end without the help of its timeout: no request
\* keeps a row lock, and no two wait for each other.
RequestsFinish == \A p \in Procs : pc[p] # "idle" ~> pc[p] = "idle"

\* docs/backend/README.md:107 says that only the owner revokes invitations,
\* changes roles and removes others.  A request here relies on a role read
\* in an earlier statement, and the ownership may have moved on since.
OnlyOwnerManages ==
  [][\A p \in Procs :
       /\ pc[p] \in {"revoke", "update_role", "remove_member"}
       /\ pc'[p] = "idle"
       /\ <<member, revoked>>' # <<member, revoked>>
       => req[p].user \in {owner, req[p].target}]_vars

\* docs/backend/README.md:146 says that a transfer requires an existing
\* member.  The row found under the trip lock is not locked, so the member
\* can leave, or be removed, before ownership is written.
NewOwnerIsAMember ==
  [][\A u \in Users : owner' = u /\ owner # u => member[u] # "none"]_vars

=============================================================================
